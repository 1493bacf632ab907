------------------------------ MODULE Rollout ------------------------------
(***************************************************************************)
(* What the spreading of an application does to the tasks of a grid: the   *)
(* peers are provisioned one at a time.  A peer that has the order stops   *)
(* all its tasks, and then starts all tasks of the content that it was     *)
(* asked for, or gives up; nobody starts tasks of its own meanwhile.       *)
(* askAllPeersToSync, the 'sync' handler (gridcontrol.js) and initTasks    *)
(* are to add up to this; each of them is a chain of callbacks of its own. *)
(***************************************************************************)
CONSTANTS Node, Version, Task, TasksOf, None

VARIABLES
  orders,   \* [Node -> sequences of orders]  the content, and whether the
            \* tasks are stopped
  runs      \* [Node -> [Task -> Version or None]]  the content a task is of

Order(v, stopped) == [link |-> v, stopped |-> stopped]
Nothing           == [t \in Task |-> None]
Whole(v)          == [t \in Task |-> IF t \in TasksOf[v] THEN v ELSE None]
Parts(v)          == {f \in [Task -> {v, None}] : \A t \in Task : f[t] \in {None, Whole(v)[t]}}

Quiet == \A n \in Node : orders[n] = <<>>

Init ==
  /\ orders = [n \in Node |-> <<>>]
  /\ runs = [n \in Node |-> Nothing]

Take(n, v) ==
  /\ Quiet
  /\ orders' = [orders EXCEPT ![n] = <<Order(v, FALSE)>>]
  /\ UNCHANGED runs

Stop(n, v) ==
  /\ orders[n] = <<Order(v, FALSE)>>
  /\ orders' = [orders EXCEPT ![n] = <<Order(v, TRUE)>>]
  /\ runs' = [runs EXCEPT ![n] = Nothing]

Start(n, v) ==
  /\ orders[n] = <<Order(v, TRUE)>>
  /\ orders' = [orders EXCEPT ![n] = <<>>]
  /\ runs' = [runs EXCEPT ![n] = Whole(v)]

\* Before the tasks are stopped nothing changes; afterwards some may start.
GiveUp(n, v) ==
  /\ orders[n] \in {<<Order(v, FALSE)>>, <<Order(v, TRUE)>>}
  /\ orders' = [orders EXCEPT ![n] = <<>>]
  /\ \/ UNCHANGED runs
     \/ /\ orders[n] = <<Order(v, TRUE)>>
        /\ \E f \in Parts(v) : runs' = [runs EXCEPT ![n] = f]

\* A node starts, completely or not, what is posted to it.
Own(n, v) ==
  /\ Quiet
  /\ \E f \in Parts(v) : runs' = [runs EXCEPT ![n] = f]
  /\ UNCHANGED orders

\* The tasks are deleted by a call, or the process restarts.
Clear(n) ==
  /\ runs' = [runs EXCEPT ![n] = Nothing]
  /\ orders' \in {orders, [orders EXCEPT ![n] = <<>>]}

Next ==
  \E n \in Node :
    \/ Clear(n)
    \/ \E v \in Version :
         Take(n, v) \/ Stop(n, v) \/ Start(n, v) \/ GiveUp(n, v) \/ Own(n, v)

Spec == Init /\ [][Next]_<<orders, runs>>

=============================================================================
