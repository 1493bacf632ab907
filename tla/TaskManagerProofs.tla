------------------------- MODULE TaskManagerProofs -------------------------
(* Theorems about TaskManager, for any tasks, calls, queries and limits. *)
EXTENDS TaskManager, TLAPS

----------------------------------------------------------------------------
(* Type correctness *)

LEMMA TypeInit == Init => TypeOK
<1> SUFFICES ASSUME Init PROVE TypeOK
  OBVIOUS
<1>1. [phase |-> "idle", task |-> None, port |-> None, by |-> None, tries |-> 0] \in Trigger
  BY DEF Trigger
<1>2. query \in [Query -> Trigger]
  BY <1>1, Zenon DEF Init
<1>5. \A q \in Query : query[q].phase = "idle"
  BY DEF Init
<1>3. phase \in [Call -> {"idle", "reading", "listing", "deleting", "starting", "done", "failed"}]
  BY DEF Init
<1>6. \A i \in Call : phase[i] = "idle"
  BY DEF Init
<1>4. /\ files \in [Call -> (SUBSET Task) \cup {None}]
      /\ victims \in [Call -> SUBSET Task]
      /\ run \in [Task -> SUBSET Nat]
      /\ task_list \in [Task -> Nat \cup {None}]
  BY DEF Init
<1> QED
  BY <1>2, <1>3, <1>4, <1>5, <1>6, TaskAssumption DEF Init, TypeOK

\* A step of a query leaves the rest alone
LEMMA QueryTyped ==
  ASSUME TypeOK, NEW q \in Query, NEW r \in Trigger,
         r.phase # "idle" => r.task \in Task,
         query' = [query EXCEPT ![q] = r], UNCHANGED <<pmVars, callVars>>
  PROVE  TypeOK'
<1>1. query' \in [Query -> Trigger]
  BY DEF TypeOK
<1>2. \A s \in Query : query'[s].phase # "idle" => query'[s].task \in Task
  BY DEF TypeOK
<1> QED
  BY <1>1, <1>2 DEF TypeOK, pmVars, callVars

LEMMA TypeStep == TypeOK /\ [Next]_vars => TypeOK'
<1> SUFFICES ASSUME TypeOK, [Next]_vars PROVE TypeOK'
  OBVIOUS
<1> USE DEF TypeOK
<1>1. ASSUME NEW i \in Call, NEW F \in SUBSET Task, InitTasks(i, F) PROVE TypeOK'
  BY <1>1 DEF InitTasks, pmVars
<1>2. ASSUME NEW i \in Call, DeleteAll(i) PROVE TypeOK'
  BY <1>2 DEF DeleteAll, pmVars
<1>3. ASSUME NEW i \in Call, ReadFolder(i) PROVE TypeOK'
  BY <1>3 DEF ReadFolder, pmVars
<1>4. ASSUME NEW i \in Call, ListTasks(i) PROVE TypeOK'
  BY <1>4 DEF ListTasks, pmVars
<1>5. ASSUME NEW i \in Call, Deleted(i) PROVE TypeOK'
  BY <1>5 DEF Deleted, pmVars
<1>6. ASSUME NEW i \in Call, Finish(i) PROVE TypeOK'
  BY <1>6 DEF Finish, pmVars
<1>7. ASSUME NEW i \in Call, NEW t \in Task, DeleteTask(i, t) PROVE TypeOK'
  <2>1. run' \in [Task -> SUBSET Nat]
    BY <1>7 DEF DeleteTask
  <2> QED
    BY <1>7, <2>1 DEF DeleteTask
<1>8. ASSUME NEW i \in Call, NEW t \in Task, Launch(i, t) PROVE TypeOK'
  <2>1. PortOf(t) \in Nat /\ port_offset' \in Nat
    BY <1>8 DEF Launch, PortOf, NextOffset
  <2>2. [call |-> i, task |-> t, port |-> PortOf(t), up |-> FALSE] \in Start
    BY <2>1 DEF Start
  <2>3. flying' \subseteq Start
    BY <1>8, <2>2 DEF Launch
  <2>4. /\ files' \in [Call -> (SUBSET Task) \cup {None}]
        /\ \A j \in Call : phase'[j] = "starting" => files'[j] \in SUBSET Task
    <3>1. files[i] \ {t} \in SUBSET Task
      BY <1>8 DEF Launch
    <3> QED
      BY <1>8, <3>1 DEF Launch
  <2> QED
    BY <1>8, <2>1, <2>3, <2>4 DEF Launch
<1>9. ASSUME NEW f \in flying, Pm2Start(f) PROVE TypeOK'
  <2>1. f \in Start /\ f.task \in Task /\ f.port \in Nat
    BY DEF Start
  <2>2. [f EXCEPT !.up = TRUE] \in Start
    BY <2>1 DEF Start
  <2>3. flying' \subseteq Start
    BY <1>9, <2>2 DEF Pm2Start
  <2>4. run' \in [Task -> SUBSET Nat]
    BY <1>9, <2>1 DEF Pm2Start, EnvPort
  <2> QED
    BY <1>9, <2>3, <2>4 DEF Pm2Start, callVars
<1>10. ASSUME NEW f \in flying, Started(f) PROVE TypeOK'
  BY <1>10 DEF Started, Start, Listed, callVars
<1>11. ASSUME NEW f \in flying, StartFail(f) PROVE TypeOK'
  BY <1>11 DEF StartFail, Start
<1>12. ASSUME NEW q \in Query, NEW t \in Task, TriggerTask(q, t) PROVE TypeOK'
  <2>1. /\ [query[q] EXCEPT !.phase = "trying", !.task = t] \in Trigger
        /\ [query[q] EXCEPT !.phase = "trying", !.task = t].task = t
    BY DEF Trigger
  <2> QED
    BY <1>12, <2>1, QueryTyped DEF TriggerTask
<1>13. ASSUME NEW q \in Query, Attempt(q) PROVE TypeOK'
  <2> DEFINE r == query[q]
  <2>2. r \in Trigger /\ r.phase # "idle" /\ r.task \in Task
    BY <1>13 DEF Attempt
  <2>3. task_list[r.task] \in Nat \cup {None}
    BY <2>2
  <2> HIDE DEF r
  <2>1. /\ [r EXCEPT !.phase = "failed"] \in Trigger
        /\ [r EXCEPT !.tries = Retried(@)] \in Trigger
        /\ task_list[r.task] # None =>
             [r EXCEPT !.tries = Retried(@), !.phase = "posted",
                       !.port = task_list[r.task]] \in Trigger
    <3>1. r.tries + 1 \in Nat
      BY <2>2 DEF Trigger
    <3>2. [r EXCEPT !.phase = "failed"] \in Trigger
      BY <2>2 DEF Trigger
    <3>3. [r EXCEPT !.tries = r.tries + 1] \in Trigger
      BY <2>2, <3>1 DEF Trigger
    <3>4. task_list[r.task] # None =>
            [r EXCEPT !.tries = r.tries + 1, !.phase = "posted", !.port = task_list[r.task]]
              \in Trigger
      BY <2>2, <2>3, <3>1 DEF Trigger
    <3> QED
      BY <3>2, <3>3, <3>4, Zenon DEF Retried
  <2>4. PICK s \in Trigger : s.task = r.task /\ query' = [query EXCEPT ![q] = s]
    <3>1. /\ [r EXCEPT !.phase = "failed"].task = r.task
          /\ [r EXCEPT !.tries = Retried(@)].task = r.task
          /\ [r EXCEPT !.tries = Retried(@), !.phase = "posted",
                       !.port = task_list[r.task]].task = r.task
      BY <2>2 DEF Trigger
    <3> QED
      BY <1>13, <2>1, <3>1, Zenon DEF Attempt, r
  <2> QED
    BY <1>13, <2>2, <2>4, QueryTyped DEF Attempt
<1>14. ASSUME NEW q \in Query, NEW u \in Task, Connect(q, u) PROVE TypeOK'
  <2>1. /\ [query[q] EXCEPT !.phase = "served", !.by = u] \in Trigger
        /\ [query[q] EXCEPT !.phase = "served", !.by = u].task = query[q].task
    BY DEF Trigger
  <2>2. query[q].task \in Task
    BY <1>14 DEF Connect
  <2> QED
    BY <1>14, <2>1, <2>2, QueryTyped DEF Connect
<1>15. ASSUME NEW q \in Query, Refused(q) PROVE TypeOK'
  <2>1. /\ [query[q] EXCEPT !.phase = "trying"] \in Trigger
        /\ [query[q] EXCEPT !.phase = "trying"].task = query[q].task
    BY DEF Trigger
  <2>2. query[q].task \in Task
    BY <1>15 DEF Refused
  <2> QED
    BY <1>15, <2>1, <2>2, QueryTyped DEF Refused
<1>16. ASSUME NEW q \in Query, Answer(q) PROVE TypeOK'
  <2>1. \A p \in {"failed", "answered"} :
          /\ [query[q] EXCEPT !.phase = p] \in Trigger
          /\ [query[q] EXCEPT !.phase = p].task = query[q].task
    BY DEF Trigger
  <2>2. query[q].task \in Task
    BY <1>16 DEF Answer
  <2>3. PICK p \in {"failed", "answered"} : query' = [query EXCEPT ![q] = [@ EXCEPT !.phase = p]]
    BY <1>16 DEF Answer
  <2> QED
    BY <1>16, <2>1, <2>2, <2>3, QueryTyped DEF Answer
<1>17. CASE UNCHANGED vars
  BY <1>17 DEF vars, pmVars, callVars
<1> QED
  BY <1>1, <1>2, <1>3, <1>4, <1>5, <1>6, <1>7, <1>8, <1>9, <1>10, <1>11, <1>12, <1>13,
     <1>14, <1>15, <1>16, <1>17 DEF Next, CallStep, Pm2Step, QueryStep

\* Every value the tasks of a node go through has its type.
THEOREM TasksTyped == Spec => []TypeOK
BY TypeInit, TypeStep, PTL DEF Spec

----------------------------------------------------------------------------
(* A port never passes from one task to another *)

\* t is listed under p, or a process, a start or a query of t has p
Holds(t, p) ==
  \/ task_list[t] = p
  \/ p \in run[t]
  \/ \E f \in flying : f.task = t /\ f.port = p
  \/ \E q \in Query : query[q].task = t /\ query[q].port = p

\* The counter is ahead of every port that is held, and no two tasks hold one.
OwnPorts ==
  /\ \A t \in Task, p \in Nat : Holds(t, p) => p < port_offset
  /\ \A t, u \in Task, p \in Nat : Holds(t, p) /\ Holds(u, p) => t = u

IdleHasNoPort == \A q \in Query : query[q].phase = "idle" => query[q].port = None

PortInv == OwnPorts /\ IdleHasNoPort /\ RightTask

\* A step after which nobody holds a port it did not hold keeps OwnPorts.
LEMMA NoNewPort ==
  ASSUME OwnPorts, TypeOK, port_offset' = port_offset,
         \A t \in Task, p \in Nat : Holds(t, p)' => Holds(t, p)
  PROVE  OwnPorts'
<1>1. \A t \in Task, p \in Nat : Holds(t, p)' => p < port_offset'
  BY DEF OwnPorts
<1>2. \A t, u \in Task, p \in Nat : Holds(t, p)' /\ Holds(u, p)' => t = u
  BY DEF OwnPorts
<1> QED
  BY <1>1, <1>2 DEF OwnPorts

\* Steps of calls and of PM2 other than Launch
LEMMA PortsKept ==
  ASSUME PortInv, TypeOK, UNCHANGED <<port_offset, query>>,
         \A t \in Task : \/ task_list'[t] = task_list[t]
                         \/ \E f \in flying : f.task = t /\ f.port = task_list'[t],
         \A t \in Task : \A p \in run'[t] : \/ p \in run[t]
                                            \/ \E f \in flying : f.task = t /\ f.port = p,
         \A f \in flying' : \E g \in flying : g.task = f.task /\ g.port = f.port
  PROVE  PortInv'
<1>1. \A t \in Task, p \in Nat : Holds(t, p)' => Holds(t, p)
  BY DEF Holds
<1>2. OwnPorts'
  BY <1>1, NoNewPort DEF PortInv
<1> QED
  BY <1>2 DEF PortInv, IdleHasNoPort, RightTask

\* Steps of a query that keep its task, and take no port but the listed one
LEMMA QueryPortsKept ==
  ASSUME PortInv, TypeOK, UNCHANGED <<pmVars>>, NEW q \in Query, NEW r \in Trigger,
         query' = [query EXCEPT ![q] = r], r.task = query[q].task, r.task \in Task,
         r.phase # "idle",
         r.port = query[q].port \/ r.port = task_list[r.task],
         r.phase \in {"served", "answered"} => r.by = r.task
  PROVE  PortInv'
<1>1. /\ query'[q] = r
      /\ \A s \in Query : s # q => query'[s] = query[s]
  BY DEF TypeOK
<1>2. \A t \in Task, p \in Nat : Holds(t, p)' => Holds(t, p)
  BY <1>1 DEF Holds, pmVars
<1>3. OwnPorts'
  BY <1>2, NoNewPort DEF PortInv, pmVars
<1>4. RightTask'
  BY <1>1 DEF PortInv, RightTask
<1>5. IdleHasNoPort'
  BY <1>1 DEF PortInv, IdleHasNoPort
<1> QED
  BY <1>3, <1>4, <1>5 DEF PortInv

LEMMA PortInit == Init => PortInv
<1> SUFFICES ASSUME Init PROVE PortInv
  OBVIOUS
<1>1. \A q \in Query : query[q].phase = "idle" /\ query[q].port = None
  BY DEF Init
<1>2. \A t \in Task : task_list[t] = None /\ run[t] = {}
  BY DEF Init
<1>3. flying = {}
  BY DEF Init
<1>4. \A t \in Task, p \in Nat : ~Holds(t, p)
  BY <1>1, <1>2, <1>3, TaskAssumption DEF Holds
<1> QED
  BY <1>1, <1>4 DEF PortInv, OwnPorts, IdleHasNoPort, RightTask

LEMMA PortStep == PortInv /\ TypeOK /\ [Next]_vars => PortInv'
<1> SUFFICES ASSUME PortInv, TypeOK, [Next]_vars PROVE PortInv'
  OBVIOUS
<1>0. ASSUME UNCHANGED <<pmVars, query>> PROVE PortInv'
  BY <1>0, PortsKept DEF pmVars
<1>1. ASSUME NEW i \in Call, NEW F \in SUBSET Task, InitTasks(i, F) PROVE PortInv'
  BY <1>1, <1>0 DEF InitTasks
<1>2. ASSUME NEW i \in Call, DeleteAll(i) PROVE PortInv'
  BY <1>2, <1>0 DEF DeleteAll
<1>3. ASSUME NEW i \in Call, ReadFolder(i) PROVE PortInv'
  BY <1>3, <1>0 DEF ReadFolder
<1>4. ASSUME NEW i \in Call, ListTasks(i) PROVE PortInv'
  BY <1>4, <1>0 DEF ListTasks
<1>5. ASSUME NEW i \in Call, Deleted(i) PROVE PortInv'
  BY <1>5, <1>0 DEF Deleted
<1>6. ASSUME NEW i \in Call, Finish(i) PROVE PortInv'
  BY <1>6, <1>0 DEF Finish
<1>7. ASSUME NEW i \in Call, NEW t \in Task, DeleteTask(i, t) PROVE PortInv'
  <2>1. \A u \in Task : run'[u] \subseteq run[u]
    BY <1>7 DEF DeleteTask, TypeOK
  <2> QED
    BY <1>7, <2>1, PortsKept DEF DeleteTask
<1>8. ASSUME NEW i \in Call, NEW t \in Task, Launch(i, t) PROVE PortInv'
  <2> DEFINE f == [call |-> i, task |-> t, port |-> PortOf(t), up |-> FALSE]
  <2>1. f.task = t /\ f.port = PortOf(t)
    OBVIOUS
  <2>2. /\ flying' = flying \cup {f}
        /\ UNCHANGED <<task_list, run, query>>
        /\ port_offset' = NextOffset(t)
    BY <1>8 DEF Launch
  <2> HIDE DEF f
  <2>3. \A u \in Task, p \in Nat : Holds(u, p)' => Holds(u, p) \/ (u = t /\ p = PortOf(t))
    BY <2>1, <2>2 DEF Holds
  <2>4. CASE task_list[t] # None
    <3>1. PortOf(t) = task_list[t] /\ port_offset' = port_offset
      BY <2>2, <2>4 DEF PortOf, NextOffset
    <3>2. \A u \in Task, p \in Nat : Holds(u, p)' => Holds(u, p)
      BY <2>3, <3>1 DEF Holds
    <3>3. OwnPorts'
      BY <3>1, <3>2, NoNewPort DEF PortInv
    <3> QED
      BY <2>2, <3>3 DEF PortInv, IdleHasNoPort, RightTask
  <2>5. CASE task_list[t] = None
    <3>1. /\ PortOf(t) = port_offset /\ port_offset' = port_offset + 1
          /\ port_offset \in Nat
      BY <2>2, <2>5 DEF PortOf, NextOffset, TypeOK
    <3>2. \A u \in Task : ~Holds(u, port_offset)
      BY <3>1 DEF PortInv, OwnPorts
    <3>3. \A u \in Task, p \in Nat : Holds(u, p)' => p < port_offset'
      <4> SUFFICES ASSUME NEW u \in Task, NEW p \in Nat, Holds(u, p)'
                   PROVE  p < port_offset'
        OBVIOUS
      <4>1. CASE Holds(u, p)
        <5>1. p < port_offset
          BY <4>1 DEF PortInv, OwnPorts
        <5> QED
          BY <3>1, <5>1
      <4>2. CASE p = PortOf(t)
        BY <3>1, <4>2
      <4> QED
        BY <2>3, <4>1, <4>2
    <3>4. \A u, v \in Task, p \in Nat : Holds(u, p)' /\ Holds(v, p)' => u = v
      <4> SUFFICES ASSUME NEW u \in Task, NEW v \in Task, NEW p \in Nat,
                          Holds(u, p)', Holds(v, p)'
                   PROVE  u = v
        OBVIOUS
      <4>1. CASE p = port_offset
        BY <2>3, <3>2, <4>1
      <4>2. CASE p # port_offset
        BY <2>3, <3>1, <4>2 DEF PortInv, OwnPorts
      <4> QED
        BY <4>1, <4>2
    <3> QED
      BY <2>2, <3>3, <3>4 DEF PortInv, OwnPorts, IdleHasNoPort, RightTask
  <2> QED
    BY <2>4, <2>5
<1>9. ASSUME NEW f \in flying, Pm2Start(f) PROVE PortInv'
  <2>1. f \in Start /\ f.task \in Task /\ f.port \in Nat
    BY DEF Start, TypeOK
  <2>2. [f EXCEPT !.up = TRUE].task = f.task /\ [f EXCEPT !.up = TRUE].port = f.port
    BY <2>1 DEF Start
  <2>3. \A g \in flying' : \E h \in flying : h.task = g.task /\ h.port = g.port
    BY <1>9, <2>2 DEF Pm2Start
  <2>4. \A t \in Task : \A p \in run'[t] : \/ p \in run[t]
                                           \/ \E g \in flying : g.task = t /\ g.port = p
    BY <1>9, <2>1 DEF Pm2Start, EnvPort, TypeOK
  <2> QED
    BY <1>9, <2>3, <2>4, PortsKept DEF Pm2Start
<1>10. ASSUME NEW f \in flying, Started(f) PROVE PortInv'
  <2>1. \A t \in Task : \/ task_list'[t] = task_list[t]
                        \/ f.task = t /\ f.port = task_list'[t]
    BY <1>10 DEF Started, Listed, TypeOK
  <2> QED
    BY <1>10, <2>1, PortsKept DEF Started
<1>11. ASSUME NEW f \in flying, StartFail(f) PROVE PortInv'
  BY <1>11, PortsKept DEF StartFail
<1>12. ASSUME NEW q \in Query, NEW t \in Task, TriggerTask(q, t) PROVE PortInv'
  <2>1. /\ query[q] \in Trigger /\ query[q].port = None
    BY <1>12 DEF TriggerTask, PortInv, IdleHasNoPort, TypeOK
  <2>2. /\ query'[q].phase = "trying" /\ query'[q].port = None
        /\ \A s \in Query : s # q => query'[s] = query[s]
    BY <1>12, <2>1 DEF TriggerTask, TypeOK, Trigger
  <2>3. UNCHANGED pmVars
    BY <1>12 DEF TriggerTask
  <2>4. \A u \in Task, p \in Nat : Holds(u, p)' => Holds(u, p)
    BY <2>2, <2>3, TaskAssumption DEF Holds, pmVars
  <2>5. OwnPorts'
    BY <2>3, <2>4, NoNewPort DEF PortInv, pmVars
  <2> QED
    BY <2>2, <2>5 DEF PortInv, IdleHasNoPort, RightTask
<1>13. ASSUME NEW q \in Query, Attempt(q) PROVE PortInv'
  <2> DEFINE r == query[q]
  <2>1. r \in Trigger /\ r.phase = "trying" /\ r.task \in Task
    BY <1>13 DEF Attempt, TypeOK
  <2>2. UNCHANGED pmVars
    BY <1>13 DEF Attempt
  <2>3. PICK s \in Trigger :
          /\ query' = [query EXCEPT ![q] = s]
          /\ s.task = r.task /\ s.phase \in {"trying", "posted", "failed"}
          /\ s.port = r.port \/ s.port = task_list[r.task]
    <3> HIDE DEF r
    <3>1. r.tries + 1 \in Nat /\ task_list[r.task] \in Nat \cup {None}
      BY <2>1 DEF Trigger, TypeOK
    <3> DEFINE a == [r EXCEPT !.phase = "failed"]
               b == [r EXCEPT !.tries = r.tries + 1]
               c == [r EXCEPT !.tries = r.tries + 1, !.phase = "posted",
                              !.port = task_list[r.task]]
    <3>2. a \in Trigger /\ a.task = r.task /\ a.port = r.port /\ a.phase = "failed"
      BY <2>1 DEF Trigger
    <3>3. b \in Trigger /\ b.task = r.task /\ b.port = r.port /\ b.phase = "trying"
      BY <2>1, <3>1 DEF Trigger
    <3>4. /\ c \in Trigger /\ c.task = r.task /\ c.port = task_list[r.task]
          /\ c.phase = "posted"
      BY <2>1, <3>1 DEF Trigger
    <3>5. \/ query' = [query EXCEPT ![q] = a]
          \/ query' = [query EXCEPT ![q] = b]
          \/ query' = [query EXCEPT ![q] = c]
      BY <1>13, Zenon DEF Attempt, Retried, r
    <3> HIDE DEF a, b, c
    <3> QED
      BY <3>2, <3>3, <3>4, <3>5
  <2> HIDE DEF r
  <2>4. r.task = query[q].task /\ r.port = query[q].port
    BY DEF r
  <2> QED
    BY <2>1, <2>2, <2>3, <2>4, QueryPortsKept
<1>14. ASSUME NEW q \in Query, NEW u \in Task, Connect(q, u) PROVE PortInv'
  <2> DEFINE r == query[q]
             s == [r EXCEPT !.phase = "served", !.by = u]
  <2>1. /\ r \in Trigger /\ r.phase = "posted" /\ r.task \in Task
        /\ r.port \in run[u] /\ r.port \in Nat
    BY <1>14 DEF Connect, TypeOK
  <2>2. s \in Trigger /\ s.task = r.task /\ s.port = r.port /\ s.phase = "served" /\ s.by = u
    BY <2>1 DEF Trigger
  <2>3. Holds(u, r.port) /\ Holds(r.task, r.port)
    BY <2>1 DEF Holds
  <2>4. u = r.task
    BY <2>1, <2>3 DEF PortInv, OwnPorts
  <2>5. query' = [query EXCEPT ![q] = s] /\ UNCHANGED pmVars
    BY <1>14 DEF Connect
  <2> HIDE DEF s
  <2> QED
    BY <2>1, <2>2, <2>4, <2>5, QueryPortsKept
<1>15. ASSUME NEW q \in Query, Refused(q) PROVE PortInv'
  <2> DEFINE r == query[q]
             s == [r EXCEPT !.phase = "trying"]
  <2>1. r \in Trigger /\ r.task \in Task
    BY <1>15 DEF Refused, TypeOK
  <2>2. s \in Trigger /\ s.task = r.task /\ s.port = r.port /\ s.phase = "trying"
    BY <2>1 DEF Trigger
  <2>3. query' = [query EXCEPT ![q] = s] /\ UNCHANGED pmVars
    BY <1>15 DEF Refused
  <2> HIDE DEF s
  <2> QED
    BY <2>1, <2>2, <2>3, QueryPortsKept
<1>16. ASSUME NEW q \in Query, Answer(q) PROVE PortInv'
  <2> DEFINE r == query[q]
             s(p) == [r EXCEPT !.phase = p]
  <2>1. r \in Trigger /\ r.task \in Task /\ r.phase = "served"
    BY <1>16 DEF Answer, TypeOK
  <2>2. r.by = r.task
    BY <2>1 DEF PortInv, RightTask
  <2>3. \A p \in {"failed", "answered"} :
          /\ s(p) \in Trigger /\ s(p).task = r.task /\ s(p).port = r.port /\ s(p).phase = p
          /\ s(p).by = r.by
    BY <2>1 DEF Trigger
  <2>4. PICK p \in {"failed", "answered"} : query' = [query EXCEPT ![q] = s(p)]
    BY <1>16 DEF Answer
  <2>5. UNCHANGED pmVars
    BY <1>16 DEF Answer
  <2> HIDE DEF s
  <2> QED
    BY <2>1, <2>2, <2>3, <2>4, <2>5, QueryPortsKept
<1>17. CASE UNCHANGED vars
  BY <1>17, <1>0 DEF vars
<1> QED
  BY <1>1, <1>2, <1>3, <1>4, <1>5, <1>6, <1>7, <1>8, <1>9, <1>10, <1>11, <1>12, <1>13,
     <1>14, <1>15, <1>16, <1>17 DEF Next, CallStep, Pm2Step, QueryStep

\* However calls that start and delete tasks overlap or fail, a query is served by
\* a process of the task it names: triggerTask may use a port it has read earlier.
THEOREM QueriesReachTheirTask == Spec => []RightTask
<1>1. Init => PortInv /\ TypeOK
  BY PortInit, TypeInit
<1>2. PortInv /\ TypeOK /\ [Next]_vars => (PortInv /\ TypeOK)'
  BY PortStep, TypeStep
<1>3. PortInv => RightTask
  BY DEF PortInv
<1> QED
  BY <1>1, <1>2, <1>3, PTL DEF Spec

----------------------------------------------------------------------------
(* Processes have the port under which their task is listed *)

\* A task that is not irregular has one start under way at most; that start has
\* the port the task is listed under, if it is listed; and its processes have that
\* port, or the one of the start under way when PM2 has begun with it.
Regular(t) ==
  /\ \A f, g \in flying : f.task = t /\ g.task = t => f = g
  /\ \A f \in flying : f.task = t /\ task_list[t] # None => f.port = task_list[t]
  /\ \A p \in run[t] : \/ p = task_list[t]
                       \/ \E f \in flying : f.task = t /\ f.up /\ f.port = p

RegularInv == \A t \in Task \ irregular : Regular(t)

LEMMA RegularListed == RegularInv /\ TypeOK => ListedPortRuns
<1> SUFFICES ASSUME RegularInv, TypeOK, NEW t \in Task \ irregular,
                    run[t] # {}, ~IsFlying(t)
             PROVE  run[t] = {task_list[t]}
  BY DEF ListedPortRuns
<1>1. \A p \in run[t] : p = task_list[t]
  BY DEF RegularInv, Regular, IsFlying
<1> QED
  BY <1>1

LEMMA RegularInit == Init => RegularInv
BY DEF Init, RegularInv, Regular

LEMMA RegularStep == RegularInv /\ TypeOK /\ [Next]_vars => RegularInv'
<1> SUFFICES ASSUME RegularInv, TypeOK, [Next]_vars PROVE RegularInv'
  OBVIOUS
<1>0. ASSUME UNCHANGED pmVars PROVE RegularInv'
  BY <1>0 DEF RegularInv, Regular, pmVars
<1>1. ASSUME NEW i \in Call, NEW t \in Task, DeleteTask(i, t) PROVE RegularInv'
  <2>1. \A u \in Task : run'[u] \subseteq run[u]
    BY <1>1 DEF DeleteTask, TypeOK
  <2>2. UNCHANGED <<flying, task_list, irregular>>
    BY <1>1 DEF DeleteTask
  <2> QED
    BY <2>1, <2>2 DEF RegularInv, Regular
<1>2. ASSUME NEW i \in Call, NEW t \in Task, Launch(i, t) PROVE RegularInv'
  <2> DEFINE f == [call |-> i, task |-> t, port |-> PortOf(t), up |-> FALSE]
  <2>1. f.task = t /\ f.port = PortOf(t) /\ f.up = FALSE
    OBVIOUS
  <2>2. flying' = flying \cup {f} /\ UNCHANGED <<task_list, run>>
    BY <1>2 DEF Launch
  <2>3. irregular' = IF IsFlying(t) THEN irregular \cup {t} ELSE irregular
    BY <1>2 DEF Launch
  <2> HIDE DEF f
  <2> SUFFICES ASSUME NEW u \in Task \ irregular' PROVE Regular(u)'
    BY DEF RegularInv
  <2>4. u \in Task \ irregular /\ Regular(u)
    BY <2>3 DEF RegularInv
  <2>5. CASE u # t
    BY <2>1, <2>2, <2>4, <2>5 DEF Regular
  <2>6. CASE u = t
    <3>1. ~IsFlying(t)
      BY <2>3, <2>6
    <3>2. \A g \in flying' : g.task = t => g = f
      BY <2>2, <3>1 DEF IsFlying
    <3>3. task_list[t] # None => f.port = task_list[t]
      BY <2>1 DEF PortOf
    <3>4. \A p \in run[t] : p = task_list[t]
      BY <2>4, <2>6, <3>1 DEF Regular, IsFlying
    <3> QED
      BY <2>2, <2>6, <3>2, <3>3, <3>4 DEF Regular
  <2> QED
    BY <2>5, <2>6
<1>3. ASSUME NEW f \in flying, Pm2Start(f) PROVE RegularInv'
  <2> DEFINE h == [f EXCEPT !.up = TRUE]
  <2>1. f \in Start /\ f.task \in Task
    BY DEF TypeOK, Start
  <2>2. h.task = f.task /\ h.port = f.port /\ h.up = TRUE
    BY <2>1 DEF Start
  <2>3. /\ flying' = (flying \ {f}) \cup {h} /\ f.up = FALSE
        /\ UNCHANGED <<task_list, irregular>>
    BY <1>3, <2>1 DEF Pm2Start, Start
  <2>4. /\ run'[f.task] \subseteq {f.port} \cup run[f.task]
        /\ \A u \in Task : u # f.task => run'[u] = run[u]
    BY <1>3, <2>1 DEF Pm2Start, EnvPort, TypeOK
  <2> HIDE DEF h
  <2> SUFFICES ASSUME NEW u \in Task \ irregular' PROVE Regular(u)'
    BY DEF RegularInv
  <2>5. u \in Task \ irregular /\ Regular(u)
    BY <2>3 DEF RegularInv
  <2>6. CASE u # f.task
    BY <2>2, <2>3, <2>4, <2>5, <2>6 DEF Regular
  <2>7. CASE u = f.task
    <3>1. \A g \in flying : g.task = u => g = f
      BY <2>5, <2>7 DEF Regular
    <3>2. \A g \in flying' : g.task = u => g = h
      BY <2>3, <3>1
    <3>3. task_list[u] # None => h.port = task_list[u]
      BY <2>2, <2>5, <2>7 DEF Regular
    <3>4. \A p \in run[u] : p = task_list[u]
      BY <2>3, <2>5, <3>1 DEF Regular
    <3>5. \A p \in run'[u] : p = task_list[u] \/ p = h.port
      BY <2>2, <2>4, <2>7, <3>4
    <3>6. h \in flying' /\ h.task = u /\ h.up
      BY <2>2, <2>3, <2>7
    <3>7. task_list'[u] = task_list[u]
      BY <2>3
    <3> QED
      BY <3>2, <3>3, <3>5, <3>6, <3>7 DEF Regular
  <2> QED
    BY <2>6, <2>7
<1>4. ASSUME NEW f \in flying, Started(f) PROVE RegularInv'
  <2>1. f \in Start /\ f.task \in Task /\ f.port \in Nat
    BY DEF TypeOK, Start
  <2>2. flying' = flying \ {f} /\ UNCHANGED <<run, irregular>>
    BY <1>4 DEF Started
  <2>3. /\ task_list'[f.task] = f.port
        /\ \A u \in Task : u # f.task => task_list'[u] = task_list[u]
    BY <1>4, <2>1 DEF Started, Listed, TypeOK
  <2> SUFFICES ASSUME NEW u \in Task \ irregular' PROVE Regular(u)'
    BY DEF RegularInv
  <2>4. u \in Task \ irregular /\ Regular(u)
    BY <2>2 DEF RegularInv
  <2>5. CASE u # f.task
    BY <2>2, <2>3, <2>4, <2>5 DEF Regular
  <2>6. CASE u = f.task
    <3>1. \A g \in flying : g.task = u => g = f
      BY <2>4, <2>6 DEF Regular
    <3>2. \A g \in flying' : g.task # u
      BY <2>2, <3>1
    <3>3. \A p \in run[u] : p = f.port
      <4> SUFFICES ASSUME NEW p \in run[u] PROVE p = f.port
        OBVIOUS
      <4>1. p \in Nat
        BY DEF TypeOK
      <4>2. p = task_list[u] \/ \E g \in flying : g.task = u /\ g.port = p
        BY <2>4 DEF Regular
      <4>3. task_list[u] # None => f.port = task_list[u]
        BY <2>4, <2>6 DEF Regular
      <4> QED
        BY <3>1, <4>1, <4>2, <4>3, TaskAssumption
    <3> QED
      BY <2>2, <2>3, <2>6, <3>2, <3>3 DEF Regular
  <2> QED
    BY <2>5, <2>6
<1>5. ASSUME NEW f \in flying, StartFail(f) PROVE RegularInv'
  <2>1. flying' = flying \ {f} /\ UNCHANGED <<run, task_list>>
    BY <1>5 DEF StartFail
  <2>2. irregular' = IF f.up THEN irregular \cup {f.task} ELSE irregular
    BY <1>5 DEF StartFail
  <2> SUFFICES ASSUME NEW u \in Task \ irregular' PROVE Regular(u)'
    BY DEF RegularInv
  <2>3. u \in Task \ irregular /\ Regular(u) /\ (f.up => u # f.task)
    BY <2>2 DEF RegularInv
  <2> QED
    BY <2>1, <2>3 DEF Regular
<1>6. ASSUME NEW i \in Call, NEW F \in SUBSET Task, InitTasks(i, F) PROVE RegularInv'
  BY <1>6, <1>0 DEF InitTasks
<1>7. ASSUME NEW i \in Call,
             DeleteAll(i) \/ ReadFolder(i) \/ ListTasks(i) \/ Deleted(i) \/ Finish(i)
      PROVE  RegularInv'
  BY <1>7, <1>0 DEF DeleteAll, ReadFolder, ListTasks, Deleted, Finish
<1>8. ASSUME NEW q \in Query, QueryStep(q) \/ Answer(q) \/ \E t \in Task : TriggerTask(q, t)
      PROVE  RegularInv'
  BY <1>8, <1>0 DEF QueryStep, TriggerTask, Attempt, Connect, Refused, Answer
<1>9. CASE UNCHANGED vars
  BY <1>9, <1>0 DEF vars
<1> QED
  BY <1>1, <1>2, <1>3, <1>4, <1>5, <1>6, <1>7, <1>8, <1>9 DEF Next, CallStep, Pm2Step

\* Unless PM2 is asked to start a task that it is starting, or reports a failure
\* although the process runs, a process has the port its task is listed under:
\* the addresses that triggerTask uses are right, whatever else overlaps or fails.
THEOREM ProcessesAreListed == Spec => []ListedPortRuns
<1>1. Init => RegularInv /\ TypeOK
  BY RegularInit, TypeInit
<1>2. RegularInv /\ TypeOK /\ [Next]_vars => (RegularInv /\ TypeOK)'
  BY RegularStep, TypeStep
<1> QED
  BY <1>1, <1>2, RegularListed, PTL DEF Spec
=============================================================================
