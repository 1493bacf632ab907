---------------------------- MODULE TaskManager ----------------------------
(***************************************************************************)
(* The tasks of one node (src/tasks_manager/task_manager.js): what happens *)
(* between the calls that start or delete them, PM2 which runs them, and   *)
(* the queries that are sent to their ports.                               *)
(*                                                                         *)
(* GridSync takes the start of all tasks for one step; here it is what the *)
(* code does: read the folder, list the processes, delete them one by one, *)
(* start the files a few at a time, each with the port it is listed under  *)
(* or a new one.  Calls may overlap, and those of a failed call go on.     *)
(***************************************************************************)
EXTENDS Naturals, FiniteSets

CONSTANTS
  Task,         \* names of task files (task_id)
  Call,         \* calls of initTasks and deleteAllPM2Tasks
  Query,        \* calls of triggerTask
  PortOffset,   \* opts.port_offset
  Concurrency,  \* starts under way at a time, 5 in the code
  MaxRetry,     \* retries of triggerTask, 12 in the code
  None          \* undefined

ASSUME TaskAssumption ==
  /\ PortOffset \in Nat
  /\ Concurrency \in Nat \ {0}
  /\ MaxRetry \in Nat
  /\ None \notin Nat

Start   == [call : Call, task : Task, port : Nat, up : BOOLEAN]
Trigger == [phase : {"idle", "trying", "posted", "served", "answered", "failed"},
            task : Task \cup {None}, port : Nat \cup {None}, by : Task \cup {None},
            tries : Nat]

VARIABLES
  port_offset,  \* the next new port
  task_list,    \* [Task -> port]  what getTasks lists
  accept,       \* can_accept_queries
  phase,        \* [Call -> ...]  how far a call is
  files,        \* [Call -> SUBSET Task]  files it has still to start; None: it only deletes
  victims,      \* [Call -> SUBSET Task]  processes it has listed and not yet deleted
  flying,       \* pm2.start requests without an answer; up: PM2 runs the process
  run,          \* [Task -> SUBSET Nat]  PM2: the ports of the processes named 'task:t'
  query,        \* [Query -> Trigger]
  irregular     \* history: tasks started while an earlier start was under way, or
                \* with a process whose start PM2 has reported as failed

pmVars   == <<port_offset, task_list, flying, run, irregular>>
callVars == <<accept, phase, files, victims>>
vars     == <<pmVars, callVars, query>>

Init ==
  /\ port_offset = PortOffset
  /\ task_list = [t \in Task |-> None]
  /\ accept = FALSE
  /\ phase = [i \in Call |-> "idle"]
  /\ files = [i \in Call |-> None]
  /\ victims = [i \in Call |-> {}]
  /\ flying = {}
  /\ run = [t \in Task |-> {}]
  /\ query = [q \in Query |-> [phase |-> "idle", task |-> None, port |-> None,
                               by |-> None, tries |-> 0]]
  /\ irregular = {}

----------------------------------------------------------------------------
(* initTasks and deleteAllPM2Tasks *)

\* initTasks up to its first await, on a folder that holds the files F
InitTasks(i, F) ==
  /\ phase[i] = "idle"
  /\ phase' = [phase EXCEPT ![i] = "reading"]
  /\ files' = [files EXCEPT ![i] = F]
  /\ accept' = FALSE
  /\ UNCHANGED <<pmVars, victims, query>>

\* deleteAllPM2Tasks on its own: DELETE /tasks/clear, or the start of a 'sync'
DeleteAll(i) ==
  /\ phase[i] = "idle"
  /\ phase' = [phase EXCEPT ![i] = "listing"]
  /\ UNCHANGED <<pmVars, accept, files, victims, query>>

\* getAllTasksInFolder: the folder is read, or it cannot be
ReadFolder(i) ==
  /\ phase[i] = "reading"
  /\ \E p \in {"listing", "failed"} : phase' = [phase EXCEPT ![i] = p]
  /\ UNCHANGED <<pmVars, accept, files, victims, query>>

\* listAllPM2Tasks; pm2.list may fail
ListTasks(i) ==
  /\ phase[i] = "listing"
  /\ \E p \in {"deleting", "failed"} :
       /\ phase' = [phase EXCEPT ![i] = p]
       /\ victims' = [victims EXCEPT ![i] =
                        IF p = "failed" THEN {} ELSE {t \in Task : run[t] # {}}]
  /\ UNCHANGED <<pmVars, accept, files, query>>

\* pm2.delete, one at a time; an error, which leaves processes, counts as done
DeleteTask(i, t) ==
  /\ phase[i] = "deleting" /\ t \in victims[i]
  /\ victims' = [victims EXCEPT ![i] = @ \ {t}]
  /\ \E left \in {{}, run[t]} : run' = [run EXCEPT ![t] = left]
  /\ UNCHANGED <<port_offset, task_list, flying, irregular, accept, phase, files, query>>

Deleted(i) ==
  /\ phase[i] = "deleting" /\ victims[i] = {}
  /\ phase' = [phase EXCEPT ![i] = IF files[i] = None THEN "done" ELSE "starting"]
  /\ UNCHANGED <<pmVars, accept, files, victims, query>>

StartsOf(i)  == {f \in flying : f.call = i}
IsFlying(t)  == \E f \in flying : f.task = t

\* The port of startTask: the one the task is listed under, or the next one.  A
\* fault: the counter is read and not advanced.
PortOf(t)     == IF task_list[t] # None THEN task_list[t] ELSE port_offset
SameOffset(t) == port_offset
NextOffset(t) == IF task_list[t] # None THEN port_offset ELSE port_offset + 1

\* startTask up to pm2.start.  (The starts that bluebird.map makes in one turn
\* are separate steps here: none of them reads what another call changes for
\* another task.)
Launch(i, t) ==
  /\ phase[i] = "starting" /\ t \in files[i]
  /\ Cardinality(StartsOf(i)) < Concurrency
  /\ files' = [files EXCEPT ![i] = @ \ {t}]
  /\ flying' = flying \cup {[call |-> i, task |-> t, port |-> PortOf(t), up |-> FALSE]}
  /\ port_offset' = NextOffset(t)
  /\ irregular' = IF IsFlying(t) THEN irregular \cup {t} ELSE irregular
  /\ UNCHANGED <<task_list, run, accept, phase, victims, query>>

\* TASK_PORT in the environment of the process: a copy made when it was started.
\* A fault: the environment is shared, and holds what the last start wrote.
SharedEnv(f) == port_offset - 1
EnvPort(f)   == f.port

\* PM2 starts the process, or restarts those that have its name
Pm2Start(f) ==
  /\ ~f.up
  /\ \E others \in {{}, run[f.task]} : run' = [run EXCEPT ![f.task] = {EnvPort(f)} \cup others]
  /\ flying' = (flying \ {f}) \cup {[f EXCEPT !.up = TRUE]}
  /\ UNCHANGED <<port_offset, task_list, irregular, callVars, query>>

\* addTask: what the task is listed with.  A fault: its name for its port.
ListedName(f) == f.task
Listed(f)     == f.port

\* The answer of pm2.start
Started(f) ==
  /\ f.up
  /\ task_list' = [task_list EXCEPT ![f.task] = Listed(f)]
  /\ flying' = flying \ {f}
  /\ UNCHANGED <<port_offset, run, irregular, callVars, query>>

\* pm2.start rejects, whether or not a process runs: so does the call, which
\* starts nothing more; what it has started already goes on
StartFail(f) ==
  /\ flying' = flying \ {f}
  /\ phase' = [phase EXCEPT ![f.call] = "failed"]
  /\ irregular' = IF f.up THEN irregular \cup {f.task} ELSE irregular
  /\ UNCHANGED <<port_offset, task_list, run, accept, files, victims, query>>

\* startAllTasks resolved
Finish(i) ==
  /\ phase[i] = "starting" /\ files[i] = {} /\ StartsOf(i) = {}
  /\ phase' = [phase EXCEPT ![i] = "done"]
  /\ accept' = TRUE
  /\ UNCHANGED <<pmVars, files, victims, query>>

----------------------------------------------------------------------------
(* triggerTask *)

TriggerTask(q, t) ==
  /\ query[q].phase = "idle"
  /\ query' = [query EXCEPT ![q] = [@ EXCEPT !.phase = "trying", !.task = t]]
  /\ UNCHANGED <<pmVars, callVars>>

\* retry_count++.  A fault: every attempt starts with a new count.
FreshCount(n) == 0
Retried(n)    == n + 1

\* One attempt: a request to the listed port; with no port, another attempt later
Attempt(q) ==
  LET r == query[q]
  IN  /\ r.phase = "trying"
      /\ query' = [query EXCEPT ![q] =
           IF r.tries > MaxRetry THEN [r EXCEPT !.phase = "failed"]
           ELSE IF task_list[r.task] = None THEN [r EXCEPT !.tries = Retried(@)]
           ELSE [r EXCEPT !.tries = Retried(@), !.phase = "posted", !.port = task_list[r.task]]]
      /\ UNCHANGED <<pmVars, callVars>>

\* A process of u that has this port takes the request
Connect(q, u) ==
  /\ query[q].phase = "posted" /\ query[q].port \in run[u]
  /\ query' = [query EXCEPT ![q] = [@ EXCEPT !.phase = "served", !.by = u]]
  /\ UNCHANGED <<pmVars, callVars>>

\* ECONNREFUSED: nobody listens, or not yet
Refused(q) ==
  /\ query[q].phase = "posted"
  /\ query' = [query EXCEPT ![q] = [@ EXCEPT !.phase = "trying"]]
  /\ UNCHANGED <<pmVars, callVars>>

\* The body of the answer; or the process has died, or the body is no JSON
Answer(q) ==
  /\ query[q].phase = "served"
  /\ \E p \in {"failed"} \cup IF query[q].port \in run[query[q].by] THEN {"answered"} ELSE {} :
       query' = [query EXCEPT ![q] = [@ EXCEPT !.phase = p]]
  /\ UNCHANGED <<pmVars, callVars>>

----------------------------------------------------------------------------
CallStep(i) ==
  \/ ReadFolder(i) \/ ListTasks(i) \/ Deleted(i) \/ Finish(i)
  \/ \E t \in Task : DeleteTask(i, t) \/ Launch(i, t)
Pm2Step    == \E f \in flying : Pm2Start(f) \/ Started(f) \/ StartFail(f)
QueryStep(q) == Attempt(q) \/ Refused(q) \/ \E u \in Task : Connect(q, u)

Next ==
  \/ \E i \in Call, F \in SUBSET Task : InitTasks(i, F)
  \/ \E i \in Call : DeleteAll(i) \/ CallStep(i)
  \/ Pm2Step
  \/ \E q \in Query : QueryStep(q) \/ Answer(q) \/ \E t \in Task : TriggerTask(q, t)

Spec == Init /\ [][Next]_vars

\* PM2 answers every request, one way or the other, a port is connected to or not,
\* and timers fire.  That a task answers is not promised.
FairSpec ==
  /\ Spec
  /\ \A i \in Call : WF_vars(CallStep(i))
  /\ WF_vars(Pm2Step)
  /\ \A q \in Query : WF_vars(QueryStep(q))

----------------------------------------------------------------------------
(* Properties *)

TypeOK ==
  /\ port_offset \in Nat
  /\ task_list \in [Task -> Nat \cup {None}]
  /\ accept \in BOOLEAN
  /\ phase \in [Call -> {"idle", "reading", "listing", "deleting", "starting", "done", "failed"}]
  /\ files \in [Call -> (SUBSET Task) \cup {None}]
  /\ \A i \in Call : phase[i] = "starting" => files[i] \in SUBSET Task
  /\ victims \in [Call -> SUBSET Task]
  /\ flying \subseteq Start
  /\ run \in [Task -> SUBSET Nat]
  /\ query \in [Query -> Trigger]
  /\ \A q \in Query : query[q].phase # "idle" => query[q].task \in Task
  /\ irregular \subseteq Task

\* A query is served by the task it was meant for: whatever calls overlap or fail
\* between the read of the port and the connection, no port passes to another task.
RightTask ==
  \A q \in Query : query[q].phase \in {"served", "answered"} => query[q].by = query[q].task

\* The processes of a task have the port it is listed under, whatever overlaps or
\* fails, unless two of its starts were under way at once or one has failed
\* although its process runs (startTask lists a port only when PM2 has answered).
ListedPortRuns ==
  \A t \in Task \ irregular : run[t] # {} /\ ~IsFlying(t) => run[t] = {task_list[t]}

\* Every query reaches a process or gives up, also when its task is never started.
EveryQueryEnds ==
  \A q \in Query :
    query[q].phase = "trying" ~> query[q].phase \in {"served", "answered", "failed"}

=============================================================================
