------------------------------ MODULE Routing ------------------------------
(***************************************************************************)
(* How one node has its peers run tasks (src/load-balancer.js), over the   *)
(* requests of the socket router (src/network/secure-socket-router.js) and *)
(* the list of peers that src/gridcontrol.js caches.                       *)
(*                                                                         *)
(* A call for one peer takes the peers of the cached list in turn until it *)
(* meets a suitable one; a call for all of them asks every synchronized    *)
(* router.  A request over a router leaves a callback in its table and     *)
(* starts a timer.  The callback may throw: inside the handler of a reply  *)
(* nobody catches that and the process dies; inside a timer it depends on  *)
(* the version of Node whether the domain of the HTTP request is active.   *)
(***************************************************************************)
EXTENDS Integers, Sequences, FiniteSets

CONSTANTS
  Peer,       \* other nodes; a peer that comes back has a new router and counts as another
  Single,     \* calls of POST /tasks/lb_trigger_single
  Multi,      \* calls of POST /tasks/lb_trigger_all
  MaxRetry,   \* FIND_SUITABLE_PEER_RETRY, 100 in the code
  MaxSafe,    \* Number.MAX_SAFE_INTEGER
  MaxChange,  \* bound on the changes of the grid around the node
  None        \* in place of a router: the node itself

Caller == Single \cup Multi

ASSUME RoutingAssumption ==
  /\ IsFiniteSet(Peer)
  /\ Single \cap Multi = {}
  /\ None \notin Peer
  /\ MaxRetry \in Nat /\ MaxSafe \in Nat /\ MaxChange \in Nat

\* ready: the snapshot of can_accept_queries; routers are listed themselves
Entry == [peer : Peer \cup {None}, ready : BOOLEAN]

VARIABLES
  routers,     \* Seq(Peer)  socket_pool.getRouters()
  met,         \* peers that have ever been in the pool
  synced,      \* SUBSET Peer  router.identity.synchronized
  accept,      \* task_manager.can_accept_queries
  local,       \* task_manager.can_local_compute == true
  peer_list,   \* Seq(Entry)  the cached list
  rri,         \* _rri, the index of the round robin
  looks,       \* history: how often each position was looked at since the list
               \* changed its length (or the index was reset)
  phase,       \* [Caller -> {"idle", "seeking", "local", "remote", "answered"}]
  retry,       \* [Caller -> Nat]
  processing,  \* processing_tasks
  missing,     \* [Multi -> Int]  responses_nb
  written,     \* [Multi -> SUBSET Peer]  answers written to the client
  cut,         \* SUBSET Caller  answered with an error
  callbacks,   \* [Peer -> SUBSET Caller]  callbacks of a router
  timers,      \* [Peer -> SUBSET Caller]  timers of requests over a router
  wire,        \* [Caller -> [Peer -> ...]]  how far the request to the peer is
  ran,         \* [Caller -> [Peer -> Runs]]  history: runs of the callback
  alive,       \* the process has not died of an exception
  changes      \* changes of the grid so far

Wire == {"none", "asked", "lost", "used", "raised"}
Runs == [reply : Nat, timeout : Nat]

gridVars == <<routers, met, synced, accept, local, changes>>
seekVars == <<peer_list, rri, looks, retry>>
rpcVars  == <<callbacks, timers, wire, ran>>
ansVars  == <<phase, processing, missing, written, cut, alive>>
vars     == <<gridVars, seekVars, rpcVars, ansVars>>

----------------------------------------------------------------------------
(* Helpers.  A definition said to be a fault is what a bug could make of the  *)
(* definition after it.                                                      *)

InPool     == {routers[k] : k \in DOMAIN routers}
SelfBare(b) == [peer |-> None]
Self(b)    == [peer |-> None, ready |-> b]
Remote(p)  == [peer |-> p, ready |-> FALSE]
Ready(e)   == IF e.peer = None THEN e.ready ELSE e.peer \in synced
ReadyPeers == {p \in Peer : p \in synced /\ Remote(p) \in {peer_list[k] : k \in DOMAIN peer_list}}

\* What cachePeerList makes: the node itself, if it computes, and the routers
ListOf(rs, loc, acc) ==
  (IF loc THEN <<Self(acc)>> ELSE <<>>) \o [k \in DOMAIN rs |-> Remote(rs[k])]

\* _rri++ on a double.  A fault: it is not advanced.
Stuck(n)   == n
Advance(n) == IF n > MaxSafe THEN n ELSE n + 1
NoLooks(n) == [k \in 1 .. n |-> 0]

----------------------------------------------------------------------------
\* A node that has been up for a while, and has no call to answer
Init ==
  /\ routers \in {s \in UNION {[1 .. n -> Peer] : n \in 0 .. Cardinality(Peer)} :
                    \A j, k \in DOMAIN s : s[j] = s[k] => j = k}
  /\ met = InPool
  /\ synced \in SUBSET met
  /\ accept \in BOOLEAN /\ local \in BOOLEAN
  /\ peer_list = ListOf(routers, local, accept)
  /\ rri \in 0 .. MaxSafe /\ looks = NoLooks(Len(peer_list))
  /\ phase = [r \in Caller |-> "idle"]
  /\ retry = [r \in Caller |-> 0]
  /\ processing = {} /\ cut = {}
  /\ missing = [r \in Multi |-> 0]
  /\ written = [r \in Multi |-> {}]
  /\ callbacks = [p \in Peer |-> {}] /\ timers = [p \in Peer |-> {}]
  /\ wire = [r \in Caller |-> [p \in Peer |-> "none"]]
  /\ ran = [r \in Caller |-> [p \in Peer |-> [reply |-> 0, timeout |-> 0]]]
  /\ alive = TRUE
  /\ changes = 0

----------------------------------------------------------------------------
(* The grid around the node *)

Change == alive /\ changes < MaxChange /\ changes' = changes + 1

Connect(p) ==
  /\ Change /\ p \notin met
  /\ met' = met \cup {p}
  /\ routers' = Append(routers, p)
  /\ UNCHANGED <<synced, accept, local, seekVars, rpcVars, ansVars>>

\* The router leaves the pool; what is under way over it is lost
Close(p) ==
  /\ Change /\ p \in InPool
  /\ \E k \in DOMAIN routers :
       /\ routers[k] = p
       /\ routers' = SubSeq(routers, 1, k - 1) \o SubSeq(routers, k + 1, Len(routers))
  /\ wire' = [r \in Caller |-> [wire[r] EXCEPT ![p] = IF @ = "asked" THEN "lost" ELSE @]]
  /\ UNCHANGED <<met, synced, accept, local, seekVars, callbacks, timers, ran, ansVars>>

\* POST /tasks/init, or 'sync': tasks are started again
TasksInit ==
  /\ Change
  /\ accept' = FALSE
  /\ local' \in BOOLEAN
  /\ synced' \in {synced, synced \ InPool}
  /\ UNCHANGED <<routers, met, seekVars, rpcVars, ansVars>>

TasksStarted ==
  /\ Change /\ ~accept
  /\ accept' = TRUE
  /\ UNCHANGED <<routers, met, synced, local, seekVars, rpcVars, ansVars>>

\* 'sync:done'
PeerSynced(p) ==
  /\ Change /\ p \in InPool \ synced
  /\ synced' = synced \cup {p}
  /\ UNCHANGED <<routers, met, accept, local, seekVars, rpcVars, ansVars>>

\* The worker that caches the list, every 500 ms
CachePeerList ==
  /\ alive
  /\ peer_list' = ListOf(routers, local, accept)
  /\ peer_list' # peer_list
  /\ looks' = IF Len(peer_list') = Len(peer_list) THEN looks ELSE NoLooks(Len(peer_list'))
  /\ UNCHANGED <<gridVars, rri, retry, rpcVars, ansVars>>

----------------------------------------------------------------------------
(* The search for a peer *)

\* route, up to the first look at the list: the index is kept a safe integer
Route(r) ==
  /\ alive /\ r \in Single /\ phase[r] = "idle"
  /\ phase' = [phase EXCEPT ![r] = "seeking"]
  /\ IF rri > MaxSafe THEN rri' = 0 /\ looks' = NoLooks(Len(peer_list))
                      ELSE UNCHANGED <<rri, looks>>
  /\ UNCHANGED <<gridVars, peer_list, retry, rpcVars, processing, missing, written, cut,
                 alive>>

Broadcast(r) ==
  /\ alive /\ r \in Multi /\ phase[r] = "idle"
  /\ phase' = [phase EXCEPT ![r] = "seeking"]
  /\ UNCHANGED <<gridVars, seekVars, rpcVars, processing, missing, written, cut, alive>>

\* r is answered with an error: too many retries, or no such task
AnswerError(r) ==
  /\ phase' = [phase EXCEPT ![r] = "answered"]
  /\ cut' = cut \cup {r}
  /\ UNCHANGED <<rpcVars, processing, missing, written, alive>>

GiveUp(r) ==
  /\ alive /\ phase[r] = "seeking" /\ retry[r] > MaxRetry
  /\ AnswerError(r)
  /\ UNCHANGED <<gridVars, seekVars>>

\* r sends 'trigger' over the routers P: a callback and a timer each.  What is
\* written to a router that has closed is lost.
Ask(r, P) ==
  /\ callbacks' = [p \in Peer |-> IF p \in P THEN callbacks[p] \cup {r} ELSE callbacks[p]]
  /\ timers' = [p \in Peer |-> IF p \in P THEN timers[p] \cup {r} ELSE timers[p]]
  /\ wire' = [wire EXCEPT ![r] = [p \in Peer |->
                IF p \notin P THEN wire[r][p] ELSE IF p \in InPool THEN "asked" ELSE "lost"]]
  /\ phase' = [phase EXCEPT ![r] = "remote"]
  /\ processing' = processing \cup {r}
  /\ UNCHANGED ran

\* A fault: nobody deletes the entry.
StillProcessing(r) == processing
Processed(r)       == processing \ {r}

Position == (rri % Len(peer_list)) + 1

\* findSuitablePeer: the next entry of the list, and what route does with it
Look(r) ==
  /\ alive /\ r \in Single /\ phase[r] = "seeking" /\ ~(retry[r] > MaxRetry)
  /\ retry' = [retry EXCEPT ![r] = @ + 1]
  /\ peer_list # <<>>
  /\ rri' = Advance(rri)
  /\ looks' = [looks EXCEPT ![Position] = @ + 1]
  /\ LET e == peer_list[Position]
     IN  \/ ~Ready(e) /\ UNCHANGED <<rpcVars, ansVars>>
         \/ Ready(e) /\ AnswerError(r)
         \/ /\ Ready(e) /\ e.peer = None
            /\ phase' = [phase EXCEPT ![r] = "local"]
            /\ processing' = processing \cup {r}
            /\ UNCHANGED <<rpcVars, missing, written, cut, alive>>
         \/ /\ Ready(e) /\ e.peer # None
            /\ Ask(r, {e.peer})
            /\ UNCHANGED <<missing, written, cut, alive>>
  /\ UNCHANGED <<gridVars, peer_list>>

\* responses_nb.  A fault: the node itself is counted.
CountList(P) == Cardinality(P) - 1
CountPeers(P) == Cardinality(P)

\* findSynchronizedPeers: all synchronized routers of the list
LookAll(r) ==
  /\ alive /\ r \in Multi /\ phase[r] = "seeking" /\ ~(retry[r] > MaxRetry)
  /\ retry' = [retry EXCEPT ![r] = @ + 1]
  /\ \/ ReadyPeers = {} /\ UNCHANGED <<rpcVars, ansVars>>
     \/ ReadyPeers # {} /\ AnswerError(r)
     \/ /\ ReadyPeers # {}
        /\ Ask(r, ReadyPeers)
        /\ missing' = [missing EXCEPT ![r] = CountPeers(ReadyPeers)]
        /\ UNCHANGED <<written, cut, alive>>
  /\ UNCHANGED <<gridVars, peer_list, rri, looks>>

\* No peer is in the list: the next look is a retry as well
LookNone(r) ==
  /\ alive /\ r \in Single /\ phase[r] = "seeking" /\ ~(retry[r] > MaxRetry)
  /\ peer_list = <<>>
  /\ retry' = [retry EXCEPT ![r] = @ + 1]
  /\ UNCHANGED <<gridVars, peer_list, rri, looks, rpcVars, ansVars>>

\* triggerTask is over on this node, one way or the other
LocalDone(r) ==
  /\ alive /\ phase[r] = "local"
  /\ phase' = [phase EXCEPT ![r] = "answered"]
  /\ processing' = Processed(r)
  /\ UNCHANGED <<gridVars, seekVars, rpcVars, missing, written, cut, alive>>

----------------------------------------------------------------------------
(* Requests over a router *)

\* The process dies in the middle of a callback
Die == alive' = FALSE /\ UNCHANGED <<phase, missing, written, cut>>

\* The callback of r runs with a good reply of p: res.send, which throws when the
\* client has its answer, or res.write, which does nothing then
RunGood(r, p) ==
  IF r \in Single
    THEN IF phase[r] = "answered" THEN Die
         ELSE /\ phase' = [phase EXCEPT ![r] = "answered"]
              /\ UNCHANGED <<missing, written, cut, alive>>
    ELSE /\ missing' = [missing EXCEPT ![r] = @ - 1]
         /\ written' = IF phase[r] = "answered" THEN written
                                                 ELSE [written EXCEPT ![r] = @ \cup {p}]
         /\ UNCHANGED <<phase, cut, alive>>

\* The reply of p to r, whenever the task is over there: a JSON object; or an error,
\* or a string or null, to which no `server` can be added.  The entry of the table
\* goes, the timer is cleared, the callback runs.  Faults: the timer runs on,
\* or all timers of the router are cleared; processResponse always throws.
TimersRunOn(r, p) == timers
OneTimer(r, p) == [timers EXCEPT ![p] = {}]
Cleared(r, p) == [timers EXCEPT ![p] = @ \ {r}]
ThrowsAlways(k) == TRUE
Throws(k) == k = "bad"

Reply(r, p) ==
  /\ alive /\ wire[r][p] = "asked" /\ r \in callbacks[p]
  /\ callbacks' = [callbacks EXCEPT ![p] = @ \ {r}]
  /\ timers' = Cleared(r, p)
  /\ ran' = [ran EXCEPT ![r][p].reply = @ + 1]
  /\ processing' = Processed(r)
  /\ \E k \in {"good", "bad"} :
       /\ wire' = [wire EXCEPT ![r][p] = IF k = "bad" THEN "raised" ELSE "used"]
       /\ IF Throws(k) THEN Die ELSE RunGood(r, p)
  /\ UNCHANGED <<gridVars, seekVars>>

\* The timer of r fires: processResponse throws.  With the domain of the request
\* active, the error middleware answers, or cuts off what was being written.
Timeout(r, p) ==
  /\ alive /\ r \in timers[p]
  /\ timers' = Cleared(r, p)
  /\ ran' = [ran EXCEPT ![r][p].timeout = @ + 1]
  /\ processing' = Processed(r)
  /\ \/ Die
     \/ /\ phase' = [phase EXCEPT ![r] = "answered"]
        /\ cut' = IF phase[r] = "answered" THEN cut ELSE cut \cup {r}
        /\ missing' = [q \in Multi |-> IF q = r THEN missing[q] - 1 ELSE missing[q]]
        /\ UNCHANGED <<written, alive>>
  /\ UNCHANGED <<gridVars, seekVars, callbacks, wire>>

\* the_end, every 100 ms
TheEnd(r) ==
  /\ alive /\ r \in Multi /\ phase[r] = "remote" /\ missing[r] <= 0
  /\ phase' = [phase EXCEPT ![r] = "answered"]
  /\ UNCHANGED <<gridVars, seekVars, rpcVars, processing, missing, written, cut, alive>>

----------------------------------------------------------------------------
Environment ==
  \/ \E p \in Peer : Connect(p) \/ Close(p) \/ PeerSynced(p)
  \/ TasksInit \/ TasksStarted

Step(r) ==
  \/ Route(r) \/ Broadcast(r) \/ GiveUp(r) \/ Look(r) \/ LookNone(r) \/ LookAll(r)
  \/ LocalDone(r) \/ TheEnd(r) \/ \E p \in Peer : Reply(r, p) \/ Timeout(r, p)

Next == Environment \/ CachePeerList \/ \E r \in Caller : Step(r)

Spec == Init /\ [][Next]_vars

----------------------------------------------------------------------------
(* Properties *)

TypeOK ==
  /\ routers \in Seq(Peer) /\ met \in SUBSET Peer /\ synced \in SUBSET Peer
  /\ accept \in BOOLEAN /\ local \in BOOLEAN
  /\ peer_list \in Seq(Entry)
  /\ rri \in Nat /\ looks \in [1 .. Len(peer_list) -> Nat]
  /\ phase \in [Caller -> {"idle", "seeking", "local", "remote", "answered"}]
  /\ retry \in [Caller -> Nat]
  /\ processing \in SUBSET Caller /\ cut \in SUBSET Caller
  /\ missing \in [Multi -> Int] /\ written \in [Multi -> SUBSET Peer]
  /\ callbacks \in [Peer -> SUBSET Caller] /\ timers \in [Peer -> SUBSET Caller]
  /\ wire \in [Caller -> [Peer -> Wire]] /\ ran \in [Caller -> [Peer -> Runs]]
  /\ alive \in BOOLEAN /\ changes \in Nat

\* Calls that look for a peer at the same time share one index, retry, and advance
\* it while the list changes under them: still, while the list keeps its length,
\* no position is looked at twice more often than another by more than one.
TurnsAreEven ==
  rri <= MaxSafe => \A j, k \in DOMAIN looks : looks[j] - looks[k] <= 1

\* The process dies of nothing but an answer that is an error or no object, or
\* the timeout of a request: no two parts of it answer a client twice otherwise.
CrashHasCause ==
  ~alive => \E r \in Caller, p \in Peer :
    wire[r][p] = "raised" \/ ran[r][p].timeout > 0

\* A broadcast that is not cut off has brought the answer of every peer it was sent
\* to: responses_nb is not brought to zero by anything else.
BroadcastComplete ==
  \A r \in Multi : phase[r] = "answered" /\ r \notin cut =>
    \A p \in Peer : wire[r][p] # "none" => p \in written[r]

\* A call for one peer is listed as processing exactly as long as it is with a
\* task manager.
ProcessingIsTrue ==
  alive => \A r \in Single : r \in processing <=> phase[r] \in {"local", "remote"}

\* A call that waits for peers is not forgotten: one of its timers is running, or
\* responses_nb says that nothing is missing, so that it will be answered.
NoCallIsForgotten ==
  \A r \in Caller : alive /\ phase[r] = "remote" =>
    (\E p \in Peer : r \in timers[p]) \/ (r \in Multi /\ missing[r] <= 0)

\* "Will be catched by Promise.catch" (load-balancer.js:23): the process survives
\* an answer that is an error.
ErrorsAreCaught == (\E r \in Caller, p \in Peer : wire[r][p] = "raised") => alive

----------------------------------------------------------------------------
(* What the router promises about each request *)

Requested == {x \in Caller \X Peer : wire[x[1]][x[2]] # "none"}
Replies   == [x \in Caller \X Peer |-> ran[x[1]][x[2]].reply]
Timeouts  == [x \in Caller \X Peer |-> ran[x[1]][x[2]].timeout]

Promise == INSTANCE Rpc WITH Call <- Caller \X Peer, asked <- Requested,
                             replies <- Replies, timeouts <- Timeouts

\* The table of callbacks and the timers of the routers implement Rpc.
RouterKeepsPromise == Promise!Spec
=============================================================================
