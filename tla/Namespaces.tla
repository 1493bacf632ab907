----------------------------- MODULE Namespaces -----------------------------
(* The swarms of one node, from GridControl.start to GridControl.close        *)
(* (src/gridcontrol.js), and GET /network/change_namespace, which closes one  *)
(* and starts the next (src/api.js).                                          *)
(*                                                                            *)
(* A swarm is an Interplanetary object (module Interplanetary), of which only *)
(* what the node waits for is kept here: 'listening', 'error' and 'close'.    *)
(* Its connections go through SocketPool.add (module Handshake) into the one  *)
(* pool of the node.                                                          *)
EXTENDS Integers

CONSTANTS Namespace,
          Request,     \* calls of change_namespace
          Conn,        \* connections
          MaxSwarm,    \* bound on the swarms started
          MaxTrouble,  \* bound on listen errors
          None

ASSUME NamespacesAssumption ==
  /\ None \notin Namespace \cup Request /\ Request # {}
  /\ MaxSwarm \in Nat /\ MaxTrouble \in Nat

VARIABLES
  boot,       \* GridControl.start
  shut,       \* GridControl.close has been called
  namespace,  \* this.namespace
  current,    \* this.command_swarm
  made,       \* the number of swarms started
  swarm,      \* their state, and the namespace they have joined
  request,    \* the state of a call, its namespace, and its swarm
  conn,       \* a connection: its state, its swarm, the namespace told with
              \* the identity
  troubles,
  overlapped, \* history: two calls have waited for one swarm to close
  late        \* history: close() came when a swarm was about to be started, or
              \* before the call that starts one

calls == <<boot, request>>
swarms == <<namespace, current, made, swarm>>
vars == <<boot, shut, namespace, current, made, swarm, request, conn, troubles,
          overlapped, late>>

Swarm == 1 .. MaxSwarm

\* "ending": destroy() waits for 'listening'; "failed": it would wait for ever
SwarmPhase == {"none", "opening", "ending", "up", "failed", "destroyed", "closed"}
Opened  == {"opening", "ending", "up"}

\* "stopped": the swarm has closed, and the continuation is about to run
Stage == {"free", "stopping", "stopped", "starting", "answered", "failed"}

\* A router that is "closing" stays in the pool until 'close' (Gone), but its
\* socket is destroyed, or has been sent a FIN: it is of no use any more
ConnState == {"none", "adding", "pooled", "closing"}
Unused == [state |-> "none", swarm |-> 0, told |-> None, inbound |-> FALSE]

Init ==
  /\ boot = "free" /\ shut = FALSE
  /\ namespace \in Namespace
  /\ current = 0 /\ made = 0
  /\ swarm = [s \in Swarm |-> [phase |-> "none", ns |-> None]]
  /\ request = [r \in Request |-> [stage |-> "free", ns |-> None, swarm |-> 0]]
  /\ conn = [c \in Conn |-> Unused]
  /\ troubles = 0 /\ overlapped = FALSE /\ late = FALSE

PhaseOf(s) == IF s = 0 THEN "none" ELSE swarm[s].phase
StageAt(stage) == {r \in Request : request[r].stage = stage}
Of(s) == {c \in Conn : conn[c].swarm = s /\ conn[c].state # "none"}

\* No continuation is about to run: the event loop takes the next event
Quiet == StageAt("stopped") = {}

----------------------------------------------------------------------------
(* Starting *)

\* startDiscovery: the swarm s listens and joins ns (fault: command_swarm is only
\* set once)
KeepsFirst(s) == IF current = 0 THEN s ELSE current
Newest(s)     == s
StartDiscovery(s, ns) ==
  /\ s = made + 1 /\ s \in Swarm
  /\ made' = s
  /\ swarm' = [swarm EXCEPT ![s] = [phase |-> "opening", ns |-> ns]]
  /\ current' = Newest(s)
  /\ namespace' = ns

\* GridControl.start, once the API listens and the public IP is known
Start ==
  /\ Quiet /\ boot = "free"
  /\ boot' = "starting"
  /\ \E s \in Swarm : StartDiscovery(s, namespace)
  /\ UNCHANGED <<shut, request, conn, troubles, overlapped, late>>

\* 'listening' and 'error' of the swarm s settle the promise of startDiscovery,
\* on which start, or a call, waits.  The first swarm is that of start.
SettledBoot(s, ok) ==
  IF boot = "starting" /\ s = 1 THEN (IF ok THEN "answered" ELSE "failed") ELSE boot
Settled(s, ok) ==
  [r \in Request |->
     IF request[r].stage = "starting" /\ request[r].swarm = s
     THEN [request[r] EXCEPT !.stage = IF ok THEN "answered" ELSE "failed"]
     ELSE request[r]]

\* After 'listening', a destroy() that has waited for it goes on
Listening(s) ==
  /\ Quiet /\ PhaseOf(s) \in {"opening", "ending"}
  /\ swarm' = [swarm EXCEPT ![s].phase = IF @ = "ending" THEN "destroyed" ELSE "up"]
  /\ boot' = SettledBoot(s, TRUE)
  /\ request' = Settled(s, TRUE)
  /\ UNCHANGED <<shut, namespace, current, made, conn, troubles, overlapped, late>>

ListenError(s) ==
  /\ Quiet /\ PhaseOf(s) \in {"opening", "ending"} /\ troubles < MaxTrouble
  /\ troubles' = troubles + 1
  /\ swarm' = [swarm EXCEPT ![s].phase = "failed"]
  /\ boot' = SettledBoot(s, FALSE)
  /\ request' = Settled(s, FALSE)
  /\ UNCHANGED <<shut, namespace, current, made, conn, overlapped, late>>

----------------------------------------------------------------------------
(* Stopping *)

\* Interplanetary.destroy (faults: as if it were up; nothing when it is not).  The
\* second call does nothing.
AtOnce(phase)    == IF phase \in {"opening", "up"} THEN "destroyed" ELSE phase
UpOnly(phase)    == IF phase = "up" THEN "destroyed" ELSE phase
Destroyed(phase) ==
  CASE phase = "opening" -> "ending"
    [] phase = "up"      -> "destroyed"
    [] OTHER             -> phase

Destroy(s) ==
  swarm' = IF s = 0 THEN swarm ELSE [swarm EXCEPT ![s].phase = Destroyed(@)]

\* The connections of a swarm that goes down are destroyed with it (fault: the
\* ones that are in the pool stay)
ClosingYoung(s) ==
  [c \in Conn |-> IF c \in Of(s) /\ conn[c].state = "adding"
                  THEN [conn[c] EXCEPT !.state = "closing"] ELSE conn[c]]
Closing(s) ==
  [c \in Conn |-> IF c \in Of(s) THEN [conn[c] EXCEPT !.state = "closing"] ELSE conn[c]]

\* stopDiscovery in change_namespace: before start has a swarm it throws, which
\* the call answers with an error.  After close() a call may still come, over a
\* connection that is kept alive: server.close() ends none.
Change(r, ns) ==
  /\ Quiet /\ request[r].stage = "free"
  /\ IF current = 0
     THEN /\ request' = [request EXCEPT ![r] = [stage |-> "failed", ns |-> ns, swarm |-> 0]]
          /\ UNCHANGED <<swarm, conn, overlapped>>
     ELSE /\ request' = [request EXCEPT ![r] =
                           [stage |-> "stopping", ns |-> ns, swarm |-> current]]
          /\ Destroy(current)
          /\ conn' = IF PhaseOf(current) = "up" THEN Closing(current) ELSE conn
          /\ overlapped' = (overlapped \/ \E q \in StageAt("stopping") :
                                            request[q].swarm = current)
  /\ late' = (late \/ (shut /\ PhaseOf(current) \in {"ending", "destroyed"}))
  /\ UNCHANGED <<boot, shut, namespace, current, made, troubles>>

\* 'close': the server has no connection left, and every call that waits for it
\* goes on in a continuation
Closed(s) ==
  /\ Quiet /\ PhaseOf(s) = "destroyed"
  /\ \A c \in Of(s) : ~conn[c].inbound
  /\ swarm' = [swarm EXCEPT ![s].phase = "closed"]
  /\ request' = [r \in Request |->
       IF request[r].stage = "stopping" /\ request[r].swarm = s
       THEN [request[r] EXCEPT !.stage = "stopped"] ELSE request[r]]
  /\ UNCHANGED <<boot, shut, namespace, current, made, conn, troubles, overlapped, late>>

\* The continuation of a call (fault: the body is not parsed)
Undefined(r) == None
Target(r)    == request[r].ns
Restart(r) ==
  /\ request[r].stage = "stopped"
  /\ \E s \in Swarm :
       /\ StartDiscovery(s, Target(r))
       /\ request' = [request EXCEPT ![r].stage = "starting", ![r].swarm = s]
  /\ UNCHANGED <<boot, shut, conn, troubles, overlapped, late>>

\* GridControl.close: the swarm of the moment, and a FIN to every router
Close ==
  /\ Quiet /\ ~shut
  /\ shut' = TRUE
  /\ Destroy(current)
  /\ conn' = [c \in Conn |->
       IF conn[c].state = "pooled" \/ (c \in Of(current) /\ PhaseOf(current) = "up")
       THEN [conn[c] EXCEPT !.state = "closing"] ELSE conn[c]]
  /\ late' = (boot = "free" \/ \E r \in StageAt("stopping") :
                                 PhaseOf(request[r].swarm) # "failed")
  /\ UNCHANGED <<calls, namespace, current, made, troubles, overlapped>>

----------------------------------------------------------------------------
(* Connections *)

\* 'connection': the local identity names the namespace of the node, whichever
\* swarm the connection comes from
Connect(c, s) ==
  /\ Quiet /\ conn[c].state = "none" /\ PhaseOf(s) = "up"
  /\ \E in \in BOOLEAN :
       conn' = [conn EXCEPT ![c] = [state |-> "adding", swarm |-> s,
                                    told |-> namespace, inbound |-> in]]
  /\ UNCHANGED <<calls, shut, swarms, troubles, overlapped, late>>

\* SocketPool.add has the identity of the peer
Pool(c) ==
  /\ Quiet /\ conn[c].state = "adding"
  /\ conn' = [conn EXCEPT ![c].state = "pooled"]
  /\ UNCHANGED <<calls, shut, swarms, troubles, overlapped, late>>

\* The connection ends: rejected, or closed by the other side
End(c) ==
  /\ Quiet /\ conn[c].state \in {"adding", "pooled"}
  /\ conn' = [conn EXCEPT ![c].state = "closing"]
  /\ UNCHANGED <<calls, shut, swarms, troubles, overlapped, late>>

\* 'close' of its socket
Gone(c) ==
  /\ Quiet /\ conn[c].state = "closing"
  /\ conn' = [conn EXCEPT ![c] = Unused]
  /\ UNCHANGED <<calls, shut, swarms, troubles, overlapped, late>>

----------------------------------------------------------------------------
ByItself ==
  \/ Start
  \/ \E s \in Swarm : Listening(s) \/ ListenError(s) \/ Closed(s)
  \/ \E r \in Request : Restart(r)

Next ==
  \/ ByItself
  \/ \E c \in Conn : Gone(c) \/ Pool(c) \/ End(c)
  \/ \E r \in Request, ns \in Namespace : Change(r, ns)
  \/ \E c \in Conn, s \in Swarm : Connect(c, s)
  \/ Close

Spec == Init /\ [][Next]_vars

\* Servers report, promises go on, sockets that are closing close, and close()
\* sends a FIN that ends every connection (the peer's end answers it)
FairSpec ==
  /\ Spec
  /\ WF_vars(Start)
  /\ \A s \in Swarm : WF_vars(Listening(s) \/ ListenError(s)) /\ WF_vars(Closed(s))
  /\ \A r \in Request : WF_vars(Restart(r))
  /\ \A c \in Conn : WF_vars(Gone(c))

----------------------------------------------------------------------------
(* Properties *)

\* Every variable has its type.
TypeOK ==
  /\ boot \in Stage /\ shut \in BOOLEAN
  /\ namespace \in Namespace /\ current \in 0 .. MaxSwarm /\ made \in 0 .. MaxSwarm
  /\ swarm \in [Swarm -> [phase : SwarmPhase, ns : Namespace \cup {None}]]
  /\ request \in [Request -> [stage : Stage, ns : Namespace \cup {None},
                              swarm : 0 .. MaxSwarm]]
  /\ conn \in [Conn -> [state : ConnState, swarm : 0 .. MaxSwarm,
                        told : Namespace \cup {None}, inbound : BOOLEAN]]
  /\ troubles \in 0 .. MaxTrouble /\ overlapped \in BOOLEAN /\ late \in BOOLEAN

\* A node is in one swarm at a time, that of command_swarm: no other is left
\* listening, which nothing could close.  Two calls that have waited for the same
\* swarm break this for good.
OneSwarm ==
  overlapped \/ \A s \in Swarm : swarm[s].phase \in Opened \cup {"destroyed"} => s = current

\* All routers of the pool that are not being closed are from the swarm of the
\* moment, and both nodes have been told the namespace that swarm has joined:
\* nothing reaches a peer of the namespace that was left.
PoolIsOfNamespace ==
  overlapped \/ \A c \in Conn : conn[c].state = "pooled" =>
    /\ conn[c].swarm = current
    /\ conn[c].told = swarm[current].ns /\ swarm[current].ns = namespace

\* Every call is answered.  One that waits for a swarm which could not listen is
\* not: its server never reports 'close'.  Nor is one that came after close(), when
\* the swarm had reported it already.
ChangeIsAnswered ==
  \A r \in Request :
    request[r].stage \in {"stopping", "stopped", "starting"} ~>
      \/ request[r].stage \in {"answered", "failed"}
      \/ request[r].stage = "stopping" /\ PhaseOf(request[r].swarm) \in {"failed", "closed"}

\* GridControl.close leaves no swarm, unless start or a call was about to start
\* one, an earlier overlap had left one, or a call came before its swarm had closed.
CloseEnds ==
  shut ~> \/ late \/ overlapped
          \/ \A s \in Swarm : swarm[s].phase \in {"none", "failed", "closed"}

=============================================================================
