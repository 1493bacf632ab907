--------------------------- MODULE NamespacesProofs ---------------------------
(* Theorems about Namespaces, for any namespaces, calls, connections, swarms.  *)
EXTENDS Namespaces, TLAPS

----------------------------------------------------------------------------
(* Type correctness *)

\* A call that waits knows the namespace it is for
Named ==
  \A r \in Request : request[r].stage \in {"stopping", "stopped"} => request[r].ns \in Namespace
Typed == TypeOK /\ Named

Call == [stage : Stage, ns : Namespace \cup {None}, swarm : 0 .. MaxSwarm]

LEMMA TypeInit == Init => Typed
<1> SUFFICES ASSUME Init PROVE Typed
  OBVIOUS
<1> USE NamespacesAssumption
<1>1. swarm \in [Swarm -> [phase : SwarmPhase, ns : Namespace \cup {None}]]
  BY DEF Init, SwarmPhase
<1>2. request \in [Request -> Call] /\ Named
  BY DEF Init, Stage, Named, Call
<1>3. conn \in [Conn -> [state : ConnState, swarm : 0 .. MaxSwarm,
                        told : Namespace \cup {None}, inbound : BOOLEAN]]
  <2>1. Unused \in [state : ConnState, swarm : 0 .. MaxSwarm,
                   told : Namespace \cup {None}, inbound : BOOLEAN]
    BY DEF Unused, ConnState
  <2> QED
    BY <2>1 DEF Init
<1>4. boot = "free" /\ namespace \in Namespace /\ current = 0 /\ made = 0 /\ troubles = 0
  BY Zenon DEF Init
<1>5. shut \in BOOLEAN /\ overlapped \in BOOLEAN /\ late \in BOOLEAN
  BY Zenon DEF Init
<1>6. /\ boot \in Stage /\ troubles \in 0 .. MaxTrouble
      /\ current \in 0 .. MaxSwarm /\ made \in 0 .. MaxSwarm
  BY <1>4 DEF Stage
<1> QED
  BY <1>1, <1>2, <1>3, <1>4, <1>5, <1>6 DEF Typed, TypeOK, Call

\* Starting a swarm keeps the types of what it changes
LEMMA DiscoveryTyped ==
  ASSUME TypeOK, NEW s \in Swarm, NEW ns \in Namespace, StartDiscovery(s, ns)
  PROVE  /\ namespace' \in Namespace /\ current' \in 0 .. MaxSwarm /\ made' \in 0 .. MaxSwarm
         /\ swarm' \in [Swarm -> [phase : SwarmPhase, ns : Namespace \cup {None}]]
BY NamespacesAssumption DEF TypeOK, StartDiscovery, Newest, Swarm, SwarmPhase

LEMMA DestroyTyped ==
  ASSUME TypeOK, NEW s \in 0 .. MaxSwarm, Destroy(s)
  PROVE  swarm' \in [Swarm -> [phase : SwarmPhase, ns : Namespace \cup {None}]]
<1>1. \A p \in SwarmPhase : Destroyed(p) \in SwarmPhase
  BY DEF Destroyed, SwarmPhase
<1> QED
  BY <1>1, NamespacesAssumption DEF TypeOK, Destroy, Swarm

LEMMA SettledTyped ==
  ASSUME Typed, NEW s \in Swarm, NEW ok \in BOOLEAN,
         request' = Settled(s, ok), boot' = SettledBoot(s, ok)
  PROVE  /\ boot' \in Stage /\ Named'
         /\ request' \in [Request -> [stage : Stage, ns : Namespace \cup {None},
                                      swarm : 0 .. MaxSwarm]]
<1>1. boot' \in Stage
  BY DEF Typed, TypeOK, SettledBoot, Stage
<1>2. \A r \in Request :
        /\ request'[r] \in [stage : Stage, ns : Namespace \cup {None}, swarm : 0 .. MaxSwarm]
        /\ request'[r].ns = request[r].ns
        /\ request'[r].stage \in {"stopping", "stopped"} =>
             request[r].stage \in {"stopping", "stopped"}
  BY DEF Typed, TypeOK, Settled, Stage
<1>3. request' = [r \in Request |-> request'[r]]
  BY DEF Settled
<1> QED
  BY <1>1, <1>2, <1>3 DEF Typed, Named

LEMMA TypeStep == Typed /\ [Next]_vars => Typed'
<1> SUFFICES ASSUME Typed, [Next]_vars PROVE Typed'
  OBVIOUS
<1> USE NamespacesAssumption
<1>1. ASSUME Start PROVE Typed'
  <2>1. boot' \in Stage
    BY <1>1 DEF Start, Stage
  <2> QED
    BY <1>1, <2>1, DiscoveryTyped DEF Start, Typed, TypeOK, Named
<1>2. ASSUME NEW s \in Swarm, Listening(s) PROVE Typed'
  <2>1. swarm' \in [Swarm -> [phase : SwarmPhase, ns : Namespace \cup {None}]]
    BY <1>2 DEF Listening, Typed, TypeOK, SwarmPhase
  <2> QED
    BY <1>2, <2>1, SettledTyped DEF Listening, Typed, TypeOK
<1>3. ASSUME NEW s \in Swarm, ListenError(s) PROVE Typed'
  <2>1. swarm' \in [Swarm -> [phase : SwarmPhase, ns : Namespace \cup {None}]]
    BY <1>3 DEF ListenError, Typed, TypeOK, SwarmPhase
  <2>2. troubles' \in 0 .. MaxTrouble
    BY <1>3 DEF ListenError, Typed, TypeOK
  <2> QED
    BY <1>3, <2>1, <2>2, SettledTyped DEF ListenError, Typed, TypeOK
<1>4. ASSUME NEW r \in Request, NEW ns \in Namespace, Change(r, ns) PROVE Typed'
  <2>1. swarm' \in [Swarm -> [phase : SwarmPhase, ns : Namespace \cup {None}]]
    BY <1>4, DestroyTyped DEF Change, Typed, TypeOK
  <2>2. PICK q \in Call : request' = [request EXCEPT ![r] = q] /\ q.ns = ns
    <3>1. /\ [stage |-> "failed", ns |-> ns, swarm |-> 0] \in Call
          /\ [stage |-> "stopping", ns |-> ns, swarm |-> current] \in Call
      BY DEF Call, Stage, Typed, TypeOK
    <3> QED
      BY <1>4, <3>1 DEF Change
  <2>5. request' \in [Request -> Call] /\ Named'
    BY <2>2 DEF Typed, TypeOK, Named, Call
  <2>3. conn' \in [Conn -> [state : ConnState, swarm : 0 .. MaxSwarm,
                            told : Namespace \cup {None}, inbound : BOOLEAN]]
    <3>1. Closing(current) \in [Conn -> [state : ConnState, swarm : 0 .. MaxSwarm,
                                         told : Namespace \cup {None}, inbound : BOOLEAN]]
      BY DEF Closing, Typed, TypeOK, ConnState
    <3>2. conn' = conn \/ conn' = Closing(current)
      BY <1>4, Zenon DEF Change
    <3> QED
      BY <3>1, <3>2 DEF Typed, TypeOK
  <2>4. overlapped' \in BOOLEAN
    BY <1>4 DEF Change, Typed, TypeOK
  <2> QED
    BY <1>4, <2>1, <2>3, <2>4, <2>5 DEF Change, Typed, TypeOK, Call
<1>5. ASSUME NEW s \in Swarm, Closed(s) PROVE Typed'
  <2>1. swarm' \in [Swarm -> [phase : SwarmPhase, ns : Namespace \cup {None}]]
    BY <1>5 DEF Closed, Typed, TypeOK, SwarmPhase
  <2>2. /\ request' \in [Request -> [stage : Stage, ns : Namespace \cup {None},
                                     swarm : 0 .. MaxSwarm]]
        /\ Named'
    BY <1>5 DEF Closed, Typed, TypeOK, Named, Stage
  <2> QED
    BY <1>5, <2>1, <2>2 DEF Closed, Typed, TypeOK
<1>6. ASSUME NEW r \in Request, Restart(r) PROVE Typed'
  <2>1. Target(r) \in Namespace
    BY <1>6 DEF Restart, Target, Typed, Named
  <2>2. PICK s \in Swarm : /\ StartDiscovery(s, Target(r))
                           /\ request' = [request EXCEPT ![r].stage = "starting", ![r].swarm = s]
    BY <1>6 DEF Restart
  <2>3. request' \in [Request -> Call] /\ Named'
    <3>1. request[r] \in Call /\ s \in 0 .. MaxSwarm
      BY DEF Typed, TypeOK, Call, Swarm
    <3>2. [request[r] EXCEPT !.stage = "starting", !.swarm = s] \in Call
      BY <3>1 DEF Call, Stage
    <3>3. request' = [request EXCEPT ![r] = [request[r] EXCEPT !.stage = "starting", !.swarm = s]]
      BY <2>2
    <3>4. [request[r] EXCEPT !.stage = "starting", !.swarm = s].stage = "starting"
      BY <3>1 DEF Call
    <3> QED
      BY <3>2, <3>3, <3>4 DEF Typed, TypeOK, Named, Call
  <2> QED
    BY <1>6, <2>1, <2>2, <2>3, DiscoveryTyped DEF Restart, Typed, TypeOK, Call
<1>7. ASSUME Close PROVE Typed'
  <2>1. swarm' \in [Swarm -> [phase : SwarmPhase, ns : Namespace \cup {None}]]
    BY <1>7, DestroyTyped DEF Close, Typed, TypeOK
  <2>2. conn' \in [Conn -> [state : ConnState, swarm : 0 .. MaxSwarm,
                            told : Namespace \cup {None}, inbound : BOOLEAN]]
    BY <1>7 DEF Close, Typed, TypeOK, ConnState
  <2>3. late' \in BOOLEAN
    BY <1>7 DEF Close, Typed, TypeOK
  <2> QED
    BY <1>7, <2>1, <2>2, <2>3 DEF Close, calls, Typed, TypeOK, Named
<1>8. ASSUME NEW c \in Conn, NEW s \in Swarm, Connect(c, s) PROVE Typed'
  <2>1. conn' \in [Conn -> [state : ConnState, swarm : 0 .. MaxSwarm,
                            told : Namespace \cup {None}, inbound : BOOLEAN]]
    BY <1>8 DEF Connect, Typed, TypeOK, ConnState, Swarm
  <2> QED
    BY <1>8, <2>1 DEF Connect, calls, swarms, Typed, TypeOK, Named
<1>9. ASSUME NEW c \in Conn, Pool(c) \/ End(c) \/ Gone(c) PROVE Typed'
  <2> DEFINE Connection == [state : ConnState, swarm : 0 .. MaxSwarm,
                            told : Namespace \cup {None}, inbound : BOOLEAN]
  <2>2. PICK k \in Connection : conn' = [conn EXCEPT ![c] = k]
    <3>1. /\ [conn[c] EXCEPT !.state = "pooled"] \in Connection
          /\ [conn[c] EXCEPT !.state = "closing"] \in Connection
          /\ Unused \in Connection
      BY DEF Typed, TypeOK, ConnState, Unused
    <3> QED
      BY <1>9, <3>1, Zenon DEF Pool, End, Gone
  <2>1. conn' \in [Conn -> Connection]
    BY <2>2 DEF Typed, TypeOK
  <2> QED
    BY <1>9, <2>1 DEF Pool, End, Gone, calls, swarms, Typed, TypeOK, Named
<1>10. ASSUME UNCHANGED vars PROVE Typed'
  BY <1>10 DEF vars, Typed, TypeOK, Named
<1> QED
  BY <1>1, <1>2, <1>3, <1>4, <1>5, <1>6, <1>7, <1>8, <1>9, <1>10 DEF Next, ByItself

\* The variables have their types, and a call that waits has a namespace.
THEOREM TypeCorrect == Spec => []Typed
BY TypeInit, TypeStep, PTL DEF Spec

\* Every variable has its type, with any number of calls, swarms and connections.
THEOREM TypeOKHolds == Spec => []TypeOK
<1>1. Typed => TypeOK
  BY DEF Typed
<1> QED
  BY <1>1, TypeCorrect, PTL

----------------------------------------------------------------------------
(* The inductive invariant *)

\* The swarms are started in order, and command_swarm is the newest
Ordered ==
  /\ current = made
  /\ \A s \in Swarm : swarm[s].phase = "none" <=> s > made
  /\ boot = "free" => made = 0
  /\ current # 0 => swarm[current].ns = namespace

\* What a call that waits is told of its swarm
Waits(r) == request[r].stage \in {"stopping", "stopped"}
Awaited ==
  \A r \in Request :
    /\ Waits(r) => request[r].swarm # 0
    /\ request[r].stage = "stopped" => swarm[request[r].swarm].phase = "closed"

\* Without an overlap at most one call waits, for the swarm of the moment
AloneBody ==
  /\ \A r \in Request : Waits(r) => request[r].swarm = current
  /\ \A q, r \in Request : Waits(q) /\ Waits(r) => q = r
Alone == overlapped \/ AloneBody

OneSwarmBody == \A s \in Swarm : swarm[s].phase \in Opened \cup {"destroyed"} => s = current

\* The connections that are not being closed are of the swarm of the moment, up
LiveBody ==
  \A c \in Conn : conn[c].state \in {"adding", "pooled"} =>
    /\ conn[c].swarm = current /\ current # 0
    /\ swarm[current].phase = "up" /\ conn[c].told = namespace
Live == overlapped \/ LiveBody

Inv == Typed /\ Ordered /\ Awaited /\ Alone /\ OneSwarm /\ Live

LEMMA InvInit == Init => Inv
<1> SUFFICES ASSUME Init PROVE Inv
  OBVIOUS
<1>1. Typed
  BY TypeInit
<1>2. /\ current = 0 /\ made = 0
      /\ \A s \in Swarm : swarm[s].phase = "none"
      /\ \A r \in Request : request[r].stage = "free"
      /\ \A c \in Conn : conn[c].state = "none"
  BY DEF Init, Unused
<1>3. Ordered
  BY <1>2 DEF Ordered, Swarm
<1>4. Awaited /\ AloneBody /\ OneSwarmBody /\ LiveBody
  BY <1>2 DEF Awaited, AloneBody, Waits, OneSwarmBody, Opened, LiveBody
<1> QED
  BY <1>1, <1>3, <1>4, Zenon DEF Inv, Alone, OneSwarm, OneSwarmBody, Live

----------------------------------------------------------------------------
(* The steps *)

\* Starting a swarm when none is open
LEMMA DiscoveryKeeps ==
  ASSUME Inv, NEW s \in Swarm, NEW ns \in Namespace, StartDiscovery(s, ns),
         boot' # "free", UNCHANGED <<conn, overlapped>>,
         ~overlapped => \A z \in Swarm : swarm[z].phase \notin Opened \cup {"destroyed"}
  PROVE  Ordered' /\ OneSwarm' /\ Live'
<1> USE NamespacesAssumption
<1>1. /\ s = made + 1 /\ made' = s /\ current' = s /\ namespace' = ns
      /\ swarm' = [swarm EXCEPT ![s] = [phase |-> "opening", ns |-> ns]]
  BY DEF StartDiscovery, Newest
<1>2. s \in 1 .. MaxSwarm /\ made \in 0 .. MaxSwarm
  BY DEF Swarm, Inv, Typed, TypeOK
<1>3. /\ swarm'[s].phase = "opening" /\ swarm'[s].ns = ns
      /\ \A z \in Swarm : z # s => swarm'[z] = swarm[z]
  BY <1>1 DEF Inv, Typed, TypeOK
<1>4. Ordered'
  <2>1. \A z \in Swarm : swarm'[z].phase = "none" <=> z > made'
    BY <1>1, <1>2, <1>3 DEF Inv, Ordered, Swarm
  <2> QED
    BY <1>1, <1>3, <2>1 DEF Ordered
<1>5. ASSUME ~overlapped PROVE OneSwarmBody' /\ LiveBody'
  <2>1. OneSwarmBody'
    BY <1>1, <1>3, <1>5 DEF OneSwarmBody
  <2>2. ASSUME NEW c \in Conn PROVE conn[c].state \notin {"adding", "pooled"}
    <3>1. LiveBody
      BY <1>5, Zenon DEF Inv, Live
    <3>2. SUFFICES ASSUME conn[c].state \in {"adding", "pooled"} PROVE FALSE
      OBVIOUS
    <3>3. current # 0 /\ swarm[current].phase = "up"
      BY <3>1, <3>2 DEF LiveBody
    <3>4. current \in Swarm
      BY <3>3 DEF Inv, Typed, TypeOK, Swarm
    <3> QED
      BY <1>5, <3>3, <3>4 DEF Opened
  <2> QED
    BY <2>1, <2>2 DEF LiveBody
<1>6. overlapped' = overlapped
  OBVIOUS
<1> QED
  <2>1. OneSwarm'
    BY <1>5, <1>6 DEF OneSwarm, OneSwarmBody
  <2>2. Live'
    BY <1>5, <1>6 DEF Live, LiveBody
  <2> QED
    BY <1>4, <2>1, <2>2

\* The server of a swarm has reported, and the swarm is or was the one of the moment
LEMMA ReportKeeps ==
  ASSUME Inv, NEW s \in Swarm, NEW p \in SwarmPhase,
         swarm[s].phase \in {"opening", "ending"}, p # "none",
         swarm' = [swarm EXCEPT ![s].phase = p],
         request' = Settled(s, p # "failed"), boot' = SettledBoot(s, p # "failed"),
         UNCHANGED <<namespace, current, made, conn, overlapped>>
  PROVE  Ordered' /\ Awaited' /\ Alone' /\ OneSwarm' /\ Live'
<1>1. /\ swarm'[s].phase = p /\ swarm'[s].ns = swarm[s].ns
      /\ \A z \in Swarm : z # s => swarm'[z] = swarm[z]
  BY DEF Inv, Typed, TypeOK
<1>2. boot' = "free" => boot = "free"
  BY DEF SettledBoot
<1>3. Ordered'
  <2>1. \A z \in Swarm : swarm'[z].phase = "none" <=> swarm[z].phase = "none"
    BY <1>1
  <2>2. \A z \in Swarm : swarm'[z].ns = swarm[z].ns
    BY <1>1
  <2>3. current # 0 => current \in Swarm
    BY DEF Inv, Typed, TypeOK, Swarm
  <2> QED
    BY <1>2, <2>1, <2>2, <2>3 DEF Inv, Ordered
<1>4. \A r \in Request : /\ request'[r].swarm = request[r].swarm
                         /\ Waits(r)' => Waits(r)
                         /\ request'[r].stage = "stopped" => request[r].stage = "stopped"
  BY DEF Inv, Typed, TypeOK, Settled, Waits
<1>5. Awaited'
  <2>1. \A r \in Request : request[r].stage = "stopped" => request[r].swarm \in Swarm
    BY DEF Inv, Awaited, Waits, Typed, TypeOK, Swarm
  <2> QED
    BY <1>1, <1>4, <2>1 DEF Inv, Awaited
<1>6. AloneBody => AloneBody'
  BY <1>4 DEF AloneBody
<1>7. OneSwarmBody => OneSwarmBody'
  BY <1>1 DEF OneSwarmBody, Opened
<1>8. LiveBody => LiveBody'
  <2>1. current # 0 /\ swarm[current].phase = "up" =>
          current # s /\ swarm'[current] = swarm[current]
    BY <1>1 DEF Inv, Typed, TypeOK, Swarm
  <2> QED
    BY <2>1 DEF LiveBody
<1>9. overlapped' = overlapped
  OBVIOUS
<1> QED
  <2>1. OneSwarm'
    BY <1>7, <1>9 DEF Inv, OneSwarm, OneSwarmBody
  <2>2. Live' /\ Alone'
    BY <1>6, <1>8, <1>9 DEF Inv, Live, LiveBody, Alone, AloneBody
  <2> QED
    BY <1>3, <1>5, <2>1, <2>2

\* A destroyed swarm was open before
LEMMA DestroyKeeps ==
  ASSUME Inv, Destroy(current)
  PROVE  /\ \A z \in Swarm : /\ swarm'[z].ns = swarm[z].ns
                             /\ swarm'[z].phase = "none" <=> swarm[z].phase = "none"
                             /\ swarm[z].phase = "closed" => swarm'[z].phase = "closed"
                             /\ z # current => swarm'[z] = swarm[z]
                             /\ swarm[z].phase # "up" => swarm'[z].phase # "up"
         /\ current # 0 => current \in Swarm
<1>1. current # 0 => current \in Swarm
  BY DEF Inv, Typed, TypeOK, Swarm
<1>2. CASE current = 0
  BY <1>2, Zenon DEF Destroy
<1>3. CASE current # 0
  <2> DEFINE p == Destroyed(swarm[current].phase)
  <2>1. /\ p = "none" <=> swarm[current].phase = "none"
        /\ swarm[current].phase = "closed" => p = "closed"
        /\ p = "up" => swarm[current].phase = "up"
    BY DEF Destroyed
  <2>2. swarm' = [swarm EXCEPT ![current].phase = p]
    BY <1>3 DEF Destroy
  <2> HIDE DEF p
  <2>3. /\ swarm'[current].phase = p /\ swarm'[current].ns = swarm[current].ns
        /\ \A z \in Swarm : z # current => swarm'[z] = swarm[z]
    BY <1>1, <1>3, <2>2 DEF Inv, Typed, TypeOK
  <2> QED
    BY <1>1, <2>1, <2>3
<1> QED
  BY <1>2, <1>3

LEMMA InvStep == Inv /\ [Next]_vars => Inv'
<1> SUFFICES ASSUME Inv, [Next]_vars PROVE Inv'
  OBVIOUS
<1> USE NamespacesAssumption
<1>0. Typed'
  BY TypeStep DEF Inv
<1>t. /\ current \in 0 .. MaxSwarm /\ made \in 0 .. MaxSwarm
      /\ overlapped \in BOOLEAN /\ Swarm = 1 .. MaxSwarm
  BY DEF Inv, Typed, TypeOK, Swarm
<1>1. ASSUME Start PROVE Inv'
  <2>1. boot = "free" /\ boot' = "starting" /\ UNCHANGED <<request, conn, overlapped>>
    BY <1>1 DEF Start
  <2>2. current = 0 /\ \A z \in Swarm : swarm[z].phase = "none"
    BY <2>1, <1>t DEF Inv, Ordered
  <2>3. PICK s \in Swarm : StartDiscovery(s, namespace)
    BY <1>1 DEF Start
  <2>4. namespace \in Namespace
    BY DEF Inv, Typed, TypeOK
  <2>5. Ordered' /\ OneSwarm' /\ Live'
    BY <2>1, <2>2, <2>3, <2>4, DiscoveryKeeps DEF Opened
  <2>6. ASSUME NEW r \in Request PROVE request[r].stage # "stopped" /\ (AloneBody => ~Waits(r))
    <3>1. Waits(r) => request[r].swarm # 0
      BY DEF Inv, Awaited
    <3>2. request[r].stage # "stopped"
      BY <1>1 DEF Start, Quiet, StageAt
    <3> QED
      BY <3>1, <3>2, <2>2 DEF AloneBody
  <2>7. Awaited'
    BY <2>1, <2>6 DEF Inv, Awaited, Waits
  <2>8. AloneBody => AloneBody'
    BY <2>1, <2>6 DEF AloneBody, Waits
  <2>9. Alone'
    BY <2>1, <2>8 DEF Inv, Alone, AloneBody
  <2> QED
    BY <1>0, <2>5, <2>7, <2>9 DEF Inv
<1>2. ASSUME NEW s \in Swarm, Listening(s) PROVE Inv'
  <2>1. PICK p \in {"up", "destroyed"} : swarm' = [swarm EXCEPT ![s].phase = p]
    <3>1. swarm' = [swarm EXCEPT ![s].phase =
                      IF swarm[s].phase = "ending" THEN "destroyed" ELSE "up"]
      BY <1>2 DEF Listening
    <3> QED
      BY <3>1, Zenon
  <2>2. p \in SwarmPhase /\ p # "none" /\ (p # "failed") = TRUE
    BY <2>1 DEF SwarmPhase
  <2>4. /\ request' = Settled(s, TRUE) /\ boot' = SettledBoot(s, TRUE)
        /\ UNCHANGED <<namespace, current, made, conn, overlapped>>
        /\ swarm[s].phase \in {"opening", "ending"}
    BY <1>2, <1>t DEF Listening, PhaseOf
  <2>5. request' = Settled(s, p # "failed") /\ boot' = SettledBoot(s, p # "failed")
    BY <2>2, <2>4
  <2>3. Ordered' /\ Awaited' /\ Alone' /\ OneSwarm' /\ Live'
    BY <2>1, <2>2, <2>4, <2>5, ReportKeeps
  <2> QED
    BY <1>0, <2>3 DEF Inv
<1>3. ASSUME NEW s \in Swarm, ListenError(s) PROVE Inv'
  <2> DEFINE p == "failed"
  <2>1. swarm' = [swarm EXCEPT ![s].phase = p]
    BY <1>3 DEF ListenError
  <2>2. p \in SwarmPhase /\ p # "none" /\ (p # "failed") = FALSE
    BY DEF SwarmPhase
  <2>4. /\ request' = Settled(s, FALSE) /\ boot' = SettledBoot(s, FALSE)
        /\ UNCHANGED <<namespace, current, made, conn, overlapped>>
        /\ swarm[s].phase \in {"opening", "ending"}
    BY <1>3, <1>t DEF ListenError, PhaseOf
  <2> HIDE DEF p
  <2>5. request' = Settled(s, p # "failed") /\ boot' = SettledBoot(s, p # "failed")
    BY <2>2, <2>4
  <2>3. Ordered' /\ Awaited' /\ Alone' /\ OneSwarm' /\ Live'
    BY <2>1, <2>2, <2>4, <2>5, ReportKeeps
  <2> QED
    BY <1>0, <2>3 DEF Inv
<1>4. ASSUME NEW r \in Request, NEW ns \in Namespace, Change(r, ns) PROVE Inv'
  <2>1. UNCHANGED <<boot, namespace, current, made>> /\ \A q \in Request : request[q].stage # "stopped"
    BY <1>4 DEF Change, Quiet, StageAt
  <2>2. CASE current = 0
    <3>1. /\ UNCHANGED <<swarm, conn, overlapped>>
          /\ request' = [request EXCEPT ![r] = [stage |-> "failed", ns |-> ns, swarm |-> 0]]
      BY <1>4, <2>2 DEF Change
    <3>2. \A q \in Request : Waits(q)' => Waits(q) /\ request'[q] = request[q]
      BY <3>1 DEF Waits, Inv, Typed, TypeOK
    <3>3. Ordered' /\ OneSwarm' /\ Live'
      BY <2>1, <3>1 DEF Inv, Ordered, OneSwarm, Live, LiveBody
    <3>4. Awaited'
      BY <3>1, <3>2 DEF Inv, Awaited, Waits
    <3>5. AloneBody => AloneBody'
      BY <2>1, <3>2 DEF AloneBody
    <3>6. Alone'
      BY <3>1, <3>5 DEF Inv, Alone
    <3> QED
      BY <1>0, <3>3, <3>4, <3>6 DEF Inv
  <2>3. CASE current # 0
    <3>1. /\ request' = [request EXCEPT ![r] = [stage |-> "stopping", ns |-> ns, swarm |-> current]]
          /\ Destroy(current)
          /\ conn' = IF PhaseOf(current) = "up" THEN Closing(current) ELSE conn
          /\ overlapped' = (overlapped \/ \E q \in StageAt("stopping") :
                                            request[q].swarm = current)
      BY <1>4, <2>3 DEF Change
    <3>2. /\ request'[r].stage = "stopping" /\ request'[r].swarm = current
          /\ \A q \in Request : q # r => request'[q] = request[q]
      BY <3>1 DEF Inv, Typed, TypeOK
    <3>3. /\ \A z \in Swarm : /\ swarm'[z].ns = swarm[z].ns
                              /\ swarm'[z].phase = "none" <=> swarm[z].phase = "none"
                              /\ z # current => swarm'[z] = swarm[z]
          /\ current \in Swarm
      BY <2>3, <3>1, DestroyKeeps
    <3>4. Ordered'
      BY <2>1, <3>3 DEF Inv, Ordered
    <3>5. Awaited'
      <4>1. \A q \in Request : request'[q].stage # "stopped"
        BY <2>1, <3>2
      <4>2. \A q \in Request : Waits(q)' => request'[q].swarm # 0
        BY <2>3, <3>2 DEF Inv, Awaited, Waits
      <4> QED
        BY <4>1, <4>2 DEF Awaited
    <3>6. ASSUME ~overlapped' PROVE AloneBody' /\ OneSwarmBody' /\ LiveBody'
      <4>1. ~overlapped /\ \A q \in Request : ~Waits(q)
        <5>1. ~overlapped /\ \A q \in StageAt("stopping") : request[q].swarm # current
          BY <3>1, <3>6
        <5>2. AloneBody
          BY <5>1 DEF Inv, Alone
        <5> QED
          BY <2>1, <5>1, <5>2 DEF AloneBody, Waits, StageAt
      <4>2. AloneBody'
        BY <2>1, <3>2, <4>1 DEF AloneBody, Waits
      <4>3. OneSwarmBody'
        BY <2>1, <3>3, <4>1 DEF Inv, OneSwarm, OneSwarmBody
      <4>4. LiveBody
        BY <4>1 DEF Inv, Live
      <4>5. ASSUME NEW c \in Conn PROVE conn'[c].state \notin {"adding", "pooled"}
        <5>1. CASE PhaseOf(current) = "up"
          <6>1. conn' = Closing(current)
            BY <3>1, <5>1
          <6>2. conn[c].state \in {"adding", "pooled"} => c \in Of(current)
            BY <4>4 DEF LiveBody, Of
          <6> QED
            BY <6>1, <6>2 DEF Closing, Inv, Typed, TypeOK
        <5>2. CASE PhaseOf(current) # "up"
          BY <2>3, <3>1, <4>4, <5>2 DEF LiveBody, PhaseOf
        <5> QED
          BY <5>1, <5>2
      <4> QED
        BY <4>2, <4>3, <4>5 DEF LiveBody
    <3>7. overlapped' \in BOOLEAN
      BY <1>0 DEF Typed, TypeOK
    <3>8. Alone' /\ OneSwarm' /\ Live'
      BY <3>6, <3>7 DEF Alone, AloneBody, OneSwarm, OneSwarmBody, Live, LiveBody
    <3> QED
      BY <1>0, <3>4, <3>5, <3>8 DEF Inv
  <2> QED
    BY <2>2, <2>3
<1>5. ASSUME NEW s \in Swarm, Closed(s) PROVE Inv'
  <2>1. /\ UNCHANGED <<boot, namespace, current, made, conn, overlapped>>
        /\ swarm[s].phase = "destroyed"
        /\ swarm' = [swarm EXCEPT ![s].phase = "closed"]
        /\ \A q \in Request : request[q].stage # "stopped"
    BY <1>5, <1>t DEF Closed, PhaseOf, Quiet, StageAt
  <2>2. /\ swarm'[s].phase = "closed" /\ swarm'[s].ns = swarm[s].ns
        /\ \A z \in Swarm : z # s => swarm'[z] = swarm[z]
    BY <2>1 DEF Inv, Typed, TypeOK
  <2>3. \A q \in Request : /\ request'[q].swarm = request[q].swarm
                           /\ Waits(q)' <=> Waits(q)
                           /\ request'[q].stage = "stopped" => request[q].swarm = s
    BY <1>5, <2>1 DEF Closed, Waits, Inv, Typed, TypeOK
  <2>4. Ordered'
    <3>1. \A z \in Swarm : /\ swarm'[z].ns = swarm[z].ns
                           /\ swarm'[z].phase = "none" <=> swarm[z].phase = "none"
      BY <2>1, <2>2
    <3> QED
      BY <1>t, <2>1, <3>1 DEF Inv, Ordered
  <2>5. Awaited'
    BY <2>2, <2>3 DEF Inv, Awaited
  <2>6. AloneBody => AloneBody'
    BY <2>1, <2>3 DEF AloneBody
  <2>7. OneSwarmBody => OneSwarmBody'
    BY <2>1, <2>2 DEF OneSwarmBody, Opened
  <2>8. LiveBody => LiveBody'
    <3>1. current # 0 /\ swarm[current].phase = "up" => swarm'[current] = swarm[current]
      BY <1>t, <2>1, <2>2
    <3> QED
      BY <2>1, <3>1 DEF LiveBody
  <2>9. Alone' /\ OneSwarm' /\ Live'
    BY <2>1, <2>6, <2>7, <2>8 DEF Inv, Alone, AloneBody, OneSwarm, OneSwarmBody, Live, LiveBody
  <2> QED
    BY <1>0, <2>4, <2>5, <2>9 DEF Inv
<1>6. ASSUME NEW r \in Request, Restart(r) PROVE Inv'
  <2>1. PICK s \in Swarm : /\ StartDiscovery(s, Target(r))
                           /\ request' = [request EXCEPT ![r].stage = "starting", ![r].swarm = s]
    BY <1>6 DEF Restart
  <2>2. /\ UNCHANGED <<boot, conn, overlapped>> /\ request[r].stage = "stopped"
        /\ Target(r) \in Namespace
    BY <1>6 DEF Restart, Target, Inv, Typed, Named
  <2>3. request[r].swarm \in Swarm /\ swarm[request[r].swarm].phase = "closed"
    BY <2>2, <1>t DEF Inv, Typed, TypeOK, Awaited, Waits
  <2>4. boot # "free"
    <3>1. made # 0
      BY <1>t, <2>3 DEF Inv, Ordered
    <3> QED
      BY <3>1 DEF Inv, Ordered
  <2>5. ~overlapped => \A z \in Swarm : swarm[z].phase \notin Opened \cup {"destroyed"}
    <3>1. SUFFICES ASSUME ~overlapped, NEW z \in Swarm
                   PROVE  swarm[z].phase \notin Opened \cup {"destroyed"}
      OBVIOUS
    <3>2. request[r].swarm = current
      BY <2>2, <3>1 DEF Inv, Alone, AloneBody, Waits
    <3> QED
      BY <2>3, <3>1, <3>2 DEF Inv, OneSwarm, Opened
  <2>6. Ordered' /\ OneSwarm' /\ Live'
    BY <2>1, <2>2, <2>4, <2>5, DiscoveryKeeps
  <2>7. /\ request'[r].stage = "starting"
        /\ \A q \in Request : q # r => request'[q] = request[q]
    <3>1. request' = [request EXCEPT ![r] = [request[r] EXCEPT !.stage = "starting", !.swarm = s]]
      BY <2>1
    <3> QED
      BY <3>1 DEF Inv, Typed, TypeOK
  <2>8. Awaited'
    <3>1. ASSUME NEW q \in Request, Waits(q)' PROVE Waits(q) /\ q # r /\ request'[q] = request[q]
      BY <2>7, <3>1 DEF Waits
    <3>2. ASSUME NEW q \in Request, request'[q].stage = "stopped"
          PROVE  swarm'[request[q].swarm].phase = "closed"
      <4>1. request[q].stage = "stopped" /\ swarm[request[q].swarm].phase = "closed"
        BY <2>7, <3>2 DEF Inv, Awaited
      <4>2. request[q].swarm \in Swarm /\ request[q].swarm <= made
        BY <4>1, <1>t DEF Inv, Typed, TypeOK, Awaited, Waits, Ordered
      <4>3. request[q].swarm # s
        BY <2>1, <4>2, <1>t DEF StartDiscovery
      <4> QED
        BY <2>1, <4>1, <4>2, <4>3 DEF StartDiscovery, Inv, Typed, TypeOK
    <3> QED
      BY <3>1, <3>2 DEF Inv, Awaited, Waits
  <2>9. AloneBody => AloneBody'
    <3>1. AloneBody => \A q \in Request : ~Waits(q)'
      BY <2>2, <2>7 DEF AloneBody, Waits
    <3> QED
      BY <3>1 DEF AloneBody
  <2>10. Alone'
    BY <2>2, <2>9 DEF Inv, Alone, AloneBody
  <2> QED
    BY <1>0, <2>6, <2>8, <2>10 DEF Inv
<1>7. ASSUME Close PROVE Inv'
  <2>1. UNCHANGED <<boot, request, namespace, current, made, overlapped>> /\ Destroy(current)
    BY <1>7 DEF Close, calls
  <2>2. /\ \A z \in Swarm : /\ swarm'[z].ns = swarm[z].ns
                            /\ swarm'[z].phase = "none" <=> swarm[z].phase = "none"
                            /\ swarm[z].phase = "closed" => swarm'[z].phase = "closed"
                            /\ z # current => swarm'[z] = swarm[z]
        /\ current # 0 => current \in Swarm
    BY <2>1, DestroyKeeps
  <2>3. Ordered'
    BY <2>1, <2>2 DEF Inv, Ordered
  <2>4. Awaited'
    <3>1. \A q \in Request : request[q].stage = "stopped" => request[q].swarm \in Swarm
      BY <1>t DEF Inv, Awaited, Waits, Typed, TypeOK
    <3> QED
      BY <2>1, <2>2, <3>1 DEF Inv, Awaited, Waits
  <2>5. OneSwarmBody => OneSwarmBody'
    BY <2>1, <2>2 DEF OneSwarmBody
  <2>6. LiveBody => LiveBody'
    <3>1. SUFFICES ASSUME LiveBody, NEW c \in Conn
                   PROVE  conn'[c].state \notin {"adding", "pooled"}
      BY DEF LiveBody
    <3>2. conn[c].state \in {"adding", "pooled"} => c \in Of(current) /\ PhaseOf(current) = "up"
      BY <3>1 DEF LiveBody, Of, PhaseOf
    <3> QED
      BY <1>7, <3>2 DEF Close, Inv, Typed, TypeOK
  <2>7. Alone' /\ OneSwarm' /\ Live'
    BY <2>1, <2>5, <2>6 DEF Inv, Alone, AloneBody, Waits, OneSwarm, OneSwarmBody, Live, LiveBody
  <2> QED
    BY <1>0, <2>3, <2>4, <2>7 DEF Inv
<1>8. ASSUME UNCHANGED <<calls, swarms, overlapped>>, LiveBody => LiveBody' PROVE Inv'
  <2>1. UNCHANGED <<boot, request, namespace, current, made, swarm, overlapped>>
    BY <1>8 DEF calls, swarms
  <2> QED
    BY <1>0, <1>8, <2>1 DEF Inv, Ordered, Awaited, Alone, AloneBody, Waits, OneSwarm, Live
<1>9. ASSUME NEW c \in Conn, NEW s \in Swarm, Connect(c, s), ~overlapped PROVE LiveBody => LiveBody'
  <2>1. /\ s = current /\ current # 0 /\ swarm[current].phase = "up"
    BY <1>9, <1>t DEF Connect, PhaseOf, Inv, OneSwarm, Opened
  <2>2. /\ conn'[c].swarm = s /\ conn'[c].told = namespace
        /\ \A d \in Conn : d # c => conn'[d] = conn[d]
    BY <1>9 DEF Connect, Inv, Typed, TypeOK
  <2>3. UNCHANGED <<namespace, current, swarm>>
    BY <1>9 DEF Connect, swarms
  <2> QED
    BY <2>1, <2>2, <2>3 DEF LiveBody
<1>10. ASSUME NEW c \in Conn, NEW s \in Swarm, Connect(c, s) PROVE Inv'
  <2>1. UNCHANGED <<calls, swarms, overlapped>>
    BY <1>10 DEF Connect
  <2>2. CASE overlapped
    <3>1. UNCHANGED <<boot, request, namespace, current, made, swarm, overlapped>>
      BY <2>1 DEF calls, swarms
    <3> QED
      BY <1>0, <2>2, <3>1 DEF Inv, Ordered, Awaited, Alone, AloneBody, Waits, OneSwarm, Live
  <2>3. CASE ~overlapped
    BY <1>8, <1>9, <1>10, <2>1, <2>3
  <2> QED
    BY <2>2, <2>3
<1>11. ASSUME NEW c \in Conn, Pool(c) \/ End(c) \/ Gone(c) PROVE Inv'
  <2>1. UNCHANGED <<calls, swarms, overlapped>>
    BY <1>11 DEF Pool, End, Gone
  <2>2. \A d \in Conn : conn'[d].state \in {"adding", "pooled"} =>
          /\ conn[d].state \in {"adding", "pooled"}
          /\ conn'[d].swarm = conn[d].swarm /\ conn'[d].told = conn[d].told
    BY <1>11 DEF Pool, End, Gone, Unused, Inv, Typed, TypeOK
  <2>3. LiveBody => LiveBody'
    BY <2>1, <2>2 DEF LiveBody, swarms
  <2> QED
    BY <1>8, <2>1, <2>3
<1>12. ASSUME UNCHANGED vars PROVE Inv'
  BY <1>8, <1>12 DEF vars, calls, swarms, LiveBody
<1> QED
  BY <1>1, <1>2, <1>3, <1>4, <1>5, <1>6, <1>7, <1>10, <1>11, <1>12 DEF Next, ByItself

\* The inductive invariant holds.
THEOREM InvHolds == Spec => []Inv
BY InvInit, InvStep, PTL DEF Spec

\* Unless two calls of change_namespace have waited for the same swarm, a node
\* has one swarm that is open, that of command_swarm.
THEOREM OneSwarmHolds == Spec => []OneSwarm
<1>1. Inv => OneSwarm
  BY DEF Inv
<1> QED
  BY <1>1, InvHolds, PTL

\* Under the same condition every router of the pool is of the swarm of the moment
\* and was told its namespace.
THEOREM PoolHolds == Spec => []PoolIsOfNamespace
<1>1. Inv => PoolIsOfNamespace
  BY DEF Inv, Live, LiveBody, Ordered, PoolIsOfNamespace
<1> QED
  BY <1>1, InvHolds, PTL

=============================================================================
