------------------------- MODULE InterplanetaryProofs -------------------------
(* Theorems about Interplanetary, for any nodes, addresses, connections and    *)
(* bounds.                                                                     *)
EXTENDS Interplanetary, TLAPS

----------------------------------------------------------------------------
(* Type correctness *)

\* A connection that is dialed has an address
Paired == \A c \in Conn : dialer[c] = None <=> dialed[c] = None
Typed == TypeOK /\ Paired

PeersTyped ==
  /\ seen \in [Node -> [Address -> {"no", "seen", "banned"}]]
  /\ retries \in [Node -> [Address -> 0 .. MaxRetries]]
  /\ waiting \in [Node -> SUBSET Address]
ConnsTyped ==
  /\ dialer \in [Conn -> Node \cup {None}] /\ dialed \in [Conn -> Address \cup {None}]
  /\ stage \in [Conn -> [Side -> Stage]]
  /\ Paired

LEMMA BothTyped ==
  ASSUME NEW o \in Stage, NEW i \in Stage
  PROVE  Both(o, i) \in [Side -> Stage] /\ Both(o, i)["out"] = o /\ Both(o, i)["in"] = i
BY DEF Both, Side

\* The nodes at the two ends of a connection
LEMMA OwnerTyped ==
  ASSUME Typed, NEW c \in Conn \ Free, NEW s \in Side
  PROVE  /\ dialer[c] \in Node /\ dialed[c] \in Address
         /\ Owner(c, s) \in Node /\ Remote(c, s) \in Node /\ Other(s) \in Side
BY InterplanetaryAssumption DEF Typed, TypeOK, Paired, Free, Owner, Remote, Other, Side

LEMMA TypeInit == Init => Typed
<1> SUFFICES ASSUME Init PROVE Typed
  OBVIOUS
<1>1. Both("none", "none") \in [Side -> Stage]
  BY BothTyped DEF Stage
<1>2. PeersTyped /\ troubles \in Nat
  BY InterplanetaryAssumption DEF Init, PeersTyped
<1>3. /\ phase \in [Node -> Phase]
      /\ kept \in [Node -> [Node -> Conn \cup {None}]]
      /\ fate \in [Node -> [Address -> {"none", "cut", "yielded"}]]
  BY DEF Init, Phase
<1>4. ConnsTyped
  BY <1>1 DEF Init, ConnsTyped, Paired
<1> QED
  BY <1>2, <1>3, <1>4 DEF Typed, TypeOK, PeersTyped, ConnsTyped

LEMMA KickTyped ==
  ASSUME Typed, NEW n \in Node, NEW a \in Address, Kick(n, a)
  PROVE  ConnsTyped'
<1>1. CASE UNCHANGED connVars
  BY <1>1 DEF connVars, Typed, TypeOK, ConnsTyped, Paired
<1>2. ASSUME NEW c \in Free,
             dialer' = [dialer EXCEPT ![c] = n], dialed' = [dialed EXCEPT ![c] = a],
             stage' = [stage EXCEPT ![c] = Both("dialing", "none")]
      PROVE  ConnsTyped'
  <2>1. Both("dialing", "none") \in [Side -> Stage]
    BY BothTyped DEF Stage
  <2>2. n # None /\ a # None /\ c \in Conn
    BY InterplanetaryAssumption DEF Free
  <2>3. Paired'
    BY <1>2, <2>2 DEF Typed, TypeOK, Paired
  <2> QED
    BY <1>2, <2>1, <2>2, <2>3 DEF Typed, TypeOK, ConnsTyped
<1> QED
  BY <1>1, <1>2 DEF Kick

LEMMA RequeueTyped ==
  ASSUME Typed, NEW n \in Node, NEW a \in Address, Requeue(n, a)
  PROVE  PeersTyped'
<1>1. CASE UNCHANGED peerVars
  BY <1>1 DEF peerVars, Typed, TypeOK, PeersTyped
<1>2. CASE /\ Retriable(n, a) /\ retries' = [retries EXCEPT ![n][a] = @ + 1]
           /\ waiting' = Armed(n, a) /\ UNCHANGED seen
  <2>1. retries[n][a] + 1 \in 0 .. MaxRetries
    BY <1>2, InterplanetaryAssumption DEF Retriable, Typed, TypeOK
  <2> QED
    BY <1>2, <2>1 DEF Armed, Typed, TypeOK, PeersTyped
<1>3. CASE DropPeer(n, a) /\ UNCHANGED <<retries, waiting>>
  BY <1>3 DEF DropPeer, Typed, TypeOK, PeersTyped
<1> QED
  BY <1>1, <1>2, <1>3 DEF Requeue

\* One end of a connection changes its stage
LEMMA StageTyped ==
  ASSUME Typed, NEW c \in Conn, NEW s \in Side, NEW x \in Stage,
         stage' = [stage EXCEPT ![c][s] = x]
  PROVE  /\ stage' \in [Conn -> [Side -> Stage]] /\ stage'[c][s] = x
         /\ \A d \in Conn, t \in Side : d # c \/ t # s => stage'[d][t] = stage[d][t]
BY DEF Typed, TypeOK

\* A connection is given free
LEMMA FreedTyped ==
  ASSUME Typed, NEW c \in Conn,
         dialer' = [dialer EXCEPT ![c] = None], dialed' = [dialed EXCEPT ![c] = None],
         stage' = [stage EXCEPT ![c] = Both("none", "none")]
  PROVE  ConnsTyped'
<1>1. Both("none", "none") \in [Side -> Stage]
  BY BothTyped DEF Stage
<1> QED
  BY <1>1 DEF Typed, TypeOK, Paired, ConnsTyped

LEMMA FateTyped ==
  ASSUME Typed, NEW n \in Node, NEW a \in Address, NEW x \in {"none", "cut", "yielded"}
  PROVE  [fate EXCEPT ![n][a] = x] \in [Node -> [Address -> {"none", "cut", "yielded"}]]
BY DEF Typed, TypeOK

LEMMA TypeStep == Typed /\ [Next]_vars => Typed'
<1> SUFFICES ASSUME Typed, [Next]_vars PROVE Typed'
  OBVIOUS
<1> DEFINE RestTyped == /\ phase \in [Node -> Phase]
                        /\ kept \in [Node -> [Node -> Conn \cup {None}]]
                        /\ troubles \in Nat
                        /\ fate \in [Node -> [Address -> {"none", "cut", "yielded"}]]
<1>q. PeersTyped' /\ ConnsTyped' /\ RestTyped' => Typed'
  BY DEF PeersTyped, ConnsTyped, Typed, TypeOK
<1>p. PeersTyped /\ ConnsTyped /\ RestTyped
  BY DEF PeersTyped, ConnsTyped, Typed, TypeOK
<1>t. Trouble \/ UNCHANGED troubles => troubles' \in Nat
  BY <1>p DEF Trouble
<1>1. ASSUME NEW n \in Node, Listen(n) \/ Listening(n) \/ Closed(n) PROVE Typed'
  <2>1. phase' \in [Node -> Phase]
    BY <1>1, <1>p DEF Listen, Listening, Closed, Phase
  <2>2. UNCHANGED <<peerVars, kept, connVars, troubles, fate>>
    BY <1>1 DEF Listen, Listening, Closed
  <2> QED
    BY <1>p, <1>q, <2>1, <2>2 DEF peerVars, connVars, PeersTyped, ConnsTyped, Paired
<1>2. ASSUME NEW n \in Node, Destroy(n) PROVE Typed'
  <2>1. phase' \in [Node -> Phase] /\ troubles' \in Nat
    BY <1>2, <1>p, <1>t DEF Destroy, Phase
  <2>2. CloseAll(n) \in [Conn -> [Side -> Stage]]
    <3>1. \A c \in Conn, s \in Side : CloseAll(n)[c][s] \in Stage
      BY DEF CloseAll, Typed, TypeOK, Stage
    <3> QED
      BY <3>1 DEF CloseAll
  <2>3. UNCHANGED <<peerVars, kept, dialer, dialed, fate>>
        /\ (stage' = stage \/ stage' = CloseAll(n))
    BY <1>2 DEF Destroy
  <2> QED
    BY <1>p, <1>q, <2>1, <2>2, <2>3 DEF peerVars, PeersTyped, ConnsTyped, Paired
<1>3. ASSUME NEW n \in Node, NEW a \in Address, Discover(n, a) PROVE Typed'
  <2>1. ConnsTyped'
    BY <1>3, KickTyped DEF Discover
  <2>2. PeersTyped'
    BY <1>3, <1>p, InterplanetaryAssumption DEF Discover, PeersTyped
  <2>3. fate' \in [Node -> [Address -> {"none", "cut", "yielded"}]]
    BY <1>3, FateTyped DEF Discover
  <2>4. UNCHANGED <<phase, kept>> /\ troubles' \in Nat
    BY <1>3, <1>t DEF Discover
  <2> QED
    BY <1>p, <1>q, <2>1, <2>2, <2>3, <2>4
<1>4. ASSUME NEW n \in Node, NEW a \in Address, WhoAmI(n, a) PROVE Typed'
  <2>1. PeersTyped' /\ troubles' \in Nat
    BY <1>4, <1>p, <1>t DEF WhoAmI, PeersTyped
  <2>2. UNCHANGED <<phase, kept, connVars, fate>>
    BY <1>4 DEF WhoAmI
  <2> QED
    BY <1>p, <1>q, <2>1, <2>2 DEF connVars, ConnsTyped, Paired
<1>5. ASSUME NEW n \in Node, NEW a \in Address, Retry(n, a) PROVE Typed'
  <2>1. ConnsTyped'
    BY <1>5, KickTyped DEF Retry
  <2>2. PeersTyped' /\ UNCHANGED <<phase, kept, troubles, fate>>
    BY <1>5, <1>p DEF Retry, PeersTyped
  <2> QED
    BY <1>p, <1>q, <2>1, <2>2
<1>6. ASSUME NEW c \in Conn, DialFail(c) PROVE Typed'
  <2>1. c \in Conn \ Free /\ dialer[c] \in Node /\ dialed[c] \in Address
    BY <1>6, OwnerTyped DEF DialFail, Side
  <2>2. PeersTyped'
    BY <1>6, <2>1, RequeueTyped DEF DialFail
  <2>3. ConnsTyped'
    BY <1>6, FreedTyped DEF DialFail
  <2>4. troubles' \in Nat /\ UNCHANGED <<phase, kept, fate>>
    BY <1>6, <1>p, <1>t, <2>1 DEF DialFail
  <2> QED
    BY <1>p, <1>q, <2>2, <2>3, <2>4
<1>7. ASSUME NEW c \in Conn, Connect(c) PROVE Typed'
  <2>1. c \in Conn \ Free /\ dialer[c] \in Node
    BY <1>7, OwnerTyped DEF Connect, Side
  <2>2. Both("open", "backlog") \in [Side -> Stage]
    BY BothTyped DEF Stage
  <2>3. /\ stage' = [stage EXCEPT ![c] = Both("open", "backlog")]
        /\ UNCHANGED <<phase, peerVars, kept, dialer, dialed, troubles, fate>>
    BY <1>7 DEF Connect
  <2>4. stage' \in [Conn -> [Side -> Stage]]
    BY <1>p, <2>1, <2>2, <2>3 DEF ConnsTyped
  <2> QED
    BY <1>p, <1>q, <2>3, <2>4 DEF peerVars, PeersTyped, ConnsTyped, Paired
<1>8. ASSUME NEW c \in Conn, Accept(c) PROVE Typed'
  <2>1. c \in Conn \ Free /\ Owner(c, "in") \in Node
    BY <1>8, OwnerTyped DEF Accept, Side
  <2>2. stage' \in [Conn -> [Side -> Stage]]
    BY <1>8, StageTyped DEF Accept, Stage, Side
  <2> QED
    BY <1>8, <1>p, <1>q, <2>2 DEF Accept, peerVars, PeersTyped, ConnsTyped, Paired
<1>9. ASSUME NEW c \in Conn, NEW s \in Side, Handshake(c, s) PROVE Typed'
  <2> DEFINE n == Owner(c, s)
             m == Remote(c, s)
             a == dialed[c]
  <2>1. c \in Conn \ Free /\ n \in Node /\ m \in Node /\ a \in Address
    BY <1>9, OwnerTyped DEF Handshake
  <2>2. UNCHANGED <<phase, waiting, dialer, dialed, troubles>>
    BY <1>9 DEF Handshake
  <2>3. retries' = (IF s = "out" THEN [retries EXCEPT ![n][a] = 0] ELSE retries)
    BY <1>9 DEF Handshake
  <2>c. \/ /\ seen' = IF s = "out" THEN [seen EXCEPT ![n][a] = "banned"] ELSE seen
           /\ stage' = [stage EXCEPT ![c][s] = "closing"]
           /\ UNCHANGED <<kept, fate>>
        \/ /\ stage' = [stage EXCEPT ![c][s] = "closing"]
           /\ Yields(n, c) /\ UNCHANGED <<seen, kept>>
        \/ Replace(n, m, c, s) /\ UNCHANGED seen
    BY <1>9 DEF Handshake
  <2>y. ASSUME NEW d \in Conn, Yields(n, d), d \notin Free \/ dialer[d] # n
        PROVE  fate' \in [Node -> [Address -> {"none", "cut", "yielded"}]]
    <3>1. dialer[d] = n => dialed[d] \in Address
      BY <2>y, OwnerTyped DEF Side
    <3> QED
      BY <1>p, <2>1, <2>y, <3>1, FateTyped DEF Yields
  <2> HIDE DEF n, m, a
  <2>4. retries' \in [Node -> [Address -> 0 .. MaxRetries]]
    BY <1>p, <2>1, <2>3, InterplanetaryAssumption DEF PeersTyped
  <2>5. ASSUME stage' = [stage EXCEPT ![c][s] = "closing"] PROVE stage' \in [Conn -> [Side -> Stage]]
    BY <2>5, StageTyped DEF Stage
  <2>6. CASE /\ seen' = IF s = "out" THEN [seen EXCEPT ![n][a] = "banned"] ELSE seen
             /\ stage' = [stage EXCEPT ![c][s] = "closing"]
             /\ UNCHANGED <<kept, fate>>
    <3>1. seen' \in [Node -> [Address -> {"no", "seen", "banned"}]]
      BY <1>p, <2>1, <2>6 DEF PeersTyped
    <3> QED
      BY <1>p, <1>q, <2>2, <2>4, <2>5, <2>6, <3>1 DEF PeersTyped, ConnsTyped, Paired
  <2>7. CASE /\ stage' = [stage EXCEPT ![c][s] = "closing"]
             /\ Yields(n, c) /\ UNCHANGED <<seen, kept>>
    <3>1. fate' \in [Node -> [Address -> {"none", "cut", "yielded"}]]
      BY <2>1, <2>7, <2>y
    <3> QED
      BY <1>p, <1>q, <2>2, <2>4, <2>5, <2>7, <3>1 DEF PeersTyped, ConnsTyped, Paired
  <2>8. CASE Replace(n, m, c, s) /\ UNCHANGED seen
    <3>1. kept' \in [Node -> [Node -> Conn \cup {None}]]
      BY <1>p, <2>1, <2>8 DEF Replace
    <3>2. stage' \in [Conn -> [Side -> Stage]]
      <4>1. \A d \in Conn, t \in Side : stage[d][t] \in Stage
        BY <1>p DEF ConnsTyped
      <4>2. "kept" \in Stage /\ "closing" \in Stage
        BY DEF Stage
      <4> QED
        BY <2>8, <4>1, <4>2 DEF Replace
    <3>3. fate' \in [Node -> [Address -> {"none", "cut", "yielded"}]]
      <4>1. kept[n][m] \in Conn \cup {None}
        BY <1>p, <2>1
      <4>2. kept[n][m] = None => fate' = fate
        BY <2>8 DEF Replace
      <4>3. kept[n][m] # None => Yields(n, kept[n][m])
        BY <2>8 DEF Replace
      <4>4. kept[n][m] \in Conn => kept[n][m] \notin Free \/ dialer[kept[n][m]] # n
        BY <2>1, InterplanetaryAssumption DEF Free
      <4> QED
        BY <1>p, <2>y, <4>1, <4>2, <4>3, <4>4
    <3> QED
      BY <1>p, <1>q, <2>2, <2>4, <2>8, <3>1, <3>2, <3>3 DEF PeersTyped, ConnsTyped, Paired
  <2> QED
    BY <2>c, <2>6, <2>7, <2>8
<1>10. ASSUME NEW c \in Conn, NEW s \in Side, HearClose(c, s) \/ Fail(c, s) PROVE Typed'
  <2>1. c \in Conn \ Free /\ dialer[c] \in Node /\ dialed[c] \in Address
    BY <1>10, OwnerTyped DEF HearClose, Fail
  <2>2. /\ UNCHANGED <<phase, peerVars, kept, dialer, dialed>>
        /\ stage' = [stage EXCEPT ![c][s] = "closing"] /\ CutAt(c, s)
        /\ Trouble \/ UNCHANGED troubles
    BY <1>10 DEF HearClose, Fail
  <2>3. fate' \in [Node -> [Address -> {"none", "cut", "yielded"}]]
    BY <1>p, <2>1, <2>2, FateTyped DEF CutAt
  <2>4. stage' \in [Conn -> [Side -> Stage]]
    BY <2>2, StageTyped DEF Stage
  <2> QED
    BY <1>p, <1>q, <1>t, <2>2, <2>3, <2>4 DEF peerVars, PeersTyped, ConnsTyped, Paired
<1>11. ASSUME NEW c \in Conn, NEW s \in Side, CloseEvent(c, s) PROVE Typed'
  <2> DEFINE n == Owner(c, s)
             m == Remote(c, s)
  <2>1. c \in Conn \ Free /\ n \in Node /\ m \in Node /\ dialed[c] \in Address
    BY <1>11, OwnerTyped DEF CloseEvent
  <2>2. /\ Leave(c, s)
        /\ UNCHANGED <<phase, troubles, fate>>
        /\ kept' = [kept EXCEPT ![n][m] = None] \/ kept' = kept
        /\ Requeue(n, dialed[c]) \/ UNCHANGED peerVars
    BY <1>11 DEF CloseEvent
  <2> HIDE DEF n, m
  <2>3. PeersTyped'
    BY <1>p, <2>1, <2>2, RequeueTyped DEF peerVars, PeersTyped
  <2>4. kept' \in [Node -> [Node -> Conn \cup {None}]]
    <3>1. [kept EXCEPT ![n][m] = None] \in [Node -> [Node -> Conn \cup {None}]]
      BY <1>p
    <3> QED
      BY <1>p, <2>2, <3>1
  <2>5. ConnsTyped'
    <3>1. CASE stage[c][Other(s)] \in {"none", "over"}
      BY <2>2, <3>1, FreedTyped DEF Leave
    <3>2. CASE stage[c][Other(s)] \notin {"none", "over"}
      <4>1. stage' = [stage EXCEPT ![c][s] = "over"] /\ UNCHANGED <<dialer, dialed>>
        BY <2>2, <3>2 DEF Leave
      <4>2. stage' \in [Conn -> [Side -> Stage]]
        BY <4>1, StageTyped DEF Stage
      <4> QED
        BY <1>p, <4>1, <4>2 DEF ConnsTyped, Paired
    <3> QED
      BY <3>1, <3>2
  <2> QED
    BY <1>p, <1>q, <2>2, <2>3, <2>4, <2>5
<1>12. ASSUME UNCHANGED vars PROVE Typed'
  BY <1>12 DEF vars, Typed, TypeOK, Paired
<1> QED
  BY <1>1, <1>2, <1>3, <1>4, <1>5, <1>6, <1>7, <1>8, <1>9, <1>10, <1>11, <1>12 DEF Next, Step

\* Every variable has its type, whatever nodes, addresses and connections there are.
THEOREM TypeCorrect == Spec => []TypeOK
<1>1. Typed => TypeOK
  BY DEF Typed
<1> QED
  BY <1>1, TypeInit, TypeStep, PTL DEF Spec

----------------------------------------------------------------------------
(* One connection per pair *)

\* A number that is free has no ends, and a dial has no other end
Idle == \A c \in Conn :
  /\ c \in Free => \A s \in Side : stage[c][s] = "none"
  /\ stage[c]["out"] = "dialing" => stage[c]["in"] = "none"

\* An end that has shaken hands is the one in the table of its node
KeptIsHeld == \A c \in Conn \ Free : \A s \in Side : stage[c][s] = "kept" =>
  kept[Owner(c, s)][Remote(c, s)] = c /\ Owner(c, s) # Remote(c, s)

\* What the table of a node holds is an end of that node, kept or being closed
HeldIsKept == \A n, m \in Node : kept[n][m] # None =>
  /\ kept[n][m] \in Conn \ Free /\ n # m
  /\ \E s \in Side : /\ Owner(kept[n][m], s) = n /\ Remote(kept[n][m], s) = m
                     /\ stage[kept[n][m]][s] \in {"kept", "closing"}

Inv == Typed /\ Idle /\ KeptIsHeld /\ HeldIsKept

LEMMA InvInit == Init => Inv
<1> SUFFICES ASSUME Init PROVE Inv
  OBVIOUS
<1>1. Typed
  BY TypeInit
<1>2. /\ \A c \in Conn, s \in Side : stage[c][s] = "none"
      /\ \A c \in Conn : dialer[c] = None
      /\ \A n, m \in Node : kept[n][m] = None
  BY DEF Init, Both, Side
<1> QED
  BY <1>1, <1>2 DEF Inv, Idle, KeptIsHeld, HeldIsKept, Free, Side

\* A step at one connection that no table holds, and that has not shaken hands
LEMMA FreshConn ==
  ASSUME Inv, NEW c \in Conn,
         \A s \in Side : stage[c][s] \notin {"kept", "closing"},
         \A s \in Side : stage'[c][s] # "kept",
         UNCHANGED kept,
         \A d \in Conn : d # c => /\ stage'[d] = stage[d]
                                  /\ dialer'[d] = dialer[d] /\ dialed'[d] = dialed[d]
  PROVE  KeptIsHeld' /\ HeldIsKept'
<1>1. \A n, m \in Node : kept[n][m] # c
  <2>1. SUFFICES ASSUME NEW n \in Node, NEW m \in Node, kept[n][m] = c PROVE FALSE
    OBVIOUS
  <2>2. kept[n][m] # None
    BY <2>1, InterplanetaryAssumption
  <2> QED
    BY <2>1, <2>2 DEF Inv, HeldIsKept
<1>2. \A d \in Conn : d # c => \A s \in Side : Owner(d, s)' = Owner(d, s) /\ Remote(d, s)' = Remote(d, s)
  BY DEF Owner, Remote
<1>3. \A d \in Conn : d # c => (d \in Free' <=> d \in Free)
  BY DEF Free
<1>4. KeptIsHeld'
  BY <1>2, <1>3 DEF Inv, KeptIsHeld
<1>5. HeldIsKept'
  BY <1>1, <1>2, <1>3 DEF Inv, HeldIsKept
<1> QED
  BY <1>4, <1>5

\* A step that closes ends, and leaves the tables alone
LEMMA Closing ==
  ASSUME Inv, UNCHANGED <<kept, dialer, dialed>>,
         \A c \in Conn, s \in Side :
           /\ stage'[c][s] = "kept" => stage[c][s] = "kept"
           /\ stage[c][s] \in {"kept", "closing"} => stage'[c][s] \in {"kept", "closing"}
  PROVE  KeptIsHeld' /\ HeldIsKept'
<1>1. \A c \in Conn, s \in Side : Owner(c, s)' = Owner(c, s) /\ Remote(c, s)' = Remote(c, s)
  BY DEF Owner, Remote
<1>2. Free' = Free
  BY DEF Free
<1>3. KeptIsHeld'
  BY <1>1, <1>2 DEF Inv, KeptIsHeld
<1>4. HeldIsKept'
  BY <1>1, <1>2 DEF Inv, HeldIsKept
<1> QED
  BY <1>3, <1>4

LEMMA KickKeeps ==
  ASSUME Inv, NEW n \in Node, NEW a \in Address, Kick(n, a), UNCHANGED kept
  PROVE  Idle' /\ KeptIsHeld' /\ HeldIsKept'
<1>1. CASE UNCHANGED connVars
  <2>1. UNCHANGED <<dialer, dialed, stage>>
    BY <1>1 DEF connVars
  <2> QED
    BY <2>1, Closing DEF Inv, Idle, Free
<1>2. ASSUME NEW c \in Free,
             dialer' = [dialer EXCEPT ![c] = n], dialed' = [dialed EXCEPT ![c] = a],
             stage' = [stage EXCEPT ![c] = Both("dialing", "none")]
      PROVE  Idle' /\ KeptIsHeld' /\ HeldIsKept'
  <2>1. c \in Conn /\ \A s \in Side : stage[c][s] = "none"
    BY DEF Inv, Idle, Free
  <2>2. /\ stage'[c]["out"] = "dialing" /\ stage'[c]["in"] = "none" /\ dialer'[c] = n
        /\ \A d \in Conn : d # c => /\ stage'[d] = stage[d]
                                    /\ dialer'[d] = dialer[d] /\ dialed'[d] = dialed[d]
    BY <1>2, <2>1, BothTyped DEF Stage, Inv, Typed, TypeOK
  <2>3. \A s \in Side : stage'[c][s] # "kept"
    BY <2>2 DEF Side
  <2>4. Idle'
    BY <2>2, InterplanetaryAssumption DEF Inv, Idle, Free
  <2> QED
    BY <2>1, <2>2, <2>3, <2>4, FreshConn
<1> QED
  BY <1>1, <1>2 DEF Kick

LEMMA InvStep == Inv /\ [Next]_vars => Inv'
<1> SUFFICES ASSUME Inv, [Next]_vars PROVE Inv'
  OBVIOUS
<1>0. Typed'
  BY TypeStep DEF Inv
<1>t. /\ stage \in [Conn -> [Side -> Stage]] /\ kept \in [Node -> [Node -> Conn \cup {None}]]
      /\ dialer \in [Conn -> Node \cup {None}] /\ dialed \in [Conn -> Address \cup {None}]
      /\ Side = {"out", "in"} /\ None \notin Node \cup Address \cup Conn
      /\ \A s \in Side : Other(s) \in Side /\ Other(s) # s /\ Other(Other(s)) = s
  BY InterplanetaryAssumption DEF Inv, Typed, TypeOK, Side, Other
<1>u. UNCHANGED <<connVars, kept>> => Inv'
  <2>1. SUFFICES ASSUME UNCHANGED <<dialer, dialed, stage, kept>> PROVE Inv'
    BY DEF connVars
  <2> QED
    BY <1>0, <2>1, Closing DEF Inv, Idle, Free
<1>1. ASSUME NEW n \in Node, Listen(n) \/ Listening(n) \/ Closed(n) PROVE Inv'
  BY <1>1, <1>u DEF Listen, Listening, Closed
<1>2. ASSUME NEW n \in Node, Destroy(n) PROVE Inv'
  <2>1. UNCHANGED <<kept, dialer, dialed>> /\ (stage' = stage \/ stage' = CloseAll(n))
    BY <1>2 DEF Destroy
  <2>2. \A c \in Conn, s \in Side :
           \/ stage'[c][s] = stage[c][s]
           \/ stage[c][s] \in {"open", "kept", "dialing"} /\ stage'[c][s] = "closing"
           \/ stage[c][s] = "backlog" /\ stage'[c][s] = "none"
    BY <2>1 DEF CloseAll
  <2>3. \A c \in Conn, s \in Side :
           /\ stage'[c][s] = "kept" => stage[c][s] = "kept"
           /\ stage[c][s] \in {"kept", "closing"} => stage'[c][s] \in {"kept", "closing"}
    BY <2>2
  <2>4. Idle'
    BY <1>t, <2>1, <2>2 DEF Inv, Idle, Free
  <2> QED
    BY <1>0, <2>1, <2>3, <2>4, Closing DEF Inv
<1>3. ASSUME NEW n \in Node, NEW a \in Address, Discover(n, a) \/ Retry(n, a) PROVE Inv'
  BY <1>0, <1>3, KickKeeps DEF Discover, Retry, Inv
<1>4. ASSUME NEW n \in Node, NEW a \in Address, WhoAmI(n, a) PROVE Inv'
  BY <1>4, <1>u DEF WhoAmI
<1>5. ASSUME NEW c \in Conn, DialFail(c) PROVE Inv'
  <2>1. /\ stage[c]["out"] = "dialing" /\ stage[c]["in"] = "none"
        /\ dialer' = [dialer EXCEPT ![c] = None] /\ dialed' = [dialed EXCEPT ![c] = None]
        /\ stage' = [stage EXCEPT ![c] = Both("none", "none")] /\ UNCHANGED kept
    BY <1>5 DEF DialFail
  <2>2. /\ \A s \in Side : stage'[c][s] = "none"
        /\ \A d \in Conn : d # c => /\ stage'[d] = stage[d]
                                    /\ dialer'[d] = dialer[d] /\ dialed'[d] = dialed[d]
    BY <1>t, <2>1 DEF Both
  <2>3. Idle'
    BY <1>t, <2>2 DEF Inv, Idle, Free
  <2>4. /\ \A s \in Side : stage[c][s] \notin {"kept", "closing"}
        /\ \A s \in Side : stage'[c][s] # "kept"
    BY <1>t, <2>1, <2>2
  <2> QED
    BY <1>0, <2>1, <2>2, <2>3, <2>4, FreshConn DEF Inv
<1>6. ASSUME NEW c \in Conn, Connect(c) PROVE Inv'
  <2>1. /\ c \notin Free /\ stage[c]["out"] = "dialing" /\ stage[c]["in"] = "none"
        /\ stage' = [stage EXCEPT ![c] = Both("open", "backlog")]
        /\ UNCHANGED <<dialer, dialed, kept>>
    BY <1>6 DEF Connect, Inv, Idle
  <2>2. /\ stage'[c]["out"] = "open" /\ stage'[c]["in"] = "backlog"
        /\ \A d \in Conn : d # c => stage'[d] = stage[d]
    BY <1>t, <2>1, BothTyped DEF Stage
  <2>3. Idle'
    BY <1>t, <2>1, <2>2 DEF Inv, Idle, Free
  <2>4. /\ \A s \in Side : stage[c][s] \notin {"kept", "closing"}
        /\ \A s \in Side : stage'[c][s] # "kept"
    BY <1>t, <2>1, <2>2
  <2> QED
    BY <1>0, <2>1, <2>2, <2>3, <2>4, FreshConn DEF Inv
\* One end changes its stage
<1>e. ASSUME NEW c \in Conn \ Free, NEW s \in Side, NEW x \in {"open", "closing"},
             stage' = [stage EXCEPT ![c][s] = x], UNCHANGED <<dialer, dialed, kept>>,
             stage[c][s] \in {"backlog", "open", "kept"},
             x = "open" => stage[c][s] = "backlog"
      PROVE  Inv'
  <2>1. /\ x \in Stage /\ stage'[c][s] = x
        /\ \A d \in Conn, t \in Side : d # c \/ t # s => stage'[d][t] = stage[d][t]
    BY <1>e, StageTyped DEF Stage, Inv
  <2>2. Idle'
    BY <1>t, <1>e, <2>1 DEF Inv, Idle, Free
  <2>3. \A d \in Conn, t \in Side :
          /\ stage'[d][t] = "kept" => stage[d][t] = "kept"
          /\ stage[d][t] \in {"kept", "closing"} => stage'[d][t] \in {"kept", "closing"}
    BY <1>e, <2>1
  <2> QED
    BY <1>0, <1>e, <2>2, <2>3, Closing DEF Inv
<1>7. ASSUME NEW c \in Conn, Accept(c) PROVE Inv'
  BY <1>7, <1>e, <1>t DEF Accept
<1>8. ASSUME NEW c \in Conn, NEW s \in Side, HearClose(c, s) \/ Fail(c, s) PROVE Inv'
  BY <1>8, <1>e DEF HearClose, Fail
<1>9. ASSUME NEW c \in Conn, NEW s \in Side, Handshake(c, s) PROVE Inv'
  <2> DEFINE n == Owner(c, s)
             m == Remote(c, s)
             old == kept[n][m]
  <2>1. /\ c \in Conn \ Free /\ n \in Node /\ m \in Node /\ stage[c][s] = "open"
        /\ UNCHANGED <<dialer, dialed>>
    BY <1>9, OwnerTyped DEF Handshake, Inv
  <2>2. CASE stage' = [stage EXCEPT ![c][s] = "closing"] /\ UNCHANGED kept
    BY <1>e, <2>1, <2>2
  <2>3. CASE m # n /\ Replace(n, m, c, s)
    <3>1. /\ kept' = [kept EXCEPT ![n][m] = c]
          /\ stage' = [d \in Conn |-> [t \in Side |->
               CASE d = c /\ t = s -> "kept"
                 [] d = old /\ t = EndOf(n, old) -> "closing"
                 [] OTHER -> stage[d][t]]]
      BY <2>3 DEF Replace
    <3>a. \A d \in Conn, t \in Side : Owner(d, t)' = Owner(d, t) /\ Remote(d, t)' = Remote(d, t)
      BY <2>1 DEF Owner, Remote
    <3>b. Free' = Free
      BY <2>1 DEF Free
    <3>c. Owner(c, s) = n /\ Remote(c, s) = m
      OBVIOUS
    <3>d. \A d \in Conn, t \in Side :
            Owner(d, t) = n /\ Remote(d, t) = m /\ d \notin Free => t = EndOf(n, d)
      BY <1>t, <2>1, <2>3 DEF Owner, Remote, Other, EndOf
    <3>e. old = None \/ (old \in Conn \ Free /\ EndOf(n, old) \in Side
                         /\ stage[old][EndOf(n, old)] \in {"kept", "closing"})
      BY <2>1, <3>d DEF Inv, HeldIsKept
    <3> HIDE DEF n, m, old
    <3>2. /\ stage'[c][s] = "kept"
          /\ \A d \in Conn, t \in Side : ~(d = c /\ t = s) =>
               stage'[d][t] = IF d = old /\ t = EndOf(n, old) THEN "closing" ELSE stage[d][t]
      <4>1. ~(c = old /\ s = EndOf(n, old))
        BY <2>1, <3>e, InterplanetaryAssumption
      <4>2. c \in Conn /\ s \in Side
        BY <2>1
      <4>3. \A d \in Conn, t \in Side : stage'[d][t] =
              CASE d = c /\ t = s -> "kept"
                [] d = old /\ t = EndOf(n, old) -> "closing"
                [] OTHER -> stage[d][t]
        BY <3>1, Zenon
      <4> QED
        BY <4>1, <4>2, <4>3
    <3>3. /\ kept'[n][m] = c
          /\ \A x, y \in Node : x # n \/ y # m => kept'[x][y] = kept[x][y]
      BY <1>t, <2>1, <3>1
    <3>4. Idle'
      <4>1. \A d \in Conn, t \in Side : stage[d][t] = "none" => stage'[d][t] = "none"
        BY <1>t, <2>1, <3>2, <3>e
      <4>2. \A d \in Conn : stage'[d]["out"] = "dialing" => stage[d]["out"] = "dialing"
        BY <1>t, <3>2
      <4> QED
        BY <1>t, <3>b, <4>1, <4>2 DEF Inv, Idle
    <3>5. KeptIsHeld'
      <4>1. SUFFICES ASSUME NEW d \in Conn \ Free, NEW t \in Side, stage'[d][t] = "kept"
                     PROVE  kept'[Owner(d, t)][Remote(d, t)] = d /\ Owner(d, t) # Remote(d, t)
        BY <3>a, <3>b DEF KeptIsHeld
      <4>2. CASE d = c /\ t = s
        BY <2>3, <3>3, <3>c, <4>2
      <4>3. CASE ~(d = c /\ t = s)
        <5>1. stage[d][t] = "kept" /\ ~(d = old /\ t = EndOf(n, old))
          BY <3>2, <4>1, <4>3
        <5>2. kept[Owner(d, t)][Remote(d, t)] = d /\ Owner(d, t) # Remote(d, t)
          BY <5>1 DEF Inv, KeptIsHeld
        <5>3. ~(Owner(d, t) = n /\ Remote(d, t) = m)
          <6>1. Owner(d, t) = n /\ Remote(d, t) = m => d = old /\ t = EndOf(n, d)
            BY <3>d, <5>2 DEF old
          <6> QED
            BY <5>1, <6>1
        <5>4. Owner(d, t) \in Node /\ Remote(d, t) \in Node
          BY OwnerTyped DEF Inv
        <5> QED
          BY <3>3, <5>2, <5>3, <5>4
      <4> QED
        BY <4>2, <4>3
    <3>6. HeldIsKept'
      <4>1. SUFFICES ASSUME NEW x \in Node, NEW y \in Node, kept'[x][y] # None
                     PROVE  /\ kept'[x][y] \in Conn \ Free /\ x # y
                            /\ \E t \in Side : /\ Owner(kept'[x][y], t) = x
                                               /\ Remote(kept'[x][y], t) = y
                                               /\ stage'[kept'[x][y]][t] \in {"kept", "closing"}
        <5>1. \A x, y \in Node : kept'[x][y] \in Conn \cup {None}
          BY <1>0 DEF Typed, TypeOK
        <5> QED
          BY <3>a, <3>b, <4>1, <5>1 DEF HeldIsKept
      <4>2. CASE x = n /\ y = m
        BY <2>1, <2>3, <3>2, <3>3, <3>c, <4>2
      <4>3. CASE x # n \/ y # m
        <5>1. kept'[x][y] = kept[x][y]
          BY <3>3, <4>3
        <5>2. PICK t \in Side : /\ Owner(kept[x][y], t) = x /\ Remote(kept[x][y], t) = y
                                /\ stage[kept[x][y]][t] \in {"kept", "closing"}
          BY <4>1, <5>1 DEF Inv, HeldIsKept
        <5>3. kept[x][y] \in Conn \ Free /\ x # y
          BY <4>1, <5>1 DEF Inv, HeldIsKept
        <5>4. stage'[kept[x][y]][t] \in {"kept", "closing"}
          BY <2>1, <3>2, <5>2, <5>3
        <5> QED
          BY <5>1, <5>2, <5>3, <5>4
      <4> QED
        BY <4>2, <4>3
    <3> QED
      BY <1>0, <3>4, <3>5, <3>6 DEF Inv
  <2> QED
    <3>1. \/ stage' = [stage EXCEPT ![c][s] = "closing"] /\ UNCHANGED kept
          \/ m # n /\ Replace(n, m, c, s)
      BY <1>9 DEF Handshake
    <3> QED
      BY <2>2, <2>3, <3>1
<1>10. ASSUME NEW c \in Conn, NEW s \in Side, CloseEvent(c, s) PROVE Inv'
  <2> DEFINE n == Owner(c, s)
             m == Remote(c, s)
  <2>1. /\ c \in Conn \ Free /\ n \in Node /\ m \in Node /\ stage[c][s] = "closing"
        /\ Leave(c, s)
        /\ kept' = IF kept[n][m] = c THEN [kept EXCEPT ![n][m] = None] ELSE kept
    BY <1>10, OwnerTyped DEF CloseEvent, Holds, Inv
  <2>2. /\ \A d \in Conn : d # c => /\ stage'[d] = stage[d]
                                    /\ dialer'[d] = dialer[d] /\ dialed'[d] = dialed[d]
        /\ \A t \in Side : stage'[c][t] = "kept" => stage[c][t] = "kept" /\ t # s
    <3>1. CASE stage[c][Other(s)] \in {"none", "over"}
      BY <1>t, <2>1, <3>1 DEF Leave, Both
    <3>2. CASE stage[c][Other(s)] \notin {"none", "over"}
      BY <1>t, <2>1, <3>2 DEF Leave
    <3> QED
      BY <3>1, <3>2
  <2>3. \/ /\ stage[c][Other(s)] \in {"none", "over"} /\ dialer'[c] = None
           /\ \A t \in Side : stage'[c][t] = "none"
        \/ /\ stage[c][Other(s)] \notin {"none", "over"} /\ UNCHANGED <<dialer, dialed>>
           /\ stage'[c][s] = "over" /\ stage'[c][Other(s)] = stage[c][Other(s)]
    <3>1. CASE stage[c][Other(s)] \in {"none", "over"}
      BY <1>t, <2>1, <3>1 DEF Leave, Both
    <3>2. CASE stage[c][Other(s)] \notin {"none", "over"}
      BY <1>t, <2>1, <3>2 DEF Leave
    <3> QED
      BY <3>1, <3>2
  <2>n. Owner(c, s) = n /\ Remote(c, s) = m /\ Owner(c, Other(s)) = m /\ Remote(c, Other(s)) = n
    BY <1>t DEF Remote
  <2> HIDE DEF n, m
  <2>4. \A x, y \in Node : /\ kept'[x][y] = kept[x][y] \/ (kept'[x][y] = None /\ x = n /\ y = m)
                           /\ x = n /\ y = m => kept'[x][y] # c
    BY <1>t, <2>1
  <2>5. Idle'
    <3>1. \A d \in Conn : d # c => (d \in Free' <=> d \in Free)
      BY <2>2 DEF Free
    <3>2. c \in Free' => \A t \in Side : stage'[c][t] = "none"
      BY <2>1, <2>3 DEF Free
    <3>3. stage'[c]["out"] = "dialing" => stage'[c]["in"] = "none"
      BY <1>t, <2>1, <2>3 DEF Inv, Idle
    <3> QED
      BY <2>2, <3>1, <3>2, <3>3 DEF Inv, Idle
  <2>6. \A d \in Conn, t \in Side : d \notin Free' =>
          d \notin Free /\ Owner(d, t)' = Owner(d, t) /\ Remote(d, t)' = Remote(d, t)
    <3>1. CASE dialer'[c] = None
      BY <1>t, <2>2, <3>1 DEF Owner, Remote, Free
    <3>2. CASE UNCHANGED <<dialer, dialed>>
      BY <3>2 DEF Owner, Remote, Free
    <3> QED
      BY <2>3, <3>1, <3>2
  <2>7. KeptIsHeld'
    <3>1. SUFFICES ASSUME NEW d \in Conn, d \notin Free', NEW t \in Side, stage'[d][t] = "kept"
                   PROVE  /\ kept'[Owner(d, t)'][Remote(d, t)'] = d
                          /\ Owner(d, t)' # Remote(d, t)'
      BY DEF KeptIsHeld
    <3>2. stage[d][t] = "kept" /\ ~(d = c /\ t = s)
      BY <2>2, <3>1
    <3>3. /\ d \in Conn \ Free /\ Owner(d, t)' = Owner(d, t) /\ Remote(d, t)' = Remote(d, t)
      BY <2>6, <3>1
    <3>4. kept[Owner(d, t)][Remote(d, t)] = d /\ Owner(d, t) # Remote(d, t)
      BY <3>2, <3>3 DEF Inv, KeptIsHeld
    <3>5. Owner(d, t) \in Node /\ Remote(d, t) \in Node
      BY <3>3, OwnerTyped DEF Inv
    <3>6. Owner(d, t) = n /\ Remote(d, t) = m => d # c
      BY <1>t, <2>n, <3>2, <3>4
    <3>7. kept'[Owner(d, t)][Remote(d, t)] = d
      <4>1. CASE Owner(d, t) = n /\ Remote(d, t) = m
        BY <1>t, <2>1, <3>4, <3>5, <3>6, <4>1
      <4>2. CASE ~(Owner(d, t) = n /\ Remote(d, t) = m)
        BY <2>4, <3>4, <3>5, <4>2
      <4> QED
        BY <4>1, <4>2
    <3> QED
      BY <3>3, <3>4, <3>7
  <2>8. HeldIsKept'
    <3>1. SUFFICES ASSUME NEW x \in Node, NEW y \in Node, NEW d \in Conn,
                          d = kept'[x][y], d # None
                   PROVE  /\ d \notin Free' /\ x # y
                          /\ \E t \in Side : /\ Owner(d, t)' = x /\ Remote(d, t)' = y
                                             /\ stage'[d][t] \in {"kept", "closing"}
      <4>1. \A x, y \in Node : kept'[x][y] \in Conn \cup {None}
        BY <1>0 DEF Typed, TypeOK
      <4> QED
        BY <4>1 DEF HeldIsKept, Owner, Remote
    <3>2. kept[x][y] = d /\ d # None /\ (x = n /\ y = m => d # c)
      BY <2>4, <3>1
    <3>3. d \in Conn \ Free /\ x # y
      BY <3>2 DEF Inv, HeldIsKept
    <3>4. PICK t \in Side : /\ Owner(d, t) = x /\ Remote(d, t) = y
                            /\ stage[d][t] \in {"kept", "closing"}
      BY <3>2 DEF Inv, HeldIsKept
    <3>5. d = c => t = Other(s) /\ stage[c][Other(s)] \notin {"none", "over"}
      <4>1. d = c /\ t = s => FALSE
        BY <2>n, <3>2, <3>4
      <4> QED
        BY <1>t, <3>4, <4>1
    <3>6. d \notin Free' /\ stage'[d][t] = stage[d][t]
      <4>1. CASE d = c
        BY <1>t, <2>1, <2>3, <3>3, <3>5, <4>1 DEF Free
      <4>2. CASE d # c
        BY <2>2, <3>3, <4>2 DEF Free
      <4> QED
        BY <4>1, <4>2
    <3> QED
      BY <2>6, <3>2, <3>3, <3>4, <3>6
  <2> QED
    BY <1>0, <2>5, <2>7, <2>8 DEF Inv
<1>11. ASSUME UNCHANGED vars PROVE Inv'
  BY <1>11, <1>u DEF vars, connVars
<1> QED
  BY <1>1, <1>2, <1>3, <1>4, <1>5, <1>6, <1>7, <1>8, <1>9, <1>10, <1>11 DEF Next, Step

\* The inductive invariant holds.
THEOREM InvHolds == Spec => []Inv
BY InvInit, InvStep, PTL DEF Spec

\* A node keeps one connection per peer, whichever connections cross.
THEOREM OnePerPeerHolds == Spec => []OnePerPeer
<1>1. Inv => OnePerPeer
  <2> SUFFICES ASSUME Inv, NEW n \in Node, NEW e \in EndsAt(n), NEW f \in EndsAt(n),
                      At(e) = "kept", At(f) = "kept",
                      Remote(e[1], e[2]) = Remote(f[1], f[2])
               PROVE  e = f
    BY DEF OnePerPeer
  <2>1. /\ e \in (Conn \ Free) \X Side /\ f \in (Conn \ Free) \X Side
        /\ Owner(e[1], e[2]) = n /\ Owner(f[1], f[2]) = n
    BY DEF EndsAt
  <2>2. /\ kept[n][Remote(e[1], e[2])] = e[1] /\ kept[n][Remote(f[1], f[2])] = f[1]
        /\ n # Remote(e[1], e[2])
    BY <2>1 DEF Inv, KeptIsHeld, At
  <2>3. e[1] = f[1]
    BY <2>2
  <2>4. e[2] = f[2]
    BY <2>1, <2>2, <2>3 DEF Remote, Other, Side
  <2> QED
    BY <2>1, <2>3, <2>4
<1> QED
  BY <1>1, InvHolds, PTL

\* Two nodes with nothing under way between them have kept the same connection.
THEOREM SameConnectionHolds == Spec => []SameConnection
<1>1. ASSUME Inv, NEW n \in Node, NEW m \in Node, n # m, AtRest(n, m), kept[n][m] # None
      PROVE  kept[m][n] = kept[n][m]
  <2> DEFINE c == kept[n][m]
  <2>1. c \in Conn \ Free
    BY <1>1 DEF Inv, HeldIsKept
  <2>2. PICK s \in Side : Owner(c, s) = n /\ Remote(c, s) = m
    BY <1>1 DEF Inv, HeldIsKept
  <2> HIDE DEF c
  <2>3. /\ Other(s) \in Side /\ Owner(c, Other(s)) = m /\ Remote(c, Other(s)) = n
        /\ {dialer[c], HostOf[dialed[c]]} = {n, m}
    BY <2>2 DEF Remote, Owner, Other, Side
  <2>4. stage[c][Other(s)] = "kept"
    BY <1>1, <2>1, <2>3 DEF AtRest, Side
  <2> QED
    BY <1>1, <2>1, <2>3, <2>4 DEF Inv, KeptIsHeld, c
<1>2. Inv => SameConnection
  <2> SUFFICES ASSUME Inv, NEW n \in Node, NEW m \in Node, n # m, AtRest(n, m)
               PROVE  kept[n][m] = kept[m][n]
    BY DEF SameConnection
  <2>1. AtRest(m, n)
    BY DEF AtRest
  <2> QED
    BY <1>1, <2>1
<1> QED
  BY <1>2, InvHolds, PTL

----------------------------------------------------------------------------
(* Nobody is forgotten *)

\* A swarm that is not up has seen and dialed nobody, and only its own address is banned
Unheard   == \A n \in Node : phase[n] \in {"idle", "opening"} =>
               /\ \A a \in Address : seen[n][a] = "no"
               /\ \A c \in Conn : dialer[c] # n
OwnBanned == \A n \in Node, a \in Address : seen[n][a] = "banned" => HostOf[a] = n

\* A pursuit that is over has left its mark
EndIsMarked == \A n \in Node, a \in Address :
  Live(n) /\ HostOf[a] # n => Pursues(n, a) \/ fate[n][a] # "none"

\* The smaller of two ids pursues the other one until it is cut
SmallerPursues == \A n \in Node, a \in Address :
  Live(n) /\ n < HostOf[a] =>
    Chases(n, HostOf[a]) \/ "cut" \in Fates(n, HostOf[a])

Pursuit == Inv /\ Unheard /\ OwnBanned /\ EndIsMarked /\ SmallerPursues

LEMMA PursuitInit == Init => Pursuit
<1> SUFFICES ASSUME Init PROVE Pursuit
  OBVIOUS
<1>1. /\ \A n \in Node, a \in Address : seen[n][a] = "no" /\ ~Live(n)
      /\ \A n \in Node, c \in Conn : dialer[c] # n
  BY InterplanetaryAssumption DEF Init, Live
<1> QED
  BY <1>1, InvInit DEF Pursuit, Unheard, OwnBanned, EndIsMarked, SmallerPursues

\* The connection c is a pursuit of n by the address a
Chasing(n, a, c) ==
  /\ c \in Conn \ Free /\ dialer[c] = n /\ dialed[c] = a
  /\ stage[c]["out"] \in {"dialing", "open", "kept"} \/ kept[n][HostOf[a]] = c

\* What a step does to the pursuit of n by the address a: it goes on, is cut, or
\* yields to another one or to a smaller id; or it was over before.
Goes(n, a) == Pursues(n, a)'
Cut(n, a)  == fate'[n][a] = "cut"
Gives(n, a) ==
  /\ fate'[n][a] = "yielded"
  /\ HostOf[a] < n \/ \E b \in Address : HostOf[b] = HostOf[a] /\ Goes(n, b)
Stays(n, a) == ~Pursues(n, a) /\ fate'[n][a] = fate[n][a]
Outcome(n, a) == Goes(n, a) \/ Cut(n, a) \/ Gives(n, a) \/ Stays(n, a)

LEMMA PursuesIs ==
  ASSUME NEW n, NEW a
  PROVE  Pursues(n, a) <=> \/ seen[n][a] = "no" \/ a \in waiting[n]
                           \/ \E c : Chasing(n, a, c)
BY DEF Pursues, Chasing

\* Later is what a state is after the step
LEMMA GoesIf ==
  ASSUME NEW n, NEW a
  PROVE  /\ seen'[n][a] = "no" => Goes(n, a)
         /\ a \in waiting'[n] => Goes(n, a)
         /\ \A c \in Conn : c \notin Free' /\ dialer'[c] = n /\ dialed'[c] = a
              /\ (stage'[c]["out"] \in {"dialing", "open", "kept"} \/ kept'[n][HostOf[a]] = c)
              => Goes(n, a)
BY DEF Goes, Pursues

\* Nothing of the pursuit is touched but, maybe, one connection
LEMMA Elsewhere ==
  ASSUME NEW n \in Node, NEW a \in Address, Pursues(n, a), NEW d,
         seen[n][a] = "no" => seen'[n][a] = "no", waiting[n] \subseteq waiting'[n],
         \A c \in Conn \ {d} :
           /\ dialer'[c] = dialer[c] /\ dialed'[c] = dialed[c]
           /\ stage'[c]["out"] = stage[c]["out"]
           /\ kept[n][HostOf[a]] = c => kept'[n][HostOf[a]] = c
  PROVE  Goes(n, a) \/ (d \in Conn /\ Chasing(n, a, d))
<1>1. CASE seen[n][a] = "no" \/ a \in waiting[n]
  BY <1>1, GoesIf
<1>2. ASSUME NEW c, Chasing(n, a, c), c # d PROVE Goes(n, a)
  <2>1. c \in Conn /\ c \notin Free' /\ dialer'[c] = n /\ dialed'[c] = a
    BY <1>2 DEF Chasing, Free
  <2>2. stage'[c]["out"] \in {"dialing", "open", "kept"} \/ kept'[n][HostOf[a]] = c
    BY <1>2, <2>1 DEF Chasing
  <2> QED
    BY <2>1, <2>2, GoesIf
<1>3. ASSUME NEW c, Chasing(n, a, c), c = d PROVE d \in Conn /\ Chasing(n, a, d)
  BY <1>3 DEF Chasing
<1> QED
  BY <1>1, <1>2, <1>3, PursuesIs

LEMMA SameFate ==
  ASSUME NEW n \in Node, NEW a \in Address, fate'[n][a] = fate[n][a],
         Pursues(n, a) => Goes(n, a)
  PROVE  Outcome(n, a)
BY DEF Outcome, Stays

\* A requeue ends no pursuit, and goes on with that of its own address
LEMMA RequeueGoes ==
  ASSUME Inv, OwnBanned, NEW k \in Node, NEW b \in Address, Requeue(k, b),
         NEW n \in Node, NEW a \in Address, HostOf[a] # n, Live(n)
  PROVE  /\ seen[n][a] = "no" => seen'[n][a] = "no"
         /\ waiting[n] \subseteq waiting'[n]
         /\ k = n /\ b = a => Goes(n, a)
<1> USE DEF Inv, Typed, TypeOK
<1>1. CASE ~Live(k)
  BY <1>1 DEF Requeue, peerVars
<1>2. CASE Live(k) /\ Retriable(k, b)
  <2>1. waiting' = [waiting EXCEPT ![k] = @ \cup {b}] /\ UNCHANGED seen
    BY <1>2 DEF Requeue, Armed
  <2> QED
    BY <2>1, GoesIf
<1>3. CASE Live(k) /\ ~Retriable(k, b)
  <2>1. seen' = [seen EXCEPT ![k][b] = "no"] /\ UNCHANGED waiting
    BY <1>3 DEF Requeue, DropPeer
  <2>2. seen'[k][b] = "no" /\ (seen[n][a] = "no" => seen'[n][a] = "no")
    BY <2>1
  <2> QED
    BY <2>1, <2>2, GoesIf
<1> QED
  BY <1>1, <1>2, <1>3

\* _kick leaves every other pursuit alone and starts that of its address
LEMMA KickGoes ==
  ASSUME Inv, OwnBanned, NEW k \in Node, NEW b \in Address, Kick(k, b), UNCHANGED kept,
         NEW n \in Node, NEW a \in Address, HostOf[a] # n, Live(n)
  PROVE  /\ \A c : Chasing(n, a, c) => Goes(n, a)
         /\ k = n /\ b = a => Goes(n, a)
<1> USE DEF Inv, Typed, TypeOK
<1>1. CASE UNCHANGED connVars
  <2>1. \A c : Chasing(n, a, c) => Goes(n, a)
    BY <1>1, GoesIf DEF Chasing, connVars, Free
  <2>2. CASE k = n /\ b = a /\ \E c \in Free : dialer' = [dialer EXCEPT ![c] = k]
    <3>1. PICK c \in Free : dialer' = [dialer EXCEPT ![c] = k]
      BY <2>2
    <3>2. c \in Conn /\ dialer[c] = None /\ dialer'[c] = k /\ k # None
      BY <3>1, InterplanetaryAssumption DEF Free
    <3> QED
      BY <1>1, <3>2 DEF connVars
  <2>3. k = n /\ b = a => Live(k) /\ seen[k][b] # "banned"
    BY DEF OwnBanned
  <2> QED
    BY <2>1, <2>2, <2>3 DEF Kick
<1>2. ASSUME NEW d \in Free,
             dialer' = [dialer EXCEPT ![d] = k], dialed' = [dialed EXCEPT ![d] = b],
             stage' = [stage EXCEPT ![d] = Both("dialing", "none")]
      PROVE  /\ \A c : Chasing(n, a, c) => Goes(n, a)
             /\ k = n /\ b = a => Goes(n, a)
  <2>1. d \in Conn
    BY DEF Free
  <2>2. ASSUME NEW c, Chasing(n, a, c) PROVE Goes(n, a)
    <3>1. c \in Conn /\ c # d /\ dialer'[c] = n /\ dialed'[c] = a /\ stage'[c] = stage[c]
      BY <1>2, <2>2 DEF Chasing
    <3>2. c \notin Free'
      BY <2>2, <3>1 DEF Chasing, Free
    <3> QED
      BY <2>2, <3>1, <3>2, GoesIf DEF Chasing
  <2>3. ASSUME k = n, b = a PROVE Goes(n, a)
    <3>1. dialer'[d] = n /\ dialed'[d] = a /\ stage'[d]["out"] = "dialing"
      BY <1>2, <2>1, <2>3, BothTyped DEF Stage
    <3>2. d \notin Free'
      BY <3>1, InterplanetaryAssumption DEF Free
    <3> QED
      BY <2>1, <3>1, <3>2, GoesIf
  <2> QED
    BY <2>2, <2>3
<1> QED
  BY <1>1, <1>2 DEF Kick

\* A connection that closes before it has shaken hands is marked as cut; one that
\* was kept is still in the table
LEMMA ClosingOutcome ==
  ASSUME Inv, NEW n \in Node, NEW a \in Address, NEW c \in Conn, NEW s \in Side,
         HearClose(c, s) \/ Fail(c, s)
  PROVE  Outcome(n, a)
<1> USE DEF Inv, Typed, TypeOK
<1>1. /\ UNCHANGED <<seen, retries, waiting, kept, dialer, dialed>> /\ CutAt(c, s)
      /\ c \notin Free /\ stage[c][s] \in {"open", "kept"}
      /\ stage' = [stage EXCEPT ![c][s] = "closing"]
  BY DEF HearClose, Fail, peerVars
<1>2. fate'[n][a] = fate[n][a] \/ Cut(n, a)
  <2>1. dialer[c] \in Node /\ dialed[c] \in Address
    BY <1>1, OwnerTyped
  <2> QED
    BY <1>1, <2>1 DEF CutAt, Cut
<1>3. ASSUME Chasing(n, a, c) PROVE Goes(n, a) \/ Cut(n, a)
  <2>1. CASE s = "out" /\ stage[c][s] = "open"
    BY <1>1, <1>3, <2>1 DEF CutAt, Cut, Chasing
  <2>2. CASE s # "out" \/ stage[c][s] = "kept"
    <3>1. c \notin Free' /\ dialer'[c] = n /\ dialed'[c] = a
      BY <1>1, <1>3 DEF Chasing, Free
    <3>2. s # "out" => stage'[c]["out"] = stage[c]["out"]
      BY <1>1, StageTyped DEF Side, Stage
    <3>3. s = "out" => kept[n][HostOf[a]] = c
      BY <1>1, <1>3, <2>2 DEF KeptIsHeld, Chasing, Owner, Remote, Other
    <3> QED
      BY <1>1, <1>3, <3>1, <3>2, <3>3, GoesIf DEF Chasing
  <2> QED
    BY <1>1, <2>1, <2>2
<1>4. Pursues(n, a) => Goes(n, a) \/ Cut(n, a)
  <2>1. \A d \in Conn \ {c} : stage'[d] = stage[d]
    BY <1>1
  <2> QED
    BY <1>1, <1>3, <2>1, Elsewhere
<1> QED
  BY <1>2, <1>4, SameFate DEF Outcome

\* 'close' of a connection: the one in the table is requeued
LEMMA CloseEventOutcome ==
  ASSUME Inv, OwnBanned, NEW n \in Node, NEW a \in Address, HostOf[a] # n, Live(n),
         NEW c \in Conn, NEW s \in Side, CloseEvent(c, s)
  PROVE  Outcome(n, a)
<1> DEFINE k == Owner(c, s)
           m == Remote(c, s)
           b == dialed[c]
<1> USE DEF Inv, Typed, TypeOK
<1>1. /\ c \in Conn \ Free /\ stage[c][s] = "closing" /\ Leave(c, s) /\ fate' = fate
      /\ k \in Node /\ m \in Node /\ b \in Address
  BY OwnerTyped DEF CloseEvent
<1>2. \/ kept[k][m] = c /\ kept' = [kept EXCEPT ![k][m] = None]
      \/ kept[k][m] # c /\ kept' = kept
  BY DEF CloseEvent, Holds
<1>3. UNCHANGED peerVars \/ Requeue(k, b)
  BY DEF CloseEvent
<1>4. /\ seen[n][a] = "no" => seen'[n][a] = "no"
      /\ waiting[n] \subseteq waiting'[n]
  BY <1>1, <1>3, RequeueGoes DEF peerVars
<1>5. \A d \in Conn \ {c} : /\ dialer'[d] = dialer[d] /\ dialed'[d] = dialed[d]
                            /\ stage'[d] = stage[d]
                            /\ kept[n][HostOf[a]] = d => kept'[n][HostOf[a]] = d
  <2>1. \A d \in Conn \ {c} : /\ dialer'[d] = dialer[d] /\ dialed'[d] = dialed[d]
                              /\ stage'[d] = stage[d]
    BY <1>1 DEF Leave
  <2>2. \A d \in Conn \ {c} : kept[n][HostOf[a]] = d => kept'[n][HostOf[a]] = d
    <3> HIDE DEF k, m
    <3>1. HostOf[a] \in Node /\ kept \in [Node -> [Node -> Conn \cup {None}]]
      BY InterplanetaryAssumption
    <3>2. CASE n = k /\ HostOf[a] = m
      BY <1>2, <3>2
    <3>3. CASE ~(n = k /\ HostOf[a] = m)
      <4>1. kept'[n][HostOf[a]] = kept[n][HostOf[a]]
        BY <1>1, <1>2, <3>1, <3>3
      <4> QED
        BY <4>1
    <3> QED
      BY <3>2, <3>3
  <2> QED
    BY <2>1, <2>2
<1>6. ASSUME Chasing(n, a, c) PROVE Goes(n, a)
  <2>1. CASE s = "out"
    <3>1. k = n /\ m = HostOf[a] /\ b = a /\ kept[n][HostOf[a]] = c
      BY <1>1, <1>6, <2>1 DEF Chasing, Owner, Remote, Other
    <3>2. Requeue(n, a)
      BY <2>1, <3>1 DEF CloseEvent, Holds
    <3> QED
      BY <3>2, RequeueGoes
  <2>2. CASE s = "in"
    <3>1. k = HostOf[a] /\ m = n /\ Other(s) = "out"
      BY <1>6, <2>2 DEF Chasing, Owner, Remote, Other
    <3>2. stage[c]["out"] \notin {"none", "over"}
      <4>1. CASE kept[n][HostOf[a]] = c
        <5>1. HostOf[a] \in Node /\ kept[n][HostOf[a]] # None
          BY <4>1, InterplanetaryAssumption
        <5>2. \E t \in Side : /\ Owner(kept[n][HostOf[a]], t) = n
                              /\ stage[kept[n][HostOf[a]]][t] \in {"kept", "closing"}
          BY <5>1 DEF HeldIsKept
        <5>3. PICK t \in Side : Owner(c, t) = n /\ stage[c][t] \in {"kept", "closing"}
          BY <4>1, <5>2
        <5>4. t = "out"
          BY <1>6, <5>3 DEF Owner, Side, Chasing
        <5> QED
          BY <5>3, <5>4
      <4> QED
        BY <1>6, <4>1 DEF Chasing
    <3>3. stage' = [stage EXCEPT ![c][s] = "over"] /\ UNCHANGED <<dialer, dialed>>
      BY <1>1, <3>1, <3>2 DEF Leave
    <3>4. stage'[c]["out"] = stage[c]["out"] /\ c \notin Free'
      <4>1. stage'[c]["out"] = stage[c]["out"]
        BY <2>2, <3>3, StageTyped DEF Side, Stage
      <4> QED
        BY <1>1, <3>3, <4>1 DEF Free
    <3>5. kept[n][HostOf[a]] = c => kept'[n][HostOf[a]] = c
      BY <1>1, <1>2, <3>1
    <3> QED
      BY <1>6, <3>3, <3>4, <3>5, GoesIf DEF Chasing
  <2> QED
    BY <2>1, <2>2 DEF Side
<1>7. Pursues(n, a) => Goes(n, a)
  BY <1>4, <1>5, <1>6, Elsewhere
<1> QED
  BY <1>1, <1>7, SameFate

\* A dial that fails is requeued, one that succeeds goes on
LEMMA DialOutcome ==
  ASSUME Inv, OwnBanned, NEW n \in Node, NEW a \in Address, HostOf[a] # n, Live(n),
         NEW c \in Conn, DialFail(c) \/ Connect(c) \/ Accept(c)
  PROVE  Outcome(n, a)
<1> USE DEF Inv, Typed, TypeOK
<1>1. fate' = fate /\ kept' = kept
  BY DEF DialFail, Connect, Accept
<1>2. ASSUME DialFail(c) PROVE Pursues(n, a) => Goes(n, a)
  <2> DEFINE k == dialer[c]
             b == dialed[c]
  <2>1. k \in Node /\ b \in Address /\ Requeue(k, b)
    BY <1>2, OwnerTyped DEF DialFail, Side
  <2>2. /\ seen[n][a] = "no" => seen'[n][a] = "no"
        /\ waiting[n] \subseteq waiting'[n]
        /\ k = n /\ b = a => Goes(n, a)
    BY <2>1, RequeueGoes
  <2>3. Chasing(n, a, c) => Goes(n, a)
    BY <2>2 DEF Chasing
  <2>4. \A d \in Conn \ {c} : /\ dialer'[d] = dialer[d] /\ dialed'[d] = dialed[d]
                              /\ stage'[d] = stage[d]
    BY <1>2 DEF DialFail
  <2> QED
    BY <1>1, <2>2, <2>3, <2>4, Elsewhere
<1>3. ASSUME Connect(c) \/ Accept(c) PROVE Pursues(n, a) => Goes(n, a)
  <2>1. UNCHANGED <<seen, waiting, dialer, dialed>>
    BY <1>3 DEF Connect, Accept, peerVars
  <2>2. \A d \in Conn : \/ stage'[d]["out"] = stage[d]["out"]
                        \/ stage'[d]["out"] = "open"
    <3>1. CASE Connect(c)
      BY <3>1, BothTyped DEF Connect, Stage
    <3>2. CASE Accept(c)
      BY <3>2, StageTyped DEF Accept, Stage, Side
    <3> QED
      BY <1>3, <3>1, <3>2
  <2>3. \A d : Chasing(n, a, d) => Goes(n, a)
    <3>1. SUFFICES ASSUME NEW d, Chasing(n, a, d) PROVE Goes(n, a)
      OBVIOUS
    <3>2. d \in Conn /\ d \notin Free' /\ dialer'[d] = n /\ dialed'[d] = a
      BY <2>1, <3>1 DEF Chasing, Free
    <3> QED
      BY <1>1, <2>2, <3>1, <3>2, GoesIf DEF Chasing
  <2> QED
    BY <2>1, <2>3, PursuesIs, GoesIf
<1> QED
  BY <1>1, <1>2, <1>3, SameFate

\* What a table holds and its own node has dialed leads to the node it is kept for
LEMMA HeldDial ==
  ASSUME Inv, NEW n \in Node, NEW m \in Node, kept[n][m] # None
  PROVE  /\ kept[n][m] \in Conn \ Free /\ n # m
         /\ dialer[kept[n][m]] = n => /\ HostOf[dialed[kept[n][m]]] = m
                                      /\ EndOf(n, kept[n][m]) = "out"
         /\ dialer[kept[n][m]] # n => EndOf(n, kept[n][m]) = "in"
<1>1. kept[n][m] \in Conn \ Free /\ n # m
  BY DEF Inv, HeldIsKept
<1>2. PICK s \in Side : Owner(kept[n][m], s) = n /\ Remote(kept[n][m], s) = m
  BY DEF Inv, HeldIsKept
<1> QED
  BY <1>1, <1>2 DEF EndOf, Owner, Remote, Other, Side

\* The two ends of a connection whose nodes shake hands
LEMMA Ends ==
  ASSUME NEW c, NEW s \in Side
  PROVE  /\ s = "out" => Owner(c, s) = dialer[c] /\ Remote(c, s) = HostOf[dialed[c]]
         /\ s = "in" => Owner(c, s) = HostOf[dialed[c]] /\ Remote(c, s) = dialer[c]
BY DEF Owner, Remote, Other, Side

\* An end that shakes hands and loses: its dial has yielded, to a smaller id
LEMMA LosingOutcome ==
  ASSUME Inv, NEW n \in Node, NEW a \in Address, HostOf[a] # n,
         NEW c \in Conn \ Free, NEW s \in Side,
         stage' = [stage EXCEPT ![c][s] = "closing"],
         UNCHANGED <<waiting, kept, dialer, dialed>>, seen'[n][a] = seen[n][a],
         \/ Owner(c, s) = Remote(c, s) /\ fate' = fate
         \/ /\ Loses(Owner(c, s), Remote(c, s), s)
            /\ Owner(c, s) # Remote(c, s) /\ Yields(Owner(c, s), c)
  PROVE  Outcome(n, a)
<1> USE DEF Inv, Typed, TypeOK
<1>1. \A d \in Conn \ {c} : stage'[d] = stage[d]
  OBVIOUS
<1>2. CASE dialer[c] = n /\ dialed[c] = a
  <2>1. CASE s = "out"
    <3>1. Owner(c, s) = n /\ Remote(c, s) = HostOf[a]
      BY <1>2, <2>1, Ends
    <3>2. HostOf[a] < n /\ Yields(n, c)
      BY <2>1, <3>1 DEF Loses
    <3>3. fate'[n][a] = "yielded"
      BY <1>2, <3>2 DEF Yields
    <3> QED
      BY <3>2, <3>3 DEF Outcome, Gives
  <2>2. CASE s = "in"
    <3>1. Owner(c, s) = HostOf[a]
      BY <1>2, <2>2, Ends
    <3>2. fate' = fate
      BY <1>2, <3>1 DEF Yields
    <3>3. stage'[c]["out"] = stage[c]["out"] /\ c \notin Free'
      <4>1. stage'[c]["out"] = stage[c]["out"]
        BY <2>2, StageTyped DEF Side, Stage
      <4> QED
        BY <4>1 DEF Free
    <3>4. Chasing(n, a, c) => Goes(n, a)
      BY <1>2, <3>3, GoesIf DEF Chasing
    <3> QED
      BY <1>1, <3>2, <3>4, Elsewhere, SameFate
  <2> QED
    BY <2>1, <2>2 DEF Side
<1>3. CASE ~(dialer[c] = n /\ dialed[c] = a)
  <2>1. fate'[n][a] = fate[n][a]
    BY <1>3 DEF Yields
  <2>2. ~Chasing(n, a, c)
    BY <1>3 DEF Chasing
  <2> QED
    BY <1>1, <2>1, <2>2, Elsewhere, SameFate
<1> QED
  BY <1>2, <1>3

\* An end that shakes hands and is kept: the one it replaces has yielded, to
\* another dial of the same node or to that of a smaller id
LEMMA ReplaceOutcome ==
  ASSUME Inv, NEW n \in Node, NEW a \in Address, HostOf[a] # n,
         NEW c \in Conn \ Free, NEW s \in Side,
         NEW k \in Node, NEW m \in Node, k = Owner(c, s), m = Remote(c, s), k # m,
         kept[k][m] = None \/ ~Loses(k, m, s), Replace(k, m, c, s),
         UNCHANGED <<seen, waiting, dialer, dialed>>
  PROVE  Outcome(n, a)
<1> DEFINE old == kept[k][m]
           Gone(d) == d = old /\ dialer[d] = k /\ old # None
<1> USE DEF Inv, Typed, TypeOK
<1>1. /\ kept' = [kept EXCEPT ![k][m] = c]
      /\ \A d \in Conn, t \in Side :
           \/ stage'[d][t] = stage[d][t]
           \/ d = c /\ t = s /\ stage'[d][t] = "kept"
           \/ d = old /\ t = EndOf(k, old)
      /\ IF old = None THEN fate' = fate ELSE Yields(k, old)
  BY DEF Replace
<1>2. /\ old # None => old \in Conn \ Free
      /\ \A d : Gone(d) => HostOf[dialed[d]] = m /\ dialed[d] \in Address
  BY HeldDial, OwnerTyped DEF Side
<1>3. \A d \in Conn : ~Gone(d) => \/ stage'[d]["out"] = stage[d]["out"]
                                 \/ stage'[d]["out"] = "kept"
  <2>1. \A d \in Conn : d = old => old # None
    BY InterplanetaryAssumption
  <2> QED
    BY <1>1, <2>1, HeldDial DEF Side
<1>4. \A d \in Conn \ {c} : kept[n][HostOf[a]] = d /\ ~Gone(d) =>
        kept'[n][HostOf[a]] = d \/ d = old
  BY <1>1, InterplanetaryAssumption
<1>5. \/ fate'[n][a] = fate[n][a]
      \/ n = k /\ dialed[old] = a /\ Gone(old) /\ fate'[n][a] = "yielded"
  BY <1>1, <1>2 DEF Yields
<1> HIDE DEF old
<1>6. ASSUME NEW d, Chasing(n, a, d), ~Gone(d) PROVE Goes(n, a)
  <2>1. d \in Conn /\ d \notin Free' /\ dialer'[d] = n /\ dialed'[d] = a
    BY <1>6 DEF Chasing, Free
  <2>2. stage'[d]["out"] = stage[d]["out"] \/ stage'[d]["out"] = "kept"
    BY <1>3, <1>6, <2>1
  <2>3. CASE stage[d]["out"] \in {"dialing", "open", "kept"}
    BY <2>1, <2>2, <2>3, GoesIf
  <2>4. CASE kept[n][HostOf[a]] = d
    <3>1. CASE n = k /\ HostOf[a] = m
      <4>1. Gone(d)
        BY <1>6, <2>1, <2>4, <3>1, InterplanetaryAssumption DEF old, Chasing
      <4> QED
        BY <1>6, <4>1
    <3>2. CASE ~(n = k /\ HostOf[a] = m)
      <4>1. kept'[n][HostOf[a]] = d
        BY <1>1, <2>4, <3>2, InterplanetaryAssumption
      <4> QED
        BY <2>1, <4>1, GoesIf
    <3> QED
      BY <3>1, <3>2
  <2> QED
    BY <1>6, <2>3, <2>4 DEF Chasing
<1>7. ASSUME Gone(old), n = k, dialed[old] = a
      PROVE  Outcome(n, a)
  <2>1. HostOf[a] = m /\ fate'[n][a] = "yielded"
    <3>1. HostOf[a] = m
      BY <1>2, <1>7
    <3>2. Yields(k, old)
      BY <1>1, <1>7
    <3> QED
      BY <1>7, <3>1, <3>2 DEF Yields
  <2>2. CASE s = "out"
    <3>1. dialer[c] = n /\ HostOf[dialed[c]] = m /\ dialed[c] \in Address
      BY <1>7, <2>2, Ends, OwnerTyped
    <3>2. c \in Conn /\ c \notin Free' /\ kept'[n][HostOf[dialed[c]]] = c
      BY <1>1, <1>7, <3>1 DEF Free
    <3>3. Goes(n, dialed[c])
      BY <3>1, <3>2, GoesIf
    <3> QED
      BY <2>1, <3>1, <3>3 DEF Outcome, Gives
  <2>3. CASE s = "in"
    <3>1. m < k
      <4>1. ~Loses(k, m, s)
        <5>1. old # None
          BY <1>7
        <5> QED
          BY <5>1 DEF old
      <4>2. m \in Nat /\ k \in Nat /\ m # k
        BY InterplanetaryAssumption
      <4>3. ~(m > k)
        BY <2>3, <4>1 DEF Loses
      <4> QED
        BY ONLY <4>2, <4>3
    <3> QED
      BY <1>7, <2>1, <3>1 DEF Outcome, Gives
  <2> QED
    BY <2>2, <2>3 DEF Side
<1>8. CASE ~(Gone(old) /\ n = k /\ dialed[old] = a)
  <2>1. \A d : Chasing(n, a, d) => ~Gone(d)
    BY <1>8 DEF Chasing
  <2>2. Pursues(n, a) => Goes(n, a)
    BY <1>6, <2>1, PursuesIs, GoesIf
  <2> QED
    BY <1>5, <1>8, <2>2, SameFate
<1> QED
  BY <1>7, <1>8

\* What a step does to a pursuit
LEMMA StepOutcome ==
  ASSUME Inv, OwnBanned, [Next]_vars,
         NEW n \in Node, NEW a \in Address, HostOf[a] # n, Live(n), Live(n)'
  PROVE  Outcome(n, a)
<1> USE DEF Inv, Typed, TypeOK
<1>u. ASSUME UNCHANGED <<seen, waiting, kept, dialer, dialed, stage, fate>>
      PROVE  Outcome(n, a)
  <2>1. Pursues(n, a) => Goes(n, a)
    BY <1>u DEF Pursues, Goes, Free
  <2> QED
    BY <1>u, <2>1, SameFate
<1>1. ASSUME NEW k \in Node, Listen(k) \/ Listening(k) \/ Closed(k) PROVE Outcome(n, a)
  BY <1>1, <1>u DEF Listen, Listening, Closed, peerVars, connVars
<1>2. ASSUME NEW k \in Node, Destroy(k) PROVE Outcome(n, a)
  <2>1. UNCHANGED <<seen, waiting, kept, dialer, dialed, fate>>
    BY <1>2 DEF Destroy, peerVars
  <2>2. stage' = stage \/ (stage' = CloseAll(k) /\ k # n)
    BY <1>2 DEF Destroy, Live
  <2>3. \A d \in Conn : d \notin Free /\ dialer[d] = n => stage'[d]["out"] = stage[d]["out"]
    BY <2>2 DEF CloseAll, Owner, Side
  <2>4. \A d : Chasing(n, a, d) => Goes(n, a)
    BY <2>1, <2>3, GoesIf DEF Chasing, Free
  <2> QED
    BY <2>1, <2>4, PursuesIs, GoesIf, SameFate
<1>3. ASSUME NEW k \in Node, NEW b \in Address, Discover(k, b) PROVE Outcome(n, a)
  <2>1. /\ seen' = [seen EXCEPT ![k][b] = "seen"] /\ Kick(k, b) /\ UNCHANGED <<waiting, kept>>
        /\ fate' = [fate EXCEPT ![k][b] = "none"]
    BY <1>3 DEF Discover
  <2>2. CASE k = n /\ b = a
    BY <2>1, <2>2, KickGoes DEF Outcome
  <2>3. CASE ~(k = n /\ b = a)
    <3>1. seen'[n][a] = seen[n][a] /\ fate'[n][a] = fate[n][a]
      BY <2>1, <2>3
    <3>2. \A d : Chasing(n, a, d) => Goes(n, a)
      BY <2>1, KickGoes
    <3> QED
      BY <2>1, <3>1, <3>2, PursuesIs, GoesIf, SameFate
  <2> QED
    BY <2>2, <2>3
<1>4. ASSUME NEW k \in Node, NEW b \in Address, WhoAmI(k, b) PROVE Outcome(n, a)
  <2>1. /\ seen'[n][a] = seen[n][a] /\ UNCHANGED <<waiting, kept, fate>>
        /\ UNCHANGED <<dialer, dialed, stage>>
    BY <1>4 DEF WhoAmI, connVars
  <2>2. Pursues(n, a) => Goes(n, a)
    BY <2>1 DEF Pursues, Goes, Free
  <2> QED
    BY <2>1, <2>2, SameFate
<1>5. ASSUME NEW k \in Node, NEW b \in Address, Retry(k, b) PROVE Outcome(n, a)
  <2>1. /\ waiting' = [waiting EXCEPT ![k] = @ \ {b}] /\ Kick(k, b)
        /\ UNCHANGED <<seen, kept, fate>>
    BY <1>5 DEF Retry
  <2>2. CASE k = n /\ b = a
    BY <2>1, <2>2, KickGoes DEF Outcome
  <2>3. CASE ~(k = n /\ b = a)
    <3>1. a \in waiting[n] => a \in waiting'[n]
      BY <2>1, <2>3
    <3>2. \A d : Chasing(n, a, d) => Goes(n, a)
      BY <2>1, KickGoes
    <3> QED
      BY <2>1, <3>1, <3>2, PursuesIs, GoesIf, SameFate
  <2> QED
    BY <2>2, <2>3
<1>6. ASSUME NEW c \in Conn, NEW s \in Side, Handshake(c, s) PROVE Outcome(n, a)
  <2> DEFINE k == Owner(c, s)
             m == Remote(c, s)
             b == dialed[c]
  <2>1. /\ c \in Conn \ Free /\ UNCHANGED <<waiting, dialer, dialed>>
        /\ k \in Node /\ m \in Node /\ b \in Address
    BY <1>6, OwnerTyped DEF Handshake
  <2>2. \/ /\ m = k /\ stage' = [stage EXCEPT ![c][s] = "closing"]
           /\ seen' = IF s = "out" THEN [seen EXCEPT ![k][b] = "banned"] ELSE seen
           /\ UNCHANGED <<kept, fate>>
        \/ /\ m # k /\ Loses(k, m, s) /\ stage' = [stage EXCEPT ![c][s] = "closing"]
           /\ Yields(k, c) /\ UNCHANGED <<seen, kept>>
        \/ /\ m # k /\ (kept[k][m] = None \/ ~Loses(k, m, s))
           /\ Replace(k, m, c, s) /\ UNCHANGED seen
    BY <1>6 DEF Handshake
  <2>3. CASE /\ m = k /\ stage' = [stage EXCEPT ![c][s] = "closing"]
             /\ seen' = IF s = "out" THEN [seen EXCEPT ![k][b] = "banned"] ELSE seen
             /\ UNCHANGED <<kept, fate>>
    <3>1. s = "out" => HostOf[b] = k
      BY <2>3, Ends
    <3>2. seen'[n][a] = seen[n][a]
      <4> HIDE DEF k, m, b
      <4> QED
        BY <2>1, <2>3, <3>1
    <3> QED
      BY <2>1, <2>3, <3>2, LosingOutcome
  <2>4. CASE /\ m # k /\ Loses(k, m, s) /\ stage' = [stage EXCEPT ![c][s] = "closing"]
             /\ Yields(k, c) /\ UNCHANGED <<seen, kept>>
    BY <2>1, <2>4, LosingOutcome
  <2>5. CASE /\ m # k /\ (kept[k][m] = None \/ ~Loses(k, m, s))
             /\ Replace(k, m, c, s) /\ UNCHANGED seen
    BY <2>1, <2>5, ReplaceOutcome
  <2> QED
    BY <2>2, <2>3, <2>4, <2>5
<1>7. ASSUME UNCHANGED vars PROVE Outcome(n, a)
  BY <1>7, <1>u DEF vars
<1> QED
  BY <1>1, <1>2, <1>3, <1>4, <1>5, <1>6, <1>7, DialOutcome, ClosingOutcome,
     CloseEventOutcome DEF Next, Step

\* Only a swarm that is up sees, bans and dials anybody
LEMMA SightStep ==
  ASSUME Inv, Unheard, [Next]_vars
  PROVE  /\ \A n \in Node, a \in Address :
              \/ seen'[n][a] \in {seen[n][a], "no"}
              \/ /\ phase[n] \notin {"idle", "opening"}
                 /\ seen'[n][a] = "seen" \/ HostOf[a] = n
         /\ \A c \in Conn : \/ dialer'[c] \in {dialer[c], None}
                            \/ \E k \in Node : dialer'[c] = k /\ Live(k)
         /\ \A n \in Node : phase'[n] \in {"idle", "opening"} => phase[n] \in {"idle", "opening"}
<1> DEFINE SeenIs == \A n \in Node, a \in Address :
                       \/ seen'[n][a] \in {seen[n][a], "no"}
                       \/ /\ phase[n] \notin {"idle", "opening"}
                          /\ seen'[n][a] = "seen" \/ HostOf[a] = n
           DialerIs == \A c \in Conn : \/ dialer'[c] \in {dialer[c], None}
                                       \/ \E k \in Node : dialer'[c] = k /\ Live(k)
           PhaseIs == \A n \in Node : phase'[n] \in {"idle", "opening"} =>
                                        phase[n] \in {"idle", "opening"}
<1> USE DEF Inv, Typed, TypeOK
<1>u. /\ seen' = seen => SeenIs
      /\ dialer' = dialer => DialerIs
      /\ phase' = phase => PhaseIs
  OBVIOUS
<1>k. ASSUME NEW k \in Node, NEW b \in Address, Kick(k, b) PROVE DialerIs
  <2>1. CASE UNCHANGED connVars
    BY <1>u, <2>1 DEF connVars
  <2>2. CASE Live(k) /\ \E c \in Free : dialer' = [dialer EXCEPT ![c] = k]
    <3>1. PICK c \in Free : dialer' = [dialer EXCEPT ![c] = k]
      BY <2>2
    <3>2. \A d \in Conn : dialer'[d] \in {dialer[d], k}
      BY <3>1
    <3> QED
      BY <2>2, <3>2
  <2> QED
    BY <1>k, <2>1, <2>2 DEF Kick
<1>r. ASSUME NEW k \in Node, NEW b \in Address, Requeue(k, b) PROVE SeenIs
  <2>1. seen' = seen \/ seen' = [seen EXCEPT ![k][b] = "no"]
    BY <1>r DEF Requeue, peerVars, DropPeer
  <2>2. \A n \in Node, a \in Address : seen'[n][a] \in {seen[n][a], "no"}
    <3>1. seen \in [Node -> [Address -> {"no", "seen", "banned"}]]
      OBVIOUS
    <3> QED
      BY ONLY <2>1, <3>1
  <2> QED
    BY <2>2
<1> HIDE DEF SeenIs, DialerIs, PhaseIs
<1>1. ASSUME NEW k \in Node, Listen(k) \/ Listening(k) \/ Closed(k) \/ Destroy(k)
      PROVE  SeenIs /\ DialerIs /\ PhaseIs
  <2>1. PhaseIs
    BY <1>1 DEF Listen, Listening, Closed, Destroy, Live, PhaseIs
  <2>2. seen' = seen /\ dialer' = dialer
    BY <1>1 DEF Listen, Listening, Closed, Destroy, peerVars, connVars
  <2> QED
    BY <1>u, <2>1, <2>2
<1>2. ASSUME NEW k \in Node, NEW b \in Address, Discover(k, b) \/ WhoAmI(k, b) \/ Retry(k, b)
      PROVE  SeenIs /\ DialerIs /\ PhaseIs
  <2>1. SeenIs
    <3>1. CASE seen' = seen
      BY <1>u, <3>1
    <3>2. CASE Live(k) /\ seen' = [seen EXCEPT ![k][b] = "seen"]
      BY <3>2 DEF SeenIs, Live
    <3>3. CASE Live(k) /\ HostOf[b] = k /\ seen' = [seen EXCEPT ![k][b] = "banned"]
      BY <3>3 DEF SeenIs, Live
    <3> QED
      BY <1>2, <3>1, <3>2, <3>3 DEF Discover, WhoAmI, Retry
  <2>2. phase' = phase /\ (Kick(k, b) \/ dialer' = dialer)
    BY <1>2 DEF Discover, WhoAmI, Retry, connVars
  <2> QED
    BY <1>k, <1>u, <2>1, <2>2
<1>3. ASSUME NEW c \in Conn, NEW s \in Side,
             Connect(c) \/ Accept(c) \/ HearClose(c, s) \/ Fail(c, s)
      PROVE  SeenIs /\ DialerIs /\ PhaseIs
  BY <1>3, <1>u DEF Connect, Accept, HearClose, Fail, peerVars
<1>4. ASSUME NEW c \in Conn, NEW s \in Side, DialFail(c) \/ CloseEvent(c, s)
      PROVE  SeenIs /\ DialerIs /\ PhaseIs
  <2>1. phase' = phase /\ c \in Conn \ Free /\ "out" \in Side
    BY <1>4 DEF DialFail, CloseEvent, Side
  <2>2. dialer' = dialer \/ dialer' = [dialer EXCEPT ![c] = None]
    BY <1>4 DEF DialFail, CloseEvent, Leave
  <2>3. DialerIs
    BY <1>u, <2>2 DEF DialerIs
  <2>4. seen' = seen \/ \E k \in Node, b \in Address : Requeue(k, b)
    BY <1>4, <2>1, OwnerTyped DEF DialFail, CloseEvent, peerVars
  <2> QED
    BY <1>r, <1>u, <2>1, <2>3, <2>4
<1>5. ASSUME NEW c \in Conn, NEW s \in Side, Handshake(c, s)
      PROVE  SeenIs /\ DialerIs /\ PhaseIs
  <2>1. c \in Conn \ Free /\ phase' = phase /\ dialer' = dialer
    BY <1>5 DEF Handshake
  <2>2. \/ seen' = seen
        \/ /\ s = "out" /\ Remote(c, s) = Owner(c, s)
           /\ seen' = [seen EXCEPT ![Owner(c, s)][dialed[c]] = "banned"]
    BY <1>5 DEF Handshake
  <2>3. CASE /\ s = "out" /\ Remote(c, s) = Owner(c, s)
             /\ seen' = [seen EXCEPT ![Owner(c, s)][dialed[c]] = "banned"]
    <3>1. HostOf[dialed[c]] = dialer[c] /\ seen' = [seen EXCEPT ![dialer[c]][dialed[c]] = "banned"]
      <4>1. Owner(c, s) = dialer[c] /\ Remote(c, s) = HostOf[dialed[c]]
        BY <2>3, Ends
      <4> QED
        BY <2>3, <4>1
    <3>2. dialer[c] \in Node /\ phase[dialer[c]] \notin {"idle", "opening"}
      BY <2>1, OwnerTyped DEF Unheard, Side
    <3>3. SeenIs
      BY <3>1, <3>2 DEF SeenIs
    <3> QED
      BY <1>u, <2>1, <3>3
  <2> QED
    BY <1>u, <2>1, <2>2, <2>3
<1>6. ASSUME UNCHANGED vars PROVE SeenIs /\ DialerIs /\ PhaseIs
  BY <1>6, <1>u DEF vars
<1>7. SeenIs /\ DialerIs /\ PhaseIs
  BY <1>1, <1>2, <1>3, <1>4, <1>5, <1>6 DEF Next, Step, Side
<1> QED
  BY <1>7 DEF SeenIs, DialerIs, PhaseIs

LEMMA UnheardStep ==
  ASSUME Inv, Unheard, OwnBanned, [Next]_vars
  PROVE  Unheard' /\ OwnBanned'
<1>1. Unheard'
  <2>1. SUFFICES ASSUME NEW n \in Node, phase'[n] \in {"idle", "opening"}
                 PROVE  /\ \A a \in Address : seen'[n][a] = "no"
                        /\ \A c \in Conn : dialer'[c] # n
    BY DEF Unheard
  <2>2. phase[n] \in {"idle", "opening"} /\ ~Live(n)
    BY <2>1, SightStep DEF Live
  <2>3. \A a \in Address : seen'[n][a] \in {seen[n][a], "no"}
    BY <2>2, SightStep
  <2>4. \A c \in Conn : dialer'[c] \in {dialer[c], None} \/ dialer'[c] # n
    BY <2>2, SightStep
  <2> QED
    BY <2>2, <2>3, <2>4, InterplanetaryAssumption DEF Unheard
<1>2. OwnBanned'
  BY SightStep DEF OwnBanned
<1> QED
  BY <1>1, <1>2

LEMMA PursuitStep == Pursuit /\ [Next]_vars => Pursuit'
<1> SUFFICES ASSUME Pursuit, [Next]_vars PROVE Pursuit'
  OBVIOUS
<1>1. Inv /\ Unheard /\ OwnBanned /\ Inv' /\ Unheard' /\ OwnBanned'
  BY InvStep, UnheardStep DEF Pursuit
<1>2. ASSUME NEW n \in Node, NEW a \in Address, ~Live(n), Live(n)', HostOf[a] # n
      PROVE  Goes(n, a)
  <2>1. phase[n] \in {"idle", "opening"}
    <3>1. phase'[n] = "up" /\ phase[n] # "up" /\ phase' # phase
      BY <1>2 DEF Live
    <3>2. PICK k \in Node : Listen(k) \/ Listening(k) \/ Closed(k) \/ Destroy(k)
      BY <3>1 DEF Next, Step, Discover, WhoAmI, Retry, Connect, DialFail, Accept, Handshake,
                  HearClose, CloseEvent, Fail, vars
    <3> QED
      BY <1>1, <3>1, <3>2 DEF Listen, Listening, Closed, Destroy, Inv, Typed, TypeOK
  <2>2. seen[n][a] = "no"
    BY <1>1, <2>1 DEF Unheard
  <2>3. seen'[n][a] = "no"
    BY <1>1, <1>2, <2>1, <2>2, SightStep
  <2> QED
    BY <2>3, GoesIf
<1>3. ASSUME NEW n \in Node, NEW a \in Address, Live(n), Live(n)', HostOf[a] # n
      PROVE  Outcome(n, a)
  BY <1>1, <1>3, StepOutcome
<1>4. EndIsMarked'
  <2>1. SUFFICES ASSUME NEW n \in Node, NEW a \in Address, Live(n)', HostOf[a] # n,
                        ~Goes(n, a)
                 PROVE  fate'[n][a] # "none"
    BY DEF EndIsMarked, Goes
  <2>2. Live(n)
    BY <1>2, <2>1
  <2>3. Outcome(n, a)
    BY <1>3, <2>1, <2>2
  <2>4. Stays(n, a) => fate[n][a] # "none"
    BY <2>1, <2>2 DEF Stays, Pursuit, EndIsMarked
  <2> QED
    BY <2>1, <2>3, <2>4 DEF Outcome, Cut, Gives, Stays
<1>5. SmallerPursues'
  <2>1. SUFFICES ASSUME NEW n \in Node, NEW b \in Address, Live(n)', n < HostOf[b],
                        \A a \in Address : HostOf[a] = HostOf[b] => ~Goes(n, a)
                 PROVE  \E a \in Address : HostOf[a] = HostOf[b] /\ fate'[n][a] = "cut"
    BY DEF SmallerPursues, Goes, Chases, Fates, Addresses
  <2>2. HostOf[b] # n /\ ~(HostOf[b] < n)
    <3>1. n \in Nat /\ HostOf[b] \in Nat
      BY InterplanetaryAssumption
    <3> QED
      BY <2>1, <3>1
  <2>3. Live(n)
    BY <1>2, <2>1, <2>2
  <2>4. ASSUME NEW a \in Address, HostOf[a] = HostOf[b] PROVE Cut(n, a) \/ Stays(n, a)
    <3>1. Outcome(n, a)
      BY <1>3, <2>1, <2>2, <2>3, <2>4
    <3> QED
      BY <2>1, <2>2, <2>4, <3>1 DEF Outcome, Gives
  <2>5. CASE \A a \in Address : HostOf[a] = HostOf[b] => Stays(n, a)
    <3>1. ~Chases(n, HostOf[b])
      BY <2>5 DEF Chases, Addresses, Stays
    <3>2. "cut" \in Fates(n, HostOf[b])
      BY <2>1, <2>3, <3>1 DEF Pursuit, SmallerPursues
    <3>3. PICK a \in Address : HostOf[a] = HostOf[b] /\ fate[n][a] = "cut"
      BY <3>2 DEF Fates, Addresses
    <3> QED
      BY <2>5, <3>3 DEF Stays
  <2> QED
    BY <2>4, <2>5 DEF Cut
<1> QED
  BY <1>1, <1>4, <1>5 DEF Pursuit

\* Two live nodes never give each other up, whatever addresses they are announced
\* under: the smaller one pursues the other until it is cut, and what ends the
\* pursuit of the other one leaves a mark.
THEOREM NobodyIsForgottenHolds == Spec => []NobodyIsForgotten
<1>1. Pursuit => NobodyIsForgotten
  <2>1. ASSUME Pursuit, NEW a \in Address, NEW b \in Address, Live(HostOf[a]), Live(HostOf[b]),
               HostOf[a] < HostOf[b], ~Chases(HostOf[a], HostOf[b]),
               ~Chases(HostOf[b], HostOf[a])
        PROVE  /\ "cut" \in Fates(HostOf[a], HostOf[b])
               /\ Fates(HostOf[b], HostOf[a]) # {"none"}
    <3>1. HostOf[a] \in Node /\ HostOf[b] \in Node /\ HostOf[a] # HostOf[b]
      <4>1. HostOf[a] \in Nat /\ HostOf[b] \in Nat /\ HostOf[a] \in Node /\ HostOf[b] \in Node
        BY InterplanetaryAssumption
      <4> QED
        BY <2>1, <4>1
    <3>2. "cut" \in Fates(HostOf[a], HostOf[b])
      BY <2>1, <3>1 DEF Pursuit, SmallerPursues
    <3>3. fate[HostOf[b]][a] # "none"
      BY <2>1, <3>1 DEF Pursuit, EndIsMarked, Chases, Addresses
    <3>4. fate[HostOf[b]][a] \in Fates(HostOf[b], HostOf[a])
      BY DEF Fates, Addresses
    <3> QED
      BY <3>2, <3>3, <3>4
  <2>2. SUFFICES ASSUME Pursuit, NEW a \in Address, NEW b \in Address, HostOf[a] # HostOf[b],
                        Live(HostOf[a]), Live(HostOf[b]), ~Chases(HostOf[a], HostOf[b]),
                        ~Chases(HostOf[b], HostOf[a])
                 PROVE  Severed(HostOf[a], HostOf[b])
    BY DEF NobodyIsForgotten
  <2>3. HostOf[a] < HostOf[b] \/ HostOf[b] < HostOf[a]
    <3>1. HostOf[a] \in Nat /\ HostOf[b] \in Nat
      BY InterplanetaryAssumption
    <3> QED
      BY <2>2, <3>1
  <2> QED
    BY <2>1, <2>2, <2>3 DEF Severed
<1> QED
  BY <1>1, PursuitInit, PursuitStep, PTL DEF Spec

=============================================================================
