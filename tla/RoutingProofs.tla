--------------------------- MODULE RoutingProofs ---------------------------
(* Theorems about Routing, for any peers, calls and bounds. *)
EXTENDS Routing, FiniteSetTheorems, SequenceTheorems, TLAPS

----------------------------------------------------------------------------
(* Type correctness *)

LEMMA ListTyped ==
  ASSUME NEW rs \in Seq(Peer), NEW b \in BOOLEAN, NEW a \in BOOLEAN
  PROVE  ListOf(rs, b, a) \in Seq(Entry)
<1>1. Self(a) \in Entry
  BY DEF Self, Entry
<1>2. \A k \in DOMAIN rs : Remote(rs[k]) \in Entry
  BY DEF Remote, Entry
<1>3. [k \in DOMAIN rs |-> Remote(rs[k])] \in Seq(Entry)
  BY <1>2
<1>4. (IF b THEN <<Self(a)>> ELSE <<>>) \in Seq(Entry)
  BY <1>1
<1> QED
  BY <1>3, <1>4 DEF ListOf

LEMMA NoLooksTyped ==
  ASSUME NEW n \in Nat
  PROVE  NoLooks(n) \in [1 .. n -> Nat]
BY DEF NoLooks

LEMMA PoolTyped == TypeOK => InPool \subseteq Peer
BY DEF TypeOK, InPool

LEMMA TypeInit == Init => TypeOK
<1> SUFFICES ASSUME Init PROVE TypeOK
  OBVIOUS
<1>1. routers \in Seq(Peer)
  <2>1. Cardinality(Peer) \in Nat
    BY FS_CardinalityType, RoutingAssumption
  <2>2. PICK n \in 0 .. Cardinality(Peer) : routers \in [1 .. n -> Peer]
    BY DEF Init
  <2> QED
    BY <2>1, <2>2
<1>2. met \in SUBSET Peer
  BY <1>1 DEF Init, InPool
<1>3. peer_list \in Seq(Entry)
  BY <1>1, ListTyped DEF Init
<1>4. looks \in [1 .. Len(peer_list) -> Nat]
  BY <1>3, NoLooksTyped DEF Init
<1>5. ran \in [Caller -> [Peer -> Runs]]
  BY DEF Init, Runs
<1>6. wire \in [Caller -> [Peer -> Wire]]
  BY DEF Init, Wire
<1> QED
  BY <1>1, <1>2, <1>3, <1>4, <1>5, <1>6, RoutingAssumption DEF Init, TypeOK

\* Ask keeps the types of what it changes.
LEMMA AskTyped ==
  ASSUME TypeOK, NEW r \in Caller, NEW P \in SUBSET Peer, Ask(r, P)
  PROVE  /\ callbacks' \in [Peer -> SUBSET Caller] /\ timers' \in [Peer -> SUBSET Caller]
         /\ wire' \in [Caller -> [Peer -> Wire]] /\ ran' \in [Caller -> [Peer -> Runs]]
         /\ phase' \in [Caller -> {"idle", "seeking", "local", "remote", "answered"}]
         /\ processing' \in SUBSET Caller
<1>1. callbacks' \in [Peer -> SUBSET Caller] /\ timers' \in [Peer -> SUBSET Caller]
  BY DEF Ask, TypeOK
<1>2. wire' \in [Caller -> [Peer -> Wire]]
  <2> DEFINE row == [p \in Peer |-> IF p \notin P THEN wire[r][p]
                                    ELSE IF p \in InPool THEN "asked" ELSE "lost"]
  <2>1. row \in [Peer -> Wire]
    BY DEF TypeOK, Wire
  <2> QED
    BY <2>1 DEF Ask, TypeOK
<1> QED
  BY <1>1, <1>2 DEF Ask, TypeOK

LEMMA ErrorTyped ==
  ASSUME TypeOK, NEW r \in Caller, AnswerError(r)
  PROVE  /\ callbacks' \in [Peer -> SUBSET Caller] /\ timers' \in [Peer -> SUBSET Caller]
         /\ wire' \in [Caller -> [Peer -> Wire]] /\ ran' \in [Caller -> [Peer -> Runs]]
         /\ phase' \in [Caller -> {"idle", "seeking", "local", "remote", "answered"}]
         /\ processing' \in SUBSET Caller /\ cut' \in SUBSET Caller
         /\ missing' \in [Multi -> Int] /\ written' \in [Multi -> SUBSET Peer]
         /\ alive' \in BOOLEAN
BY DEF AnswerError, TypeOK, rpcVars

LEMMA LookTyped ==
  ASSUME TypeOK, NEW r \in Caller, Look(r)
  PROVE  TypeOK'
<1> DEFINE e == peer_list[Position]
<1>1. Position \in 1 .. Len(peer_list)
  BY DEF Look, Position, TypeOK
<1>2. e \in Entry
  BY <1>1 DEF TypeOK
<1>3. /\ rri' \in Nat /\ looks' \in [1 .. Len(peer_list') -> Nat]
      /\ peer_list' \in Seq(Entry) /\ retry' \in [Caller -> Nat]
  <2>1. Advance(rri) \in Nat
    BY RoutingAssumption DEF TypeOK, Advance
  <2>2. looks[Position] + 1 \in Nat
    <3>1. looks \in [1 .. Len(peer_list) -> Nat]
      BY DEF TypeOK
    <3> QED
      BY <1>1, <3>1
  <2>3. looks' \in [1 .. Len(peer_list) -> Nat]
    BY <1>1, <2>2 DEF Look, TypeOK
  <2>4. retry' \in [Caller -> Nat]
    BY DEF Look, TypeOK
  <2>5. peer_list' = peer_list /\ rri' = Advance(rri)
    BY DEF Look
  <2> QED
    BY <2>1, <2>3, <2>4, <2>5 DEF TypeOK
<1>4. /\ routers' \in Seq(Peer) /\ met' \in SUBSET Peer /\ synced' \in SUBSET Peer
      /\ accept' \in BOOLEAN /\ local' \in BOOLEAN /\ changes' \in Nat
  BY DEF Look, TypeOK, gridVars
<1>5. \/ UNCHANGED <<rpcVars, ansVars>>
      \/ AnswerError(r)
      \/ /\ phase' = [phase EXCEPT ![r] = "local"] /\ processing' = processing \cup {r}
         /\ UNCHANGED <<rpcVars, missing, written, cut, alive>>
      \/ /\ e.peer \in Peer /\ Ask(r, {e.peer})
         /\ UNCHANGED <<missing, written, cut, alive>>
  BY <1>2 DEF Look, Entry
<1> HIDE DEF e
<1>6. CASE UNCHANGED <<rpcVars, ansVars>>
  BY <1>3, <1>4, <1>6 DEF TypeOK, rpcVars, ansVars
<1>7. CASE AnswerError(r)
  BY <1>3, <1>4, <1>7, ErrorTyped DEF TypeOK
<1>8. CASE /\ phase' = [phase EXCEPT ![r] = "local"] /\ processing' = processing \cup {r}
           /\ UNCHANGED <<rpcVars, missing, written, cut, alive>>
  BY <1>3, <1>4, <1>8 DEF TypeOK, rpcVars
<1>9. CASE /\ e.peer \in Peer /\ Ask(r, {e.peer})
           /\ UNCHANGED <<missing, written, cut, alive>>
  <2>1. {e.peer} \in SUBSET Peer
    BY <1>9
  <2> QED
    BY <1>3, <1>4, <1>9, <2>1, AskTyped DEF TypeOK
<1> QED
  BY <1>5, <1>6, <1>7, <1>8, <1>9

LEMMA LookAllTyped ==
  ASSUME TypeOK, NEW r \in Caller, LookAll(r)
  PROVE  TypeOK'
<1> DEFINE P == ReadyPeers
<1>1. P \in SUBSET Peer /\ CountPeers(P) \in Int
  <2>1. P \in SUBSET Peer
    BY DEF ReadyPeers
  <2>2. IsFiniteSet(P)
    BY <2>1, FS_Subset, RoutingAssumption
  <2> QED
    BY <2>1, <2>2, FS_CardinalityType DEF CountPeers
<1>2. /\ UNCHANGED <<gridVars, peer_list, rri, looks>>
      /\ retry' \in [Caller -> Nat]
  BY DEF LookAll, TypeOK
<1>3. \/ UNCHANGED <<rpcVars, ansVars>>
      \/ AnswerError(r)
      \/ /\ Ask(r, P) /\ missing' = [missing EXCEPT ![r] = CountPeers(P)]
         /\ UNCHANGED <<written, cut, alive>>
  BY DEF LookAll
<1> HIDE DEF P
<1>4. CASE UNCHANGED <<rpcVars, ansVars>>
  BY <1>2, <1>4 DEF TypeOK, gridVars, rpcVars, ansVars
<1>5. CASE AnswerError(r)
  BY <1>2, <1>5, ErrorTyped DEF TypeOK, gridVars
<1>6. CASE /\ Ask(r, P) /\ missing' = [missing EXCEPT ![r] = CountPeers(P)]
           /\ UNCHANGED <<written, cut, alive>>
  BY <1>1, <1>2, <1>6, AskTyped DEF TypeOK, gridVars
<1> QED
  BY <1>3, <1>4, <1>5, <1>6

LEMMA ReplyTyped ==
  ASSUME TypeOK, NEW r \in Caller, NEW p \in Peer, Reply(r, p)
  PROVE  TypeOK'
<1>1. /\ callbacks' \in [Peer -> SUBSET Caller] /\ timers' \in [Peer -> SUBSET Caller]
      /\ processing' \in SUBSET Caller
  BY DEF Reply, TypeOK, Cleared, Processed
<1>2. ran' \in [Caller -> [Peer -> Runs]]
  <2> DEFINE n == ran[r][p]
  <2>2. n \in Runs /\ n.reply \in Nat
    BY DEF TypeOK, Runs
  <2>3. [n EXCEPT !.reply = @ + 1] \in Runs
    <3> HIDE DEF n
    <3> QED
      BY <2>2 DEF Runs
  <2>1. [ran[r][p] EXCEPT !.reply = @ + 1] \in Runs
    BY <2>3
  <2> QED
    BY <2>1 DEF Reply, TypeOK
<1>3. wire' \in [Caller -> [Peer -> Wire]]
  BY DEF Reply, TypeOK, Wire
<1>4. Die \/ RunGood(r, p)
  BY DEF Reply
<1>5. /\ phase' \in [Caller -> {"idle", "seeking", "local", "remote", "answered"}]
      /\ cut' \in SUBSET Caller /\ missing' \in [Multi -> Int]
      /\ written' \in [Multi -> SUBSET Peer] /\ alive' \in BOOLEAN
  <2>1. CASE Die
    BY <2>1 DEF Die, TypeOK
  <2>2. CASE RunGood(r, p) /\ r \in Single
    <3>1. Die \/ /\ phase' = [phase EXCEPT ![r] = "answered"]
                 /\ UNCHANGED <<missing, written, cut, alive>>
      BY <2>2 DEF RunGood
    <3>2. CASE Die
      BY <2>1, <3>2
    <3>3. CASE /\ phase' = [phase EXCEPT ![r] = "answered"]
               /\ UNCHANGED <<missing, written, cut, alive>>
      BY <3>3 DEF TypeOK
    <3> QED
      BY <3>1, <3>2, <3>3
  <2>3. CASE RunGood(r, p) /\ r \notin Single
    <3>1. r \in Multi
      BY <2>3 DEF Caller
    <3>2. missing' = [missing EXCEPT ![r] = @ - 1]
      BY <2>3 DEF RunGood
    <3>3. written' = written \/ written' = [written EXCEPT ![r] = @ \cup {p}]
      BY <2>3 DEF RunGood
    <3>4. UNCHANGED <<phase, cut, alive>>
      BY <2>3 DEF RunGood
    <3>5. missing' \in [Multi -> Int]
      BY <3>1, <3>2 DEF TypeOK
    <3>6. written' \in [Multi -> SUBSET Peer]
      <4>1. written \in [Multi -> SUBSET Peer] /\ written[r] \cup {p} \in SUBSET Peer
        BY <3>1 DEF TypeOK
      <4> QED
        BY <3>3, <4>1
    <3> QED
      BY <3>4, <3>5, <3>6 DEF TypeOK
  <2> QED
    BY <1>4, <2>1, <2>2, <2>3
<1> QED
  BY <1>1, <1>2, <1>3, <1>5 DEF Reply, TypeOK, gridVars, seekVars

LEMMA TimeoutTyped ==
  ASSUME TypeOK, NEW r \in Caller, NEW p \in Peer, Timeout(r, p)
  PROVE  TypeOK'
<1>1. timers' \in [Peer -> SUBSET Caller] /\ processing' \in SUBSET Caller
  BY DEF Timeout, TypeOK, Cleared, Processed
<1>2. ran' \in [Caller -> [Peer -> Runs]]
  <2> DEFINE n == ran[r][p]
  <2>2. n \in Runs /\ n.timeout \in Nat
    BY DEF TypeOK, Runs
  <2>3. [n EXCEPT !.timeout = @ + 1] \in Runs
    <3> HIDE DEF n
    <3> QED
      BY <2>2 DEF Runs
  <2>1. [ran[r][p] EXCEPT !.timeout = @ + 1] \in Runs
    BY <2>3
  <2> QED
    BY <2>1 DEF Timeout, TypeOK
<1>3. /\ phase' \in [Caller -> {"idle", "seeking", "local", "remote", "answered"}]
      /\ cut' \in SUBSET Caller /\ missing' \in [Multi -> Int]
      /\ written' \in [Multi -> SUBSET Peer] /\ alive' \in BOOLEAN
  <2>1. CASE Die
    BY <2>1 DEF Die, TypeOK
  <2>2. CASE ~Die
    <3>1. missing' \in [Multi -> Int]
      <4>1. missing \in [Multi -> Int]
        BY DEF TypeOK
      <4>2. missing' = [q \in Multi |-> IF q = r THEN missing[q] - 1 ELSE missing[q]]
        BY <2>2 DEF Timeout
      <4> QED
        BY <4>1, <4>2
    <3>2. cut' = cut \/ cut' = cut \cup {r}
      BY <2>2 DEF Timeout
    <3> QED
      BY <2>2, <3>1, <3>2 DEF Timeout, TypeOK
  <2> QED
    BY <2>1, <2>2
<1> QED
  BY <1>1, <1>2, <1>3 DEF Timeout, TypeOK, gridVars, seekVars

LEMMA TypeStep == TypeOK /\ [Next]_vars => TypeOK'
<1> SUFFICES ASSUME TypeOK, [Next]_vars PROVE TypeOK'
  OBVIOUS
<1> USE DEF gridVars, seekVars, rpcVars, ansVars
<1>1. ASSUME NEW p \in Peer, Connect(p) PROVE TypeOK'
  BY <1>1 DEF Connect, Change, TypeOK
<1>2. ASSUME NEW p \in Peer, Close(p) PROVE TypeOK'
  <2>1. routers' \in Seq(Peer)
    <3>1. PICK k \in DOMAIN routers :
            routers' = SubSeq(routers, 1, k - 1) \o SubSeq(routers, k + 1, Len(routers))
      BY <1>2 DEF Close
    <3>2. routers \in Seq(Peer)
      BY DEF TypeOK
    <3>3. /\ SubSeq(routers, 1, k - 1) \in Seq(Peer)
          /\ SubSeq(routers, k + 1, Len(routers)) \in Seq(Peer)
      BY <3>2, SubSeqProperties
    <3> QED
      BY <3>1, <3>3
  <2>2. wire' \in [Caller -> [Peer -> Wire]]
    BY <1>2 DEF Close, TypeOK, Wire
  <2> QED
    BY <1>2, <2>1, <2>2 DEF Close, Change, TypeOK
<1>3. ASSUME NEW p \in Peer, PeerSynced(p) PROVE TypeOK'
  BY <1>3 DEF PeerSynced, Change, TypeOK
<1>4. CASE TasksInit
  <2>1. synced' \in SUBSET Peer /\ accept' \in BOOLEAN /\ local' \in BOOLEAN
    BY <1>4 DEF TasksInit, TypeOK
  <2>2. changes' \in Nat
    BY <1>4 DEF TasksInit, Change, TypeOK
  <2>3. UNCHANGED <<routers, met, seekVars, rpcVars, ansVars>>
    BY <1>4 DEF TasksInit
  <2> QED
    BY <2>1, <2>2, <2>3 DEF TypeOK
<1>5. CASE TasksStarted
  BY <1>5 DEF TasksStarted, Change, TypeOK
<1>6. CASE CachePeerList
  <2>1. peer_list' \in Seq(Entry)
    BY <1>6, ListTyped DEF CachePeerList, TypeOK
  <2>2. looks' \in [1 .. Len(peer_list') -> Nat]
    BY <1>6, <2>1, NoLooksTyped DEF CachePeerList, TypeOK
  <2> QED
    BY <1>6, <2>1, <2>2 DEF CachePeerList, TypeOK
<1>7. ASSUME NEW r \in Caller, Route(r) PROVE TypeOK'
  <2>1. looks' \in [1 .. Len(peer_list) -> Nat] /\ rri' \in Nat
    <3>1. /\ Len(peer_list) \in Nat /\ rri \in Nat
          /\ looks \in [1 .. Len(peer_list) -> Nat]
      BY DEF TypeOK
    <3>2. NoLooks(Len(peer_list)) \in [1 .. Len(peer_list) -> Nat]
      BY <3>1, NoLooksTyped
    <3>3. \/ rri' = 0 /\ looks' = NoLooks(Len(peer_list))
          \/ rri' = rri /\ looks' = looks
      BY <1>7 DEF Route
    <3> QED
      BY <3>1, <3>2, <3>3
  <2> QED
    BY <1>7, <2>1 DEF Route, TypeOK
<1>8. ASSUME NEW r \in Caller, Broadcast(r) PROVE TypeOK'
  BY <1>8 DEF Broadcast, TypeOK
<1>9. ASSUME NEW r \in Caller, GiveUp(r) PROVE TypeOK'
  BY <1>9 DEF GiveUp, AnswerError, TypeOK
<1>10. ASSUME NEW r \in Caller, LookNone(r) PROVE TypeOK'
  BY <1>10 DEF LookNone, TypeOK
<1>11. ASSUME NEW r \in Caller, LocalDone(r) PROVE TypeOK'
  BY <1>11 DEF LocalDone, Processed, TypeOK
<1>12. ASSUME NEW r \in Caller, TheEnd(r) PROVE TypeOK'
  BY <1>12 DEF TheEnd, TypeOK
<1>13. CASE UNCHANGED vars
  BY <1>13 DEF vars, TypeOK
<1> QED
  BY <1>1, <1>2, <1>3, <1>4, <1>5, <1>6, <1>7, <1>8, <1>9, <1>10, <1>11, <1>12, <1>13,
     LookTyped, LookAllTyped, ReplyTyped, TimeoutTyped DEF Next, Environment, Step

\* Every variable of Routing keeps its type: for any number of peers and calls.
THEOREM TypeCorrect == Spec => []TypeOK
<1> QED
  BY TypeInit, TypeStep, PTL DEF Spec

----------------------------------------------------------------------------
(* Requests over routers.  What is said of the request of r over p, in every *)
(* state, as far as the process lives:                                       *)

Waits(r) == {p \in Peer : r \in timers[p]}

\* An armed timer belongs to a request that has not been answered or timed out.
Armed == \A r \in Caller, p \in Peer : r \in timers[p] =>
  wire[r][p] \in {"asked", "lost"} /\ ran[r][p].reply = 0 /\ ran[r][p].timeout = 0

\* A request without an answer has its timer, or has timed out.
Pending == \A r \in Caller, p \in Peer : wire[r][p] \in {"asked", "lost"} =>
  ran[r][p].reply = 0 /\ (r \in timers[p] \/ ran[r][p].timeout > 0)

Untouched == \A r \in Caller, p \in Peer : wire[r][p] = "none" =>
  ran[r][p].reply = 0 /\ ran[r][p].timeout = 0

\* Who searches, or computes for itself, has not asked anybody.
Unsent == \A r \in Caller, p \in Peer :
  phase[r] \in {"idle", "seeking", "local"} => wire[r][p] = "none"

\* A call for one peer asks one peer.
OnePeer == \A r \in Single, p, q \in Peer :
  wire[r][p] # "none" /\ wire[r][q] # "none" => p = q

\* The process survives a timeout only by answering the client.
Survived == alive => \A r \in Caller, p \in Peer :
  wire[r][p] # "raised" /\ (ran[r][p].timeout > 0 => phase[r] = "answered")

\* A call for one peer is answered by that peer, or by the timeout.
Answered == \A r \in Single, p \in Peer :
  phase[r] = "answered" /\ wire[r][p] \in {"asked", "lost"} => ran[r][p].timeout > 0

\* Who waits for one peer has its timer; who waits for several counts the timers.
Waiting == alive => \A r \in Caller : phase[r] = "remote" =>
  /\ r \in Single => Waits(r) # {}
  /\ r \in Multi => /\ missing[r] = Cardinality(Waits(r))
                    /\ \A p \in Peer : wire[r][p] = "used" => p \in written[r]

Requests ==
  /\ Armed /\ Pending /\ Untouched /\ Unsent /\ OnePeer /\ Survived /\ Answered /\ Waiting

LEMMA WaitsFinite ==
  ASSUME NEW r \in Caller
  PROVE  IsFiniteSet(Waits(r)) /\ Cardinality(Waits(r)) \in Nat
<1>1. Waits(r) \subseteq Peer
  BY DEF Waits
<1> QED
  BY <1>1, FS_Subset, FS_CardinalityType, RoutingAssumption

LEMMA RequestsInit == Init => Requests /\ BroadcastComplete
<1> SUFFICES ASSUME Init PROVE Requests /\ BroadcastComplete
  OBVIOUS
<1>1. /\ \A r \in Caller : phase[r] = "idle"
      /\ \A r \in Caller, p \in Peer :
           wire[r][p] = "none" /\ ran[r][p].reply = 0 /\ ran[r][p].timeout = 0
      /\ \A p \in Peer : timers[p] = {}
  BY DEF Init
<1>2. Armed /\ Pending /\ Untouched /\ Unsent /\ OnePeer /\ Survived /\ Answered /\ Waiting
  BY <1>1 DEF Armed, Pending, Untouched, Unsent, OnePeer, Survived, Answered, Waiting, Caller
<1>3. BroadcastComplete
  BY <1>1 DEF BroadcastComplete, Caller
<1> QED
  BY <1>2, <1>3 DEF Requests

LEMMA RequestsFrame ==
  ASSUME Requests, BroadcastComplete, UNCHANGED <<rpcVars, ansVars>>
  PROVE  Requests' /\ BroadcastComplete'
BY DEF Requests, Armed, Pending, Untouched, Unsent, OnePeer, Survived, Answered, Waiting,
       Waits, BroadcastComplete, rpcVars, ansVars

\* A call that has sent nothing moves on, and still sends nothing.
LEMMA RequestsMove ==
  ASSUME TypeOK, Requests, BroadcastComplete, NEW r \in Caller,
         phase[r] \in {"idle", "seeking", "local"},
         \/ phase' = [phase EXCEPT ![r] = "seeking"] /\ cut' = cut
         \/ phase' = [phase EXCEPT ![r] = "local"] /\ cut' = cut
         \/ phase' = [phase EXCEPT ![r] = "answered"] /\ cut' = cut
         \/ phase' = [phase EXCEPT ![r] = "answered"] /\ cut' = cut \cup {r},
         UNCHANGED <<rpcVars, missing, written, alive>>
  PROVE  Requests' /\ BroadcastComplete'
<1>1. /\ phase'[r] \in {"seeking", "local", "answered"}
      /\ \A q \in Caller : q # r => phase'[q] = phase[q]
  BY DEF TypeOK
<1>2. \A p \in Peer : wire[r][p] = "none"
  BY DEF Requests, Unsent
<1>3. cut \subseteq cut'
  OBVIOUS
<1>4. UNCHANGED <<callbacks, timers, wire, ran, missing, written, alive>>
  BY DEF rpcVars
<1>5. Armed' /\ Pending' /\ Untouched' /\ OnePeer'
  BY <1>4 DEF Requests, Armed, Pending, Untouched, OnePeer
<1>6. Unsent'
  BY <1>1, <1>2, <1>4 DEF Requests, Unsent
<1>7. Survived'
  BY <1>1, <1>2, <1>4 DEF Requests, Survived, Untouched
<1>8. Answered'
  BY <1>1, <1>2, <1>4 DEF Requests, Answered, Caller
<1>9. Waiting'
  BY <1>1, <1>4 DEF Requests, Waiting, Waits
<1>10. BroadcastComplete'
  <2> SUFFICES ASSUME NEW q \in Multi, phase'[q] = "answered", q \notin cut',
                      NEW p \in Peer, wire[q][p] # "none"
               PROVE  p \in written[q]
    BY <1>4 DEF BroadcastComplete
  <2>1. q # r /\ q \in Caller /\ q \notin cut
    BY <1>2, <1>3 DEF Caller
  <2> QED
    BY <1>1, <2>1 DEF BroadcastComplete
<1> QED
  BY <1>5, <1>6, <1>7, <1>8, <1>9, <1>10 DEF Requests

LEMMA RequestsAsk ==
  ASSUME TypeOK, Requests, BroadcastComplete, NEW r \in Caller, phase[r] = "seeking", alive,
         NEW P \in SUBSET Peer, P # {}, Ask(r, P), UNCHANGED <<written, cut, alive>>,
         r \in Single => \A p, q \in P : p = q,
         r \in Single => missing' = missing,
         r \in Multi => missing' = [missing EXCEPT ![r] = Cardinality(P)]
  PROVE  Requests' /\ BroadcastComplete'
<1>1. /\ phase'[r] = "remote" /\ ran' = ran
      /\ \A q \in Caller : q # r => phase'[q] = phase[q]
  BY DEF Ask, TypeOK
<1>2. \A p \in Peer : wire[r][p] = "none"
  BY DEF Requests, Unsent
<1>3. /\ \A p \in Peer : wire'[r][p] = IF p \notin P THEN "none"
                                       ELSE IF p \in InPool THEN "asked" ELSE "lost"
      /\ \A q \in Caller, p \in Peer : q # r => wire'[q][p] = wire[q][p]
  BY <1>2 DEF Ask, TypeOK
<1>4. /\ \A p \in Peer : r \in timers'[p] <=> p \in P
      /\ \A q \in Caller, p \in Peer : q # r => (q \in timers'[p] <=> q \in timers[p])
  <2>1. \A p \in Peer : r \notin timers[p]
    BY <1>2 DEF Requests, Armed
  <2> QED
    BY <2>1 DEF Ask, TypeOK
<1>5. \A p \in Peer : ran[r][p].reply = 0 /\ ran[r][p].timeout = 0
  BY <1>2 DEF Requests, Untouched
<1>6. Armed'
  BY <1>1, <1>3, <1>4, <1>5 DEF Requests, Armed
<1>7. Pending'
  BY <1>1, <1>3, <1>4, <1>5 DEF Requests, Pending
<1>8. Untouched'
  BY <1>1, <1>3, <1>5 DEF Requests, Untouched
<1>9. Unsent'
  BY <1>1, <1>3 DEF Requests, Unsent
<1>10. OnePeer'
  BY <1>3 DEF Requests, OnePeer, Caller
<1>11. Survived'
  BY <1>1, <1>3, <1>5 DEF Requests, Survived
<1>12. Answered'
  BY <1>1, <1>3 DEF Requests, Answered, Caller
<1>13. Waiting'
  <2> SUFFICES ASSUME NEW q \in Caller, phase'[q] = "remote"
               PROVE  /\ q \in Single => Waits(q)' # {}
                      /\ q \in Multi =>
                           /\ missing'[q] = Cardinality(Waits(q)')
                           /\ \A p \in Peer : wire'[q][p] = "used" => p \in written'[q]
    BY DEF Waiting
  <2>1. CASE q = r
    <3>1. Waits(q)' = P
      BY <1>4, <2>1 DEF Waits
    <3> QED
      BY <1>3, <2>1, <3>1 DEF TypeOK
  <2>2. CASE q # r
    <3>1. Waits(q)' = Waits(q) /\ phase[q] = "remote"
      BY <1>1, <1>4, <2>2 DEF Waits
    <3>2. q \in Multi => missing'[q] = missing[q]
      BY <2>2 DEF TypeOK, Caller
    <3> QED
      BY <1>3, <2>2, <3>1, <3>2 DEF Requests, Waiting
  <2> QED
    BY <2>1, <2>2
<1>14. BroadcastComplete'
  BY <1>1, <1>3 DEF BroadcastComplete, Caller
<1> QED
  BY <1>6, <1>7, <1>8, <1>9, <1>10, <1>11, <1>12, <1>13, <1>14 DEF Requests

\* A closed connection loses what is under way, and no timer.
LEMMA RequestsClose ==
  ASSUME TypeOK, Requests, BroadcastComplete, NEW p \in Peer, Close(p)
  PROVE  Requests' /\ BroadcastComplete'
<1>1. \A r \in Caller, q \in Peer :
        \/ wire'[r][q] = wire[r][q]
        \/ wire[r][q] = "asked" /\ wire'[r][q] = "lost"
  BY DEF Close, TypeOK
<1>2. UNCHANGED <<callbacks, timers, ran, phase, missing, written, cut, alive>>
  BY DEF Close, ansVars
<1>3. Armed' /\ Pending' /\ Untouched'
  BY <1>1, <1>2 DEF Requests, Armed, Pending, Untouched
<1>4. Unsent' /\ Survived'
  BY <1>1, <1>2 DEF Requests, Unsent, Survived
<1>5. OnePeer' /\ Answered'
  BY <1>1, <1>2 DEF Requests, OnePeer, Answered, Caller
<1>6. Waiting'
  BY <1>1, <1>2 DEF Requests, Waiting, Waits
<1>7. BroadcastComplete'
  BY <1>1, <1>2 DEF BroadcastComplete, Caller
<1> QED
  BY <1>3, <1>4, <1>5, <1>6, <1>7 DEF Requests

\* responses_nb counts the timers: a broadcast ends when nobody is waited for.
LEMMA RequestsEnd ==
  ASSUME TypeOK, Requests, BroadcastComplete, NEW r \in Caller, TheEnd(r)
  PROVE  Requests' /\ BroadcastComplete'
<1>1. /\ r \in Multi /\ phase[r] = "remote" /\ alive /\ missing[r] <= 0
      /\ phase'[r] = "answered" /\ \A q \in Caller : q # r => phase'[q] = phase[q]
      /\ UNCHANGED <<callbacks, timers, wire, ran, missing, written, cut, alive>>
  BY DEF TheEnd, TypeOK, rpcVars
<1>2. Waits(r) = {}
  <2>1. missing[r] = Cardinality(Waits(r))
    BY <1>1 DEF Requests, Waiting
  <2>2. Cardinality(Waits(r)) = 0
    BY <1>1, <2>1, WaitsFinite
  <2> QED
    BY <2>2, WaitsFinite, FS_EmptySet
<1>3. \A p \in Peer : wire[r][p] # "none" => p \in written[r]
  <2> SUFFICES ASSUME NEW p \in Peer, wire[r][p] # "none" PROVE p \in written[r]
    OBVIOUS
  <2>1. wire[r][p] \in {"asked", "lost", "used", "raised"}
    BY DEF TypeOK, Wire
  <2>2. wire[r][p] # "raised" /\ ~(ran[r][p].timeout > 0)
    BY <1>1 DEF Requests, Survived
  <2>3. wire[r][p] \notin {"asked", "lost"}
    BY <1>2, <2>2 DEF Requests, Pending, Waits
  <2>4. wire[r][p] = "used"
    BY <2>1, <2>2, <2>3
  <2> QED
    BY <1>1, <2>4 DEF Requests, Waiting
<1>4. Armed' /\ Pending' /\ Untouched' /\ OnePeer'
  BY <1>1 DEF Requests, Armed, Pending, Untouched, OnePeer
<1>5. Unsent' /\ Survived'
  BY <1>1 DEF Requests, Unsent, Survived
<1>6. Answered'
  BY <1>1, RoutingAssumption DEF Requests, Answered, Caller
<1>7. Waiting'
  BY <1>1 DEF Requests, Waiting, Waits
<1>8. BroadcastComplete'
  BY <1>1, <1>3 DEF BroadcastComplete, Caller
<1> QED
  BY <1>4, <1>5, <1>6, <1>7, <1>8 DEF Requests

\* What a reply does to the request, whatever its callback does then
LEMMA ReplyFacts ==
  ASSUME TypeOK, NEW r \in Caller, NEW p \in Peer, Reply(r, p)
  PROVE  /\ alive /\ wire[r][p] = "asked" /\ wire'[r][p] \in {"used", "raised"}
         /\ ran'[r][p].reply = ran[r][p].reply + 1 /\ ran'[r][p].timeout = ran[r][p].timeout
         /\ r \notin timers'[p]
         /\ wire'[r][p] = "raised" => Die
         /\ wire'[r][p] = "used" => RunGood(r, p)
         /\ \A q \in Caller, o \in Peer : q # r \/ o # p =>
              /\ wire'[q][o] = wire[q][o] /\ ran'[q][o] = ran[q][o]
              /\ q \in timers'[o] <=> q \in timers[o]
<1>1. /\ alive /\ wire[r][p] = "asked"
      /\ timers' = [timers EXCEPT ![p] = @ \ {r}]
      /\ ran' = [ran EXCEPT ![r][p].reply = @ + 1]
  BY DEF Reply, Cleared
<1>2. PICK k \in {"good", "bad"} :
        /\ wire' = [wire EXCEPT ![r][p] = IF k = "bad" THEN "raised" ELSE "used"]
        /\ IF Throws(k) THEN Die ELSE RunGood(r, p)
  BY DEF Reply
<1>3. /\ wire'[r][p] \in {"used", "raised"}
      /\ wire'[r][p] = "raised" => Die
      /\ wire'[r][p] = "used" => RunGood(r, p)
      /\ \A q \in Caller, o \in Peer : q # r \/ o # p => wire'[q][o] = wire[q][o]
  BY <1>2 DEF Throws, TypeOK
<1>4. /\ r \notin timers'[p]
      /\ \A q \in Caller, o \in Peer : q # r \/ o # p => (q \in timers'[o] <=> q \in timers[o])
  BY <1>1 DEF TypeOK
<1>5. /\ ran'[r][p].reply = ran[r][p].reply + 1 /\ ran'[r][p].timeout = ran[r][p].timeout
      /\ \A q \in Caller, o \in Peer : q # r \/ o # p => ran'[q][o] = ran[q][o]
  BY <1>1 DEF TypeOK, Runs
<1> QED
  BY <1>1, <1>3, <1>4, <1>5

\* A timer of r goes: what r waits for is one less.
LEMMA OneLess ==
  ASSUME TypeOK, NEW r \in Caller, NEW p \in Peer, r \in timers[p], r \notin timers'[p],
         \A q \in Caller, o \in Peer : q # r \/ o # p => (q \in timers'[o] <=> q \in timers[o])
  PROVE  /\ Cardinality(Waits(r)') = Cardinality(Waits(r)) - 1
         /\ \A q \in Caller : q # r => Waits(q)' = Waits(q)
<1>1. Waits(r)' = Waits(r) \ {p} /\ p \in Waits(r)
  BY DEF Waits
<1>2. \A q \in Caller : q # r => Waits(q)' = Waits(q)
  BY DEF Waits
<1> QED
  BY <1>1, <1>2, WaitsFinite, FS_RemoveElement

LEMMA RequestsReply ==
  ASSUME TypeOK, Requests, BroadcastComplete, NEW r \in Caller, NEW p \in Peer, Reply(r, p)
  PROVE  Requests' /\ BroadcastComplete'
<1> DEFINE Others == \A q \in Caller, o \in Peer : q # r \/ o # p =>
              /\ wire'[q][o] = wire[q][o] /\ ran'[q][o] = ran[q][o]
              /\ q \in timers'[o] <=> q \in timers[o]
<1>1. /\ alive /\ wire[r][p] = "asked" /\ wire'[r][p] \in {"used", "raised"}
      /\ r \notin timers'[p] /\ ran'[r][p].timeout = ran[r][p].timeout
      /\ Others
  BY ReplyFacts
<1>2. phase[r] \in {"remote", "answered"}
  <2>1. phase[r] \in {"idle", "seeking", "local", "remote", "answered"}
    BY DEF TypeOK
  <2>2. wire[r][p] # "none"
    BY <1>1
  <2> QED
    BY <2>1, <2>2 DEF Requests, Unsent
<1>3. Armed' /\ Pending' /\ Untouched'
  BY <1>1 DEF Requests, Armed, Pending, Untouched
<1>4. OnePeer'
  BY <1>1 DEF Requests, OnePeer, Caller
<1>5. CASE Die
  <2>1. ~alive' /\ UNCHANGED <<phase, missing, written, cut>>
    BY <1>5 DEF Die
  <2>2. Unsent' /\ Survived' /\ Waiting'
    BY <1>1, <1>2, <2>1 DEF Requests, Unsent, Survived, Waiting
  <2>3. Answered'
    BY <1>1, <2>1 DEF Requests, Answered, Caller
  <2>4. BroadcastComplete'
    BY <1>1, <2>1 DEF BroadcastComplete, Caller
  <2> QED
    BY <1>3, <1>4, <2>2, <2>3, <2>4 DEF Requests
<1>6. CASE ~Die /\ wire'[r][p] = "used" /\ r \in Single
  <2>1. RunGood(r, p)
    BY <1>6, ReplyFacts
  <2>2. /\ phase' = [phase EXCEPT ![r] = "answered"] /\ phase[r] # "answered"
        /\ UNCHANGED <<missing, written, cut, alive>>
    BY <1>6, <2>1 DEF RunGood
  <2>3. phase'[r] = "answered" /\ \A q \in Caller : q # r => phase'[q] = phase[q]
    BY <2>2 DEF TypeOK
  <2>4. Unsent' /\ Survived'
    BY <1>1, <1>6, <2>2, <2>3 DEF Requests, Unsent, Survived
  <2>5. Answered'
    <3>1. \A o \in Peer : o # p => wire'[r][o] = "none"
      BY <1>1, <1>6 DEF Requests, OnePeer
    <3> QED
      BY <1>1, <1>6, <2>3, <3>1 DEF Requests, Answered, Caller
  <2>6. Waiting'
    <3>1. \A q \in Caller : q # r => Waits(q)' = Waits(q)
      BY <1>1 DEF Waits
    <3> QED
      BY <1>1, <2>2, <2>3, <3>1 DEF Requests, Waiting
  <2>7. BroadcastComplete'
    BY <1>1, <1>6, <2>2, <2>3, RoutingAssumption DEF BroadcastComplete, Caller
  <2> QED
    BY <1>3, <1>4, <2>4, <2>5, <2>6, <2>7 DEF Requests
<1>7. CASE ~Die /\ wire'[r][p] = "used" /\ r \notin Single
  <2>1. RunGood(r, p) /\ r \in Multi
    BY <1>7, ReplyFacts DEF Caller
  <2>2. /\ missing' = [missing EXCEPT ![r] = @ - 1]
        /\ phase[r] # "answered" => written' = [written EXCEPT ![r] = @ \cup {p}]
        /\ phase[r] = "answered" => written' = written
        /\ UNCHANGED <<phase, cut, alive>>
    BY <1>7, <2>1 DEF RunGood
  <2>3. /\ missing'[r] = missing[r] - 1
        /\ \A q \in Multi : q # r => missing'[q] = missing[q]
        /\ \A q \in Multi : written[q] \subseteq written'[q]
        /\ phase[r] # "answered" => p \in written'[r]
        /\ \A q \in Multi : q # r => written'[q] = written[q]
    BY <2>1, <2>2 DEF TypeOK
  <2>4. Unsent' /\ Survived'
    BY <1>1, <1>2, <1>7, <2>2 DEF Requests, Unsent, Survived
  <2>5. Answered'
    BY <1>1, <1>7, <2>2 DEF Requests, Answered, Caller
  <2>6. Waiting'
    <3> SUFFICES ASSUME NEW q \in Caller, phase[q] = "remote"
                 PROVE  /\ q \in Single => Waits(q)' # {}
                        /\ q \in Multi =>
                             /\ missing'[q] = Cardinality(Waits(q)')
                             /\ \A o \in Peer : wire'[q][o] = "used" => o \in written'[q]
      BY <2>2 DEF Waiting
    <3>1. CASE q = r
      <4>1. r \in timers[p]
        BY <1>1, <3>1 DEF Requests, Pending, Survived
      <4>2. Cardinality(Waits(r)') = Cardinality(Waits(r)) - 1
        BY <1>1, <4>1, OneLess
      <4>3. missing[r] = Cardinality(Waits(r))
        BY <1>1, <2>1, <3>1 DEF Requests, Waiting
      <4>4. \A o \in Peer : wire'[r][o] = "used" => o \in written'[r]
        BY <1>1, <2>1, <2>3, <3>1 DEF Requests, Waiting
      <4> QED
        BY <1>7, <2>1, <2>3, <3>1, <4>2, <4>3, <4>4
    <3>2. CASE q # r
      <4>1. Waits(q)' = Waits(q)
        BY <1>1, <3>2 DEF Waits
      <4> QED
        BY <1>1, <2>3, <3>2, <4>1 DEF Requests, Waiting
    <3> QED
      BY <3>1, <3>2
  <2>7. BroadcastComplete'
    BY <1>1, <2>2, <2>3 DEF BroadcastComplete, Caller
  <2> QED
    BY <1>3, <1>4, <2>4, <2>5, <2>6, <2>7 DEF Requests
<1> QED
  BY <1>1, <1>5, <1>6, <1>7, ReplyFacts

LEMMA RequestsTimeout ==
  ASSUME TypeOK, Requests, BroadcastComplete, NEW r \in Caller, NEW p \in Peer, Timeout(r, p)
  PROVE  Requests' /\ BroadcastComplete'
<1>1. /\ alive /\ r \in timers[p] /\ r \notin timers'[p] /\ UNCHANGED wire
      /\ ran'[r][p].reply = ran[r][p].reply
      /\ ran'[r][p].timeout = ran[r][p].timeout + 1 /\ ran'[r][p].timeout > 0
      /\ \A q \in Caller, o \in Peer : q # r \/ o # p =>
           ran'[q][o] = ran[q][o] /\ (q \in timers'[o] <=> q \in timers[o])
  <2>1. /\ alive /\ r \in timers[p] /\ UNCHANGED wire
        /\ timers' = [timers EXCEPT ![p] = @ \ {r}]
        /\ ran' = [ran EXCEPT ![r][p].timeout = @ + 1]
    BY DEF Timeout, Cleared
  <2>2. ran[r][p].timeout \in Nat
    BY DEF TypeOK, Runs
  <2>3. /\ r \notin timers'[p]
        /\ \A q \in Caller, o \in Peer :
             q # r \/ o # p => (q \in timers'[o] <=> q \in timers[o])
    BY <2>1 DEF TypeOK
  <2>4. /\ ran'[r][p].reply = ran[r][p].reply
        /\ ran'[r][p].timeout = ran[r][p].timeout + 1
        /\ \A q \in Caller, o \in Peer : q # r \/ o # p => ran'[q][o] = ran[q][o]
    BY <2>1 DEF TypeOK, Runs
  <2> QED
    BY <2>1, <2>2, <2>3, <2>4
<1>2. wire[r][p] \in {"asked", "lost"} /\ phase[r] \in {"remote", "answered"}
  BY <1>1 DEF Requests, Armed, Unsent, TypeOK
<1>3. Armed' /\ Pending' /\ Untouched'
  BY <1>1, <1>2 DEF Requests, Armed, Pending, Untouched
<1>4. OnePeer'
  BY <1>1 DEF Requests, OnePeer
<1>5. CASE Die
  <2>1. ~alive' /\ UNCHANGED <<phase, missing, written, cut>>
    BY <1>5 DEF Die
  <2>2. Unsent' /\ Survived' /\ Waiting'
    BY <1>1, <2>1 DEF Requests, Unsent, Survived, Waiting
  <2>3. Answered'
    BY <1>1, <2>1 DEF Requests, Answered, Caller
  <2>4. BroadcastComplete'
    BY <1>1, <2>1 DEF BroadcastComplete
  <2> QED
    BY <1>3, <1>4, <2>2, <2>3, <2>4 DEF Requests
<1>6. CASE ~Die
  <2>1. /\ phase' = [phase EXCEPT ![r] = "answered"]
        /\ cut' = IF phase[r] = "answered" THEN cut ELSE cut \cup {r}
        /\ missing' = [q \in Multi |-> IF q = r THEN missing[q] - 1 ELSE missing[q]]
        /\ UNCHANGED <<written, alive>>
    BY <1>6 DEF Timeout
  <2>2. phase'[r] = "answered" /\ \A q \in Caller : q # r => phase'[q] = phase[q]
    BY <2>1 DEF TypeOK
  <2>3. Unsent' /\ Survived'
    BY <1>1, <1>2, <2>1, <2>2 DEF Requests, Unsent, Survived
  <2>4. Answered'
    <3>1. r \in Single => \A o \in Peer : o # p => wire[r][o] = "none"
      BY <1>2 DEF Requests, OnePeer
    <3> QED
      BY <1>1, <2>2, <3>1 DEF Requests, Answered, Caller
  <2>5. Waiting'
    <3>1. \A q \in Caller : q # r => Waits(q)' = Waits(q)
      BY <1>1 DEF Waits
    <3>2. \A q \in Multi : q # r => missing'[q] = missing[q]
      BY <2>1
    <3> QED
      BY <1>1, <2>1, <2>2, <3>1, <3>2 DEF Requests, Waiting
  <2>6. BroadcastComplete'
    BY <1>1, <2>1, <2>2 DEF BroadcastComplete, Caller
  <2> QED
    BY <1>3, <1>4, <2>3, <2>4, <2>5, <2>6 DEF Requests
<1> QED
  BY <1>5, <1>6

\* Each way of looking for a peer either moves on or asks.
LEMMA RequestsLook ==
  ASSUME TypeOK, Requests, BroadcastComplete, NEW r \in Caller, Look(r)
  PROVE  Requests' /\ BroadcastComplete'
<1> DEFINE e == peer_list[Position]
<1>1. alive /\ r \in Single /\ r \notin Multi /\ phase[r] = "seeking"
  BY RoutingAssumption DEF Look
<1>2. e \in Entry
  <2>1. Position \in 1 .. Len(peer_list)
    BY DEF Look, Position, TypeOK
  <2> QED
    BY <2>1 DEF TypeOK
<1>3. \/ UNCHANGED <<rpcVars, ansVars>>
      \/ AnswerError(r)
      \/ /\ phase' = [phase EXCEPT ![r] = "local"]
         /\ UNCHANGED <<rpcVars, missing, written, cut, alive>>
      \/ /\ e.peer \in Peer /\ Ask(r, {e.peer})
         /\ UNCHANGED <<missing, written, cut, alive>>
  BY <1>2 DEF Look, Entry
<1> HIDE DEF e
<1>4. CASE UNCHANGED <<rpcVars, ansVars>>
  BY <1>4, RequestsFrame
<1>5. CASE AnswerError(r)
  BY <1>1, <1>5, RequestsMove DEF AnswerError
<1>6. CASE /\ phase' = [phase EXCEPT ![r] = "local"]
           /\ UNCHANGED <<rpcVars, missing, written, cut, alive>>
  BY <1>1, <1>6, RequestsMove
<1>7. CASE /\ e.peer \in Peer /\ Ask(r, {e.peer})
           /\ UNCHANGED <<missing, written, cut, alive>>
  <2>1. {e.peer} \in SUBSET Peer /\ {e.peer} # {} /\ \A p, q \in {e.peer} : p = q
    BY <1>7
  <2> QED
    BY <1>1, <1>7, <2>1, RequestsAsk
<1> QED
  BY <1>3, <1>4, <1>5, <1>6, <1>7

LEMMA RequestsLookAll ==
  ASSUME TypeOK, Requests, BroadcastComplete, NEW r \in Caller, LookAll(r)
  PROVE  Requests' /\ BroadcastComplete'
<1> DEFINE P == ReadyPeers
<1>1. alive /\ r \in Multi /\ r \notin Single /\ phase[r] = "seeking"
  BY RoutingAssumption DEF LookAll
<1>2. P \in SUBSET Peer
  BY DEF ReadyPeers
<1>3. \/ UNCHANGED <<rpcVars, ansVars>>
      \/ AnswerError(r)
      \/ /\ P # {} /\ Ask(r, P) /\ missing' = [missing EXCEPT ![r] = Cardinality(P)]
         /\ UNCHANGED <<written, cut, alive>>
  BY DEF LookAll, CountPeers
<1> HIDE DEF P
<1>4. CASE UNCHANGED <<rpcVars, ansVars>>
  BY <1>4, RequestsFrame
<1>5. CASE AnswerError(r)
  BY <1>1, <1>5, RequestsMove DEF AnswerError
<1>6. CASE /\ P # {} /\ Ask(r, P) /\ missing' = [missing EXCEPT ![r] = Cardinality(P)]
           /\ UNCHANGED <<written, cut, alive>>
  BY <1>1, <1>2, <1>6, RequestsAsk
<1> QED
  BY <1>3, <1>4, <1>5, <1>6

LEMMA RequestsStep ==
  TypeOK /\ Requests /\ BroadcastComplete /\ [Next]_vars => Requests' /\ BroadcastComplete'
<1> SUFFICES ASSUME TypeOK, Requests, BroadcastComplete, [Next]_vars
             PROVE  Requests' /\ BroadcastComplete'
  OBVIOUS
<1>1. ASSUME NEW p \in Peer, Connect(p) \/ PeerSynced(p)
      PROVE  Requests' /\ BroadcastComplete'
  BY <1>1, RequestsFrame DEF Connect, PeerSynced
<1>2. CASE TasksInit \/ TasksStarted \/ CachePeerList
  BY <1>2, RequestsFrame DEF TasksInit, TasksStarted, CachePeerList
<1>3. ASSUME NEW r \in Caller, Route(r) \/ Broadcast(r)
      PROVE  Requests' /\ BroadcastComplete'
  BY <1>3, RequestsMove DEF Route, Broadcast
<1>4. ASSUME NEW r \in Caller, GiveUp(r) PROVE Requests' /\ BroadcastComplete'
  BY <1>4, RequestsMove DEF GiveUp, AnswerError
<1>5. ASSUME NEW r \in Caller, LookNone(r) PROVE Requests' /\ BroadcastComplete'
  BY <1>5, RequestsFrame DEF LookNone
<1>6. ASSUME NEW r \in Caller, LocalDone(r) PROVE Requests' /\ BroadcastComplete'
  BY <1>6, RequestsMove DEF LocalDone
<1>7. CASE UNCHANGED vars
  BY <1>7, RequestsFrame DEF vars
<1> QED
  BY <1>1, <1>2, <1>3, <1>4, <1>5, <1>6, <1>7, RequestsClose, RequestsEnd, RequestsReply,
     RequestsTimeout, RequestsLook, RequestsLookAll DEF Next, Environment, Step

\* What holds of all requests in every state; the other theorems are read off it.
THEOREM RequestsCorrect == Spec => [](TypeOK /\ Requests /\ BroadcastComplete)
<1>1. Init => TypeOK /\ Requests /\ BroadcastComplete
  BY TypeInit, RequestsInit
<1>2. TypeOK /\ Requests /\ BroadcastComplete /\ [Next]_vars
        => (TypeOK /\ Requests /\ BroadcastComplete)'
  BY TypeStep, RequestsStep
<1> QED
  BY <1>1, <1>2, PTL DEF Spec

\* A broadcast that is not cut off brings the answers of all it was sent to.
THEOREM BroadcastsComplete == Spec => []BroadcastComplete
<1> QED
  BY RequestsCorrect, PTL

\* A call that waits for peers has a timer running, or is about to be answered:
\* the timers armed for it are exactly as many as the answers still missing.
THEOREM NoCallForgotten == Spec => []NoCallIsForgotten
<1>1. TypeOK /\ Requests => NoCallIsForgotten
  <2> SUFFICES ASSUME TypeOK, Requests, NEW r \in Caller, alive, phase[r] = "remote",
                      \A p \in Peer : r \notin timers[p]
               PROVE  r \in Multi /\ missing[r] <= 0
    BY DEF NoCallIsForgotten
  <2>1. Waits(r) = {}
    BY DEF Waits
  <2>2. r \in Multi /\ missing[r] = Cardinality(Waits(r))
    BY <2>1 DEF Requests, Waiting, Caller
  <2> QED
    BY <2>1, <2>2, FS_EmptySet
<1> QED
  BY <1>1, RequestsCorrect, PTL

\* The process dies of an answer that is an error or of a timeout, and of nothing
\* else: the step in which it dies runs a callback, and res.send runs twice for a
\* call only after a timeout.
THEOREM CrashesHaveCause == Spec => []CrashHasCause
<1>1. Init => CrashHasCause
  BY DEF Init, CrashHasCause
<1>2. TypeOK /\ Requests /\ CrashHasCause /\ [Next]_vars => CrashHasCause'
  <2> SUFFICES ASSUME TypeOK, Requests, CrashHasCause, [Next]_vars, ~alive'
               PROVE  \E r \in Caller, p \in Peer :
                        wire'[r][p] = "raised" \/ ran'[r][p].timeout > 0
    BY DEF CrashHasCause
  <2>1. CASE ~alive
    <3>1. UNCHANGED <<wire, ran>>
      BY <2>1 DEF Next, Environment, Step, Connect, Close, PeerSynced, TasksInit,
           TasksStarted, Change, CachePeerList, Route, Broadcast, GiveUp, Look, LookNone,
           LookAll, LocalDone, TheEnd, Reply, Timeout, vars, rpcVars
    <3> QED
      BY <2>1, <3>1 DEF CrashHasCause
  <2>2. CASE alive
    <3>1. PICK r \in Caller, p \in Peer : Reply(r, p) \/ Timeout(r, p)
      BY <2>2 DEF Next, Environment, Step, Connect, Close, PeerSynced, TasksInit,
           TasksStarted, CachePeerList, Route, Broadcast, GiveUp, Look, LookNone,
           LookAll, LocalDone, TheEnd, AnswerError, vars, ansVars
    <3>2. CASE Reply(r, p)
      <4>1. CASE wire'[r][p] = "raised"
        BY <4>1
      <4>2. CASE wire'[r][p] = "used"
        <5>1. /\ RunGood(r, p) /\ wire[r][p] = "asked"
              /\ ran'[r][p].timeout = ran[r][p].timeout
          BY <3>2, <4>2, ReplyFacts
        <5>2. r \in Single /\ phase[r] = "answered"
          BY <2>2, <5>1 DEF RunGood
        <5>3. ran[r][p].timeout > 0
          BY <5>1, <5>2 DEF Requests, Answered
        <5> QED
          BY <5>1, <5>3
      <4> QED
        BY <3>2, <4>1, <4>2, ReplyFacts
    <3>3. CASE Timeout(r, p)
      <4>1. ran' = [ran EXCEPT ![r][p].timeout = @ + 1]
        BY <3>3 DEF Timeout
      <4>2. ran[r][p].timeout \in Nat /\ ran'[r][p].timeout = ran[r][p].timeout + 1
        BY <4>1 DEF TypeOK, Runs
      <4> QED
        BY <4>2
    <3> QED
      BY <3>1, <3>2, <3>3
  <2> QED
    BY <2>1, <2>2
<1> QED
  BY <1>1, <1>2, RequestsCorrect, PTL DEF Spec

----------------------------------------------------------------------------
(* The table of callbacks and the timers implement the abstract request.      *)

LEMMA RequestedAt ==
  ASSUME NEW r \in Caller, NEW p \in Peer
  PROVE  /\ <<r, p>> \in Requested <=> wire[r][p] # "none"
         /\ Replies[<<r, p>>] = ran[r][p].reply /\ Timeouts[<<r, p>>] = ran[r][p].timeout
BY DEF Requested, Replies, Timeouts

\* A step over which the requests look the same
LEMMA SameRequests ==
  ASSUME \A r \in Caller, p \in Peer :
           (wire'[r][p] # "none" <=> wire[r][p] # "none") /\ ran'[r][p] = ran[r][p]
  PROVE  UNCHANGED <<Requested, Replies, Timeouts>>
<1>1. \A x \in Caller \X Peer : x[1] \in Caller /\ x[2] \in Peer
  OBVIOUS
<1>2. UNCHANGED Requested
  BY <1>1 DEF Requested
<1>3. UNCHANGED <<Replies, Timeouts>>
  BY <1>1 DEF Replies, Timeouts
<1> QED
  BY <1>2, <1>3

\* Ask of Routing is Ask of Rpc for the requests of r over the routers P.
LEMMA AskImplements ==
  ASSUME TypeOK, Requests, NEW r \in Caller, phase[r] = "seeking", NEW P \in SUBSET Peer,
         Ask(r, P)
  PROVE  Promise!Ask({r} \X P)
<1>1. \A p \in Peer : wire[r][p] = "none"
  BY DEF Requests, Unsent
<1>2. ({r} \X P) \cap Requested = {}
  BY <1>1 DEF Requested
<1>3. /\ \A p \in Peer : wire'[r][p] # "none" <=> p \in P
      /\ \A q \in Caller, p \in Peer : q # r => wire'[q][p] = wire[q][p]
  BY <1>1 DEF Ask, TypeOK
<1>4. Requested' = Requested \cup ({r} \X P)
  <2>1. ASSUME NEW q \in Caller, NEW p \in Peer
        PROVE  <<q, p>> \in Requested' <=> <<q, p>> \in Requested \cup ({r} \X P)
    BY <1>1, <1>3 DEF Requested
  <2>2. Requested' \subseteq Caller \X Peer /\ Requested \cup ({r} \X P) \subseteq Caller \X Peer
    BY DEF Requested
  <2> QED
    BY <2>1, <2>2
<1>5. UNCHANGED <<Replies, Timeouts>>
  BY DEF Ask, Replies, Timeouts
<1> QED
  BY <1>2, <1>4, <1>5 DEF Promise!Ask

LEMMA ReplyImplements ==
  ASSUME TypeOK, Requests, NEW r \in Caller, NEW p \in Peer, Reply(r, p)
  PROVE  Promise!Reply(<<r, p>>)
<1>1. /\ wire[r][p] = "asked" /\ wire'[r][p] \in {"used", "raised"}
      /\ ran'[r][p].reply = ran[r][p].reply + 1 /\ ran'[r][p].timeout = ran[r][p].timeout
      /\ \A q \in Caller, o \in Peer : q # r \/ o # p =>
           wire'[q][o] = wire[q][o] /\ ran'[q][o] = ran[q][o]
  BY ReplyFacts
<1>2. ran[r][p].reply = 0 /\ ran'[r][p].reply = 1
  BY <1>1 DEF Requests, Pending
<1>3. <<r, p>> \in Requested /\ Replies[<<r, p>>] = 0
  BY <1>1, <1>2, RequestedAt
<1>4. Requested' = Requested
  <2>1. \A q \in Caller, o \in Peer : wire'[q][o] # "none" <=> wire[q][o] # "none"
    BY <1>1
  <2> QED
    BY <2>1 DEF Requested
<1>5. Timeouts' = Timeouts
  <2>1. \A q \in Caller, o \in Peer : ran'[q][o].timeout = ran[q][o].timeout
    BY <1>1
  <2> QED
    BY <2>1 DEF Timeouts
<1>6. Replies' = [Replies EXCEPT ![<<r, p>>] = 1]
  <2>1. \A x \in Caller \X Peer : x # <<r, p>> => x[1] # r \/ x[2] # p
    OBVIOUS
  <2>2. \A x \in Caller \X Peer :
          ran'[x[1]][x[2]].reply = IF x = <<r, p>> THEN 1 ELSE ran[x[1]][x[2]].reply
    BY <1>1, <1>2, <2>1
  <2> QED
    BY <2>2 DEF Replies
<1> QED
  BY <1>3, <1>4, <1>5, <1>6 DEF Promise!Reply

LEMMA TimeoutImplements ==
  ASSUME TypeOK, Requests, NEW r \in Caller, NEW p \in Peer, Timeout(r, p)
  PROVE  Promise!Expire(<<r, p>>)
<1>1. r \in timers[p] /\ wire' = wire /\ ran' = [ran EXCEPT ![r][p].timeout = @ + 1]
  BY DEF Timeout
<1>2. /\ wire[r][p] \in {"asked", "lost"}
      /\ ran[r][p].reply = 0 /\ ran[r][p].timeout = 0
  BY <1>1 DEF Requests, Armed
<1>3. /\ ran'[r][p].timeout = 1
      /\ \A q \in Caller, o \in Peer : ran'[q][o].reply = ran[q][o].reply
      /\ \A q \in Caller, o \in Peer : q # r \/ o # p => ran'[q][o] = ran[q][o]
  BY <1>1, <1>2 DEF TypeOK, Runs
<1>4. <<r, p>> \in Requested /\ Replies[<<r, p>>] = 0 /\ Timeouts[<<r, p>>] = 0
  BY <1>2, RequestedAt
<1>5. Requested' = Requested /\ Replies' = Replies
  BY <1>1, <1>3 DEF Requested, Replies
<1>6. Timeouts' = [Timeouts EXCEPT ![<<r, p>>] = 1]
  <2>1. \A x \in Caller \X Peer : x # <<r, p>> => x[1] # r \/ x[2] # p
    OBVIOUS
  <2>2. \A x \in Caller \X Peer :
          ran'[x[1]][x[2]].timeout = IF x = <<r, p>> THEN 1 ELSE ran[x[1]][x[2]].timeout
    BY <1>3, <2>1
  <2> QED
    BY <2>2 DEF Timeouts
<1> QED
  BY <1>4, <1>5, <1>6 DEF Promise!Expire

LEMMA StepImplements ==
  TypeOK /\ Requests /\ [Next]_vars => [Promise!Next]_<<Requested, Replies, Timeouts>>
<1> SUFFICES ASSUME TypeOK, Requests, [Next]_vars
             PROVE  Promise!Next \/ UNCHANGED <<Requested, Replies, Timeouts>>
  OBVIOUS
<1>1. CASE UNCHANGED <<wire, ran>>
  BY <1>1 DEF Requested, Replies, Timeouts
<1>2. ASSUME NEW p \in Peer, Close(p) PROVE UNCHANGED <<Requested, Replies, Timeouts>>
  <2>1. ran' = ran /\ \A r \in Caller, q \in Peer :
          \/ wire'[r][q] = wire[r][q]
          \/ wire[r][q] = "asked" /\ wire'[r][q] = "lost"
    BY <1>2 DEF Close, TypeOK
  <2> QED
    BY <2>1, SameRequests
<1>3. ASSUME NEW r \in Caller, NEW P \in SUBSET Peer, phase[r] = "seeking", Ask(r, P)
      PROVE  Promise!Next
  <2>1. Promise!Ask({r} \X P) /\ {r} \X P \in SUBSET (Caller \X Peer)
    BY <1>3, AskImplements
  <2> QED
    BY <2>1 DEF Promise!Next
<1>4. ASSUME NEW r \in Caller, NEW p \in Peer, Reply(r, p) PROVE Promise!Next
  BY <1>4, ReplyImplements DEF Promise!Next
<1>5. ASSUME NEW r \in Caller, NEW p \in Peer, Timeout(r, p) PROVE Promise!Next
  BY <1>5, TimeoutImplements DEF Promise!Next
<1>6. ASSUME NEW r \in Caller, LookAll(r), ~UNCHANGED <<wire, ran>> PROVE Promise!Next
  <2>1. phase[r] = "seeking" /\ Ask(r, ReadyPeers) /\ ReadyPeers \in SUBSET Peer
    BY <1>6 DEF LookAll, AnswerError, rpcVars, ReadyPeers
  <2> QED
    BY <1>3, <2>1
<1>7. ASSUME NEW r \in Caller, Look(r), ~UNCHANGED <<wire, ran>> PROVE Promise!Next
  <2>1. Position \in 1 .. Len(peer_list)
    BY <1>7 DEF Look, Position, TypeOK
  <2>2. peer_list[Position] \in Entry
    BY <2>1 DEF TypeOK
  <2>3. /\ phase[r] = "seeking" /\ Ask(r, {peer_list[Position].peer})
        /\ peer_list[Position].peer # None
    BY <1>7 DEF Look, AnswerError, rpcVars
  <2>4. {peer_list[Position].peer} \in SUBSET Peer
    BY <2>2, <2>3 DEF Entry
  <2> QED
    BY <1>3, <2>3, <2>4
<1>8. \/ UNCHANGED <<wire, ran>>
      \/ \E p \in Peer : Close(p)
      \/ \E r \in Caller : LookAll(r) \/ Look(r) \/ \E p \in Peer : Reply(r, p) \/ Timeout(r, p)
  BY DEF Next, Environment, Step, Connect, PeerSynced, TasksInit, TasksStarted,
     CachePeerList, Route, Broadcast, GiveUp, LookNone, LocalDone, TheEnd, AnswerError,
     vars, rpcVars
<1> QED
  BY <1>1, <1>2, <1>4, <1>5, <1>6, <1>7, <1>8

\* The requests of the socket router, as the load balancer uses them, implement
\* Rpc: for every request the callback runs once for the reply, once for the
\* timeout, and not for the timeout after the reply.
THEOREM RouterImplementsRpc == Spec => RouterKeepsPromise
<1>1. Init => Promise!Init
  <2> SUFFICES ASSUME Init PROVE Promise!Init
    OBVIOUS
  <2>1. \A r \in Caller, p \in Peer :
          wire[r][p] = "none" /\ ran[r][p].reply = 0 /\ ran[r][p].timeout = 0
    BY DEF Init
  <2>2. Requested = {}
    BY <2>1 DEF Requested
  <2>3. Replies = Promise!Never /\ Timeouts = Promise!Never
    BY <2>1 DEF Replies, Timeouts, Promise!Never
  <2> QED
    BY <2>2, <2>3 DEF Promise!Init
<1> QED
  BY <1>1, StepImplements, RequestsCorrect, PTL DEF Spec, RouterKeepsPromise, Promise!Spec

\* A call for one peer is listed as processing exactly while a task manager has it.
THEOREM ProcessingCorrect == Spec => []ProcessingIsTrue
<1>1. Init => ProcessingIsTrue
  BY DEF Init, ProcessingIsTrue, Caller
<1>2. TypeOK /\ Requests /\ ProcessingIsTrue /\ [Next]_vars => ProcessingIsTrue'
  <2> SUFFICES ASSUME TypeOK, Requests, ProcessingIsTrue, [Next]_vars, alive',
                      NEW r \in Single
               PROVE  r \in processing' <=> phase'[r] \in {"local", "remote"}
    BY DEF ProcessingIsTrue
  <2>1. r \in Caller
    BY DEF Caller
  <2>2. CASE UNCHANGED <<phase, processing, alive>>
    BY <2>2 DEF ProcessingIsTrue
  <2>3. ASSUME NEW q \in Caller, phase[q] \in {"idle", "seeking"}, alive,
               processing' = processing, phase' = [phase EXCEPT ![q] = "seeking"]
                                      \/ phase' = [phase EXCEPT ![q] = "answered"]
        PROVE  r \in processing' <=> phase'[r] \in {"local", "remote"}
    BY <2>1, <2>3 DEF ProcessingIsTrue, TypeOK
  <2>4. ASSUME NEW q \in Caller, alive, processing' = processing \cup {q},
               phase' = [phase EXCEPT ![q] = "local"] \/ phase' = [phase EXCEPT ![q] = "remote"]
        PROVE  r \in processing' <=> phase'[r] \in {"local", "remote"}
    BY <2>1, <2>4 DEF ProcessingIsTrue, TypeOK
  <2>5. ASSUME NEW q \in Caller, alive, processing' = processing \ {q},
               phase' = [phase EXCEPT ![q] = "answered"] \/ (phase' = phase /\ q \in Multi)
        PROVE  r \in processing' <=> phase'[r] \in {"local", "remote"}
    BY <2>1, <2>5, RoutingAssumption DEF ProcessingIsTrue, TypeOK
  <2>6. ASSUME NEW q \in Caller, NEW p \in Peer, Reply(q, p)
        PROVE  r \in processing' <=> phase'[r] \in {"local", "remote"}
    <3>1. alive /\ ~Die /\ RunGood(q, p) /\ processing' = processing \ {q}
      BY <2>6, ReplyFacts DEF Reply, Die, Processed
    <3>2. phase' = [phase EXCEPT ![q] = "answered"] \/ (phase' = phase /\ q \in Multi)
      BY <3>1 DEF RunGood, Caller
    <3> QED
      BY <2>5, <3>1, <3>2, Zenon
  <2>7. ASSUME NEW q \in Caller, NEW p \in Peer, Timeout(q, p)
        PROVE  r \in processing' <=> phase'[r] \in {"local", "remote"}
    <3>1. /\ alive /\ processing' = processing \ {q}
          /\ phase' = [phase EXCEPT ![q] = "answered"]
      BY <2>7 DEF Timeout, Die, Processed
    <3> QED
      BY <2>5, <3>1, Zenon
  <2>8. ASSUME NEW q \in Caller, Look(q) \/ LookAll(q)
        PROVE  r \in processing' <=> phase'[r] \in {"local", "remote"}
    <3>1. \/ UNCHANGED ansVars
          \/ AnswerError(q)
          \/ /\ processing' = processing \cup {q}
             /\ phase' = [phase EXCEPT ![q] = "local"] \/ phase' = [phase EXCEPT ![q] = "remote"]
      BY <2>8 DEF Look, LookAll, Ask
    <3>2. alive /\ phase[q] = "seeking"
      BY <2>8 DEF Look, LookAll
    <3> QED
      BY <2>2, <2>3, <2>4, <3>1, <3>2 DEF AnswerError, ansVars
  <2>9. ASSUME NEW q \in Caller, Route(q) \/ Broadcast(q) \/ GiveUp(q)
        PROVE  r \in processing' <=> phase'[r] \in {"local", "remote"}
    BY <2>3, <2>9 DEF Route, Broadcast, GiveUp, AnswerError
  <2>10. ASSUME NEW q \in Caller, LocalDone(q)
         PROVE  r \in processing' <=> phase'[r] \in {"local", "remote"}
    <3>1. /\ alive /\ processing' = processing \ {q}
          /\ phase' = [phase EXCEPT ![q] = "answered"]
      BY <2>10 DEF LocalDone, Processed
    <3> QED
      BY <2>5, <3>1, Zenon
  <2>11. ASSUME NEW q \in Caller, TheEnd(q)
         PROVE  r \in processing' <=> phase'[r] \in {"local", "remote"}
    <3>1. q # r /\ alive /\ processing' = processing /\ phase' = [phase EXCEPT ![q] = "answered"]
      BY <2>11, RoutingAssumption DEF TheEnd
    <3> QED
      BY <2>1, <3>1 DEF ProcessingIsTrue, TypeOK
  <2>12. \/ UNCHANGED <<phase, processing, alive>>
         \/ \E q \in Caller :
              \/ Look(q) \/ LookAll(q) \/ Route(q) \/ Broadcast(q) \/ GiveUp(q)
              \/ LocalDone(q) \/ TheEnd(q) \/ \E p \in Peer : Reply(q, p) \/ Timeout(q, p)
    BY DEF Next, Environment, Step, Connect, Close, PeerSynced, TasksInit, TasksStarted,
       CachePeerList, LookNone, vars, ansVars
  <2> QED
    BY <2>2, <2>6, <2>7, <2>8, <2>9, <2>10, <2>11, <2>12
<1> QED
  BY <1>1, <1>2, RequestsCorrect, PTL DEF Spec

----------------------------------------------------------------------------
(* The turns of the round robin                                               *)

LEMMA RemainderIs ==
  ASSUME NEW n \in Nat, n > 0, NEW q \in Nat, NEW r \in 0 .. n - 1
  PROVE  (n * q + r) % n = r
<1> DEFINE k == n * q + r
           d == k \div n
           m == k % n
<1>1. k \in Nat /\ d \in Nat /\ m \in 0 .. n - 1 /\ k = n * d + m
  OBVIOUS
<1>2. n * q + r = n * d + m
  BY <1>1
<1> HIDE DEF k, d, m
<1>3. q = d
  <2>1. CASE q > d
    <3>1. PICK e \in Nat : q = d + 1 + e
      BY <1>1, <2>1
    <3>2. n * q = n * d + n + n * e /\ n * e >= 0
      BY <1>1, <3>1
    <3> QED
      BY <1>1, <1>2, <3>2
  <2>2. CASE d > q
    <3>1. PICK e \in Nat : d = q + 1 + e
      BY <1>1, <2>2
    <3>2. n * d = n * q + n + n * e /\ n * e >= 0
      BY <1>1, <3>1
    <3> QED
      BY <1>1, <1>2, <3>2
  <2> QED
    BY <1>1, <2>1, <2>2
<1>4. m = r
  BY <1>1, <1>2, <1>3
<1> QED
  BY <1>4 DEF m, k

LEMMA NextRemainder ==
  ASSUME NEW n \in Nat, n > 0, NEW k \in Nat
  PROVE  /\ k % n \in 0 .. n - 1
         /\ (k + 1) % n = IF k % n = n - 1 THEN 0 ELSE (k % n) + 1
<1>1. k % n \in 0 .. n - 1 /\ k \div n \in Nat /\ k = n * (k \div n) + (k % n)
  OBVIOUS
<1>2. CASE k % n = n - 1
  <2>1. k + 1 = n * ((k \div n) + 1) + 0
    BY <1>1, <1>2
  <2> QED
    BY <1>1, <1>2, <2>1, RemainderIs
<1>3. CASE k % n # n - 1
  <2>1. k + 1 = n * (k \div n) + ((k % n) + 1) /\ (k % n) + 1 \in 0 .. n - 1
    BY <1>1, <1>3
  <2> QED
    BY <1>1, <1>3, <2>1, RemainderIs
<1> QED
  BY <1>1, <1>2, <1>3

\* How many looks it takes until the turn of position j
Distance(j) == IF j >= Position THEN j - Position ELSE j - Position + Len(peer_list)

\* Who is next has been looked at as often as the others, or one time less.
Turns == rri <= MaxSafe => \A j, k \in DOMAIN looks :
  Distance(j) <= Distance(k) => looks[j] <= looks[k] /\ looks[k] <= looks[j] + 1

LEMMA TurnsKept ==
  ASSUME TypeOK, Turns, UNCHANGED <<peer_list, rri, looks>>
  PROVE  Turns'
BY DEF Turns, Distance, Position

LEMMA TurnsBegin ==
  ASSUME Len(peer_list) \in Nat, looks = NoLooks(Len(peer_list))
  PROVE  Turns
<1>1. DOMAIN looks = 1 .. Len(peer_list) /\ \A j \in DOMAIN looks : looks[j] = 0
  BY DEF NoLooks
<1> QED
  BY <1>1 DEF Turns

LEMMA TurnsLook ==
  ASSUME TypeOK, Turns, NEW r \in Caller, Look(r)
  PROVE  Turns'
<1> DEFINE n == Len(peer_list)
           i == Position
<1>1. n \in Nat /\ n > 0 /\ rri \in Nat /\ MaxSafe \in Nat /\ looks \in [1 .. n -> Nat]
  BY RoutingAssumption DEF TypeOK, Look
<1>2. /\ peer_list' = peer_list /\ rri' = Advance(rri)
      /\ looks' = [looks EXCEPT ![i] = @ + 1]
  BY DEF Look
<1> SUFFICES ASSUME rri' <= MaxSafe, NEW j \in 1 .. n, NEW k \in 1 .. n,
                    Distance(j)' <= Distance(k)'
             PROVE  looks'[j] <= looks'[k] /\ looks'[k] <= looks'[j] + 1
  BY <1>1, <1>2 DEF Turns
<1>3. rri <= MaxSafe /\ rri' = rri + 1
  BY <1>1, <1>2 DEF Advance
<1>4. i \in 1 .. n /\ Position' = IF i = n THEN 1 ELSE i + 1
  <2>1. Position = (rri % n) + 1 /\ Position' = ((rri + 1) % n) + 1
    BY <1>2, <1>3 DEF Position
  <2> HIDE DEF n
  <2>2. /\ rri % n \in 0 .. n - 1
        /\ (rri + 1) % n = IF rri % n = n - 1 THEN 0 ELSE (rri % n) + 1
    BY <1>1, NextRemainder
  <2> QED
    BY <1>1, <2>1, <2>2
<1>5. \A a, b \in 1 .. n : Distance(a) <= Distance(b) => looks[a] <= looks[b] /\ looks[b] <= looks[a] + 1
  BY <1>1, <1>3 DEF Turns
<1>6. \A a \in 1 .. n : Distance(a) \in 0 .. n - 1 /\ Distance(i) = 0
        /\ Distance(a)' = IF a = i THEN n - 1 ELSE Distance(a) - 1
  <2> SUFFICES ASSUME NEW a \in 1 .. n
               PROVE  /\ Distance(a) \in 0 .. n - 1 /\ Distance(i) = 0
                      /\ Distance(a)' = IF a = i THEN n - 1 ELSE Distance(a) - 1
    OBVIOUS
  <2>1. Distance(a)' = IF a >= Position' THEN a - Position' ELSE a - Position' + n
    BY <1>2 DEF Distance
  <2>2. Distance(a) = IF a >= i THEN a - i ELSE a - i + n
    BY DEF Distance
  <2>3. Distance(i) = 0
    BY <1>4 DEF Distance
  <2> HIDE DEF n, i
  <2> QED
    BY <1>1, <1>4, <2>1, <2>2, <2>3
<1>7. \A a \in 1 .. n : looks'[a] = IF a = i THEN looks[a] + 1 ELSE looks[a]
  BY <1>1, <1>2, <1>4
<1>8. \A a \in 1 .. n : looks[a] \in Nat /\ looks[i] <= looks[a] /\ looks[a] <= looks[i] + 1
  <2>1. \A a \in 1 .. n : Distance(i) <= Distance(a)
    BY <1>1, <1>4, <1>6
  <2> QED
    BY <1>1, <1>4, <1>5, <2>1
<1> HIDE DEF n, i
<1>9. CASE j = i /\ k = i
  BY <1>4, <1>7, <1>8, <1>9
<1>10. CASE j = i /\ k # i
  <2>1. Distance(k)' < n - 1 /\ Distance(j)' = n - 1
    BY <1>1, <1>6, <1>10
  <2>2. Distance(k) \in 0 .. n - 1 /\ Distance(k)' = Distance(k) - 1
    BY <1>6, <1>10
  <2> QED
    BY <1>1, <2>1, <2>2
<1>11. CASE j # i /\ k = i
  BY <1>4, <1>7, <1>8, <1>11
<1>12. CASE j # i /\ k # i
  BY <1>1, <1>5, <1>6, <1>7, <1>12
<1> QED
  BY <1>9, <1>10, <1>11, <1>12

LEMMA TurnsStep == TypeOK /\ TypeOK' /\ Turns /\ [Next]_vars => Turns'
<1> SUFFICES ASSUME TypeOK, TypeOK', Turns, [Next]_vars PROVE Turns'
  OBVIOUS
<1>1. CASE UNCHANGED <<peer_list, rri, looks>>
  BY <1>1, TurnsKept
<1>2. CASE CachePeerList
  <2>1. rri' = rri
    BY <1>2 DEF CachePeerList
  <2>2. CASE Len(peer_list') = Len(peer_list)
    BY <1>2, <2>1, <2>2 DEF CachePeerList, Turns, Distance, Position
  <2>3. CASE Len(peer_list') # Len(peer_list)
    <3>1. looks' = NoLooks(Len(peer_list'))
      BY <1>2, <2>3 DEF CachePeerList
    <3>2. Len(peer_list') \in Nat
      BY DEF TypeOK
    <3>3. DOMAIN looks' = 1 .. Len(peer_list') /\ \A j \in DOMAIN looks' : looks'[j] = 0
      BY <3>1, <3>2 DEF NoLooks
    <3> QED
      BY <3>3 DEF Turns
  <2> QED
    BY <2>2, <2>3
<1>3. ASSUME NEW r \in Caller, Route(r) PROVE Turns'
  <2>1. CASE rri > MaxSafe
    <3>1. looks' = NoLooks(Len(peer_list)) /\ Len(peer_list) \in Nat
      BY <1>3, <2>1 DEF Route, TypeOK
    <3>2. \A j \in DOMAIN looks' : looks'[j] = 0
      BY <3>1 DEF NoLooks
    <3> QED
      BY <3>2 DEF Turns
  <2>2. CASE ~(rri > MaxSafe)
    BY <1>3, <2>2, TurnsKept DEF Route
  <2> QED
    BY <2>1, <2>2
<1> QED
  BY <1>1, <1>2, <1>3, TurnsLook DEF Next, Environment, Step, Connect, Close, PeerSynced,
     TasksInit, TasksStarted, Broadcast, GiveUp, LookNone, LookAll, LocalDone, TheEnd,
     Reply, Timeout, vars, seekVars

\* However many calls share the index, no position of the list is looked at twice
\* more often than another by more than one while the list keeps its length.
THEOREM TurnsEven == Spec => []TurnsAreEven
<1>1. Init => Turns
  <2> SUFFICES ASSUME Init PROVE Turns
    OBVIOUS
  <2>1. Len(peer_list) \in Nat
    BY TypeInit DEF TypeOK
  <2> QED
    BY <2>1, TurnsBegin DEF Init
<1>2. TypeOK /\ Turns => TurnsAreEven
  <2> SUFFICES ASSUME TypeOK, Turns, rri <= MaxSafe,
                      NEW j \in DOMAIN looks, NEW k \in DOMAIN looks
               PROVE  looks[j] - looks[k] <= 1
    BY DEF TurnsAreEven
  <2>1. /\ looks[j] \in Nat /\ looks[k] \in Nat /\ j \in Nat /\ k \in Nat
        /\ Len(peer_list) \in Nat /\ Len(peer_list) > 0 /\ rri \in Nat
    <3>1. Len(peer_list) \in Nat /\ rri \in Nat /\ looks \in [1 .. Len(peer_list) -> Nat]
      BY DEF TypeOK
    <3> QED
      BY <3>1
  <2>2. Position \in Nat
    BY <2>1, NextRemainder DEF Position
  <2>3. Distance(j) <= Distance(k) \/ Distance(k) <= Distance(j)
    BY <2>1, <2>2 DEF Distance
  <2> QED
    BY <2>1, <2>3 DEF Turns
<1> QED
  BY <1>1, <1>2, TypeStep, TurnsStep, TypeCorrect, PTL DEF Spec
=============================================================================
