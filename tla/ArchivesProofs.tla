---------------------------- MODULE ArchivesProofs ----------------------------
(* Theorems about Archives, for any nodes, links and grids.                     *)
EXTENDS Archives, FiniteSetTheorems, SequenceTheorems, TLAPS

----------------------------------------------------------------------------
(* Type correctness *)

Queue == Seq(Link \cup {None})
Loops == Seq(Node) \ {<<>>}
Fares == {"none", "opening", "up", "failed"}

LEMMA TypeInit == Init => TypeOK
<1> SUFFICES ASSUME Init PROVE TypeOK
  OBVIOUS
<1>1. <<>> \in Seq(Link \cup {None})
  OBVIOUS
<1>2. /\ grid \in Grids /\ up \subseteq Node
      /\ asks \in [Node -> [Node -> Seq(Link \cup {None})]]
  BY <1>1, ArchivesAssumption DEF Init, Grid
<1> QED
  BY <1>2 DEF Init, TypeOK

\* Joining a link, and what its server reports
LEMMA JoinTyped ==
  ASSUME TypeOK, NEW n \in Node, NEW l \in Link, NEW f \in Fares, Join(n, l, f)
  PROVE  /\ link' \in [Node -> Link \cup {None}] /\ server' \in [Node -> Fares]
         /\ cut' \in [Link -> SUBSET Pairs]
BY DEF Join, TypeOK, Fares

LEMMA ReportsTyped ==
  ASSUME TypeOK, NEW n \in Node, NEW f \in Fares, Reports(n, f)
  PROVE  spreads' \in [Node -> Nat] /\ server' \in [Node -> Fares]
<1>1. spreads[n] \in Nat /\ spreads[n] > 0 /\ spreads' = [spreads EXCEPT ![n] = @ - 1]
  BY DEF Reports, TypeOK
<1>2. server' = [server EXCEPT ![n] = f] \/ server' = server
  BY DEF Reports
<1>3. spreads[n] - 1 \in Nat
  BY <1>1
<1> QED
  BY <1>1, <1>2, <1>3 DEF TypeOK, Fares

\* Queues after some peers were asked
LEMMA SyncTyped ==
  ASSUME TypeOK, NEW n \in Node, NEW P
  PROVE  Sync(n, P) \in [Node -> [Node -> Seq(Link \cup {None})]]
<1>1. \A m \in Node : asks[n][m] \in Queue /\ Append(asks[n][m], Told(n)) \in Queue
  BY DEF TypeOK, Queue, Told
<1>2. [m \in Node |-> IF m \in P \cap peers[n] THEN Append(asks[n][m], Told(n)) ELSE asks[n][m]]
        \in [Node -> Queue]
  BY <1>1
<1>3. Sync(n, P) = [asks EXCEPT ![n] = [m \in Node |-> IF m \in P \cap peers[n]
                       THEN Append(asks[n][m], Told(n)) ELSE asks[n][m]]]
  BY DEF Sync
<1> QED
  BY <1>2, <1>3 DEF TypeOK, Queue

\* A queue that is replaced by another
LEMMA QueueTyped ==
  ASSUME TypeOK, NEW n \in Node, NEW m \in Node, NEW q \in Queue,
         asks' = [asks EXCEPT ![n][m] = q]
  PROVE  asks' \in [Node -> [Node -> Seq(Link \cup {None})]]
BY DEF TypeOK, Queue

\* An order of some nodes is a sequence of nodes
LEMMA OrdersTyped ==
  ASSUME NEW P \in SUBSET Node, NEW w \in Orders(P)
  PROVE  w \in Seq(Node)
<1>1. Cardinality(P) \in Nat
  BY ArchivesAssumption, FS_Subset, FS_CardinalityType
<1>2. w \in [1 .. Cardinality(P) -> Node]
  BY DEF Orders
<1> QED
  BY <1>1, <1>2

\* What is left of loops when a router closes
LEMMA StoppedTyped ==
  ASSUME NEW W \in SUBSET Loops, NEW p
  PROVE  Stopped(W, p) \in SUBSET Loops
<1>1. ASSUME NEW w \in W PROVE Before(w, p) \in Seq(Node)
  <2>1. w \in Seq(Node)
    BY DEF Loops
  <2>2. CASE p \in Range(w)
    <3> DEFINE i == CHOOSE j \in DOMAIN w : w[j] = p
    <3>1. \E j \in DOMAIN w : w[j] = p
      BY <2>2 DEF Range
    <3>2. i \in 1 .. Len(w)
      BY <2>1, <3>1
    <3>3. Before(w, p) = SubSeq(w, 1, i - 1)
      BY <2>2 DEF Before
    <3> HIDE DEF i
    <3>4. \A k \in 1 .. i - 1 : k \in 1 .. Len(w)
      BY <2>1, <3>2
    <3>5. SubSeq(w, 1, i - 1) \in Seq(Node)
      BY <2>1, <3>2, <3>4
    <3> QED
      BY <3>3, <3>5
  <2>3. CASE p \notin Range(w)
    BY <2>1, <2>3 DEF Before
  <2> QED
    BY <2>2, <2>3
<1> QED
  BY <1>1 DEF Stopped, Loops

LEMMA TypeStep == TypeOK /\ [Next]_vars => TypeOK'
<1> SUFFICES ASSUME TypeOK, [Next]_vars PROVE TypeOK'
  OBVIOUS
<1> USE DEF TypeOK
<1>f. Fares = {"none", "opening", "up", "failed"}
  BY DEF Fares
<1>l. loops \in [Node -> SUBSET Loops]
  BY DEF Loops
<1>1. ASSUME NEW n \in Node, Pack(n) PROVE TypeOK'
  BY <1>1 DEF Pack, pools, nets, swarm, syncs
<1>2. ASSUME NEW n \in Node, PackFail(n) PROVE TypeOK'
  BY <1>2 DEF PackFail, Trouble, pools, nets, swarm, syncs
<1>3. ASSUME NEW n \in Node, Spread(n) PROVE TypeOK'
  <2>1. spreads' \in [Node -> Nat] /\ server' \in [Node -> Fares]
    BY <1>3, <1>f, ReportsTyped DEF Spread
  <2>2. PICK w \in Orders(AskAll(n)) :
          /\ loops' = [loops EXCEPT ![n] = (@ \cup {w}) \ {<<>>}]
          /\ asks' = Sync(n, {w[i] : i \in 1 .. 1 \cap DOMAIN w})
    BY <1>3 DEF Spread
  <2>3. w \in Seq(Node)
    BY <2>2, OrdersTyped DEF AskAll
  <2>4. loops' \in [Node -> SUBSET (Seq(Node) \ {<<>>})]
    BY <2>2, <2>3
  <2>5. asks' \in [Node -> [Node -> Seq(Link \cup {None})]]
    BY <2>2, SyncTyped
  <2>6. UNCHANGED <<pools, packs, link, cut, fetching, wired, deleting, answers, holds, emptied, troubles>>
    BY <1>3 DEF Spread
  <2> QED
    BY <1>f, <2>1, <2>4, <2>5, <2>6 DEF pools, packs
<1>4. ASSUME NEW n \in Node, ListenError(n) PROVE TypeOK'
  <2>1. spreads' \in [Node -> Nat] /\ server' \in [Node -> Fares]
    BY <1>4, <1>f, ReportsTyped DEF ListenError
  <2> QED
    BY <1>4, <1>f, <2>1 DEF ListenError, Trouble, pools, packs, syncs
<1>5. ASSUME NEW n \in Node, Down(n) PROVE TypeOK'
  <2>1. asks' \in [Node -> [Node -> Seq(Link \cup {None})]]
    BY <1>5 DEF Down
  <2>2. loops' \in [Node -> SUBSET Loops]
    BY <1>5, <1>l, StoppedTyped DEF Down
  <2>3. /\ wired' \in [Link -> SUBSET Pairs] /\ cut' = cut /\ troubles' \in Nat
        /\ grid' = grid /\ made' = made
    BY <1>5 DEF Down, Trouble
  <2>4. /\ up' \subseteq Node /\ peers' \in [Node -> SUBSET Node]
        /\ answers' \in [Node -> SUBSET Node] /\ emptied' \subseteq Node
        /\ packing' \subseteq Node /\ master' \subseteq Node
    BY <1>5 DEF Down
  <2>5. /\ current' \in [Node -> Link \cup {None}] /\ link' \in [Node -> Link \cup {None}]
        /\ server' \in [Node -> Fares] /\ spreads' \in [Node -> Nat]
        /\ holds' \in [Node -> SUBSET Link]
    BY <1>5, <1>f DEF Down
  <2>6. fetching' \in [Node -> [Link -> Nat]] /\ deleting' \in [Node -> [Link -> Nat]]
    BY <1>5 DEF Down
  <2> QED
    BY <1>f, <2>1, <2>2, <2>3, <2>4, <2>5, <2>6 DEF Loops
<1>6. ASSUME NEW n \in Node, NEW l \in Link, Archived(n, l) PROVE TypeOK'
  <2>1. /\ link' \in [Node -> Link \cup {None}] /\ server' \in [Node -> Fares]
        /\ cut' \in [Link -> SUBSET Pairs]
    BY <1>6, <1>f, JoinTyped DEF Archived
  <2>2. /\ holds' \in [Node -> SUBSET Link] /\ made' \in [Node -> SUBSET Link]
        /\ current' \in [Node -> Link \cup {None}] /\ spreads' \in [Node -> Nat]
    BY <1>6 DEF Archived
  <2> QED
    BY <1>6, <1>f, <2>1, <2>2 DEF Archived, pools, syncs
<1>7. ASSUME NEW n \in Node, NEW l \in Link, Fetch(n, l) PROVE TypeOK'
  <2>1. /\ fetching' \in [Node -> [Link -> Nat]] /\ holds' \in [Node -> SUBSET Link]
        /\ answers' \in [Node -> SUBSET Node]
    BY <1>7 DEF Fetch
  <2> QED
    BY <1>7, <2>1 DEF Fetch, pools, packs, swarm
<1>d. ASSUME NEW n \in Node, NEW l \in Link, Deletes(n, l)
      PROVE  deleting' \in [Node -> [Link -> Nat]]
  <2>1. deleting[n][l] \in Nat /\ deleting[n][l] > 0
    BY <1>d DEF Deletes
  <2>2. deleting[n][l] - 1 \in Nat
    BY <2>1
  <2>3. deleting' = [deleting EXCEPT ![n] = [deleting[n] EXCEPT ![l] = deleting[n][l] - 1]]
    BY <1>d DEF Deletes
  <2>4. [deleting[n] EXCEPT ![l] = deleting[n][l] - 1] \in [Link -> Nat]
    BY <2>2
  <2> QED
    BY <2>3, <2>4
<1>8. ASSUME NEW n \in Node, NEW l \in Link, Deleted(n, l) PROVE TypeOK'
  <2>1. /\ link' \in [Node -> Link \cup {None}] /\ server' \in [Node -> Fares]
        /\ cut' \in [Link -> SUBSET Pairs]
    BY <1>8, <1>f, JoinTyped DEF Deleted
  <2>2. deleting' \in [Node -> [Link -> Nat]] /\ fetching' \in [Node -> [Link -> Nat]]
    BY <1>8, <1>d DEF Deleted
  <2> QED
    BY <1>8, <1>f, <2>1, <2>2 DEF Deleted, pools, packs
<1>9. ASSUME NEW n \in Node, NEW l \in Link, DeletedDeaf(n, l) PROVE TypeOK'
  <2>1. /\ link' \in [Node -> Link \cup {None}] /\ server' \in [Node -> Fares]
        /\ cut' \in [Link -> SUBSET Pairs]
    BY <1>9, <1>f, JoinTyped DEF DeletedDeaf
  <2>2. deleting' \in [Node -> [Link -> Nat]]
    BY <1>9, <1>d DEF DeletedDeaf
  <2>3. troubles' \in Nat
    BY <1>9 DEF DeletedDeaf, Trouble
  <2>4. UNCHANGED <<pools, packs, spreads, fetching, wired, asks, loops, answers, holds, emptied>>
    BY <1>9 DEF DeletedDeaf
  <2> QED
    BY <1>f, <2>1, <2>2, <2>3, <2>4 DEF pools, packs
<1>10. ASSUME NEW n \in Node, NEW l \in Link, DeleteFail(n, l) PROVE TypeOK'
  <2>1. deleting' \in [Node -> [Link -> Nat]]
    BY <1>10, <1>d DEF DeleteFail
  <2>2. troubles' \in Nat
    BY <1>10 DEF DeleteFail, Trouble
  <2>3. UNCHANGED <<pools, packs, nets, asks, loops, answers, holds, emptied>>
    BY <1>10 DEF DeleteFail
  <2> QED
    BY <2>1, <2>2, <2>3 DEF pools, packs, nets, swarm
<1>11. ASSUME NEW l \in Link, NEW P \in Pairs, Meet(l, P) PROVE TypeOK'
  BY <1>11 DEF Meet, pools, packs, swarm, syncs
<1>12. ASSUME NEW l \in Link, NEW P \in Pairs, Sever(l, P) PROVE TypeOK'
  BY <1>12 DEF Sever, Trouble, pools, packs, syncs
<1>13. ASSUME NEW n \in Node, NEW m \in Node, Confirm(n, m) PROVE TypeOK'
  <2>1. Append(asks[n][m], Told(n)) \in Queue
    BY DEF Queue, Told
  <2>2. asks' \in [Node -> [Node -> Seq(Link \cup {None})]]
    BY <1>13, <2>1, QueueTyped DEF Confirm
  <2> QED
    BY <1>13, <2>2 DEF Confirm, packs, nets, swarm
<1>14. ASSUME NEW n \in Node, NEW m \in Node, Receive(n, m) PROVE TypeOK'
  <2> DEFINE l == Head(asks[m][n])
  <2>1. /\ asks[m][n] \in Queue /\ asks[m][n] # <<>>
        /\ asks' = [asks EXCEPT ![m][n] = Tail(asks[m][n])]
    BY <1>14 DEF Receive, Queue
  <2>2. l \in Link \cup {None} /\ Tail(asks[m][n]) \in Queue
    BY <2>1 DEF Queue
  <2>3. asks' \in [Node -> [Node -> Seq(Link \cup {None})]]
    BY <2>1, <2>2, QueueTyped
  <2>4. UNCHANGED <<pools, packs, nets, loops, answers, holds, troubles>>
    BY <1>14 DEF Receive
  <2>5. IF l = None THEN emptied' = emptied \cup {n} /\ UNCHANGED deleting
        ELSE emptied' = emptied \ {n} /\ deleting' = [deleting EXCEPT ![n][l] = @ + 1]
    BY <1>14 DEF Receive
  <2> HIDE DEF l
  <2>6. emptied' \subseteq Node /\ deleting' \in [Node -> [Link -> Nat]]
    <3>1. CASE l = None
      BY <2>5, <3>1
    <3>2. CASE l # None
      <4>1. l \in Link /\ deleting[n] \in [Link -> Nat] /\ deleting[n][l] + 1 \in Nat
        BY <2>2, <3>2
      <4>2. deleting' = [deleting EXCEPT ![n] = [deleting[n] EXCEPT ![l] = deleting[n][l] + 1]]
        BY <2>5, <3>2
      <4>3. [deleting[n] EXCEPT ![l] = deleting[n][l] + 1] \in [Link -> Nat]
        BY <4>1
      <4>4. emptied' \subseteq Node
        BY <2>5, <3>2
      <4> QED
        BY <4>2, <4>3, <4>4
    <3> QED
      BY <3>1, <3>2
  <2> QED
    BY <2>3, <2>4, <2>6 DEF pools, packs, nets, swarm
<1>15. ASSUME NEW n \in Node, NEW m \in Node, Hear(n, m) PROVE TypeOK'
  <2> DEFINE W == {w \in loops[n] : Head(w) = m}
             on == {Tail(w) : w \in W} \ {<<>>}
  <2>1. on \subseteq Loops
    <3>1. ASSUME NEW w \in W PROVE Tail(w) \in Seq(Node)
      <4>1. w \in Seq(Node) /\ w # <<>>
        BY <1>l DEF Loops
      <4> QED
        BY <4>1
    <3> QED
      BY <3>1 DEF Loops
  <2>2. loops' = [loops EXCEPT ![n] = (@ \ W) \cup on]
    BY <1>15 DEF Hear
  <2>3. asks' = Sync(n, {Head(w) : w \in on})
    BY <1>15 DEF Hear
  <2>4. UNCHANGED <<pools, packs, nets, deleting, holds, emptied, troubles>>
        /\ answers' \in [Node -> SUBSET Node]
    BY <1>15 DEF Hear
  <2> HIDE DEF W, on
  <2>5. loops' \in [Node -> SUBSET Loops]
    <3>1. (loops[n] \ W) \cup on \in SUBSET Loops
      BY <1>l, <2>1
    <3> QED
      BY <1>l, <2>2, <3>1
  <2>6. asks' \in [Node -> [Node -> Seq(Link \cup {None})]]
    BY <2>3, SyncTyped
  <2> QED
    BY <2>4, <2>5, <2>6 DEF Loops, pools, packs, nets, swarm
<1>16. ASSUME NEW n \in Node, NEW m \in Node, Part(n, m) PROVE TypeOK'
  <2>1. peers' \in [Node -> SUBSET Node] /\ answers' \in [Node -> SUBSET Node]
    BY <1>16 DEF Part
  <2>2. asks' \in [Node -> [Node -> Seq(Link \cup {None})]]
    <3> DEFINE a == [asks EXCEPT ![n][m] = <<>>]
    <3>1. a \in [Node -> [Node -> Queue]] /\ <<>> \in Queue
      BY DEF Queue
    <3>2. asks' = [a EXCEPT ![m] = [a[m] EXCEPT ![n] = <<>>]]
      BY <1>16 DEF Part
    <3> HIDE DEF a
    <3>3. [a[m] EXCEPT ![n] = <<>>] \in [Node -> Queue]
      BY <3>1
    <3> QED
      BY <3>1, <3>2, <3>3 DEF Queue
  <2>3. loops' \in [Node -> SUBSET Loops]
    <3>1. Stopped(loops[n], m) \in SUBSET Loops /\ Stopped(loops[m], n) \in SUBSET Loops
      BY <1>l, StoppedTyped
    <3> QED
      BY <1>16, <1>l, <3>1 DEF Part
  <2>4. UNCHANGED <<grid, up, packs, nets, deleting, holds, emptied>> /\ troubles' \in Nat
    BY <1>16 DEF Part, Trouble
  <2> QED
    BY <2>1, <2>2, <2>3, <2>4 DEF Loops, packs, nets, swarm
<1>17. ASSUME UNCHANGED vars PROVE TypeOK'
  BY <1>17 DEF vars, pools, packs, nets, swarm, syncs
<1> QED
  BY <1>1, <1>2, <1>3, <1>4, <1>5, <1>6, <1>7, <1>8, <1>9, <1>10, <1>11, <1>12, <1>13,
     <1>14, <1>15, <1>16, <1>17 DEF Next

\* Every variable has its type, for any nodes, links and grids.
THEOREM TypeCorrect == Spec => []TypeOK
BY TypeInit, TypeStep, PTL DEF Spec

----------------------------------------------------------------------------
(* The archive of a master *)

OthersArchive(n, l) == \E m \in Node \ {n} : l \in made[m]

\* A node is no peer of its own, and tells its peers of its own archives only
NotOwnPeer == \A n \in Node : n \notin peers[n]
OwnArchive == \A n \in Node : current[n] # None => current[n] \in made[n]
AsksNameMade ==
  \A n, m \in Node : /\ asks[n][m] \in Seq(made[n] \cup {None})
                     /\ n = m => asks[n][m] = <<>>

\* So what a handler of 'sync' is about to join is the archive of another node
DeletingOthers == \A n \in Node, l \in Link : deleting[n][l] > 0 => OthersArchive(n, l)
Sharing ==
  \A n \in Node : current[n] # None => link[n] = current[n] \/ OthersArchive(n, link[n])

Inv == TypeOK /\ NotOwnPeer /\ OwnArchive /\ AsksNameMade /\ DeletingOthers /\ Sharing

LEMMA InvInit == Init => Inv
<1> SUFFICES ASSUME Init PROVE Inv
  OBVIOUS
<1>1. AsksNameMade
  BY DEF Init, AsksNameMade
<1> QED
  BY <1>1, TypeInit DEF Init, Inv, NotOwnPeer, OwnArchive, DeletingOthers, Sharing

\* Archives that were made stay made
LEMMA MadeGrows ==
  ASSUME TypeOK, [Next]_vars
  PROVE  \A n \in Node : made[n] \subseteq made'[n]
<1> USE DEF TypeOK
<1>1. ASSUME NEW n \in Node, NEW l \in Link, Archived(n, l)
      PROVE  \A k \in Node : made[k] \subseteq made'[k]
  BY <1>1 DEF Archived
<1>2. CASE UNCHANGED made
  BY <1>2
<1>3. UNCHANGED made \/ \E n \in Node, l \in Link : Archived(n, l)
  BY DEF Next, vars, packs, Pack, PackFail, Spread, ListenError, Down, Fetch, Deleted,
     DeletedDeaf, DeleteFail, Meet, Sever, Confirm, Receive, Hear, Part
<1> QED
  BY <1>1, <1>2, <1>3

LEMMA NotOwnPeerStep ==
  ASSUME Inv, [Next]_vars
  PROVE  NotOwnPeer'
<1> USE DEF Inv, TypeOK, NotOwnPeer
<1>1. ASSUME NEW n \in Node, NEW m \in Node, Confirm(n, m) PROVE NotOwnPeer'
  BY <1>1 DEF Confirm
<1>2. ASSUME NEW n \in Node, NEW m \in Node, Part(n, m) PROVE NotOwnPeer'
  <2>1. \A k \in Node : peers'[k] \subseteq peers[k]
    BY <1>2 DEF Part
  <2> QED
    BY <2>1
<1>3. ASSUME NEW n \in Node, Down(n) PROVE NotOwnPeer'
  BY <1>3 DEF Down
<1>4. CASE UNCHANGED peers
  BY <1>4
<1>5. \/ UNCHANGED peers
      \/ \E n \in Node : Down(n)
      \/ \E n, m \in Node : Confirm(n, m) \/ Part(n, m)
  BY DEF Next, vars, pools, Pack, PackFail, Spread, ListenError, Archived, Fetch, Deleted,
     DeletedDeaf, DeleteFail, Meet, Sever, Receive, Hear
<1> QED
  BY <1>1, <1>2, <1>3, <1>4, <1>5

LEMMA OwnArchiveStep ==
  ASSUME Inv, [Next]_vars
  PROVE  OwnArchive'
<1> USE DEF Inv, TypeOK, OwnArchive
<1>1. ASSUME NEW n \in Node, NEW l \in Link, Archived(n, l) PROVE OwnArchive'
  BY <1>1 DEF Archived
<1>2. ASSUME NEW n \in Node, Down(n) PROVE OwnArchive'
  BY <1>2 DEF Down
<1>3. CASE UNCHANGED <<current, made>>
  BY <1>3
<1>4. \/ UNCHANGED <<current, made>>
      \/ \E n \in Node : Down(n) \/ \E l \in Link : Archived(n, l)
  BY DEF Next, vars, packs, Pack, PackFail, Spread, ListenError, Fetch, Deleted,
     DeletedDeaf, DeleteFail, Meet, Sever, Confirm, Receive, Hear, Part
<1> QED
  BY <1>1, <1>2, <1>3, <1>4

\* A queue that grows or shrinks
LEMMA QueueLemma ==
  ASSUME NEW S, NEW q \in Seq(S)
  PROVE  /\ \A e \in S : Append(q, e) \in Seq(S)
         /\ q # <<>> => Head(q) \in S /\ Tail(q) \in Seq(S)
         /\ <<>> \in Seq(S)
OBVIOUS

\* Asking peers keeps the queues as they should be
LEMMA SyncNamesMade ==
  ASSUME Inv, NEW n \in Node, NEW P, asks' = Sync(n, P),
         \A k \in Node : made[k] \subseteq made'[k]
  PROVE  AsksNameMade'
<1> USE DEF Inv, TypeOK
<1>1. Told(n) \in made[n] \cup {None} /\ n \notin peers[n]
  BY DEF Told, OwnArchive, NotOwnPeer
<1> SUFFICES ASSUME NEW a \in Node, NEW b \in Node
             PROVE  /\ asks'[a][b] \in Seq(made'[a] \cup {None})
                    /\ a = b => asks'[a][b] = <<>>
  BY DEF AsksNameMade
<1>2. \/ asks'[a][b] = asks[a][b]
      \/ a = n /\ b \in peers[n] /\ asks'[a][b] = Append(asks[a][b], Told(n))
  BY DEF Sync
<1>3. asks[a][b] \in Seq(made[a] \cup {None}) /\ (a = b => asks[a][b] = <<>>)
  BY DEF AsksNameMade
<1>4. asks'[a][b] \in Seq(made[a] \cup {None})
  <2>1. CASE asks'[a][b] = asks[a][b]
    BY <1>3, <2>1
  <2>2. CASE a = n /\ asks'[a][b] = Append(asks[a][b], Told(n))
    BY <1>1, <1>3, <2>2, QueueLemma
  <2> QED
    BY <1>2, <2>1, <2>2
<1>5. made[a] \cup {None} \subseteq made'[a] \cup {None}
  OBVIOUS
<1>6. asks'[a][b] \in Seq(made'[a] \cup {None})
  BY <1>4, <1>5
<1> QED
  BY <1>1, <1>2, <1>3, <1>6

LEMMA AsksNameMadeStep ==
  ASSUME Inv, [Next]_vars
  PROVE  AsksNameMade'
<1> USE DEF Inv, TypeOK
<1>m. \A k \in Node : made[k] \subseteq made'[k]
  BY MadeGrows
\* Most queues stay, lose their head, or are emptied
<1>q. ASSUME \A a, b \in Node :
               \/ asks'[a][b] \in {asks[a][b], <<>>}
               \/ asks[a][b] # <<>> /\ asks'[a][b] = Tail(asks[a][b])
      PROVE  AsksNameMade'
  <2> SUFFICES ASSUME NEW a \in Node, NEW b \in Node
               PROVE  /\ asks'[a][b] \in Seq(made'[a] \cup {None})
                      /\ a = b => asks'[a][b] = <<>>
    BY DEF AsksNameMade
  <2>1. asks[a][b] \in Seq(made[a] \cup {None}) /\ (a = b => asks[a][b] = <<>>)
    BY DEF AsksNameMade
  <2>2. asks'[a][b] \in Seq(made[a] \cup {None})
    <3>1. \/ asks'[a][b] = <<>> \/ asks'[a][b] = asks[a][b]
          \/ asks[a][b] # <<>> /\ asks'[a][b] = Tail(asks[a][b])
      BY <1>q
    <3>2. CASE asks'[a][b] = asks[a][b] \/ asks'[a][b] = <<>>
      BY ONLY <2>1, <3>2, QueueLemma
    <3>3. CASE asks[a][b] # <<>> /\ asks'[a][b] = Tail(asks[a][b])
      BY ONLY <2>1, <3>3, QueueLemma
    <3> QED
      BY <3>1, <3>2, <3>3
  <2>3. made[a] \cup {None} \subseteq made'[a] \cup {None}
    BY <1>m
  <2>4. asks'[a][b] \in Seq(made'[a] \cup {None})
    BY <2>2, <2>3
  <2> QED
    BY <1>q, <2>1, <2>4
<1>1. ASSUME NEW n \in Node, Spread(n) PROVE AsksNameMade'
  BY <1>1, <1>m, SyncNamesMade DEF Spread
<1>2. ASSUME NEW n \in Node, NEW m \in Node, Hear(n, m) PROVE AsksNameMade'
  BY <1>2, <1>m, SyncNamesMade DEF Hear
<1>3. ASSUME NEW n \in Node, NEW m \in Node, Confirm(n, m) PROVE AsksNameMade'
  <2>1. Told(n) \in made[n] \cup {None} /\ n # m /\ UNCHANGED made
    BY <1>3 DEF Told, OwnArchive, Confirm, packs
  <2> SUFFICES ASSUME NEW a \in Node, NEW b \in Node
               PROVE  /\ asks'[a][b] \in Seq(made[a] \cup {None})
                      /\ a = b => asks'[a][b] = <<>>
    BY <2>1 DEF AsksNameMade
  <2>2. asks[a][b] \in Seq(made[a] \cup {None}) /\ (a = b => asks[a][b] = <<>>)
    BY DEF AsksNameMade
  <2>3. \/ asks'[a][b] = asks[a][b]
        \/ a = n /\ b = m /\ asks'[a][b] = Append(asks[a][b], Told(n))
    BY <1>3 DEF Confirm
  <2>4. CASE asks'[a][b] = asks[a][b]
    BY <2>2, <2>4
  <2>5. CASE a = n /\ b = m /\ asks'[a][b] = Append(asks[a][b], Told(n))
    BY <2>1, <2>2, <2>5, QueueLemma
  <2> QED
    BY <2>3, <2>4, <2>5
<1>4. ASSUME NEW n \in Node, NEW m \in Node, Receive(n, m) PROVE AsksNameMade'
  <2>1. asks[m][n] # <<>> /\ asks' = [asks EXCEPT ![m][n] = Tail(@)]
    BY <1>4 DEF Receive
  <2> QED
    BY <1>q, <2>1
<1>5. ASSUME NEW n \in Node, NEW m \in Node, Part(n, m) PROVE AsksNameMade'
  <2>1. asks' = [asks EXCEPT ![n][m] = <<>>, ![m][n] = <<>>]
    BY <1>5 DEF Part
  <2>2. \A a, b \in Node : asks'[a][b] \in {asks[a][b], <<>>}
    BY <2>1
  <2> QED
    BY <1>q, <2>2
<1>6. ASSUME NEW n \in Node, Down(n) PROVE AsksNameMade'
  BY <1>6, <1>q DEF Down
<1>7. CASE UNCHANGED asks
  BY <1>7, <1>q
<1>8. \/ UNCHANGED asks
      \/ \E n \in Node : Spread(n) \/ Down(n)
      \/ \E n, m \in Node : Hear(n, m) \/ Confirm(n, m) \/ Receive(n, m) \/ Part(n, m)
  BY DEF Next, vars, syncs, Pack, PackFail, ListenError, Archived, Fetch, Deleted,
     DeletedDeaf, DeleteFail, Meet, Sever
<1> QED
  BY <1>1, <1>2, <1>3, <1>4, <1>5, <1>6, <1>7, <1>8

LEMMA DeletingOthersStep ==
  ASSUME Inv, [Next]_vars
  PROVE  DeletingOthers'
<1> USE DEF Inv, TypeOK
<1>m. \A n \in Node, l \in Link : OthersArchive(n, l) => OthersArchive(n, l)'
  BY MadeGrows DEF OthersArchive
\* Most handlers stay or end
<1>q. ASSUME \A n \in Node, l \in Link : deleting'[n][l] > 0 => deleting[n][l] > 0
      PROVE  DeletingOthers'
  BY <1>q, <1>m DEF DeletingOthers
<1>1. ASSUME NEW n \in Node, NEW m \in Node, Receive(n, m) PROVE DeletingOthers'
  <2> DEFINE l == Head(asks[m][n])
  <2>1. /\ asks[m][n] # <<>>
        /\ l # None => deleting' = [deleting EXCEPT ![n][l] = @ + 1]
        /\ l = None => deleting' = deleting
    BY <1>1 DEF Receive
  <2>2. n # m /\ asks[m][n] \in Seq(made[m] \cup {None})
    BY <2>1 DEF AsksNameMade
  <2>3. l \in made[m] \cup {None}
    BY <2>1, <2>2
  <2> HIDE DEF l
  <2>4. CASE l = None
    BY <1>q, <2>1, <2>4
  <2>5. CASE l # None
    <3>1. l \in Link /\ OthersArchive(n, l)
      BY <2>2, <2>3, <2>5 DEF OthersArchive
    <3> SUFFICES ASSUME NEW a \in Node, NEW b \in Link, deleting'[a][b] > 0
                 PROVE  OthersArchive(a, b)'
      BY DEF DeletingOthers
    <3>2. CASE a = n /\ b = l
      BY <1>m, <3>1, <3>2
    <3>3. CASE ~(a = n /\ b = l)
      <4>0. deleting' = [deleting EXCEPT ![n] = [deleting[n] EXCEPT ![l] = deleting[n][l] + 1]]
        BY <2>1, <2>5
      <4>1. deleting'[a][b] = deleting[a][b]
        BY <3>1, <3>3, <4>0
      <4> QED
        BY <1>m, <4>1 DEF DeletingOthers
    <3> QED
      BY <3>2, <3>3
  <2> QED
    BY <2>4, <2>5
<1>2. ASSUME NEW n \in Node, NEW l \in Link, Deletes(n, l) PROVE DeletingOthers'
  <2>1. \A a \in Node, b \in Link : deleting'[a][b] > 0 => deleting[a][b] > 0
    BY <1>2 DEF Deletes
  <2> QED
    BY <1>q, <2>1
<1>3. ASSUME NEW n \in Node, Down(n) PROVE DeletingOthers'
  <2>1. deleting' = [deleting EXCEPT ![n] = [l \in Link |-> 0]]
    BY <1>3 DEF Down
  <2>2. \A a \in Node, b \in Link : deleting'[a][b] > 0 => deleting[a][b] > 0
    BY <2>1
  <2> QED
    BY <1>q, <2>2
<1>4. CASE UNCHANGED deleting
  BY <1>4, <1>q
<1>5. \/ UNCHANGED deleting
      \/ \E n \in Node : Down(n)
      \/ \E n \in Node, l \in Link : Deletes(n, l)
      \/ \E n, m \in Node : Receive(n, m)
  BY DEF Next, vars, syncs, Pack, PackFail, Spread, ListenError, Archived, Fetch, Deleted,
     DeletedDeaf, DeleteFail, Meet, Sever, Confirm, Hear, Part
<1> QED
  BY <1>1, <1>2, <1>3, <1>4, <1>5

LEMMA SharingStep ==
  ASSUME Inv, [Next]_vars
  PROVE  Sharing'
<1> USE DEF Inv, TypeOK
<1>m. \A n \in Node : \A l : OthersArchive(n, l) => OthersArchive(n, l)'
  BY MadeGrows DEF OthersArchive
<1>1. ASSUME NEW n \in Node, NEW l \in Link, Archived(n, l) PROVE Sharing'
  <2>1. current' = [current EXCEPT ![n] = l] /\ link' = [link EXCEPT ![n] = l]
    BY <1>1 DEF Archived, Join
  <2> QED
    BY <1>m, <2>1 DEF Sharing
<1>2. ASSUME NEW n \in Node, NEW l \in Link, Deleted(n, l) \/ DeletedDeaf(n, l) PROVE Sharing'
  <2>1. deleting[n][l] > 0 /\ link' = [link EXCEPT ![n] = l] /\ UNCHANGED current
    BY <1>2 DEF Deleted, DeletedDeaf, Deletes, Join, packs
  <2>2. OthersArchive(n, l)'
    BY <1>m, <2>1 DEF DeletingOthers
  <2> QED
    BY <1>m, <2>1, <2>2 DEF Sharing
<1>3. ASSUME NEW n \in Node, Down(n) PROVE Sharing'
  <2>1. current' = [current EXCEPT ![n] = None] /\ link' = [link EXCEPT ![n] = None]
    BY <1>3 DEF Down
  <2> QED
    BY <1>m, <2>1 DEF Sharing
<1>4. CASE UNCHANGED <<current, link>>
  BY <1>4, <1>m DEF Sharing
<1>5. \/ UNCHANGED <<current, link>>
      \/ \E n \in Node : Down(n)
      \/ \E n \in Node, l \in Link : Archived(n, l) \/ Deleted(n, l) \/ DeletedDeaf(n, l)
  <2>1. ASSUME NEW n \in Node, NEW l \in Link, Fetch(n, l) \/ DeleteFail(n, l)
        PROVE  UNCHANGED <<current, link>>
    BY <2>1 DEF Fetch, DeleteFail, packs, nets, swarm
  <2>2. ASSUME NEW n \in Node, Pack(n) \/ PackFail(n) \/ Spread(n) \/ ListenError(n)
        PROVE  UNCHANGED <<current, link>>
    BY <2>2 DEF Pack, PackFail, Spread, ListenError, packs, nets, swarm
  <2>3. ASSUME NEW l \in Link, NEW P \in Pairs, Meet(l, P) \/ Sever(l, P)
        PROVE  UNCHANGED <<current, link>>
    BY <2>3 DEF Meet, Sever, packs, swarm
  <2>4. ASSUME NEW n \in Node, NEW m \in Node,
               Confirm(n, m) \/ Receive(n, m) \/ Hear(n, m) \/ Part(n, m)
        PROVE  UNCHANGED <<current, link>>
    BY <2>4 DEF Confirm, Receive, Hear, Part, packs, nets, swarm
  <2>5. UNCHANGED vars => UNCHANGED <<current, link>>
    BY DEF vars, packs, nets, swarm
  <2> QED
    BY <2>1, <2>2, <2>3, <2>4, <2>5 DEF Next
<1> QED
  BY <1>1, <1>2, <1>3, <1>4, <1>5

LEMMA InvStep == Inv /\ [Next]_vars => Inv'
BY TypeStep, NotOwnPeerStep, OwnArchiveStep, AsksNameMadeStep, DeletingOthersStep,
   SharingStep DEF Inv

\* Whatever is under way, and whatever fails, a master shares the archive it hands
\* out until it goes over to an archive that another node has made.
THEOREM MastersShareHolds == Spec => []MastersShare
<1>1. Inv => MastersShare
  BY DEF Inv, TypeOK, Sharing, OthersArchive, MastersShare
<1> QED
  BY <1>1, InvInit, InvStep, PTL DEF Spec

=============================================================================
