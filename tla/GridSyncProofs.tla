--------------------------- MODULE GridSyncProofs ---------------------------
(* Theorems about GridSync, for any number of nodes, connections, requests *)
(* and versions, and for any set of circumstances.                         *)
EXTENDS GridSync, NaturalsInduction, WellFoundedInduction, SequenceTheorems,
        FiniteSetTheorems, TLAPS

----------------------------------------------------------------------------
(* Operators *)

\* A non-empty set of connections has a least one: the router that
\* askAllPeersToSync asks next exists.
LEMMA LeastIn ==
  ASSUME NEW S, S \subseteq Conn, S # {}
  PROVE  Least(S) \in S
<1>1. S \subseteq Nat
  BY GridAssumption DEF Conn
<1>2. IsWellFoundedOn(OpToRel(<, Nat), Nat)
  BY NatLessThanWellFounded
<1>3. PICK c \in S : \A d \in S : ~(<<d, c>> \in OpToRel(<, Nat))
  BY <1>1, <1>2, WFMin
<1>4. \A d \in S : ~(d < c)
  BY <1>1, <1>3, Zenon DEF OpToRel
<1>5. \A d \in S : c <= d
  BY <1>1, <1>4, SMT
<1> QED
  BY <1>5 DEF Least

\* What is delivered keeps the inboxes well typed
LEMMA SentType ==
  ASSUME NEW M, NEW box \in [Node -> [Conn -> Seq(M)]], NEW n,
         NEW out \in [Conn -> Seq(M)]
  PROVE  Sent(box, n, out) \in [Node -> [Conn -> Seq(M)]]
<1>1. \A m \in Node, c \in Conn : box[m][c] \o out[c] \in Seq(M)
  OBVIOUS
<1> QED
  BY <1>1 DEF Sent

LEMMA WithoutType ==
  ASSUME NEW T, NEW s \in Seq(T), NEW x \in DOMAIN s
  PROVE  /\ Without(s, x) \in Seq(T)
         /\ \A y \in DOMAIN Without(s, x) : \E z \in DOMAIN s : Without(s, x)[y] = s[z]
<1>1. Len(s) \in Nat /\ DOMAIN s = 1 .. Len(s) /\ Len(s) >= 1
  OBVIOUS
<1>2. DOMAIN Without(s, x) = 1 .. Len(s) - 1
  BY <1>1 DEF Without
<1>3. \A y \in 1 .. Len(s) - 1 : y \in DOMAIN s /\ y + 1 \in DOMAIN s
  BY <1>1
<1>4. \A y \in 1 .. Len(s) - 1 : Without(s, x)[y] = s[y] \/ Without(s, x)[y] = s[y + 1]
  BY <1>3 DEF Without
<1>5. Without(s, x) \in [1 .. Len(s) - 1 -> T]
  BY <1>1, <1>3 DEF Without
<1>6. Without(s, x) \in Seq(T)
  <2>1. Len(s) - 1 \in Nat
    BY <1>1
  <2> QED
    BY <1>5, <2>1, SeqDef, Zenon
<1>7. ASSUME NEW y \in DOMAIN Without(s, x)
      PROVE  \E z \in DOMAIN s : Without(s, x)[y] = s[z]
  BY <1>2, <1>3, <1>4
<1> QED
  BY <1>6, <1>7

\* What the operators on folders return
LEMMA FolderType ==
  /\ Nothing \in Folder
  /\ \A v \in Version : Whole(v) \in Folder
  /\ \A f, L : Mixtures(f, L) \subseteq Folder
  /\ \A f : Parts(f) \subseteq Folder
  BY DEF Nothing, Whole, Mixtures, Parts, Folder, Content

----------------------------------------------------------------------------
(* Every variable has its type *)

LEMMA InitType == Init => TypeOK
  BY FolderType DEF Init, TypeOK, Content, Call

\* A call that is no longer unsent has a node and a version, and stays so
\* whatever its phase becomes
LEMMA CallType ==
  ASSUME NEW r \in Call
  PROVE  /\ r.phase # "idle" => r \in Posting
         /\ r.node \in Node => r \in Posting
         /\ r \in Posting => /\ r.node \in Node /\ r.ver \in Version /\ r.img \in Content
                            /\ r.phase \in Phase /\ r.phase # "idle"
                            /\ r.todo \subseteq Conn
                            /\ \A p \in Phase : [r EXCEPT !.phase = p] \in Posting
<1>1. r.phase # "idle" => r \in Posting
  BY DEF Call, Unsent
<1>2. r.node \in Node => r \in Posting
  BY GridAssumption DEF Call, Unsent
<1> QED
  BY <1>1, <1>2 DEF Posting, Phase

LEMMA SendType ==
  ASSUME NEW n \in Node, NEW v \in Version
  PROVE  [Unsent EXCEPT !.node = n, !.ver = v, !.phase = "starting"] \in Posting
  BY DEF Unsent, Posting, Phase, Content

LEMMA ArchivingType ==
  ASSUME NEW r \in Posting, NEW x \in Content
  PROVE  [r EXCEPT !.phase = "archiving", !.img = x] \in Posting
  BY DEF Posting, Phase

LEMMA AskingType ==
  ASSUME NEW r \in Posting, NEW c \in Conn, NEW S \in SUBSET Conn
  PROVE  /\ [r EXCEPT !.phase = "asking", !.wait = c, !.todo = S] \in Posting
         /\ [r EXCEPT !.wait = c, !.todo = S] \in Posting
  BY DEF Posting, Phase

\* The messages this module sends, and what carries them
LEMMA MessageType ==
  /\ Identity \in Message /\ Error \in Message
  /\ \A l \in Content : Sync(l) \in Message /\ Done(l) \in Message
  BY DEF Identity, Error, Sync, Done, Message, Kind, Content

LEMMA OutType ==
  ASSUME NEW M, NEW n, NEW m \in M, NEW c
  PROVE  /\ On(c, <<m>>) \in [Conn -> Seq(M)]
         /\ ToPool(n, m) \in [Conn -> Seq(M)]
<1>1. <<m>> \in Seq(M) /\ <<>> \in Seq(M)
  OBVIOUS
<1> QED
  BY <1>1 DEF On, ToPool

LEMMA CopiesType ==
  ASSUME NEW M, NEW k \in Nat, NEW m \in M
  PROVE  [x \in 1 .. k |-> m] \in Seq(M)
  OBVIOUS

\* The actions on connections
LEMMA ConnectionStepType ==
  ASSUME TypeOK, NEW n \in Node
  PROVE  /\ \A k \in Node : AcceptPeer(n, k) => TypeOK'
         /\ \A c \in Conn : ClientConfirm(n, c) => TypeOK'
         /\ \A c \in Conn : Close(n, c) => TypeOK'
         /\ Restart(n) => TypeOK'
         /\ ClearTasks(n) => TypeOK'
<1> USE DEF TypeOK, fileVars, taskVars, netVars
<1>1. \A m \in Node : Greeting(m) \in Seq(Message)
  BY MessageType DEF Greeting
<1>2. ASSUME NEW k \in Node, AcceptPeer(n, k) PROVE TypeOK'
  <2>1. PICK d \in Conn : /\ server' = [server EXCEPT ![d] = n]
                          /\ client' = [client EXCEPT ![d] = k]
                          /\ pool' = [pool EXCEPT ![n] = @ \cup {d}]
                          /\ inbox' = [inbox EXCEPT ![k][d] = <<Identity>> \o Greeting(n)]
    BY <1>2 DEF AcceptPeer
  <2>2. <<Identity>> \o Greeting(n) \in Seq(Message)
    BY <1>1, MessageType
  <2>3. inbox' \in [Node -> [Conn -> Seq(Message)]]
    BY <2>1, <2>2
  <2> QED
    BY <1>2, <2>1, <2>3 DEF AcceptPeer
<1>3. ASSUME NEW c \in Conn, ClientConfirm(n, c) PROVE TypeOK'
  <2>1. PICK last \in 1 .. Len(inbox[n][c]) :
          inbox' = Sent([inbox EXCEPT ![n][c] = SubSeq(inbox[n][c], last + 1, Len(inbox[n][c]))],
                        n, On(c, Greeting(n)))
    BY <1>3 DEF ClientConfirm
  <2>2. SubSeq(inbox[n][c], last + 1, Len(inbox[n][c])) \in Seq(Message)
    <3>1. inbox[n][c] \in Seq(Message)
      OBVIOUS
    <3> QED
      BY <3>1, SubSeqProperties
  <2>3. On(c, Greeting(n)) \in [Conn -> Seq(Message)]
    BY <1>1 DEF On
  <2>4. inbox' \in [Node -> [Conn -> Seq(Message)]]
    BY <2>1, <2>2, <2>3, SentType
  <2>5. lost' \in [Node -> SUBSET Conn]
    BY <1>3 DEF ClientConfirm, Asked
  <2>6. /\ pool' \in [Node -> SUBSET Conn]
        /\ UNCHANGED <<server, client, gone, synced, fileVars, taskVars, jobs, req, restarts>>
    BY <1>3 DEF ClientConfirm
  <2> QED
    BY <2>4, <2>5, <2>6
<1>4. ASSUME NEW c \in Conn, Close(n, c) PROVE TypeOK'
  <2>1. inbox' \in [Node -> [Conn -> Seq(Message)]]
    BY <1>4 DEF Close
  <2>2. /\ gone' \in [Node -> SUBSET Conn] /\ pool' \in [Node -> SUBSET Conn]
        /\ synced' \in [Node -> SUBSET Conn]
    BY <1>4 DEF Close
  <2> QED
    BY <1>4, <2>1, <2>2 DEF Close
<1>5. Restart(n) => TypeOK'
  <2> SUFFICES ASSUME Restart(n) PROVE TypeOK'
    OBVIOUS
  <2>1. EndOf(n) \subseteq Conn
    BY DEF EndOf
  <2>2. inbox' \in [Node -> [Conn -> Seq(Message)]]
    BY DEF Restart
  <2>3. req' \in [Request -> Call]
    <3>1. \A i \in Request : req[i].node = n => [req[i] EXCEPT !.phase = "done"] \in Call
      BY CallType DEF Call, Phase
    <3> QED
      BY <3>1 DEF Restart
  <2>4. md5' \in [Node -> Content] /\ link' \in [Node -> Content]
    BY DEF Restart, Content
  <2>5. pool' \in [Node -> SUBSET Conn] /\ synced' \in [Node -> SUBSET Conn]
    BY DEF Restart
  <2>6. gone' \in [Node -> SUBSET Conn]
    BY <2>1 DEF Restart
  <2>7. restarts' \in Nat /\ jobs' \in [Node -> Seq(Job)]
    BY DEF Restart
  <2>8. /\ app' \in [Node -> Folder] /\ running' \in [Node -> Folder]
        /\ accept' \in [Node -> BOOLEAN] /\ local' \in [Node -> BOOLEAN]
        /\ isMaster' \in [Node -> BOOLEAN]
    BY FolderType DEF Restart
  <2> QED
    BY <2>2, <2>3, <2>4, <2>5, <2>6, <2>7, <2>8 DEF Restart
<1>6. ClearTasks(n) => TypeOK'
  BY FolderType DEF ClearTasks
<1> QED
  BY <1>2, <1>3, <1>4, <1>5, <1>6

\* The phases of a POST /tasks/init
LEMMA CallStepType ==
  ASSUME TypeOK, NEW i \in Request
  PROVE  /\ \A n \in Operators, v \in Version, loc \in BOOLEAN :
              InitRequest(i, n, v, loc) => TypeOK'
         /\ InitStep(i) => TypeOK'
         /\ InitFail(i) => TypeOK'
         /\ SpreadFail(i) => TypeOK'
<1> DEFINE n == req[i].node
<1> USE DEF TypeOK, fileVars, taskVars, netVars
<1>1. \A k \in Request : req[k] \in Call
  OBVIOUS
<1>2. \A k \in Request : req[k].phase # "idle" =>
        /\ req[k] \in Posting
        /\ req[k].node \in Node /\ req[k].ver \in Version /\ req[k].img \in Content
        /\ \A p \in Phase : [req[k] EXCEPT !.phase = p] \in Call
  BY <1>1, CallType DEF Call
<1> HIDE DEF n
<1>3. ASSUME NEW m \in Operators, NEW v \in Version, NEW loc \in BOOLEAN,
             InitRequest(i, m, v, loc)
      PROVE  TypeOK'
  <2>1. m \in Node
    BY GridAssumption
  <2>2. req' \in [Request -> Call]
    <3>1. [req[i] EXCEPT !.node = m, !.ver = v, !.phase = "starting"] \in Call
      <4>1. req[i] = Unsent
        BY <1>1, <1>3, CallType DEF InitRequest, Call
      <4> QED
        BY <4>1, <2>1, SendType DEF Call
    <3> QED
      BY <1>3, <3>1 DEF InitRequest
  <2>3. synced' \in [Node -> SUBSET Conn]
    BY <1>3 DEF InitRequest, Unflagged
  <2>4. accept' \in [Node -> BOOLEAN] /\ local' \in [Node -> BOOLEAN]
    BY <1>3 DEF InitRequest
  <2> QED
    BY <1>3, <2>2, <2>3, <2>4 DEF InitRequest
<1>4. ASSUME InitStarted(i) PROVE TypeOK'
  <2>1. req' \in [Request -> Call]
    <3>1. \A k \in Packing(req[i].node) \cup {i}, p \in {"packing", "mixed"} :
            [req[k] EXCEPT !.phase = p] \in Call
      BY <1>2, <1>4 DEF InitStarted, Packing, Phase
    <3> QED
      BY <1>1, <1>4, <3>1 DEF InitStarted
  <2>2. running' \in [Node -> Folder]
    BY <1>2, <1>4, FolderType DEF InitStarted
  <2>3. tmp' \in [Node -> Content]
    BY <1>4 DEF InitStarted, Content
  <2>4. accept' \in [Node -> BOOLEAN] /\ isMaster' \in [Node -> BOOLEAN]
    BY <1>4 DEF InitStarted
  <2>5. crossed' \subseteq Request /\ astray' \subseteq Node
    BY <1>2, <1>4 DEF InitStarted, Spreading
  <2>6. UNCHANGED <<netVars, md5, link, app, local, jobs, restarts>>
    BY <1>4 DEF InitStarted
  <2> QED
    BY <2>1, <2>2, <2>3, <2>4, <2>5, <2>6
<1>5. ASSUME InitFail(i) PROVE TypeOK'
  <2>1. running' \in [Node -> Folder]
    <3>1. PICK f \in {running[n]} \cup Parts(Whole(req[i].ver)) :
                running' = [running EXCEPT ![n] = f]
      BY <1>5 DEF InitFail, n
    <3>2. n \in Node
      BY <1>2, <1>5 DEF InitFail, n
    <3> QED
      BY <3>1, <3>2, FolderType
  <2>2. req' \in [Request -> Call]
    BY <1>5, <1>2 DEF InitFail, Phase
  <2> QED
    BY <1>5, <2>1, <2>2 DEF InitFail
<1>6. ASSUME PackDone(i) PROVE TypeOK'
  <2>1. PICK x \in Packed(i) :
          /\ tmp' = [tmp EXCEPT ![n] = x]
          /\ \/ /\ synced' = Flagged(n)
                /\ req' = [req EXCEPT ![i].phase = "done"]
                /\ UNCHANGED md5
             \/ /\ md5' = [md5 EXCEPT ![n] = x]
                /\ req' = [req EXCEPT ![i].phase = "archiving", ![i].img = x]
                /\ UNCHANGED synced
          /\ UNCHANGED <<server, client, pool, gone, inbox, lost, isMaster, link,
                         crossed, astray, taskVars, jobs, restarts>>
    BY <1>6, Zenon DEF PackDone, n
  <2>2. n \in Node /\ x \in Content /\ req[i].phase # "idle"
    <3>1. req[i].phase # "idle"
      BY <1>6 DEF PackDone
    <3>2. n \in Node /\ req[i].ver \in Version /\ tmp[n] \in Content
      BY <1>2, <3>1 DEF n
    <3>3. \A k \in Packing(n) : req[k].ver \in Version
      BY <1>2 DEF Packing
    <3> QED
      BY <3>1, <3>2, <3>3 DEF Packed, Content, n
  <2>3. req' \in [Request -> Call]
    <3>1. [req[i] EXCEPT !.phase = "archiving", !.img = x] \in Call
      BY <1>2, <2>2, ArchivingType DEF Call
    <3>2. [req[i] EXCEPT !.phase = "done"] \in Call
      BY <1>2, <2>2 DEF Phase
    <3> QED
      BY <2>1, <3>1, <3>2
  <2>4. /\ tmp' \in [Node -> Content] /\ md5' \in [Node -> Content]
        /\ synced' \in [Node -> SUBSET Conn]
    <3>1. Flagged(n) \in [Node -> SUBSET Conn]
      BY <2>2 DEF Flagged
    <3>2. tmp' \in [Node -> Content]
      BY <2>1, <2>2
    <3>3. md5' \in [Node -> Content]
      BY <2>1, <2>2
    <3>4. synced' \in [Node -> SUBSET Conn]
      BY <2>1, <3>1
    <3> QED
      BY <3>2, <3>3, <3>4
  <2> QED
    BY <2>1, <2>3, <2>4
<1>7. ASSUME SpreadFail(i) PROVE TypeOK'
  <2>1. req' \in [Request -> Call]
    BY <1>7, <1>2 DEF SpreadFail, Phase
  <2>2. astray' \subseteq Node
    BY <1>7, <1>2 DEF SpreadFail
  <2> QED
    BY <1>7, <2>1, <2>2 DEF SpreadFail, Flagged
<1>8. ASSUME Archived(i) PROVE TypeOK'
  <2>1. Archives(i) \subseteq Content
    <3>1. req[i].node \in Node /\ req[i].img \in Content
      BY <1>2, <1>8 DEF Archived
    <3> QED
      BY <3>1 DEF Archives, Content
  <2>2. link' \in [Node -> Content]
    BY <1>8, <2>1 DEF Archived
  <2>3. req' \in [Request -> Call]
    BY <1>8, <1>2 DEF Archived, Phase
  <2>4. astray' \subseteq Node
    BY <1>8 DEF Archived
  <2> QED
    BY <1>8, <2>2, <2>3, <2>4 DEF Archived
<1>9. ASSUME Joined(i) PROVE TypeOK'
  <2>1. CASE pool[n] = {}
    <3>1. req' \in [Request -> Call]
      BY <1>9, <2>1, <1>2 DEF Joined, Phase, n
    <3> QED
      BY <1>9, <2>1, <3>1 DEF Joined, n
  <2>2. CASE pool[n] # {}
    <3> DEFINE c == Least(pool[n])
    <3>1. n \in Node /\ pool[n] \subseteq Conn /\ c \in Conn
      <4>1. n \in Node /\ pool[n] \subseteq Conn
        BY <1>2, <1>9 DEF Joined, n
      <4> QED
        BY <4>1, <2>2, LeastIn
    <3>2. req' \in [Request -> Call]
      <4>1. [req[i] EXCEPT !.phase = "asking", !.wait = c, !.todo = pool[n] \ {c}] \in Call
        <5>1. req[i] \in Posting
          BY <1>2, <1>9 DEF Joined
        <5> QED
          BY <3>1, <5>1, AskingType DEF Call
      <4> QED
        BY <1>9, <2>2, <4>1 DEF Joined, n
    <3>3. inbox' \in [Node -> [Conn -> Seq(Message)]]
      <4>1. On(c, <<Sync(link[n])>>) \in [Conn -> Seq(Message)]
        <5>1. Sync(link[n]) \in Message
          BY <3>1, MessageType
        <5> QED
          BY <5>1, OutType
      <4>2. inbox' = Sent(inbox, n, On(c, <<Sync(link[n])>>))
        BY <1>9, <2>2 DEF Joined, n
      <4>3. inbox \in [Node -> [Conn -> Seq(Message)]]
        OBVIOUS
      <4> QED
        BY <4>1, <4>2, <4>3, SentType
    <3>4. lost' \in [Node -> SUBSET Conn]
      BY <1>9, <2>2 DEF Joined, Asked, n
    <3> QED
      BY <1>9, <2>2, <3>2, <3>3, <3>4 DEF Joined, n
  <2> QED
    BY <2>1, <2>2
<1> QED
  BY <1>3, <1>4, <1>5, <1>6, <1>7, <1>8, <1>9 DEF InitStep

\* The messages a node receives
LEMMA ReceiveType ==
  ASSUME TypeOK, NEW n \in Node, NEW c \in Conn
  PROVE  /\ ReceiveDone(n, c) => TypeOK'
         /\ ReceiveSync(n, c) => TypeOK'
         /\ ReceiveError(n, c) => TypeOK'
<1> USE DEF TypeOK, fileVars, taskVars, netVars
<1> DEFINE box == [inbox EXCEPT ![n][c] = Tail(@)]
<1>1. inbox[n][c] # <<>> => box \in [Node -> [Conn -> Seq(Message)]]
  <2>1. inbox[n][c] # <<>> => Tail(inbox[n][c]) \in Seq(Message)
    OBVIOUS
  <2> QED
    BY <2>1
<1>2. ASSUME ReceiveDone(n, c) PROVE TypeOK'
  <2> DEFINE W      == Waiting(n, c)
             out(d) == [x \in 1 .. Cardinality(NextOn(W, d)) |-> Sync(link[n])]
  <2>1. /\ inbox[n][c] # <<>>
        /\ inbox' = Sent(box, n, [d \in Conn |-> out(d)])
    BY <1>2 DEF ReceiveDone
  <2>2. ASSUME NEW d \in Conn PROVE out(d) \in Seq(Message)
    <3>1. Cardinality(NextOn(W, d)) \in Nat
      <4>1. NextOn(W, d) \subseteq Request
        BY DEF NextOn, Waiting, Loops
      <4> QED
        BY <4>1, GridAssumption, FS_Subset, FS_CardinalityType
    <3>2. Sync(link[n]) \in Message
      BY MessageType
    <3> QED
      BY ONLY <3>1, <3>2, CopiesType
  <2>3. inbox' \in [Node -> [Conn -> Seq(Message)]]
    <3> HIDE DEF box, out
    <3>1. [d \in Conn |-> out(d)] \in [Conn -> Seq(Message)]
      BY <2>2
    <3> QED
      BY <1>1, <2>1, <3>1, SentType
  <2>4. req' \in [Request -> Call]
    <3>1. ASSUME NEW i \in W
          PROVE  /\ [req[i] EXCEPT !.phase = "done"] \in Call
                 /\ req[i].todo # {} =>
                      [req[i] EXCEPT !.wait = Following(i), !.todo = @ \ {Following(i)}] \in Call
      <4>1. i \in Request /\ req[i] \in Posting
        BY CallType DEF Waiting, Loops
      <4>2. req[i].todo \subseteq Conn
        BY <4>1, CallType
      <4>3. req[i].todo # {} => Following(i) \in Conn
        BY <4>2, LeastIn DEF Following
      <4> QED
        BY <4>1, <4>2, <4>3, CallType, AskingType DEF Call, Phase
    <3> QED
      BY <1>2, <3>1 DEF ReceiveDone
  <2>5. synced' \in [Node -> SUBSET Conn]
    BY <1>2 DEF ReceiveDone
  <2>6. lost' \in [Node -> SUBSET Conn]
    BY <1>2 DEF ReceiveDone, Asked
  <2>7. UNCHANGED <<server, client, pool, gone, fileVars, taskVars, jobs, restarts>>
    BY <1>2 DEF ReceiveDone
  <2> HIDE DEF W, out
  <2> QED
    BY <2>3, <2>4, <2>5, <2>6, <2>7
<1>3. ASSUME ReceiveSync(n, c) PROVE TypeOK'
  <2>1. Head(inbox[n][c]) \in Message
    BY <1>3 DEF ReceiveSync
  <2>2. [conn |-> c, stage |-> "deleting", link |-> Head(inbox[n][c]).link] \in Job
    BY <2>1 DEF Message, Job, Stage
  <2>3. jobs' \in [Node -> Seq(Job)]
    BY <1>3, <2>2 DEF ReceiveSync
  <2>4. inbox' \in [Node -> [Conn -> Seq(Message)]]
    BY <1>1, <1>3 DEF ReceiveSync
  <2> QED
    BY <1>3, <2>3, <2>4 DEF ReceiveSync
<1>4. ASSUME ReceiveError(n, c) PROVE TypeOK'
  <2>1. inbox' \in [Node -> [Conn -> Seq(Message)]]
    BY <1>1, <1>4 DEF ReceiveError
  <2> QED
    BY <1>4, <2>1 DEF ReceiveError
<1> QED
  BY <1>2, <1>3, <1>4

\* The catch branch and the advance of a 'sync' handler
LEMMA HandlerType ==
  ASSUME TypeOK, NEW n \in Node, NEW x \in DOMAIN jobs[n]
  PROVE  /\ jobs[n][x] \in Job
         /\ GiveUp(n, x) \/ BreakUp(n, x) =>
                            /\ jobs' \in [Node -> Seq(Job)]
                            /\ inbox' \in [Node -> [Conn -> Seq(Message)]]
                            /\ lost' \in [Node -> SUBSET Conn]
         /\ \A s \in Stage : Advance(n, x, s) =>
                            /\ jobs' \in [Node -> Seq(Job)]
                            /\ inbox' \in [Node -> [Conn -> Seq(Message)]]
                            /\ lost' \in [Node -> SUBSET Conn]
<1> USE DEF TypeOK
<1>1. jobs[n] \in Seq(Job) /\ jobs[n][x] \in Job
  OBVIOUS
<1>2. ASSUME GiveUp(n, x) \/ BreakUp(n, x)
      PROVE  /\ jobs' \in [Node -> Seq(Job)]
             /\ inbox' \in [Node -> [Conn -> Seq(Message)]]
             /\ lost' \in [Node -> SUBSET Conn]
  <2>1. Without(jobs[n], x) \in Seq(Job)
    BY <1>1, WithoutType
  <2>2. ToPool(n, Error) \in [Conn -> Seq(Message)]
    BY MessageType, OutType
  <2>3. inbox' \in [Node -> [Conn -> Seq(Message)]]
    <3>1. CASE inbox' = Sent(inbox, n, ToPool(n, Error))
      BY <2>2, <3>1, SentType
    <3>2. CASE UNCHANGED inbox
      BY <3>2
    <3> QED
      BY <1>2, <3>1, <3>2 DEF GiveUp, BreakUp
  <2>4. jobs[n][x].conn \in Conn
    BY <1>1 DEF Job
  <2>5. Fails(n, x)
    BY <1>2 DEF GiveUp, BreakUp
  <2> QED
    BY <2>1, <2>3, <2>4, <2>5 DEF Fails
<1>3. ASSUME NEW s \in Stage, Advance(n, x, s)
      PROVE  /\ jobs' \in [Node -> Seq(Job)]
             /\ inbox' \in [Node -> [Conn -> Seq(Message)]]
             /\ lost' \in [Node -> SUBSET Conn]
  <2>1. [jobs[n][x] EXCEPT !.stage = s] \in Job
    BY <1>1 DEF Job
  <2>2. [jobs[n] EXCEPT ![x].stage = s] \in Seq(Job)
    BY <1>1, <2>1
  <2> QED
    BY <1>3, <2>2 DEF Advance
<1> QED
  BY <1>1, <1>2, <1>3

\* The 'sync' handler
LEMMA SyncStepType ==
  ASSUME TypeOK, NEW n \in Node, NEW x \in DOMAIN jobs[n]
  PROVE  /\ SyncDeleted(n, x) => TypeOK'
         /\ SyncDownloaded(n, x) => TypeOK'
         /\ SyncBroken(n, x) => TypeOK'
         /\ SyncStarted(n, x) => TypeOK'
         /\ SyncFail(n, x) => TypeOK'
<1> USE DEF TypeOK, fileVars, taskVars, netVars
<1>1. ASSUME SyncDeleted(n, x) PROVE TypeOK'
  <2>1. GiveUp(n, x) \/ Advance(n, x, "downloading")
    BY <1>1 DEF SyncDeleted
  <2>2. running' \in [Node -> Folder]
    BY <1>1, FolderType DEF SyncDeleted
  <2>3. UNCHANGED <<server, client, pool, gone, synced, fileVars, app, accept, local,
                    req, restarts>>
    BY <1>1 DEF SyncDeleted
  <2> QED
    BY <2>1, <2>2, <2>3, HandlerType DEF Stage
<1>2. ASSUME SyncDownloaded(n, x) PROVE TypeOK'
  <2>1. Advance(n, x, "starting")
    BY <1>2 DEF SyncDownloaded
  <2>2. PICK v \in Unpacking(n) \ {Torn} :
          \E f \in Mixtures(Layered(app[n], v), Others(n, x)) : app' = [app EXCEPT ![n] = f]
    BY <1>2 DEF SyncDownloaded
  <2>3. app' \in [Node -> Folder]
    BY <2>2, FolderType
  <2>4. accept' \in [Node -> BOOLEAN] /\ local' \in [Node -> BOOLEAN]
    BY <1>2 DEF SyncDownloaded
  <2>5. UNCHANGED <<server, client, pool, gone, synced, fileVars, running, req, restarts>>
    BY <1>2 DEF SyncDownloaded
  <2> QED
    BY <2>1, <2>3, <2>4, <2>5, HandlerType DEF Stage
<1>3. ASSUME SyncBroken(n, x) PROVE TypeOK'
  <2>1. GiveUp(n, x)
    BY <1>3 DEF SyncBroken
  <2>2. PICK f \in Mixtures(app[n], Unpacking(n)) : app' = [app EXCEPT ![n] = f]
    BY <1>3 DEF SyncBroken
  <2>3. app' \in [Node -> Folder]
    BY <2>2, FolderType
  <2>4. UNCHANGED <<server, client, pool, gone, synced, fileVars, running, accept, local,
                    req, restarts>>
    BY <1>3 DEF SyncBroken
  <2> QED
    BY <2>1, <2>3, <2>4, HandlerType
<1>4. ASSUME SyncStarted(n, x) PROVE TypeOK'
  <2>1. Without(jobs[n], x) \in Seq(Job) /\ jobs[n][x].link \in Content
    BY WithoutType, HandlerType DEF Job
  <2>2. ToPool(n, Done(jobs[n][x].link)) \in [Conn -> Seq(Message)]
    BY <2>1, MessageType, OutType
  <2>3. inbox' \in [Node -> [Conn -> Seq(Message)]]
    BY <1>4, <2>2, SentType DEF SyncStarted
  <2>4. running' \in [Node -> Folder]
    <3>1. PICK f \in Mixtures(app[n], Unpacking(n)) : running' = [running EXCEPT ![n] = f]
      BY <1>4 DEF SyncStarted
    <3> QED
      BY <3>1, FolderType
  <2>5. accept' \in [Node -> BOOLEAN] /\ jobs' \in [Node -> Seq(Job)]
    BY <1>4, <2>1 DEF SyncStarted
  <2>6. UNCHANGED <<server, client, pool, gone, synced, lost, fileVars, app, local,
                    req, restarts>>
    BY <1>4 DEF SyncStarted
  <2> QED
    BY <2>3, <2>4, <2>5, <2>6
<1>5. ASSUME SyncFail(n, x) PROVE TypeOK'
  <2>1. PICK f \in Mixtures(app[n], Unpacking(n)) :
          /\ app' = [app EXCEPT ![n] = IF jobs[n][x].stage = "downloading" THEN f ELSE @]
          /\ \E g \in {running[n]} \cup IF jobs[n][x].stage = "starting" THEN Parts(f) ELSE {} :
               running' = [running EXCEPT ![n] = g]
    BY <1>5, Zenon DEF SyncFail
  <2>2. app' \in [Node -> Folder] /\ running' \in [Node -> Folder]
    BY <2>1, FolderType
  <2>3. GiveUp(n, x) \/ BreakUp(n, x)
    BY <1>5 DEF SyncFail
  <2>4. UNCHANGED <<server, client, pool, gone, synced, fileVars, accept, local, req,
                    restarts>>
    BY <1>5 DEF SyncFail
  <2> QED
    BY <2>2, <2>3, <2>4, HandlerType
<1> QED
  BY <1>1, <1>2, <1>3, <1>4, <1>5

LEMMA StepType == TypeOK /\ [Next]_vars => TypeOK'
<1> SUFFICES ASSUME TypeOK, [Next]_vars PROVE TypeOK'
  OBVIOUS
<1>1. CASE UNCHANGED vars
  BY <1>1 DEF TypeOK, vars, netVars, fileVars, taskVars
<1>2. CASE \E s, k \in Node : AcceptPeer(s, k)
  BY <1>2, ConnectionStepType
<1>3. CASE \E i \in Request, n \in Operators, v \in Version, loc \in BOOLEAN :
             InitRequest(i, n, v, loc)
  BY <1>3, CallStepType
<1>4. CASE \E i \in Request : InitStep(i) \/ InitFail(i) \/ SpreadFail(i)
  BY <1>4, CallStepType
<1>5. CASE \E n \in Node, c \in Conn : Receive(n, c) \/ Close(n, c)
  BY <1>5, ConnectionStepType, ReceiveType DEF Receive
<1>6. CASE \E n \in Node : SyncStep(n) \/ Download(n) \/ \E x \in DOMAIN jobs[n] : SyncFail(n, x)
  BY <1>6, SyncStepType DEF SyncStep, Download
<1>7. CASE \E n \in Node : Restart(n) \/ ClearTasks(n)
  BY <1>7, ConnectionStepType
<1> QED
  BY <1>1, <1>2, <1>3, <1>4, <1>5, <1>6, <1>7 DEF Next

\* Every variable has its type in every reachable state.
THEOREM TypeCorrect == Spec => []TypeOK
<1>1. Init => TypeOK
  BY InitType
<1>2. TypeOK /\ [Next]_vars => TypeOK'
  BY StepType
<1> QED
  BY <1>1, <1>2, PTL DEF Spec

----------------------------------------------------------------------------
(* No wake-up of askAllPeersToSync is lost, for any number of overlapping     *)
(* calls and masters, and in all circumstances.  The inductive invariant:    *)

\* The routers a node has had since it started
Known(n) == pool[n] \cup gone[n]

\* A connection has two different ends or none; a node's routers, those its
\* handlers answer and those its loops ask are connections of the node.
Wired ==
  /\ \A c \in Conn : IF server[c] = None THEN client[c] = None
                     ELSE client[c] \in Node \ {server[c]}
  /\ \A n \in Node : Known(n) \subseteq EndOf(n)
  /\ \A n \in Node : \A x \in DOMAIN jobs[n] : jobs[n][x].conn \in Known(n)
  /\ \A i \in Request : req[i].phase = "asking" =>
       {req[i].wait} \cup req[i].todo \subseteq Known(req[i].node)

----------------------------------------------------------------------------
(* The wiring is kept *)

\* A step that leaves the connections alone
LEMMA SameRouters ==
  ASSUME Wired, UNCHANGED <<server, client, pool, gone>>,
         \A n \in Node : \A x \in DOMAIN jobs'[n] : jobs'[n][x].conn \in Known(n),
         \A i \in Request : req'[i].phase = "asking" =>
           {req'[i].wait} \cup req'[i].todo \subseteq Known(req'[i].node)
  PROVE  Wired'
<1>1. \A n \in Node : Known(n)' = Known(n) /\ EndOf(n)' = EndOf(n)
  BY DEF Known, EndOf
<1>2. \A i \in Request : Known(req[i].node)' = Known(req'[i].node)
  BY DEF Known
<1>3. \A n \in Node : \A x \in DOMAIN jobs'[n] : jobs'[n][x].conn \in Known(n)'
  BY <1>1
<1>4. \A n \in Node : Known(n)' \subseteq EndOf(n)'
  BY <1>1 DEF Wired
<1>5. \A c \in Conn : IF server'[c] = None THEN client'[c] = None
                      ELSE client'[c] \in Node \ {server'[c]}
  BY DEF Wired
<1> QED
  BY <1>2, <1>3, <1>4, <1>5 DEF Wired

LEMMA ConnectionStepWired ==
  ASSUME TypeOK, Wired, NEW n \in Node
  PROVE  /\ \A k \in Node : AcceptPeer(n, k) => Wired'
         /\ \A c \in Conn : ClientConfirm(n, c) => Wired'
         /\ \A c \in Conn : Close(n, c) => Wired'
         /\ Restart(n) => Wired'
<1> USE DEF TypeOK
<1>1. ASSUME NEW k \in Node, AcceptPeer(n, k) PROVE Wired'
  <2>1. PICK d \in Conn : /\ n # k /\ server[d] = None
                          /\ server' = [server EXCEPT ![d] = n]
                          /\ client' = [client EXCEPT ![d] = k]
                          /\ pool' = [pool EXCEPT ![n] = @ \cup {d}]
                          /\ UNCHANGED <<gone, jobs, req>>
    BY <1>1 DEF AcceptPeer
  <2>2. \A c \in Conn : IF server'[c] = None THEN client'[c] = None
                        ELSE client'[c] \in Node \ {server'[c]}
    BY <2>1, GridAssumption DEF Wired
  <2>3. \A m \in Node : EndOf(m) \subseteq EndOf(m)'
    <3>1. \A m \in Node : d \notin EndOf(m)
      BY <2>1, GridAssumption DEF EndOf, Wired
    <3> QED
      BY <2>1, <3>1 DEF EndOf
  <2>4. d \in EndOf(n)'
    BY <2>1 DEF EndOf
  <2>5. \A m : Known(m) \subseteq Known(m)'
    BY <2>1 DEF Known
  <2>6. \A m \in Node : Known(m)' \subseteq EndOf(m)'
    <3>1. \A m \in Node : Known(m)' \subseteq Known(m) \cup IF m = n THEN {d} ELSE {}
      BY <2>1 DEF Known
    <3>2. \A m \in Node : Known(m) \subseteq EndOf(m)
      BY DEF Wired
    <3> QED
      BY <2>3, <2>4, <3>1, <3>2
  <2>7. \A m \in Node : \A x \in DOMAIN jobs'[m] : jobs'[m][x].conn \in Known(m)'
    BY <2>1, <2>5 DEF Wired
  <2>8. \A i \in Request : req'[i].phase = "asking" =>
          {req'[i].wait} \cup req'[i].todo \subseteq Known(req[i].node)'
    <3>1. \A i \in Request : Known(req[i].node) \subseteq Known(req[i].node)'
      BY <2>1 DEF Known
    <3> QED
      BY <2>1, <3>1 DEF Wired
  <2> QED
    BY <2>2, <2>6, <2>7, <2>8, Zenon DEF Wired
<1>2. ASSUME NEW c \in EndOf(n), UNCHANGED <<server, client, jobs, req>>,
             \A m \in Node : Known(m)' = Known(m) \cup IF m = n THEN {c} ELSE {}
      PROVE  Wired'
  <2>1. \A m \in Node : EndOf(m)' = EndOf(m)
    BY <1>2 DEF EndOf
  <2>2. \A i \in Request : req[i].phase = "asking" => req[i].node \in Node
    BY CallType
  <2>3. \A i \in Request : req[i].phase = "asking" => Known(req[i].node) \subseteq Known(req[i].node)'
    BY <1>2, <2>2
  <2>4. \A m \in Node : Known(m)' \subseteq EndOf(m)'
    BY <1>2, <2>1 DEF Wired
  <2>5. \A m \in Node : \A x \in DOMAIN jobs'[m] : jobs'[m][x].conn \in Known(m)'
    BY <1>2 DEF Wired
  <2>6. \A i \in Request : req'[i].phase = "asking" =>
          {req'[i].wait} \cup req'[i].todo \subseteq Known(req[i].node)'
    BY <1>2, <2>3 DEF Wired
  <2>7. \A e \in Conn : IF server'[e] = None THEN client'[e] = None
                        ELSE client'[e] \in Node \ {server'[e]}
    BY <1>2 DEF Wired
  <2> QED
    BY <2>4, <2>5, <2>6, <2>7, Zenon DEF Wired
<1>3. ASSUME NEW c \in Conn, ClientConfirm(n, c) PROVE Wired'
  <2>1. /\ c \in EndOf(n) /\ pool' = [pool EXCEPT ![n] = @ \cup {c}]
        /\ UNCHANGED <<server, client, gone, jobs, req>>
    BY <1>3 DEF ClientConfirm, EndOf
  <2>2. \A m \in Node : Known(m)' = Known(m) \cup IF m = n THEN {c} ELSE {}
    BY <2>1 DEF Known
  <2> QED
    BY <1>2, <2>1, <2>2
<1>4. ASSUME NEW c \in Conn, Close(n, c) PROVE Wired'
  <2>1. /\ c \in EndOf(n)
        /\ gone' = [gone EXCEPT ![n] = @ \cup {c}] /\ pool' = [pool EXCEPT ![n] = @ \ {c}]
        /\ UNCHANGED <<server, client, jobs, req>>
    BY <1>4 DEF Close
  <2>2. \A m \in Node : Known(m)' = Known(m) \cup IF m = n THEN {c} ELSE {}
    BY <2>1 DEF Known
  <2> QED
    BY <1>2, <2>1, <2>2
<1>5. ASSUME Restart(n) PROVE Wired'
  <2>1. /\ UNCHANGED <<server, client>>
        /\ pool' = [pool EXCEPT ![n] = {}] /\ gone' = [gone EXCEPT ![n] = EndOf(n)]
        /\ jobs' = [jobs EXCEPT ![n] = <<>>]
    BY <1>5 DEF Restart
  <2>2. \A m \in Node : EndOf(m)' = EndOf(m)
    BY <2>1 DEF EndOf
  <2>3. \A m \in Node : Known(m)' = IF m = n THEN EndOf(n) ELSE Known(m)
    <3>1. EndOf(n) \subseteq Conn
      BY DEF EndOf
    <3> QED
      BY <2>1, <3>1 DEF Known
  <2>4. \A m \in Node : \A x \in DOMAIN jobs'[m] : jobs'[m][x].conn \in Known(m)'
    BY <2>1, <2>3 DEF Wired
  <2>5. \A i \in Request : req'[i].phase = "asking" =>
          {req'[i].wait} \cup req'[i].todo \subseteq Known(req[i].node)'
    <3> SUFFICES ASSUME NEW i \in Request, req'[i].phase = "asking"
                 PROVE  {req'[i].wait} \cup req'[i].todo \subseteq Known(req[i].node)'
      OBVIOUS
    <3>1. req'[i] = req[i] /\ req[i].node # n
      <4>1. req[i].node = n => [req[i] EXCEPT !.phase = "done"].phase # "asking"
        BY CallType DEF Posting
      <4> QED
        BY <1>5, <4>1 DEF Restart
    <3>2. req[i].node \in Node
      BY <3>1, CallType
    <3>3. Known(req[i].node)' = Known(req[i].node)
      BY <2>1, <3>1, <3>2 DEF Known
    <3>4. {req[i].wait} \cup req[i].todo \subseteq Known(req[i].node)
      BY <3>1 DEF Wired
    <3> QED
      BY <3>1, <3>3, <3>4 DEF Known
  <2>6. \A m \in Node : Known(m)' \subseteq EndOf(m)'
    <3>1. \A m \in Node : Known(m) \subseteq EndOf(m)
      BY DEF Wired
    <3> QED
      BY ONLY <2>2, <2>3, <3>1
  <2>7. \A c \in Conn : IF server'[c] = None THEN client'[c] = None
                        ELSE client'[c] \in Node \ {server'[c]}
    BY <2>1 DEF Wired
  <2> QED
    BY <2>4, <2>5, <2>6, <2>7, Zenon DEF Wired
<1> QED
  BY <1>1, <1>3, <1>4, <1>5

LEMMA CallStepWired ==
  ASSUME TypeOK, Wired, NEW i \in Request
  PROVE  /\ \A n \in Operators, v \in Version, loc \in BOOLEAN :
              InitRequest(i, n, v, loc) => Wired'
         /\ InitStep(i) => Wired'
         /\ InitFail(i) => Wired'
         /\ SpreadFail(i) => Wired'
<1>1. \A k \in Request : req[k].phase # "idle" => req[k] \in Posting
  BY CallType DEF TypeOK
<1>2. ASSUME UNCHANGED <<server, client, pool, gone, jobs>>,
             \A k \in Request : \/ req'[k].phase # "asking"
                                \/ req'[k] = req[k]
                                \/ {req'[k].wait} \cup req'[k].todo \subseteq pool[req'[k].node]
      PROVE  Wired'
  <2>1. \A n \in Node : \A x \in DOMAIN jobs'[n] : jobs'[n][x].conn \in Known(n)
    BY <1>2 DEF Wired
  <2>2. \A k \in Request : req'[k].phase = "asking" =>
          {req'[k].wait} \cup req'[k].todo \subseteq Known(req'[k].node)
    BY <1>2 DEF Wired, Known
  <2> QED
    BY <1>2, <2>1, <2>2, SameRouters
<1>3. ASSUME NEW n \in Operators, NEW v \in Version, NEW loc \in BOOLEAN,
             InitRequest(i, n, v, loc)
      PROVE  Wired'
  <2>1. req' = [req EXCEPT ![i].node = n, ![i].ver = v, ![i].phase = "starting"]
    BY <1>3 DEF InitRequest
  <2>2. req[i] \in Call
    BY DEF TypeOK
  <2>3. req'[i] = [req[i] EXCEPT !.node = n, !.ver = v, !.phase = "starting"]
    BY <2>1 DEF TypeOK
  <2>4. req'[i].phase # "asking"
    BY <2>2, <2>3 DEF Call, Unsent, Posting
  <2> QED
    BY <1>2, <1>3, <2>1, <2>4 DEF InitRequest, TypeOK
<1>4. ASSUME NEW p \in Phase, p # "asking", req[i].phase # "idle",
             req' = [req EXCEPT ![i].phase = p], UNCHANGED <<server, client, pool, gone, jobs>>
      PROVE  Wired'
  <2>1. req'[i].phase # "asking"
    BY <1>1, <1>4 DEF TypeOK, Posting
  <2> QED
    BY <1>2, <1>4, <2>1 DEF TypeOK
<1>5. ASSUME InitStarted(i) PROVE Wired'
  <2>1. \A k \in Request : req'[k] = req[k] \/ req'[k].phase # "asking"
    <3>1. \A k \in Packing(req[i].node) \cup {i} : req[k] \in Posting
      BY <1>1, <1>5 DEF InitStarted, Packing
    <3> QED
      BY <1>5, <3>1 DEF InitStarted, Posting
  <2> QED
    BY <1>2, <1>5, <2>1 DEF InitStarted, netVars
<1>6. ASSUME InitFail(i) \/ SpreadFail(i) \/ Archived(i) PROVE Wired'
  BY <1>4, <1>6 DEF InitFail, SpreadFail, Archived, netVars, Phase
<1>7. ASSUME PackDone(i) PROVE Wired'
  <2>1. req[i] \in Posting /\ UNCHANGED <<server, client, pool, gone, jobs>>
    BY <1>1, <1>7 DEF PackDone
  <2>2. \/ req' = [req EXCEPT ![i].phase = "done"]
        \/ \E x : req' = [req EXCEPT ![i].phase = "archiving", ![i].img = x]
    BY <1>7, Zenon DEF PackDone
  <2>3. req'[i].phase # "asking" /\ \A k \in Request \ {i} : req'[k] = req[k]
    BY <2>1, <2>2 DEF TypeOK, Posting
  <2> QED
    BY <1>2, <2>1, <2>3
<1>8. ASSUME Joined(i) PROVE Wired'
  <2> DEFINE n == req[i].node
             c == Least(pool[n])
  <2>1. req[i] \in Posting /\ UNCHANGED <<server, client, pool, gone, jobs>>
    BY <1>1, <1>8 DEF Joined
  <2>2. CASE pool[n] = {}
    BY <1>4, <1>8, <2>1, <2>2 DEF Joined, Phase
  <2>3. CASE pool[n] # {}
    <3>1. c \in pool[n]
      <4>1. pool[n] \subseteq Conn
        BY <2>1 DEF Posting, TypeOK
      <4> QED
        BY <2>3, <4>1, LeastIn
    <3>2. req' = [req EXCEPT ![i].phase = "asking", ![i].wait = c, ![i].todo = pool[n] \ {c}]
      BY <1>8, <2>3 DEF Joined
    <3> HIDE DEF c, n
    <3>3. {req'[i].wait} \cup req'[i].todo \subseteq pool[n] /\ req'[i].node = req[i].node
      BY <2>1, <3>1, <3>2 DEF TypeOK, Posting
    <3>4. \A k \in Request \ {i} : req'[k] = req[k]
      BY <3>2 DEF TypeOK
    <3> QED
      BY <1>2, <2>1, <3>3, <3>4 DEF n
  <2> QED
    BY <2>2, <2>3
<1> QED
  BY <1>3, <1>5, <1>6, <1>7, <1>8 DEF InitStep

LEMMA MessageStepWired ==
  ASSUME TypeOK, Wired, NEW n \in Node, NEW c \in Conn
  PROVE  /\ ReceiveDone(n, c) => Wired'
         /\ ReceiveSync(n, c) => Wired'
         /\ ReceiveError(n, c) => Wired'
<1>1. ASSUME ReceiveDone(n, c) PROVE Wired'
  <2>1. UNCHANGED <<server, client, pool, gone, jobs>>
    BY <1>1 DEF ReceiveDone
  <2>2. ASSUME NEW i \in Request, req'[i].phase = "asking"
        PROVE  {req'[i].wait} \cup req'[i].todo \subseteq Known(req'[i].node)
    <3>1. CASE i \notin Waiting(n, c)
      BY <1>1, <2>2, <3>1 DEF ReceiveDone, Wired
    <3>2. CASE i \in Waiting(n, c)
      <4>1. req[i] \in Posting /\ req[i].todo \subseteq Conn /\ req[i].phase = "asking"
        BY <3>2, CallType DEF TypeOK, Waiting, Loops
      <4>2. req[i].todo # {} /\ req'[i] = [req[i] EXCEPT !.wait = Following(i),
                                                         !.todo = @ \ {Following(i)}]
        <5>1. [req[i] EXCEPT !.phase = "done"].phase # "asking"
          BY <4>1 DEF Posting
        <5> QED
          BY <1>1, <2>2, <3>2, <5>1 DEF ReceiveDone
      <4>3. Following(i) \in req[i].todo
        BY <4>1, <4>2, LeastIn DEF Following
      <4>4. /\ {req'[i].wait} \cup req'[i].todo \subseteq req[i].todo
            /\ req'[i].node = req[i].node
        BY <4>1, <4>2, <4>3 DEF Posting
      <4> QED
        BY <4>1, <4>4 DEF Wired
    <3> QED
      BY <3>1, <3>2
  <2>3. \A m \in Node : \A x \in DOMAIN jobs'[m] : jobs'[m][x].conn \in Known(m)
    BY <2>1 DEF Wired
  <2> QED
    BY <2>1, <2>2, <2>3, SameRouters
<1>2. ASSUME ReceiveSync(n, c) PROVE Wired'
  <2>1. PICK j : /\ j.conn = c
                 /\ jobs' = [jobs EXCEPT ![n] = Append(@, j)]
    BY <1>2 DEF ReceiveSync
  <2>2. /\ UNCHANGED <<server, client, pool, gone, req>>
        /\ c \in Known(n)
    BY <1>2 DEF ReceiveSync, Known
  <2>3. ASSUME NEW m \in Node, NEW x \in DOMAIN jobs'[m]
        PROVE  jobs'[m][x].conn \in Known(m)
    <3>1. jobs[m] \in Seq(Job) /\ \A y \in DOMAIN jobs[m] : jobs[m][y].conn \in Known(m)
      BY DEF TypeOK, Wired
    <3>2. CASE m = n
      <4>1. jobs'[m] = Append(jobs[m], j)
        BY <2>1, <3>2 DEF TypeOK
      <4>2. \/ jobs'[m][x] = j
            \/ x \in DOMAIN jobs[m] /\ jobs'[m][x] = jobs[m][x]
        BY <3>1, <4>1
      <4> QED
        BY <2>1, <2>2, <3>1, <3>2, <4>2
    <3>3. CASE m # n
      BY <2>1, <3>1, <3>3 DEF TypeOK
    <3> QED
      BY <3>2, <3>3
  <2>4. \A i \in Request : req'[i].phase = "asking" =>
          {req'[i].wait} \cup req'[i].todo \subseteq Known(req'[i].node)
    BY <2>2 DEF Wired
  <2> QED
    BY <2>2, <2>3, <2>4, SameRouters
<1>3. ASSUME ReceiveError(n, c) PROVE Wired'
  BY <1>3, SameRouters DEF ReceiveError, Wired
<1> QED
  BY <1>1, <1>2, <1>3

\* The steps of the 'sync' handlers
LEMMA SyncStepWired ==
  ASSUME TypeOK, Wired, NEW n \in Node, NEW x \in DOMAIN jobs[n]
  PROVE  /\ SyncDeleted(n, x) => Wired'
         /\ SyncDownloaded(n, x) => Wired'
         /\ SyncBroken(n, x) => Wired'
         /\ SyncStarted(n, x) => Wired'
         /\ SyncFail(n, x) => Wired'
<1>1. ASSUME UNCHANGED <<server, client, pool, gone, req>>,
             \/ jobs' = [jobs EXCEPT ![n] = Without(@, x)]
             \/ \E stage : jobs' = [jobs EXCEPT ![n][x].stage = stage]
      PROVE  Wired'
  <2>1. ASSUME NEW m \in Node, NEW y \in DOMAIN jobs'[m]
        PROVE  jobs'[m][y].conn \in Known(m)
    <3>1. jobs[m] \in Seq(Job) /\ \A z \in DOMAIN jobs[m] : jobs[m][z].conn \in Known(m)
      BY DEF TypeOK, Wired
    <3>2. CASE m # n
      BY <1>1, <2>1, <3>1, <3>2 DEF TypeOK
    <3>3. CASE m = n /\ jobs' = [jobs EXCEPT ![n] = Without(@, x)]
      <4>1. jobs'[m] = Without(jobs[n], x)
        BY <3>3 DEF TypeOK
      <4>2. \A z \in DOMAIN Without(jobs[n], x) : \E w \in DOMAIN jobs[n] : Without(jobs[n], x)[z] = jobs[n][w]
        BY <3>1, <3>3, WithoutType
      <4>3. PICK z \in DOMAIN jobs[n] : jobs'[m][y] = jobs[n][z]
        BY <2>1, <4>1, <4>2
      <4> QED
        BY <3>1, <3>3, <4>3
    <3>4. CASE m = n /\ \E stage : jobs' = [jobs EXCEPT ![n][x].stage = stage]
      <4>1. PICK stage : jobs' = [jobs EXCEPT ![n][x].stage = stage]
        BY <3>4
      <4>2. jobs'[m] = [jobs[m] EXCEPT ![x] = [@ EXCEPT !.stage = stage]]
        BY <3>4, <4>1 DEF TypeOK
      <4>3. y \in DOMAIN jobs[m] /\ jobs[m][y] \in Job
        BY <2>1, <3>1, <4>2
      <4>4. jobs'[m][y].conn = jobs[m][y].conn
        BY <4>2, <4>3 DEF Job
      <4> QED
        BY <3>1, <4>3, <4>4
    <3> QED
      BY <1>1, <3>2, <3>3, <3>4
  <2>2. \A i \in Request : req'[i].phase = "asking" =>
          {req'[i].wait} \cup req'[i].todo \subseteq Known(req'[i].node)
    BY <1>1 DEF Wired
  <2> QED
    BY <1>1, <2>1, <2>2, SameRouters
<1>2. SyncDeleted(n, x) => Wired'
  BY <1>1 DEF SyncDeleted, GiveUp, Fails, Advance
<1>3. SyncDownloaded(n, x) => Wired'
  BY <1>1 DEF SyncDownloaded, Advance
<1>4. SyncBroken(n, x) => Wired'
  BY <1>1 DEF SyncBroken, GiveUp, Fails
<1>5. SyncStarted(n, x) => Wired'
  BY <1>1 DEF SyncStarted
<1>6. SyncFail(n, x) => Wired'
  BY <1>1 DEF SyncFail, GiveUp, BreakUp, Fails
<1> QED
  BY <1>2, <1>3, <1>4, <1>5, <1>6

LEMMA WiredStep ==
  TypeOK /\ Wired /\ [Next]_vars => Wired'
<1> SUFFICES ASSUME TypeOK, Wired, [Next]_vars PROVE Wired'
  OBVIOUS
<1>1. CASE UNCHANGED vars
  <2>1. UNCHANGED <<server, client, pool, gone, jobs, req>>
    BY <1>1 DEF vars, netVars
  <2> QED
    BY <2>1, SameRouters DEF Wired
<1>2. CASE \E s, k \in Node : AcceptPeer(s, k)
  BY <1>2, ConnectionStepWired
<1>3. CASE \E i \in Request, n \in Operators, v \in Version, loc \in BOOLEAN :
             InitRequest(i, n, v, loc)
  BY <1>3, CallStepWired
<1>4. CASE \E i \in Request : InitStep(i) \/ InitFail(i) \/ SpreadFail(i)
  BY <1>4, CallStepWired
<1>5. CASE \E n \in Node, c \in Conn : Receive(n, c) \/ Close(n, c)
  BY <1>5, ConnectionStepWired, MessageStepWired DEF Receive
<1>6. CASE \E n \in Node : SyncStep(n) \/ Download(n) \/ \E x \in DOMAIN jobs[n] : SyncFail(n, x)
  BY <1>6, SyncStepWired DEF SyncStep, Download
<1>7. CASE \E n \in Node : Restart(n)
  BY <1>7, ConnectionStepWired
<1>8. CASE \E n \in Node : ClearTasks(n)
  BY <1>8, SameRouters DEF ClearTasks, netVars, Wired
<1> QED
  BY <1>1, <1>2, <1>3, <1>4, <1>5, <1>6, <1>7, <1>8 DEF Next

----------------------------------------------------------------------------
(* A loop of n that waits over c *)

\* c connects n and p
Between(c, n, p) == n # p /\ {server[c], client[c]} = {n, p}

\* What StallHasCause says of a loop of n that waits over c, whose other end is p
Settled(n, p, c) ==
  \/ Carries(inbox[p][c], "sync") \/ Handling(p, c) \/ Carries(inbox[n][c], "done")
  \/ c \in gone[n] \cup gone[p] \cup lost[p]

LEMMA Ends ==
  ASSUME TypeOK, Wired, NEW n \in Node, NEW c \in EndOf(n)
  PROVE  c \in Conn /\ \E p \in Node : Between(c, n, p)
<1>1. c \in Conn /\ n \in {server[c], client[c]}
  BY DEF EndOf
<1>2. n # None
  BY GridAssumption
<1>3. server[c] \in Node /\ client[c] \in Node /\ server[c] # client[c]
  BY <1>1, <1>2 DEF Wired, TypeOK
<1> QED
  BY <1>1, <1>3 DEF Between

LEMMA BetweenEnds ==
  ASSUME NEW n \in Node, NEW p \in Node, NEW c \in Conn, Between(c, n, p)
  PROVE  /\ Peer(n, c) = p /\ Peer(p, c) = n
         /\ c \in EndOf(n) /\ c \in EndOf(p)
         /\ \A m \in Node : c \in EndOf(m) => m \in {n, p}
         /\ server[c] \in Node /\ client[c] \in {n, p}
  BY DEF Between, Peer, EndOf

LEMMA CarriesMore ==
  ASSUME NEW M, NEW s \in Seq(M), NEW t \in Seq(M), NEW kind, Carries(s, kind)
  PROVE  Carries(s \o t, kind)
<1>1. PICK x \in DOMAIN s : s[x].kind = kind
  BY DEF Carries
<1>2. x \in DOMAIN (s \o t) /\ (s \o t)[x] = s[x]
  OBVIOUS
<1> QED
  BY <1>1, <1>2 DEF Carries

LEMMA CarriesLast ==
  ASSUME NEW M, NEW s \in Seq(M), NEW t \in Seq(M), NEW kind, Carries(t, kind)
  PROVE  Carries(s \o t, kind)
<1>1. PICK x \in DOMAIN t : t[x].kind = kind
  BY DEF Carries
<1>2. Len(s) + x \in DOMAIN (s \o t) /\ (s \o t)[Len(s) + x] = t[x]
  BY <1>1
<1> QED
  BY <1>1, <1>2 DEF Carries

LEMMA CarriesTail ==
  ASSUME NEW M, NEW s \in Seq(M), s # <<>>, NEW kind, Carries(s, kind),
         Head(s).kind # kind
  PROVE  Carries(Tail(s), kind)
<1>1. PICK x \in DOMAIN s : s[x].kind = kind
  BY DEF Carries
<1>2. x # 1 /\ x \in 1 .. Len(s) /\ Len(s) \in Nat
  BY <1>1
<1>3. x - 1 \in DOMAIN Tail(s) /\ Tail(s)[x - 1] = s[x]
  BY <1>2
<1> QED
  BY <1>1, <1>3 DEF Carries

LEMMA CarriesRest ==
  ASSUME NEW M, NEW s \in Seq(M), NEW last \in 1 .. Len(s), NEW x \in 1 .. Len(s), last < x
  PROVE  Carries(SubSeq(s, last + 1, Len(s)), s[x].kind)
<1> DEFINE rest == SubSeq(s, last + 1, Len(s))
<1>1. Len(s) \in Nat /\ last + 1 \in 1 .. Len(s) /\ x - last \in Nat /\ 1 <= x - last
  OBVIOUS
<1>2. Len(rest) = Len(s) - last /\ DOMAIN rest = 1 .. Len(s) - last
  BY <1>1
<1>3. x - last \in DOMAIN rest
  BY <1>1, <1>2
<1>4. rest[x - last] = s[last + 1 + (x - last) - 1]
  BY <1>1, <1>3
<1>5. last + 1 + (x - last) - 1 = x
  BY <1>1
<1> QED
  BY <1>3, <1>4, <1>5 DEF Carries

LEMMA HandlerLeft ==
  ASSUME NEW s \in Seq(Job), NEW x \in DOMAIN s, NEW y \in DOMAIN s, x # y
  PROVE  \E z \in DOMAIN Without(s, x) : Without(s, x)[z] = s[y]
<1>1. Len(s) \in Nat /\ DOMAIN s = 1 .. Len(s)
  OBVIOUS
<1>2. CASE y < x
  <2>1. y \in 1 .. Len(s) - 1 /\ Without(s, x)[y] = s[y]
    BY <1>1, <1>2 DEF Without
  <2> QED
    BY <2>1 DEF Without
<1>3. CASE x < y
  <2>1. y - 1 \in 1 .. Len(s) - 1 /\ ~(y - 1 < x) /\ (y - 1) + 1 = y
    BY <1>1, <1>3
  <2>2. Without(s, x)[y - 1] = s[y]
    BY <2>1 DEF Without
  <2> QED
    BY <2>1, <2>2 DEF Without
<1> QED
  BY <1>1, <1>2, <1>3

\* What is written to a connection that is not closed arrives behind what is there
LEMMA SentArrives ==
  ASSUME NEW n \in Node, NEW p \in Node, NEW c \in Conn, Between(c, n, p), NEW box, NEW out,
         c \notin gone[n] \cup gone[p]
  PROVE  Sent(box, n, out)[p][c] = box[p][c] \o out[c]
<1>1. p # n /\ p = Peer(n, c) /\ c \in EndOf(n)
  BY BetweenEnds DEF Between
<1> QED
  BY <1>1 DEF Sent

\* Whatever is written, what is in an inbox stays there
LEMMA SentKeeps ==
  ASSUME NEW box, NEW n, NEW out, NEW m \in Node, NEW c \in Conn, NEW kind,
         box[m][c] \in Seq(Message), out[c] \in Seq(Message), Carries(box[m][c], kind)
  PROVE  Carries(Sent(box, n, out)[m][c], kind)
<1>1. Sent(box, n, out)[m][c] \in {box[m][c], box[m][c] \o out[c]}
  BY DEF Sent
<1>2. Carries(box[m][c] \o out[c], kind)
  BY CarriesMore
<1> QED
  BY <1>1, <1>2

\* An ask over a router that is not closed is on its way
LEMMA AskSettles ==
  ASSUME NEW n \in Node, NEW p \in Node, NEW c \in Conn, Between(c, n, p), gone' = gone,
         NEW box, NEW out, inbox' = Sent(box, n, out),
         box[p][c] \in Seq(Message), out[c] \in Seq(Message), Carries(out[c], "sync")
  PROVE  Settled(n, p, c)'
<1>1. CASE c \in gone[n] \cup gone[p]
  BY <1>1 DEF Settled
<1>2. CASE c \notin gone[n] \cup gone[p]
  <2>1. inbox'[p][c] = box[p][c] \o out[c]
    <3>1. p # n /\ p = Peer(n, c) /\ c \in EndOf(n)
      BY BetweenEnds DEF Between
    <3> QED
      BY <1>2, <3>1 DEF Sent
  <2>2. Carries(inbox'[p][c], "sync")
    BY <2>1, CarriesLast
  <2> QED
    BY <2>2 DEF Settled
<1> QED
  BY <1>1, <1>2

----------------------------------------------------------------------------
(* A step that leaves the loop alone leaves it settled *)

LEMMA SameSettled ==
  ASSUME NEW n, NEW p, NEW c, Settled(n, p, c), UNCHANGED <<gone, inbox, lost, jobs>>
  PROVE  Settled(n, p, c)'
  BY DEF Settled, Carries, Handling

LEMMA ConnectionStepSettles ==
  ASSUME TypeOK, NEW n \in Node, NEW p \in Node, NEW c \in Conn, Between(c, n, p),
         c \in Known(n), Settled(n, p, c), NEW m \in Node
  PROVE  /\ \A k \in Node : AcceptPeer(m, k) => Settled(n, p, c)'
         /\ \A d \in Conn : ClientConfirm(m, d) => Settled(n, p, c)'
         /\ \A d \in Conn : Close(m, d) => Settled(n, p, c)'
         /\ Restart(m) => Settled(n, p, c)'
<1> USE DEF TypeOK
<1>1. ASSUME NEW k \in Node, AcceptPeer(m, k) PROVE Settled(n, p, c)'
  <2>1. PICK d \in Conn : /\ server[d] = None
                          /\ inbox' = [inbox EXCEPT ![k][d] = <<Identity>> \o Greeting(m)]
                          /\ UNCHANGED <<gone, lost, jobs>>
    BY <1>1 DEF AcceptPeer
  <2>2. d # c
    BY <2>1, BetweenEnds, GridAssumption
  <2>3. inbox'[p][c] = inbox[p][c] /\ inbox'[n][c] = inbox[n][c]
    BY <2>1, <2>2
  <2> QED
    BY <2>1, <2>3 DEF Settled, Handling
<1>2. ASSUME NEW d \in Conn, ClientConfirm(m, d) PROVE Settled(n, p, c)'
  <2> DEFINE box == inbox[m][d]
             out == On(d, Greeting(m))
  <2>1. PICK last \in 1 .. Len(box) :
          /\ LET missed == {x \in 2 .. last : box[x].kind = "sync"}
             IN  lost' = [Asked(m, IF isMaster[m] THEN {d} ELSE {})
                          EXCEPT ![m] = @ \cup IF missed = {} THEN {} ELSE {d}]
          /\ inbox' = Sent([inbox EXCEPT ![m][d] = SubSeq(box, last + 1, Len(box))], m, out)
    BY <1>2 DEF ClientConfirm
  <2>2. /\ d \notin Known(m) /\ client[d] = m /\ box # <<>> /\ Head(box) = Identity
        /\ UNCHANGED <<gone, jobs>>
    BY <1>2 DEF ClientConfirm, Known
  <2>3. \A e \in Conn : out[e] \in Seq(Message)
    <3>1. Greeting(m) \in Seq(Message)
      BY MessageType DEF Greeting
    <3> QED
      BY <3>1 DEF On
  <2>4. CASE d # c
    <3> DEFINE rest == [inbox EXCEPT ![m][d] = SubSeq(box, last + 1, Len(box))]
    <3>1. rest[p][c] = inbox[p][c] /\ rest[n][c] = inbox[n][c]
      BY <2>4
    <3>2. inbox[p][c] \in Seq(Message) /\ inbox[n][c] \in Seq(Message)
      OBVIOUS
    <3>3. c \in lost[p] => c \in lost'[p]
      BY <2>1, <2>4 DEF Asked
    <3> HIDE DEF rest, out
    <3>4. /\ Carries(inbox[p][c], "sync") => Carries(Sent(rest, m, out)[p][c], "sync")
          /\ Carries(inbox[n][c], "done") => Carries(Sent(rest, m, out)[n][c], "done")
      BY <2>3, <3>1, <3>2, SentKeeps
    <3>5. inbox' = Sent(rest, m, out)
      BY <2>1 DEF rest
    <3> QED
      BY <2>2, <3>3, <3>4, <3>5 DEF Settled, Handling
  <2>5. CASE d = c
    <3>1. m = p /\ m # n
      BY <2>2, <2>5, BetweenEnds DEF Between
    <3>2. c \in lost[p] => c \in lost'[p]
      BY <2>1, <2>5, <3>1, BetweenEnds DEF Asked
    <3>3. Carries(inbox[n][c], "done") => Carries(inbox'[n][c], "done")
      <4> DEFINE rest == [inbox EXCEPT ![m][d] = SubSeq(box, last + 1, Len(box))]
      <4>1. rest[n][c] = inbox[n][c] /\ inbox[n][c] \in Seq(Message)
        BY <3>1
      <4> HIDE DEF rest, out
      <4>2. Carries(inbox[n][c], "done") => Carries(Sent(rest, m, out)[n][c], "done")
        BY <2>3, <4>1, SentKeeps
      <4> QED
        BY <2>1, <4>2 DEF rest
    <3>4. ASSUME Carries(inbox[p][c], "sync")
          PROVE  Carries(inbox'[p][c], "sync") \/ c \in lost'[p]
      <4>1. box \in Seq(Message) /\ inbox'[p][c] = SubSeq(box, last + 1, Len(box))
        BY <2>1, <2>5, <3>1 DEF Sent
      <4>2. PICK x \in 1 .. Len(box) : box[x].kind = "sync"
        BY <2>5, <3>1, <3>4, <4>1 DEF Carries
      <4>3. x # 1
        BY <2>2, <4>1, <4>2 DEF Identity
      <4>4. CASE x <= last
        <5>1. {y \in 2 .. last : box[y].kind = "sync"} # {}
          BY ONLY <4>2, <4>3, <4>4
        <5> HIDE DEF box, out
        <5>2. c \in lost'[m]
          BY <2>1, <2>5, <5>1 DEF Asked
        <5> QED
          BY <3>1, <5>2
      <4>5. CASE last < x
        <5>1. Carries(SubSeq(box, last + 1, Len(box)), box[x].kind)
          BY <4>1, <4>2, <4>5, CarriesRest
        <5> QED
          BY <4>1, <4>2, <5>1
      <4> QED
        BY <4>4, <4>5
    <3> QED
      BY <2>2, <3>2, <3>3, <3>4 DEF Settled, Handling
  <2> QED
    BY <2>4, <2>5
<1>3. ASSUME NEW d \in Conn, Close(m, d) PROVE Settled(n, p, c)'
  <2>1. /\ d \in EndOf(m) /\ gone' = [gone EXCEPT ![m] = @ \cup {d}]
        /\ inbox' = [inbox EXCEPT ![m][d] = <<>>] /\ UNCHANGED <<lost, jobs>>
    BY <1>3 DEF Close
  <2>2. CASE d = c
    BY <2>1, <2>2, BetweenEnds DEF Settled
  <2>3. CASE d # c
    BY <2>1, <2>3 DEF Settled, Handling
  <2> QED
    BY <2>2, <2>3
<1>4. ASSUME Restart(m) PROVE Settled(n, p, c)'
  <2>1. /\ gone' = [gone EXCEPT ![m] = EndOf(m)]
        /\ inbox' = [inbox EXCEPT ![m] = [d \in Conn |-> <<>>]]
        /\ jobs' = [jobs EXCEPT ![m] = <<>>] /\ UNCHANGED lost
    BY <1>4 DEF Restart
  <2>2. CASE m \in {n, p}
    BY <2>1, <2>2, BetweenEnds DEF Settled
  <2>3. CASE m \notin {n, p}
    BY <2>1, <2>3 DEF Settled, Handling
  <2> QED
    BY <2>2, <2>3
<1> QED
  BY <1>1, <1>2, <1>3, <1>4

LEMMA CallStepSettles ==
  ASSUME TypeOK, Wired, NEW n \in Node, NEW p \in Node, NEW c \in Conn, Between(c, n, p),
         c \in Known(n), Settled(n, p, c), NEW i \in Request
  PROVE  /\ \A m \in Operators, v \in Version, loc \in BOOLEAN :
              InitRequest(i, m, v, loc) => Settled(n, p, c)'
         /\ InitStep(i) => Settled(n, p, c)'
         /\ InitFail(i) => Settled(n, p, c)'
         /\ SpreadFail(i) => Settled(n, p, c)'
<1> USE DEF TypeOK, netVars
<1>1. \A m \in Operators, v \in Version, loc \in BOOLEAN :
        InitRequest(i, m, v, loc) => Settled(n, p, c)'
  BY SameSettled DEF InitRequest
<1>2. InitStarted(i) => Settled(n, p, c)'
  BY SameSettled DEF InitStarted
<1>3. InitFail(i) => Settled(n, p, c)'
  BY SameSettled DEF InitFail
<1>4. PackDone(i) => Settled(n, p, c)'
  BY SameSettled DEF PackDone
<1>5. SpreadFail(i) => Settled(n, p, c)'
  BY SameSettled DEF SpreadFail
<1>6. Archived(i) => Settled(n, p, c)'
  BY SameSettled DEF Archived
<1>7. ASSUME Joined(i) PROVE Settled(n, p, c)'
  <2>1. PICK m : m = req[i].node
    OBVIOUS
  <2>2. m \in Node /\ UNCHANGED <<gone, jobs>>
    BY <1>7, <2>1, CallType DEF Joined
  <2>3. CASE pool[m] = {}
    BY <1>7, <2>1, <2>2, <2>3, SameSettled DEF Joined
  <2>4. CASE pool[m] # {}
    <3>1. PICK d : d = Least(pool[m])
      OBVIOUS
    <3>2. /\ inbox' = Sent(inbox, m, On(d, <<Sync(link[m])>>))
          /\ lost' = Asked(m, {d})
      BY <1>7, <2>1, <2>4, <3>1 DEF Joined
    <3>3. d \in pool[m] /\ d \in Conn
      BY <2>2, <2>4, <3>1, LeastIn
    <3>4. \A e \in Conn : On(d, <<Sync(link[m])>>)[e] \in Seq(Message)
      <4>1. On(d, <<Sync(link[m])>>) \in [Conn -> Seq(Message)]
        BY <2>2, MessageType, OutType
      <4> QED
        BY <4>1
    <3>5. inbox[p][c] \in Seq(Message) /\ inbox[n][c] \in Seq(Message)
      OBVIOUS
    <3>6. CASE m = n /\ d = c
      <4>1. Carries(On(d, <<Sync(link[m])>>)[c], "sync")
        BY <3>3, <3>6 DEF On, Carries, Sync
      <4> QED
        BY <2>2, <3>2, <3>4, <3>5, <3>6, <4>1, AskSettles
    <3>7. CASE ~(m = n /\ d = c)
      <4>1. c \in lost[p] => c \in lost'[p]
        <5>1. d \in EndOf(m)
          BY <2>2, <3>3 DEF Wired, Known
        <5>2. d = c => m = p
          BY <2>2, <3>7, <5>1, BetweenEnds
        <5>3. Peer(p, c) # p
          BY BetweenEnds DEF Between
        <5>4. d = c => Peer(m, c) # p
          BY <5>2, <5>3
        <5> QED
          BY <3>2, <5>4 DEF Asked
      <4>2. /\ Carries(inbox[p][c], "sync") => Carries(inbox'[p][c], "sync")
            /\ Carries(inbox[n][c], "done") => Carries(inbox'[n][c], "done")
        BY <3>2, <3>4, <3>5, SentKeeps
      <4> QED
        BY <2>2, <4>1, <4>2 DEF Settled, Handling
    <3> QED
      BY <3>6, <3>7
  <2> QED
    BY <2>3, <2>4
<1> QED
  BY <1>1, <1>2, <1>3, <1>4, <1>5, <1>6, <1>7 DEF InitStep

LEMMA MessageStepSettles ==
  ASSUME TypeOK, Wired, NEW n \in Node, NEW p \in Node, NEW c \in Conn, Between(c, n, p),
         Settled(n, p, c), NEW m \in Node, NEW d \in Conn
  PROVE  /\ ReceiveDone(m, d) /\ ~(m = n /\ d = c) => Settled(n, p, c)'
         /\ ReceiveSync(m, d) => Settled(n, p, c)'
         /\ ReceiveError(m, d) => Settled(n, p, c)'
<1> USE DEF TypeOK
<1>1. \A q \in Node : inbox[q][c] \in Seq(Message)
  OBVIOUS
<1>2. ASSUME NEW kind, kind # "sync", inbox[m][d] # <<>>, Head(inbox[m][d]).kind = kind,
             kind # "done" \/ ~(m = n /\ d = c)
      PROVE  LET rest == [inbox EXCEPT ![m][d] = Tail(@)]
             IN  /\ rest[p][c] \in Seq(Message) /\ rest[n][c] \in Seq(Message)
                 /\ Carries(inbox[p][c], "sync") => Carries(rest[p][c], "sync")
                 /\ Carries(inbox[n][c], "done") => Carries(rest[n][c], "done")
  <2>1. CASE d = c /\ m = p
    <3>1. m # n
      BY <2>1 DEF Between
    <3>2. Carries(inbox[p][c], "sync") => Carries(Tail(inbox[p][c]), "sync")
      BY <1>1, <1>2, <2>1, CarriesTail
    <3>3. Tail(inbox[p][c]) \in Seq(Message)
      BY <1>1, <1>2, <2>1
    <3> QED
      BY <2>1, <3>1, <3>2, <3>3
  <2>2. CASE d = c /\ m = n
    <3>1. m # p
      BY <2>2 DEF Between
    <3>2. Carries(inbox[n][c], "done") => Carries(Tail(inbox[n][c]), "done")
      BY <1>1, <1>2, <2>2, CarriesTail
    <3>3. Tail(inbox[n][c]) \in Seq(Message)
      BY <1>1, <1>2, <2>2
    <3> QED
      BY <2>2, <3>1, <3>2, <3>3
  <2>3. CASE d # c \/ m \notin {n, p}
    BY <1>1, <2>3
  <2> QED
    BY <2>1, <2>2, <2>3
<1>3. ASSUME ReceiveError(m, d) PROVE Settled(n, p, c)'
  <2>1. /\ inbox[m][d] # <<>> /\ Head(inbox[m][d]).kind = "error"
        /\ inbox' = [inbox EXCEPT ![m][d] = Tail(@)] /\ UNCHANGED <<gone, jobs, lost>>
    BY <1>3 DEF ReceiveError
  <2>2. /\ Carries(inbox[p][c], "sync") => Carries(inbox'[p][c], "sync")
        /\ Carries(inbox[n][c], "done") => Carries(inbox'[n][c], "done")
    BY <1>2, <2>1
  <2> QED
    BY <2>1, <2>2 DEF Settled, Handling
<1>4. ASSUME ReceiveSync(m, d) PROVE Settled(n, p, c)'
  <2>1. PICK j : j.conn = d /\ jobs' = [jobs EXCEPT ![m] = Append(@, j)]
    BY <1>4 DEF ReceiveSync
  <2>2. /\ inbox[m][d] # <<>> /\ Head(inbox[m][d]).kind = "sync"
        /\ inbox' = [inbox EXCEPT ![m][d] = Tail(@)] /\ UNCHANGED <<gone, lost>>
    BY <1>4 DEF ReceiveSync
  <2>3. Handling(p, c) => Handling(p, c)'
    <3>1. \A x \in DOMAIN jobs[p] : x \in DOMAIN jobs'[p] /\ jobs'[p][x] = jobs[p][x]
      <4>1. jobs[p] \in Seq(Job)
        OBVIOUS
      <4>2. jobs'[p] = jobs[p] \/ jobs'[p] = Append(jobs[p], j)
        BY <2>1
      <4> HIDE DEF TypeOK
      <4>3. \A x \in DOMAIN jobs[p] : /\ x \in DOMAIN Append(jobs[p], j)
                                      /\ Append(jobs[p], j)[x] = jobs[p][x]
        BY <4>1
      <4> QED
        BY <4>2, <4>3
    <3> QED
      BY <3>1 DEF Handling
  <2>4. m = p /\ d = c => Handling(p, c)'
    <3>1. ASSUME m = p, d = c PROVE Handling(p, c)'
      <4>1. jobs[p] \in Seq(Job) /\ jobs'[p] = Append(jobs[p], j)
        BY <2>1, <3>1
      <4>2. Len(jobs[p]) + 1 \in DOMAIN jobs'[p] /\ jobs'[p][Len(jobs[p]) + 1] = j
        BY <4>1
      <4> QED
        BY <2>1, <3>1, <4>2 DEF Handling
    <3> QED
      BY <3>1
  <2>5. ~(m = p /\ d = c) => inbox'[p][c] = inbox[p][c]
    BY <2>2
  <2>6. Carries(inbox[n][c], "done") => Carries(inbox'[n][c], "done")
    <3>1. CASE m = n /\ d = c
      <4>1. inbox'[n][c] = Tail(inbox[n][c])
        BY <2>2, <3>1
      <4> QED
        BY <1>1, <2>2, <3>1, <4>1, CarriesTail
    <3>2. CASE ~(m = n /\ d = c)
      BY <2>2, <3>2
    <3> QED
      BY <3>1, <3>2
  <2> QED
    BY <2>2, <2>3, <2>4, <2>5, <2>6 DEF Settled
<1>5. ASSUME ReceiveDone(m, d), ~(m = n /\ d = c) PROVE Settled(n, p, c)'
  <2> DEFINE W    == Waiting(m, d)
             rest == [inbox EXCEPT ![m][d] = Tail(@)]
             out  == [e \in Conn |-> [x \in 1 .. Cardinality(NextOn(W, e)) |-> Sync(link[m])]]
  <2>1. /\ inbox[m][d] # <<>> /\ Head(inbox[m][d]).kind = "done"
        /\ inbox' = Sent(rest, m, out)
        /\ lost' = Asked(m, {e \in Conn : NextOn(W, e) # {}})
        /\ UNCHANGED <<gone, jobs>>
    BY <1>5 DEF ReceiveDone
  <2>2. /\ rest[p][c] \in Seq(Message) /\ rest[n][c] \in Seq(Message)
        /\ Carries(inbox[p][c], "sync") => Carries(rest[p][c], "sync")
        /\ Carries(inbox[n][c], "done") => Carries(rest[n][c], "done")
    BY <1>2, <1>5, <2>1
  <2>3. IsFiniteSet(NextOn(W, c)) /\ Cardinality(NextOn(W, c)) \in Nat
    <3>1. NextOn(W, c) \subseteq Request
      BY DEF NextOn, Waiting, Loops
    <3> QED
      BY <3>1, GridAssumption, FS_Subset, FS_CardinalityType
  <2>4. out[c] \in Seq(Message)
    <3>1. Sync(link[m]) \in Message
      BY MessageType
    <3>2. out[c] = [x \in 1 .. Cardinality(NextOn(W, c)) |-> Sync(link[m])]
      OBVIOUS
    <3> QED
      BY ONLY <2>3, <3>1, <3>2, CopiesType
  <2>5. CASE m = n /\ NextOn(W, c) # {}
    <3>1. 1 \in 1 .. Cardinality(NextOn(W, c))
      BY <2>3, <2>5, FS_EmptySet
    <3>2. Carries(out[c], "sync")
      <4> HIDE DEF W
      <4>1. 1 \in DOMAIN out[c] /\ out[c][1].kind = "sync"
        BY <3>1 DEF Sync
      <4> QED
        BY <4>1 DEF Carries
    <3> HIDE DEF rest, out, W
    <3> QED
      BY <2>1, <2>2, <2>4, <2>5, <3>2, AskSettles
  <2>6. CASE ~(m = n /\ NextOn(W, c) # {})
    <3>1. c \in lost[p] => c \in lost'[p]
      <4>1. CASE NextOn(W, c) = {}
        BY <2>1, <4>1 DEF Asked
      <4>2. CASE NextOn(W, c) # {}
        <5>1. PICK i \in NextOn(W, c) : TRUE
          BY <4>2
        <5>2. /\ i \in Request /\ req[i].phase = "asking" /\ req[i].node = m
              /\ req[i].todo # {} /\ Following(i) = c
          BY <5>1 DEF NextOn, Waiting, Loops
        <5>3. c \in req[i].todo
          BY <5>2, CallType, LeastIn DEF Following
        <5>4. c \in EndOf(m)
          BY <5>2, <5>3 DEF Wired
        <5>5. m = p
          BY <2>6, <4>2, <5>4, BetweenEnds
        <5>6. Peer(p, c) # p
          BY BetweenEnds DEF Between
        <5> QED
          BY <2>1, <5>5, <5>6 DEF Asked
      <4> QED
        BY <4>1, <4>2
    <3>2. /\ Carries(inbox[p][c], "sync") => Carries(inbox'[p][c], "sync")
          /\ Carries(inbox[n][c], "done") => Carries(inbox'[n][c], "done")
      <4> HIDE DEF rest, out
      <4> QED
        BY <2>1, <2>2, <2>4, SentKeeps
    <3> QED
      BY <2>1, <3>1, <3>2 DEF Settled, Handling
  <2> QED
    BY <2>5, <2>6
<1> QED
  BY <1>3, <1>4, <1>5

\* The end of a 'sync' handler, or its next stage, concerns nobody else's answer
LEMMA HandlerSettles ==
  ASSUME TypeOK, NEW p \in Node, NEW c \in Conn, Handling(p, c),
         NEW m \in Node, NEW x \in DOMAIN jobs[m],
         \/ jobs' = [jobs EXCEPT ![m] = Without(@, x)] /\ (m # p \/ jobs[m][x].conn # c)
         \/ \E stage : jobs' = [jobs EXCEPT ![m][x].stage = stage]
  PROVE  Handling(p, c)'
<1>1. jobs[p] \in Seq(Job)
  BY DEF TypeOK
<1>2. PICK y \in DOMAIN jobs[p] : jobs[p][y].conn = c
  BY DEF Handling
<1>3. CASE m # p
  <2>1. jobs'[p] = jobs[p]
    BY <1>3 DEF TypeOK
  <2> QED
    BY <1>2, <2>1 DEF Handling
<1>4. CASE m = p /\ jobs' = [jobs EXCEPT ![m] = Without(@, x)] /\ jobs[m][x].conn # c
  <2>1. jobs'[p] = Without(jobs[p], x)
    BY <1>4 DEF TypeOK
  <2>2. PICK z \in DOMAIN Without(jobs[p], x) : Without(jobs[p], x)[z] = jobs[p][y]
    BY <1>1, <1>2, <1>4, HandlerLeft
  <2> QED
    BY <1>2, <2>1, <2>2 DEF Handling
<1>5. CASE m = p /\ \E stage : jobs' = [jobs EXCEPT ![m][x].stage = stage]
  <2>1. PICK stage : jobs' = [jobs EXCEPT ![p][x].stage = stage]
    BY <1>5
  <2>2. jobs'[p] = [jobs[p] EXCEPT ![x] = [@ EXCEPT !.stage = stage]]
    BY <2>1 DEF TypeOK
  <2>3. jobs[p][y] \in Job
    BY <1>1
  <2>4. y \in DOMAIN jobs'[p] /\ jobs'[p][y].conn = jobs[p][y].conn
    BY <2>2, <2>3 DEF Job
  <2> QED
    BY <1>2, <2>4 DEF Handling
<1> QED
  BY <1>3, <1>4, <1>5

LEMMA SyncStepSettles ==
  ASSUME TypeOK, Wired, NEW n \in Node, NEW p \in Node, NEW c \in Conn, Between(c, n, p),
         Settled(n, p, c), NEW m \in Node, NEW x \in DOMAIN jobs[m]
  PROVE  /\ SyncDeleted(m, x) => Settled(n, p, c)'
         /\ SyncDownloaded(m, x) => Settled(n, p, c)'
         /\ SyncBroken(m, x) => Settled(n, p, c)'
         /\ SyncStarted(m, x) => Settled(n, p, c)'
         /\ SyncFail(m, x) => Settled(n, p, c)'
<1>1. \A q \in Node : inbox[q][c] \in Seq(Message)
  BY DEF TypeOK
<1>2. ASSUME NEW msg \in Message, inbox' = Sent(inbox, m, ToPool(m, msg))
      PROVE  /\ Carries(inbox[p][c], "sync") => Carries(inbox'[p][c], "sync")
             /\ Carries(inbox[n][c], "done") => Carries(inbox'[n][c], "done")
  <2>1. ToPool(m, msg)[c] \in Seq(Message)
    <3>1. ToPool(m, msg) \in [Conn -> Seq(Message)]
      BY OutType
    <3> QED
      BY <3>1
  <2> QED
    BY <1>1, <1>2, <2>1, SentKeeps
<1>3. ASSUME GiveUp(m, x) \/ BreakUp(m, x), gone' = gone PROVE Settled(n, p, c)'
  <2>1. /\ jobs' = [jobs EXCEPT ![m] = Without(@, x)]
        /\ lost' = [lost EXCEPT ![m] = @ \cup {jobs[m][x].conn}]
    BY <1>3 DEF GiveUp, BreakUp, Fails
  <2>5. /\ Carries(inbox[p][c], "sync") => Carries(inbox'[p][c], "sync")
        /\ Carries(inbox[n][c], "done") => Carries(inbox'[n][c], "done")
    BY <1>2, <1>3, MessageType DEF GiveUp, BreakUp
  <2>2. c \in lost[p] => c \in lost'[p]
    BY <2>1 DEF TypeOK
  <2>3. m = p /\ jobs[m][x].conn = c => c \in lost'[p]
    BY <2>1 DEF TypeOK
  <2>4. ~(m = p /\ jobs[m][x].conn = c) /\ Handling(p, c) => Handling(p, c)'
    BY <2>1, HandlerSettles
  <2> QED
    BY <1>3, <2>2, <2>3, <2>4, <2>5 DEF Settled
<1>4. ASSUME NEW stage, Advance(m, x, stage), gone' = gone PROVE Settled(n, p, c)'
  <2>1. Handling(p, c) => Handling(p, c)'
    BY <1>4, HandlerSettles DEF Advance
  <2> QED
    BY <1>4, <2>1 DEF Advance, Settled
<1>5. SyncDeleted(m, x) => Settled(n, p, c)'
  BY <1>3, <1>4 DEF SyncDeleted
<1>6. SyncDownloaded(m, x) => Settled(n, p, c)'
  BY <1>4 DEF SyncDownloaded
<1>7. SyncBroken(m, x) => Settled(n, p, c)'
  BY <1>3 DEF SyncBroken
<1>8. SyncFail(m, x) => Settled(n, p, c)'
  BY <1>3 DEF SyncFail
<1>9. ASSUME SyncStarted(m, x) PROVE Settled(n, p, c)'
  <2> DEFINE msg == Done(jobs[m][x].link)
  <2>1. /\ jobs' = [jobs EXCEPT ![m] = Without(@, x)]
        /\ inbox' = Sent(inbox, m, ToPool(m, msg))
        /\ UNCHANGED <<gone, lost>>
    BY <1>9 DEF SyncStarted
  <2>2. msg \in Message
    BY HandlerType, MessageType DEF Job
  <2>3. ~(m = p /\ jobs[m][x].conn = c) /\ Handling(p, c) => Handling(p, c)'
    BY <2>1, HandlerSettles
  <2>4. ASSUME m = p, jobs[m][x].conn = c, c \notin gone[n] \cup gone[p]
        PROVE  Carries(inbox'[n][c], "done")
    <3>1. c \in pool[p]
      BY <2>4 DEF Wired, Known
    <3>2. Peer(p, c) = n /\ p # n /\ c \in EndOf(p)
      BY BetweenEnds DEF Between
    <3>3. ToPool(m, msg)[c] = <<msg>>
      BY <2>4, <3>1 DEF ToPool
    <3> HIDE DEF msg
    <3>4. inbox'[n][c] = inbox[n][c] \o <<msg>>
      BY <2>1, <2>4, <3>2, <3>3 DEF Sent
    <3>5. Carries(<<msg>>, "done")
      BY DEF Carries, Done, msg
    <3>6. <<msg>> \in Seq(Message)
      BY <2>2
    <3> QED
      BY <1>1, <3>4, <3>5, <3>6, CarriesLast
  <2> HIDE DEF msg
  <2>5. /\ Carries(inbox[p][c], "sync") => Carries(inbox'[p][c], "sync")
        /\ Carries(inbox[n][c], "done") => Carries(inbox'[n][c], "done")
    BY <1>2, <2>1, <2>2
  <2> QED
    BY <2>1, <2>3, <2>4, <2>5 DEF Settled
<1> QED
  BY <1>5, <1>6, <1>7, <1>8, <1>9

LEMMA SettledStep ==
  ASSUME TypeOK, Wired, NEW n \in Node, NEW p \in Node, NEW c \in Conn, Between(c, n, p),
         c \in Known(n), Settled(n, p, c), Next, ~ReceiveDone(n, c)
  PROVE  Settled(n, p, c)'
<1>1. CASE \E s, k \in Node : AcceptPeer(s, k)
  BY <1>1, ConnectionStepSettles
<1>2. CASE \E i \in Request, m \in Operators, v \in Version, loc \in BOOLEAN :
             InitRequest(i, m, v, loc)
  BY <1>2, CallStepSettles
<1>3. CASE \E i \in Request : InitStep(i) \/ InitFail(i) \/ SpreadFail(i)
  BY <1>3, CallStepSettles
<1>4. CASE \E m \in Node, d \in Conn : Receive(m, d) \/ Close(m, d)
  BY <1>4, ConnectionStepSettles, MessageStepSettles DEF Receive
<1>5. CASE \E m \in Node : SyncStep(m) \/ Download(m) \/ \E x \in DOMAIN jobs[m] : SyncFail(m, x)
  BY <1>5, SyncStepSettles DEF SyncStep, Download
<1>6. CASE \E m \in Node : Restart(m)
  BY <1>6, ConnectionStepSettles
<1>7. CASE \E m \in Node : ClearTasks(m)
  BY <1>7, SameSettled DEF ClearTasks, netVars
<1> QED
  BY <1>1, <1>2, <1>3, <1>4, <1>5, <1>6, <1>7 DEF Next

\* Only an accepted connection changes the wiring
LEMMA WiringSteps ==
  ASSUME Next
  PROVE  (\E s, k \in Node : AcceptPeer(s, k)) \/ UNCHANGED <<server, client>>
<1>1. \A i \in Request, m \in Operators, v \in Version, loc \in BOOLEAN :
        InitRequest(i, m, v, loc) => UNCHANGED <<server, client>>
  BY DEF InitRequest
<1>2. \A i \in Request : InitStep(i) \/ InitFail(i) \/ SpreadFail(i)
        => UNCHANGED <<server, client>>
  BY DEF InitStep, InitStarted, PackDone, Archived, Joined, InitFail, SpreadFail, netVars
<1>3. \A m \in Node, d \in Conn : Receive(m, d) \/ Close(m, d) => UNCHANGED <<server, client>>
  <2>1. \A m \in Node, d \in Conn : ReceiveDone(m, d) => UNCHANGED <<server, client>>
    BY DEF ReceiveDone
  <2>2. \A m \in Node, d \in Conn : ReceiveSync(m, d) \/ ReceiveError(m, d)
          => UNCHANGED <<server, client>>
    BY DEF ReceiveSync, ReceiveError
  <2>3. \A m \in Node, d \in Conn : ClientConfirm(m, d) \/ Close(m, d)
          => UNCHANGED <<server, client>>
    BY DEF ClientConfirm, Close
  <2> QED
    BY <2>1, <2>2, <2>3, Zenon DEF Receive
<1>4. \A m \in Node : \A x \in DOMAIN jobs[m] :
        SyncDeleted(m, x) \/ SyncDownloaded(m, x) \/ SyncBroken(m, x) \/ SyncStarted(m, x)
          \/ SyncFail(m, x) => UNCHANGED <<server, client>>
  BY DEF SyncDeleted, SyncDownloaded, SyncBroken, SyncStarted, SyncFail
<1>5. \A m \in Node : Restart(m) \/ ClearTasks(m) => UNCHANGED <<server, client>>
  BY DEF Restart, ClearTasks, netVars
<1> QED
  BY <1>1, <1>2, <1>3, <1>4, <1>5, Zenon DEF Next, SyncStep, Download

\* Connections are never rewired
LEMMA BetweenStep ==
  ASSUME TypeOK, NEW n \in Node, NEW p \in Node, NEW c \in Conn, Between(c, n, p), Next
  PROVE  Between(c, n, p)'
<1>1. server[c] # None
  BY BetweenEnds, GridAssumption
<1>2. ASSUME NEW s \in Node, NEW k \in Node, AcceptPeer(s, k) PROVE Between(c, n, p)'
  <2>1. PICK d \in Conn : /\ server[d] = None
                          /\ server' = [server EXCEPT ![d] = s]
                          /\ client' = [client EXCEPT ![d] = k]
    BY <1>2 DEF AcceptPeer
  <2> QED
    BY <1>1, <2>1 DEF TypeOK, Between
<1>3. CASE UNCHANGED <<server, client>>
  BY <1>3 DEF Between
<1> QED
  BY <1>2, <1>3, WiringSteps

----------------------------------------------------------------------------
(* A loop that begins to wait has asked *)

\* Where a loop comes from that waits after a step
LEMMA WaitStep ==
  ASSUME TypeOK, Next, NEW i \in Request, req'[i].phase = "asking"
  PROVE  \/ req'[i] = req[i] /\ ~ReceiveDone(req[i].node, req[i].wait)
         \/ Joined(i)
         \/ req[i].phase = "asking" /\ ReceiveDone(req[i].node, req[i].wait)
<1>1. \A k \in Request : req[k].phase # "idle" => req[k] \in Posting
  BY CallType DEF TypeOK
<1>2. ASSUME NEW k \in Request, NEW m \in Operators, NEW v \in Version, NEW loc \in BOOLEAN,
             InitRequest(k, m, v, loc)
      PROVE  req'[i] = req[i]
  <2>1. req' = [req EXCEPT ![k].node = m, ![k].ver = v, ![k].phase = "starting"]
    BY <1>2 DEF InitRequest
  <2>2. req[k] \in Call
    BY DEF TypeOK
  <2>3. req'[k] = [req[k] EXCEPT !.node = m, !.ver = v, !.phase = "starting"]
    BY <2>1 DEF TypeOK
  <2>4. req'[k].phase = "starting"
    BY <2>2, <2>3 DEF Call, Unsent, Posting
  <2>5. k # i
    BY <2>4
  <2> QED
    BY <2>1, <2>5 DEF TypeOK
<1>3. ASSUME NEW k \in Request, NEW ph, ph # "asking", req[k].phase # "idle",
             req' = [req EXCEPT ![k].phase = ph]
      PROVE  req'[i] = req[i]
  BY <1>1, <1>3 DEF TypeOK, Posting
<1>4. ASSUME NEW k \in Request, InitFail(k) \/ SpreadFail(k) \/ Archived(k)
      PROVE  req'[i] = req[i]
  BY <1>3, <1>4 DEF InitFail, SpreadFail, Archived
<1>5. ASSUME NEW k \in Request, InitStarted(k) PROVE req'[i] = req[i]
  <2>1. \A j \in Packing(req[k].node) \cup {k} : req[j] \in Posting
    BY <1>1, <1>5 DEF InitStarted, Packing
  <2> QED
    BY <1>5, <2>1 DEF InitStarted, Posting
<1>6. ASSUME NEW k \in Request, PackDone(k) PROVE req'[i] = req[i]
  <2>1. req[k] \in Posting
    BY <1>1, <1>6 DEF PackDone
  <2>2. \/ req' = [req EXCEPT ![k].phase = "done"]
        \/ \E x : req' = [req EXCEPT ![k].phase = "archiving", ![k].img = x]
    BY <1>6, Zenon DEF PackDone
  <2> QED
    BY <2>1, <2>2 DEF TypeOK, Posting
<1>7. ASSUME NEW k \in Request, Joined(k), k # i PROVE req'[i] = req[i]
  BY <1>7 DEF Joined, TypeOK
<1>8. ASSUME NEW m \in Node, NEW d \in Conn, ReceiveDone(m, d),
             ~(req[i].phase = "asking" /\ m = req[i].node /\ d = req[i].wait)
      PROVE  req'[i] = req[i]
  BY <1>8 DEF ReceiveDone, Waiting, Loops
<1>9. ASSUME NEW m \in Node, Restart(m) PROVE req'[i] = req[i]
  <2>1. req[i].node = m => [req[i] EXCEPT !.phase = "done"].phase = "done"
    BY CallType DEF TypeOK, Posting
  <2> QED
    BY <1>9, <2>1 DEF Restart
<1>10. \A s, k \in Node : AcceptPeer(s, k) => req' = req
  BY DEF AcceptPeer
<1>11. \A m \in Node, d \in Conn :
         ReceiveSync(m, d) \/ ReceiveError(m, d) \/ ClientConfirm(m, d) \/ Close(m, d) => req' = req
  BY DEF ReceiveSync, ReceiveError, ClientConfirm, Close
<1>12. \A m \in Node : \A x \in DOMAIN jobs[m] :
         SyncDeleted(m, x) \/ SyncDownloaded(m, x) \/ SyncBroken(m, x) \/ SyncStarted(m, x)
           \/ SyncFail(m, x) => req' = req
  BY DEF SyncDeleted, SyncDownloaded, SyncBroken, SyncStarted, SyncFail
<1>13. \A m \in Node : ClearTasks(m) => req' = req
  BY DEF ClearTasks
<1>14. \/ req'[i] = req[i]
       \/ Joined(i)
       \/ req[i].phase = "asking" /\ ReceiveDone(req[i].node, req[i].wait)
  BY <1>2, <1>4, <1>5, <1>6, <1>7, <1>8, <1>9, <1>10, <1>11, <1>12, <1>13, Zenon
     DEF Next, InitStep, Receive, SyncStep, Download
<1> QED
  BY <1>14

LEMMA JoinedSettles ==
  ASSUME TypeOK, Wired, NEW i \in Request, Joined(i), NEW n \in Node, NEW p \in Node, NEW c \in Conn,
         req'[i].phase = "asking", n = req'[i].node, c = req'[i].wait, Between(c, n, p)
  PROVE  Settled(n, p, c)'
<1>1. req[i] \in Posting /\ gone' = gone
  BY CallType DEF Joined, TypeOK
<1>2. pool[req[i].node] # {}
  <2>1. [req[i] EXCEPT !.phase = "done"].phase # "asking"
    BY <1>1 DEF Posting
  <2> QED
    BY <2>1 DEF Joined, TypeOK
<1>3. PICK d : d = Least(pool[req[i].node])
  OBVIOUS
<1>4. /\ req' = [req EXCEPT ![i].phase = "asking", ![i].wait = d, ![i].todo = pool[req[i].node] \ {d}]
      /\ inbox' = Sent(inbox, req[i].node, On(d, <<Sync(link[req[i].node])>>))
  BY <1>2, <1>3 DEF Joined
<1>5. n = req[i].node /\ c = d
  BY <1>1, <1>4 DEF TypeOK, Posting
<1>6. link[n] \in Content /\ inbox[p][c] \in Seq(Message)
  BY DEF TypeOK
<1>7. PICK out : out = On(c, <<Sync(link[n])>>)
  OBVIOUS
<1>8. out[c] = <<Sync(link[n])>>
  BY <1>7 DEF On
<1>9. out[c] \in Seq(Message)
  BY <1>6, <1>8, MessageType
<1>10. Carries(out[c], "sync")
  BY <1>8 DEF Carries, Sync
<1> QED
  BY <1>1, <1>4, <1>5, <1>6, <1>7, <1>9, <1>10, AskSettles

LEMMA AnswerSettles ==
  ASSUME TypeOK, Wired, NEW i \in Request, req[i].phase = "asking",
         ReceiveDone(req[i].node, req[i].wait),
         NEW n \in Node, NEW p \in Node, NEW c \in Conn,
         req'[i].phase = "asking", n = req'[i].node, c = req'[i].wait, Between(c, n, p)
  PROVE  Settled(n, p, c)'
<1>1. req[i] \in Posting /\ gone' = gone
  BY CallType DEF ReceiveDone, TypeOK
<1>2. PICK d : d = req[i].wait
  OBVIOUS
<1>3. i \in Waiting(req[i].node, d)
  BY <1>2 DEF Waiting, Loops
<1>4. req[i].todo # {} /\ req'[i] = [req[i] EXCEPT !.wait = Following(i), !.todo = @ \ {Following(i)}]
  <2>1. [req[i] EXCEPT !.phase = "done"].phase # "asking"
    BY <1>1 DEF Posting
  <2> QED
    BY <1>2, <1>3, <2>1 DEF ReceiveDone
<1>5. n = req[i].node /\ c = Following(i)
  BY <1>1, <1>4 DEF Posting
<1>6. PICK W : W = Waiting(n, d)
  OBVIOUS
<1>7. PICK box : box = [inbox EXCEPT ![n][d] = Tail(@)]
  OBVIOUS
<1>8. PICK out : out = [e \in Conn |-> [x \in 1 .. Cardinality(NextOn(W, e)) |-> Sync(link[n])]]
  OBVIOUS
<1>9. inbox' = Sent(box, n, out) /\ inbox[n][d] # <<>> /\ d \in Conn
  BY <1>2, <1>5, <1>6, <1>7, <1>8 DEF ReceiveDone, TypeOK, Wired, Known
<1>10. box[p][c] \in Seq(Message)
  <2>1. p # n
    BY DEF Between
  <2> QED
    BY <1>7, <2>1 DEF TypeOK
<1>11. Cardinality(NextOn(W, c)) \in Nat /\ 1 \in 1 .. Cardinality(NextOn(W, c))
  <2>1. i \in NextOn(W, c)
    BY <1>2, <1>3, <1>4, <1>5, <1>6 DEF NextOn
  <2>2. NextOn(W, c) \subseteq Request
    BY <1>6 DEF NextOn, Waiting, Loops
  <2>3. IsFiniteSet(NextOn(W, c)) /\ Cardinality(NextOn(W, c)) \in Nat
    BY <2>2, GridAssumption, FS_Subset, FS_CardinalityType
  <2> QED
    BY <2>1, <2>3, FS_EmptySet
<1>12. Sync(link[n]) \in Message
  BY MessageType DEF TypeOK
<1>13. out[c] = [x \in 1 .. Cardinality(NextOn(W, c)) |-> Sync(link[n])]
  BY <1>8
<1>14. out[c] \in Seq(Message)
  BY <1>11, <1>12, <1>13, CopiesType
<1>15. Carries(out[c], "sync")
  <2>1. 1 \in DOMAIN out[c] /\ out[c][1].kind = "sync"
    BY <1>11, <1>13 DEF Sync
  <2> QED
    BY <2>1 DEF Carries
<1> QED
  BY <1>1, <1>9, <1>10, <1>14, <1>15, AskSettles

----------------------------------------------------------------------------
LEMMA StallStep ==
  TypeOK /\ Wired /\ StallHasCause /\ [Next]_vars => StallHasCause'
<1> SUFFICES ASSUME TypeOK, Wired, StallHasCause, [Next]_vars PROVE StallHasCause'
  OBVIOUS
<1>1. CASE UNCHANGED vars
  BY <1>1 DEF vars, netVars, StallHasCause, Pending, Hopeless, Peer, Carries, Handling
<1>2. CASE Next
  <2> SUFFICES ASSUME NEW i \in Request, req'[i].phase = "asking"
               PROVE  (Pending(req[i].node, req[i].wait) \/ Hopeless(req[i].node, req[i].wait))'
    BY DEF StallHasCause
  <2>1. Wired' /\ TypeOK'
    BY <1>2, WiredStep, StepType
  <2>2. PICK n, c : n = req'[i].node /\ c = req'[i].wait
    OBVIOUS
  <2>3. \/ req'[i] = req[i] /\ ~ReceiveDone(req[i].node, req[i].wait)
        \/ Joined(i)
        \/ req[i].phase = "asking" /\ ReceiveDone(req[i].node, req[i].wait)
    BY <1>2, WaitStep
  <2>4. n \in Node /\ c \in Known(n)'
    BY <2>1, <2>2, CallType DEF TypeOK, Wired
  <2>5. c \in EndOf(n)' /\ c \in Conn
    BY <2>1, <2>4 DEF Wired, EndOf
  <2>6. PICK p \in Node : Between(c, n, p)'
    <3>1. n # None
      BY <2>4, GridAssumption
    <3>2. n \in {server'[c], client'[c]}
      BY <2>5 DEF EndOf
    <3>3. server'[c] \in Node \cup {None}
      BY <2>1, <2>5 DEF TypeOK
    <3>4. IF server'[c] = None THEN client'[c] = None ELSE client'[c] \in Node \ {server'[c]}
      BY <2>1, <2>5 DEF Wired
    <3>5. server'[c] \in Node /\ client'[c] \in Node /\ server'[c] # client'[c]
      BY <3>1, <3>2, <3>3, <3>4
    <3> QED
      BY <3>2, <3>5 DEF Between
  <2>7. Settled(n, p, c)'
    <3>1. CASE req'[i] = req[i] /\ ~ReceiveDone(req[i].node, req[i].wait)
      <4>1. req[i].phase = "asking" /\ n = req[i].node /\ c = req[i].wait
        BY <2>2, <3>1
      <4>2. c \in Known(n)
        BY <4>1 DEF Wired
      <4>3. c \in EndOf(n)
        BY <2>4, <4>2 DEF Wired
      <4>4. PICK q \in Node : Between(c, n, q)
        BY <2>4, <4>3, Ends
      <4>5. q = p
        <5>1. Between(c, n, q)'
          BY <1>2, <2>4, <2>5, <4>4, BetweenStep
        <5> QED
          BY <2>6, <5>1 DEF Between
      <4>6. Settled(n, p, c)
        <5>1. Peer(n, c) = p
          BY <2>4, <2>5, <4>4, <4>5, BetweenEnds
        <5>2. Pending(n, c) \/ Hopeless(n, c)
          BY <4>1 DEF StallHasCause
        <5> QED
          BY <5>1, <5>2 DEF Pending, Hopeless, Settled
      <4>7. ~ReceiveDone(n, c)
        BY <3>1, <4>1
      <4> QED
        BY <1>2, <2>4, <2>5, <4>2, <4>4, <4>5, <4>6, <4>7, SettledStep
    <3>2. UNCHANGED <<server, client>> => Between(c, n, p)
      BY <2>6 DEF Between
    <3>3. CASE Joined(i)
      <4>1. UNCHANGED <<server, client>>
        BY <3>3 DEF Joined
      <4> QED
        BY <2>2, <2>4, <2>5, <3>2, <3>3, <4>1, JoinedSettles
    <3>4. CASE req[i].phase = "asking" /\ ReceiveDone(req[i].node, req[i].wait)
      <4>1. UNCHANGED <<server, client>>
        BY <3>4 DEF ReceiveDone
      <4> QED
        BY <2>2, <2>4, <2>5, <3>2, <3>4, <4>1, AnswerSettles
    <3> QED
      BY <2>3, <3>1, <3>3, <3>4
  <2>8. Peer(n, c)' = p
    BY <2>6 DEF Between, Peer
  <2>9. (Pending(n, c) \/ Hopeless(n, c))'
    BY <2>7, <2>8 DEF Pending, Hopeless, Settled
  <2> QED
    BY <2>2, <2>9 DEF Pending, Hopeless, Peer
<1> QED
  BY <1>1, <1>2

\* Nothing is connected or asked at first.
LEMMA StallInit == Init => Wired /\ StallHasCause
<1> SUFFICES ASSUME Init PROVE Wired /\ StallHasCause
  OBVIOUS
<1>1. \A i \in Request : req[i].phase # "asking"
  BY DEF Init, Unsent
<1>2. \A n \in Node : Known(n) = {} /\ jobs[n] = <<>>
  BY DEF Init, Known
<1>3. \A c \in Conn : server[c] = None /\ client[c] = None
  BY DEF Init
<1> QED
  BY <1>1, <1>2, <1>3 DEF Wired, StallHasCause

\* askAllPeersToSync (gridcontrol.js) waits only for an ask under way, or is
\* stranded by a closed connection, a failed 'sync' or a missed message: with any
\* number of nodes, masters, connections and overlapping calls.
THEOREM StallCorrect == Spec => []StallHasCause
<1>1. Init => TypeOK /\ Wired /\ StallHasCause
  BY InitType, StallInit
<1>2. TypeOK /\ Wired /\ StallHasCause /\ [Next]_vars => (TypeOK /\ Wired /\ StallHasCause)'
  BY StepType, WiredStep, StallStep
<1> QED
  BY <1>1, <1>2, PTL DEF Spec

----------------------------------------------------------------------------
(* The digest and the link, whatever overlaps and fails                     *)

\* A call that has begun has a node and a version
LEMMA ActiveCall ==
  ASSUME TypeOK, NEW i \in Request, req[i].phase # "idle"
  PROVE  /\ req[i] \in Posting /\ req[i].node \in Node /\ req[i].ver \in Version
  BY CallType DEF TypeOK, Posting

\* What a call that begins finds, and what it becomes
LEMMA InitRequestStep ==
  ASSUME TypeOK, NEW i \in Request, NEW n \in Operators, NEW v \in Version, NEW loc \in BOOLEAN,
         InitRequest(i, n, v, loc)
  PROVE  /\ req'[i].phase = "starting" /\ req'[i].node = n /\ req'[i].ver = v
         /\ \A k \in Request \ {i} : req'[k] = req[k]
<1>1. req[i] = Unsent
  <2>1. req[i] \in Call /\ req[i].phase = "idle"
    BY DEF InitRequest, TypeOK
  <2>2. req[i] \notin Posting
    BY <2>1, CallType
  <2> QED
    BY <2>1, <2>2 DEF Call
<1>2. req'[i] = [Unsent EXCEPT !.node = n, !.ver = v, !.phase = "starting"]
  BY <1>1 DEF InitRequest, TypeOK
<1> QED
  BY <1>2 DEF InitRequest, TypeOK, Unsent

\* The other steps leave the calls and the files of their nodes alone
LEMMA OtherSteps ==
  ASSUME Next
  PROVE  \/ \E i \in Request, n \in Operators, v \in Version, loc \in BOOLEAN :
              InitRequest(i, n, v, loc)
         \/ \E i \in Request : InitStep(i) \/ InitFail(i) \/ SpreadFail(i)
         \/ \E n \in Node, c \in Conn : ReceiveDone(n, c)
         \/ \E n \in Node : Restart(n)
         \/ UNCHANGED <<req, fileVars>>
<1>1. \A s, k \in Node : AcceptPeer(s, k) => UNCHANGED <<req, fileVars>>
  BY DEF AcceptPeer
<1>2. \A n \in Node, c \in Conn : Receive(n, c) \/ Close(n, c) =>
        ReceiveDone(n, c) \/ UNCHANGED <<req, fileVars>>
  BY DEF Receive, ReceiveSync, ReceiveError, ClientConfirm, Close
<1>3. \A n \in Node : \A x \in DOMAIN jobs[n] :
        SyncDeleted(n, x) \/ SyncDownloaded(n, x) \/ SyncBroken(n, x) \/ SyncStarted(n, x)
          \/ SyncFail(n, x) => UNCHANGED <<req, fileVars>>
  BY DEF SyncDeleted, SyncDownloaded, SyncBroken, SyncStarted, SyncFail
<1>4. \A n \in Node : ClearTasks(n) => UNCHANGED <<req, fileVars>>
  BY DEF ClearTasks
<1> QED
  BY <1>1, <1>2, <1>3, <1>4, Zenon DEF Next, SyncStep, Download

\* The call i writes or reads the file that its node packs
Spreads(i) == req[i].phase \in {"packing", "mixed", "archiving"}

\* Two calls of a node that do so at once have crossed, a call that packs over
\* another has, and a call that has not begun to pack has not.
Apart == \A i, j \in Request :
           Spreads(i) /\ Spreads(j) /\ req[i].node = req[j].node => i = j \/ i \in crossed
Ahead == \A i \in Request : /\ req[i].phase = "mixed" => i \in crossed
                            /\ req[i].phase \in {"idle", "starting"} => i \notin crossed

\* What a call archives that has not crossed another is the content whose digest
\* its node remembers; and it is on a node that has gone astray that calls cross.
OwnImage == \A i \in Request : req[i].phase = "archiving" /\ i \notin crossed =>
              /\ md5[req[i].node] = req[i].img
              /\ tmp[req[i].node] = req[i].img
Straight == \A i \in Request : Spreads(i) /\ i \in crossed => req[i].node \in astray

Linked == Apart /\ Ahead /\ OwnImage /\ Straight /\ LinkFollowsDigest

LEMMA LinkedInit == Init => Linked
  BY DEF Init, Unsent, Linked, Apart, Ahead, OwnImage, Straight, Spreads, LinkFollowsDigest

\* Steps that begin a call, or end it before its archive, or take it on from there
LEMMA LinkedKept ==
  ASSUME Linked, UNCHANGED fileVars,
         \A k \in Request :
           \/ req'[k] = req[k]
           \/ /\ req[k].phase # "archiving"
              /\ req'[k].phase \notin {"idle", "packing", "mixed", "archiving"}
              /\ req'[k].phase = "starting" => req[k].phase = "idle"
  PROVE  Linked'
<1> USE DEF Linked, fileVars
<1>1. \A k \in Request : Spreads(k)' => req'[k] = req[k] /\ Spreads(k)
  BY DEF Spreads
<1>2. Apart'
  BY <1>1 DEF Apart
<1>3. Ahead'
  BY DEF Ahead
<1>4. OwnImage'
  BY DEF OwnImage
<1>5. Straight'
  BY <1>1 DEF Straight
<1>6. LinkFollowsDigest'
  BY DEF LinkFollowsDigest
<1> QED
  BY <1>2, <1>3, <1>4, <1>5, <1>6

\* The call that begins to pack crosses those that pack or archive on its node.
LEMMA StartedLinked ==
  ASSUME TypeOK, Linked, NEW i \in Request, InitStarted(i)
  PROVE  Linked'
<1> DEFINE n == req[i].node
<1> USE DEF Linked
<1>1. /\ req[i].phase = "starting" /\ i \notin crossed /\ i \notin Spreading(n)
      /\ req[i] \in Posting /\ n \in Node
  BY ActiveCall DEF InitStarted, Ahead, Spreading
<1>2. UNCHANGED <<md5, link>> /\ tmp' = [tmp EXCEPT ![n] = Torn]
  BY DEF InitStarted
<1>3. /\ req'[i].node = n /\ req'[i].phase \in {"packing", "mixed"}
      /\ req'[i].phase = "mixed" => Packing(n) # {}
  <2>1. req'[i] = [req[i] EXCEPT !.phase = IF Packing(n) = {} THEN "packing" ELSE "mixed"]
    BY <1>1 DEF InitStarted, Packing
  <2> QED
    BY <1>1, <2>1 DEF Posting
<1>4. ASSUME NEW k \in Request, k # i
      PROVE  /\ req'[k].node = req[k].node /\ (Spreads(k)' <=> Spreads(k))
             /\ req'[k].phase # req[k].phase => req'[k].phase = "mixed" /\ k \in Packing(n)
             /\ req'[k].img = req[k].img
  <2>1. CASE k \in Packing(n)
    <3>1. req'[k] = [req[k] EXCEPT !.phase = "mixed"] /\ req[k].phase \in {"packing", "mixed"}
      BY <2>1 DEF InitStarted, Packing
    <3>2. req[k] \in Posting
      BY <3>1, ActiveCall
    <3> QED
      BY <2>1, <3>1, <3>2 DEF Posting, Spreads
  <2>2. CASE k \notin Packing(n)
    BY <1>4, <2>2 DEF InitStarted, Spreads
  <2> QED
    BY <2>1, <2>2
<1>5. Packing(n) \subseteq Spreading(n)
  BY DEF Packing, Spreading
<1>6. \A k \in Request : k \in Spreading(n) <=> Spreads(k) /\ req[k].node = n
  BY DEF Spreading, Spreads
<1>7. CASE Spreading(n) = {}
  <2>1. UNCHANGED <<crossed, astray>>
    BY <1>7 DEF InitStarted
  <2>2. \A k \in Request \ {i} : req'[k].phase = req[k].phase
    BY <1>4, <1>5, <1>7
  <2>3. \A k \in Request : Spreads(k) => req[k].node # n
    BY <1>6, <1>7
  <2>4. Apart'
    BY <1>3, <1>4, <2>1, <2>3 DEF Apart
  <2>5. Ahead'
    BY <1>3, <1>5, <1>7, <2>1, <2>2 DEF Ahead
  <2>6. OwnImage'
    <3> SUFFICES ASSUME NEW k \in Request, req'[k].phase = "archiving", k \notin crossed
                 PROVE  md5[req'[k].node] = req'[k].img /\ tmp'[req'[k].node] = req'[k].img
      BY <1>2, <2>1 DEF OwnImage
    <3>1. k # i /\ req[k].phase = "archiving" /\ Spreads(k)
      BY <1>3, <2>2 DEF Spreads
    <3>2. req[k].node # n /\ req[k].node \in Node
      BY <2>3, <3>1, ActiveCall
    <3>3. tmp'[req[k].node] = tmp[req[k].node]
      BY <1>2, <3>2 DEF TypeOK
    <3> QED
      BY <1>4, <3>1, <3>3 DEF OwnImage
  <2>7. Straight'
    BY <1>1, <1>4, <2>1 DEF Straight
  <2>8. LinkFollowsDigest'
    BY <1>1, <1>2, <1>4, <2>1, <2>2 DEF LinkFollowsDigest
  <2> QED
    BY <2>4, <2>5, <2>6, <2>7, <2>8
<1>8. CASE Spreading(n) # {}
  <2>1. crossed' = crossed \cup Spreading(n) \cup {i} /\ astray' = astray \cup {n}
    BY <1>8 DEF InitStarted
  <2>2. Apart'
    <3> SUFFICES ASSUME NEW k \in Request, NEW j \in Request, Spreads(k)', Spreads(j)',
                        req'[k].node = req'[j].node, k # j
                 PROVE  k \in crossed'
      BY DEF Apart
    <3>1. CASE req'[k].node = n
      BY <1>4, <1>6, <2>1, <3>1
    <3>2. CASE req'[k].node # n
      BY <1>3, <1>4, <2>1, <3>2 DEF Apart
    <3> QED
      BY <3>1, <3>2
  <2>3. Ahead'
    <3> SUFFICES ASSUME NEW k \in Request
                 PROVE  /\ req'[k].phase = "mixed" => k \in crossed'
                        /\ req'[k].phase \in {"idle", "starting"} => k \notin crossed'
      BY DEF Ahead
    <3>1. CASE k = i
      BY <1>3, <2>1, <3>1
    <3>2. CASE k # i /\ k \in Packing(n)
      BY <1>4, <1>5, <2>1, <3>2 DEF Spreads, Packing
    <3>3. CASE k # i /\ k \notin Packing(n)
      BY <1>4, <1>6, <2>1, <3>3 DEF Ahead, Spreads
    <3> QED
      BY <3>1, <3>2, <3>3
  <2>4. OwnImage'
    <3> SUFFICES ASSUME NEW k \in Request, req'[k].phase = "archiving", k \notin crossed'
                 PROVE  md5[req'[k].node] = req'[k].img /\ tmp'[req'[k].node] = req'[k].img
      BY <1>2 DEF OwnImage
    <3>1. k # i /\ req[k].phase = "archiving" /\ Spreads(k)
      BY <1>3, <1>4 DEF Spreads
    <3>2. req[k].node # n /\ req[k].node \in Node /\ k \notin crossed
      BY <1>6, <2>1, <3>1, ActiveCall
    <3>3. tmp'[req[k].node] = tmp[req[k].node]
      BY <1>2, <3>2 DEF TypeOK
    <3> QED
      BY <1>4, <3>1, <3>2, <3>3 DEF OwnImage
  <2>5. Straight'
    <3> SUFFICES ASSUME NEW k \in Request, Spreads(k)', k \in crossed'
                 PROVE  req'[k].node \in astray'
      BY DEF Straight
    <3>1. CASE k = i \/ k \in Spreading(n)
      BY <1>3, <1>4, <1>6, <2>1, <3>1
    <3>2. CASE k # i /\ k \notin Spreading(n)
      BY <1>4, <2>1, <3>2 DEF Straight
    <3> QED
      BY <3>1, <3>2
  <2>6. LinkFollowsDigest'
    <3> SUFFICES ASSUME NEW m \in Node \ astray', md5[m] # link[m]
                 PROVE  \E k \in Request : req'[k].node = m /\ req'[k].phase = "archiving"
      BY <1>2 DEF LinkFollowsDigest
    <3>1. PICK k \in Request : req[k].node = m /\ req[k].phase = "archiving"
      BY <2>1 DEF LinkFollowsDigest
    <3>2. k # i /\ k \notin Packing(n)
      BY <1>1, <3>1 DEF Packing
    <3> QED
      BY <1>4, <3>1, <3>2
  <2> QED
    BY <2>2, <2>3, <2>4, <2>5, <2>6
<1> QED
  BY <1>7, <1>8

\* What the end of the pack and of the archive make of the call i
LEMMA PackLinked ==
  ASSUME TypeOK, Linked, NEW i \in Request, PackDone(i)
  PROVE  Linked'
<1> DEFINE n == req[i].node
<1> USE DEF Linked
<1>1. req[i].phase \in {"packing", "mixed"} /\ Spreads(i) /\ req[i] \in Posting /\ n \in Node
  BY ActiveCall DEF PackDone, Spreads
<1>2. PICK x \in Packed(i) :
        /\ tmp' = [tmp EXCEPT ![n] = x]
        /\ \/ x = md5[n] /\ UNCHANGED md5 /\ req' = [req EXCEPT ![i].phase = "done"]
           \/ /\ md5' = [md5 EXCEPT ![n] = x]
              /\ req' = [req EXCEPT ![i].phase = "archiving", ![i].img = x]
        /\ UNCHANGED <<link, crossed, astray>>
  BY Zenon DEF PackDone
<1>3. \A k \in Request \ {i} : req'[k] = req[k]
  BY <1>2 DEF TypeOK
<1>4. \A k \in Request \ {i} : Spreads(k) /\ req[k].node = n => k \in crossed
  BY <1>1 DEF Apart
<1>5. \A m \in Node \ {n} : tmp'[m] = tmp[m] /\ md5'[m] = md5[m]
  BY <1>2 DEF TypeOK
<1>6. \/ md5'[n] = md5[n] /\ req'[i].phase = "done"
      \/ /\ req'[i].phase = "archiving" /\ req'[i].node = n /\ req'[i].img = x
         /\ md5'[n] = x /\ tmp'[n] = x
  BY <1>1, <1>2 DEF TypeOK, Posting
<1>7. Apart'
  BY <1>1, <1>2, <1>3, <1>6 DEF Apart, Spreads
<1>8. Ahead'
  BY <1>2, <1>3, <1>6 DEF Ahead
<1>9. OwnImage'
  <2> SUFFICES ASSUME NEW k \in Request \ {i}, req[k].phase = "archiving", k \notin crossed
               PROVE  md5'[req[k].node] = req[k].img /\ tmp'[req[k].node] = req[k].img
    BY <1>2, <1>3, <1>6 DEF OwnImage
  <2>1. req[k].node \in Node \ {n}
    BY <1>4, ActiveCall DEF Spreads
  <2> QED
    BY <1>5, <2>1 DEF OwnImage
<1>10. Straight'
  BY <1>1, <1>2, <1>3, <1>6 DEF Straight, Spreads
<1>11. LinkFollowsDigest'
  <2> SUFFICES ASSUME NEW m \in Node \ astray, md5'[m] # link[m]
               PROVE  \E k \in Request : req'[k].node = m /\ req'[k].phase = "archiving"
    BY <1>2 DEF LinkFollowsDigest
  <2>1. CASE md5'[m] = md5[m]
    <3>1. PICK k \in Request : req[k].node = m /\ req[k].phase = "archiving"
      BY <2>1 DEF LinkFollowsDigest
    <3> QED
      BY <1>1, <1>3, <3>1
  <2>2. CASE md5'[m] # md5[m]
    BY <1>5, <1>6, <2>2
  <2> QED
    BY <2>1, <2>2
<1> QED
  BY <1>7, <1>8, <1>9, <1>10, <1>11

LEMMA ArchivedLinked ==
  ASSUME TypeOK, Linked, NEW i \in Request, Archived(i)
  PROVE  Linked'
<1> DEFINE n == req[i].node
<1> USE DEF Linked
<1>1. req[i].phase = "archiving" /\ Spreads(i) /\ req[i] \in Posting /\ n \in Node
  BY ActiveCall DEF Archived, Spreads
<1>2. /\ UNCHANGED <<md5, tmp, crossed>> /\ req' = [req EXCEPT ![i].phase = "joining"]
      /\ astray' = IF i \in crossed THEN astray ELSE astray \ {n}
      /\ \E x \in Archives(i) : link' = [link EXCEPT ![n] = x]
  BY DEF Archived
<1>3. req'[i].phase = "joining" /\ \A k \in Request \ {i} : req'[k] = req[k]
  BY <1>1, <1>2 DEF TypeOK, Posting
<1>4. i \notin crossed => \A k \in Request \ {i} : Spreads(k) => req[k].node # n
  BY <1>1 DEF Apart
<1>5. Apart' /\ Ahead' /\ OwnImage'
  BY <1>2, <1>3 DEF Apart, Ahead, OwnImage, Spreads
<1>6. Straight'
  BY <1>2, <1>3, <1>4 DEF Straight, Spreads
<1>7. LinkFollowsDigest'
  <2> SUFFICES ASSUME NEW m \in Node \ astray', md5[m] # link'[m]
               PROVE  \E k \in Request : req'[k].node = m /\ req'[k].phase = "archiving"
    BY <1>2 DEF LinkFollowsDigest
  <2>1. m # n
    <3>1. CASE i \in crossed
      BY <1>1, <1>2, <3>1 DEF Straight
    <3>2. CASE i \notin crossed
      <4>1. Archives(i) = {md5[n]}
        BY <1>1, <3>2 DEF Archives, OwnImage
      <4>2. link'[n] = md5[n]
        BY <1>1, <1>2, <4>1 DEF TypeOK
      <4> QED
        BY <4>2
    <3> QED
      BY <3>1, <3>2
  <2>2. link'[m] = link[m] /\ m \notin astray
    BY <1>2, <2>1 DEF TypeOK
  <2> QED
    BY <1>3, <2>1, <2>2 DEF LinkFollowsDigest
<1> QED
  BY <1>5, <1>6, <1>7

\* A spread that fails leaves its node astray; a restart begins anew.
LEMMA FailedLinked ==
  ASSUME TypeOK, Linked, NEW i \in Request, SpreadFail(i)
  PROVE  Linked'
<1> USE DEF Linked
<1>1. Spreads(i) /\ req[i] \in Posting
  BY ActiveCall DEF SpreadFail, Spreads
<1>2. /\ UNCHANGED <<md5, link, tmp, crossed>> /\ req' = [req EXCEPT ![i].phase = "done"]
      /\ astray' = astray \cup {req[i].node}
  BY DEF SpreadFail
<1>3. req'[i].phase = "done" /\ \A k \in Request \ {i} : req'[k] = req[k]
  BY <1>1, <1>2 DEF TypeOK, Posting
<1>4. Apart' /\ Ahead' /\ OwnImage' /\ Straight'
  BY <1>2, <1>3 DEF Apart, Ahead, OwnImage, Straight, Spreads
<1>5. LinkFollowsDigest'
  BY <1>2, <1>3 DEF LinkFollowsDigest
<1> QED
  BY <1>4, <1>5

LEMMA RestartLinked ==
  ASSUME TypeOK, Linked, NEW n \in Node, Restart(n)
  PROVE  Linked'
<1> USE DEF Linked
<1>1. /\ md5' = [md5 EXCEPT ![n] = None] /\ link' = [link EXCEPT ![n] = None]
      /\ astray' = astray \ {n} /\ UNCHANGED <<tmp, crossed>>
  BY DEF Restart
<1>2. \A k \in Request : req[k].node # n => req'[k] = req[k]
  BY DEF Restart
<1>3. \A k \in Request : req[k].node = n =>
        /\ req'[k].phase \notin {"packing", "mixed", "archiving", "idle", "starting"}
        /\ ~Spreads(k)'
  <2> SUFFICES ASSUME NEW k \in Request, req[k].node = n PROVE req'[k].phase = "done"
    BY DEF Spreads
  <2>1. req'[k] = [req[k] EXCEPT !.phase = "done"]
    BY DEF Restart
  <2>2. req[k] \in Posting
    <3>1. req[k] \in Call /\ n # None
      BY GridAssumption DEF TypeOK
    <3> QED
      BY <3>1 DEF Call, Unsent
  <2> QED
    BY <2>1, <2>2 DEF Posting
<1>4. \A m \in Node \ {n} : md5'[m] = md5[m] /\ link'[m] = link[m]
  BY <1>1 DEF TypeOK
<1>5. Apart' /\ Ahead' /\ Straight'
  BY <1>1, <1>2, <1>3 DEF Apart, Ahead, Straight, Spreads
<1>6. OwnImage'
  <2> SUFFICES ASSUME NEW k \in Request, req'[k].phase = "archiving", k \notin crossed'
               PROVE  md5'[req'[k].node] = req'[k].img /\ tmp'[req'[k].node] = req'[k].img
    BY DEF OwnImage
  <2>1. req'[k] = req[k] /\ req[k].node # n
    BY <1>2, <1>3
  <2>2. req[k].node \in Node
    BY <2>1, ActiveCall
  <2> QED
    BY <1>1, <1>4, <2>1, <2>2 DEF OwnImage
<1>7. LinkFollowsDigest'
  <2>1. md5'[n] = link'[n]
    BY <1>1 DEF TypeOK
  <2> QED
    BY <1>1, <1>2, <1>4, <2>1 DEF LinkFollowsDigest
<1> QED
  BY <1>5, <1>6, <1>7

LEMMA LinkedStep ==
  ASSUME TypeOK, Linked, [Next]_vars
  PROVE  Linked'
<1>1. CASE UNCHANGED <<req, fileVars>>
  BY <1>1, LinkedKept DEF fileVars
<1>2. CASE UNCHANGED vars
  BY <1>1, <1>2 DEF vars
<1>3. ASSUME NEW i \in Request, NEW n \in Operators, NEW v \in Version, NEW loc \in BOOLEAN,
             InitRequest(i, n, v, loc)
      PROVE  Linked'
  BY <1>3, InitRequestStep, LinkedKept DEF InitRequest
<1>4. ASSUME NEW i \in Request, InitFail(i) \/ Joined(i) PROVE Linked'
  <2>1. req[i].phase \in {"starting", "joining"} /\ UNCHANGED fileVars
    BY <1>4 DEF InitFail, Joined
  <2>2. req[i] \in Posting
    BY <2>1, ActiveCall
  <2>3. \/ req' = [req EXCEPT ![i].phase = "done"]
        \/ \E c, S : req' = [req EXCEPT ![i].phase = "asking", ![i].wait = c, ![i].todo = S]
    BY <1>4, Zenon DEF InitFail, Joined
  <2>4. req'[i].phase \in {"done", "asking"} /\ \A k \in Request \ {i} : req'[k] = req[k]
    <3>1. CASE req' = [req EXCEPT ![i].phase = "done"]
      BY <2>2, <3>1 DEF TypeOK, Posting
    <3>2. ASSUME NEW c, NEW S,
                 req' = [req EXCEPT ![i].phase = "asking", ![i].wait = c, ![i].todo = S]
          PROVE  req'[i].phase = "asking" /\ \A k \in Request \ {i} : req'[k] = req[k]
      BY <2>2, <3>2 DEF TypeOK, Posting
    <3> QED
      BY <2>3, <3>1, <3>2
  <2> QED
    BY <2>1, <2>4, LinkedKept
<1>5. ASSUME NEW n \in Node, NEW c \in Conn, ReceiveDone(n, c) PROVE Linked'
  <2>1. \A k \in Request : k \notin Waiting(n, c) => req'[k] = req[k]
    BY <1>5 DEF ReceiveDone
  <2>2. ASSUME NEW k \in Waiting(n, c)
        PROVE  /\ k \in Request /\ req[k].phase = "asking" /\ req'[k].phase \in {"done", "asking"}
    <3>1. k \in Request /\ req[k].phase = "asking" /\ req[k] \in Posting
      BY ActiveCall DEF Waiting, Loops
    <3>2. \/ req'[k] = [req[k] EXCEPT !.phase = "done"]
          \/ req'[k] = [req[k] EXCEPT !.wait = Following(k), !.todo = @ \ {Following(k)}]
      BY <1>5, <3>1 DEF ReceiveDone
    <3> QED
      BY <3>1, <3>2 DEF Posting
  <2> QED
    BY <1>5, <2>1, <2>2, LinkedKept DEF ReceiveDone
<1>6. CASE Next
  BY <1>1, <1>3, <1>4, <1>5, <1>6, OtherSteps, StartedLinked, PackLinked, ArchivedLinked,
     FailedLinked, RestartLinked, Zenon DEF InitStep
<1> QED
  BY <1>2, <1>6

\* Comparing digests tells whether the archive that a node shares is that of the
\* content it is given (initializeAndSpread, file_manager.js), whatever overlaps,
\* fails, closes, restarts or joins: but on a node where calls have crossed, or a
\* spread has failed, since the last archive of a call that crossed no other.
THEOREM LinkFollowsDigestHolds == Spec => []LinkFollowsDigest
<1>1. Init => TypeOK /\ Linked
  BY InitType, LinkedInit
<1>2. TypeOK /\ Linked /\ [Next]_vars => (TypeOK /\ Linked)'
  BY StepType, LinkedStep
<1>3. Linked => LinkFollowsDigest
  BY DEF Linked
<1> QED
  BY <1>1, <1>2, <1>3, PTL DEF Spec

=============================================================================
