-------------------------- MODULE GridSerialProofs --------------------------
(* What GridSync promises when the calls to /tasks/init do not overlap, for  *)
(* any number of nodes, connections, requests and versions.                  *)
EXTENDS GridSyncProofs

----------------------------------------------------------------------------
(* One call at a time *)

\* The call i is under way
Active(i) == req[i].phase \notin {"idle", "done"}

\* At most one call is under way, nobody rewrites the file it packs, and what it
\* archives is the content whose digest its node remembers.
OneCall == \A i, j \in Request : Active(i) /\ Active(j) => i = j
Unmixed == \A i \in Request : req[i].phase # "mixed"
OwnFile == \A i \in Request : req[i].phase = "archiving" =>
             /\ req[i].img = req[i].ver
             /\ md5[req[i].node] = req[i].img /\ tmp[req[i].node] = req[i].img

Calls == OneCall /\ Unmixed /\ OwnFile

\* Steps that end a call, or take it past its archive
LEMMA CallsKept ==
  ASSUME Calls,
         \A k \in Request : \/ req'[k] = req[k]
                            \/ Active(k) /\ req'[k].phase \notin {"mixed", "archiving"},
         \A k \in Request : req[k].phase = "archiving" /\ req'[k] = req[k] =>
           /\ md5'[req[k].node] = md5[req[k].node]
           /\ tmp'[req[k].node] = tmp[req[k].node]
  PROVE  Calls'
<1>1. \A k \in Request : Active(k)' => Active(k)
  BY DEF Active
<1>2. OneCall'
  BY <1>1 DEF Calls, OneCall
<1>3. Unmixed'
  BY DEF Calls, Unmixed
<1>4. OwnFile'
  BY DEF Calls, OwnFile
<1> QED
  BY <1>2, <1>3, <1>4 DEF Calls

LEMMA CallStepCalls ==
  ASSUME TypeOK, Calls, "overlap" \notin Allowed, NEW i \in Request
  PROVE  /\ \A n \in Operators, v \in Version, loc \in BOOLEAN :
              InitRequest(i, n, v, loc) => Calls'
         /\ InitStep(i) => Calls'
         /\ InitFail(i) => Calls'
         /\ SpreadFail(i) => Calls'
<1> DEFINE n == req[i].node
<1>1. ASSUME NEW m \in Operators, NEW v \in Version, NEW loc \in BOOLEAN,
             InitRequest(i, m, v, loc)
      PROVE  Calls'
  <2>1. /\ req'[i].phase = "starting"
        /\ \A k \in Request \ {i} : req'[k] = req[k]
    BY <1>1, InitRequestStep
  <2>2. \A k \in Request : ~Active(k)
    BY <1>1 DEF InitRequest, Quiet, Active
  <2>3. \A k \in Request : Active(k)' => k = i
    BY <2>1, <2>2 DEF Active
  <2>4. \A k \in Request : req'[k].phase \notin {"mixed", "archiving"}
    BY <2>1, <2>2 DEF Active
  <2> QED
    BY <2>3, <2>4 DEF Calls, OneCall, Unmixed, OwnFile
<1>2. ASSUME Active(i),
             \A k \in Request \ {i} : req'[k] = req[k],
             req'[i].phase \notin {"mixed", "archiving"}, UNCHANGED md5
      PROVE  Calls'
  <2>1. \A k \in Request : req[k].phase = "archiving" => k = i
    BY <1>2 DEF Calls, OneCall, Active
  <2>2. CASE req'[i] # req[i]
    <3>1. \A k \in Request : req[k].phase = "archiving" => req'[k] # req[k]
      BY <2>1, <2>2
    <3> QED
      BY <1>2, <3>1, CallsKept
  <2>3. CASE req'[i] = req[i]
    <3>1. \A k \in Request : req[k].phase # "archiving"
      BY <1>2, <2>1, <2>3
    <3> QED
      BY <1>2, <3>1, CallsKept
  <2> QED
    BY <2>2, <2>3
<1>3. ASSUME InitStarted(i) PROVE Calls'
  <2>1. Active(i) /\ i \notin Packing(n)
    BY <1>3 DEF InitStarted, Active, Packing
  <2>2. Packing(n) = {}
    BY <2>1 DEF Packing, Calls, OneCall, Active
  <2>3. req'[i] = [req[i] EXCEPT !.phase = "packing"]
    BY <1>3, <2>2 DEF InitStarted, TypeOK
  <2>4. req'[i].phase = "packing"
    <3>1. req[i] \in Posting
      BY <2>1, ActiveCall DEF Active
    <3> QED
      BY <2>3, <3>1 DEF Posting
  <2>5. \A k \in Request \ {i} : req'[k] = req[k]
    BY <1>3, <2>2 DEF InitStarted
  <2> QED
    BY <1>2, <1>3, <2>1, <2>4, <2>5 DEF InitStarted
<1>4. ASSUME NEW p \in Phase, p \notin {"mixed", "archiving"}, Active(i),
             req' = [req EXCEPT ![i].phase = p], UNCHANGED md5
      PROVE  Calls'
  <2>1. req[i] \in Posting
    BY <1>4, ActiveCall DEF Active
  <2>2. req'[i].phase = p /\ \A k \in Request \ {i} : req'[k] = req[k]
    BY <1>4, <2>1 DEF TypeOK, Posting
  <2> QED
    BY <1>2, <1>4, <2>2
<1>5. InitFail(i) \/ SpreadFail(i) \/ Archived(i) => Calls'
  BY <1>4 DEF InitFail, SpreadFail, Archived, fileVars, Active, Phase
<1>6. ASSUME PackDone(i) PROVE Calls'
  <2>1. Active(i) /\ req[i].phase = "packing"
    BY <1>6 DEF PackDone, Active, Calls, Unmixed
  <2>2. PICK x : /\ x = req[i].ver
                 /\ tmp' = [tmp EXCEPT ![n] = x]
                 /\ \/ req' = [req EXCEPT ![i].phase = "done"] /\ UNCHANGED md5
                    \/ /\ md5' = [md5 EXCEPT ![n] = x]
                       /\ req' = [req EXCEPT ![i].phase = "archiving", ![i].img = x]
    <3>1. Packed(i) = {req[i].ver}
      BY <2>1 DEF Packed
    <3> QED
      BY <1>6, <3>1, Zenon DEF PackDone
  <2>3. CASE req' = [req EXCEPT ![i].phase = "done"] /\ UNCHANGED md5
    BY <1>4, <2>1, <2>3 DEF Phase
  <2>4. CASE /\ md5' = [md5 EXCEPT ![n] = x]
             /\ req' = [req EXCEPT ![i].phase = "archiving", ![i].img = x]
    <3>1. req[i] \in Posting /\ n \in Node
      BY <2>1, ActiveCall
    <3>2. req'[i].phase = "archiving" /\ req'[i].img = x /\ req'[i].ver = x /\ req'[i].node = n
      BY <2>2, <2>4, <3>1 DEF TypeOK, Posting
    <3>3. \A k \in Request \ {i} : req'[k] = req[k] /\ ~Active(k)
      BY <2>1, <2>4 DEF TypeOK, Calls, OneCall
    <3>4. md5'[n] = x /\ tmp'[n] = x
      BY <2>2, <2>4, <3>1 DEF TypeOK
    <3>5. OneCall' /\ Unmixed'
      BY <3>2, <3>3 DEF Active, OneCall, Unmixed
    <3>6. \A k \in Request \ {i} : req'[k].phase # "archiving"
      BY <3>3 DEF Active
    <3>7. OwnFile'
      BY <3>2, <3>4, <3>6 DEF OwnFile
    <3> QED
      BY <3>5, <3>7 DEF Calls
  <2> QED
    BY <2>2, <2>3, <2>4
<1>7. ASSUME Joined(i) PROVE Calls'
  <2>1. Active(i) /\ UNCHANGED md5 /\ req[i] \in Posting
    <3>1. req[i].phase = "joining" /\ UNCHANGED md5
      BY <1>7 DEF Joined, fileVars
    <3> QED
      BY <3>1, ActiveCall DEF Active
  <2>2. \/ req' = [req EXCEPT ![i].phase = "done"]
        \/ \E c, S : req' = [req EXCEPT ![i].phase = "asking", ![i].wait = c, ![i].todo = S]
    BY <1>7, Zenon DEF Joined
  <2>3. /\ req'[i].phase \in {"done", "asking"}
        /\ \A k \in Request \ {i} : req'[k] = req[k]
    <3>1. CASE req' = [req EXCEPT ![i].phase = "done"]
      BY <2>1, <3>1 DEF TypeOK, Posting
    <3>2. ASSUME NEW c, NEW S,
                 req' = [req EXCEPT ![i].phase = "asking", ![i].wait = c, ![i].todo = S]
          PROVE  req'[i].phase = "asking" /\ \A k \in Request \ {i} : req'[k] = req[k]
      BY <2>1, <3>2 DEF TypeOK, Posting
    <3> QED
      BY <2>2, <3>1, <3>2
  <2> QED
    BY <1>2, <2>1, <2>3
<1> QED
  BY <1>1, <1>3, <1>5, <1>6, <1>7 DEF InitStep

LEMMA ReceiveDoneCalls ==
  ASSUME TypeOK, Calls, NEW n \in Node, NEW c \in Conn, ReceiveDone(n, c)
  PROVE  Calls'
<1>1. \A i \in Waiting(n, c) : i \in Request /\ req[i].phase = "asking" /\ req[i] \in Posting
  BY ActiveCall DEF Waiting, Loops
<1>2. \A i \in Request : \/ req'[i] = req[i]
                         \/ Active(i) /\ req'[i].phase \in {"done", "asking"}
  <2> SUFFICES ASSUME NEW i \in Waiting(n, c)
               PROVE  Active(i) /\ req'[i].phase \in {"done", "asking"}
    BY DEF ReceiveDone
  <2>1. \/ req'[i] = [req[i] EXCEPT !.phase = "done"]
        \/ req'[i] = [req[i] EXCEPT !.wait = Following(i), !.todo = @ \ {Following(i)}]
    BY <1>1 DEF ReceiveDone
  <2> QED
    BY <1>1, <2>1 DEF Posting, Active
<1> QED
  BY <1>2, CallsKept DEF ReceiveDone, fileVars

LEMMA RestartCalls ==
  ASSUME TypeOK, Calls, NEW n \in Node, Restart(n)
  PROVE  Calls'
<1>1. \A i \in Request : req[i].node # n => req'[i] = req[i]
  BY DEF Restart
<1>2. \A i \in Request : req[i].node = n => req'[i] = [req[i] EXCEPT !.phase = "done"]
  BY DEF Restart
<1>3. \A i \in Request : req[i].node = n /\ Active(i) => req'[i].phase = "done"
  <2> SUFFICES ASSUME NEW i \in Request, req[i].node = n, Active(i) PROVE req'[i].phase = "done"
    OBVIOUS
  <2>1. req[i] \in Posting
    BY ActiveCall DEF Active
  <2> QED
    BY <1>2, <2>1 DEF Posting
<1>4. \A i \in Request : req[i].node = n /\ ~Active(i) => req'[i] = req[i]
  <2> SUFFICES ASSUME NEW i \in Request, req[i].node = n, ~Active(i) PROVE req'[i] = req[i]
    OBVIOUS
  <2>1. req[i] \in Call /\ req[i].phase \in {"idle", "done"}
    BY DEF TypeOK, Active
  <2>2. req[i] \in Posting
    BY <2>1, CallType
  <2>3. req[i].phase = "done"
    BY <2>1, <2>2, CallType
  <2>4. [req[i] EXCEPT !.phase = "done"] = req[i]
    BY <2>2, <2>3 DEF Posting
  <2> QED
    BY <1>2, <2>4
<1>5. \A i \in Request : req'[i] = req[i] \/ (Active(i) /\ req'[i].phase = "done")
  BY <1>1, <1>3, <1>4
<1>6. \A i \in Request : req[i].phase = "archiving" /\ req'[i] = req[i] => req[i].node # n
  <2>1. \A i \in Request : req[i].phase = "archiving" => Active(i)
    BY DEF Active
  <2> QED
    BY <1>3, <2>1
<1>7. \A m : m # n /\ m \in Node => md5'[m] = md5[m]
  BY DEF Restart, TypeOK
<1>8. \A i \in Request : req[i].phase = "archiving" => req[i].node \in Node
  BY ActiveCall
<1> QED
  BY <1>5, <1>6, <1>7, <1>8, CallsKept DEF Restart

LEMMA CallsStep ==
  ASSUME TypeOK, Calls, "overlap" \notin Allowed, [Next]_vars
  PROVE  Calls'
<1>1. CASE UNCHANGED <<req, fileVars>>
  BY <1>1, CallsKept DEF fileVars
<1>2. CASE UNCHANGED vars
  BY <1>1, <1>2 DEF vars
<1>3. CASE Next
  BY <1>1, <1>3, OtherSteps, CallStepCalls, ReceiveDoneCalls, RestartCalls
<1> QED
  BY <1>2, <1>3

LEMMA CallsInit == Init => Calls
  BY DEF Init, Unsent, Calls, OneCall, Unmixed, OwnFile, Active

----------------------------------------------------------------------------
(* What the inboxes hold *)

In(s) == {s[x] : x \in DOMAIN s}

\* s holds at most one ask
Single(s) == \A x, y \in DOMAIN s : s[x].kind = "sync" /\ s[y].kind = "sync" => x = y

LEMMA CarriesIn ==
  ASSUME NEW s, NEW kind
  PROVE  Carries(s, kind) <=> \E m \in In(s) : m.kind = kind
  BY DEF Carries, In

LEMMA InRest ==
  ASSUME NEW s \in Seq(Message), NEW last \in 1 .. Len(s)
  PROVE  LET rest == SubSeq(s, last + 1, Len(s))
         IN  rest \in Seq(Message) /\ In(rest) \subseteq In(s) /\ (Single(s) => Single(rest))
<1> DEFINE rest == SubSeq(s, last + 1, Len(s))
<1>1. rest \in Seq(Message)
  BY SubSeqProperties
<1>2. Len(s) \in Nat /\ last \in Nat /\ DOMAIN s = 1 .. Len(s)
  OBVIOUS
<1>3. Len(rest) = Len(s) - last /\ DOMAIN rest = 1 .. Len(s) - last
  <2>1. /\ last + 1 \in Int /\ Len(s) \in Int
        /\ \A x \in last + 1 .. Len(s) : s[x] \in Message
    BY <1>2
  <2>2. Len(rest) = IF last + 1 <= Len(s) THEN Len(s) - (last + 1) + 1 ELSE 0
    BY <2>1, SubSeqProperties
  <2>3. DOMAIN rest = 1 .. Len(rest)
    BY <1>1
  <2>4. PICK k : k = Len(s)
    OBVIOUS
  <2>5. PICK j : j = Len(rest)
    OBVIOUS
  <2> HIDE DEF rest
  <2>6. k \in Nat /\ last \in Nat /\ last <= k
    BY <1>2, <2>4
  <2>7. j = IF last + 1 <= k THEN k - (last + 1) + 1 ELSE 0
    BY <2>2, <2>4, <2>5
  <2>8. j = k - last
    BY <2>6, <2>7
  <2> QED
    BY <2>3, <2>4, <2>5, <2>8
<1>4. \A x \in DOMAIN rest : x + last \in DOMAIN s /\ rest[x] = s[x + last]
  <2> SUFFICES ASSUME NEW x \in DOMAIN rest PROVE x + last \in DOMAIN s /\ rest[x] = s[x + last]
    OBVIOUS
  <2>1. x \in 1 .. Len(s) - last
    BY <1>3
  <2>2. rest[x] = s[last + 1 + x - 1]
    BY <1>2, <2>1
  <2>3. last + 1 + x - 1 = x + last /\ x + last \in DOMAIN s
    BY <1>2, <2>1
  <2> QED
    BY <2>2, <2>3
<1>5. In(rest) \subseteq In(s)
  BY <1>4 DEF In
<1>6. Single(s) => Single(rest)
  <2> SUFFICES ASSUME Single(s), NEW x \in DOMAIN rest, NEW y \in DOMAIN rest,
                      rest[x].kind = "sync", rest[y].kind = "sync"
               PROVE  x = y
    BY DEF Single
  <2>1. x + last = y + last
    BY <1>4 DEF Single
  <2>2. x \in Nat /\ y \in Nat
    BY <1>3, <1>2
  <2> QED
    BY <1>2, <2>1, <2>2
<1> QED
  BY <1>1, <1>5, <1>6

LEMMA InTail ==
  ASSUME NEW s \in Seq(Message), s # <<>>
  PROVE  /\ Tail(s) \in Seq(Message) /\ In(Tail(s)) \subseteq In(s) /\ Head(s) \in In(s)
         /\ Single(s) => Single(Tail(s))
         /\ Single(s) /\ Head(s).kind = "sync" => ~Carries(Tail(s), "sync")
<1>1. Len(s) \in Nat /\ Len(s) >= 1 /\ DOMAIN s = 1 .. Len(s)
  OBVIOUS
<1>2. /\ Tail(s) \in Seq(Message) /\ DOMAIN Tail(s) = 1 .. Len(s) - 1
      /\ \A x \in DOMAIN Tail(s) : x \in Nat /\ x + 1 \in DOMAIN s /\ Tail(s)[x] = s[x + 1]
  OBVIOUS
<1>3. In(Tail(s)) \subseteq In(s)
  BY <1>2 DEF In
<1>4. Head(s) = s[1] /\ 1 \in DOMAIN s
  BY <1>1
<1>5. ASSUME Single(s) PROVE Single(Tail(s))
  <2> SUFFICES ASSUME NEW x \in DOMAIN Tail(s), NEW y \in DOMAIN Tail(s),
                      Tail(s)[x].kind = "sync", Tail(s)[y].kind = "sync"
               PROVE  x = y
    BY DEF Single
  <2>1. x + 1 = y + 1
    BY <1>2, <1>5 DEF Single
  <2> QED
    BY <1>2, <2>1
<1>6. ASSUME Single(s), Head(s).kind = "sync" PROVE ~Carries(Tail(s), "sync")
  <2> SUFFICES ASSUME NEW x \in DOMAIN Tail(s), Tail(s)[x].kind = "sync" PROVE FALSE
    BY DEF Carries
  <2>1. x + 1 = 1
    BY <1>2, <1>4, <1>6 DEF Single
  <2>2. x \in 1 .. Len(s) - 1
    BY <1>2
  <2> QED
    BY <2>1, <2>2, <1>1
<1> QED
  BY <1>2, <1>3, <1>4, <1>5, <1>6 DEF In

LEMMA InConcat ==
  ASSUME NEW s \in Seq(Message), NEW t \in Seq(Message)
  PROVE  /\ s \o t \in Seq(Message) /\ In(s \o t) \subseteq In(s) \cup In(t)
         /\ Single(s) /\ ~Carries(t, "sync") => Single(s \o t)
<1>1. Len(s) \in Nat /\ Len(t) \in Nat /\ DOMAIN s = 1 .. Len(s) /\ DOMAIN t = 1 .. Len(t)
  OBVIOUS
<1>2. s \o t \in Seq(Message) /\ DOMAIN (s \o t) = 1 .. Len(s) + Len(t)
  OBVIOUS
<1>3. \A x \in DOMAIN (s \o t) : \/ x \in DOMAIN s /\ (s \o t)[x] = s[x]
                                 \/ x - Len(s) \in DOMAIN t /\ (s \o t)[x] = t[x - Len(s)]
  BY <1>1, <1>2
<1>4. In(s \o t) \subseteq In(s) \cup In(t)
  BY <1>3 DEF In
<1>5. ASSUME Single(s), ~Carries(t, "sync") PROVE Single(s \o t)
  BY <1>3, <1>5 DEF Single, Carries
<1> QED
  BY <1>2, <1>4, <1>5

LEMMA LastSingle ==
  ASSUME NEW s \in Seq(Message), NEW m, <<m>> \in Seq(Message),
         \A x \in DOMAIN s : s[x].kind # "sync"
  PROVE  Single(s \o <<m>>)
<1>1. \A x \in DOMAIN (s \o <<m>>) : \/ x \in DOMAIN s /\ (s \o <<m>>)[x] = s[x]
                                     \/ x = Len(s) + 1
  OBVIOUS
<1> QED
  BY <1>1 DEF Single

LEMMA InOne ==
  ASSUME NEW m
  PROVE  In(<<m>>) = {m} /\ In(<<>>) = {} /\ Single(<<m>>) /\ ~Carries(<<>>, "sync")
  BY DEF In, Single, Carries

\* What is written arrives at the other end, or nowhere
LEMMA SentWhere ==
  ASSUME NEW box, NEW n, NEW out, NEW m \in Node, NEW c \in Conn
  PROVE  \/ Sent(box, n, out)[m][c] = box[m][c]
         \/ /\ Sent(box, n, out)[m][c] = box[m][c] \o out[c]
            /\ m # n /\ m = Peer(n, c) /\ c \in EndOf(n) /\ c \notin gone[n] \cup gone[m]
  BY DEF Sent

LEMMA SentIn ==
  ASSUME NEW box, NEW n, NEW out, NEW m \in Node, NEW c \in Conn,
         box[m][c] \in Seq(Message), out[c] \in Seq(Message)
  PROVE  /\ In(Sent(box, n, out)[m][c]) \subseteq In(box[m][c]) \cup In(out[c])
         /\ Single(box[m][c]) /\ ~Carries(out[c], "sync") => Single(Sent(box, n, out)[m][c])
<1>1. CASE Sent(box, n, out)[m][c] = box[m][c]
  BY <1>1
<1>2. CASE Sent(box, n, out)[m][c] = box[m][c] \o out[c]
  BY <1>2, InConcat
<1>3. \/ Sent(box, n, out)[m][c] = box[m][c]
      \/ Sent(box, n, out)[m][c] = box[m][c] \o out[c]
  BY DEF Sent
<1> QED
  BY <1>1, <1>2, <1>3

----------------------------------------------------------------------------
(* The invariant of calls that do not overlap and peers that do not join late *)

\* A call that has not asked anybody yet
Early(i) == req[i].phase \in {"starting", "packing", "archiving", "joining"}

\* Nothing has reached a node that it has not dealt with
Hushed == \A n \in Node : jobs[n] = <<>> /\ \A c \in Conn : inbox[n][c] = <<>>
Still  == (\E i \in Request : Early(i)) => Hushed

\* From the first call on nobody greets
Busy    == (\E i \in Request : Active(i)) \/ (\E n \in Node : isMaster[n])
NoGreet == Busy => \A n \in Node, c \in Conn : ~Carries(inbox[n][c], "identity")

\* Two nodes share at most one connection that neither of them has seen close.
Live(c, n, p) == Between(c, n, p) /\ c \notin gone[n] \cup gone[p]
OneLive == \A n, p \in Node : \A c, d \in Conn : Live(c, n, p) /\ Live(d, n, p) => c = d

\* A node handles one ask at a time, and has no other before it.
Idle(p) == jobs[p] = <<>> /\ \A c \in Conn : ~Carries(inbox[p][c], "sync")
OneAsk  ==
  \A p \in Node :
    /\ \A x \in DOMAIN jobs[p] : x = 1
    /\ jobs[p] # <<>> => \A c \in Conn : ~Carries(inbox[p][c], "sync")
    /\ \A c \in Conn : Single(inbox[p][c])
    /\ \A c, d \in Conn : Carries(inbox[p][c], "sync") /\ Carries(inbox[p][d], "sync") => c = d

\* The nodes that askAllPeersToSync has not come to yet are idle.
Unasked ==
  \A i \in Request : req[i].phase = "asking" =>
    \A d \in req[i].todo, p \in Node : Live(d, req[i].node, p) => Idle(p)

Traffic == Still /\ NoGreet /\ OneLive /\ OneAsk /\ Unasked

----------------------------------------------------------------------------
(* Steps, as the traffic sees them *)

\* Nobody starts to handle an ask, and only messages of the kinds K are sent
Quieter(K) ==
  \A p \in Node :
    /\ DOMAIN jobs'[p] \subseteq DOMAIN jobs[p]
    /\ \A c \in Conn : /\ Single(inbox[p][c]) => Single(inbox'[p][c])
                       /\ \A m \in In(inbox'[p][c]) : m \in In(inbox[p][c]) \/ m.kind \in K

\* Nobody but the other end of d is asked, by n
Asking(n, d) ==
  /\ UNCHANGED <<server, client, gone, jobs>>
  /\ \A p \in Node, c \in Conn :
       \/ /\ c = d /\ Live(d, n, p) /\ In(inbox'[p][c]) \subseteq In(inbox[p][c]) \cup {Sync(link[n])}
          /\ ~Carries(inbox[p][c], "sync") => Single(inbox'[p][c])
       \/ /\ In(inbox'[p][c]) \subseteq In(inbox[p][c])
          /\ Single(inbox[p][c]) => Single(inbox'[p][c])

\* A loop of n turns to d, and leaves the routers of T for later
LoopAsks(i, n, d, T) ==
  /\ Asking(n, d)
  /\ Active(i) /\ req[i].node = n /\ n \in Node /\ d \in Known(n) /\ T \subseteq Known(n) \ {d}
  /\ req'[i].phase = "asking" /\ req'[i].node = n /\ req'[i].todo = T /\ req'[i].wait = d
  /\ \A k \in Request \ {i} : req'[k] = req[k]

LEMMA SameTraffic ==
  ASSUME UNCHANGED <<inbox, jobs>>
  PROVE  Quieter({})
  BY DEF Quieter

LEMMA CloseQuiet ==
  ASSUME TypeOK, NEW n \in Node
  PROVE  /\ \A c \in Conn : Close(n, c) => Quieter({})
         /\ Restart(n) => Quieter({})
<1>1. In(<<>>) = {} /\ Single(<<>>)
  BY DEF In, Single
<1>2. ASSUME NEW c \in Conn, Close(n, c) PROVE Quieter({})
  <2>1. jobs' = jobs /\ inbox' = [inbox EXCEPT ![n][c] = <<>>]
    BY <1>2 DEF Close
  <2>2. \A p \in Node, d \in Conn : inbox'[p][d] = inbox[p][d] \/ inbox'[p][d] = <<>>
    BY <2>1 DEF TypeOK
  <2> QED
    BY <1>1, <2>1, <2>2 DEF Quieter
<1>3. ASSUME Restart(n) PROVE Quieter({})
  <2>1. \A p \in Node : jobs'[p] = jobs[p] \/ jobs'[p] = <<>>
    BY <1>3 DEF Restart, TypeOK
  <2>2. \A p \in Node, d \in Conn : inbox'[p][d] = inbox[p][d] \/ inbox'[p][d] = <<>>
    BY <1>3 DEF Restart, TypeOK
  <2>3. \A p \in Node : DOMAIN jobs'[p] \subseteq DOMAIN jobs[p]
    <3>1. DOMAIN <<>> = {}
      OBVIOUS
    <3> QED
      BY <2>1, <3>1
  <2> QED
    BY <1>1, <2>2, <2>3 DEF Quieter
<1> QED
  BY <1>2, <1>3

\* A message of n that is no ask
LEMMA SendQuiet ==
  ASSUME NEW K, "sync" \notin K, NEW box, NEW n \in Node, NEW out, inbox' = Sent(box, n, out),
         \A p \in Node : DOMAIN jobs'[p] \subseteq DOMAIN jobs[p],
         \A p \in Node, c \in Conn :
           /\ box[p][c] \in Seq(Message) /\ out[c] \in Seq(Message) /\ \A m \in In(out[c]) : m.kind \in K
           /\ In(box[p][c]) \subseteq In(inbox[p][c])
           /\ Single(inbox[p][c]) => Single(box[p][c])
  PROVE  Quieter(K)
<1> SUFFICES ASSUME NEW p \in Node, NEW c \in Conn
             PROVE  /\ Single(inbox[p][c]) => Single(inbox'[p][c])
                    /\ \A m \in In(inbox'[p][c]) : m \in In(inbox[p][c]) \/ m.kind \in K
  BY DEF Quieter
<1>1. /\ In(inbox'[p][c]) \subseteq In(box[p][c]) \cup In(out[c])
      /\ Single(box[p][c]) => Single(inbox'[p][c])
  <2>1. ~Carries(out[c], "sync")
    BY CarriesIn
  <2> QED
    BY <2>1, SentIn
<1> QED
  BY <1>1

LEMMA PoolQuiet ==
  ASSUME TypeOK, NEW n \in Node, NEW msg \in Message, msg.kind # "sync",
         inbox' = Sent(inbox, n, ToPool(n, msg)),
         \A p \in Node : DOMAIN jobs'[p] \subseteq DOMAIN jobs[p]
  PROVE  Quieter({msg.kind})
<1>1. ToPool(n, msg) \in [Conn -> Seq(Message)]
  BY OutType
<1>2. \A c \in Conn : \A m \in In(ToPool(n, msg)[c]) : m.kind \in {msg.kind}
  BY DEF ToPool, In
<1>3. \A p \in Node, c \in Conn : inbox[p][c] \in Seq(Message)
  BY DEF TypeOK
<1> QED
  BY <1>1, <1>2, <1>3, SendQuiet

\* A handler that ends, or goes on
LEMMA HandlerQuiet ==
  ASSUME TypeOK, NEW n \in Node, NEW x \in DOMAIN jobs[n]
  PROVE  /\ SyncDeleted(n, x) => Quieter({"error"})
         /\ SyncDownloaded(n, x) => Quieter({"error"})
         /\ SyncBroken(n, x) => Quieter({"error"})
         /\ SyncStarted(n, x) => Quieter({"done"})
         /\ SyncFail(n, x) => Quieter({"error"})
<1>1. jobs[n] \in Seq(Job) /\ DOMAIN jobs[n] = 1 .. Len(jobs[n]) /\ Len(jobs[n]) \in Nat
  BY DEF TypeOK
<1>2. ASSUME jobs' = [jobs EXCEPT ![n] = Without(@, x)]
      PROVE  \A p \in Node : DOMAIN jobs'[p] \subseteq DOMAIN jobs[p]
  <2>1. DOMAIN Without(jobs[n], x) = 1 .. Len(jobs[n]) - 1
    BY DEF Without
  <2>2. DOMAIN Without(jobs[n], x) \subseteq DOMAIN jobs[n]
    BY <1>1, <2>1
  <2> QED
    BY <1>2, <2>2 DEF TypeOK
<1>3. GiveUp(n, x) \/ BreakUp(n, x) => Quieter({"error"})
  <2>1. Error \in Message /\ Error.kind = "error"
    BY MessageType DEF Error
  <2>2. GiveUp(n, x) => Quieter({"error"})
    BY <1>2, <2>1, PoolQuiet DEF GiveUp, Fails
  <2>3. BreakUp(n, x) => Quieter({"error"})
    BY <1>2 DEF BreakUp, Fails, Quieter
  <2> QED
    BY <2>2, <2>3
<1>4. ASSUME NEW stage, Advance(n, x, stage) PROVE Quieter({"error"})
  <2>1. \A p \in Node : DOMAIN jobs'[p] = DOMAIN jobs[p]
    BY <1>4 DEF Advance, TypeOK
  <2> QED
    BY <1>4, <2>1 DEF Advance, Quieter
<1>5. ASSUME SyncStarted(n, x) PROVE Quieter({"done"})
  <2>1. PICK msg : msg = Done(jobs[n][x].link)
    OBVIOUS
  <2>2. msg \in Message /\ msg.kind = "done"
    <3>1. jobs[n][x].link \in Content
      BY HandlerType DEF Job
    <3> QED
      BY <2>1, <3>1, MessageType DEF Done
  <2> QED
    BY <1>2, <1>5, <2>1, <2>2, PoolQuiet DEF SyncStarted
<1>6. SyncDeleted(n, x) => Quieter({"error"})
  BY <1>3, <1>4 DEF SyncDeleted
<1>7. SyncDownloaded(n, x) => Quieter({"error"})
  BY <1>4 DEF SyncDownloaded
<1>8. SyncBroken(n, x) => Quieter({"error"})
  BY <1>3 DEF SyncBroken
<1>9. SyncFail(n, x) => Quieter({"error"})
  BY <1>3 DEF SyncFail
<1> QED
  BY <1>5, <1>6, <1>7, <1>8, <1>9

LEMMA ErrorQuiet ==
  ASSUME TypeOK, NEW n \in Node, NEW c \in Conn, ReceiveError(n, c)
  PROVE  Quieter({})
<1>1. inbox[n][c] \in Seq(Message) /\ inbox[n][c] # <<>>
  BY DEF ReceiveError, TypeOK
<1>2. jobs' = jobs /\ inbox' = [inbox EXCEPT ![n][c] = Tail(@)]
  BY DEF ReceiveError
<1>3. \A p \in Node, d \in Conn : \/ inbox'[p][d] = inbox[p][d]
                                  \/ p = n /\ d = c /\ inbox'[p][d] = Tail(inbox[n][c])
  BY <1>2 DEF TypeOK
<1> QED
  BY <1>1, <1>2, <1>3, InTail DEF Quieter

\* Nobody greets, so the identities bring no ask with them
LEMMA AcceptQuiet ==
  ASSUME TypeOK, NoGreet, "join" \notin Allowed, NEW s \in Node, NEW k \in Node, AcceptPeer(s, k)
  PROVE  Quieter({"identity"}) /\ ~Busy
<1>1. ~Busy
  BY DEF AcceptPeer, Busy, Active
<1>2. PICK c \in Conn : inbox' = [inbox EXCEPT ![k][c] = <<Identity>> \o Greeting(s)]
  BY DEF AcceptPeer
<1>3. inbox' = [inbox EXCEPT ![k][c] = <<Identity>>]
  <2>1. Greeting(s) = <<>>
    BY <1>1 DEF Greeting, Busy
  <2>2. <<Identity>> \o <<>> = <<Identity>>
    <3>1. <<Identity>> \in Seq(Message)
      BY MessageType
    <3> QED
      BY <3>1
  <2> QED
    BY <1>2, <2>1, <2>2
<1>4. \A p \in Node, d \in Conn : inbox'[p][d] = inbox[p][d] \/ inbox'[p][d] = <<Identity>>
  BY <1>3 DEF TypeOK
<1>5. In(<<Identity>>) = {Identity} /\ Single(<<Identity>>) /\ Identity.kind = "identity"
  BY InOne DEF Identity
<1>6. jobs' = jobs
  BY DEF AcceptPeer
<1> QED
  BY <1>1, <1>4, <1>5, <1>6 DEF Quieter

LEMMA ConfirmQuiet ==
  ASSUME TypeOK, NoGreet, NEW k \in Node, NEW c \in Conn, ClientConfirm(k, c)
  PROVE  Quieter({}) /\ ~Busy
<1>1. inbox[k][c] # <<>> /\ inbox[k][c] \in Seq(Message) /\ Head(inbox[k][c]).kind = "identity"
  BY DEF ClientConfirm, TypeOK, Identity
<1>2. ~Busy
  <2>1. Carries(inbox[k][c], "identity")
    BY <1>1, InTail, CarriesIn
  <2> QED
    BY <2>1 DEF NoGreet
<1>3. Greeting(k) = <<>>
  BY <1>2 DEF Greeting, Busy
<1>4. PICK last \in 1 .. Len(inbox[k][c]) :
         inbox' = Sent([inbox EXCEPT ![k][c] = SubSeq(inbox[k][c], last + 1, Len(inbox[k][c]))],
                       k, On(c, <<>>))
  BY <1>3 DEF ClientConfirm
<1>5. PICK rest :
        /\ rest = [inbox EXCEPT ![k][c] = SubSeq(inbox[k][c], last + 1, Len(inbox[k][c]))]
        /\ inbox' = Sent(rest, k, On(c, <<>>))
  BY <1>4
<1>6. \A p \in Node, d \in Conn :
        /\ rest[p][d] \in Seq(Message) /\ In(rest[p][d]) \subseteq In(inbox[p][d])
        /\ Single(inbox[p][d]) => Single(rest[p][d])
  <2> SUFFICES ASSUME NEW p \in Node, NEW d \in Conn
               PROVE  /\ rest[p][d] \in Seq(Message) /\ In(rest[p][d]) \subseteq In(inbox[p][d])
                      /\ Single(inbox[p][d]) => Single(rest[p][d])
    OBVIOUS
  <2>1. \/ rest[p][d] = inbox[p][d]
        \/ /\ p = k /\ d = c
           /\ rest[p][d] = SubSeq(inbox[k][c], last + 1, Len(inbox[k][c]))
    BY <1>5 DEF TypeOK
  <2>2. inbox[p][d] \in Seq(Message)
    BY DEF TypeOK
  <2> QED
    BY <1>1, <2>1, <2>2, InRest
<1>7. \A d \in Conn : On(c, <<>>)[d] = <<>>
  BY DEF On
<1>8. \A d \in Conn : On(c, <<>>)[d] \in Seq(Message) /\ In(On(c, <<>>)[d]) = {}
  <2>1. <<>> \in Seq(Message) /\ In(<<>>) = {}
    BY DEF In
  <2> QED
    BY <1>7, <2>1
<1>9. jobs' = jobs
  BY DEF ClientConfirm
<1>10. Quieter({})
  BY <1>5, <1>6, <1>8, <1>9, SendQuiet
<1> QED
  BY <1>2, <1>10

\* An ask of n over d
LEMMA AskOver ==
  ASSUME TypeOK, NEW n \in Node, NEW d \in EndOf(n), Wired,
         NEW box, inbox' = Sent(box, n, On(d, <<Sync(link[n])>>)),
         \A p \in Node, c \in Conn :
           /\ box[p][c] \in Seq(Message) /\ In(box[p][c]) \subseteq In(inbox[p][c])
           /\ Single(inbox[p][c]) => Single(box[p][c]),
         UNCHANGED <<server, client, gone, jobs>>
  PROVE  Asking(n, d)
<1>1. Sync(link[n]) \in Message
  BY MessageType DEF TypeOK
<1>2. PICK msg : msg = Sync(link[n])
  OBVIOUS
<1>3. <<msg>> \in Seq(Message) /\ In(<<msg>>) = {msg} /\ Single(<<msg>>)
  BY <1>1, <1>2, InOne
<1>4. PICK out : out = On(d, <<msg>>)
  OBVIOUS
<1>5. out[d] = <<msg>> /\ \A c \in Conn \ {d} : out[c] = <<>>
  BY <1>4 DEF On, EndOf
<1>6. ASSUME NEW p \in Node, NEW c \in Conn, c # d
      PROVE  /\ In(inbox'[p][c]) \subseteq In(inbox[p][c])
             /\ Single(inbox[p][c]) => Single(inbox'[p][c])
  <2>1. inbox'[p][c] = box[p][c] \/ inbox'[p][c] = box[p][c] \o <<>>
    BY <1>2, <1>4, <1>5, <1>6 DEF Sent
  <2>2. box[p][c] \in Seq(Message)
    OBVIOUS
  <2>3. inbox'[p][c] = box[p][c]
    BY <2>1, <2>2
  <2> QED
    BY <2>3
<1>7. ASSUME NEW p \in Node, ~Live(d, n, p)
      PROVE  /\ In(inbox'[p][d]) \subseteq In(inbox[p][d])
             /\ Single(inbox[p][d]) => Single(inbox'[p][d])
  <2>1. d \in Conn /\ \E q \in Node : Between(d, n, q)
    BY Ends
  <2>2. p # n /\ p = Peer(n, d) => Between(d, n, p)
    BY <2>1, BetweenEnds
  <2>3. inbox'[p][d] = box[p][d]
    BY <1>2, <1>4, <1>7, <2>1, <2>2 DEF Sent, Live
  <2> QED
    BY <2>1, <2>3
<1>8. ASSUME NEW p \in Node, Live(d, n, p)
      PROVE  /\ In(inbox'[p][d]) \subseteq In(inbox[p][d]) \cup {msg}
             /\ ~Carries(inbox[p][d], "sync") => Single(inbox'[p][d])
  <2>1. d \in Conn /\ inbox'[p][d] = box[p][d] \o <<msg>>
    <3>1. d \in Conn
      BY DEF EndOf
    <3>2. p # n /\ p = Peer(n, d) /\ d \notin gone[n] \cup gone[p]
      BY <1>8, <3>1, BetweenEnds DEF Live, Between
    <3>3. inbox'[p][d] = box[p][d] \o out[d]
      BY <1>2, <1>4, <3>1, <3>2 DEF Sent
    <3> QED
      BY <1>5, <3>1, <3>3
  <2>2. box[p][d] \in Seq(Message) /\ In(box[p][d]) \subseteq In(inbox[p][d])
    BY <2>1
  <2>3. In(inbox'[p][d]) \subseteq In(box[p][d]) \cup {msg}
    <3>1. In(box[p][d] \o <<msg>>) \subseteq In(box[p][d]) \cup In(<<msg>>)
      BY <1>3, <2>2, InConcat
    <3> QED
      BY <1>3, <2>1, <3>1
  <2>4. ASSUME ~Carries(inbox[p][d], "sync") PROVE Single(inbox'[p][d])
    <3>1. \A x \in DOMAIN box[p][d] : box[p][d][x].kind # "sync"
      BY <2>2, <2>4, CarriesIn DEF In
    <3> QED
      BY <2>1, <2>2, <3>1, <1>3, LastSingle
  <2> QED
    BY <2>2, <2>3, <2>4
<1> QED
  BY <1>2, <1>6, <1>7, <1>8 DEF Asking

\* joinPool resolved: the first router is asked, and everybody is idle
LEMMA JoinedAsks ==
  ASSUME TypeOK, Wired, NEW i \in Request, Joined(i)
  PROVE  \/ Quieter({}) /\ req' = [req EXCEPT ![i].phase = "done"] /\ pool[req[i].node] = {}
         \/ LET n == req[i].node
                d == Least(pool[n])
            IN  d \in pool[n] /\ LoopAsks(i, n, d, pool[n] \ {d})
<1> DEFINE n == req[i].node
           d == Least(pool[n])
<1>1. req[i].phase = "joining" /\ Active(i) /\ req[i] \in Posting /\ n \in Node
  <2>1. req[i].phase = "joining"
    BY DEF Joined
  <2> QED
    BY <2>1, ActiveCall DEF Active
<1>2. CASE pool[n] = {}
  <2>1. req' = [req EXCEPT ![i].phase = "done"] /\ UNCHANGED <<inbox, jobs>>
    BY <1>2 DEF Joined
  <2> QED
    BY <1>2, <2>1, SameTraffic
<1>3. CASE pool[n] # {}
  <2>1. /\ req' = [req EXCEPT ![i].phase = "asking", ![i].wait = d, ![i].todo = pool[n] \ {d}]
        /\ inbox' = Sent(inbox, n, On(d, <<Sync(link[n])>>))
        /\ UNCHANGED <<server, client, gone, jobs>>
    BY <1>3 DEF Joined
  <2>2. d \in pool[n]
    <3>1. pool[n] \subseteq Conn
      BY <1>1 DEF TypeOK
    <3> QED
      BY <1>3, <3>1, LeastIn
  <2> HIDE DEF d, n
  <2>3. d \in Known(n) /\ d \in EndOf(n) /\ pool[n] \ {d} \subseteq Known(n) \ {d}
    BY <1>1, <2>2 DEF Wired, Known
  <2>4. \A p \in Node, c \in Conn : inbox[p][c] \in Seq(Message)
    BY DEF TypeOK
  <2>5. Asking(n, d)
    BY <1>1, <2>1, <2>3, <2>4, AskOver
  <2>6. /\ req'[i].phase = "asking" /\ req'[i].node = n
        /\ req'[i].todo = pool[n] \ {d} /\ req'[i].wait = d
        /\ \A k \in Request \ {i} : req'[k] = req[k]
    BY <1>1, <2>1 DEF TypeOK, Posting, n
  <2>7. n = req[i].node /\ d = Least(pool[n])
    BY DEF n, d
  <2> QED
    BY <1>1, <2>2, <2>3, <2>5, <2>6, <2>7 DEF LoopAsks
<1> QED
  BY <1>2, <1>3

LEMMA JoinedMoves ==
  ASSUME TypeOK, NEW i \in Request, Joined(i)
  PROVE  /\ req'[i].phase \in {"done", "asking"} /\ req[i].phase = "joining"
         /\ req'[i].node = req[i].node /\ req'[i].ver = req[i].ver
         /\ \A k \in Request \ {i} : req'[k] = req[k]
<1>1. req[i] \in Posting /\ req[i].phase = "joining"
  <2>1. req[i].phase = "joining"
    BY DEF Joined
  <2> QED
    BY <2>1, ActiveCall
<1>2. \/ req' = [req EXCEPT ![i].phase = "done"]
      \/ \E c, S : req' = [req EXCEPT ![i].phase = "asking", ![i].wait = c, ![i].todo = S]
  BY Zenon DEF Joined
<1>3. CASE req' = [req EXCEPT ![i].phase = "done"]
  BY <1>1, <1>3 DEF TypeOK, Posting
<1>4. ASSUME NEW c, NEW S, req' = [req EXCEPT ![i].phase = "asking", ![i].wait = c, ![i].todo = S]
      PROVE  /\ req'[i].phase = "asking" /\ req'[i].node = req[i].node /\ req'[i].ver = req[i].ver
             /\ \A k \in Request \ {i} : req'[k] = req[k]
  BY <1>1, <1>4 DEF TypeOK, Posting
<1> QED
  BY <1>1, <1>2, <1>3, <1>4

\* 'sync:done' wakes at most one loop, which is at its end or asks the next router
LEMMA DoneAsks ==
  ASSUME TypeOK, Wired, OneCall, NEW n \in Node, NEW c \in Conn, ReceiveDone(n, c)
  PROVE  \/ Quieter({}) /\ req' = req
         \/ /\ Quieter({})
            /\ \E i \in Waiting(n, c) : /\ req[i].todo = {} /\ req'[i].phase = "done"
                                        /\ \A k \in Request \ {i} : req'[k] = req[k]
         \/ \E i \in Waiting(n, c) :
              LET d == Following(i)
              IN  d \in req[i].todo /\ LoopAsks(i, n, d, req[i].todo \ {d})
<1> DEFINE W    == Waiting(n, c)
           rest == [inbox EXCEPT ![n][c] = Tail(@)]
           out  == [d \in Conn |-> [x \in 1 .. Cardinality(NextOn(W, d)) |-> Sync(link[n])]]
<1>1. /\ inbox[n][c] # <<>> /\ inbox' = Sent(rest, n, out)
      /\ UNCHANGED <<server, client, gone, jobs>>
  BY DEF ReceiveDone
<1>2. \A p \in Node, d \in Conn :
        /\ rest[p][d] \in Seq(Message) /\ In(rest[p][d]) \subseteq In(inbox[p][d])
        /\ Single(inbox[p][d]) => Single(rest[p][d])
  <2> SUFFICES ASSUME NEW p \in Node, NEW d \in Conn
               PROVE  /\ rest[p][d] \in Seq(Message) /\ In(rest[p][d]) \subseteq In(inbox[p][d])
                      /\ Single(inbox[p][d]) => Single(rest[p][d])
    OBVIOUS
  <2>1. \/ rest[p][d] = inbox[p][d]
        \/ p = n /\ d = c /\ rest[p][d] = Tail(inbox[n][c])
    BY DEF TypeOK
  <2>2. inbox[p][d] \in Seq(Message)
    BY DEF TypeOK
  <2> QED
    BY <1>1, <2>1, <2>2, InTail
<1>3. \A i \in W : /\ i \in Request /\ req[i].phase = "asking" /\ req[i].node = n
                   /\ req[i] \in Posting /\ Active(i) /\ req[i].todo \subseteq Conn
  <2> SUFFICES ASSUME NEW i \in W
               PROVE  /\ i \in Request /\ req[i].phase = "asking" /\ req[i].node = n
                      /\ req[i] \in Posting /\ Active(i) /\ req[i].todo \subseteq Conn
    OBVIOUS
  <2>1. i \in Request /\ req[i].phase = "asking" /\ req[i].node = n
    BY DEF Waiting, Loops
  <2>2. req[i] \in Posting
    BY <2>1, ActiveCall
  <2> QED
    BY <2>1, <2>2 DEF Active, Posting
<1>4. Sync(link[n]) \in Message
  BY MessageType DEF TypeOK
<1>5. \A d \in Conn : NextOn(W, d) = {} => out[d] = <<>>
  <2> SUFFICES ASSUME NEW d \in Conn, NextOn(W, d) = {} PROVE out[d] = <<>>
    OBVIOUS
  <2>1. Cardinality(NextOn(W, d)) = 0
    <3>1. Cardinality({}) = 0
      BY FS_EmptySet
    <3> QED
      BY <3>1
  <2>2. [x \in 1 .. 0 |-> Sync(link[n])] = <<>>
    OBVIOUS
  <2> QED
    BY <2>1, <2>2
<1>6. ASSUME \A d \in Conn : NextOn(W, d) = {} PROVE Quieter({})
  <2>1. \A d \in Conn : out[d] = <<>>
    BY <1>5, <1>6
  <2>2. <<>> \in Seq(Message) /\ In(<<>>) = {}
    BY DEF In
  <2>3. \A d \in Conn : out[d] \in Seq(Message) /\ In(out[d]) = {}
    BY <2>1, <2>2
  <2> HIDE DEF rest, out
  <2> QED
    BY <1>1, <1>2, <2>3, SendQuiet
<1>7. CASE W = {}
  <2>1. req' = req
    <3>1. req' = [i \in Request |-> req[i]]
      BY <1>7 DEF ReceiveDone
    <3> QED
      BY <3>1 DEF TypeOK
  <2>2. \A d \in Conn : NextOn(W, d) = {}
    BY <1>7 DEF NextOn
  <2> QED
    BY <1>6, <2>1, <2>2
<1>8. ASSUME NEW i \in W PROVE W = {i}
  BY <1>3, <1>8 DEF OneCall
<1>9. ASSUME NEW i \in W, req[i].todo = {}
      PROVE  /\ Quieter({}) /\ req'[i].phase = "done"
             /\ \A k \in Request \ {i} : req'[k] = req[k]
  <2>1. \A d \in Conn : NextOn(W, d) = {}
    BY <1>8, <1>9 DEF NextOn
  <2>2. req'[i] = [req[i] EXCEPT !.phase = "done"]
    BY <1>3, <1>9 DEF ReceiveDone
  <2>3. req'[i].phase = "done"
    BY <1>3, <2>2 DEF Posting
  <2>4. \A k \in Request \ {i} : req'[k] = req[k]
    BY <1>8, <1>9 DEF ReceiveDone
  <2> QED
    BY <1>6, <2>1, <2>3, <2>4
<1>10. ASSUME NEW i \in W, req[i].todo # {}
       PROVE  LET d == Following(i)
              IN  d \in req[i].todo /\ LoopAsks(i, n, d, req[i].todo \ {d})
  <2>1. PICK d : d = Following(i)
    OBVIOUS
  <2>2. d \in req[i].todo
    BY <1>3, <1>10, <2>1, LeastIn DEF Following
  <2>3. d \in Known(n) /\ d \in EndOf(n) /\ req[i].todo \ {d} \subseteq Known(n) \ {d}
    BY <1>3, <2>2 DEF Wired
  <2>4. NextOn(W, d) = {i} /\ \A e \in Conn \ {d} : NextOn(W, e) = {}
    BY <1>8, <1>10, <2>1 DEF NextOn
  <2>5. out = On(d, <<Sync(link[n])>>)
    <3>1. Cardinality(NextOn(W, d)) = 1
      BY <2>4, FS_Singleton
    <3>2. [x \in 1 .. 1 |-> Sync(link[n])] = <<Sync(link[n])>>
      <4>1. [x \in 1 .. 1 |-> Sync(link[n])] \in Seq(Message)
        BY <1>4
      <4> QED
        BY <1>4, <4>1
    <3>3. d \in Conn => out[d] = <<Sync(link[n])>>
      BY <3>1, <3>2
    <3>4. \A e \in Conn \ {d} : out[e] = <<>>
      BY <1>5, <2>4
    <3> QED
      BY <3>3, <3>4 DEF On
  <2>6. Asking(n, d)
    <3> HIDE DEF rest, out
    <3> QED
      BY <1>1, <1>2, <2>3, <2>5, AskOver
  <2>7. req'[i] = [req[i] EXCEPT !.wait = d, !.todo = @ \ {d}]
    BY <1>3, <1>10, <2>1 DEF ReceiveDone
  <2>8. /\ req'[i].phase = "asking" /\ req'[i].node = n
        /\ req'[i].todo = req[i].todo \ {d} /\ req'[i].wait = d
    BY <1>3, <2>7 DEF Posting
  <2>9. \A k \in Request \ {i} : req'[k] = req[k]
    BY <1>8, <1>10 DEF ReceiveDone
  <2> QED
    BY <1>3, <2>1, <2>2, <2>3, <2>6, <2>8, <2>9 DEF LoopAsks
<1> QED
  BY <1>7, <1>9, <1>10

\* The loops that go on waiting for what they were waiting for
LoopsRest == \A i \in Request : req'[i].phase = "asking" => req'[i] = req[i]

\* What a step does to the traffic
Hush   == LoopsRest /\ Quieter({"error"})
Greet  == LoopsRest /\ \E s, k \in Node : AcceptPeer(s, k) /\ Quieter({"identity"})
Tell   == LoopsRest /\ \E n \in Node : \E x \in DOMAIN jobs[n] : SyncStarted(n, x) /\ Quieter({"done"})
Listen == LoopsRest /\ \E n \in Node, c \in Conn : ReceiveSync(n, c)
Turn(i, n, d, T) ==
  /\ LoopAsks(i, n, d, T)
  /\ Joined(i) \/ (req[i].phase = "asking" /\ {d} \cup T \subseteq req[i].todo)
AskNext == \E i \in Request : \E d, T : Turn(i, req[i].node, d, T)

LEMMA TrafficSteps ==
  ASSUME TypeOK, Wired, Calls, NoGreet, "join" \notin Allowed, Next
  PROVE  Hush \/ Greet \/ Tell \/ Listen \/ AskNext
<1> USE DEF Hush
<1>1. Quieter({}) => Quieter({"error"})
  BY DEF Quieter
<1>2. ASSUME NEW i \in Request, Joined(i)
      PROVE  Hush \/ AskNext
  <2>1. CASE Quieter({}) /\ req' = [req EXCEPT ![i].phase = "done"]
    <3>1. req[i] \in Posting
      BY <1>2, ActiveCall DEF Joined
    <3>2. req'[i].phase = "done" /\ \A k \in Request \ {i} : req'[k] = req[k]
      BY <2>1, <3>1 DEF TypeOK, Posting
    <3> QED
      BY <1>1, <2>1, <3>2 DEF LoopsRest
  <2>2. CASE \E d, T : LoopAsks(i, req[i].node, d, T)
    BY <1>2, <2>2 DEF AskNext, Turn
  <2> QED
    BY <1>2, <2>1, <2>2, JoinedAsks
<1>3. ASSUME NEW n \in Node, NEW c \in Conn, ReceiveDone(n, c)
      PROVE  Hush \/ AskNext
  <2>1. OneCall /\ \A i \in Waiting(n, c) : i \in Request /\ req[i].phase = "asking" /\ req[i].node = n
    BY DEF Calls, Waiting, Loops
  <2>2. CASE Quieter({}) /\ req' = req
    BY <1>1, <2>2 DEF LoopsRest
  <2>3. CASE /\ Quieter({})
             /\ \E i \in Waiting(n, c) : /\ req[i].todo = {} /\ req'[i].phase = "done"
                                         /\ \A k \in Request \ {i} : req'[k] = req[k]
    BY <1>1, <2>3 DEF LoopsRest
  <2>4. ASSUME NEW i \in Waiting(n, c), NEW d, d \in req[i].todo, LoopAsks(i, n, d, req[i].todo \ {d})
        PROVE  AskNext
    <3>1. {d} \cup (req[i].todo \ {d}) \subseteq req[i].todo
      BY <2>4
    <3> QED
      BY <2>1, <2>4, <3>1 DEF AskNext, Turn
  <2> QED
    BY <1>3, <2>1, <2>2, <2>3, <2>4, DoneAsks
<1>4. CASE /\ \A i \in Request : ~Joined(i)
           /\ \A n \in Node, c \in Conn : ~ReceiveDone(n, c)
  <2>1. LoopsRest
    <3> SUFFICES ASSUME NEW i \in Request, req'[i].phase = "asking" PROVE req'[i] = req[i]
      BY DEF LoopsRest
    <3>1. \/ req'[i] = req[i]
          \/ req[i].phase = "asking" /\ ReceiveDone(req[i].node, req[i].wait)
      BY <1>4, WaitStep
    <3>2. req[i].phase = "asking" => req[i].node \in Node /\ req[i].wait \in Conn
      <4>1. req[i].phase = "asking" => req[i].node \in Node /\ req[i].wait \in Known(req[i].node)
        BY ActiveCall DEF Wired
      <4> QED
        BY <4>1 DEF Known, TypeOK
    <3> QED
      BY <1>4, <3>1, <3>2
  <2>2. ASSUME NEW s \in Node, NEW k \in Node, AcceptPeer(s, k) PROVE Greet
    BY <2>1, <2>2, AcceptQuiet DEF Greet
  <2>3. ASSUME NEW i \in Request, NEW n \in Operators, NEW v \in Version, NEW loc \in BOOLEAN,
               InitRequest(i, n, v, loc)
        PROVE  Hush
    <3>1. UNCHANGED <<inbox, jobs>>
      BY <2>3 DEF InitRequest
    <3> QED
      BY <1>1, <2>1, <3>1, SameTraffic
  <2>4. ASSUME NEW i \in Request, InitStep(i) \/ InitFail(i) \/ SpreadFail(i) PROVE Hush
    <3>1. UNCHANGED <<inbox, jobs>>
      BY <1>4, <2>4 DEF InitStep, InitStarted, InitFail, PackDone, SpreadFail, Archived, netVars
    <3> QED
      BY <1>1, <2>1, <3>1, SameTraffic
  <2>5. ASSUME NEW n \in Node, NEW c \in Conn, Receive(n, c) \/ Close(n, c) PROVE Hush \/ Listen
    BY <1>1, <1>4, <2>1, <2>5, CloseQuiet, ErrorQuiet, ConfirmQuiet DEF Receive, Listen
  <2>6. ASSUME NEW n \in Node, NEW x \in DOMAIN jobs[n],
               SyncDeleted(n, x) \/ SyncDownloaded(n, x) \/ SyncBroken(n, x) \/ SyncFail(n, x)
        PROVE  Hush
    BY <2>1, <2>6, HandlerQuiet
  <2>7. ASSUME NEW n \in Node, NEW x \in DOMAIN jobs[n], SyncStarted(n, x)
        PROVE  Tell
    BY <2>1, <2>7, HandlerQuiet DEF Tell
  <2>8. ASSUME NEW n \in Node, Restart(n) PROVE Hush
    BY <1>1, <2>1, <2>8, CloseQuiet
  <2>9. ASSUME NEW n \in Node, ClearTasks(n) PROVE Hush
    <3>1. UNCHANGED <<inbox, jobs>>
      BY <2>9 DEF ClearTasks, netVars
    <3> QED
      BY <1>1, <2>1, <3>1, SameTraffic
  <2> HIDE DEF Hush
  <2> QED
    BY <2>2, <2>3, <2>4, <2>5, <2>6, <2>7, <2>8, <2>9, Zenon DEF Next, SyncStep, Download
<1> QED
  BY <1>2, <1>3, <1>4

\* What a step makes of a call
LEMMA PhaseSteps ==
  ASSUME TypeOK, Calls, Next, NEW i \in Request
  PROVE  \/ req'[i] = req[i]
         \/ /\ Active(i) /\ req'[i].phase \in {"done", "asking"}
            /\ (req'[i].phase = "asking" => req[i].phase \in {"joining", "asking"})
            /\ req'[i].node = req[i].node /\ req'[i].ver = req[i].ver
         \/ \E n \in Operators, v \in Version, loc \in BOOLEAN :
              /\ InitRequest(i, n, v, loc)
              /\ req'[i].phase = "starting" /\ req'[i].node = n /\ req'[i].ver = v
         \/ /\ req'[i].node = req[i].node /\ req'[i].ver = req[i].ver
            /\ \/ InitStarted(i) /\ req'[i].phase = "packing"
               \/ PackDone(i) /\ req[i].phase = "packing" /\ req'[i].phase = "archiving"
               \/ Archived(i) /\ req'[i].phase = "joining"
<1> DEFINE Goal == \/ req'[i] = req[i]
                   \/ /\ Active(i) /\ req'[i].phase \in {"done", "asking"}
                      /\ (req'[i].phase = "asking" => req[i].phase \in {"joining", "asking"})
                      /\ req'[i].node = req[i].node /\ req'[i].ver = req[i].ver
                   \/ \E n \in Operators, v \in Version, loc \in BOOLEAN :
                        /\ InitRequest(i, n, v, loc)
                        /\ req'[i].phase = "starting" /\ req'[i].node = n /\ req'[i].ver = v
                   \/ /\ req'[i].node = req[i].node /\ req'[i].ver = req[i].ver
                      /\ \/ InitStarted(i) /\ req'[i].phase = "packing"
                         \/ PackDone(i) /\ req[i].phase = "packing" /\ req'[i].phase = "archiving"
                         \/ Archived(i) /\ req'[i].phase = "joining"
<1>1. ASSUME NEW k \in Request, NEW n \in Operators, NEW v \in Version, NEW loc \in BOOLEAN,
             InitRequest(k, n, v, loc)
      PROVE  Goal
  BY <1>1, InitRequestStep
<1>2. Active(i) => req[i] \in Posting
  BY ActiveCall DEF Active
<1>3. ASSUME NEW k \in Request, InitFail(k) \/ SpreadFail(k) PROVE Goal
  <2>1. req' = [req EXCEPT ![k].phase = "done"] /\ Active(k)
    BY <1>3 DEF InitFail, SpreadFail, Active
  <2>2. k = i => /\ req'[i].phase = "done" /\ req'[i].node = req[i].node
                 /\ req'[i].ver = req[i].ver
    BY <1>2, <2>1 DEF TypeOK, Posting
  <2> QED
    BY <2>1, <2>2 DEF TypeOK
<1>4. ASSUME NEW k \in Request, InitStarted(k) PROVE Goal
  <2>1. Active(k) /\ k \notin Packing(req[k].node)
    BY <1>4 DEF InitStarted, Active, Packing
  <2>2. Packing(req[k].node) = {}
    BY <2>1 DEF Packing, Calls, OneCall, Active
  <2>3. k # i => req'[i] = req[i]
    BY <1>4, <2>2 DEF InitStarted
  <2>4. k = i => req'[i] = [req[i] EXCEPT !.phase = "packing"]
    BY <1>4, <2>2 DEF InitStarted
  <2>5. k = i => /\ req'[i].phase = "packing" /\ req'[i].node = req[i].node
                 /\ req'[i].ver = req[i].ver
    BY <1>2, <2>1, <2>4 DEF Posting
  <2> QED
    BY <1>4, <2>3, <2>5
<1>5. ASSUME NEW k \in Request, PackDone(k) PROVE Goal
  <2>1. Active(k) /\ req[k].phase = "packing"
    BY <1>5 DEF PackDone, Active, Calls, Unmixed
  <2>2. \/ req' = [req EXCEPT ![k].phase = "done"]
        \/ \E x : req' = [req EXCEPT ![k].phase = "archiving", ![k].img = x]
    BY <1>5, Zenon DEF PackDone
  <2>3. CASE req' = [req EXCEPT ![k].phase = "done"]
    <3>1. k = i => /\ req'[i].phase = "done" /\ req'[i].node = req[i].node
                   /\ req'[i].ver = req[i].ver
      BY <1>2, <2>1, <2>3 DEF TypeOK, Posting
    <3> QED
      BY <2>1, <2>3, <3>1 DEF TypeOK
  <2>4. ASSUME NEW x, req' = [req EXCEPT ![k].phase = "archiving", ![k].img = x] PROVE Goal
    <3>1. k = i => /\ req'[i].phase = "archiving" /\ req'[i].node = req[i].node
                   /\ req'[i].ver = req[i].ver
      BY <1>2, <2>1, <2>4 DEF TypeOK, Posting
    <3> QED
      BY <1>5, <2>1, <2>4, <3>1 DEF TypeOK
  <2> QED
    BY <2>2, <2>3, <2>4
<1>6. ASSUME NEW k \in Request, Archived(k) PROVE Goal
  <2>1. Active(k) /\ req' = [req EXCEPT ![k].phase = "joining"]
    BY <1>6 DEF Archived, Active
  <2>2. k = i => /\ req'[i].phase = "joining" /\ req'[i].node = req[i].node
                 /\ req'[i].ver = req[i].ver
    BY <1>2, <2>1 DEF TypeOK, Posting
  <2> QED
    BY <1>6, <2>1, <2>2 DEF TypeOK
<1>7. ASSUME NEW k \in Request, Joined(k) PROVE Goal
  <2>1. Active(k)
    <3>1. req[k].phase = "joining"
      BY <1>7 DEF Joined
    <3> QED
      BY <3>1 DEF Active
  <2>2. /\ req'[k].phase \in {"done", "asking"} /\ req[k].phase = "joining"
        /\ req'[k].node = req[k].node /\ req'[k].ver = req[k].ver
        /\ \A j \in Request \ {k} : req'[j] = req[j]
    BY <1>7, JoinedMoves
  <2> QED
    BY <2>1, <2>2
<1>8. ASSUME NEW n \in Node, NEW c \in Conn, ReceiveDone(n, c) PROVE Goal
  <2>1. CASE i \notin Waiting(n, c)
    BY <1>8, <2>1 DEF ReceiveDone
  <2>2. CASE i \in Waiting(n, c)
    <3>1. req[i].phase = "asking" /\ Active(i)
      BY <2>2 DEF Waiting, Loops, Active
    <3>2. \/ req'[i] = [req[i] EXCEPT !.phase = "done"]
          \/ req'[i] = [req[i] EXCEPT !.wait = Following(i), !.todo = @ \ {Following(i)}]
      BY <1>8, <2>2 DEF ReceiveDone
    <3> QED
      BY <1>2, <3>1, <3>2 DEF Posting
  <2> QED
    BY <2>1, <2>2
<1>9. ASSUME NEW n \in Node, Restart(n) PROVE Goal
  <2>1. \/ req'[i] = req[i]
        \/ req'[i] = [req[i] EXCEPT !.phase = "done"] /\ req[i].node = n
    BY <1>9 DEF Restart
  <2>2. CASE Active(i)
    BY <1>2, <2>1, <2>2 DEF Posting
  <2>3. CASE ~Active(i) /\ req[i].node = n
    <3>1. req[i] \in Posting
      BY <2>3, CallType DEF TypeOK
    <3>2. req[i].phase = "done"
      BY <2>3, <3>1 DEF Active, Posting, Phase
    <3>3. [req[i] EXCEPT !.phase = "done"] = req[i]
      BY <3>1, <3>2 DEF Posting
    <3> QED
      BY <2>1, <3>3
  <2> QED
    BY <2>1, <2>2, <2>3
<1>10. UNCHANGED <<req, fileVars>> => Goal
  OBVIOUS
<1> HIDE DEF Goal
<1>11. Goal
  BY <1>1, <1>3, <1>4, <1>5, <1>6, <1>7, <1>8, <1>9, <1>10, OtherSteps, Zenon DEF InitStep
<1> QED
  BY <1>11 DEF Goal

\* A call that has not asked anybody yet has not been in joinPool
LEMMA EarlySteps ==
  ASSUME TypeOK, Calls, Next, NEW i \in Request, Early(i)'
  PROVE  \/ Early(i) /\ ~Joined(i)
         \/ \E n \in Operators, v \in Version, loc \in BOOLEAN : InitRequest(i, n, v, loc)
<1>1. Early(i)' => ~Joined(i)
  BY JoinedMoves DEF Early
<1>2. InitStarted(i) \/ Archived(i) \/ req[i].phase = "packing" => Early(i)
  BY DEF InitStarted, Archived, Early
<1>3. req'[i] = req[i] => Early(i)
  BY DEF Early
<1> QED
  BY <1>1, <1>2, <1>3, PhaseSteps DEF Early

LEMMA HushedStep ==
  ASSUME TypeOK, Hushed, Busy, "join" \notin Allowed, Next, \A i \in Request : ~Joined(i)
  PROVE  Hushed'
<1>1. CASE UNCHANGED <<inbox, jobs>>
  BY <1>1 DEF Hushed
<1>2. \A s, k \in Node : ~AcceptPeer(s, k)
  BY DEF AcceptPeer, Busy, Active
<1>3. ASSUME NEW i \in Request, NEW n \in Operators, NEW v \in Version, NEW loc \in BOOLEAN,
             InitRequest(i, n, v, loc)
      PROVE  UNCHANGED <<inbox, jobs>>
  BY <1>3 DEF InitRequest
<1>4. ASSUME NEW i \in Request, InitStep(i) \/ InitFail(i) \/ SpreadFail(i)
      PROVE  UNCHANGED <<inbox, jobs>>
  BY <1>4 DEF InitStep, InitStarted, InitFail, PackDone, SpreadFail, Archived, netVars
<1>5. ASSUME NEW n \in Node, NEW c \in Conn PROVE ~Receive(n, c)
  BY DEF Receive, ReceiveDone, ReceiveSync, ReceiveError, ClientConfirm, Hushed
<1>6. ASSUME NEW n \in Node, NEW c \in Conn, Close(n, c) PROVE Hushed'
  BY <1>6 DEF Close, Hushed, TypeOK
<1>7. ASSUME NEW n \in Node PROVE DOMAIN jobs[n] = {}
  BY DEF Hushed
<1>8. ASSUME NEW n \in Node, Restart(n) PROVE Hushed'
  BY <1>8 DEF Restart, Hushed, TypeOK
<1>9. ASSUME NEW n \in Node, ClearTasks(n) PROVE UNCHANGED <<inbox, jobs>>
  BY <1>9 DEF ClearTasks, netVars
<1> QED
  BY <1>1, <1>2, <1>3, <1>4, <1>5, <1>6, <1>7, <1>8, <1>9, Zenon DEF Next, SyncStep, Download

LEMMA StillStep ==
  ASSUME TypeOK, Calls, Still, {"overlap", "join"} \cap Allowed = {}, Next
  PROVE  Still'
<1> SUFFICES ASSUME NEW i \in Request, Early(i)' PROVE Hushed'
  BY DEF Still
<1>1. ASSUME NEW n \in Operators, NEW v \in Version, NEW loc \in BOOLEAN, InitRequest(i, n, v, loc)
      PROVE  Hushed'
  <2>1. Quiet /\ UNCHANGED <<inbox, jobs>>
    BY <1>1 DEF InitRequest
  <2> QED
    BY <2>1 DEF Quiet, Hushed
<1>2. CASE Early(i) /\ ~Joined(i)
  <2>1. Hushed /\ Active(i) /\ Busy
    BY <1>2 DEF Still, Early, Active, Busy
  <2>2. \A k \in Request : ~Joined(k)
    BY <1>2, <2>1 DEF Joined, Calls, OneCall, Active
  <2> QED
    BY <2>1, <2>2, HushedStep
<1> QED
  BY <1>1, <1>2, EarlySteps

\* What keeps an idle node idle, and the asks of a node in order
LEMMA QuietKeeps ==
  ASSUME TypeOK, TypeOK', NEW K, "sync" \notin K, Quieter(K)
  PROVE  /\ \A p \in Node : Idle(p) => Idle(p)'
         /\ OneAsk => OneAsk'
<1>1. ASSUME NEW p \in Node, NEW c \in Conn, Carries(inbox'[p][c], "sync")
      PROVE  Carries(inbox[p][c], "sync")
  <2>1. PICK m \in In(inbox'[p][c]) : m.kind = "sync"
    BY <1>1, CarriesIn
  <2>2. m \in In(inbox[p][c])
    BY <2>1 DEF Quieter
  <2> QED
    BY <2>1, <2>2, CarriesIn
<1>2. ASSUME NEW p \in Node, jobs[p] = <<>> PROVE jobs'[p] = <<>>
  <2>1. PICK s : s = jobs'[p]
    OBVIOUS
  <2>2. s \in Seq(Job)
    BY <2>1 DEF TypeOK
  <2>3. DOMAIN s = {}
    <3>1. DOMAIN <<>> = {}
      OBVIOUS
    <3> QED
      BY <1>2, <2>1, <3>1 DEF Quieter
  <2>4. s = <<>>
    BY <2>2, <2>3
  <2> QED
    BY <2>1, <2>4
<1>3. \A p \in Node : Idle(p) => Idle(p)'
  BY <1>1, <1>2 DEF Idle
<1>4. ASSUME OneAsk PROVE OneAsk'
  BY <1>1, <1>2, <1>4 DEF OneAsk, Quieter
<1> QED
  BY <1>3, <1>4

\* Who becomes a master, and which connections open again
LEMMA MasterStep ==
  ASSUME TypeOK, Next, NEW n \in Node, isMaster'[n]
  PROVE  isMaster[n] \/ \E i \in Request : InitStarted(i) /\ n = req[i].node
<1>1. ASSUME NEW i \in Request, InitStep(i) \/ InitFail(i) \/ SpreadFail(i)
      PROVE  \/ UNCHANGED isMaster
             \/ InitStarted(i) /\ isMaster' = [isMaster EXCEPT ![req[i].node] = TRUE]
  BY <1>1 DEF InitStep, InitStarted, PackDone, Archived, Joined, InitFail, SpreadFail, fileVars
<1>2. ASSUME NEW i \in Request, NEW m \in Operators, NEW v \in Version, NEW loc \in BOOLEAN,
             InitRequest(i, m, v, loc)
      PROVE  UNCHANGED isMaster
  BY <1>2 DEF InitRequest, fileVars
<1>3. ASSUME NEW m \in Node, NEW c \in Conn, ReceiveDone(m, c) PROVE UNCHANGED isMaster
  BY <1>3 DEF ReceiveDone, fileVars
<1>4. ASSUME NEW m \in Node, Restart(m)
      PROVE  isMaster' = [isMaster EXCEPT ![m] = FALSE]
  BY <1>4 DEF Restart
<1>5. ASSUME UNCHANGED <<req, fileVars>> PROVE UNCHANGED isMaster
  BY <1>5 DEF fileVars
<1>6. CASE UNCHANGED isMaster
  BY <1>6
<1>7. ASSUME NEW i \in Request, InitStarted(i), isMaster' = [isMaster EXCEPT ![req[i].node] = TRUE]
      PROVE  isMaster[n] \/ n = req[i].node
  BY <1>7 DEF TypeOK
<1>8. ASSUME NEW m \in Node, isMaster' = [isMaster EXCEPT ![m] = FALSE]
      PROVE  isMaster[n]
  BY <1>8 DEF TypeOK
<1> QED
  BY <1>1, <1>2, <1>3, <1>4, <1>5, <1>6, <1>7, <1>8, OtherSteps

LEMMA BusyStep ==
  ASSUME TypeOK, Calls, Next, Busy'
  PROVE  \/ Busy
         \/ \E i \in Request, n \in Operators, v \in Version, loc \in BOOLEAN :
              InitRequest(i, n, v, loc)
<1>1. ASSUME NEW n \in Node, isMaster'[n] PROVE Busy
  <2>1. ASSUME NEW i \in Request, InitStarted(i) PROVE Active(i)
    BY <2>1 DEF InitStarted, Active
  <2> QED
    BY <1>1, <2>1, MasterStep DEF Busy
<1>2. ASSUME NEW i \in Request, Active(i)'
      PROVE  \/ Active(i)
             \/ \E n \in Operators, v \in Version, loc \in BOOLEAN : InitRequest(i, n, v, loc)
  <2>1. req'[i] = req[i] => Active(i)
    BY <1>2 DEF Active
  <2>2. InitStarted(i) \/ Archived(i) \/ req[i].phase = "packing" => Active(i)
    BY DEF InitStarted, Archived, Active
  <2> QED
    BY <2>1, <2>2, PhaseSteps
<1> QED
  BY <1>1, <1>2 DEF Busy

LEMMA GoneGrows ==
  ASSUME TypeOK, Wired, Next, NEW n \in Node
  PROVE  gone[n] \subseteq gone'[n]
<1>1. \A i \in Request, m \in Operators, v \in Version, loc \in BOOLEAN :
        InitRequest(i, m, v, loc) => UNCHANGED gone
  BY DEF InitRequest
<1>2. \A i \in Request : InitStep(i) \/ InitFail(i) \/ SpreadFail(i) => UNCHANGED gone
  BY DEF InitStep, InitStarted, PackDone, Archived, Joined, InitFail, SpreadFail, netVars
<1>3. \A m \in Node, d \in Conn : Receive(m, d) => UNCHANGED gone
  BY DEF Receive, ReceiveDone, ReceiveSync, ReceiveError, ClientConfirm
<1>4. \A m \in Node, d \in Conn : Close(m, d) => gone[n] \subseteq gone'[n]
  BY DEF Close, TypeOK
<1>5. \A m \in Node : \A x \in DOMAIN jobs[m] :
        SyncDeleted(m, x) \/ SyncDownloaded(m, x) \/ SyncBroken(m, x) \/ SyncStarted(m, x)
          \/ SyncFail(m, x) => UNCHANGED gone
  BY DEF SyncDeleted, SyncDownloaded, SyncBroken, SyncStarted, SyncFail
<1>6. \A m \in Node : ClearTasks(m) => UNCHANGED gone
  BY DEF ClearTasks, netVars
<1>7. \A m \in Node : Restart(m) => gone[n] \subseteq gone'[n]
  BY DEF Restart, TypeOK, Wired, Known
<1>8. \A s, k \in Node : AcceptPeer(s, k) => UNCHANGED gone
  BY DEF AcceptPeer
<1>9. UNCHANGED gone => gone[n] \subseteq gone'[n]
  OBVIOUS
<1> QED
  BY <1>1, <1>2, <1>3, <1>4, <1>5, <1>6, <1>7, <1>8, <1>9, Zenon DEF Next, SyncStep, Download

\* A connection that is live was live, or has just been accepted
LEMMA LiveStep ==
  ASSUME TypeOK, Wired, Next, NEW c \in Conn, NEW n \in Node, NEW p \in Node, Live(c, n, p)'
  PROVE  \/ Live(c, n, p)
         \/ \E s, k \in Node : AcceptPeer(s, k) /\ server[c] = None
<1>1. c \notin gone[n] \cup gone[p]
  BY GoneGrows DEF Live
<1>2. CASE UNCHANGED <<server, client>>
  BY <1>1, <1>2 DEF Live, Between
<1>3. ASSUME NEW s \in Node, NEW k \in Node, AcceptPeer(s, k)
      PROVE  Live(c, n, p) \/ server[c] = None
  <2>1. PICK d \in Conn : /\ server[d] = None
                          /\ server' = [server EXCEPT ![d] = s]
                          /\ client' = [client EXCEPT ![d] = k]
    BY <1>3 DEF AcceptPeer
  <2> QED
    BY <1>1, <2>1 DEF TypeOK, Between, Live
<1> QED
  BY <1>2, <1>3, WiringSteps

LEMMA OneLiveStep ==
  ASSUME TypeOK, Wired, OneLive, Next
  PROVE  OneLive'
<1> SUFFICES ASSUME NEW n \in Node, NEW p \in Node, NEW c \in Conn, NEW d \in Conn,
                    Live(c, n, p)', Live(d, n, p)'
             PROVE  c = d
  BY DEF OneLive
<1>1. CASE Live(c, n, p) /\ Live(d, n, p)
  BY <1>1 DEF OneLive
<1>2. ASSUME NEW s \in Node, NEW k \in Node, AcceptPeer(s, k) PROVE c = d
  <2>1. PICK b \in Conn : /\ server[b] = None
                          /\ server' = [server EXCEPT ![b] = s]
                          /\ client' = [client EXCEPT ![b] = k]
                          /\ \A e \in EndOf(s) \cap EndOf(k) : e \in gone[s] \cup gone[k]
                          /\ UNCHANGED gone
    BY <1>2 DEF AcceptPeer
  <2>2. \A e \in Conn \ {b} : server'[e] = server[e] /\ client'[e] = client[e]
    BY <2>1 DEF TypeOK
  <2>3. server'[b] = s /\ client'[b] = k
    BY <2>1 DEF TypeOK
  <2>4. \A e \in Conn \ {b} : Live(e, n, p)' => Live(e, n, p)
    BY <2>1, <2>2 DEF Live, Between
  <2>5. ASSUME NEW e \in Conn \ {b}, Live(b, n, p)', Live(e, n, p)' PROVE FALSE
    <3>1. {n, p} = {s, k}
      BY <2>3, <2>5 DEF Live, Between
    <3>2. Live(e, n, p)
      BY <2>4, <2>5
    <3>3. e \in EndOf(s) \cap EndOf(k)
      BY <3>1, <3>2 DEF Live, Between, EndOf
    <3> QED
      BY <2>1, <3>1, <3>2, <3>3 DEF Live
  <2> QED
    BY <2>4, <2>5 DEF OneLive
<1> QED
  BY <1>1, <1>2, LiveStep

LEMMA NoGreetStep ==
  ASSUME TypeOK, Wired, Calls, NoGreet, {"overlap", "join"} \cap Allowed = {}, Next
  PROVE  NoGreet'
<1> SUFFICES ASSUME Busy', NEW n \in Node, NEW c \in Conn PROVE ~Carries(inbox'[n][c], "identity")
  BY DEF NoGreet
<1>1. ASSUME NEW i \in Request, NEW m \in Operators, NEW v \in Version, NEW loc \in BOOLEAN,
             InitRequest(i, m, v, loc)
      PROVE  ~Carries(inbox'[n][c], "identity")
  <2>1. inbox'[n][c] = <<>>
    BY <1>1 DEF InitRequest, Quiet
  <2> QED
    BY <2>1 DEF Carries
<1>2. ASSUME Busy, ~Carries(inbox[n][c], "identity"),
             \A m \in In(inbox'[n][c]) : m \in In(inbox[n][c]) \/ m.kind # "identity"
      PROVE  ~Carries(inbox'[n][c], "identity")
  BY <1>2, CarriesIn
<1>3. CASE Busy
  <2>1. ~Carries(inbox[n][c], "identity")
    BY <1>3 DEF NoGreet
  <2>2. CASE Hush
    BY <1>2, <1>3, <2>1, <2>2 DEF Hush, Quieter
  <2>3. CASE Greet
    BY <1>3, <2>3, AcceptQuiet DEF Greet
  <2>4. CASE Tell
    BY <1>2, <1>3, <2>1, <2>4 DEF Tell, Quieter
  <2>5. CASE Listen
    <3>1. PICK m \in Node, d \in Conn : ReceiveSync(m, d)
      BY <2>5 DEF Listen
    <3>2. inbox[m][d] \in Seq(Message) /\ inbox[m][d] # <<>>
      BY <3>1 DEF ReceiveSync, TypeOK
    <3>3. \/ inbox'[n][c] = inbox[n][c]
          \/ m = n /\ d = c /\ inbox'[n][c] = Tail(inbox[m][d])
      BY <3>1 DEF ReceiveSync, TypeOK
    <3> QED
      BY <1>2, <1>3, <2>1, <3>2, <3>3, InTail
  <2>6. CASE AskNext
    <3>1. PICK m, d : Asking(m, d)
      BY <2>6 DEF AskNext, Turn, LoopAsks
    <3>2. PICK msg : msg = Sync(link[m])
      OBVIOUS
    <3>3. msg.kind = "sync"
      BY <3>2 DEF Sync
    <3>4. In(inbox'[n][c]) \subseteq In(inbox[n][c]) \cup {msg}
      BY <3>1, <3>2 DEF Asking
    <3> QED
      BY <1>2, <1>3, <2>1, <3>3, <3>4
  <2> QED
    BY <2>2, <2>3, <2>4, <2>5, <2>6, TrafficSteps
<1> QED
  BY <1>1, <1>3, BusyStep

\* Whom a loop asks is idle, and so is whom it will ask
LEMMA AskedIdle ==
  ASSUME TypeOK, Wired, Still, Unasked, NEW i \in Request, NEW d, NEW T,
         LoopAsks(i, req[i].node, d, T),
         Joined(i) \/ (req[i].phase = "asking" /\ {d} \cup T \subseteq req[i].todo)
  PROVE  \A p \in Node, e \in {d} \cup T : Live(e, req[i].node, p) => Idle(p)
<1>1. CASE Joined(i)
  <2>1. Hushed
    BY <1>1 DEF Joined, Early, Still
  <2>2. \A p \in Node : Idle(p)
    <3>1. \A c \in Conn : ~Carries(<<>>, "sync")
      BY InOne
    <3> QED
      BY <2>1, <3>1 DEF Hushed, Idle
  <2> QED
    BY <2>2
<1>2. CASE req[i].phase = "asking" /\ {d} \cup T \subseteq req[i].todo
  BY <1>2 DEF Unasked
<1> QED
  BY <1>1, <1>2

LEMMA OneAskStep ==
  ASSUME TypeOK, TypeOK', Wired, Calls, Traffic, {"overlap", "join"} \cap Allowed = {}, Next
  PROVE  OneAsk'
<1> USE DEF Traffic
<1>1. CASE Hush
  BY <1>1, QuietKeeps DEF Hush
<1>2. CASE Greet
  BY <1>2, QuietKeeps DEF Greet
<1>3. CASE Tell
  BY <1>3, QuietKeeps DEF Tell
<1>4. CASE Listen
  <2>1. PICK n \in Node, c \in Conn : ReceiveSync(n, c)
    BY <1>4 DEF Listen
  <2>2. inbox[n][c] \in Seq(Message) /\ inbox[n][c] # <<>> /\ Head(inbox[n][c]).kind = "sync"
    BY <2>1 DEF ReceiveSync, TypeOK
  <2>3. Carries(inbox[n][c], "sync")
    BY <2>2, InTail, CarriesIn
  <2>4. jobs[n] = <<>> /\ Single(inbox[n][c]) /\ \A d \in Conn \ {c} : ~Carries(inbox[n][d], "sync")
    BY <2>3 DEF OneAsk
  <2>5. ~Carries(Tail(inbox[n][c]), "sync") /\ Single(Tail(inbox[n][c]))
    BY <2>2, <2>4, InTail
  <2>6. \A p \in Node \ {n} : jobs'[p] = jobs[p] /\ inbox'[p] = inbox[p]
    BY <2>1 DEF ReceiveSync, TypeOK
  <2>7. /\ inbox'[n][c] = Tail(inbox[n][c])
        /\ \A d \in Conn \ {c} : inbox'[n][d] = inbox[n][d]
    BY <2>1 DEF ReceiveSync, TypeOK
  <2>8. \A x \in DOMAIN jobs'[n] : x = 1
    <3>1. PICK j : jobs' = [jobs EXCEPT ![n] = Append(@, j)]
      BY <2>1 DEF ReceiveSync
    <3>2. jobs'[n] = Append(<<>>, j)
      BY <2>4, <3>1 DEF TypeOK
    <3> QED
      BY <3>2
  <2>9. \A d \in Conn : ~Carries(inbox'[n][d], "sync") /\ Single(inbox'[n][d])
    BY <2>4, <2>5, <2>7 DEF OneAsk
  <2> QED
    BY <2>6, <2>8, <2>9 DEF OneAsk
<1>5. CASE AskNext
  <2>0. PICK i \in Request : \E d, T : Turn(i, req[i].node, d, T)
    BY <1>5 DEF AskNext
  <2>1. PICK d, T :
          /\ LoopAsks(i, req[i].node, d, T)
          /\ Joined(i) \/ (req[i].phase = "asking" /\ {d} \cup T \subseteq req[i].todo)
    BY <2>0 DEF Turn
  <2>2. PICK n : n = req[i].node
    OBVIOUS
  <2>3. Asking(n, d) /\ \A p \in Node : Live(d, n, p) => Idle(p)
    BY <2>1, <2>2, AskedIdle DEF LoopAsks
  <2> SUFFICES ASSUME NEW p \in Node
               PROVE  /\ \A x \in DOMAIN jobs'[p] : x = 1
                      /\ jobs'[p] # <<>> => \A c \in Conn : ~Carries(inbox'[p][c], "sync")
                      /\ \A c \in Conn : Single(inbox'[p][c])
                      /\ \A c, e \in Conn : Carries(inbox'[p][c], "sync")
                                            /\ Carries(inbox'[p][e], "sync") => c = e
    BY DEF OneAsk
  <2>4. jobs'[p] = jobs[p] /\ \A x \in DOMAIN jobs[p] : x = 1
    BY <2>3 DEF Asking, OneAsk
  <2>5. ASSUME NEW c \in Conn, In(inbox'[p][c]) \subseteq In(inbox[p][c]), ~Carries(inbox[p][c], "sync")
        PROVE  ~Carries(inbox'[p][c], "sync")
    BY <2>5, CarriesIn
  <2>6. CASE Live(d, n, p)
    <3>1. jobs[p] = <<>> /\ \A c \in Conn : ~Carries(inbox[p][c], "sync") /\ Single(inbox[p][c])
      BY <2>3, <2>6 DEF Idle, OneAsk
    <3>2. \A c \in Conn : c # d => ~Carries(inbox'[p][c], "sync")
      BY <2>3, <2>5, <3>1 DEF Asking
    <3>3. \A c \in Conn : Single(inbox'[p][c])
      BY <2>3, <3>1 DEF Asking
    <3> QED
      BY <2>4, <3>1, <3>2, <3>3
  <2>7. CASE ~Live(d, n, p)
    <3>1. \A c \in Conn : /\ In(inbox'[p][c]) \subseteq In(inbox[p][c])
                          /\ Single(inbox[p][c]) => Single(inbox'[p][c])
      BY <2>3, <2>7 DEF Asking
    <3>2. \A c \in Conn : Carries(inbox'[p][c], "sync") => Carries(inbox[p][c], "sync")
      BY <2>5, <3>1
    <3> QED
      BY <2>4, <3>1, <3>2 DEF OneAsk
  <2> QED
    BY <2>6, <2>7
<1> QED
  BY <1>1, <1>2, <1>3, <1>4, <1>5, TrafficSteps

LEMMA UnaskedStep ==
  ASSUME TypeOK, TypeOK', Wired, Calls, Traffic, {"overlap", "join"} \cap Allowed = {}, Next
  PROVE  Unasked'
<1> USE DEF Traffic
<1> SUFFICES ASSUME NEW i \in Request, req'[i].phase = "asking", NEW e \in req'[i].todo,
                    NEW n, n = req'[i].node, NEW p \in Node, Live(e, n, p)'
             PROVE  Idle(p)'
  BY DEF Unasked, Live, Between
<1>1. ASSUME e \in Known(n), n \in Node PROVE Live(e, n, p)
  <2>1. e \in EndOf(n)
    BY <1>1 DEF Wired
  <2>2. e \in Conn /\ server[e] # None
    BY <1>1, <2>1, Ends, BetweenEnds, GridAssumption
  <2> QED
    BY <1>1, <2>2, LiveStep
<1>2. ASSUME req'[i] = req[i] PROVE Live(e, n, p) /\ Idle(p)
  <2>1. req[i].phase = "asking" /\ e \in req[i].todo /\ n = req[i].node
    BY <1>2
  <2>2. e \in Known(n) /\ n \in Node
    BY <2>1, ActiveCall DEF Wired
  <2>3. Live(e, n, p)
    BY <1>1, <2>2
  <2> QED
    BY <2>1, <2>3 DEF Unasked
<1>3. CASE Hush
  BY <1>2, <1>3, QuietKeeps DEF Hush, LoopsRest
<1>4. CASE Greet
  BY <1>2, <1>4, QuietKeeps DEF Greet, LoopsRest
<1>5. CASE Tell
  BY <1>2, <1>5, QuietKeeps DEF Tell, LoopsRest
<1>6. CASE Listen
  <2>1. PICK m \in Node, c \in Conn : ReceiveSync(m, c)
    BY <1>6 DEF Listen
  <2>2. inbox[m][c] \in Seq(Message) /\ inbox[m][c] # <<>> /\ Head(inbox[m][c]).kind = "sync"
    BY <2>1 DEF ReceiveSync, TypeOK
  <2>3. Carries(inbox[m][c], "sync")
    BY <2>2, InTail, CarriesIn
  <2>4. Idle(p)
    BY <1>2, <1>6 DEF Listen, LoopsRest
  <2>5. p # m
    BY <2>3, <2>4 DEF Idle
  <2>6. jobs'[p] = jobs[p] /\ inbox'[p] = inbox[p]
    BY <2>1, <2>5 DEF ReceiveSync, TypeOK
  <2> QED
    BY <2>4, <2>6 DEF Idle
<1>7. CASE AskNext
  <2>0. PICK k \in Request : \E d, T : Turn(k, req[k].node, d, T)
    BY <1>7 DEF AskNext
  <2>1. PICK d, T :
          /\ LoopAsks(k, req[k].node, d, T)
          /\ Joined(k) \/ (req[k].phase = "asking" /\ {d} \cup T \subseteq req[k].todo)
    BY <2>0 DEF Turn
  <2>2. k = i
    <3>1. k # i => req'[i] = req[i] /\ Active(i) /\ Active(k)
      BY <2>1 DEF LoopAsks, Active
    <3> QED
      BY <3>1 DEF Calls, OneCall
  <2>3. n = req[i].node /\ n \in Node
    BY <2>1, <2>2 DEF LoopAsks
  <2>4. /\ Asking(n, d) /\ e \in T
        /\ T \subseteq Known(n) \ {d} /\ d \in Known(n)
    BY <2>1, <2>2, <2>3 DEF LoopAsks
  <2>5. Live(e, n, p) /\ e # d
    BY <1>1, <2>3, <2>4
  <2>6. Idle(p)
    <3>1. \A q \in Node, c \in {d} \cup T : Live(c, req[i].node, q) => Idle(q)
      BY <2>1, <2>2, AskedIdle
    <3> QED
      BY <2>3, <2>4, <2>5, <3>1
  <2>7. ~Live(d, n, p)
    <3>1. d \in Conn /\ e \in Conn
      BY <2>3, <2>4 DEF Known, TypeOK
    <3> QED
      BY <2>3, <2>5, <3>1 DEF OneLive
  <2>8. jobs'[p] = jobs[p] /\ \A c \in Conn : In(inbox'[p][c]) \subseteq In(inbox[p][c])
    BY <2>4, <2>7 DEF Asking
  <2> QED
    BY <2>6, <2>8, CarriesIn DEF Idle
<1> QED
  BY <1>3, <1>4, <1>5, <1>6, <1>7, TrafficSteps

LEMMA TrafficStep ==
  ASSUME TypeOK, TypeOK', Wired, Calls, Traffic, {"overlap", "join"} \cap Allowed = {}, Next
  PROVE  Traffic'
<1>1. Still'
  BY StillStep DEF Traffic
<1>2. NoGreet'
  BY NoGreetStep DEF Traffic
<1>3. OneLive'
  BY OneLiveStep DEF Traffic
<1>4. OneAsk' /\ Unasked'
  BY OneAskStep, UnaskedStep
<1> QED
  BY <1>1, <1>2, <1>3, <1>4 DEF Traffic

LEMMA TrafficInit == Init => Traffic
<1> SUFFICES ASSUME Init PROVE Traffic
  OBVIOUS
<1>1. \A n \in Node : jobs[n] = <<>> /\ \A c \in Conn : inbox[n][c] = <<>>
  BY DEF Init
<1>2. \A i \in Request : req[i].phase = "idle"
  BY DEF Init, Unsent
<1>3. \A n \in Node, c \in Conn, kind \in Kind : ~Carries(inbox[n][c], kind)
  BY <1>1 DEF Carries
<1>4. OneLive
  BY GridAssumption DEF OneLive, Live, Between, Init
<1>5. OneAsk
  <2>1. \A n \in Node, c \in Conn : Single(inbox[n][c])
    BY <1>1 DEF Single
  <2> QED
    BY <1>1, <1>3, <2>1 DEF OneAsk, Kind
<1> QED
  BY <1>1, <1>2, <1>3, <1>4, <1>5 DEF Traffic, Still, Hushed, NoGreet, Unasked, Early, Kind

----------------------------------------------------------------------------
(* Whole links, whole archives *)

\* A content is the archive of a version that is whole
Sound(l) == l \in Version \cup {None}

\* No node shares, asks for or downloads a link that names a mixture.
WholeLinks ==
  \A n \in Node :
    /\ Sound(link[n])
    /\ \A x \in DOMAIN jobs[n] : /\ Sound(jobs[n][x].link)
                                 /\ jobs[n][x].stage # "deleting" => jobs[n][x].link # None
    /\ \A c \in Conn : \A m \in In(inbox[n][c]) : m.kind = "sync" => Sound(m.link)

LEMMA SoundContent == \A l \in Content : l # Torn => Sound(l)
  BY DEF Content, Sound

\* All contents have the same task files
SameTasks == \A v, w \in Version : TasksOf[v] = TasksOf[w]

\* A node starts what it has unpacked, and its folder holds no task that this lacks.
WholeApps ==
  \A n \in Node :
    /\ \A t \in Task : app[n][t] # None => \A v \in Version : t \in TasksOf[v]
    /\ \A x \in DOMAIN jobs[n] : jobs[n][x].stage = "starting" => app[n] = Whole(jobs[n][x].link)

\* The steps that change what a node unpacks, starts, or runs
HandlerStep(n, x) ==
  SyncDeleted(n, x) \/ SyncDownloaded(n, x) \/ SyncBroken(n, x) \/ SyncStarted(n, x) \/ SyncFail(n, x)

LEMMA WorkSteps ==
  ASSUME Next
  PROVE  \/ \E n \in Node : \E x \in DOMAIN jobs[n] : HandlerStep(n, x)
         \/ \E n \in Node, c \in Conn : ReceiveSync(n, c)
         \/ \E n \in Node : Restart(n)
         \/ \E i \in Request : InitStarted(i) \/ InitFail(i)
         \/ \E n \in Node : ClearTasks(n)
         \/ UNCHANGED <<app, running, jobs>>
<1>1. \A s, k \in Node : AcceptPeer(s, k) => UNCHANGED <<app, running, jobs>>
  BY DEF AcceptPeer, taskVars
<1>2. \A i \in Request, n \in Operators, v \in Version, loc \in BOOLEAN :
        InitRequest(i, n, v, loc) => UNCHANGED <<app, running, jobs>>
  BY DEF InitRequest
<1>3. \A i \in Request : InitStep(i) \/ InitFail(i) \/ SpreadFail(i) =>
        InitStarted(i) \/ InitFail(i) \/ UNCHANGED <<app, running, jobs>>
  BY DEF InitStep, PackDone, Archived, Joined, SpreadFail, taskVars
<1>4. \A n \in Node, c \in Conn : Receive(n, c) \/ Close(n, c) =>
        ReceiveSync(n, c) \/ UNCHANGED <<app, running, jobs>>
  <2>1. \A n \in Node, c \in Conn : ReceiveDone(n, c) => UNCHANGED <<app, running, jobs>>
    BY DEF ReceiveDone, taskVars
  <2>2. \A n \in Node, c \in Conn : ReceiveError(n, c) \/ ClientConfirm(n, c) \/ Close(n, c)
        => UNCHANGED <<app, running, jobs>>
    BY DEF ReceiveError, ClientConfirm, Close, taskVars
  <2> QED
    BY <2>1, <2>2, Zenon DEF Receive
<1> QED
  BY <1>1, <1>2, <1>3, <1>4, Zenon DEF Next, SyncStep, Download, HandlerStep

LEMMA LoneJob ==
  ASSUME NEW s \in Seq(Job), \A x \in DOMAIN s : x = 1, NEW x \in DOMAIN s
  PROVE  x = 1 /\ s = <<s[1]>> /\ Without(s, x) = <<>> /\ s[1] \in Job
<1>1. PICK k : k = Len(s)
  OBVIOUS
<1>2. k \in Nat /\ DOMAIN s = 1 .. k
  BY <1>1
<1>3. x = 1 /\ k = 1
  <2>1. k # 0
    BY <1>2
  <2>2. k \in 1 .. k
    BY <1>2, <2>1
  <2> QED
    BY <1>2, <2>2
<1>4. s = <<s[1]>> /\ s[1] \in Job
  <2>1. Len(s) = 1 /\ s[1] \in Job
    BY <1>1, <1>2, <1>3
  <2>2. s = [y \in 1 .. 1 |-> s[y]]
    BY <1>2, <1>3
  <2>3. \A y \in 1 .. 1 : y = 1
    OBVIOUS
  <2>4. <<s[1]>> = [y \in 1 .. 1 |-> s[1]]
    BY <2>3
  <2> QED
    BY <2>1, <2>2, <2>3, <2>4
<1>5. Without(s, x) = <<>>
  <2>1. Without(s, x) = [y \in 1 .. 0 |-> IF y < x THEN s[y] ELSE s[y + 1]]
    BY <1>1, <1>3 DEF Without
  <2>2. 1 .. 0 = {}
    OBVIOUS
  <2> QED
    BY <2>1, <2>2
<1> QED
  BY <1>3, <1>4, <1>5

\* A handler that is alone does what it says
LEMMA OneHandler ==
  ASSUME TypeOK, OneAsk, WholeLinks, WholeApps, SameTasks, NEW n \in Node, NEW x \in DOMAIN jobs[n]
  PROVE  LET j == jobs[n][1]
         IN  /\ jobs[n] = <<j>> /\ j \in Job /\ Sound(j.link)
             /\ j.stage # "deleting" => j.link \in Version
             /\ ~SyncBroken(n, x)
             /\ SyncDeleted(n, x) =>
                  /\ running' = [running EXCEPT ![n] = Nothing] /\ UNCHANGED app
                  /\ j.stage = "deleting"
                  /\ \/ jobs' = [jobs EXCEPT ![n] = <<>>] /\ j.link = None
                     \/ /\ jobs' = [jobs EXCEPT ![n] = <<[j EXCEPT !.stage = "downloading"]>>]
                        /\ j.link \in Version
             /\ SyncDownloaded(n, x) =>
                  /\ app' = [app EXCEPT ![n] = Whole(j.link)] /\ UNCHANGED running
                  /\ jobs' = [jobs EXCEPT ![n] = <<[j EXCEPT !.stage = "starting"]>>]
                  /\ j.link \in Version /\ j.stage = "downloading"
             /\ SyncStarted(n, x) =>
                  /\ running' = [running EXCEPT ![n] = Whole(j.link)] /\ UNCHANGED app
                  /\ jobs' = [jobs EXCEPT ![n] = <<>>] /\ j.link \in Version /\ j.stage = "starting"
             /\ SyncFail(n, x) =>
                  /\ jobs' = [jobs EXCEPT ![n] = <<>>]
                  /\ \E f : /\ app' = [app EXCEPT ![n] = f]
                            /\ \A t \in Task : f[t] # None => \A v \in Version : t \in TasksOf[v]
                  /\ \E g : /\ running' = [running EXCEPT ![n] = g]
                            /\ g = running[n] \/ (j.stage = "starting" /\ g \in Parts(Whole(j.link)))
<1>1. PICK s : s = jobs[n]
  OBVIOUS
<1>2. PICK j : j = jobs[n][1]
  OBVIOUS
<1>3. /\ x = 1 /\ jobs[n] = <<j>> /\ j \in Job /\ DOMAIN jobs[n] = {1}
      /\ Without(jobs[n], x) = <<>>
  <2>1. s \in Seq(Job) /\ \A y \in DOMAIN s : y = 1
    BY <1>1 DEF TypeOK, OneAsk
  <2>2. x = 1 /\ s = <<s[1]>> /\ Without(s, x) = <<>> /\ s[1] \in Job
    BY <1>1, <2>1, LoneJob
  <2>3. DOMAIN s = {1}
    BY <2>2
  <2> QED
    BY <1>1, <1>2, <2>2, <2>3
<1>4. Sound(j.link) /\ (j.stage # "deleting" => j.link \in Version)
  BY <1>2, <1>3 DEF WholeLinks, Sound
<1>5. j.link # Torn
  BY <1>4, GridAssumption DEF Sound
<1>6. \A stage : AtStage(n, stage) = IF j.stage = stage THEN {1} ELSE {}
  BY <1>2, <1>3 DEF AtStage
<1>7. /\ Unpacking(n) = (IF j.stage = "downloading" THEN {j.link} ELSE {})
      /\ Others(n, x) = {}
  BY <1>2, <1>3, <1>6 DEF Unpacking, Others
<1>8. ~SyncBroken(n, x)
  BY <1>2, <1>3, <1>5, <1>6 DEF SyncBroken
<1>9. \A f : f \in Folder => Mixtures(f, {}) = {f}
  BY FolderType DEF Mixtures, Folder
<1>10. app[n] \in Folder /\ running[n] \in Folder
  BY DEF TypeOK
<1>11. ASSUME NEW stage, Advance(n, x, stage)
       PROVE  jobs' = [jobs EXCEPT ![n] = <<[j EXCEPT !.stage = stage]>>]
  <2>1. jobs' = [jobs EXCEPT ![n] = [jobs[n] EXCEPT ![1] = [jobs[n][1] EXCEPT !.stage = stage]]]
    BY <1>3, <1>11 DEF Advance
  <2>2. [<<j>> EXCEPT ![1] = [j EXCEPT !.stage = stage]] = <<[j EXCEPT !.stage = stage]>>
    OBVIOUS
  <2> QED
    BY <1>2, <1>3, <2>1, <2>2
<1>12. GiveUp(n, x) \/ BreakUp(n, x) => jobs' = [jobs EXCEPT ![n] = <<>>]
  BY <1>3 DEF GiveUp, BreakUp, Fails
<1>13. ASSUME SyncDeleted(n, x)
       PROVE  /\ running' = [running EXCEPT ![n] = Nothing] /\ UNCHANGED app
              /\ j.stage = "deleting"
              /\ \/ jobs' = [jobs EXCEPT ![n] = <<>>] /\ j.link = None
                 \/ /\ jobs' = [jobs EXCEPT ![n] = <<[j EXCEPT !.stage = "downloading"]>>]
                    /\ j.link \in Version
  <2>1. j.stage = "deleting"
    BY <1>6, <1>13 DEF SyncDeleted
  <2>2. CASE j.link = None
    BY <1>2, <1>3, <1>12, <1>13, <2>1, <2>2 DEF SyncDeleted
  <2>3. CASE j.link # None
    BY <1>2, <1>3, <1>4, <1>11, <1>13, <2>1, <2>3 DEF SyncDeleted, Sound
  <2> QED
    BY <2>2, <2>3
<1>14. ASSUME SyncDownloaded(n, x)
       PROVE  /\ app' = [app EXCEPT ![n] = Whole(j.link)] /\ UNCHANGED running
              /\ jobs' = [jobs EXCEPT ![n] = <<[j EXCEPT !.stage = "starting"]>>]
              /\ j.link \in Version /\ j.stage = "downloading"
  <2>1. j.stage = "downloading"
    BY <1>6, <1>14 DEF SyncDownloaded
  <2>2. j.link \in Version
    BY <1>4, <2>1
  <2>3. Layered(app[n], j.link) = Whole(j.link)
    BY <2>2 DEF Layered, Whole, WholeApps
  <2>4. Mixtures(Layered(app[n], j.link), Others(n, x)) = {Whole(j.link)}
    <3>1. Whole(j.link) \in Folder
      BY <2>2, FolderType
    <3> QED
      BY <1>7, <1>9, <2>3, <3>1
  <2>5. app' = [app EXCEPT ![n] = Whole(j.link)]
    BY <1>7, <1>14, <2>1, <2>4 DEF SyncDownloaded
  <2> QED
    BY <1>11, <1>14, <2>1, <2>2, <2>5 DEF SyncDownloaded
<1>15. ASSUME SyncStarted(n, x)
       PROVE  /\ running' = [running EXCEPT ![n] = Whole(j.link)] /\ UNCHANGED app
              /\ jobs' = [jobs EXCEPT ![n] = <<>>] /\ j.link \in Version /\ j.stage = "starting"
  <2>1. j.stage = "starting"
    BY <1>6, <1>15 DEF SyncStarted
  <2>2. j.link \in Version /\ app[n] = Whole(j.link)
    BY <1>2, <1>3, <1>4, <2>1 DEF WholeApps
  <2>3. Mixtures(app[n], Unpacking(n)) = {app[n]}
    BY <1>7, <1>9, <1>10, <2>1
  <2> QED
    BY <1>3, <1>15, <2>1, <2>2, <2>3 DEF SyncStarted
<1>16. ASSUME SyncFail(n, x)
       PROVE  /\ jobs' = [jobs EXCEPT ![n] = <<>>]
              /\ \E f : /\ app' = [app EXCEPT ![n] = f]
                        /\ \A t \in Task : f[t] # None => \A v \in Version : t \in TasksOf[v]
              /\ \E g : /\ running' = [running EXCEPT ![n] = g]
                        /\ g = running[n] \/ (j.stage = "starting" /\ g \in Parts(Whole(j.link)))
  <2>1. PICK f \in Mixtures(app[n], Unpacking(n)) :
          /\ app' = [app EXCEPT ![n] = IF j.stage = "downloading" THEN f ELSE app[n]]
          /\ \E g \in {running[n]} \cup IF j.stage = "starting" THEN Parts(f) ELSE {} :
               running' = [running EXCEPT ![n] = g]
    BY <1>2, <1>3, <1>16 DEF SyncFail
  <2>2. PICK g \in {running[n]} \cup IF j.stage = "starting" THEN Parts(f) ELSE {} :
          running' = [running EXCEPT ![n] = g]
    BY <2>1
  <2>3. PICK h : h = IF j.stage = "downloading" THEN f ELSE app[n]
    OBVIOUS
  <2>4. \A t \in Task : h[t] # None => \A v \in Version : t \in TasksOf[v]
    <3>1. ASSUME NEW t \in Task, j.stage = "downloading", f[t] # None, NEW v \in Version
          PROVE  t \in TasksOf[v]
      <4>1. j.link \in Version /\ Unpacking(n) = {j.link}
        BY <1>4, <1>7, <3>1
      <4>2. f[t] = app[n][t] \/ t \in TasksOf[j.link]
        BY <1>5, <4>1 DEF Mixtures, TasksIn
      <4> QED
        BY <3>1, <4>1, <4>2 DEF WholeApps, SameTasks
    <3> QED
      BY <2>3, <3>1 DEF WholeApps
  <2>5. g = running[n] \/ (j.stage = "starting" /\ g \in Parts(Whole(j.link)))
    <3>1. CASE j.stage = "starting" /\ g \in Parts(f)
      <4>1. f = app[n]
        BY <1>7, <1>9, <1>10, <3>1
      <4>2. f = Whole(j.link)
        BY <1>2, <1>3, <3>1, <4>1 DEF WholeApps
      <4> QED
        BY <3>1, <4>2
    <3>2. CASE g = running[n]
      BY <3>2
    <3> QED
      BY <3>1, <3>2
  <2>6. jobs' = [jobs EXCEPT ![n] = <<>>]
    BY <1>12, <1>16 DEF SyncFail
  <2>7. app' = [app EXCEPT ![n] = h]
    BY <2>1, <2>3
  <2> QED
    BY <2>2, <2>4, <2>5, <2>6, <2>7
<1> QED
  BY <1>2, <1>3, <1>4, <1>8, <1>13, <1>14, <1>15, <1>16

\* What is new in an inbox is no ask, or names the link that its sender shares
LEMMA InboxStep ==
  ASSUME TypeOK, Wired, Calls, Traffic, {"overlap", "join"} \cap Allowed = {}, Next,
         NEW n \in Node, NEW c \in Conn, NEW m \in In(inbox'[n][c])
  PROVE  \/ m \in In(inbox[n][c]) \/ m.kind # "sync"
         \/ \E i \in Request : /\ m.link = link[req[i].node] /\ req[i].node \in Node
                             /\ req[i].phase \in {"joining", "asking"}
<1>1. CASE Hush
  BY <1>1 DEF Hush, Quieter
<1>2. CASE Greet
  BY <1>2 DEF Greet, Quieter
<1>3. CASE Tell
  BY <1>3 DEF Tell, Quieter
<1>4. CASE Listen
  <2>1. PICK p \in Node, d \in Conn : ReceiveSync(p, d)
    BY <1>4 DEF Listen
  <2>2. inbox[p][d] \in Seq(Message) /\ inbox[p][d] # <<>>
    BY <2>1 DEF ReceiveSync, TypeOK
  <2>3. \/ inbox'[n][c] = inbox[n][c]
        \/ p = n /\ d = c /\ inbox'[n][c] = Tail(inbox[p][d])
    BY <2>1 DEF ReceiveSync, TypeOK
  <2> QED
    BY <2>2, <2>3, InTail
<1>5. CASE AskNext
  <2>0. PICK i \in Request : \E d, T : Turn(i, req[i].node, d, T)
    BY <1>5 DEF AskNext
  <2>1. PICK o \in Node : o = req[i].node /\ \E d : Asking(o, d)
    BY <2>0 DEF Turn, LoopAsks
  <2>2. PICK msg : msg = Sync(link[o])
    OBVIOUS
  <2>3. msg.link = link[o]
    BY <2>2 DEF Sync
  <2>4. In(inbox'[n][c]) \subseteq In(inbox[n][c]) \cup {msg}
    <3>1. PICK d : Asking(o, d)
      BY <2>1
    <3> QED
      BY <2>2, <3>1 DEF Asking
  <2>5. req[i].phase \in {"joining", "asking"}
    BY <2>0 DEF Turn, Joined
  <2> QED
    BY <2>1, <2>3, <2>4, <2>5
<1> QED
  BY <1>1, <1>2, <1>3, <1>4, <1>5, TrafficSteps DEF Traffic

\* The archive that a call shares is the one it made
LEMMA ArchivedStep ==
  ASSUME TypeOK, Calls, NEW i \in Request, Archived(i)
  PROVE  /\ req[i].node \in Node /\ req[i].ver \in Version /\ md5[req[i].node] = req[i].ver
         /\ link' = [link EXCEPT ![req[i].node] = req[i].ver]
<1>1. req[i].phase = "archiving"
  BY DEF Archived
<1>2. req[i].node \in Node /\ req[i].ver \in Version
  BY <1>1, ActiveCall
<1>3. /\ req[i].img = req[i].ver /\ md5[req[i].node] = req[i].ver
      /\ tmp[req[i].node] = req[i].img
  BY <1>1 DEF Calls, OwnFile
<1>4. Archives(i) = {req[i].ver}
  BY <1>3 DEF Archives
<1> QED
  BY <1>2, <1>3, <1>4 DEF Archived

LEMMA LinkSteps ==
  ASSUME Next
  PROVE  \/ UNCHANGED link
         \/ \E i \in Request : Archived(i)
         \/ \E n \in Node : Restart(n)
<1>1. \A i \in Request, n \in Operators, v \in Version, loc \in BOOLEAN :
        InitRequest(i, n, v, loc) => UNCHANGED link
  BY DEF InitRequest, fileVars
<1>2. \A i \in Request : InitStep(i) \/ InitFail(i) \/ SpreadFail(i) => UNCHANGED link \/ Archived(i)
  BY DEF InitStep, InitStarted, PackDone, Joined, InitFail, SpreadFail, fileVars
<1>3. \A n \in Node, c \in Conn : ReceiveDone(n, c) => UNCHANGED link
  BY DEF ReceiveDone, fileVars
<1>4. UNCHANGED <<req, fileVars>> => UNCHANGED link
  BY DEF fileVars
<1> QED
  BY <1>1, <1>2, <1>3, <1>4, OtherSteps

LEMMA LinkSoundStep ==
  ASSUME TypeOK, Calls, Next, NEW n \in Node, Sound(link[n])
  PROVE  Sound(link'[n])
<1>1. ASSUME NEW i \in Request, Archived(i) PROVE Sound(link'[n])
  <2>1. /\ req[i].ver \in Version
        /\ link' = [link EXCEPT ![req[i].node] = req[i].ver]
    BY <1>1, ArchivedStep
  <2>2. link'[n] = link[n] \/ link'[n] = req[i].ver
    BY <2>1 DEF TypeOK
  <2> QED
    BY <2>1, <2>2 DEF Sound
<1>2. ASSUME NEW p \in Node, Restart(p) PROVE Sound(link'[n])
  <2>1. link'[n] = link[n] \/ link'[n] = None
    BY <1>2 DEF Restart, TypeOK
  <2> QED
    BY <2>1 DEF Sound
<1> QED
  BY <1>1, <1>2, LinkSteps

LEMMA WholeStep ==
  ASSUME TypeOK, Wired, Calls, Traffic, WholeLinks, WholeApps, OnlyWholeTasksRun, SameTasks,
         {"overlap", "join"} \cap Allowed = {}, Next
  PROVE  WholeLinks' /\ WholeApps' /\ OnlyWholeTasksRun'
<1>1. \A n \in Node : Sound(link'[n])
  BY LinkSoundStep DEF WholeLinks
<1>2. ASSUME NEW n \in Node, NEW c \in Conn, NEW m \in In(inbox'[n][c]), m.kind = "sync"
      PROVE  Sound(m.link)
  <2>1. CASE m \in In(inbox[n][c])
    BY <1>2, <2>1 DEF WholeLinks
  <2>2. ASSUME NEW o \in Node, m.link = link[o] PROVE Sound(m.link)
    BY <2>2 DEF WholeLinks
  <2> QED
    BY <1>2, <2>1, <2>2, InboxStep
<1> DEFINE Jobs(n) == \A x \in DOMAIN jobs'[n] :
                        /\ Sound(jobs'[n][x].link)
                        /\ jobs'[n][x].stage # "deleting" => jobs'[n][x].link # None
                        /\ jobs'[n][x].stage = "starting" => app'[n] = Whole(jobs'[n][x].link)
           App(n)  == \A t \in Task : app'[n][t] # None => \A v \in Version : t \in TasksOf[v]
           Run(n)  == \A t \in Task : running'[n][t] # Torn
           Good(n) == Jobs(n) /\ App(n) /\ Run(n)
<1>3. ASSUME NEW n \in Node
      PROVE  /\ app'[n] = app[n] => App(n)
             /\ app'[n] = app[n] /\ jobs'[n] = jobs[n] => Jobs(n)
             /\ jobs'[n] = <<>> => Jobs(n)
             /\ running'[n] = running[n] => Run(n)
  <2>1. app'[n] = app[n] => App(n)
    BY DEF WholeApps
  <2>2. app'[n] = app[n] /\ jobs'[n] = jobs[n] => Jobs(n)
    BY DEF WholeApps, WholeLinks
  <2>3. jobs'[n] = <<>> => Jobs(n)
    OBVIOUS
  <2>4. running'[n] = running[n] => Run(n)
    BY DEF OnlyWholeTasksRun
  <2> QED
    BY <2>1, <2>2, <2>3, <2>4
<1>4. ASSUME NEW n \in Node, UNCHANGED <<app, running, jobs>> PROVE Good(n)
  BY <1>3, <1>4
<1>5. \A v \in Version : \A t \in Task : /\ Whole(v)[t] # Torn
                                         /\ Whole(v)[t] # None => t \in TasksOf[v]
  BY GridAssumption DEF Whole
<1>6. \A t \in Task : Nothing[t] = None /\ None # Torn
  BY GridAssumption DEF Nothing
<1> HIDE DEF Jobs, App, Run
<1>7. ASSUME NEW p \in Node, NEW x \in DOMAIN jobs[p], HandlerStep(p, x), NEW n \in Node
      PROVE  Good(n)
  <2>1. PICK j : j = jobs[p][1]
    OBVIOUS
  <2>2. j \in Job /\ Sound(j.link) /\ j.link # Torn
    BY <1>7, <2>1, OneHandler, GridAssumption DEF Traffic, Sound
  <2>3. CASE SyncDeleted(p, x)
    <3>1. /\ running' = [running EXCEPT ![p] = Nothing] /\ UNCHANGED app
          /\ \/ jobs' = [jobs EXCEPT ![p] = <<>>]
             \/ /\ jobs' = [jobs EXCEPT ![p] = <<[j EXCEPT !.stage = "downloading"]>>]
                /\ j.link \in Version
      BY <1>7, <2>1, <2>3, OneHandler DEF Traffic
    <3>2. App(n) /\ (n # p => Good(n))
      BY <1>3, <3>1 DEF TypeOK
    <3>3. n = p => Run(n)
      BY <1>6, <3>1 DEF TypeOK, Run
    <3>4. ASSUME n = p, jobs' = [jobs EXCEPT ![p] = <<[j EXCEPT !.stage = "downloading"]>>],
                 j.link \in Version
          PROVE  Jobs(n)
      <4>1. PICK k : k = [j EXCEPT !.stage = "downloading"]
        OBVIOUS
      <4>2. k.link = j.link /\ k.stage = "downloading"
        BY <2>2, <4>1 DEF Job
      <4>3. jobs'[n] = <<k>>
        BY <3>4, <4>1 DEF TypeOK
      <4> QED
        BY <3>4, <4>2, <4>3, GridAssumption DEF Jobs, Sound
    <3>5. ASSUME n = p, jobs' = [jobs EXCEPT ![p] = <<>>] PROVE Jobs(n)
      BY <1>3, <3>5 DEF TypeOK
    <3> QED
      BY <3>1, <3>2, <3>3, <3>4, <3>5
  <2>4. CASE SyncDownloaded(p, x)
    <3>1. /\ app' = [app EXCEPT ![p] = Whole(j.link)] /\ UNCHANGED running
          /\ jobs' = [jobs EXCEPT ![p] = <<[j EXCEPT !.stage = "starting"]>>]
          /\ j.link \in Version
      BY <1>7, <2>1, <2>4, OneHandler DEF Traffic
    <3>2. Run(n) /\ (n # p => Good(n))
      BY <1>3, <3>1 DEF TypeOK
    <3>3. CASE n = p
      <4>1. app'[n] = Whole(j.link)
        BY <3>1, <3>3 DEF TypeOK
      <4>2. App(n)
        BY <1>5, <3>1, <4>1 DEF App, SameTasks
      <4>3. PICK k : k = [j EXCEPT !.stage = "starting"]
        OBVIOUS
      <4>4. k.link = j.link /\ k.stage = "starting"
        BY <2>2, <4>3 DEF Job
      <4>5. jobs'[n] = <<k>>
        BY <3>1, <3>3, <4>3 DEF TypeOK
      <4>6. Jobs(n)
        BY <3>1, <4>1, <4>4, <4>5, GridAssumption DEF Jobs, Sound
      <4> QED
        BY <3>2, <4>2, <4>6
    <3> QED
      BY <3>2, <3>3
  <2>5. CASE SyncStarted(p, x)
    <3>1. /\ running' = [running EXCEPT ![p] = Whole(j.link)] /\ UNCHANGED app
          /\ jobs' = [jobs EXCEPT ![p] = <<>>] /\ j.link \in Version
      BY <1>7, <2>1, <2>5, OneHandler DEF Traffic
    <3>2. App(n) /\ Jobs(n) /\ (n # p => Run(n))
      BY <1>3, <3>1 DEF TypeOK
    <3>3. n = p => Run(n)
      BY <1>5, <3>1 DEF TypeOK, Run
    <3> QED
      BY <3>2, <3>3
  <2>6. CASE SyncFail(p, x)
    <3>1. /\ jobs' = [jobs EXCEPT ![p] = <<>>]
          /\ \E f : /\ app' = [app EXCEPT ![p] = f]
                    /\ \A t \in Task : f[t] # None => \A v \in Version : t \in TasksOf[v]
          /\ \E g : /\ running' = [running EXCEPT ![p] = g]
                    /\ g = running[p] \/ (j.stage = "starting" /\ g \in Parts(Whole(j.link)))
      BY <1>7, <2>1, <2>6, OneHandler DEF Traffic
    <3>2. PICK f : /\ app' = [app EXCEPT ![p] = f]
                   /\ \A t \in Task : f[t] # None => \A v \in Version : t \in TasksOf[v]
      BY <3>1
    <3>3. PICK g : /\ running' = [running EXCEPT ![p] = g]
                   /\ \A t \in Task : g[t] \in {running[p][t], None, j.link}
      BY <3>1 DEF Parts, Whole
    <3>4. n # p => Good(n)
      BY <1>3, <3>1, <3>2, <3>3 DEF TypeOK
    <3>5. n = p => Jobs(n)
      BY <1>3, <3>1 DEF TypeOK
    <3>6. n = p => App(n)
      BY <3>2 DEF TypeOK, App
    <3>7. n = p => Run(n)
      BY <1>6, <2>2, <3>3 DEF TypeOK, Run, OnlyWholeTasksRun
    <3> QED
      BY <3>4, <3>5, <3>6, <3>7
  <2>7. ~SyncBroken(p, x)
    BY <1>7, OneHandler DEF Traffic
  <2> QED
    BY <1>7, <2>3, <2>4, <2>5, <2>6, <2>7 DEF HandlerStep
<1>8. ASSUME NEW p \in Node, NEW c \in Conn, ReceiveSync(p, c), NEW n \in Node PROVE Good(n)
  <2>1. inbox[p][c] \in Seq(Message) /\ inbox[p][c] # <<>> /\ Head(inbox[p][c]).kind = "sync"
    BY <1>8 DEF ReceiveSync, TypeOK
  <2>2. PICK m : m = Head(inbox[p][c])
    OBVIOUS
  <2>3. m \in In(inbox[p][c]) /\ m.kind = "sync"
    BY <2>1, <2>2, InTail
  <2>4. Sound(m.link)
    BY <2>3 DEF WholeLinks
  <2>5. jobs[p] = <<>>
    <3>1. Carries(inbox[p][c], "sync")
      BY <2>3, CarriesIn
    <3> QED
      BY <3>1 DEF Traffic, OneAsk
  <2>6. PICK j : j = [conn |-> c, stage |-> "deleting", link |-> m.link]
    OBVIOUS
  <2>7. jobs' = [jobs EXCEPT ![p] = <<j>>] /\ UNCHANGED <<app, running>>
    <3>1. Append(<<>>, j) = <<j>>
      OBVIOUS
    <3> QED
      BY <1>8, <2>2, <2>5, <2>6, <3>1 DEF ReceiveSync, taskVars
  <2>8. App(n) /\ Run(n) /\ (n # p => Jobs(n))
    BY <1>3, <2>7 DEF TypeOK
  <2>9. CASE n = p
    <3>1. jobs'[n] = <<j>> /\ j.link = m.link /\ j.stage = "deleting"
      BY <2>6, <2>7, <2>9 DEF TypeOK
    <3> QED
      BY <2>4, <2>8, <3>1 DEF Jobs
  <2> QED
    BY <2>8, <2>9
<1>9. ASSUME NEW p \in Node, Restart(p), NEW n \in Node PROVE Good(n)
  <2>1. n # p => Good(n)
    BY <1>3, <1>9 DEF Restart, TypeOK
  <2>2. n = p => /\ app'[n] = Nothing /\ running'[n] = Nothing /\ jobs'[n] = <<>>
    BY <1>9 DEF Restart, TypeOK
  <2> QED
    BY <1>3, <1>6, <2>1, <2>2 DEF App, Run
<1>10. ASSUME NEW i \in Request, InitStarted(i) \/ InitFail(i), NEW n \in Node PROVE Good(n)
  <2>1. UNCHANGED <<app, jobs>>
    BY <1>10 DEF InitStarted, InitFail
  <2>2. req[i].ver \in Version
    BY <1>10, ActiveCall DEF InitStarted, InitFail
  <2>3. \E f : /\ running' = [running EXCEPT ![req[i].node] = f]
               /\ \A t \in Task : f[t] \in {running[req[i].node][t], None, Whole(req[i].ver)[t]}
    BY <1>10, Zenon DEF InitStarted, InitFail, Parts
  <2>4. Run(n)
    <3>1. PICK f : /\ running' = [running EXCEPT ![req[i].node] = f]
                   /\ \A t \in Task : f[t] \in {running[req[i].node][t], None, Whole(req[i].ver)[t]}
      BY <2>3
    <3>2. running'[n] = running[n] \/ (n = req[i].node /\ running'[n] = f)
      BY <3>1 DEF TypeOK
    <3> QED
      BY <1>5, <1>6, <2>2, <3>1, <3>2 DEF Run, OnlyWholeTasksRun
  <2> QED
    BY <1>3, <2>1, <2>4
<1>11. ASSUME NEW p \in Node, ClearTasks(p), NEW n \in Node PROVE Good(n)
  <2>1. UNCHANGED <<app, jobs>> /\ running' = [running EXCEPT ![p] = Nothing]
    BY <1>11 DEF ClearTasks
  <2>2. running'[n] = running[n] \/ running'[n] = Nothing
    BY <2>1 DEF TypeOK
  <2> QED
    BY <1>3, <1>6, <2>1, <2>2 DEF Run
<1>12. ASSUME NEW n \in Node PROVE Good(n)
  <2> HIDE DEF Good
  <2> QED
    BY <1>4, <1>7, <1>8, <1>9, <1>10, <1>11, WorkSteps
<1> QED
  BY <1>1, <1>2, <1>12 DEF Jobs, App, Run, WholeLinks, WholeApps, OnlyWholeTasksRun

----------------------------------------------------------------------------
(* What runs is whole *)

\* The inductive invariant of the calls that do not overlap
Serial == TypeOK /\ Wired /\ Calls /\ Traffic /\ WholeLinks /\ WholeApps /\ OnlyWholeTasksRun

LEMMA SerialInit == Init => Serial
<1> SUFFICES ASSUME Init PROVE Serial
  OBVIOUS
<1>1. TypeOK /\ Wired /\ Calls /\ Traffic
  BY InitType, StallInit, CallsInit, TrafficInit
<1>2. WholeLinks
  <2>1. \A n \in Node, c \in Conn : In(inbox[n][c]) = {}
    BY InOne DEF Init
  <2>2. \A n \in Node : link[n] = None /\ DOMAIN jobs[n] = {}
    BY DEF Init
  <2> QED
    BY <2>1, <2>2 DEF WholeLinks, Sound
<1>3. WholeApps /\ OnlyWholeTasksRun
  <2>1. \A n \in Node : DOMAIN jobs[n] = {}
    BY DEF Init
  <2>2. \A n \in Node, t \in Task : app[n][t] = None /\ running[n][t] # Torn
    BY GridAssumption DEF Init, Nothing
  <2> QED
    BY <2>1, <2>2 DEF WholeApps, OnlyWholeTasksRun
<1> QED
  BY <1>1, <1>2, <1>3 DEF Serial

LEMMA SerialStep ==
  ASSUME Serial, SameTasks, {"overlap", "join"} \cap Allowed = {}, [Next]_vars
  PROVE  Serial'
<1> USE DEF Serial
<1>1. TypeOK' /\ Wired' /\ Calls'
  BY StepType, WiredStep, CallsStep
<1>2. CASE Next
  BY <1>1, <1>2, TrafficStep, WholeStep
<1>3. CASE UNCHANGED vars
  <2>1. Traffic'
    BY <1>3 DEF vars, netVars, fileVars, Traffic, Still, Hushed, Early, NoGreet, Busy, Active,
                OneLive, Live, Between, OneAsk, Unasked, Idle
  <2>2. WholeLinks' /\ WholeApps' /\ OnlyWholeTasksRun'
    BY <1>3 DEF vars, netVars, fileVars, taskVars, WholeLinks, WholeApps, OnlyWholeTasksRun
  <2> QED
    BY <1>1, <2>1, <2>2
<1> QED
  BY <1>2, <1>3

\* A task that runs was started from a whole file, in a grid where the calls do
\* not overlap, peers join before a node is a master, and all contents have the
\* same task files: the ask of one loop meets no handler, so that no two
\* handlers write the files of one node (init_task_group, mountActions).
THEOREM OnlyWholeTasksRunHolds ==
  ASSUME {"overlap", "join"} \cap Allowed = {}, SameTasks
  PROVE  Spec => []OnlyWholeTasksRun
<1>1. Init => Serial
  BY SerialInit
<1>2. Serial /\ [Next]_vars => Serial'
  BY SerialStep
<1>3. Serial => OnlyWholeTasksRun
  BY DEF Serial
<1> QED
  BY <1>1, <1>2, <1>3, PTL DEF Spec

----------------------------------------------------------------------------
(* The routers that a master takes for synchronized *)

\* One operator whose calls do not overlap, peers that join before it is a master,
\* and contents with the same task files
Steady ==
  /\ {"overlap", "join"} \cap Allowed = {}
  /\ SameTasks
  /\ \A n, m \in Operators : n = m

\* The answer of the router c to the latest archive is still missing
Unheard(c) ==
  \E i \in Request :
    \/ req[i].phase \in {"archiving", "joining"}
    \/ req[i].phase = "asking" /\ c \in req[i].todo \cup {req[i].wait}

\* The routers of o whose other end has told o that it runs the latest content
Told(o) ==
  {c \in pool[o] : ~Unheard(c) \/ c \in synced[o] \/ Carries(inbox[o][c], "done")}

\* A node runs v, or its tasks have been deleted.
Holds(n, v) == running[n] \in {Nothing, Whole(v)}

\* Those that have told, and have not closed the connection since, do run it, and
\* nobody asks them for anything else: on a node that has not gone astray.
Current(o, p) == Idle(p) /\ Holds(p, md5[o])
ToldCurrent   ==
  \A o \in Operators \ astray : md5[o] # None =>
    \A c \in Told(o) : c \notin gone[Peer(o, c)] => Current(o, Peer(o, c))

\* A loop asks nobody who has told.
NotTold ==
  \A o \in Operators \ astray, i \in Request : req[i].phase = "asking" /\ req[i].node = o =>
    \A d \in req[i].todo, p \in Node : Live(d, o, p) =>
      \A e \in Told(o) : Peer(o, e) = p => e \in gone[p]

\* Something is left of an earlier call of o: a flag, an ask, an answer
Answers(o) == \E c \in Conn : Carries(inbox[o][c], "done")
Used(o)    == synced[o] # {} \/ (\E p \in Node : ~Idle(p)) \/ Answers(o)

\* Then o runs the content whose digest it remembers, or nothing.
Level ==
  \A o \in Operators \ astray : Used(o) =>
    running[o] = Nothing \/ (md5[o] # None /\ running[o] = Whole(md5[o]))

\* Whatever is asked for is that content, unless o has been restarted since.
LinksAreMd5 ==
  \A o \in Operators, p \in Node : md5[o] # None =>
    /\ \A x \in DOMAIN jobs[p] : jobs[p][x].link = md5[o]
    /\ \A c \in Conn : \A m \in In(inbox[p][c]) : m.kind = "sync" => m.link = md5[o]

\* What a call knows of its node as it goes on
Runs ==
  \A i \in Request :
    /\ req[i].phase \in {"packing", "archiving", "joining", "asking"} =>
         isMaster[req[i].node] /\ Holds(req[i].node, req[i].ver)
    /\ req[i].phase \in {"archiving", "joining", "asking"} => md5[req[i].node] = req[i].ver
    /\ req[i].phase \in {"joining", "asking"} => link[req[i].node] = req[i].ver

Owners     == \A i \in Request : req[i].phase # "idle" => req[i].node \in Operators
Masters    == \A n \in Node : md5[n] # None => isMaster[n]
SyncedPool == \A n \in Node : synced[n] \subseteq pool[n]
Unmarked   == \A i \in Request : Early(i) => synced[req[i].node] = {}
OpIdle     == \A o \in Operators : Idle(o)

Routing ==
  /\ Serial /\ ToldCurrent /\ NotTold /\ Level /\ LinksAreMd5 /\ Runs
  /\ Owners /\ Masters /\ SyncedPool /\ Unmarked /\ OpIdle

\* What a steady grid does
LEMMA SteadySteps ==
  ASSUME Steady, Serial, Next
  PROVE  \/ \E s, k \in Node : AcceptPeer(s, k)
         \/ \E i \in Request, n \in Operators, v \in Version, loc \in BOOLEAN :
              InitRequest(i, n, v, loc)
         \/ \E i \in Request : InitStarted(i) \/ InitFail(i)
         \/ \E i \in Request : PackDone(i)
         \/ \E i \in Request : SpreadFail(i)
         \/ \E i \in Request : Archived(i)
         \/ \E i \in Request : Joined(i)
         \/ \E n \in Node, c \in Conn : ReceiveDone(n, c)
         \/ \E n \in Node, c \in Conn :
              ReceiveSync(n, c) \/ ReceiveError(n, c) \/ ClientConfirm(n, c) \/ Close(n, c)
         \/ \E n \in Node : \E x \in DOMAIN jobs[n] : SyncStarted(n, x)
         \/ \E n \in Node : \E x \in DOMAIN jobs[n] :
              SyncDeleted(n, x) \/ SyncDownloaded(n, x) \/ SyncFail(n, x)
         \/ \E n \in Node : Restart(n)
         \/ \E n \in Node : ClearTasks(n)
<1>1. \A n \in Node : \A x \in DOMAIN jobs[n] : ~SyncBroken(n, x)
  BY OneHandler DEF Steady, Serial, Traffic
<1> QED
  BY <1>1, Zenon DEF Next, InitStep, Receive, SyncStep, Download

\* The digest, the link and the flag of a master, and what mends a node gone astray
LEMMA FileSteps ==
  ASSUME Steady, Serial, Next, NEW o \in Node
  PROVE  \/ Restart(o)
         \/ /\ md5'[o] = md5[o] \/ \E i \in Request : PackDone(i)
            /\ link'[o] = link[o] \/ \E i \in Request : Archived(i)
            /\ isMaster'[o] = isMaster[o] \/ \E i \in Request : InitStarted(i)
            /\ o \in astray => o \in astray' \/ \E i \in Request : Archived(i)
<1>1. \A s, k \in Node : AcceptPeer(s, k) => UNCHANGED <<md5, link, isMaster, astray>>
  BY DEF AcceptPeer, fileVars
<1>2. \A i \in Request, n \in Operators, v \in Version, loc \in BOOLEAN :
        InitRequest(i, n, v, loc) => UNCHANGED <<md5, link, isMaster, astray>>
  BY DEF InitRequest, fileVars
<1>3. \A i \in Request :
        /\ InitStarted(i) => UNCHANGED <<md5, link>> /\ astray \subseteq astray'
        /\ PackDone(i) => UNCHANGED <<link, isMaster, astray>>
        /\ SpreadFail(i) => UNCHANGED <<md5, link, isMaster>> /\ astray \subseteq astray'
        /\ Archived(i) => UNCHANGED <<md5, isMaster>>
  BY DEF InitStarted, PackDone, SpreadFail, Archived
<1>4. \A i \in Request : InitFail(i) \/ Joined(i) => UNCHANGED <<md5, link, isMaster, astray>>
  BY DEF InitFail, Joined, fileVars
<1>5. \A n \in Node, c \in Conn :
        ReceiveSync(n, c) \/ ReceiveError(n, c) \/ ClientConfirm(n, c) \/ Close(n, c)
          => UNCHANGED <<md5, link, isMaster, astray>>
  BY DEF ReceiveSync, ReceiveError, ClientConfirm, Close, fileVars
<1>6. \A n \in Node, c \in Conn : ReceiveDone(n, c) => UNCHANGED <<md5, link, isMaster, astray>>
  BY DEF ReceiveDone, fileVars
<1>7. \A n \in Node : \A x \in DOMAIN jobs[n] :
        SyncStarted(n, x) \/ SyncDeleted(n, x) \/ SyncDownloaded(n, x) \/ SyncFail(n, x)
          => UNCHANGED <<md5, link, isMaster, astray>>
  BY DEF SyncStarted, SyncDeleted, SyncDownloaded, SyncFail, fileVars
<1>8. \A n \in Node : ClearTasks(n) => UNCHANGED <<md5, link, isMaster, astray>>
  BY DEF ClearTasks, fileVars
<1>9. ASSUME NEW n \in Node, Restart(n), n # o
      PROVE  /\ md5'[o] = md5[o] /\ link'[o] = link[o] /\ isMaster'[o] = isMaster[o]
             /\ o \in astray => o \in astray'
  BY <1>9 DEF Restart, Serial, TypeOK
<1> QED
  BY <1>1, <1>2, <1>3, <1>4, <1>5, <1>6, <1>7, <1>8, <1>9, SteadySteps

\* The flags of the routers, and what the operators run
LEMMA MarkSteps ==
  ASSUME Steady, Serial, Next
  PROVE  \/ UNCHANGED synced
         \/ \E i \in Request, n \in Operators, v \in Version, loc \in BOOLEAN :
              InitRequest(i, n, v, loc)
         \/ \E i \in Request : PackDone(i)
         \/ \E i \in Request : SpreadFail(i)
         \/ \E n \in Node, c \in Conn : ReceiveDone(n, c)
         \/ \E n \in Node, c \in Conn : Close(n, c)
         \/ \E n \in Node : Restart(n)
<1>1. \A s, k \in Node : AcceptPeer(s, k) => UNCHANGED synced
  BY DEF AcceptPeer
<1>2. \A i \in Request : InitStarted(i) \/ InitFail(i) \/ Archived(i) \/ Joined(i) => UNCHANGED synced
  BY DEF InitStarted, InitFail, Archived, Joined, netVars
<1>3. \A n \in Node, c \in Conn :
        ReceiveSync(n, c) \/ ReceiveError(n, c) \/ ClientConfirm(n, c) => UNCHANGED synced
  BY DEF ReceiveSync, ReceiveError, ClientConfirm
<1>4. \A n \in Node : \A x \in DOMAIN jobs[n] :
        SyncStarted(n, x) \/ SyncDeleted(n, x) \/ SyncDownloaded(n, x) \/ SyncFail(n, x)
          => UNCHANGED synced
  BY DEF SyncStarted, SyncDeleted, SyncDownloaded, SyncFail
<1>5. \A n \in Node : ClearTasks(n) => UNCHANGED synced
  BY DEF ClearTasks, netVars
<1> QED
  BY <1>1, <1>2, <1>3, <1>4, <1>5, SteadySteps

LEMMA OpRuns ==
  ASSUME Steady, Serial, OpIdle, Next, NEW o \in Operators
  PROVE  running'[o] \in {running[o], Nothing} \/ \E i \in Request : InitStarted(i) \/ InitFail(i)
<1>0. o \in Node
  BY GridAssumption
<1>1. ASSUME NEW n \in Node, NEW x \in DOMAIN jobs[n], HandlerStep(n, x)
      PROVE  running'[o] = running[o]
  <2>1. n # o
    <3>1. jobs[o] = <<>>
      BY DEF OpIdle, Idle
    <3> QED
      BY <3>1
  <2>2. UNCHANGED running \/ \E g : running' = [running EXCEPT ![n] = g]
    BY <1>1, OneHandler, Zenon DEF HandlerStep, Steady, Serial, Traffic
  <2> QED
    BY <1>0, <2>1, <2>2 DEF Serial, TypeOK
<1>2. ASSUME NEW n \in Node, NEW c \in Conn, ReceiveSync(n, c) PROVE running'[o] = running[o]
  BY <1>2 DEF ReceiveSync, taskVars
<1>3. ASSUME NEW n \in Node, Restart(n) \/ ClearTasks(n)
      PROVE  running'[o] \in {running[o], Nothing}
  <2>1. running' = [running EXCEPT ![n] = Nothing]
    BY <1>3 DEF Restart, ClearTasks
  <2> QED
    BY <1>0, <2>1 DEF Serial, TypeOK
<1> QED
  BY <1>1, <1>2, <1>3, WorkSteps

LEMMA OwnersStep ==
  ASSUME Serial, Owners, Next
  PROVE  Owners'
<1> SUFFICES ASSUME NEW i \in Request, req'[i].phase # "idle" PROVE req'[i].node \in Operators
  BY DEF Owners
<1>1. Active(i) => req[i].phase # "idle"
  BY DEF Active
<1>2. InitStarted(i) \/ PackDone(i) \/ Archived(i) => req[i].phase # "idle"
  BY DEF InitStarted, PackDone, Archived
<1> QED
  BY <1>1, <1>2, PhaseSteps DEF Serial, Owners

LEMMA MastersStep ==
  ASSUME Steady, Serial, Masters, Runs, Next
  PROVE  Masters'
<1> SUFFICES ASSUME NEW n \in Node, md5'[n] # None PROVE isMaster'[n]
  BY DEF Masters
<1>1. ~Restart(n)
  BY DEF Restart, Serial, TypeOK
<1>2. isMaster[n] => isMaster'[n]
  <2>1. ASSUME NEW i \in Request, InitStarted(i), isMaster[n] PROVE isMaster'[n]
    BY <2>1 DEF InitStarted, Serial, TypeOK
  <2> QED
    BY <1>1, <2>1, FileSteps
<1>3. ASSUME NEW i \in Request, PackDone(i) PROVE isMaster[n]
  <2>1. isMaster[req[i].node]
    BY <1>3 DEF PackDone, Runs, Serial, Calls, Unmixed
  <2>2. UNCHANGED md5 \/ \E x : md5' = [md5 EXCEPT ![req[i].node] = x]
    BY <1>3, Zenon DEF PackDone
  <2>3. md5'[n] = md5[n] \/ n = req[i].node
    BY <2>2 DEF Serial, TypeOK
  <2> QED
    BY <2>1, <2>3 DEF Masters
<1>4. CASE md5'[n] = md5[n]
  BY <1>2, <1>4 DEF Masters
<1> QED
  BY <1>1, <1>2, <1>3, <1>4, FileSteps

LEMMA SyncedPoolStep ==
  ASSUME Steady, Serial, SyncedPool, Next
  PROVE  SyncedPool'
<1> USE DEF Serial
<1>1. ASSUME NEW s \in Node, NEW k \in Node, AcceptPeer(s, k) PROVE SyncedPool'
  BY <1>1 DEF AcceptPeer, SyncedPool, TypeOK
<1>2. ASSUME NEW i \in Request, NEW n \in Operators, NEW v \in Version, NEW loc \in BOOLEAN,
             InitRequest(i, n, v, loc)
      PROVE  SyncedPool'
  BY <1>2 DEF InitRequest, Unflagged, SyncedPool, TypeOK
<1>3. ASSUME NEW i \in Request, InitStarted(i) \/ InitFail(i) \/ Archived(i) \/ Joined(i)
      PROVE  SyncedPool'
  BY <1>3 DEF InitStarted, InitFail, Archived, Joined, netVars, SyncedPool
<1>4. ASSUME NEW i \in Request, PackDone(i) \/ SpreadFail(i) PROVE SyncedPool'
  <2>1. UNCHANGED pool /\ (UNCHANGED synced \/ synced' = Flagged(req[i].node))
    BY <1>4, Zenon DEF PackDone, SpreadFail
  <2> QED
    BY <2>1 DEF Flagged, SyncedPool, TypeOK
<1>5. ASSUME NEW n \in Node, NEW c \in Conn, ReceiveDone(n, c) PROVE SyncedPool'
  <2>1. /\ UNCHANGED pool /\ c \in pool[n]
        /\ synced' = [synced EXCEPT ![n] = synced[n] \cup {c}]
    BY <1>5 DEF ReceiveDone
  <2> QED
    BY <2>1 DEF SyncedPool, TypeOK
<1>6. ASSUME NEW n \in Node, NEW c \in Conn, ReceiveSync(n, c) \/ ReceiveError(n, c)
      PROVE  SyncedPool'
  BY <1>6 DEF ReceiveSync, ReceiveError, SyncedPool
<1>7. ASSUME NEW n \in Node, NEW c \in Conn, ClientConfirm(n, c) PROVE SyncedPool'
  BY <1>7 DEF ClientConfirm, SyncedPool, TypeOK
<1>8. ASSUME NEW n \in Node, NEW c \in Conn, Close(n, c) PROVE SyncedPool'
  BY <1>8 DEF Close, SyncedPool, TypeOK
<1>9. ASSUME NEW n \in Node, NEW x \in DOMAIN jobs[n],
             SyncStarted(n, x) \/ SyncDeleted(n, x) \/ SyncDownloaded(n, x) \/ SyncFail(n, x)
      PROVE  SyncedPool'
  BY <1>9 DEF SyncStarted, SyncDeleted, SyncDownloaded, SyncFail, SyncedPool
<1>10. ASSUME NEW n \in Node, Restart(n) PROVE SyncedPool'
  BY <1>10 DEF Restart, SyncedPool, TypeOK
<1>11. ASSUME NEW n \in Node, ClearTasks(n) PROVE SyncedPool'
  BY <1>11 DEF ClearTasks, netVars, SyncedPool
<1> QED
  BY <1>1, <1>2, <1>3, <1>4, <1>5, <1>6, <1>7, <1>8, <1>9, <1>10, <1>11, SteadySteps

LEMMA UnmarkedStep ==
  ASSUME Steady, Serial, Unmarked, Next
  PROVE  Unmarked'
<1> USE DEF Serial
<1> SUFFICES ASSUME NEW i \in Request, Early(i)' PROVE synced'[req'[i].node] = {}
  BY DEF Unmarked
<1>1. ASSUME NEW n \in Operators, NEW v \in Version, NEW loc \in BOOLEAN, InitRequest(i, n, v, loc)
      PROVE  synced'[req'[i].node] = {}
  <2>1. req'[i].node = n
    BY <1>1, InitRequestStep
  <2>2. n \in Node
    BY GridAssumption
  <2> QED
    BY <1>1, <2>1, <2>2 DEF InitRequest, Unflagged, TypeOK
<1>2. CASE Early(i) /\ ~Joined(i)
  <2>1. Active(i) /\ req[i].node \in Node /\ synced[req[i].node] = {} /\ Hushed
    BY <1>2, ActiveCall DEF Early, Active, Unmarked, Traffic, Still
  <2>2. req'[i].node = req[i].node
    <3>1. \A n \in Operators, v \in Version, loc \in BOOLEAN : ~InitRequest(i, n, v, loc)
      BY <2>1 DEF InitRequest, Active
    <3> QED
      BY <3>1, PhaseSteps
  <2>3. ASSUME NEW k \in Request, NEW n \in Operators, NEW v \in Version, NEW loc \in BOOLEAN
        PROVE  ~InitRequest(k, n, v, loc)
    BY <2>1 DEF InitRequest, Quiet, Active, Steady
  <2>4. ASSUME NEW k \in Request, PackDone(k) PROVE UNCHANGED synced
    <3>1. k = i
      BY <2>1, <2>4 DEF PackDone, Active, Calls, OneCall
    <3>2. UNCHANGED synced \/ req' = [req EXCEPT ![k].phase = "done"]
      BY <2>4, Zenon DEF PackDone
    <3>3. req' # [req EXCEPT ![k].phase = "done"]
      <4>1. req[i] \in Posting
        BY <2>1, ActiveCall DEF Active
      <4>2. req' = [req EXCEPT ![i].phase = "done"] => req'[i].phase = "done"
        BY <4>1 DEF TypeOK, Posting
      <4> QED
        BY <3>1, <4>2 DEF Early
    <3> QED
      BY <3>2, <3>3
  <2>5. \A n \in Node, c \in Conn : ~ReceiveDone(n, c)
    BY <2>1 DEF ReceiveDone, Hushed
  <2>6. ASSUME NEW n \in Node, NEW c \in Conn, Close(n, c) PROVE synced'[req[i].node] = {}
    BY <2>1, <2>6 DEF Close, TypeOK
  <2>7. ASSUME NEW k \in Request, SpreadFail(k) PROVE FALSE
    <3>1. k = i /\ req' = [req EXCEPT ![k].phase = "done"]
      BY <2>1, <2>7 DEF SpreadFail, Active, Calls, OneCall
    <3>2. req'[i].phase = "done"
      BY <2>1, <3>1, ActiveCall DEF Active, TypeOK, Posting
    <3> QED
      BY <3>2 DEF Early
  <2>8. ASSUME NEW n \in Node, Restart(n) PROVE synced'[req[i].node] = {}
    BY <2>1, <2>8 DEF Restart, TypeOK
  <2> QED
    BY <2>1, <2>2, <2>3, <2>4, <2>5, <2>6, <2>7, <2>8, MarkSteps
<1> QED
  BY <1>1, <1>2, EarlySteps

LEMMA OpIdleStep ==
  ASSUME Steady, Serial, OpIdle, TypeOK', Owners, Next
  PROVE  OpIdle'
<1> USE DEF Serial
<1> SUFFICES ASSUME NEW o \in Operators PROVE Idle(o)'
  BY DEF OpIdle
<1>1. o \in Node /\ Idle(o)
  BY GridAssumption DEF OpIdle
<1>2. CASE Hush
  BY <1>1, <1>2, QuietKeeps DEF Hush
<1>3. CASE Greet
  BY <1>1, <1>3, QuietKeeps DEF Greet
<1>4. CASE Tell
  BY <1>1, <1>4, QuietKeeps DEF Tell
<1>5. CASE Listen
  <2>1. PICK n \in Node, c \in Conn : ReceiveSync(n, c)
    BY <1>5 DEF Listen
  <2>2. inbox[n][c] \in Seq(Message) /\ inbox[n][c] # <<>> /\ Head(inbox[n][c]).kind = "sync"
    BY <2>1 DEF ReceiveSync, TypeOK
  <2>3. Carries(inbox[n][c], "sync")
    BY <2>2, InTail, CarriesIn
  <2>4. n # o
    BY <1>1, <2>3 DEF Idle
  <2>5. jobs'[o] = jobs[o] /\ inbox'[o] = inbox[o]
    BY <1>1, <2>1, <2>4 DEF ReceiveSync, TypeOK
  <2> QED
    BY <1>1, <2>5 DEF Idle
<1>6. CASE AskNext
  <2>0. PICK i \in Request : \E d, T : Turn(i, req[i].node, d, T)
    BY <1>6 DEF AskNext
  <2>1. PICK d : Asking(req[i].node, d) /\ Active(i)
    BY <2>0 DEF Turn, LoopAsks
  <2>2. req[i].node = o
    BY <2>1 DEF Active, Owners, Steady
  <2>3. ~Live(d, o, o)
    BY DEF Live, Between
  <2>4. jobs'[o] = jobs[o] /\ \A c \in Conn : In(inbox'[o][c]) \subseteq In(inbox[o][c])
    BY <1>1, <2>1, <2>2, <2>3 DEF Asking
  <2> QED
    BY <1>1, <2>4, CarriesIn DEF Idle
<1> QED
  BY <1>2, <1>3, <1>4, <1>5, <1>6, TrafficSteps DEF Traffic, Steady

\* The call that packs finds its digest, or changes it
LEMMA PackDoneStep ==
  ASSUME Serial, NEW i \in Request, PackDone(i)
  PROVE  LET n == req[i].node
             v == req[i].ver
         IN  /\ req[i].phase = "packing" /\ Active(i) /\ n \in Node /\ v \in Version
             /\ UNCHANGED <<server, client, pool, gone, inbox, jobs, running, link, isMaster>>
             /\ req'[i].node = n /\ \A k \in Request \ {i} : req'[k] = req[k]
             /\ \/ md5[n] = v /\ UNCHANGED md5 /\ synced' = Flagged(n) /\ req'[i].phase = "done"
                \/ md5'[n] = v /\ UNCHANGED synced /\ req'[i].phase = "archiving"
<1> USE DEF Serial
<1>1. req[i].phase = "packing" /\ Active(i)
  BY DEF PackDone, Calls, Unmixed, Active
<1>2. req[i] \in Posting /\ req[i].node \in Node /\ req[i].ver \in Version
  BY <1>1, ActiveCall
<1>3. UNCHANGED <<server, client, pool, gone, inbox, jobs, running, link, isMaster>>
  BY DEF PackDone, taskVars
<1>4. \/ /\ req[i].ver = md5[req[i].node] /\ UNCHANGED md5
         /\ synced' = Flagged(req[i].node)
         /\ req' = [req EXCEPT ![i].phase = "done"]
      \/ /\ md5' = [md5 EXCEPT ![req[i].node] = req[i].ver] /\ UNCHANGED synced
         /\ req' = [req EXCEPT ![i].phase = "archiving", ![i].img = req[i].ver]
  <2>1. Packed(i) = {req[i].ver}
    BY <1>1 DEF Packed
  <2> QED
    BY <2>1, Zenon DEF PackDone
<1>5. CASE /\ req[i].ver = md5[req[i].node] /\ UNCHANGED md5
           /\ synced' = Flagged(req[i].node)
           /\ req' = [req EXCEPT ![i].phase = "done"]
  <2>1. req'[i].phase = "done" /\ req'[i].node = req[i].node
    BY <1>2, <1>5 DEF TypeOK, Posting
  <2>2. \A k \in Request \ {i} : req'[k] = req[k]
    BY <1>5 DEF TypeOK
  <2> QED
    BY <1>1, <1>2, <1>3, <1>5, <2>1, <2>2
<1>6. CASE /\ md5' = [md5 EXCEPT ![req[i].node] = req[i].ver] /\ UNCHANGED synced
           /\ req' = [req EXCEPT ![i].phase = "archiving", ![i].img = req[i].ver]
  <2>1. req'[i].phase = "archiving" /\ req'[i].node = req[i].node
    BY <1>2, <1>6 DEF TypeOK, Posting
  <2>2. \A k \in Request \ {i} : req'[k] = req[k]
    BY <1>6 DEF TypeOK
  <2>3. md5'[req[i].node] = req[i].ver
    BY <1>2, <1>6 DEF TypeOK
  <2> QED
    BY <1>1, <1>2, <1>3, <1>6, <2>1, <2>2, <2>3
<1> QED
  BY <1>4, <1>5, <1>6

LEMMA RunsStep ==
  ASSUME Steady, Serial, Runs, OpIdle, Owners, Next
  PROVE  Runs'
<1> USE DEF Serial
<1>1. ASSUME NEW k \in Request, InitStarted(k) \/ InitFail(k) \/ PackDone(k) \/ Archived(k)
      PROVE  Active(k) /\ req[k].phase \in {"starting", "packing", "archiving"}
             /\ req'[k].phase # req[k].phase
  <2>1. Active(k) /\ req[k].phase \in {"starting", "packing", "archiving"}
    BY <1>1, PackDoneStep DEF InitStarted, InitFail, Archived, Active
  <2>2. req[k] \in Posting
    BY <2>1, ActiveCall DEF Active
  <2>3. ASSUME NEW ph, req' = [req EXCEPT ![k].phase = ph] PROVE req'[k].phase = ph
    BY <2>2, <2>3 DEF TypeOK, Posting
  <2>4. InitFail(k) \/ Archived(k) => req'[k].phase # req[k].phase
    BY <2>3 DEF InitFail, Archived
  <2>5. ASSUME InitStarted(k) PROVE req'[k].phase # req[k].phase
    <3>1. req'[k] = [req[k] EXCEPT !.phase = IF Packing(req[k].node) = {} THEN "packing" ELSE "mixed"]
      BY <2>5 DEF InitStarted, Packing
    <3>2. req'[k].phase \in {"packing", "mixed"}
      BY <2>2, <3>1 DEF Posting
    <3> QED
      BY <2>5, <3>2 DEF InitStarted
  <2>6. PackDone(k) => req'[k].phase # req[k].phase
    BY PackDoneStep
  <2> QED
    BY <1>1, <2>1, <2>4, <2>5, <2>6
<1> SUFFICES ASSUME NEW i \in Request
             PROVE  /\ req'[i].phase \in {"packing", "archiving", "joining", "asking"} =>
                         /\ isMaster'[req'[i].node]
                         /\ running'[req'[i].node] \in {Nothing, Whole(req'[i].ver)}
                    /\ req'[i].phase \in {"archiving", "joining", "asking"} =>
                         md5'[req'[i].node] = req'[i].ver
                    /\ req'[i].phase \in {"joining", "asking"} => link'[req'[i].node] = req'[i].ver
  BY DEF Runs, Holds
<1> DEFINE n == req[i].node
<1>2. Active(i) => n \in Operators /\ n \in Node /\ req[i] \in Posting
  BY ActiveCall DEF Active, Owners
<1>3. ASSUME \A k \in Request : ~(InitStarted(k) \/ InitFail(k) \/ PackDone(k) \/ Archived(k)),
             Active(i), ~Restart(n)
      PROVE  /\ isMaster'[n] = isMaster[n] /\ md5'[n] = md5[n] /\ link'[n] = link[n]
             /\ running'[n] \in {running[n], Nothing}
  BY <1>2, <1>3, FileSteps, OpRuns
<1>4. ASSUME NEW k \in Request, InitStarted(k) \/ InitFail(k) \/ PackDone(k) \/ Archived(k), Active(i)
      PROVE  k = i
  BY <1>1, <1>4 DEF Calls, OneCall
<1>11. ASSUME Active(i), Restart(n) PROVE req'[i].phase = "done"
  <2>1. req[i] \in Posting
    BY <1>2, <1>11
  <2>2. req'[i] = [req[i] EXCEPT !.phase = "done"]
    BY <1>11 DEF Restart
  <2> QED
    BY <2>1, <2>2 DEF Posting
<1>5. CASE req'[i] = req[i]
  <2>1. CASE Active(i)
    <3>1. \A k \in Request : ~(InitStarted(k) \/ InitFail(k) \/ PackDone(k) \/ Archived(k))
      BY <1>1, <1>4, <1>5, <2>1
    <3>2. ~Restart(n)
      BY <1>5, <1>11, <2>1 DEF Active
    <3> QED
      BY <1>3, <1>5, <2>1, <3>1, <3>2 DEF Runs, Holds
  <2> QED
    BY <1>5, <2>1 DEF Active
<1>6. CASE /\ Active(i) /\ req'[i].phase \in {"done", "asking"}
           /\ (req'[i].phase = "asking" => req[i].phase \in {"joining", "asking"})
           /\ req'[i].node = req[i].node /\ req'[i].ver = req[i].ver
  <2>1. CASE req'[i].phase = "asking"
    <3>1. \A k \in Request : ~(InitStarted(k) \/ InitFail(k) \/ PackDone(k) \/ Archived(k))
      BY <1>1, <1>4, <1>6, <2>1
    <3>2. ~Restart(n)
      BY <1>6, <1>11, <2>1
    <3> QED
      BY <1>3, <1>6, <2>1, <3>1, <3>2 DEF Runs, Holds
  <2> QED
    BY <1>6, <2>1
<1>7. CASE /\ req'[i].node = req[i].node /\ req'[i].ver = req[i].ver
           /\ InitStarted(i) /\ req'[i].phase = "packing"
  <2>1. n \in Node
    BY <1>1, <1>2, <1>7
  <2>2. isMaster'[n] = TRUE /\ running'[n] = Whole(req[i].ver)
    BY <1>7, <2>1 DEF InitStarted, TypeOK
  <2> QED
    BY <1>7, <2>2
<1>8. CASE /\ req'[i].node = req[i].node /\ req'[i].ver = req[i].ver
           /\ PackDone(i) /\ req'[i].phase = "archiving"
  <2>1. /\ req[i].phase = "packing" /\ UNCHANGED <<running, isMaster>>
        /\ md5'[n] = req[i].ver
    BY <1>8, PackDoneStep
  <2> QED
    BY <1>8, <2>1 DEF Runs, Holds
<1>9. CASE /\ req'[i].node = req[i].node /\ req'[i].ver = req[i].ver
           /\ Archived(i) /\ req'[i].phase = "joining"
  <2>1. /\ n \in Node /\ md5[n] = req[i].ver /\ req[i].phase = "archiving"
        /\ link' = [link EXCEPT ![n] = req[i].ver]
    BY <1>9, ArchivedStep DEF Archived
  <2>2. link'[n] = req[i].ver /\ UNCHANGED <<md5, isMaster, running>>
    BY <1>9, <2>1 DEF Archived, TypeOK, taskVars
  <2> QED
    BY <1>9, <2>1, <2>2 DEF Runs, Holds
<1>10. CASE \E m \in Operators, v \in Version, loc \in BOOLEAN :
              /\ InitRequest(i, m, v, loc)
              /\ req'[i].phase = "starting" /\ req'[i].node = m /\ req'[i].ver = v
  BY <1>10
<1> HIDE DEF n
<1> QED
  BY <1>5, <1>6, <1>7, <1>8, <1>9, <1>10, PhaseSteps

\* An answer is new only when a handler has ended
LEMMA DoneStep ==
  ASSUME Steady, Serial, Next, NEW n \in Node, NEW c \in Conn, Carries(inbox'[n][c], "done")
  PROVE  \/ Carries(inbox[n][c], "done")
         \/ \E p \in Node : \E x \in DOMAIN jobs[p] : SyncStarted(p, x)
<1> USE DEF Serial
<1>1. ASSUME \A m \in In(inbox'[n][c]) : m \in In(inbox[n][c]) \/ m.kind # "done"
      PROVE  Carries(inbox[n][c], "done")
  BY <1>1, CarriesIn
<1>2. CASE Hush
  BY <1>1, <1>2 DEF Hush, Quieter
<1>3. CASE Greet
  BY <1>1, <1>3 DEF Greet, Quieter
<1>4. CASE Tell
  BY <1>4 DEF Tell
<1>5. CASE Listen
  <2>1. PICK p \in Node, d \in Conn : ReceiveSync(p, d)
    BY <1>5 DEF Listen
  <2>2. inbox[p][d] \in Seq(Message) /\ inbox[p][d] # <<>>
    BY <2>1 DEF ReceiveSync, TypeOK
  <2>3. \/ inbox'[n][c] = inbox[n][c]
        \/ p = n /\ d = c /\ inbox'[n][c] = Tail(inbox[p][d])
    BY <2>1 DEF ReceiveSync, TypeOK
  <2> QED
    BY <1>1, <2>2, <2>3, InTail
<1>6. CASE AskNext
  <2>1. PICK o, d : Asking(o, d)
    BY <1>6 DEF AskNext, Turn, LoopAsks
  <2>2. PICK msg : msg = Sync(link[o])
    OBVIOUS
  <2>3. msg.kind = "sync"
    BY <2>2 DEF Sync
  <2>4. In(inbox'[n][c]) \subseteq In(inbox[n][c]) \cup {msg}
    BY <2>1, <2>2 DEF Asking
  <2> QED
    BY <1>1, <2>3, <2>4
<1> QED
  BY <1>2, <1>3, <1>4, <1>5, <1>6, TrafficSteps DEF Traffic, Steady

\* What starts to be of use
LEMMA UsedStep ==
  ASSUME Steady, Serial, TypeOK', Next, NEW o \in Operators, Used(o)'
  PROVE  Used(o) \/ AskNext \/ \E i \in Request : PackDone(i) \/ SpreadFail(i)
<1> USE DEF Serial
<1>0. o \in Node
  BY GridAssumption
<1>1. ASSUME NEW p \in Node, NEW x \in DOMAIN jobs[p] PROVE ~Idle(p)
  <2>1. jobs[p] # <<>>
    BY <1>1
  <2> QED
    BY <2>1 DEF Idle
<1>2. CASE Answers(o)'
  <2>1. PICK c \in Conn : Carries(inbox'[o][c], "done")
    BY <1>2 DEF Answers
  <2>2. \/ Carries(inbox[o][c], "done")
        \/ \E p \in Node : \E x \in DOMAIN jobs[p] : SyncStarted(p, x)
    BY <1>0, <2>1, DoneStep
  <2> QED
    BY <1>1, <2>2 DEF Used, Answers
<1>3. ASSUME NEW p \in Node, ~Idle(p)' PROVE Used(o) \/ AskNext
  <2>1. CASE Hush
    BY <1>3, <2>1, QuietKeeps DEF Hush, Used
  <2>2. CASE Greet
    BY <1>3, <2>2, QuietKeeps DEF Greet, Used
  <2>3. CASE Tell
    BY <1>3, <2>3, QuietKeeps DEF Tell, Used
  <2>4. CASE Listen
    <3>1. PICK n \in Node, c \in Conn : ReceiveSync(n, c)
      BY <2>4 DEF Listen
    <3>2. inbox[n][c] \in Seq(Message) /\ inbox[n][c] # <<>> /\ Head(inbox[n][c]).kind = "sync"
      BY <3>1 DEF ReceiveSync, TypeOK
    <3>3. Carries(inbox[n][c], "sync")
      BY <3>2, InTail, CarriesIn
    <3> QED
      BY <3>3 DEF Idle, Used
  <2> QED
    BY <2>1, <2>2, <2>3, <2>4, TrafficSteps DEF Traffic, Steady
<1>4. CASE synced'[o] # {}
  <2>1. CASE UNCHANGED synced
    BY <1>4, <2>1 DEF Used
  <2>2. ASSUME NEW i \in Request, NEW n \in Operators, NEW v \in Version, NEW loc \in BOOLEAN,
               InitRequest(i, n, v, loc)
        PROVE  Used(o)
    <3>1. n = o
      BY DEF Steady
    <3>2. synced'[o] = {}
      BY <1>0, <2>2, <3>1 DEF InitRequest, Unflagged, TypeOK
    <3> QED
      BY <1>4, <3>2
  <2>3. ASSUME NEW n \in Node, NEW c \in Conn, ReceiveDone(n, c) PROVE Used(o)
    <3>1. CASE n = o
      <4>0. inbox[n][c] # <<>> /\ Head(inbox[n][c]).kind = "done"
        BY <2>3 DEF ReceiveDone
      <4>1. inbox[n][c] \in Seq(Message)
        BY DEF TypeOK
      <4>2. Carries(inbox[n][c], "done")
        BY <4>0, <4>1, InTail, CarriesIn
      <4> QED
        BY <3>1, <4>2 DEF Used, Answers
    <3>2. CASE n # o
      <4>1. synced'[o] = synced[o]
        BY <1>0, <2>3, <3>2 DEF ReceiveDone, TypeOK
      <4> QED
        BY <1>4, <4>1 DEF Used
    <3> QED
      BY <3>1, <3>2
  <2>4. ASSUME NEW n \in Node, NEW c \in Conn, Close(n, c) PROVE Used(o)
    <3>1. synced'[o] \subseteq synced[o]
      BY <1>0, <2>4 DEF Close, TypeOK
    <3> QED
      BY <1>4, <3>1 DEF Used
  <2>5. ASSUME NEW n \in Node, Restart(n) PROVE Used(o)
    <3>1. synced'[o] \subseteq synced[o]
      BY <1>0, <2>5 DEF Restart, TypeOK
    <3> QED
      BY <1>4, <3>1 DEF Used
  <2> QED
    BY <2>1, <2>2, <2>3, <2>4, <2>5, MarkSteps
<1> QED
  BY <1>2, <1>3, <1>4 DEF Used

\* Nothing is of use while a call has not asked yet
LEMMA EarlyUnused ==
  ASSUME Steady, Traffic, Unmarked, Owners, NEW i \in Request, Early(i), NEW o \in Operators
  PROVE  ~Used(o) /\ req[i].node = o
<1>1. req[i].node = o
  BY DEF Early, Owners, Steady
<1>2. synced[o] = {}
  BY <1>1 DEF Unmarked
<1>3. \A p \in Node : jobs[p] = <<>> /\ \A c \in Conn : inbox[p][c] = <<>>
  BY DEF Traffic, Still, Hushed
<1>4. \A p \in Node, c \in Conn, kind \in Kind : ~Carries(inbox[p][c], kind)
  BY <1>3 DEF Carries
<1>5. o \in Node /\ "sync" \in Kind /\ "done" \in Kind
  BY GridAssumption DEF Kind
<1> QED
  BY <1>1, <1>2, <1>3, <1>4, <1>5 DEF Used, Answers, Idle

\* A loop that asks shares what its node runs, if its tasks have not been deleted
LEMMA AskRuns ==
  ASSUME Steady, Serial, Runs, Owners, OpIdle, Next, AskNext, NEW o \in Operators
  PROVE  /\ md5[o] = link[o] /\ Holds(o, md5[o]) /\ md5[o] \in Version
         /\ md5'[o] = md5[o] /\ running'[o] \in {running[o], Nothing} /\ ~Restart(o)
         /\ \E i \in Request : req[i].node = o /\ \E d, T : Turn(i, o, d, T)
<1> USE DEF Serial
<1>0. PICK i \in Request : \E d, T : Turn(i, req[i].node, d, T)
  BY DEF AskNext
<1>1. PICK d, T :
        /\ LoopAsks(i, req[i].node, d, T)
        /\ Joined(i) \/ (req[i].phase = "asking" /\ {d} \cup T \subseteq req[i].todo)
  BY <1>0 DEF Turn
<1>2. req[i].phase \in {"joining", "asking"} /\ Active(i)
  BY <1>1 DEF Joined, Active
<1>3. req[i].node = o /\ req[i].ver \in Version /\ req[i] \in Posting
  BY <1>2, ActiveCall DEF Owners, Steady
<1>4. md5[o] = req[i].ver /\ link[o] = req[i].ver /\ Holds(o, req[i].ver)
  BY <1>2, <1>3 DEF Runs
<1>5. \A k \in Request : ~(InitStarted(k) \/ InitFail(k) \/ PackDone(k) \/ Archived(k))
  <2> SUFFICES ASSUME NEW k \in Request, InitStarted(k) \/ InitFail(k) \/ PackDone(k) \/ Archived(k)
               PROVE  FALSE
    OBVIOUS
  <2>1. Active(k) /\ req[k].phase \in {"starting", "packing", "archiving"}
    BY PackDoneStep DEF InitStarted, InitFail, Archived, Active
  <2>2. k = i
    BY <1>2, <2>1 DEF Calls, OneCall
  <2> QED
    BY <1>2, <2>1, <2>2
<1>6. ASSUME Restart(o) PROVE FALSE
  <2>1. req'[i] = [req[i] EXCEPT !.phase = "done"]
    BY <1>3, <1>6 DEF Restart
  <2>2. req'[i].phase = "done"
    BY <1>3, <2>1 DEF Posting
  <2> QED
    BY <1>1, <2>2 DEF LoopAsks
<1>7. md5'[o] = md5[o] /\ running'[o] \in {running[o], Nothing}
  <2>1. o \in Node
    BY GridAssumption
  <2> QED
    BY <1>5, <1>6, <2>1, FileSteps, OpRuns
<1> QED
  BY <1>0, <1>3, <1>4, <1>6, <1>7

LEMMA LevelStep ==
  ASSUME Steady, Serial, Level, Runs, Owners, Unmarked, OpIdle,
         Serial', Unmarked', Owners', Next
  PROVE  Level'
<1> USE DEF Serial
<1> SUFFICES ASSUME NEW o \in Operators, o \notin astray', Used(o)'
             PROVE  running'[o] = Nothing \/ (md5'[o] # None /\ running'[o] = Whole(md5'[o]))
  BY DEF Level, Used, Answers, Idle
<1>0. o \in Node
  BY GridAssumption
<1>1. \A i \in Request : ~Early(i)'
  <2> SUFFICES ASSUME NEW i \in Request, Early(i)' PROVE FALSE
    OBVIOUS
  <2>1. req'[i].node = o
    BY DEF Early, Owners, Steady
  <2>2. synced'[o] = {}
    BY <2>1 DEF Unmarked
  <2>3. \A p \in Node : jobs'[p] = <<>> /\ \A c \in Conn : inbox'[p][c] = <<>>
    BY DEF Traffic, Still, Hushed
  <2>4. \A p \in Node, c \in Conn, kind \in Kind : ~Carries(inbox'[p][c], kind)
    BY <2>3 DEF Carries
  <2>5. "sync" \in Kind /\ "done" \in Kind
    BY DEF Kind
  <2> QED
    BY <1>0, <2>2, <2>3, <2>4, <2>5 DEF Used, Answers, Idle
<1>2. ASSUME NEW i \in Request, PackDone(i)
      PROVE  running'[o] = Nothing \/ (md5'[o] # None /\ running'[o] = Whole(md5'[o]))
  <2>1. /\ req[i].phase = "packing" /\ Active(i) /\ req[i].node = o /\ req[i].ver \in Version
        /\ UNCHANGED running
        /\ \/ md5[o] = req[i].ver /\ UNCHANGED md5
           \/ req'[i].phase = "archiving"
    BY <1>2, PackDoneStep DEF Owners, Steady
  <2>2. md5[o] = req[i].ver /\ UNCHANGED md5
    BY <1>1, <2>1 DEF Early
  <2>3. running[o] \in {Nothing, Whole(req[i].ver)}
    BY <2>1 DEF Runs, Holds
  <2> QED
    BY <2>1, <2>2, <2>3, GridAssumption
<1>3. CASE AskNext
  <2>1. /\ running[o] \in {Nothing, Whole(md5[o])} /\ md5[o] \in Version /\ md5'[o] = md5[o]
        /\ running'[o] \in {running[o], Nothing}
    BY <1>3, AskRuns DEF Holds
  <2> QED
    BY <2>1, GridAssumption
<1>4. ASSUME NEW i \in Request, SpreadFail(i) PROVE FALSE
  <2>1. req[i].node = o
    BY <1>4 DEF SpreadFail, Owners, Steady
  <2> QED
    BY <1>4, <2>1 DEF SpreadFail
<1>5. CASE Restart(o)
  <2>1. running'[o] = Nothing
    BY <1>0, <1>5 DEF Restart, TypeOK
  <2> QED
    BY <2>1
<1>6. CASE Used(o) /\ (~\E i \in Request : PackDone(i)) /\ ~Restart(o)
  <2>1. \A i \in Request : ~Early(i)
    BY <1>6, EarlyUnused
  <2>2. \A i \in Request : ~(InitStarted(i) \/ InitFail(i) \/ Archived(i))
    BY <2>1 DEF InitStarted, InitFail, Archived, Early
  <2>3. md5'[o] = md5[o] /\ o \notin astray
    BY <1>0, <1>6, <2>2, FileSteps
  <2>4. running'[o] \in {running[o], Nothing}
    BY <2>2, OpRuns
  <2> QED
    BY <1>6, <2>3, <2>4 DEF Level
<1> QED
  BY <1>2, <1>3, <1>4, <1>5, <1>6, UsedStep

LEMMA AskedLinksStep ==
  ASSUME Steady, Serial, LinksAreMd5, Runs, Owners, OpIdle, Next, Serial'
  PROVE  LinksAreMd5'
<1> USE DEF Serial
<1> SUFFICES ASSUME NEW o \in Operators, NEW p \in Node, md5'[o] # None
             PROVE  /\ \A x \in DOMAIN jobs'[p] : jobs'[p][x].link = md5'[o]
                    /\ \A c \in Conn : \A m \in In(inbox'[p][c]) : m.kind = "sync" => m.link = md5'[o]
  BY DEF LinksAreMd5
<1>0. o \in Node /\ ~Restart(o)
  BY GridAssumption DEF Restart, TypeOK
<1>1. ASSUME NEW i \in Request, PackDone(i)
      PROVE  /\ \A x \in DOMAIN jobs'[p] : jobs'[p][x].link = md5'[o]
             /\ \A c \in Conn : \A m \in In(inbox'[p][c]) : m.kind = "sync" => m.link = md5'[o]
  <2>1. Early(i) /\ UNCHANGED <<inbox, jobs>>
    BY <1>1, PackDoneStep DEF Early
  <2>2. jobs[p] = <<>> /\ \A c \in Conn : inbox[p][c] = <<>>
    BY <2>1 DEF Traffic, Still, Hushed
  <2> QED
    BY <2>1, <2>2 DEF In
<1>2. CASE md5'[o] = md5[o]
  <2>1. ASSUME NEW n \in Node, NEW x \in DOMAIN jobs[n], HandlerStep(n, x)
        PROVE  \A y \in DOMAIN jobs'[p] : jobs'[p][y].link = md5'[o]
    <3>1. PICK j : j = jobs[n][1]
      OBVIOUS
    <3>2. j \in Job /\ j.link = md5[o]
      <4>1. jobs[n] = <<j>> /\ j \in Job
        BY <2>1, <3>1, OneHandler DEF Steady, Traffic
      <4>2. 1 \in DOMAIN <<j>>
        OBVIOUS
      <4>3. jobs[n][1].link = md5[o]
        BY <1>2, <4>1, <4>2 DEF LinksAreMd5
      <4> QED
        BY <3>1, <4>1, <4>3
    <3>3. \/ jobs' = [jobs EXCEPT ![n] = <<>>]
          \/ \E stage : jobs' = [jobs EXCEPT ![n] = <<[j EXCEPT !.stage = stage]>>]
      BY <2>1, <3>1, OneHandler, Zenon DEF HandlerStep, Steady, Traffic
    <3>4. ASSUME NEW s, jobs' = [jobs EXCEPT ![n] = s], \A y \in DOMAIN s : s[y].link = j.link
          PROVE  \A y \in DOMAIN jobs'[p] : jobs'[p][y].link = md5'[o]
      <4>1. jobs'[p] = jobs[p] \/ jobs'[p] = s
        BY <3>4 DEF TypeOK
      <4> QED
        BY <1>2, <3>2, <3>4, <4>1 DEF LinksAreMd5
    <3>5. ASSUME NEW stage
          PROVE  \A y \in DOMAIN <<[j EXCEPT !.stage = stage]>> :
                   <<[j EXCEPT !.stage = stage]>>[y].link = j.link
      BY <3>2 DEF Job
    <3>6. \A y \in DOMAIN <<>> : <<>>[y].link = j.link
      OBVIOUS
    <3>7. CASE jobs' = [jobs EXCEPT ![n] = <<>>]
      BY <3>4, <3>6, <3>7
    <3>8. ASSUME NEW stage, jobs' = [jobs EXCEPT ![n] = <<[j EXCEPT !.stage = stage]>>]
          PROVE  \A y \in DOMAIN jobs'[p] : jobs'[p][y].link = md5'[o]
      <4>1. PICK s : s = <<[j EXCEPT !.stage = stage]>>
        OBVIOUS
      <4>2. \A y \in DOMAIN s : s[y].link = j.link
        BY <3>5, <4>1
      <4> QED
        BY <3>4, <3>8, <4>1, <4>2
    <3> QED
      BY <3>3, <3>7, <3>8
  <2>2. ASSUME NEW n \in Node, NEW c \in Conn, ReceiveSync(n, c)
        PROVE  \A y \in DOMAIN jobs'[p] : jobs'[p][y].link = md5'[o]
    <3>1. inbox[n][c] \in Seq(Message) /\ inbox[n][c] # <<>> /\ Head(inbox[n][c]).kind = "sync"
      BY <2>2 DEF ReceiveSync, TypeOK
    <3>2. PICK m : m = Head(inbox[n][c])
      OBVIOUS
    <3>3. m.link = md5[o]
      BY <1>2, <3>1, <3>2, InTail DEF LinksAreMd5
    <3>4. PICK j : j = [conn |-> c, stage |-> "deleting", link |-> m.link]
      OBVIOUS
    <3>5. jobs[n] = <<>>
      <4>1. Carries(inbox[n][c], "sync")
        BY <3>1, <3>2, InTail, CarriesIn
      <4> QED
        BY <4>1 DEF Traffic, OneAsk
    <3>6. jobs'[p] = jobs[p] \/ jobs'[p] = <<j>>
      <4>1. Append(<<>>, j) = <<j>>
        OBVIOUS
      <4> QED
        BY <2>2, <3>2, <3>4, <3>5, <4>1 DEF ReceiveSync, TypeOK
    <3>7. j.link = md5[o]
      BY <3>3, <3>4
    <3> QED
      BY <1>2, <3>6, <3>7 DEF LinksAreMd5
  <2>3. ASSUME UNCHANGED jobs PROVE \A y \in DOMAIN jobs'[p] : jobs'[p][y].link = md5'[o]
    BY <1>2, <2>3 DEF LinksAreMd5
  <2>4. \A i \in Request : InitStarted(i) \/ InitFail(i) => UNCHANGED jobs
    BY DEF InitStarted, InitFail
  <2>5. ASSUME NEW n \in Node, Restart(n) \/ ClearTasks(n)
        PROVE  \A y \in DOMAIN jobs'[p] : jobs'[p][y].link = md5'[o]
    <3>1. jobs'[p] \in {jobs[p], <<>>}
      BY <2>5 DEF Restart, ClearTasks, TypeOK
    <3> QED
      BY <1>2, <3>1 DEF LinksAreMd5
  <2>6. \A y \in DOMAIN jobs'[p] : jobs'[p][y].link = md5'[o]
    BY <2>1, <2>2, <2>3, <2>4, <2>5, WorkSteps
  <2>7. ASSUME NEW c \in Conn, NEW m \in In(inbox'[p][c]), m.kind = "sync" PROVE m.link = md5'[o]
    <3>1. CASE m \in In(inbox[p][c])
      BY <1>2, <2>7, <3>1 DEF LinksAreMd5
    <3>2. CASE AskNext
      <4>0. PICK i \in Request : \E d, T : Turn(i, o, d, T)
        BY <3>2, AskRuns
      <4>1. PICK d, T : LoopAsks(i, o, d, T)
        BY <4>0 DEF Turn
      <4>2. PICK msg : msg = Sync(link[o])
        OBVIOUS
      <4>3. m \in In(inbox[p][c]) \cup {msg}
        BY <2>7, <4>1, <4>2 DEF LoopAsks, Asking
      <4>4. msg.link = md5[o]
        BY <3>2, <4>2, AskRuns DEF Sync
      <4> QED
        BY <1>2, <3>1, <4>3, <4>4
    <3>3. CASE Hush
      BY <2>7, <3>1, <3>3 DEF Hush, Quieter
    <3>4. CASE Greet
      BY <2>7, <3>1, <3>4 DEF Greet, Quieter
    <3>5. CASE Tell
      BY <2>7, <3>1, <3>5 DEF Tell, Quieter
    <3>6. CASE Listen
      <4>1. PICK n \in Node, d \in Conn : ReceiveSync(n, d)
        BY <3>6 DEF Listen
      <4>2. inbox[n][d] \in Seq(Message) /\ inbox[n][d] # <<>>
        BY <4>1 DEF ReceiveSync, TypeOK
      <4>3. \/ inbox'[p][c] = inbox[p][c]
            \/ n = p /\ d = c /\ inbox'[p][c] = Tail(inbox[n][d])
        BY <4>1 DEF ReceiveSync, TypeOK
      <4> QED
        BY <2>7, <3>1, <4>2, <4>3, InTail
    <3> QED
      BY <3>2, <3>3, <3>4, <3>5, <3>6, TrafficSteps DEF Traffic, Steady
  <2> QED
    BY <2>6, <2>7
<1> QED
  BY <1>0, <1>1, <1>2, FileSteps

\* An answer that is missing arrives, or goes on missing
LEMMA UnheardStep ==
  ASSUME Steady, Serial, Owners, Next, NEW o \in Operators, NEW e \in pool[o], Unheard(e)
  PROVE  Unheard(e)' \/ ReceiveDone(o, e) \/ Restart(o) \/ o \in astray'
<1> USE DEF Serial
<1>1. PICK i \in Request : \/ req[i].phase \in {"archiving", "joining"}
                           \/ req[i].phase = "asking" /\ e \in req[i].todo \cup {req[i].wait}
  BY DEF Unheard
<1>2. Active(i) /\ req[i].node = o
  BY <1>1 DEF Active, Owners, Steady
<1>3. req'[i] = req[i] => Unheard(e)'
  BY <1>1 DEF Unheard
<1>4. \A k \in Request, n \in Operators, v \in Version, loc \in BOOLEAN : ~InitRequest(k, n, v, loc)
  BY <1>2 DEF InitRequest, Quiet, Active, Steady
<1>5. ASSUME NEW k \in Request, InitStarted(k) \/ InitFail(k) \/ PackDone(k) PROVE FALSE
  <2>1. Active(k) /\ req[k].phase \in {"starting", "packing"}
    BY <1>5, PackDoneStep DEF InitStarted, InitFail, Active
  <2>2. k = i
    BY <1>2, <2>1 DEF Calls, OneCall
  <2> QED
    BY <1>1, <2>1, <2>2
<1>6. ASSUME NEW k \in Request, Archived(k) PROVE Unheard(e)'
  <2>1. req[k] \in Posting /\ req' = [req EXCEPT ![k].phase = "joining"]
    BY <1>6, ActiveCall DEF Archived
  <2>2. req'[k].phase = "joining"
    BY <2>1 DEF TypeOK, Posting
  <2> QED
    BY <2>2 DEF Unheard
<1>7. ASSUME NEW k \in Request, Joined(k) PROVE Unheard(e)'
  <2>1. k = i
    BY <1>2, <1>7 DEF Joined, Active, Calls, OneCall
  <2>2. PICK d : LoopAsks(i, o, d, pool[o] \ {d})
    BY <1>2, <1>7, <2>1, JoinedAsks
  <2>3. e \in req'[i].todo \cup {req'[i].wait} /\ req'[i].phase = "asking"
    BY <2>2 DEF LoopAsks
  <2> QED
    BY <2>3 DEF Unheard
<1>8. ASSUME NEW n \in Node, NEW c \in Conn, ReceiveDone(n, c)
      PROVE  Unheard(e)' \/ ReceiveDone(o, e)
  <2>1. CASE req'[i] = req[i]
    BY <1>3, <2>1
  <2>2. CASE i \in Waiting(n, c)
    <3>1. req[i].phase = "asking" /\ n = o /\ c = req[i].wait
      BY <1>2, <2>2 DEF Waiting, Loops
    <3>2. CASE e = c
      BY <1>8, <3>1, <3>2
    <3>3. CASE e \in req[i].todo
      <4>1. \A k \in Waiting(n, c) : k = i
        BY <1>2 DEF Waiting, Loops, Calls, OneCall, Active
      <4>2. \/ req' = req
            \/ LET d == Following(i) IN LoopAsks(i, n, d, req[i].todo \ {d})
        BY <1>8, <3>3, <4>1, DoneAsks DEF Calls
      <4>3. ASSUME NEW d, LoopAsks(i, n, d, req[i].todo \ {d}) PROVE Unheard(e)'
        <5>1. e \in req'[i].todo \cup {req'[i].wait} /\ req'[i].phase = "asking"
          BY <3>3, <4>3 DEF LoopAsks
        <5> QED
          BY <5>1 DEF Unheard
      <4> QED
        BY <1>3, <4>2, <4>3
    <3> QED
      BY <1>1, <3>1, <3>2, <3>3
  <2>3. CASE i \notin Waiting(n, c)
    BY <1>3, <1>8, <2>3 DEF ReceiveDone
  <2> QED
    BY <2>2, <2>3
<1>9. ASSUME UNCHANGED req PROVE Unheard(e)'
  BY <1>3, <1>9
<1>10. \A s, k \in Node : AcceptPeer(s, k) => UNCHANGED req
  BY DEF AcceptPeer
<1>11. \A n \in Node, c \in Conn :
        ReceiveSync(n, c) \/ ReceiveError(n, c) \/ ClientConfirm(n, c) \/ Close(n, c) => UNCHANGED req
  BY DEF ReceiveSync, ReceiveError, ClientConfirm, Close
<1>12. \A n \in Node : \A x \in DOMAIN jobs[n] :
        SyncStarted(n, x) \/ SyncDeleted(n, x) \/ SyncDownloaded(n, x) \/ SyncFail(n, x)
          => UNCHANGED req
  BY DEF SyncStarted, SyncDeleted, SyncDownloaded, SyncFail
<1>13. ASSUME NEW k \in Request, SpreadFail(k) PROVE o \in astray'
  <2>1. Active(k)
    BY <1>13 DEF SpreadFail, Active
  <2>2. k = i
    BY <1>2, <2>1 DEF Calls, OneCall
  <2> QED
    BY <1>2, <1>13, <2>2 DEF SpreadFail
<1>14. ASSUME NEW n \in Node, Restart(n), n # o PROVE Unheard(e)'
  <2>1. req'[i] = req[i]
    BY <1>2, <1>14 DEF Restart
  <2> QED
    BY <1>3, <2>1
<1>15. \A n \in Node : ClearTasks(n) => UNCHANGED req
  BY DEF ClearTasks
<1> HIDE DEF Serial
<1> QED
  BY <1>4, <1>5, <1>6, <1>7, <1>8, <1>9, <1>10, <1>11, <1>12, <1>13, <1>14, <1>15, SteadySteps

\* No router is new to a master that remembers a digest
LEMMA PoolStep ==
  ASSUME Steady, Serial, Masters, Next, NEW o \in Operators, md5'[o] # None
  PROVE  pool'[o] \subseteq pool[o]
<1> USE DEF Serial
<1>0. o \in Node
  BY GridAssumption
<1>1. ASSUME ~Busy PROVE FALSE
  <2>1. \A i \in Request : ~PackDone(i)
    BY <1>1, PackDoneStep DEF Busy
  <2>2. ~Restart(o)
    BY <1>0 DEF Restart, TypeOK
  <2>3. md5[o] # None
    BY <1>0, <2>1, <2>2, FileSteps
  <2> QED
    BY <1>0, <1>1, <2>3 DEF Masters, Busy
<1>2. \A s, k \in Node : ~AcceptPeer(s, k)
  BY <1>1, AcceptQuiet DEF Traffic, Steady
<1>3. \A n \in Node, c \in Conn : ~ClientConfirm(n, c)
  BY <1>1, ConfirmQuiet DEF Traffic
<1>4. \A i \in Request, n \in Operators, v \in Version, loc \in BOOLEAN :
        InitRequest(i, n, v, loc) => UNCHANGED pool
  BY DEF InitRequest
<1>5. \A i \in Request : InitStarted(i) \/ InitFail(i) \/ Archived(i) \/ Joined(i) \/ PackDone(i)
                            \/ SpreadFail(i) => UNCHANGED pool
  BY DEF InitStarted, InitFail, Archived, Joined, PackDone, SpreadFail, netVars
<1>6. \A n \in Node, c \in Conn : ReceiveDone(n, c) \/ ReceiveSync(n, c) \/ ReceiveError(n, c)
        => UNCHANGED pool
  BY DEF ReceiveDone, ReceiveSync, ReceiveError
<1>7. \A n \in Node, c \in Conn : Close(n, c) => pool'[o] \subseteq pool[o]
  BY <1>0 DEF Close, TypeOK
<1>8. \A n \in Node : \A x \in DOMAIN jobs[n] :
        SyncStarted(n, x) \/ SyncDeleted(n, x) \/ SyncDownloaded(n, x) \/ SyncFail(n, x)
          => UNCHANGED pool
  BY DEF SyncStarted, SyncDeleted, SyncDownloaded, SyncFail
<1>9. UNCHANGED pool => pool'[o] \subseteq pool[o]
  OBVIOUS
<1>10. \A n \in Node : Restart(n) => pool'[o] \subseteq pool[o]
  BY <1>0 DEF Restart, TypeOK
<1>11. \A n \in Node : ClearTasks(n) => UNCHANGED pool
  BY DEF ClearTasks, netVars
<1> QED
  BY <1>2, <1>3, <1>4, <1>5, <1>6, <1>7, <1>8, <1>9, <1>10, <1>11, SteadySteps

\* Nobody has told anything when a call comes to ask
LEMMA FreshTold ==
  ASSUME Steady, Serial, Serial', Owners, Owners', Unmarked, Unmarked', Next,
         NEW o \in Operators, NEW i \in Request, Joined(i) \/ req'[i].phase \in {"archiving", "joining"}
  PROVE  Told(o)' = {}
<1> USE DEF Serial
<1>0. o \in Node /\ "done" \in Kind
  BY GridAssumption DEF Kind
<1>1. CASE req'[i].phase \in {"archiving", "joining"}
  <2>1. req'[i].node = o
    BY <1>1 DEF Owners, Steady
  <2>2. synced'[o] = {}
    BY <1>1, <2>1 DEF Unmarked, Early
  <2>3. \A c \in Conn : inbox'[o][c] = <<>>
    BY <1>0, <1>1 DEF Traffic, Still, Hushed, Early
  <2>4. \A c \in Conn : ~Carries(inbox'[o][c], "done")
    BY <2>3 DEF Carries
  <2>5. \A c \in Conn : Unheard(c)'
    BY <1>1 DEF Unheard
  <2>6. pool'[o] \subseteq Conn
    BY <1>0 DEF TypeOK
  <2> QED
    BY <2>2, <2>4, <2>5, <2>6 DEF Told
<1>2. CASE Joined(i)
  <2>1. Early(i) /\ req[i].node = o
    BY <1>2 DEF Joined, Early, Owners, Steady
  <2>2. synced'[o] = {} /\ pool'[o] = pool[o]
    BY <1>2, <2>1 DEF Joined, Unmarked
  <2>3. \A p \in Node : jobs[p] = <<>> /\ \A c \in Conn : inbox[p][c] = <<>>
    BY <2>1 DEF Traffic, Still, Hushed
  <2>4. \A c \in Conn : ~Carries(inbox'[o][c], "done")
    <3>1. \A c \in Conn : ~Carries(inbox[o][c], "done")
      BY <1>0, <2>3 DEF Carries
    <3>2. \A p \in Node : DOMAIN jobs[p] = {}
      BY <2>3
    <3> QED
      BY <1>0, <3>1, <3>2, DoneStep
  <2>5. \A c \in pool[o] : Unheard(c)'
    <3>1. \/ pool[o] = {}
          \/ \E d : LoopAsks(i, o, d, pool[o] \ {d})
      BY <1>2, <2>1, JoinedAsks
    <3>2. ASSUME NEW d, LoopAsks(i, o, d, pool[o] \ {d}), NEW c \in pool[o] PROVE Unheard(c)'
      <4>1. c \in req'[i].todo \cup {req'[i].wait} /\ req'[i].phase = "asking"
        BY <3>2 DEF LoopAsks
      <4> QED
        BY <4>1 DEF Unheard
    <3> QED
      BY <3>1, <3>2
  <2>6. pool'[o] \subseteq Conn
    BY <1>0 DEF TypeOK
  <2> QED
    BY <2>2, <2>4, <2>5, <2>6 DEF Told
<1> QED
  BY <1>1, <1>2

\* Whoever has told after a step had told before, or does it in this step
LEMMA ToldStep ==
  ASSUME Steady, Serial, Serial', Owners, Owners', Unmarked, Unmarked', Masters, Next,
         NEW o \in Operators, o \notin astray', md5'[o] # None, NEW e \in Told(o)'
  PROVE  /\ md5'[o] = md5[o] /\ e \in pool[o] /\ o \notin astray
         /\ \/ e \in Told(o)
            \/ \E x \in DOMAIN jobs[Peer(o, e)] : Peer(o, e) \in Node /\ SyncStarted(Peer(o, e), x)
<1> USE DEF Serial
<1>0. o \in Node
  BY GridAssumption
<1>1. e \in pool[o] /\ e \in Conn
  <2>1. e \in pool'[o]
    BY DEF Told
  <2> QED
    BY <1>0, <2>1, PoolStep DEF TypeOK
<1>2. \A i \in Request : ~Joined(i) /\ req'[i].phase \notin {"archiving", "joining"}
  BY FreshTold
<1>3. \A i \in Request : PackDone(i) => /\ UNCHANGED md5 /\ synced' = Flagged(o)
                                        /\ \A k \in Request : ~(Active(k) /\ k # i)
                                        /\ req[i].phase = "packing"
  <2> SUFFICES ASSUME NEW i \in Request, PackDone(i)
               PROVE  /\ UNCHANGED md5 /\ synced' = Flagged(o)
                      /\ \A k \in Request : ~(Active(k) /\ k # i)
                      /\ req[i].phase = "packing"
    OBVIOUS
  <2>1. req[i].phase = "packing" /\ Active(i) /\ req[i].node = o
    BY PackDoneStep DEF Owners, Steady
  <2>2. UNCHANGED md5 /\ synced' = Flagged(o)
    BY <1>2, <2>1, PackDoneStep
  <2> QED
    BY <2>1, <2>2 DEF Calls, OneCall
<1>4. md5'[o] = md5[o] /\ o \notin astray /\ ~Restart(o)
  <2>1. ~Restart(o)
    BY <1>0 DEF Restart, TypeOK
  <2>2. ASSUME NEW i \in Request, Archived(i) PROVE FALSE
    <3>1. req[i] \in Posting /\ req' = [req EXCEPT ![i].phase = "joining"]
      BY <2>2, ActiveCall DEF Archived
    <3>2. req'[i].phase = "joining"
      BY <3>1 DEF TypeOK, Posting
    <3> QED
      BY <1>2, <3>2
  <2> QED
    BY <1>0, <1>3, <2>1, <2>2, FileSteps
<1>5. CASE ~Unheard(e)'
  <2>1. ~Unheard(e) => e \in Told(o)
    BY <1>1 DEF Told
  <2>2. ASSUME ReceiveDone(o, e) PROVE e \in Told(o)
    <3>1. inbox[o][e] # <<>> /\ Head(inbox[o][e]).kind = "done"
      BY <2>2 DEF ReceiveDone
    <3>2. inbox[o][e] \in Seq(Message)
      BY <1>0, <1>1 DEF TypeOK
    <3>3. Carries(inbox[o][e], "done")
      BY <3>1, <3>2, InTail, CarriesIn
    <3> QED
      BY <1>1, <3>3 DEF Told
  <2> QED
    BY <1>1, <1>4, <1>5, <2>1, <2>2, UnheardStep
<1>6. CASE e \in synced'[o]
  <2>1. UNCHANGED synced => e \in Told(o)
    BY <1>1, <1>6 DEF Told
  <2>2. ASSUME NEW i \in Request, NEW n \in Operators, NEW v \in Version, NEW loc \in BOOLEAN,
               InitRequest(i, n, v, loc)
        PROVE  FALSE
    <3>1. n = o
      BY DEF Steady
    <3>2. synced'[o] = {}
      BY <1>0, <2>2, <3>1 DEF InitRequest, Unflagged, TypeOK
    <3> QED
      BY <1>6, <3>2
  <2>3. ASSUME NEW i \in Request, PackDone(i) PROVE e \in Told(o)
    <3>1. ~Unheard(e)
      BY <1>3, <2>3 DEF Unheard, Active
    <3> QED
      BY <1>1, <3>1 DEF Told
  <2>4. ASSUME NEW n \in Node, NEW c \in Conn, ReceiveDone(n, c) PROVE e \in Told(o)
    <3>1. e \in synced[o] \/ (n = o /\ c = e)
      <4>1. synced' = [synced EXCEPT ![n] = synced[n] \cup {c}]
        BY <2>4 DEF ReceiveDone
      <4> QED
        BY <1>0, <1>6, <4>1 DEF TypeOK
    <3>2. CASE e \in synced[o]
      BY <1>1, <3>2 DEF Told
    <3>3. CASE n = o /\ c = e
      <4>1. inbox[o][e] # <<>> /\ Head(inbox[o][e]).kind = "done"
        BY <2>4, <3>3 DEF ReceiveDone
      <4>2. inbox[o][e] \in Seq(Message)
        BY <1>0, <1>1 DEF TypeOK
      <4>3. Carries(inbox[o][e], "done")
        BY <4>1, <4>2, InTail, CarriesIn
      <4> QED
        BY <1>1, <4>3 DEF Told
    <3> QED
      BY <3>1, <3>2, <3>3
  <2>5. ASSUME NEW n \in Node, NEW c \in Conn, Close(n, c) PROVE e \in Told(o)
    <3>1. e \in synced[o]
      BY <1>0, <1>6, <2>5 DEF Close, TypeOK
    <3> QED
      BY <1>1, <3>1 DEF Told
  <2>6. ASSUME NEW i \in Request, SpreadFail(i) PROVE FALSE
    <3>1. req[i].node = o
      BY <2>6 DEF SpreadFail, Owners, Steady
    <3> QED
      BY <2>6, <3>1 DEF SpreadFail
  <2>7. ASSUME NEW n \in Node, Restart(n) PROVE e \in Told(o)
    <3>1. e \in synced[o]
      BY <1>0, <1>6, <2>7 DEF Restart, TypeOK
    <3> QED
      BY <1>1, <3>1 DEF Told
  <2> QED
    BY <1>1, <1>4, <2>1, <2>2, <2>3, <2>4, <2>5, <2>6, <2>7, MarkSteps
<1>7. CASE Carries(inbox'[o][e], "done")
  <2>1. Carries(inbox[o][e], "done") => e \in Told(o)
    BY <1>1 DEF Told
  <2>2. ASSUME NEW p \in Node, NEW x \in DOMAIN jobs[p], SyncStarted(p, x),
               ~Carries(inbox[o][e], "done")
        PROVE  Peer(o, e) = p
    <3>1. PICK out : inbox' = Sent(inbox, p, out)
      BY <2>2 DEF SyncStarted
    <3>2. inbox'[o][e] # inbox[o][e]
      BY <1>7, <2>2
    <3>3. o # p /\ o = Peer(p, e) /\ e \in EndOf(p)
      BY <1>0, <1>1, <3>1, <3>2 DEF Sent
    <3>4. PICK q \in Node : Between(e, p, q)
      BY <3>3, Ends
    <3>5. q = o
      BY <1>1, <3>3, <3>4, BetweenEnds
    <3> QED
      BY <1>0, <1>1, <3>4, <3>5, BetweenEnds
  <2> QED
    BY <1>0, <1>1, <1>4, <1>7, <2>1, <2>2, DoneStep
<1> QED
  BY <1>5, <1>6, <1>7 DEF Told

\* Where the other end of a router that has told is
LEMMA ToldPeer ==
  ASSUME Steady, Serial, Serial', Next, NEW o \in Operators, NEW e \in pool[o]
  PROVE  /\ o \in Node /\ e \in Conn
         /\ \E p \in Node : /\ p # o /\ Peer(o, e) = p /\ Peer(o, e)' = p
                            /\ Between(e, o, p) /\ Between(e, o, p)'
<1> USE DEF Serial
<1>1. o \in Node /\ e \in EndOf(o)
  BY GridAssumption DEF Wired, Known
<1>2. PICK p \in Node : e \in Conn /\ Between(e, o, p)
  BY <1>1, Ends
<1>3. Between(e, o, p)'
  BY <1>1, <1>2, BetweenStep
<1>4. p # o /\ Peer(o, e) = p
  BY <1>1, <1>2, BetweenEnds DEF Between
<1>5. Peer(o, e)' = p
  BY <1>1, <1>2, <1>3 DEF Between, Peer
<1> QED
  BY <1>1, <1>2, <1>3, <1>4, <1>5

\* A node that is idle and takes no calls runs on what it runs, or is cleared
LEMMA IdleRuns ==
  ASSUME Steady, Serial, Owners, Next, NEW p \in Node, Idle(p), p \notin Operators
  PROVE  running'[p] \in {running[p], Nothing}
<1> USE DEF Serial
<1>1. ASSUME NEW n \in Node, NEW x \in DOMAIN jobs[n], HandlerStep(n, x)
      PROVE  running'[p] = running[p]
  <2>1. n # p
    <3>1. jobs[p] = <<>>
      BY DEF Idle
    <3> QED
      BY <3>1
  <2>2. UNCHANGED running \/ \E g : running' = [running EXCEPT ![n] = g]
    BY <1>1, OneHandler, Zenon DEF HandlerStep, Steady, Traffic
  <2> QED
    BY <2>1, <2>2 DEF TypeOK
<1>2. ASSUME NEW n \in Node, NEW c \in Conn, ReceiveSync(n, c) PROVE running'[p] = running[p]
  BY <1>2 DEF ReceiveSync, taskVars
<1>3. ASSUME NEW n \in Node, Restart(n) \/ ClearTasks(n)
      PROVE  running'[p] \in {running[p], Nothing}
  BY <1>3 DEF Restart, ClearTasks, TypeOK
<1>4. ASSUME NEW i \in Request, InitStarted(i) \/ InitFail(i) PROVE running'[p] = running[p]
  <2>1. Active(i) /\ req[i].node \in Operators
    BY <1>4 DEF InitStarted, InitFail, Active, Owners
  <2>2. UNCHANGED running \/ \E g : running' = [running EXCEPT ![req[i].node] = g]
    BY <1>4, Zenon DEF InitStarted, InitFail
  <2> QED
    BY <2>1, <2>2 DEF TypeOK
<1> QED
  BY <1>1, <1>2, <1>3, <1>4, WorkSteps

\* Whoever has told is not asked again.
LEMMA ToldIdle ==
  ASSUME Steady, Serial, Serial', Owners, Owners', Unmarked, Unmarked', Runs, OpIdle,
         ToldCurrent, NotTold, Next,
         NEW o \in Operators, o \notin astray, md5[o] # None, NEW e \in Told(o), e \in Told(o)',
         e \notin gone[Peer(o, e)]
  PROVE  Idle(Peer(o, e)) /\ Idle(Peer(o, e))'
<1> USE DEF Serial
<1>1. e \in pool[o]
  BY DEF Told
<1>2. PICK p \in Node : p # o /\ Peer(o, e) = p /\ Peer(o, e)' = p /\ Between(e, o, p)
  BY <1>1, ToldPeer
<1>3. Idle(p)
  BY <1>2 DEF ToldCurrent, Current
<1>4. SUFFICES Idle(p)'
  BY <1>2, <1>3 DEF Idle
<1>5. CASE Hush
  BY <1>3, <1>5, QuietKeeps DEF Hush
<1>6. CASE Greet
  BY <1>3, <1>6, QuietKeeps DEF Greet
<1>7. CASE Tell
  BY <1>3, <1>7, QuietKeeps DEF Tell
<1>8. CASE Listen
  <2>1. PICK m \in Node, c \in Conn : ReceiveSync(m, c)
    BY <1>8 DEF Listen
  <2>2. inbox[m][c] \in Seq(Message) /\ inbox[m][c] # <<>> /\ Head(inbox[m][c]).kind = "sync"
    BY <2>1 DEF ReceiveSync, TypeOK
  <2>3. Carries(inbox[m][c], "sync")
    BY <2>2, InTail, CarriesIn
  <2>4. p # m
    BY <1>3, <2>3 DEF Idle
  <2>5. jobs'[p] = jobs[p] /\ inbox'[p] = inbox[p]
    BY <2>1, <2>4 DEF ReceiveSync, TypeOK
  <2> QED
    BY <1>3, <2>5 DEF Idle
<1>9. CASE AskNext
  <2>0. PICK i \in Request : req[i].node = o /\ \E d, T : Turn(i, o, d, T)
    BY <1>9, AskRuns
  <2>1. PICK d, T :
          /\ LoopAsks(i, o, d, T) /\ req[i].node = o
          /\ Joined(i) \/ (req[i].phase = "asking" /\ {d} \cup T \subseteq req[i].todo)
    BY <2>0 DEF Turn
  <2>2. req[i].phase = "asking" /\ d \in req[i].todo
    BY <2>1, FreshTold
  <2>3. ~Live(d, o, p)
    BY <1>2, <2>1, <2>2 DEF NotTold
  <2>4. jobs'[p] = jobs[p] /\ \A c \in Conn : In(inbox'[p][c]) \subseteq In(inbox[p][c])
    BY <2>1, <2>3 DEF LoopAsks, Asking
  <2> QED
    BY <1>3, <2>4, CarriesIn DEF Idle
<1> QED
  BY <1>5, <1>6, <1>7, <1>8, <1>9, TrafficSteps DEF Traffic, Steady

\* The handler that ends leaves its node idle, with what it was asked for.
LEMMA StartedCurrent ==
  ASSUME Steady, Serial, Serial', LinksAreMd5, Next, NEW o \in Operators, md5[o] # None,
         NEW p \in Node, NEW x \in DOMAIN jobs[p], SyncStarted(p, x)
  PROVE  Idle(p)' /\ running'[p] = Whole(md5[o])
<1> USE DEF Serial
<1>1. PICK j : j = jobs[p][1]
  OBVIOUS
<1>2. /\ jobs[p] = <<j>> /\ running' = [running EXCEPT ![p] = Whole(j.link)]
      /\ jobs' = [jobs EXCEPT ![p] = <<>>]
  BY <1>1, OneHandler DEF Steady, Traffic
<1>3. j.link = md5[o]
  <2>1. 1 \in DOMAIN <<j>>
    OBVIOUS
  <2> QED
    BY <1>1, <1>2, <2>1 DEF LinksAreMd5
<1>4. running'[p] = Whole(md5[o]) /\ jobs'[p] = <<>>
  BY <1>2, <1>3 DEF TypeOK
<1>5. ASSUME NEW c \in Conn PROVE ~Carries(inbox'[p][c], "sync")
  <2>1. jobs[p] # <<>>
    BY <1>2
  <2>2. ~Carries(inbox[p][c], "sync")
    BY <2>1 DEF Traffic, OneAsk
  <2>3. Quieter({"done"})
    BY HandlerQuiet
  <2>4. \A m \in In(inbox'[p][c]) : m \in In(inbox[p][c]) \/ m.kind # "sync"
    BY <2>3 DEF Quieter
  <2> QED
    BY <2>2, <2>4, CarriesIn
<1> QED
  BY <1>4, <1>5 DEF Idle

LEMMA ToldCurrentStep ==
  ASSUME Steady, Serial, Serial', Owners, Owners', Unmarked, Unmarked', Masters, Runs, OpIdle,
         LinksAreMd5, ToldCurrent, NotTold, Next
  PROVE  ToldCurrent'
<1> SUFFICES ASSUME NEW o \in Operators, o \notin astray', md5'[o] # None, NEW e \in Told(o)',
                    NEW p \in Node, p = Peer(o, e)', e \notin gone'[p]
             PROVE  Idle(p)' /\ running'[p] \in {Nothing, Whole(md5'[o])}
  <2>1. ASSUME NEW o \in Operators, o \notin astray', md5'[o] # None, NEW e \in Told(o)'
        PROVE  Peer(o, e)' \in Node
    <3>1. e \in pool[o]
      BY <2>1, ToldStep
    <3> QED
      BY <3>1, ToldPeer
  <2> QED
    BY <2>1 DEF ToldCurrent, Current, Idle, Holds
<1>1. /\ md5'[o] = md5[o] /\ e \in pool[o] /\ o \notin astray
      /\ \/ e \in Told(o)
         \/ \E x \in DOMAIN jobs[Peer(o, e)] : Peer(o, e) \in Node /\ SyncStarted(Peer(o, e), x)
  BY ToldStep
<1>2. p # o /\ Peer(o, e) = p
  BY <1>1, ToldPeer
<1>3. CASE e \in Told(o)
  <2>0. e \notin gone[p]
    BY GoneGrows DEF Serial
  <2>1. Idle(p) /\ running[p] \in {Nothing, Whole(md5[o])}
    BY <1>1, <1>2, <1>3, <2>0 DEF ToldCurrent, Current, Holds
  <2>2. Idle(p)'
    <3>1. Idle(Peer(o, e))'
      BY <1>1, <1>2, <1>3, <2>0, ToldIdle
    <3> QED
      BY <3>1 DEF Idle
  <2>3. running'[p] \in {running[p], Nothing}
    BY <1>2, <2>1, IdleRuns DEF Steady
  <2> QED
    BY <1>1, <2>1, <2>2, <2>3
<1>4. ASSUME NEW x \in DOMAIN jobs[p], SyncStarted(p, x)
      PROVE  Idle(p)' /\ running'[p] = Whole(md5'[o])
  BY <1>1, <1>4, StartedCurrent
<1> QED
  BY <1>1, <1>2, <1>3, <1>4

LEMMA NotToldStep ==
  ASSUME Steady, Serial, Serial', Owners, Owners', Unmarked, Unmarked', Masters, Runs, Runs', OpIdle,
         NotTold, Next
  PROVE  NotTold'
<1> USE DEF Serial
<1> SUFFICES ASSUME NEW o \in Operators, o \notin astray', NEW i \in Request,
                    req'[i].phase = "asking", req'[i].node = o,
                    NEW d \in req'[i].todo, NEW p \in Node, Live(d, o, p)',
                    NEW e \in Told(o)', Peer(o, e)' = p, e \notin gone'[p]
             PROVE  FALSE
  BY DEF NotTold
<1>1. md5'[o] # None
  <2>1. md5'[o] = req'[i].ver
    BY DEF Runs
  <2>2. req'[i].ver \in Version
    BY CallType, SMT DEF TypeOK, Posting
  <2> QED
    BY <2>1, <2>2, GridAssumption
<1>2. /\ e \in pool[o] /\ o \notin astray
      /\ \/ e \in Told(o)
         \/ \E x \in DOMAIN jobs[Peer(o, e)] : Peer(o, e) \in Node /\ SyncStarted(Peer(o, e), x)
  BY <1>1, ToldStep
<1>3. o \in Node /\ Peer(o, e) = p
  BY <1>1, <1>2, ToldPeer
<1>4. req[i].phase = "asking" /\ d \in req[i].todo /\ req[i].node = o
  <2>1. CASE LoopsRest
    BY <2>1 DEF LoopsRest
  <2>2. CASE AskNext
    <3>0. PICK k \in Request : req[k].node = o /\ \E c, T : Turn(k, o, c, T)
      BY <1>1, <2>2, AskRuns
    <3>1. PICK c, T :
            /\ LoopAsks(k, o, c, T) /\ req[k].node = o
            /\ Joined(k) \/ (req[k].phase = "asking" /\ {c} \cup T \subseteq req[k].todo)
      BY <3>0 DEF Turn
    <3>2. k = i
      <4>1. k # i => req'[i] = req[i] /\ Active(i) /\ Active(k)
        BY <3>1 DEF LoopAsks, Active
      <4> QED
        BY <4>1 DEF Calls, OneCall
    <3>3. ~Joined(k)
      BY <1>1, FreshTold
    <3>4. req'[i].todo = T
      BY <3>1, <3>2 DEF LoopAsks
    <3> QED
      BY <3>1, <3>2, <3>3, <3>4
  <2> QED
    BY <2>1, <2>2, TrafficSteps DEF Traffic, Steady, Hush, Greet, Tell, Listen
<1>5. Live(d, o, p)
  <2>1. d \in Known(o)
    BY <1>4 DEF Wired
  <2>2. d \in EndOf(o)
    BY <1>3, <2>1 DEF Wired
  <2>3. d \in Conn /\ server[d] # None
    BY <1>3, <2>2, Ends, BetweenEnds, GridAssumption
  <2> QED
    BY <1>3, <2>3, LiveStep
<1>6. e \notin Told(o)
  <2>1. e \notin gone[p]
    BY GoneGrows
  <2> QED
    BY <1>2, <1>3, <1>4, <1>5, <2>1 DEF NotTold
<1>7. Idle(p)
  BY <1>4, <1>5 DEF Traffic, Unasked
<1>8. DOMAIN jobs[p] = {}
  BY <1>7 DEF Idle
<1> QED
  BY <1>2, <1>3, <1>6, <1>8

----------------------------------------------------------------------------
(* The routers that are flagged *)

LEMMA RoutingInit == Init => Routing
<1> SUFFICES ASSUME Init PROVE Routing
  OBVIOUS
<1>1. Serial
  BY SerialInit
<1>2. \A n \in Node : /\ md5[n] = None /\ link[n] = None /\ synced[n] = {} /\ pool[n] = {}
                      /\ jobs[n] = <<>> /\ \A c \in Conn : inbox[n][c] = <<>>
  BY DEF Init
<1>3. \A i \in Request : req[i].phase = "idle"
  BY DEF Init, Unsent
<1>4. \A n \in Node : \A c \in Conn : \A kind : ~Carries(inbox[n][c], kind)
  BY <1>2 DEF Carries
<1>5. \A n \in Node : Idle(n)
  BY <1>2, <1>4 DEF Idle
<1>6. \A n \in Node : DOMAIN jobs[n] = {} /\ \A c \in Conn : In(inbox[n][c]) = {}
  BY <1>2 DEF In
<1>7. \A o \in Operators : o \in Node /\ ~Used(o) /\ Told(o) = {}
  BY <1>2, <1>4, <1>5, GridAssumption DEF Used, Answers, Told
<1>8. ToldCurrent /\ NotTold /\ Level
  BY <1>3, <1>7 DEF ToldCurrent, NotTold, Level
<1>9. LinksAreMd5
  BY <1>6 DEF LinksAreMd5
<1>10. Runs /\ Owners /\ Unmarked
  BY <1>3 DEF Runs, Owners, Unmarked, Early
<1>11. Masters /\ SyncedPool
  BY <1>2 DEF Masters, SyncedPool
<1>12. OpIdle
  BY <1>5, <1>7 DEF OpIdle
<1> QED
  BY <1>1, <1>8, <1>9, <1>10, <1>11, <1>12 DEF Routing

LEMMA RoutingStep ==
  ASSUME Steady, Routing, [Next]_vars
  PROVE  Routing'
<1> USE DEF Routing
<1>1. Serial'
  BY SerialStep DEF Steady
<1>3. CASE Next
  <2>1. Owners' /\ Masters' /\ SyncedPool' /\ Unmarked'
    BY <1>3, OwnersStep, MastersStep, SyncedPoolStep, UnmarkedStep
  <2>2. OpIdle'
    BY <1>1, <1>3, OpIdleStep DEF Serial
  <2>3. Runs'
    BY <1>3, RunsStep
  <2>4. Level'
    BY <1>1, <1>3, <2>1, LevelStep
  <2>5. LinksAreMd5'
    BY <1>1, <1>3, AskedLinksStep
  <2>6. ToldCurrent'
    BY <1>1, <1>3, <2>1, ToldCurrentStep
  <2>7. NotTold'
    BY <1>1, <1>3, <2>1, <2>3, NotToldStep
  <2> QED
    BY <1>1, <2>1, <2>2, <2>3, <2>4, <2>5, <2>6, <2>7
<1>4. CASE UNCHANGED vars
  <2> USE <1>4 DEF vars, netVars, fileVars, taskVars
  <2>1. /\ \A o : Told(o)' = Told(o)
        /\ \A o, e : Peer(o, e)' = Peer(o, e)
        /\ \A d, o, p : Live(d, o, p)' <=> Live(d, o, p)
        /\ \A o, p : Current(o, p)' <=> Current(o, p)
    BY DEF Told, Unheard, Peer, Live, Between, Current, Idle, Holds
  <2>2. ToldCurrent'
    BY <2>1 DEF ToldCurrent, Current, Idle, Holds
  <2>3. NotTold'
    BY <2>1 DEF NotTold
  <2>4. Level'
    BY DEF Level, Used, Answers, Idle
  <2>5. LinksAreMd5' /\ Runs' /\ Owners' /\ Masters' /\ SyncedPool' /\ Unmarked' /\ OpIdle'
    BY DEF LinksAreMd5, Runs, Holds, Owners, Masters, SyncedPool, Unmarked, Early, OpIdle, Idle
  <2> QED
    BY <1>1, <2>2, <2>3, <2>4, <2>5
<1> QED
  BY <1>3, <1>4

\* A master routes to nobody who runs something else than it runs itself ("Set all
\* peers as NOT SYNCED to avoid routing to peer with old app versions",
\* init_task_group, setAllPeersAsSynced and the answer to askPeerToSync), from the
\* spread that follows a failed one on.  Starts, archives and syncs may fail,
\* connections close, greetings be missed, any node restart or be cleared.  The
\* hypotheses are about what operators do: one of them posts, a call when the
\* last one is over, contents with the same task files, after the peers joined.
THEOREM RoutedPeersAreCurrentHolds ==
  ASSUME {"overlap", "join"} \cap Allowed = {}, SameTasks, \A n, m \in Operators : n = m
  PROVE  Spec => []RoutedPeersAreCurrent
<1>0. Steady
  BY DEF Steady
<1>1. Init => Routing
  BY RoutingInit
<1>2. Routing /\ [Next]_vars => Routing'
  BY <1>0, RoutingStep
<1>3. Routing => RoutedPeersAreCurrent
  <2> SUFFICES ASSUME Routing, NEW o \in Operators \ astray, NEW c \in synced[o],
                      c \notin gone[Peer(o, c)], Nothing \notin {running[o], running[Peer(o, c)]}
               PROVE  running[Peer(o, c)] = running[o]
    BY DEF RoutedPeersAreCurrent
  <2>1. Used(o)
    BY DEF Used
  <2>2. md5[o] # None /\ running[o] = Whole(md5[o])
    BY <2>1 DEF Routing, Level
  <2>3. c \in Told(o)
    <3>1. o \in Node
      BY GridAssumption
    <3> QED
      BY <3>1 DEF Routing, SyncedPool, Told
  <2> QED
    BY <2>2, <2>3 DEF Routing, ToldCurrent, Current, Holds
<1> QED
  BY <1>1, <1>2, <1>3, PTL DEF Spec

----------------------------------------------------------------------------
(* A spread takes the peers one at a time *)

\* At most one node has an ask before it, or handles one; its answer is the last
\* thing that the loop which made the ask can hear.
OnePeer == \A p, q \in Node : ~Idle(p) /\ ~Idle(q) => p = q
AnswerLast ==
  \A i \in Request : req[i].phase = "asking" =>
    /\ Carries(inbox[req[i].node][req[i].wait], "done") => \A p \in Node : Idle(p)
    /\ \A d \in req[i].todo : ~Carries(inbox[req[i].node][d], "done")

\* Whatever is asked for has been archived.
Named ==
  /\ \A i \in Request : req[i].phase \in {"joining", "asking"} => link[req[i].node] \in Version
  /\ \A n \in Node, c \in Conn : \A m \in In(inbox[n][c]) : m.kind = "sync" => m.link \in Version
  /\ \A n \in Node : \A x \in DOMAIN jobs[n] : jobs[n][x].link \in Version

Rolling == Serial /\ OnePeer /\ AnswerLast /\ Named

\* Where an answer goes
LEMMA AnswerWhere ==
  ASSUME NEW n \in Node, NEW x \in DOMAIN jobs[n], SyncStarted(n, x),
         NEW m \in Node, NEW d \in Conn, Carries(inbox'[m][d], "done")
  PROVE  Carries(inbox[m][d], "done") \/ Live(d, m, n)
<1>1. PICK out : inbox' = Sent(inbox, n, out)
  BY DEF SyncStarted
<1>2. \/ inbox'[m][d] = inbox[m][d]
      \/ m # n /\ m = Peer(n, d) /\ d \in EndOf(n) /\ d \notin gone[n] \cup gone[m]
  BY <1>1 DEF Sent
<1>3. m # n /\ m = Peer(n, d) /\ d \in EndOf(n) => Between(d, m, n)
  BY DEF Peer, EndOf, Between
<1> QED
  BY <1>2, <1>3 DEF Live

\* Where the loop of a call waits, and where it goes next
LEMMA LoopPlaces ==
  ASSUME Serial, NEW i \in Request, req[i].phase = "asking"
  PROVE  req[i].node \in Node /\ {req[i].wait} \cup req[i].todo \subseteq Conn
<1>1. req[i].node \in Node
  BY ActiveCall DEF Serial
<1>2. Known(req[i].node) \subseteq Conn
  BY <1>1 DEF Serial, TypeOK, Known
<1> QED
  BY <1>1, <1>2 DEF Serial, Wired

\* A step that brings no answer and starts no handler
LEMMA RestKeeps ==
  ASSUME Serial, AnswerLast, LoopsRest, \A p \in Node : Idle(p) => Idle(p)',
         \A n \in Node, c \in Conn : Carries(inbox'[n][c], "done") => Carries(inbox[n][c], "done")
  PROVE  AnswerLast'
<1> SUFFICES ASSUME NEW i \in Request, req'[i].phase = "asking"
             PROVE  /\ Carries(inbox'[req'[i].node][req'[i].wait], "done") => \A p \in Node : Idle(p)'
                    /\ \A d \in req'[i].todo : ~Carries(inbox'[req'[i].node][d], "done")
  BY DEF AnswerLast, Idle
<1>1. req'[i] = req[i] /\ req[i].phase = "asking"
  BY DEF LoopsRest
<1>2. req[i].node \in Node /\ {req[i].wait} \cup req[i].todo \subseteq Conn
  BY <1>1, LoopPlaces
<1> QED
  BY <1>1, <1>2 DEF AnswerLast

LEMMA QuieterDone ==
  ASSUME NEW K, "done" \notin K, Quieter(K), NEW n \in Node, NEW c \in Conn,
         Carries(inbox'[n][c], "done")
  PROVE  Carries(inbox[n][c], "done")
<1>1. PICK m \in In(inbox'[n][c]) : m.kind = "done"
  BY CarriesIn
<1>2. m \in In(inbox[n][c])
  BY <1>1 DEF Quieter
<1> QED
  BY <1>1, <1>2, CarriesIn

LEMMA OnePeerStep ==
  ASSUME Serial, Serial', OnePeer, AnswerLast, {"overlap", "join"} \cap Allowed = {}, Next
  PROVE  OnePeer' /\ AnswerLast'
<1> USE DEF Serial
<1>1. ASSUME \A p \in Node : Idle(p) => Idle(p)' PROVE OnePeer'
  BY <1>1 DEF OnePeer, Idle
<1>2. ASSUME NEW K, K \cap {"sync", "done"} = {}, Quieter(K), LoopsRest
      PROVE  OnePeer' /\ AnswerLast'
  <2>1. \A p \in Node : Idle(p) => Idle(p)'
    BY <1>2, QuietKeeps
  <2>2. \A n \in Node, c \in Conn : Carries(inbox'[n][c], "done") => Carries(inbox[n][c], "done")
    BY <1>2, QuieterDone
  <2> QED
    BY <1>1, <1>2, <2>1, <2>2, RestKeeps
<1>3. CASE Hush
  BY <1>2, <1>3 DEF Hush
<1>4. CASE Greet
  BY <1>2, <1>4 DEF Greet
<1>5. CASE Tell
  <2>0. PICK n \in Node : \E x \in DOMAIN jobs[n] : SyncStarted(n, x)
    BY <1>5 DEF Tell
  <2>1. PICK x \in DOMAIN jobs[n] : SyncStarted(n, x)
    BY <2>0
  <2>2. \A p \in Node : Idle(p) => Idle(p)'
    BY <1>5, QuietKeeps DEF Tell
  <2>3. ~Idle(n) /\ \A p \in Node \ {n} : Idle(p)
    <3>1. jobs[n] # <<>>
      BY <2>1
    <3> QED
      BY <3>1 DEF OnePeer, Idle
  <2>4. Idle(n)'
    <3>1. PICK s : s = jobs[n]
      OBVIOUS
    <3>2. s \in Seq(Job) /\ \A y \in DOMAIN s : y = 1
      BY <3>1 DEF TypeOK, Traffic, OneAsk
    <3>3. Without(s, x) = <<>>
      BY <2>1, <3>1, <3>2, LoneJob
    <3>4. jobs'[n] = <<>>
      BY <2>1, <3>1, <3>3 DEF SyncStarted, TypeOK
    <3>5. ASSUME NEW c \in Conn, Carries(inbox'[n][c], "sync") PROVE FALSE
      <4>1. PICK m \in In(inbox'[n][c]) : m.kind = "sync"
        BY <3>5, CarriesIn
      <4>2. m \in In(inbox[n][c])
        BY <1>5, <4>1 DEF Tell, Quieter
      <4>3. Carries(inbox[n][c], "sync")
        BY <4>1, <4>2, CarriesIn
      <4> QED
        BY <2>1, <4>3 DEF Traffic, OneAsk
    <3> QED
      BY <3>4, <3>5 DEF Idle
  <2>5. \A p \in Node : Idle(p)'
    BY <2>2, <2>3, <2>4
  <2>6. ASSUME NEW i \in Request, req'[i].phase = "asking", NEW d \in req'[i].todo
        PROVE  ~Carries(inbox'[req'[i].node][d], "done")
    <3>1. req'[i] = req[i] /\ req[i].phase = "asking"
      BY <1>5, <2>6 DEF Tell, LoopsRest
    <3>2. req[i].node \in Node /\ d \in Conn
      BY <2>6, <3>1, LoopPlaces
    <3>3. ~Live(d, req[i].node, n)
      BY <2>3, <2>6, <3>1 DEF Traffic, Unasked
    <3>4. ~Carries(inbox[req[i].node][d], "done")
      BY <2>6, <3>1 DEF AnswerLast
    <3> QED
      BY <2>1, <3>1, <3>2, <3>3, <3>4, AnswerWhere
  <2> QED
    BY <1>1, <2>2, <2>5, <2>6 DEF AnswerLast
<1>6. CASE Listen
  <2>1. PICK n \in Node, c \in Conn : ReceiveSync(n, c)
    BY <1>6 DEF Listen
  <2>2. inbox[n][c] \in Seq(Message) /\ inbox[n][c] # <<>> /\ Head(inbox[n][c]).kind = "sync"
    BY <2>1 DEF ReceiveSync, TypeOK
  <2>3. ~Idle(n)
    BY <2>2, InTail, CarriesIn DEF Idle
  <2>4. \A p \in Node \ {n} : jobs'[p] = jobs[p] /\ inbox'[p] = inbox[p]
    BY <2>1 DEF ReceiveSync, TypeOK
  <2>5. \A p \in Node : Idle(p) => Idle(p)'
    BY <2>3, <2>4 DEF Idle
  <2>6. ASSUME NEW m \in Node, NEW d \in Conn, Carries(inbox'[m][d], "done")
        PROVE  Carries(inbox[m][d], "done")
    <3>1. \/ inbox'[m][d] = inbox[m][d]
          \/ m = n /\ d = c /\ inbox'[m][d] = Tail(inbox[n][c])
      BY <2>1 DEF ReceiveSync, TypeOK
    <3> QED
      BY <2>2, <2>6, <3>1, InTail, CarriesIn
  <2> QED
    BY <1>1, <1>6, <2>5, <2>6, RestKeeps DEF Listen
<1>7. CASE AskNext
  <2>0. PICK i \in Request : \E d, T : Turn(i, req[i].node, d, T)
    BY <1>7 DEF AskNext
  <2>1. PICK d, T :
          /\ LoopAsks(i, req[i].node, d, T)
          /\ Joined(i) \/ (req[i].phase = "asking" /\ {d} \cup T \subseteq req[i].todo)
    BY <2>0 DEF Turn
  <2>2. PICK n : n = req[i].node
    OBVIOUS
  <2>3. /\ Asking(n, d) /\ n \in Node /\ d \in Conn /\ T \subseteq Conn /\ d \notin T
        /\ req'[i].phase = "asking" /\ req'[i].node = n /\ req'[i].todo = T /\ req'[i].wait = d
        /\ \A k \in Request \ {i} : req'[k] = req[k]
    <3>1. n \in Node => Known(n) \subseteq Conn
      BY DEF TypeOK, Known
    <3> QED
      BY <2>1, <2>2, <3>1 DEF LoopAsks
  <2>4. /\ \A p \in Node : Idle(p)
        /\ \A e \in {d} \cup T : ~Carries(inbox[n][e], "done")
    <3>1. CASE Joined(i)
      <4>1. Hushed
        BY <3>1 DEF Joined, Early, Traffic, Still
      <4>2. \A kind : ~Carries(<<>>, kind)
        BY DEF Carries
      <4> QED
        BY <2>3, <4>1, <4>2 DEF Hushed, Idle
    <3>2. CASE req[i].phase = "asking" /\ {d} \cup T \subseteq req[i].todo
      <4>1. req'[i] # req[i]
        BY <2>3, <3>2
      <4>2. ~Joined(i)
        BY <3>2 DEF Joined
      <4>3. ReceiveDone(n, req[i].wait)
        BY <2>2, <2>3, <4>1, <4>2, WaitStep
      <4>4. Carries(inbox[n][req[i].wait], "done")
        <5>1. PICK c : c = req[i].wait
          OBVIOUS
        <5>2. c \in Conn /\ inbox[n][c] # <<>> /\ Head(inbox[n][c]).kind = "done"
          BY <2>3, <4>3, <5>1 DEF ReceiveDone, TypeOK
        <5>3. inbox[n][c] \in Seq(Message)
          BY <2>3, <5>2 DEF TypeOK
        <5> QED
          BY <5>1, <5>2, <5>3, InTail, CarriesIn
      <4> QED
        BY <2>2, <3>2, <4>4 DEF AnswerLast
    <3> QED
      BY <2>1, <3>1, <3>2
  <2>5. ASSUME NEW p \in Node, ~Live(d, n, p) PROVE Idle(p)'
    <3>1. jobs'[p] = jobs[p] /\ \A c \in Conn : In(inbox'[p][c]) \subseteq In(inbox[p][c])
      BY <2>3, <2>5 DEF Asking
    <3> QED
      BY <2>4, <3>1, CarriesIn DEF Idle
  <2>6. \A p, q \in Node : Live(d, n, p) /\ Live(d, n, q) => p = q
    BY DEF Live, Between
  <2>7. OnePeer'
    <3>1. \A p, q \in Node : ~Idle(p)' /\ ~Idle(q)' => p = q
      BY <2>5, <2>6
    <3> QED
      BY <3>1 DEF OnePeer, Idle
  <2>8. ASSUME NEW e \in {d} \cup T PROVE ~Carries(inbox'[n][e], "done")
    <3>1. PICK msg : msg = Sync(link[n])
      OBVIOUS
    <3>2. msg.kind = "sync"
      BY <3>1 DEF Sync
    <3>3. In(inbox'[n][e]) \subseteq In(inbox[n][e]) \cup {msg}
      BY <2>3, <2>8, <3>1 DEF Asking
    <3> QED
      BY <2>4, <2>8, <3>2, <3>3, CarriesIn
  <2>9. \A k \in Request : req'[k].phase = "asking" => k = i
    <3>1. Active(i)
      BY <2>1 DEF LoopAsks
    <3>2. \A k \in Request \ {i} : req'[k].phase = "asking" => Active(k)
      BY <2>3 DEF Active
    <3> QED
      BY <3>1, <3>2 DEF Calls, OneCall
  <2>10. AnswerLast'
    BY <2>3, <2>8, <2>9 DEF AnswerLast
  <2> QED
    BY <2>7, <2>10
<1> QED
  BY <1>3, <1>4, <1>5, <1>6, <1>7, TrafficSteps DEF Traffic

\* What a handler asks for next
LEMMA JobLinks ==
  ASSUME Serial, Named, SameTasks, "overlap" \notin Allowed, Next, NEW p \in Node
  PROVE  \A y \in DOMAIN jobs'[p] : jobs'[p][y].link \in Version
<1> USE DEF Serial
<1>0. ASSUME NEW n \in Node, NEW s, jobs' = [jobs EXCEPT ![n] = s], \A y \in DOMAIN s : s[y].link \in Version
      PROVE  \A y \in DOMAIN jobs'[p] : jobs'[p][y].link \in Version
  <2>1. jobs'[p] = jobs[p] \/ jobs'[p] = s
    BY <1>0 DEF TypeOK
  <2> QED
    BY <1>0, <2>1 DEF Named
<1>1. ASSUME NEW j, j.link \in Version
      PROVE  \A y \in DOMAIN <<j>> : <<j>>[y].link \in Version
  BY <1>1
<1>2. \A y \in DOMAIN <<>> : <<>>[y].link \in Version
  OBVIOUS
<1>3. ASSUME NEW n \in Node, NEW x \in DOMAIN jobs[n], HandlerStep(n, x)
      PROVE  \A y \in DOMAIN jobs'[p] : jobs'[p][y].link \in Version
  <2>1. PICK j : j = jobs[n][1]
    OBVIOUS
  <2>2. j \in Job /\ j.link \in Version
    <3>1. jobs[n] = <<j>> /\ j \in Job
      BY <1>3, <2>1, OneHandler DEF Traffic
    <3>2. 1 \in DOMAIN <<j>>
      OBVIOUS
    <3>3. jobs[n][1].link \in Version
      BY <3>1, <3>2 DEF Named
    <3> QED
      BY <2>1, <3>1, <3>3
  <2>3. \/ jobs' = [jobs EXCEPT ![n] = <<>>]
        \/ \E stage : jobs' = [jobs EXCEPT ![n] = <<[j EXCEPT !.stage = stage]>>]
    BY <1>3, <2>1, OneHandler, Zenon DEF HandlerStep, Traffic
  <2>4. ASSUME NEW stage, jobs' = [jobs EXCEPT ![n] = <<[j EXCEPT !.stage = stage]>>]
        PROVE  \A y \in DOMAIN jobs'[p] : jobs'[p][y].link \in Version
    <3>1. PICK k : k = [j EXCEPT !.stage = stage]
      OBVIOUS
    <3>2. k.link \in Version
      BY <2>2, <3>1 DEF Job
    <3> QED
      BY <1>0, <1>1, <2>4, <3>1, <3>2
  <2>5. CASE jobs' = [jobs EXCEPT ![n] = <<>>]
    BY <1>0, <1>2, <2>5
  <2> QED
    BY <2>3, <2>4, <2>5
<1>4. ASSUME NEW n \in Node, NEW c \in Conn, ReceiveSync(n, c)
      PROVE  \A y \in DOMAIN jobs'[p] : jobs'[p][y].link \in Version
  <2>1. inbox[n][c] \in Seq(Message) /\ inbox[n][c] # <<>> /\ Head(inbox[n][c]).kind = "sync"
    BY <1>4 DEF ReceiveSync, TypeOK
  <2>2. PICK m : m = Head(inbox[n][c])
    OBVIOUS
  <2>3. m \in In(inbox[n][c]) /\ m.link \in Version
    BY <2>1, <2>2, InTail DEF Named
  <2>4. PICK j : j = [conn |-> c, stage |-> "deleting", link |-> m.link]
    OBVIOUS
  <2>5. jobs[n] = <<>>
    <3>1. Carries(inbox[n][c], "sync")
      BY <2>1, <2>2, <2>3, CarriesIn
    <3> QED
      BY <3>1 DEF Traffic, OneAsk
  <2>6. jobs' = [jobs EXCEPT ![n] = <<j>>]
    <3>1. Append(<<>>, j) = <<j>>
      OBVIOUS
    <3> QED
      BY <1>4, <2>2, <2>4, <2>5, <3>1 DEF ReceiveSync
  <2> QED
    BY <1>0, <1>1, <2>3, <2>4, <2>6
<1>5. ASSUME NEW n \in Node, Restart(n)
      PROVE  \A y \in DOMAIN jobs'[p] : jobs'[p][y].link \in Version
  <2>1. jobs' = [jobs EXCEPT ![n] = <<>>]
    BY <1>5 DEF Restart
  <2> QED
    BY <1>0, <1>2, <2>1
<1>6. UNCHANGED jobs => \A y \in DOMAIN jobs'[p] : jobs'[p][y].link \in Version
  BY DEF Named
<1>7. /\ \A i \in Request : InitStarted(i) \/ InitFail(i) => UNCHANGED jobs
      /\ \A n \in Node : ClearTasks(n) => UNCHANGED jobs
  BY DEF InitStarted, InitFail, ClearTasks
<1> QED
  BY <1>3, <1>4, <1>5, <1>6, <1>7, WorkSteps

LEMMA NamedStep ==
  ASSUME Serial, Serial', Named, SameTasks, {"overlap", "join"} \cap Allowed = {}, Next
  PROVE  Named'
<1> USE DEF Serial
<1>1. ASSUME NEW i \in Request, req'[i].phase \in {"joining", "asking"}
      PROVE  link'[req'[i].node] \in Version
  <2>1. CASE Archived(i)
    <3>1. req'[i].node = req[i].node
      <4>1. req'[i] # req[i]
        <5>1. req[i] \in Posting /\ req[i].phase = "archiving"
          BY <2>1, ActiveCall DEF Archived
        <5> QED
          BY <1>1, <5>1 DEF Archived, Posting
      <4> QED
        BY <1>1, <2>1, <4>1, PhaseSteps DEF Archived, InitRequest
    <3>2. /\ req[i].node \in Node /\ req[i].ver \in Version
          /\ link' = [link EXCEPT ![req[i].node] = req[i].ver]
      BY <2>1, ArchivedStep
    <3>3. PICK n : n = req[i].node
      OBVIOUS
    <3>4. link'[n] = req[i].ver
      BY <3>2, <3>3 DEF TypeOK
    <3> QED
      BY <3>1, <3>2, <3>3, <3>4
  <2>2. CASE ~Archived(i)
    <3>1. req'[i].node = req[i].node /\ req[i].phase \in {"joining", "asking"}
      BY <1>1, <2>2, PhaseSteps
    <3>2. PICK n : n = req[i].node
      OBVIOUS
    <3>3. n \in Node /\ Active(i) /\ link[n] \in Version
      BY <3>1, <3>2, ActiveCall DEF Active, Named
    <3>4. ASSUME NEW k \in Request, Archived(k) PROVE FALSE
      <4>1. Active(k)
        BY <3>4 DEF Archived, Active
      <4>2. k = i
        BY <3>3, <4>1 DEF Calls, OneCall
      <4> QED
        BY <2>2, <3>4, <4>2
    <3>5. ASSUME NEW p \in Node, Restart(p) PROVE link'[n] = link[n]
      <4>1. CASE p = n
        <5>1. req'[i] = [req[i] EXCEPT !.phase = "done"]
          BY <3>2, <3>5, <4>1 DEF Restart
        <5>2. req[i] \in Posting
          BY <3>3, ActiveCall DEF Active
        <5>3. req'[i].phase = "done"
          BY <5>1, <5>2 DEF Posting
        <5> QED
          BY <1>1, <5>3
      <4>2. CASE p # n
        BY <3>3, <3>5, <4>2 DEF Restart, TypeOK
      <4> QED
        BY <4>1, <4>2
    <3> QED
      BY <3>1, <3>2, <3>3, <3>4, <3>5, LinkSteps
  <2> QED
    BY <2>1, <2>2
<1>2. ASSUME NEW n \in Node, NEW c \in Conn, NEW m \in In(inbox'[n][c]), m.kind = "sync"
      PROVE  m.link \in Version
  <2>1. CASE m \in In(inbox[n][c])
    BY <1>2, <2>1 DEF Named
  <2>2. CASE \E i \in Request : m.link = link[req[i].node] /\ req[i].phase \in {"joining", "asking"}
    BY <2>2 DEF Named
  <2> QED
    BY <1>2, <2>1, <2>2, InboxStep
<1>3. \A p \in Node : \A y \in DOMAIN jobs'[p] : jobs'[p][y].link \in Version
  BY JobLinks
<1> QED
  BY <1>1, <1>2, <1>3 DEF Named

LEMMA RollingInit == Init => Rolling
<1> SUFFICES ASSUME Init PROVE Rolling
  OBVIOUS
<1>0. \A n \in Node : jobs[n] = <<>> /\ \A c \in Conn : inbox[n][c] = <<>>
  BY DEF Init
<1>1. \A n \in Node : /\ jobs[n] = <<>> /\ DOMAIN jobs[n] = {}
                      /\ \A c \in Conn : inbox[n][c] = <<>> /\ In(inbox[n][c]) = {}
  BY <1>0 DEF In
<1>2. \A kind : ~Carries(<<>>, kind)
  BY DEF Carries
<1>3. \A n \in Node : Idle(n)
  BY <1>1, <1>2 DEF Idle
<1>4. \A i \in Request : req[i].phase = "idle"
  BY DEF Init, Unsent
<1> QED
  BY <1>1, <1>3, <1>4, SerialInit DEF Rolling, OnePeer, AnswerLast, Named

LEMMA RollingStep ==
  ASSUME Rolling, SameTasks, {"overlap", "join"} \cap Allowed = {}, [Next]_vars
  PROVE  Rolling'
<1> USE DEF Rolling
<1>1. Serial'
  BY SerialStep
<1>2. CASE Next
  BY <1>1, <1>2, OnePeerStep, NamedStep
<1>3. CASE UNCHANGED vars
  <2> USE <1>3 DEF vars, netVars, fileVars
  <2>1. OnePeer' /\ AnswerLast'
    BY DEF OnePeer, AnswerLast, Idle
  <2>2. Named'
    BY DEF Named
  <2> QED
    BY <1>1, <2>1, <2>2
<1> QED
  BY <1>2, <1>3

----------------------------------------------------------------------------
(* The spread is a rollout *)

\* A handler as an order
OrderOf(j) == [link |-> j.link, stopped |-> j.stage # "deleting"]

LEMMA OrdersAt ==
  ASSUME NEW n \in Node
  PROVE  /\ jobs[n] = <<>> => Orders[n] = <<>>
         /\ \A j : jobs[n] = <<j>> => Orders[n] = <<OrderOf(j)>>
<1>1. Orders[n] = [x \in DOMAIN jobs[n] |-> OrderOf(jobs[n][x])]
  BY DEF Orders, OrderOf
<1>2. ASSUME jobs[n] = <<>> PROVE Orders[n] = <<>>
  <2>1. DOMAIN jobs[n] = {}
    BY <1>2
  <2>2. Orders[n] = [x \in {} |-> OrderOf(jobs[n][x])]
    BY <1>1, <2>1
  <2> QED
    BY <2>2
<1>3. ASSUME NEW j, jobs[n] = <<j>> PROVE Orders[n] = <<OrderOf(j)>>
  <2>1. Orders[n] = [x \in DOMAIN <<j>> |-> OrderOf(<<j>>[x])]
    BY <1>1, <1>3
  <2>2. DOMAIN <<j>> = 1 .. 1 /\ \A x \in 1 .. 1 : <<j>>[x] = j
    OBVIOUS
  <2>3. Orders[n] = [x \in 1 .. 1 |-> OrderOf(j)]
    BY <2>1, <2>2
  <2>4. <<OrderOf(j)>> = [x \in 1 .. 1 |-> OrderOf(j)]
    OBVIOUS
  <2> QED
    BY <2>3, <2>4
<1> QED
  BY <1>2, <1>3

LEMMA OrdersStep ==
  ASSUME TypeOK, NEW n \in Node, NEW s, jobs' = [jobs EXCEPT ![n] = s]
  PROVE  /\ s = <<>> => Orders' = [Orders EXCEPT ![n] = <<>>]
         /\ \A j : s = <<j>> => Orders' = [Orders EXCEPT ![n] = <<OrderOf(j)>>]
<1>1. jobs'[n] = s /\ \A p \in Node \ {n} : jobs'[p] = jobs[p]
  BY DEF TypeOK
<1>2. \A p \in Node \ {n} : Orders'[p] = Orders[p]
  BY <1>1 DEF Orders
<1>3. /\ Orders = [p \in Node |-> Orders[p]]
      /\ Orders' = [p \in Node |-> Orders'[p]]
  BY DEF Orders
<1>4. ASSUME NEW o, Orders'[n] = o PROVE Orders' = [Orders EXCEPT ![n] = o]
  BY <1>2, <1>3, <1>4
<1>5. Orders'[n] = [x \in DOMAIN s |-> OrderOf(s[x])]
  BY <1>1 DEF Orders, OrderOf
<1>6. ASSUME s = <<>> PROVE Orders'[n] = <<>>
  <2>1. DOMAIN s = {}
    BY <1>6
  <2>2. Orders'[n] = [x \in {} |-> OrderOf(s[x])]
    BY <1>5, <2>1
  <2> QED
    BY <2>2
<1>7. ASSUME NEW j, s = <<j>> PROVE Orders'[n] = <<OrderOf(j)>>
  <2>1. DOMAIN s = 1 .. 1 /\ \A x \in 1 .. 1 : s[x] = j
    BY <1>7
  <2>2. Orders'[n] = [x \in 1 .. 1 |-> OrderOf(j)]
    BY <1>5, <2>1
  <2>3. <<OrderOf(j)>> = [x \in 1 .. 1 |-> OrderOf(j)]
    OBVIOUS
  <2> QED
    BY <2>2, <2>3
<1> QED
  BY <1>4, <1>6, <1>7

\* What is started in part
LEMMA PartsAre ==
  ASSUME NEW v \in Version
  PROVE  Whole(v) \in R!Parts(v) /\ Parts(Whole(v)) \subseteq R!Parts(v)
<1>1. R!Whole(v) = Whole(v)
  BY DEF R!Whole, Whole
<1>2. Whole(v) \in R!Parts(v)
  BY <1>1 DEF R!Parts, Whole
<1>3. ASSUME NEW g \in Parts(Whole(v)) PROVE g \in R!Parts(v)
  <2>1. g \in Folder /\ \A t \in Task : g[t] \in {None, Whole(v)[t]}
    BY DEF Parts
  <2>2. \A t \in Task : g[t] \in {v, None}
    BY <2>1 DEF Whole
  <2>3. g \in [Task -> {v, None}]
    BY <2>1, <2>2 DEF Folder
  <2> QED
    BY <1>1, <2>1, <2>3 DEF R!Parts
<1> QED
  BY <1>2, <1>3

LEMMA HandlerRolls ==
  ASSUME Rolling, SameTasks, NEW n \in Node, NEW x \in DOMAIN jobs[n], HandlerStep(n, x)
  PROVE  [R!Next]_<<Orders, running>>
<1> USE DEF Rolling, Serial
<1>1. PICK j : j = jobs[n][1]
  OBVIOUS
<1>2. jobs[n] = <<j>> /\ j \in Job
  BY <1>1, OneHandler DEF Traffic
<1>3. PICK v : v = j.link
  OBVIOUS
<1>4. v \in Version
  <2>1. 1 \in DOMAIN <<j>>
    OBVIOUS
  <2> QED
    BY <1>1, <1>2, <1>3, <2>1 DEF Named
<1>5. /\ Orders[n] = <<OrderOf(j)>>
      /\ OrderOf(j) = [link |-> v, stopped |-> j.stage # "deleting"]
  BY <1>2, <1>3, OrdersAt DEF OrderOf
<1>6. jobs' = [jobs EXCEPT ![n] = <<>>] => Orders' = [Orders EXCEPT ![n] = <<>>]
  BY OrdersStep
<1>7. ASSUME NEW stage, jobs' = [jobs EXCEPT ![n] = <<[j EXCEPT !.stage = stage]>>],
             stage # "deleting"
      PROVE  Orders' = [Orders EXCEPT ![n] = <<[link |-> v, stopped |-> TRUE]>>]
  <2>1. PICK k : k = [j EXCEPT !.stage = stage]
    OBVIOUS
  <2>2. k.link = v /\ k.stage = stage
    BY <1>2, <1>3, <2>1 DEF Job
  <2>3. OrderOf(k) = [link |-> v, stopped |-> TRUE]
    BY <1>7, <2>2 DEF OrderOf
  <2>4. PICK s : s = <<k>>
    OBVIOUS
  <2>5. jobs' = [jobs EXCEPT ![n] = s]
    BY <1>7, <2>1, <2>4
  <2>6. Orders' = [Orders EXCEPT ![n] = <<OrderOf(k)>>]
    BY <2>4, <2>5, OrdersStep
  <2> QED
    BY <2>3, <2>6
<1>8. CASE SyncDeleted(n, x)
  <2>1. /\ j.stage = "deleting"
        /\ running' = [running EXCEPT ![n] = Nothing]
        /\ jobs' = [jobs EXCEPT ![n] = <<[j EXCEPT !.stage = "downloading"]>>]
    BY <1>1, <1>3, <1>4, <1>8, OneHandler, GridAssumption DEF Traffic
  <2>2. R!Stop(n, v)
    BY <1>5, <1>7, <2>1 DEF R!Stop, R!Order, R!Nothing, Nothing
  <2> QED
    BY <1>4, <2>2 DEF R!Next
<1>9. CASE SyncDownloaded(n, x)
  <2>1. /\ j.stage = "downloading" /\ UNCHANGED running
        /\ jobs' = [jobs EXCEPT ![n] = <<[j EXCEPT !.stage = "starting"]>>]
    BY <1>1, <1>9, OneHandler DEF Traffic
  <2>2. Orders' = [Orders EXCEPT ![n] = Orders[n]]
    BY <1>5, <1>7, <2>1
  <2>3. Orders' = Orders
    BY <2>2 DEF Orders
  <2> QED
    BY <2>1, <2>3
<1>10. CASE SyncStarted(n, x)
  <2>1. /\ j.stage = "starting" /\ jobs' = [jobs EXCEPT ![n] = <<>>]
        /\ running' = [running EXCEPT ![n] = Whole(v)]
    BY <1>1, <1>3, <1>10, OneHandler DEF Traffic
  <2>2. R!Start(n, v)
    BY <1>5, <1>6, <2>1 DEF R!Start, R!Order, R!Whole, Whole
  <2> QED
    BY <1>4, <2>2 DEF R!Next
<1>11. CASE SyncFail(n, x)
  <2>1. /\ jobs' = [jobs EXCEPT ![n] = <<>>]
        /\ \E g : /\ running' = [running EXCEPT ![n] = g]
                  /\ g = running[n] \/ (j.stage = "starting" /\ g \in Parts(Whole(v)))
    BY <1>1, <1>3, <1>11, OneHandler DEF Traffic
  <2>2. PICK g : /\ running' = [running EXCEPT ![n] = g]
                 /\ g = running[n] \/ (j.stage = "starting" /\ g \in Parts(Whole(v)))
    BY <2>1
  <2>3. Orders[n] \in {<<R!Order(v, FALSE)>>, <<R!Order(v, TRUE)>>}
    <3>1. CASE j.stage = "deleting"
      <4>1. OrderOf(j) = [link |-> v, stopped |-> FALSE]
        BY <1>5, <3>1
      <4> QED
        BY <1>5, <4>1 DEF R!Order
    <3>2. CASE j.stage # "deleting"
      <4>1. OrderOf(j) = [link |-> v, stopped |-> TRUE]
        BY <1>5, <3>2
      <4> QED
        BY <1>5, <4>1 DEF R!Order
    <3> QED
      BY <3>1, <3>2
  <2>4. CASE g = running[n]
    <3>1. UNCHANGED running
      BY <2>2, <2>4 DEF TypeOK
    <3>2. R!GiveUp(n, v)
      BY <1>6, <2>1, <2>3, <3>1 DEF R!GiveUp
    <3> QED
      BY <1>4, <3>2 DEF R!Next
  <2>5. CASE j.stage = "starting" /\ g \in Parts(Whole(v))
    <3>1. g \in R!Parts(v)
      BY <1>4, <2>5, PartsAre
    <3>2. Orders[n] = <<R!Order(v, TRUE)>>
      BY <1>5, <2>5 DEF R!Order
    <3>3. R!GiveUp(n, v)
      BY <1>6, <2>1, <2>2, <2>3, <3>1, <3>2 DEF R!GiveUp
    <3> QED
      BY <1>4, <3>3 DEF R!Next
  <2> QED
    BY <2>2, <2>4, <2>5
<1>12. ~SyncBroken(n, x)
  BY OneHandler DEF Traffic
<1> QED
  BY <1>8, <1>9, <1>10, <1>11, <1>12 DEF HandlerStep

LEMMA RolloutStep ==
  ASSUME Rolling, SameTasks, {"overlap", "join"} \cap Allowed = {}, [Next]_vars
  PROVE  [R!Next]_<<Orders, running>>
<1> USE DEF Rolling, Serial
<1>1. ASSUME NEW n \in Node, NEW c \in Conn, ReceiveSync(n, c)
      PROVE  [R!Next]_<<Orders, running>>
  <2>1. inbox[n][c] \in Seq(Message) /\ inbox[n][c] # <<>> /\ Head(inbox[n][c]).kind = "sync"
    BY <1>1 DEF ReceiveSync, TypeOK
  <2>2. PICK m : m = Head(inbox[n][c])
    OBVIOUS
  <2>3. m \in In(inbox[n][c]) /\ m.link \in Version
    BY <2>1, <2>2, InTail DEF Named
  <2>4. Carries(inbox[n][c], "sync")
    BY <2>1, <2>2, <2>3, CarriesIn
  <2>5. \A p \in Node : jobs[p] = <<>>
    <3>1. ~Idle(n) /\ jobs[n] = <<>>
      BY <2>4 DEF Traffic, OneAsk, Idle
    <3> QED
      BY <3>1 DEF OnePeer, Idle
  <2>6. PICK j : j = [conn |-> c, stage |-> "deleting", link |-> m.link]
    OBVIOUS
  <2>7. jobs' = [jobs EXCEPT ![n] = <<j>>] /\ UNCHANGED running
    <3>1. Append(<<>>, j) = <<j>>
      OBVIOUS
    <3> QED
      BY <1>1, <2>2, <2>5, <2>6, <3>1 DEF ReceiveSync, taskVars
  <2>8. Orders' = [Orders EXCEPT ![n] = <<OrderOf(j)>>]
    BY <2>7, OrdersStep
  <2>9. OrderOf(j) = R!Order(m.link, FALSE)
    BY <2>6 DEF OrderOf, R!Order
  <2>10. R!Quiet
    BY <2>5, OrdersAt DEF R!Quiet
  <2>11. R!Take(n, m.link)
    BY <2>7, <2>8, <2>9, <2>10 DEF R!Take
  <2> QED
    BY <2>3, <2>11 DEF R!Next
<1>2. ASSUME NEW i \in Request, InitStarted(i) \/ InitFail(i)
      PROVE  [R!Next]_<<Orders, running>>
  <2>1. UNCHANGED jobs /\ req[i].phase = "starting"
    BY <1>2 DEF InitStarted, InitFail
  <2>2. PICK n, v : n = req[i].node /\ v = req[i].ver
    OBVIOUS
  <2>3. n \in Node /\ v \in Version
    BY <2>1, <2>2, ActiveCall
  <2>4. UNCHANGED Orders
    BY <2>1 DEF Orders
  <2>5. R!Quiet
    <3>1. \A p \in Node : jobs[p] = <<>>
      BY <2>1 DEF Traffic, Still, Early, Hushed
    <3> QED
      BY <3>1, OrdersAt DEF R!Quiet
  <2>6. \E f \in {running[n]} \cup R!Parts(v) : running' = [running EXCEPT ![n] = f]
    BY <1>2, <2>2, <2>3, PartsAre DEF InitStarted, InitFail
  <2>7. PICK f \in {running[n]} \cup R!Parts(v) : running' = [running EXCEPT ![n] = f]
    BY <2>6
  <2>8. CASE f = running[n]
    <3>1. UNCHANGED running
      BY <2>7, <2>8 DEF TypeOK
    <3> QED
      BY <2>4, <3>1
  <2>9. CASE f \in R!Parts(v)
    <3>1. R!Own(n, v)
      BY <2>4, <2>5, <2>7, <2>9 DEF R!Own
    <3> QED
      BY <2>3, <3>1 DEF R!Next
  <2> QED
    BY <2>8, <2>9
<1>3. ASSUME NEW n \in Node, Restart(n) \/ ClearTasks(n)
      PROVE  [R!Next]_<<Orders, running>>
  <2>1. running' = [running EXCEPT ![n] = R!Nothing]
    BY <1>3 DEF Restart, ClearTasks, R!Nothing, Nothing
  <2>2. Orders' \in {Orders, [Orders EXCEPT ![n] = <<>>]}
    <3>1. jobs' = jobs \/ jobs' = [jobs EXCEPT ![n] = <<>>]
      BY <1>3 DEF Restart, ClearTasks
    <3>2. jobs' = jobs => Orders' = Orders
      BY DEF Orders
    <3> QED
      BY <3>1, <3>2, OrdersStep
  <2>3. R!Clear(n)
    BY <2>1, <2>2 DEF R!Clear
  <2> QED
    BY <2>3 DEF R!Next
<1>4. UNCHANGED <<jobs, running>> => UNCHANGED <<Orders, running>>
  BY DEF Orders
<1>5. CASE UNCHANGED vars
  BY <1>4, <1>5 DEF vars, taskVars
<1>6. CASE Next
  BY <1>1, <1>2, <1>3, <1>4, <1>6, HandlerRolls, WorkSteps
<1> QED
  BY <1>5, <1>6

\* A spread takes down one peer at a time, and a peer that is asked for a content
\* stops all its tasks and then runs all of it, or gives up, while nobody starts
\* anything else (askAllPeersToSync, the 'sync' handler, initTasks): in a grid
\* whose calls do not overlap, whose peers join before a node is a master and
\* whose contents have the same task files, whatever fails, closes, gets lost,
\* restarts or is cleared, with any number of masters.
THEOREM SpreadIsRollout ==
  ASSUME {"overlap", "join"} \cap Allowed = {}, SameTasks
  PROVE  Spec => IsRollout
<1>1. Init => Rolling
  BY RollingInit
<1>2. Rolling /\ [Next]_vars => Rolling'
  BY RollingStep
<1>3. Init => R!Init
  <2> SUFFICES ASSUME Init PROVE R!Init
    OBVIOUS
  <2>1. \A n \in Node : Orders[n] = <<>>
    BY OrdersAt DEF Init
  <2>2. Orders = [n \in Node |-> <<>>]
    <3>1. Orders = [n \in Node |-> Orders[n]]
      BY DEF Orders
    <3> QED
      BY <2>1, <3>1
  <2>3. running = [n \in Node |-> R!Nothing]
    BY DEF Init, R!Nothing, Nothing
  <2> QED
    BY <2>2, <2>3 DEF R!Init
<1>4. Rolling /\ [Next]_vars => [R!Next]_<<Orders, running>>
  BY RolloutStep
<1> QED
  BY <1>1, <1>2, <1>3, <1>4, PTL DEF Spec, IsRollout, R!Spec

\* No step of a rollout mixes two contents.
LEMMA RolloutKeepsOne ==
  ASSUME TypeOK, OneContentRuns, [R!Next]_<<Orders, running>>
  PROVE  OneContentRuns'
<1> DEFINE One(f) == \A t, u \in Task : f[t] = None \/ f[u] = None \/ f[t] = f[u]
<1>1. ASSUME NEW n \in Node, NEW f, One(f), running' = [running EXCEPT ![n] = f]
      PROVE  OneContentRuns'
  <2>1. \A p \in Node : running'[p] = running[p] \/ running'[p] = f
    BY <1>1 DEF TypeOK
  <2> QED
    BY <1>1, <2>1 DEF OneContentRuns
<1>2. UNCHANGED running => OneContentRuns'
  BY DEF OneContentRuns
<1>3. One(R!Nothing)
  BY DEF R!Nothing
<1>4. ASSUME NEW v \in Version, NEW f \in R!Parts(v) PROVE One(f)
  BY DEF R!Parts
<1>5. ASSUME NEW v \in Version PROVE One(R!Whole(v))
  BY DEF R!Whole
<1> HIDE DEF One
<1>6. ASSUME NEW n \in Node, R!Clear(n) PROVE OneContentRuns'
  BY <1>1, <1>3, <1>6 DEF R!Clear
<1>7. ASSUME NEW n \in Node, NEW v \in Version, R!Take(n, v) PROVE OneContentRuns'
  BY <1>2, <1>7 DEF R!Take
<1>8. ASSUME NEW n \in Node, NEW v \in Version, R!Stop(n, v) PROVE OneContentRuns'
  BY <1>1, <1>3, <1>8 DEF R!Stop
<1>9. ASSUME NEW n \in Node, NEW v \in Version, R!Start(n, v) PROVE OneContentRuns'
  BY <1>1, <1>5, <1>9 DEF R!Start
<1>10. ASSUME NEW n \in Node, NEW v \in Version, R!GiveUp(n, v) \/ R!Own(n, v)
       PROVE  OneContentRuns'
  BY <1>1, <1>2, <1>4, <1>10 DEF R!GiveUp, R!Own
<1> QED
  BY <1>2, <1>6, <1>7, <1>8, <1>9, <1>10 DEF R!Next

\* A node never runs tasks of two contents side by side (startAllTasks and
\* deleteAllPM2Tasks, called by a sync and by a call), under the assumptions of the
\* rollout.
THEOREM OneContentRunsHolds ==
  ASSUME {"overlap", "join"} \cap Allowed = {}, SameTasks
  PROVE  Spec => []OneContentRuns
<1>1. Init => Rolling /\ OneContentRuns
  <2>1. Init => OneContentRuns
    BY DEF Init, OneContentRuns, Nothing
  <2> QED
    BY <2>1, RollingInit
<1>2. Rolling /\ OneContentRuns /\ [Next]_vars => (Rolling /\ OneContentRuns)'
  <2>1. Rolling => TypeOK
    BY DEF Rolling, Serial
  <2> QED
    BY <2>1, RollingStep, RolloutStep, RolloutKeepsOne
<1> QED
  BY <1>1, <1>2, PTL DEF Spec

=============================================================================
