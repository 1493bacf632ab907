---------------------------- MODULE HandshakeProofs ----------------------------
(* Theorems about Handshake, for any passwords and any number of repeats.      *)
EXTENDS Handshake, SequenceTheorems, TLAPS

----------------------------------------------------------------------------
(* Type correctness *)

WireType == [End -> Seq(Message)]

\* What a step does to the wires: nothing, a message is written, the head is read,
\* or the head is read and answered
LEMMA WrittenTyped ==
  ASSUME TypeOK, NEW e \in End, NEW n \in Name, NEW w \in Password \cup {None},
         NEW k \in BOOLEAN
  PROVE  Written(e, n, w, k) \in WireType
<1>1. [name |-> n, keyed |-> k, word |-> w] \in Message
  BY DEF Message
<1>2. Append(wire[Other(e)], [name |-> n, keyed |-> k, word |-> w]) \in Seq(Message)
  BY <1>1 DEF TypeOK, Other, End
<1> QED
  BY <1>2 DEF TypeOK, Written, WireType

LEMMA RestTyped ==
  ASSUME TypeOK, NEW e \in End, wire[e] # <<>>
  PROVE  Rest(e) \in WireType
<1>1. Tail(wire[e]) \in Seq(Message)
  BY DEF TypeOK
<1> QED
  BY <1>1 DEF TypeOK, Rest, WireType

LEMMA AnswerTyped ==
  ASSUME TypeOK, NEW e \in End, NEW n \in Name, NEW k \in BOOLEAN, wire[e] # <<>>
  PROVE  [Rest(e) EXCEPT ![Other(e)] =
            Append(@, [name |-> n, keyed |-> k, word |-> None])] \in WireType
<1>1. [name |-> n, keyed |-> k, word |-> None] \in Message
  BY DEF Message
<1>2. Rest(e) \in WireType /\ Other(e) \in End
  BY RestTyped DEF Other, End
<1>3. Append(Rest(e)[Other(e)], [name |-> n, keyed |-> k, word |-> None]) \in Seq(Message)
  BY <1>1, <1>2 DEF WireType
<1> QED
  BY <1>2, <1>3 DEF WireType

LEMMA TakeTyped ==
  ASSUME TypeOK, NEW e \in End, Take(e)
  PROVE  chunk' \in [End -> Nat]
<1>1. CASE chunk[e] > 0
  <2>1. chunk[e] - 1 \in Nat
    BY <1>1 DEF TypeOK
  <2>2. chunk' = [chunk EXCEPT ![e] = chunk[e] - 1]
    BY <1>1 DEF Take
  <2> QED
    BY <2>1, <2>2 DEF TypeOK
<1>2. CASE ~(chunk[e] > 0)
  <2>1. Len(wire[e]) \in Nat
    BY DEF TypeOK
  <2> QED
    <3>1. PICK k \in 0 .. Len(wire[e]) - 1 : chunk' = [chunk EXCEPT ![e] = k]
      BY <1>2 DEF Take
    <3>2. k \in Nat
      BY <2>1
    <3> QED
      BY <3>1, <3>2 DEF TypeOK
<1> QED
  BY <1>1, <1>2

LEMMA SettleTyped ==
  ASSUME TypeOK, NEW e \in End, NEW p, NEW w \in Todo, Settle(e, p, w)
  PROVE  todo' \in [End -> Todo]
BY DEF Settle, TypeOK

LEMMA TypeInit == Init => TypeOK
<1> SUFFICES ASSUME Init PROVE TypeOK
  OBVIOUS
<1>1. repeats \in 0 .. MaxAuth
  BY HandshakeAssumption DEF Init
<1>2. /\ added \in [End -> BOOLEAN] /\ secret \in [End -> BOOLEAN]
      /\ pooled \in [End -> BOOLEAN] /\ misread \in [End -> BOOLEAN]
  BY Zenon DEF Init
<1>3. /\ at \in [End -> Place] /\ todo \in [End -> Todo] /\ chunk \in [End -> Nat]
      /\ wire \in [End -> Seq(Message)]
      /\ socket \in [End -> {"open", "destroyed", "closed"}]
      /\ password \in [End -> Password \cup {None}]
  BY DEF Init, Place, Todo
<1> QED
  BY <1>1, <1>2, <1>3 DEF TypeOK

\* A function of Booleans stays one
LEMMA Flags ==
  ASSUME NEW f \in [End -> BOOLEAN], NEW e \in End, NEW b \in BOOLEAN
  PROVE  [f EXCEPT ![e] = b] \in [End -> BOOLEAN]
BY Zenon

LEMMA TypeStep == TypeOK /\ [Next]_vars => TypeOK'
<1> SUFFICES ASSUME TypeOK, [Next]_vars PROVE TypeOK'
  OBVIOUS
<1>s. /\ \A e \in End : secret[e] \in BOOLEAN /\ password[e] \in Password \cup {None}
      /\ added \in [End -> BOOLEAN] /\ secret \in [End -> BOOLEAN]
      /\ pooled \in [End -> BOOLEAN] /\ misread \in [End -> BOOLEAN]
      /\ None \in Password \cup {None}
      /\ Name = {"key:exchange", "key:final", "auth", "auth:status", "identity"}
      /\ Todo = {"nothing", "secure", "identify", "confirm", "reject"}
  BY DEF TypeOK, Name, Todo
<1>1. ASSUME NEW e \in End, Add(e) PROVE TypeOK'
  <2>1. added' \in [End -> BOOLEAN]
    BY <1>1, <1>s, Flags DEF Add
  <2>2. wire' \in WireType
    <3>1. wire' = wire \/ wire' = Written(e, "key:exchange", None, secret[e])
      BY <1>1, Zenon DEF Add, Send
    <3>2. Written(e, "key:exchange", None, secret[e]) \in WireType
      <4> DEFINE k == secret[e]
      <4>1. k \in BOOLEAN /\ "key:exchange" \in Name
        BY <1>s
      <4> HIDE DEF k
      <4>2. Written(e, "key:exchange", None, k) \in WireType
        BY <1>s, <4>1, WrittenTyped
      <4> QED
        BY <4>2 DEF k
    <3> QED
      BY <3>1, <3>2 DEF TypeOK, WireType
  <2> QED
    BY <1>1, <2>1, <2>2 DEF Add, chain, TypeOK, WireType
<1>2. ASSUME NEW e \in End, KeyMessage(e) PROVE TypeOK'
  <2>1. chunk' \in [End -> Nat] /\ todo' \in [End -> Todo]
    BY <1>2, <1>s, TakeTyped, SettleTyped DEF KeyMessage
  <2>2. wire' \in WireType
    <3>1. CASE e = "server"
      <4> DEFINE k == secret[e]
      <4>1. k \in BOOLEAN
        BY <1>s
      <4>2. wire' = [Rest(e) EXCEPT ![Other(e)] =
                       Append(@, [name |-> "key:final", keyed |-> k, word |-> None])]
        BY <1>2, <3>1 DEF KeyMessage, Answer, PlainAnswer
      <4>3. wire[e] # <<>> /\ "key:final" \in Name
        BY <1>2, <1>s DEF KeyMessage
      <4> HIDE DEF k
      <4> QED
        BY <4>1, <4>2, <4>3, AnswerTyped
    <3>2. CASE e # "server"
      BY <1>2, <3>2, RestTyped DEF KeyMessage
    <3> QED
      BY <3>1, <3>2
  <2> QED
    BY <1>2, <2>1, <2>2 DEF KeyMessage, TypeOK, WireType
<1>3. ASSUME NEW e \in End, AuthMessage(e) PROVE TypeOK'
  <2>1. chunk' \in [End -> Nat] /\ todo' \in [End -> Todo]
    BY <1>3, <1>s, TakeTyped, SettleTyped DEF AuthMessage
  <2>2. wire' \in WireType
    BY <1>3, <1>s, AnswerTyped, RestTyped DEF AuthMessage, Answer
  <2> QED
    BY <1>3, <2>1, <2>2 DEF AuthMessage, TypeOK, WireType
<1>4. ASSUME NEW e \in End, StatusMessage(e) PROVE TypeOK'
  <2>1. chunk' \in [End -> Nat] /\ todo' \in [End -> Todo]
    BY <1>4, <1>s, TakeTyped, SettleTyped DEF StatusMessage
  <2>2. wire' \in WireType /\ repeats' \in 0 .. MaxAuth
    BY <1>4, RestTyped, HandshakeAssumption DEF StatusMessage
  <2> QED
    BY <1>4, <2>1, <2>2 DEF StatusMessage, TypeOK, WireType
<1>5. ASSUME NEW e \in End, IdentityMessage(e) PROVE TypeOK'
  <2>1. chunk' \in [End -> Nat] /\ todo' \in [End -> Todo]
    BY <1>5, <1>s, TakeTyped, SettleTyped DEF IdentityMessage
  <2>2. wire' \in WireType
    BY <1>5, <1>s, AnswerTyped, RestTyped DEF IdentityMessage, Answer
  <2>3. pooled' \in [End -> BOOLEAN]
    BY <1>5, <1>s, Flags DEF IdentityMessage
  <2> QED
    BY <1>5, <2>1, <2>2, <2>3 DEF IdentityMessage, TypeOK, WireType
<1>6. ASSUME NEW e \in End, Drop(e) PROVE TypeOK'
  <2>1. chunk' \in [End -> Nat] /\ wire' \in WireType
    BY <1>6, TakeTyped, RestTyped DEF Drop
  <2>2. misread' \in [End -> BOOLEAN]
    BY <1>6, <1>s, Flags DEF Drop
  <2> QED
    BY <1>6, <2>1, <2>2 DEF Drop, TypeOK, WireType
<1>7. ASSUME NEW e \in End, Continue(e) PROVE TypeOK'
  <2>1. todo' \in [End -> Todo]
    BY <1>7, <1>s DEF Continue, TypeOK
  <2>2. at' \in [End -> Place]
    BY <1>7 DEF Continue, Identify, TypeOK, Place
  <2>3. wire' \in WireType
    <3>1. wire' = wire \/ wire' = Written(e, "identity", None, TRUE)
      BY <1>7, Zenon DEF Continue, Identify
    <3>2. Written(e, "identity", None, TRUE) \in WireType
      BY <1>s, WrittenTyped
    <3> QED
      BY <3>1, <3>2 DEF TypeOK, WireType
  <2>4. secret' \in [End -> BOOLEAN]
    BY <1>7, <1>s, Flags DEF Continue
  <2>5. repeats' \in 0 .. MaxAuth
    BY <1>7, HandshakeAssumption DEF Continue, TypeOK
  <2>6. socket' \in [End -> {"open", "destroyed", "closed"}]
    BY <1>7 DEF Continue, Destroyed, TypeOK
  <2> QED
    BY <1>7, <2>1, <2>2, <2>3, <2>4, <2>5, <2>6 DEF Continue, TypeOK, WireType
<1>8. ASSUME Repeat PROVE TypeOK'
  <2>1. wire' \in WireType
    <3> DEFINE e == "client"
    <3>1. wire' = Written(e, "auth", password[e], secret[e])
      BY <1>8 DEF Repeat, Send
    <3>2. e \in End
      BY DEF End
    <3>3. "auth" \in Name /\ password[e] \in Password \cup {None} /\ secret[e] \in BOOLEAN
      BY <1>s, <3>2
    <3> HIDE DEF e
    <3> QED
      BY <3>1, <3>2, <3>3, WrittenTyped
  <2>2. repeats' \in 0 .. MaxAuth
    BY <1>8, HandshakeAssumption DEF Repeat, TypeOK
  <2> QED
    BY <1>8, <2>1, <2>2 DEF Repeat, chain, TypeOK, WireType
<1>9. ASSUME NEW e \in End, Timeout(e) \/ Fail(e) \/ HearClose(e) PROVE TypeOK'
  BY <1>9 DEF Timeout, Fail, HearClose, Destroyed, chain, TypeOK
<1>10. ASSUME NEW e \in End, Closed(e) PROVE TypeOK'
  <2>1. pooled' \in [End -> BOOLEAN]
    BY <1>10, <1>s, Flags DEF Closed, Removed
  <2>2. wire' \in WireType
    <3>1. <<>> \in Seq(Message)
      OBVIOUS
    <3> QED
      BY <1>10, <3>1 DEF Closed, TypeOK, WireType
  <2>3. socket' \in [End -> {"open", "destroyed", "closed"}]
    BY <1>10 DEF Closed, TypeOK
  <2> QED
    BY <1>10, <2>1, <2>2, <2>3 DEF Closed, chain, TypeOK, WireType
<1>11. ASSUME UNCHANGED vars PROVE TypeOK'
  BY <1>11 DEF vars, chain, TypeOK
<1> QED
  BY <1>1, <1>2, <1>3, <1>4, <1>5, <1>6, <1>7, <1>8, <1>9, <1>10, <1>11
     DEF Next, ByItself, Read

\* Every variable has its type, whatever the passwords.
THEOREM TypeCorrect == Spec => []TypeOK
BY TypeInit, TypeStep, PTL DEF Spec

----------------------------------------------------------------------------
(* The changeover to the key *)

KeyNames == {"key:exchange", "key:final"}
Sealed(q) == \A i \in 1 .. Len(q) : q[i].keyed = TRUE /\ q[i].name \notin KeyNames
PlainOnly(e, n) == wire[e] = <<[name |-> n, keyed |-> FALSE, word |-> None]>>
Calm(e) == todo[e] = "nothing" /\ chunk[e] = 0 /\ secret[e] = FALSE

\* A message in plain text is alone on both wires, and nobody has the key yet who
\* could write or miss another
Exchanging == /\ PlainOnly("server", "key:exchange") /\ wire["client"] = <<>>
              /\ added["client"] /\ Calm("server") /\ Calm("client")
Finishing  == /\ PlainOnly("client", "key:final") /\ wire["server"] = <<>>
              /\ added["client"] /\ Calm("client")
KeyedFor(e) ==
  /\ Sealed(wire[e])
  /\ wire[e] # <<>> => secret["client"] = TRUE /\ (e = "client" => secret["server"] = TRUE)

Has(e) == secret[e] = TRUE \/ todo[e] = "secure"

Changeover ==
  /\ KeyedFor("server") \/ Exchanging
  /\ KeyedFor("client") \/ Finishing
  /\ Has("client") \/ wire["client"] # <<>> => Has("server")

\* Where add waits, what runs next and the key go together
Steps ==
  /\ \A e \in End : /\ secret[e] = TRUE <=> at[e] # "key"
                    /\ at[e] = "key" => todo[e] \in {"nothing", "secure"}
                    /\ todo[e] = "secure" => at[e] = "key" /\ chunk[e] = 0
  /\ repeats > 0 => secret["client"] = TRUE
  /\ ~added["client"] => /\ wire["server"] = <<>> /\ wire["client"] = <<>>
                         /\ Calm("client") /\ Calm("server")

KeyInv == TypeOK /\ Changeover /\ Steps /\ NobodyMisreads

LEMMA SealedEmpty == Sealed(<<>>)
BY DEF Sealed

LEMMA SealedTail ==
  ASSUME NEW q \in Seq(Message), q # <<>>, Sealed(q)
  PROVE  Sealed(Tail(q)) /\ Head(q).keyed = TRUE /\ Head(q).name \notin KeyNames
<1>1. Len(q) \in Nat /\ Len(q) > 0 /\ Head(q) = q[1] /\ Len(Tail(q)) = Len(q) - 1
  OBVIOUS
<1>2. \A i \in 1 .. Len(Tail(q)) : Tail(q)[i] = q[i + 1] /\ i + 1 \in 1 .. Len(q)
  BY <1>1
<1> QED
  BY <1>1, <1>2 DEF Sealed

LEMMA SealedAppend ==
  ASSUME NEW q \in Seq(Message), NEW m \in Message, Sealed(q),
         m.keyed = TRUE, m.name \notin KeyNames
  PROVE  Sealed(Append(q, m)) /\ Append(q, m) # <<>>
<1>1. /\ Len(Append(q, m)) = Len(q) + 1 /\ Len(q) \in Nat
      /\ \A i \in 1 .. Len(q) : Append(q, m)[i] = q[i]
      /\ Append(q, m)[Len(q) + 1] = m
  OBVIOUS
<1> QED
  BY <1>1 DEF Sealed

LEMMA Ends == End = {"client", "server"} /\ Other("client") = "server" /\ Other("server") = "client"
BY DEF End, Other

\* What is at the head of a wire has been written with the key of the reader
LEMMA Reading ==
  ASSUME KeyInv, NEW e \in End, Take(e)
  PROVE  /\ wire[e] # <<>> /\ Head(wire[e]).keyed = secret[e]
         /\ \/ /\ KeyedFor(e) /\ ~(e = "server" /\ Exchanging) /\ ~(e = "client" /\ Finishing)
               /\ Sealed(Tail(wire[e])) /\ Head(wire[e]).name \notin KeyNames
               /\ secret["client"] = TRUE /\ secret["server"] = TRUE
            \/ e = "server" /\ Exchanging
            \/ e = "client" /\ Finishing
<1>1. wire[e] \in Seq(Message) /\ wire[e] # <<>> /\ e \in {"client", "server"}
  BY Ends DEF Take, KeyInv, TypeOK
<1>2. CASE e = "server" /\ Exchanging
  <2>1. Head(wire[e]) = [name |-> "key:exchange", keyed |-> FALSE, word |-> None]
    BY <1>2 DEF Exchanging, PlainOnly
  <2>2. Head(wire[e]).keyed = FALSE
    BY <2>1
  <2>3. secret[e] = FALSE
    BY <1>2 DEF Exchanging, Calm
  <2> QED
    BY <1>1, <1>2, <2>2, <2>3, Zenon
<1>3. CASE e = "client" /\ Finishing
  <2>1. Head(wire[e]) = [name |-> "key:final", keyed |-> FALSE, word |-> None]
    BY <1>3 DEF Finishing, PlainOnly
  <2>2. Head(wire[e]).keyed = FALSE
    BY <2>1
  <2>3. secret[e] = FALSE
    BY <1>3 DEF Finishing, Calm
  <2> QED
    BY <1>1, <1>3, <2>2, <2>3, Zenon
<1>4. CASE ~(e = "server" /\ Exchanging) /\ ~(e = "client" /\ Finishing)
  <2>1. KeyedFor(e)
    BY <1>1, <1>4 DEF KeyInv, Changeover
  <2>2. Sealed(Tail(wire[e])) /\ Head(wire[e]).keyed = TRUE /\ Head(wire[e]).name \notin KeyNames
    BY <1>1, <2>1, SealedTail DEF KeyedFor
  <2>3. secret["client"] = TRUE
    BY <1>1, <2>1 DEF KeyedFor
  <2>4. secret["server"] = TRUE
    <3>1. Has("server")
      BY <2>3 DEF KeyInv, Changeover, Has
    <3>2. CASE todo["server"] = "secure"
      <4>1. chunk["server"] = 0
        BY <3>2, Ends DEF KeyInv, Steps
      <4>2. e = "client"
        BY <1>1, <3>2, <4>1 DEF Take, Idle
      <4> QED
        BY <1>1, <2>1, <4>2 DEF KeyedFor
    <3> QED
      BY <3>1, <3>2 DEF Has
  <2>5. secret[e] = TRUE
    BY <1>1, <2>3, <2>4
  <2> QED
    BY <1>1, <1>4, <2>1, <2>2, <2>3, <2>4, <2>5
<1> QED
  BY <1>2, <1>3, <1>4

\* What the wires hold after a step that reads the head of e's and perhaps answers
\* with a message in the same state of the key
LEMMA ReadKeeps ==
  ASSUME KeyInv, NEW e \in End, Take(e), secret["client"] = TRUE, secret["server"] = TRUE,
         KeyedFor(e), Sealed(Tail(wire[e])),
         UNCHANGED <<secret, added>>,
         \/ wire' = Rest(e)
         \/ \E m \in Message : /\ m.keyed = TRUE /\ m.name \notin KeyNames
                               /\ wire' = [Rest(e) EXCEPT ![Other(e)] = Append(@, m)]
  PROVE  Changeover'
<1> DEFINE o == Other(e)
<1>1. /\ o \in End /\ o # e /\ {e, o} = {"client", "server"}
      /\ wire[e] \in Seq(Message) /\ wire[o] \in Seq(Message) /\ e # o
  BY Ends DEF KeyInv, TypeOK
<1>2. KeyedFor("server") /\ KeyedFor("client")
  BY DEF KeyInv, Changeover, Exchanging, Finishing, Calm
<1>3. Sealed(wire'[e]) /\ Sealed(wire'[o])
  <2>1. Sealed(wire[o])
    BY <1>1, <1>2 DEF KeyedFor
  <2>2. CASE wire' = Rest(e)
    <3>1. wire'[e] = Tail(wire[e]) /\ wire'[o] = wire[o]
      BY <1>1, <2>2 DEF Rest, KeyInv, TypeOK
    <3> QED
      BY <2>1, <3>1
  <2>3. ASSUME NEW m \in Message, m.keyed = TRUE, m.name \notin KeyNames,
               wire' = [Rest(e) EXCEPT ![o] = Append(@, m)]
        PROVE  Sealed(wire'[e]) /\ Sealed(wire'[o])
    <3>1. wire'[e] = Tail(wire[e]) /\ wire'[o] = Append(wire[o], m)
      BY <1>1, <2>3 DEF Rest, KeyInv, TypeOK
    <3> QED
      BY <1>1, <2>1, <2>3, <3>1, SealedAppend
  <2> QED
    BY <2>2, <2>3
<1> HIDE DEF o
<1>4. Sealed(wire'["client"]) /\ Sealed(wire'["server"])
  BY <1>1, <1>3
<1> QED
  BY <1>4 DEF Changeover, KeyedFor, Has

\* A step that leaves wires and keys alone
LEMMA SameKeys ==
  ASSUME KeyInv, UNCHANGED <<wire, secret, todo, chunk, added, at, misread>>,
         repeats' > 0 => repeats > 0, TypeOK'
  PROVE  KeyInv'
<1>1. /\ Sealed(wire["client"])' <=> Sealed(wire["client"])
      /\ Sealed(wire["server"])' <=> Sealed(wire["server"])
  BY DEF Sealed
<1>2. Changeover'
  BY <1>1 DEF KeyInv, Changeover, KeyedFor, Exchanging, Finishing, PlainOnly, Calm, Has
<1> QED
  BY <1>2 DEF KeyInv, Steps, Calm, NobodyMisreads

LEMMA KeyInit == Init => KeyInv
<1> SUFFICES ASSUME Init PROVE KeyInv
  OBVIOUS
<1>1. TypeOK
  BY TypeInit
<1>2. \A e \in End : /\ wire[e] = <<>> /\ todo[e] = "nothing" /\ chunk[e] = 0
                     /\ secret[e] = FALSE /\ at[e] = "key" /\ ~misread[e]
  BY Zenon DEF Init
<1>3. repeats = 0
  BY DEF Init
<1>4. Changeover
  BY <1>2, Ends, SealedEmpty DEF Changeover, KeyedFor, Has
<1> QED
  BY <1>1, <1>2, <1>3, <1>4, Ends DEF KeyInv, Steps, Calm, NobodyMisreads

\* The promises go on as before, except perhaps one
LEMMA SettleKeeps ==
  ASSUME KeyInv, NEW e \in End, NEW p \in {"auth", "identity"},
         NEW w \in {"identify", "reject", "confirm"}, Settle(e, p, w), Take(e),
         UNCHANGED <<at, secret, added>>, repeats' > 0 => repeats > 0,
         secret["client"] = TRUE
  PROVE  Steps'
<1>1. \A f \in End : /\ at[f] = "key" => todo'[f] = todo[f]
                     /\ todo'[f] = "secure" => todo[f] = "secure"
  BY DEF Settle, KeyInv, TypeOK
<1>2. \A f \in End : todo[f] = "secure" => chunk'[f] = chunk[f]
  <2>1. todo[e] # "secure"
    BY DEF Take, Idle, KeyInv, Steps
  <2>2. \A f \in End : f # e => chunk'[f] = chunk[f]
    BY DEF Take, KeyInv, TypeOK
  <2> QED
    BY <2>1, <2>2
<1>3. added["client"]
  BY Ends DEF KeyInv, Steps, Calm
<1> QED
  BY <1>1, <1>2, <1>3, Ends DEF KeyInv, Steps

\* 'key:exchange' at the server and 'key:final' at the client
LEMMA KeyRead ==
  ASSUME KeyInv, NEW e \in End, KeyMessage(e)
  PROVE  Changeover' /\ Steps'
<1>0. /\ Take(e) /\ Settle(e, "key", "secure")
      /\ UNCHANGED <<added, at, secret, repeats>>
      /\ Head(wire[e]).name \in KeyNames
      /\ Listens(e, Head(wire[e]).name)
  BY DEF KeyMessage, Heard, KeyNames
<1>t. /\ "client" \in End /\ "server" \in End /\ "client" # "server"
      /\ wire \in [End -> Seq(Message)] /\ todo \in [End -> Todo] /\ chunk \in [End -> Nat]
  BY Ends DEF KeyInv, TypeOK
<1>1. CASE e = "server" /\ Exchanging
  <2>1. /\ Tail(wire["server"]) = <<>> /\ Len(wire["server"]) = 1
        /\ wire["client"] = <<>> /\ added["client"] /\ Calm("server") /\ Calm("client")
    BY <1>1 DEF Exchanging, PlainOnly
  <2>2. wire'["server"] = <<>> /\ PlainOnly("client", "key:final")'
    <3>1. wire' = [Rest("server") EXCEPT !["client"] =
                     Append(@, [name |-> "key:final", keyed |-> FALSE, word |-> None])]
      BY <1>1, <2>1, Ends DEF KeyMessage, Answer, PlainAnswer, Calm
    <3>2. Rest("server")["server"] = <<>> /\ Rest("server")["client"] = <<>>
      BY <1>t, <2>1 DEF Rest
    <3> QED
      <4> DEFINE m == [name |-> "key:final", keyed |-> FALSE, word |-> None]
      <4>1. wire'["server"] = <<>> /\ wire'["client"] = Append(<<>>, m)
        BY <1>t, <3>1, <3>2 DEF Rest
      <4>2. Append(<<>>, m) = <<m>>
        OBVIOUS
      <4> QED
        BY <4>1, <4>2 DEF PlainOnly
  <2>3. chunk'["server"] = 0 /\ chunk'["client"] = 0
    <3>1. chunk["server"] = 0 /\ chunk["client"] = 0
      BY <2>1 DEF Calm
    <3>2. PICK k \in 0 .. Len(wire["server"]) - 1 : chunk' = [chunk EXCEPT !["server"] = k]
      BY <1>0, <1>1, <3>1 DEF Take
    <3> QED
      BY <1>t, <2>1, <3>1, <3>2
  <2>4. todo'["server"] = "secure" /\ todo'["client"] = "nothing"
    <3>1. at["server"] = "key" /\ todo["server"] = "nothing" /\ todo["client"] = "nothing"
      BY <1>t, <2>1 DEF KeyInv, Steps, Calm
    <3> QED
      BY <1>0, <1>1, <1>t, <3>1 DEF Settle
  <2>5. secret["server"] = FALSE /\ secret["client"] = FALSE /\ at["server"] = "key" /\ at["client"] = "key"
    BY <1>t, <2>1 DEF KeyInv, Steps, Calm
  <2>6. Sealed(wire'["server"])
    BY <2>2, SealedEmpty
  <2>7. Changeover'
    BY <1>0, <2>1, <2>2, <2>3, <2>4, <2>5, <2>6
       DEF Changeover, KeyedFor, Finishing, Calm, Has
  <2>8. repeats' > 0 => secret'["client"] = TRUE
    BY <1>0 DEF KeyInv, Steps
  <2>9. Steps'
    BY <1>0, <2>1, <2>3, <2>4, <2>5, <2>8, Ends DEF Steps
  <2> QED
    BY <2>7, <2>9
<1>2. CASE e = "client" /\ Finishing
  <2>1. /\ Tail(wire["client"]) = <<>> /\ Len(wire["client"]) = 1 /\ wire["client"] # <<>>
        /\ wire["server"] = <<>> /\ added["client"] /\ Calm("client")
    BY <1>2 DEF Finishing, PlainOnly
  <2>2. wire'["server"] = <<>> /\ wire'["client"] = <<>>
    <3>1. wire' = Rest("client")
      BY <1>2 DEF KeyMessage
    <3> QED
      BY <1>t, <2>1, <3>1 DEF Rest
  <2>3. chunk'["client"] = 0 /\ chunk'["server"] = chunk["server"]
    <3>1. chunk["client"] = 0
      BY <2>1 DEF Calm
    <3>2. PICK k \in 0 .. Len(wire["client"]) - 1 : chunk' = [chunk EXCEPT !["client"] = k]
      BY <1>0, <1>2, <3>1 DEF Take
    <3> QED
      BY <1>t, <2>1, <3>1, <3>2
  <2>4. todo'["client"] = "secure" /\ todo'["server"] = todo["server"]
    <3>1. at["client"] = "key" /\ todo["client"] = "nothing"
      BY <1>t, <2>1 DEF KeyInv, Steps, Calm
    <3> QED
      BY <1>0, <1>2, <1>t, <3>1 DEF Settle
  <2>5. secret["client"] = FALSE /\ at["client"] = "key" /\ Has("server")
    BY <1>t, <2>1 DEF KeyInv, Steps, Calm, Changeover
  <2>7. Changeover'
    BY <1>0, <2>2, <2>4, <2>5, SealedEmpty DEF Changeover, KeyedFor, Has
  <2>8. repeats' > 0 => secret'["client"] = TRUE
    BY <1>0 DEF KeyInv, Steps
  <2>9. Steps'
    BY <1>0, <2>1, <2>3, <2>4, <2>5, <2>8, Ends DEF KeyInv, Steps
  <2> QED
    BY <2>7, <2>9
<1> QED
  BY <1>0, <1>1, <1>2, Reading

LEMMA KeyStep == KeyInv /\ [Next]_vars => KeyInv'
<1> SUFFICES ASSUME KeyInv, [Next]_vars PROVE KeyInv'
  OBVIOUS
<1>0. TypeOK'
  BY TypeStep DEF KeyInv
<1>t. /\ "client" \in End /\ "server" \in End /\ "client" # "server"
      /\ \A e \in End : e = "client" \/ e = "server"
      /\ wire \in [End -> Seq(Message)] /\ todo \in [End -> Todo] /\ chunk \in [End -> Nat]
      /\ at \in [End -> Place] /\ secret \in [End -> BOOLEAN] /\ added \in [End -> BOOLEAN]
  BY Ends DEF KeyInv, TypeOK
<1>1. ASSUME NEW e \in End, Add(e) PROVE KeyInv'
  <2>0. UNCHANGED <<at, todo, chunk, secret, repeats, misread>>
    BY <1>1 DEF Add, chain
  <2>1. CASE e = "client"
    <3>1. /\ ~added["client"] /\ Open("client")
      BY <1>1, <2>1 DEF Add
    <3>2. wire["server"] = <<>> /\ wire["client"] = <<>> /\ Calm("client") /\ Calm("server")
      BY <3>1 DEF KeyInv, Steps
    <3>3. wire' = [wire EXCEPT !["server"] =
                     Append(@, [name |-> "key:exchange", keyed |-> FALSE, word |-> None])]
      BY <1>1, <2>1, <3>1, <3>2, Ends DEF Add, Send, Written, Calm
    <3>4. wire'["client"] = <<>> /\ PlainOnly("server", "key:exchange")'
      <4> DEFINE m == [name |-> "key:exchange", keyed |-> FALSE, word |-> None]
      <4>1. wire'["client"] = wire["client"] /\ wire'["server"] = Append(<<>>, m)
        BY <1>t, <3>2, <3>3
      <4>2. Append(<<>>, m) = <<m>>
        OBVIOUS
      <4> QED
        BY <3>2, <4>1, <4>2 DEF PlainOnly
    <3>5. added'["client"]
      BY <1>1, <1>t, <2>1 DEF Add
    <3>6. ~Has("client")
      BY <3>2 DEF Calm, Has
    <3>7. Changeover'
      BY <2>0, <3>2, <3>4, <3>5, <3>6, SealedEmpty
         DEF Changeover, KeyedFor, Exchanging, Calm, Has
    <3>8. Steps'
      BY <2>0, <3>5 DEF KeyInv, Steps
    <3> QED
      BY <1>0, <2>0, <3>7, <3>8 DEF KeyInv, NobodyMisreads
  <2>2. CASE e = "server"
    <3>1. UNCHANGED wire /\ added'["client"] = added["client"]
      BY <1>1, <1>t, <2>2 DEF Add
    <3>2. Changeover'
      BY <2>0, <3>1 DEF KeyInv, Changeover, KeyedFor, Sealed, Exchanging, Finishing,
                        PlainOnly, Calm, Has
    <3>3. Steps'
      BY <2>0, <3>1 DEF KeyInv, Steps, Calm
    <3> QED
      BY <1>0, <2>0, <3>2, <3>3 DEF KeyInv, NobodyMisreads
  <2> QED
    BY <1>t, <2>1, <2>2
<1>2. ASSUME NEW e \in End, KeyMessage(e) PROVE KeyInv'
  <2>1. UNCHANGED misread
    BY <1>2 DEF KeyMessage
  <2> QED
    BY <1>0, <1>2, <2>1, KeyRead DEF KeyInv, NobodyMisreads
<1>3. ASSUME NEW e \in End, Take(e), Head(wire[e]).name \notin KeyNames
      PROVE  /\ KeyedFor(e) /\ Sealed(Tail(wire[e])) /\ Head(wire[e]).keyed = secret[e]
             /\ secret["client"] = TRUE /\ secret["server"] = TRUE /\ secret[e] = TRUE
  <2>1. Exchanging /\ e = "server" => Head(wire[e]).name \in KeyNames
    BY DEF Exchanging, PlainOnly, KeyNames
  <2>2. Finishing /\ e = "client" => Head(wire[e]).name \in KeyNames
    BY DEF Finishing, PlainOnly, KeyNames
  <2> QED
    BY <1>3, <1>t, <2>1, <2>2, Reading
<1>4. ASSUME NEW e \in End, AuthMessage(e) \/ StatusMessage(e) \/ IdentityMessage(e)
      PROVE  KeyInv'
  <2>1. /\ Take(e) /\ Head(wire[e]).name \notin KeyNames
        /\ UNCHANGED <<secret, added, at, misread>> /\ (repeats' > 0 => repeats > 0)
    BY <1>4 DEF AuthMessage, StatusMessage, IdentityMessage, Heard, KeyNames
  <2>2. \E p \in {"auth", "identity"}, w \in {"identify", "reject", "confirm"} : Settle(e, p, w)
    BY <1>4 DEF AuthMessage, StatusMessage, IdentityMessage
  <2>3. \/ wire' = Rest(e)
        \/ \E m \in Message : /\ m.keyed = TRUE /\ m.name \notin KeyNames
                              /\ wire' = [Rest(e) EXCEPT ![Other(e)] = Append(@, m)]
    <3>1. ASSUME NEW n \in {"auth:status", "identity"}, Answer(e, n, secret[e])
          PROVE  \E m \in Message : /\ m.keyed = TRUE /\ m.name \notin KeyNames
                                    /\ wire' = [Rest(e) EXCEPT ![Other(e)] = Append(@, m)]
      <4> DEFINE m == [name |-> n, keyed |-> TRUE, word |-> None]
      <4>1. m \in Message /\ m.keyed = TRUE /\ m.name \notin KeyNames
        BY DEF Message, Name, KeyNames
      <4>2. wire' = [Rest(e) EXCEPT ![Other(e)] = Append(@, m)]
        <5>1. secret[e] = TRUE
          BY <1>3, <2>1
        <5> QED
          BY <3>1, <5>1 DEF Answer
      <4> HIDE DEF m
      <4> QED
        BY <4>1, <4>2
    <3>2. wire' = Rest(e) \/ Answer(e, "auth:status", secret[e]) \/ Answer(e, "identity", secret[e])
      BY <1>4, Zenon DEF AuthMessage, StatusMessage, IdentityMessage
    <3> QED
      BY <3>1, <3>2
  <2>4. Changeover'
    BY <1>3, <2>1, <2>3, ReadKeeps
  <2>5. Steps'
    BY <1>3, <2>1, <2>2, SettleKeeps
  <2> QED
    BY <1>0, <2>1, <2>4, <2>5 DEF KeyInv, NobodyMisreads
<1>5. ASSUME NEW e \in End, Drop(e) PROVE KeyInv'
  <2>1. /\ Take(e) /\ wire' = Rest(e) /\ ~\E name \in Name : Heard(e, name)
        /\ UNCHANGED <<todo, secret, added, at, repeats>>
        /\ misread' = [misread EXCEPT ![e] = @ \/ ~Matches(e)]
    BY <1>5 DEF Drop
  <2>2. Matches(e)
    BY <2>1, Reading, Zenon DEF Matches
  <2>3. Head(wire[e]).name \notin KeyNames
    <3>1. e = "server" /\ Exchanging => FALSE
      <4>1. SUFFICES ASSUME e = "server", Exchanging PROVE FALSE
        OBVIOUS
      <4>2. Head(wire[e]).name = "key:exchange"
        BY <4>1 DEF Exchanging, PlainOnly
      <4>3. Heard(e, "key:exchange")
        BY <2>2, <4>1, <4>2 DEF Heard, Listens
      <4> QED
        BY <2>1, <4>3 DEF Name
    <3>2. e = "client" /\ Finishing => FALSE
      <4>1. SUFFICES ASSUME e = "client", Finishing PROVE FALSE
        OBVIOUS
      <4>2. Head(wire[e]).name = "key:final"
        BY <4>1 DEF Finishing, PlainOnly
      <4>3. Heard(e, "key:final")
        BY <2>2, <4>1, <4>2 DEF Heard, Listens
      <4> QED
        BY <2>1, <4>3 DEF Name
    <3> QED
      BY <2>1, <3>1, <3>2, Reading
  <2>4. Changeover'
    BY <1>3, <2>1, <2>3, ReadKeeps
  <2>5. Steps'
    <3>1. \A f \in End : todo[f] = "secure" => chunk'[f] = chunk[f]
      <4>1. todo[e] # "secure"
        BY <2>1 DEF Take, Idle, KeyInv, Steps
      <4>2. \A f \in End : f # e => chunk'[f] = chunk[f]
        BY <2>1, <1>t DEF Take
      <4> QED
        BY <4>1, <4>2
    <3>2. added["client"]
      BY <1>3, <2>1, <2>3 DEF KeyInv, Steps, Calm
    <3> QED
      BY <2>1, <3>1, <3>2 DEF KeyInv, Steps
  <2>6. misread' = misread
    <3>1. misread \in [End -> BOOLEAN] /\ ~misread[e]
      BY DEF KeyInv, TypeOK, NobodyMisreads
    <3>2. \A f \in End : ~misread'[f]
      BY <2>1, <2>2, <3>1, Zenon DEF KeyInv, NobodyMisreads
    <3>3. \A f \in End : ~misread[f]
      BY DEF KeyInv, NobodyMisreads
    <3> QED
      BY <2>1, <2>2, <3>1, Zenon
  <2> QED
    BY <1>0, <2>4, <2>5, <2>6 DEF KeyInv, NobodyMisreads
<1>6. ASSUME Repeat PROVE KeyInv'
  <2>1. UNCHANGED <<added, at, todo, chunk, secret, misread>> /\ repeats > 0
    BY <1>6 DEF Repeat, chain
  <2>2. secret["client"] = TRUE /\ added["client"]
    BY <2>1 DEF KeyInv, Steps, Calm
  <2>3. KeyedFor("server") /\ KeyedFor("client") /\ Has("server")
    BY <2>2 DEF KeyInv, Changeover, Exchanging, Finishing, Calm, Has
  <2> DEFINE m == [name |-> "auth", keyed |-> TRUE, word |-> password["client"]]
  <2>4. wire' = wire \/ wire' = [wire EXCEPT !["server"] = Append(@, m)]
    BY <1>6, <2>2, Ends DEF Repeat, Send, Written
  <2>5. m \in Message /\ m.keyed = TRUE /\ m.name \notin KeyNames
    BY <1>t DEF Message, Name, KeyNames, KeyInv, TypeOK
  <2> HIDE DEF m
  <2>6. Sealed(wire'["server"]) /\ wire'["client"] = wire["client"]
    <3>1. Sealed(wire["server"]) /\ wire["server"] \in Seq(Message)
      BY <1>t, <2>3 DEF KeyedFor
    <3>2. CASE wire' = wire
      BY <3>1, <3>2
    <3>3. CASE wire' = [wire EXCEPT !["server"] = Append(@, m)]
      <4>1. wire'["server"] = Append(wire["server"], m) /\ wire'["client"] = wire["client"]
        BY <1>t, <3>3
      <4> QED
        BY <2>5, <3>1, <4>1, SealedAppend
    <3> QED
      BY <2>4, <3>2, <3>3
  <2>7. Changeover'
    BY <2>1, <2>2, <2>3, <2>6 DEF Changeover, KeyedFor, Has
  <2>8. Steps'
    BY <2>1, <2>2 DEF KeyInv, Steps
  <2> QED
    BY <1>0, <2>1, <2>7, <2>8 DEF KeyInv, NobodyMisreads
<1>7. ASSUME NEW e \in End, Timeout(e) \/ Fail(e) \/ HearClose(e) PROVE KeyInv'
  <2>1. UNCHANGED <<wire, secret, todo, chunk, added, at, misread, repeats>>
    BY <1>7 DEF Timeout, Fail, HearClose, chain
  <2> QED
    BY <1>0, <2>1, SameKeys
<1>8. ASSUME NEW e \in End, Closed(e) PROVE KeyInv'
  <2>1. /\ UNCHANGED <<secret, todo, chunk, added, at, misread, repeats>>
        /\ wire' = [wire EXCEPT ![e] = <<>>]
    BY <1>8 DEF Closed, chain
  <2>2. wire'[e] = <<>> /\ \A f \in End : f # e => wire'[f] = wire[f]
    BY <1>t, <2>1
  <2>3. Changeover'
    <3>1. CASE e = "server"
      BY <1>t, <2>1, <2>2, <3>1, SealedEmpty
         DEF KeyInv, Changeover, KeyedFor, Finishing, PlainOnly, Calm, Has
    <3>2. CASE e = "client"
      BY <1>t, <2>1, <2>2, <3>2, SealedEmpty
         DEF KeyInv, Changeover, KeyedFor, Exchanging, PlainOnly, Calm, Has
    <3> QED
      BY <1>t, <3>1, <3>2
  <2>4. Steps'
    BY <1>t, <2>1, <2>2 DEF KeyInv, Steps, Calm
  <2> QED
    BY <1>0, <2>1, <2>3, <2>4 DEF KeyInv, NobodyMisreads
<1>9. ASSUME UNCHANGED vars PROVE KeyInv'
  BY <1>0, <1>9, SameKeys DEF vars, chain
<1>10. ASSUME NEW e \in End, Continue(e) PROVE KeyInv'
  <2>1. /\ UNCHANGED <<added, chunk, misread>> /\ chunk[e] = 0 /\ todo[e] # "nothing"
        /\ todo'[e] = "nothing" /\ \A f \in End : f # e => todo'[f] = todo[f]
    BY <1>10, <1>t DEF Continue
  <2>2. secret'[e] = TRUE /\ \A f \in End : f # e => secret'[f] = secret[f]
    <3>1. todo[e] # "secure" => secret[e] = TRUE
      BY <2>1 DEF KeyInv, Steps
    <3>2. \/ todo[e] = "secure" /\ secret' = [secret EXCEPT ![e] = TRUE]
          \/ todo[e] # "secure" /\ secret' = secret
      BY <1>10 DEF Continue
    <3> QED
      BY <1>t, <3>1, <3>2, Zenon
  <2>3. at'[e] # "key" /\ \A f \in End : f # e => at'[f] = at[f]
    <3>1. todo[e] # "secure" => at[e] # "key"
      BY <2>1 DEF KeyInv, Steps
    <3>2. \/ \E p \in {"identity", "auth", "confirmed"} : at' = [at EXCEPT ![e] = p]
          \/ todo[e] # "secure" /\ at' = at
      BY <1>10 DEF Continue, Identify
    <3> QED
      BY <1>t, <3>1, <3>2
  <2>4. ~Calm(e)
    BY <2>1 DEF Calm
  <2>5. /\ KeyedFor("server") /\ (e = "client" => KeyedFor("client"))
        /\ KeyedFor("client") \/ Finishing
    BY <1>t, <2>4 DEF KeyInv, Changeover, Exchanging, Finishing
  <2> DEFINE m == [name |-> "identity", keyed |-> TRUE, word |-> None]
  <2>6. wire' = wire \/ (e = "client" /\ wire' = [wire EXCEPT !["server"] = Append(@, m)])
    <3>1. wire' = wire \/ (e = "client" /\ wire' = Written(e, "identity", None, TRUE))
      BY <1>10, Zenon DEF Continue, Identify
    <3> QED
      BY <3>1, Ends DEF Written
  <2>7. m \in Message /\ m.keyed = TRUE /\ m.name \notin KeyNames
    BY DEF Message, Name, KeyNames
  <2> HIDE DEF m
  <2>8. /\ Sealed(wire'["server"]) /\ wire'["client"] = wire["client"]
        /\ wire' = wire \/ e = "client"
    <3>1. Sealed(wire["server"]) /\ wire["server"] \in Seq(Message)
      BY <1>t, <2>5 DEF KeyedFor
    <3>2. CASE wire' = wire
      BY <3>1, <3>2
    <3>3. CASE e = "client" /\ wire' = [wire EXCEPT !["server"] = Append(@, m)]
      <4>1. wire'["server"] = Append(wire["server"], m) /\ wire'["client"] = wire["client"]
        BY <1>t, <3>3
      <4> QED
        BY <2>7, <3>1, <3>3, <4>1, SealedAppend
    <3> QED
      BY <2>6, <3>2, <3>3
  <2>9. Has("server")'
    <3>1. CASE e = "server"
      BY <2>2, <3>1 DEF Has
    <3>2. CASE e = "client"
      <4>1. Has("client")
        BY <1>t, <2>1, <3>2 DEF KeyInv, Steps, Has
      <4>2. Has("server")
        BY <4>1 DEF KeyInv, Changeover
      <4> QED
        BY <1>t, <2>1, <2>2, <3>2, <4>2 DEF Has
    <3> QED
      BY <1>t, <3>1, <3>2
  <2>10. KeyedFor("server")'
    BY <1>t, <2>2, <2>5, <2>8 DEF KeyedFor
  <2>11. KeyedFor("client")' \/ Finishing'
    <3>1. CASE KeyedFor("client")
      BY <1>t, <2>2, <2>8, <3>1 DEF KeyedFor
    <3>2. CASE e = "server" /\ Finishing
      BY <1>t, <2>1, <2>2, <2>8, <3>2 DEF Finishing, PlainOnly, Calm
    <3> QED
      BY <1>t, <2>5, <3>1, <3>2
  <2>12. Changeover'
    BY <2>9, <2>10, <2>11 DEF Changeover
  <2>13. repeats' > 0 => secret'["client"] = TRUE
    <3>1. repeats' = repeats \/ e = "client"
      BY <1>10, Zenon DEF Continue, Identify
    <3> QED
      BY <1>t, <2>2, <3>1 DEF KeyInv, Steps
  <2>14. added["client"]
    BY <1>t, <2>4 DEF KeyInv, Steps
  <2>15. Steps'
    BY <1>t, <2>1, <2>2, <2>3, <2>13, <2>14 DEF KeyInv, Steps
  <2> QED
    BY <1>0, <2>1, <2>12, <2>15 DEF KeyInv, NobodyMisreads
<1> QED
  BY <1>1, <1>2, <1>4, <1>5, <1>6, <1>7, <1>8, <1>9, <1>10 DEF Next, ByItself, Read

\* Nothing is read in another state of the key than it was written in.
THEOREM NobodyMisreadsHolds == Spec => []NobodyMisreads
<1>1. KeyInv => NobodyMisreads
  BY DEF KeyInv
<1> QED
  BY <1>1, KeyInit, KeyStep, PTL DEF Spec

----------------------------------------------------------------------------
(* The password and the pool *)

Agree == password["client"] = password["server"]
Cleared(e) == password[e] = None \/ Agree
Told == pooled["server"] \/ socket["server"] = "closed"

\* What a message on its way says of the two ends
Good(e, m) ==
  /\ m.name = "auth" => m.word = password["client"] /\ m.word # None
  /\ m.name = "auth:status" => Agree
  /\ m.name = "identity" => IF e = "server" THEN Cleared("client") ELSE Agree /\ Told
WireGood(e) == \A i \in 1 .. Len(wire[e]) : Good(e, wire[e][i])

Passed(e) == at[e] \in {"identity", "confirmed"} \/ todo[e] \in {"identify", "confirm"}

AdmissionInv ==
  /\ TypeOK
  /\ \A e \in End : Passed(e) => Cleared(e)
  /\ \A e \in End : WireGood(e)
  /\ \A e \in End : /\ pooled[e] => socket[e] # "closed"
                    /\ todo[e] # "nothing" => socket[e] = "open"
  /\ repeats > 0 => password["client"] # None

LEMMA GoodWire ==
  ASSUME TypeOK, NEW e \in End, WireGood(e), UNCHANGED password, Told => Told',
         \/ wire'[e] = wire[e] \/ wire'[e] = <<>>
         \/ wire[e] # <<>> /\ wire'[e] = Tail(wire[e])
         \/ \E m \in Message : Good(e, m)' /\ wire'[e] = Append(wire[e], m)
  PROVE  WireGood(e)'
<1>1. wire[e] \in Seq(Message) /\ Len(wire[e]) \in Nat
  BY DEF TypeOK
<1>2. \A m : Good(e, m) => Good(e, m)'
  BY DEF Good, Agree, Cleared
<1>3. CASE wire'[e] = wire[e]
  BY <1>2, <1>3 DEF WireGood
<1>4. CASE wire'[e] = <<>>
  BY <1>4 DEF WireGood
<1>5. CASE wire[e] # <<>> /\ wire'[e] = Tail(wire[e])
  <2>1. \A i \in 1 .. Len(wire'[e]) : wire'[e][i] = wire[e][i + 1] /\ i + 1 \in 1 .. Len(wire[e])
    BY <1>1, <1>5
  <2> QED
    BY <1>2, <2>1 DEF WireGood
<1>6. ASSUME NEW m \in Message, Good(e, m)', wire'[e] = Append(wire[e], m)
      PROVE  WireGood(e)'
  <2>1. /\ Len(wire'[e]) = Len(wire[e]) + 1 /\ wire'[e][Len(wire[e]) + 1] = m
        /\ \A i \in 1 .. Len(wire[e]) : wire'[e][i] = wire[e][i]
    BY <1>1, <1>6
  <2> QED
    BY <1>1, <1>2, <1>6, <2>1 DEF WireGood
<1> QED
  BY <1>3, <1>4, <1>5, <1>6

\* The head of a wire is good
LEMMA GoodHead ==
  ASSUME AdmissionInv, NEW e \in End, wire[e] # <<>>
  PROVE  Good(e, Head(wire[e])) /\ Head(wire[e]) \in Message
<1>1. wire[e] \in Seq(Message) /\ Len(wire[e]) \in Nat /\ Len(wire[e]) > 0
  BY DEF AdmissionInv, TypeOK
<1>2. Head(wire[e]) = wire[e][1] /\ 1 \in 1 .. Len(wire[e])
  BY <1>1
<1> QED
  BY <1>1, <1>2 DEF AdmissionInv, WireGood

LEMMA AdmissionInit == Init => AdmissionInv
<1> SUFFICES ASSUME Init PROVE AdmissionInv
  OBVIOUS
<1>1. TypeOK
  BY TypeInit
<1>2. /\ \A e \in End : wire[e] = <<>> /\ at[e] = "key" /\ todo[e] = "nothing"
      /\ repeats = 0 /\ \A e \in End : socket[e] = "open"
  BY DEF Init
<1> QED
  BY <1>1, <1>2 DEF AdmissionInv, Passed, WireGood

LEMMA AdmissionStep == AdmissionInv /\ [Next]_vars => AdmissionInv'
<1> SUFFICES ASSUME AdmissionInv, [Next]_vars PROVE AdmissionInv'
  OBVIOUS
<1>0. TypeOK'
  BY TypeStep DEF AdmissionInv
<1>t. /\ "client" \in End /\ "server" \in End /\ "client" # "server"
      /\ \A e \in End : /\ e = "client" \/ e = "server"
                        /\ Other(e) \in End /\ Other(e) # e
      /\ wire \in [End -> Seq(Message)] /\ todo \in [End -> Todo]
      /\ at \in [End -> Place] /\ pooled \in [End -> BOOLEAN]
      /\ socket \in [End -> {"open", "destroyed", "closed"}]
  BY Ends DEF AdmissionInv, TypeOK
\* What a step must show of the wires and of the pools
<1>w. ASSUME UNCHANGED password, Told => Told', repeats' > 0 => password["client"] # None,
             \A e \in End : Passed(e)' => Passed(e) \/ Cleared(e),
             \A e \in End : pooled'[e] => socket'[e] # "closed",
             \A e \in End : todo'[e] # "nothing" => socket'[e] = "open",
             \A e \in End : \/ wire'[e] = wire[e] \/ wire'[e] = <<>>
                            \/ wire[e] # <<>> /\ wire'[e] = Tail(wire[e])
                            \/ \E m \in Message : Good(e, m)' /\ wire'[e] = Append(wire[e], m)
      PROVE  AdmissionInv'
  <2>1. \A e \in End : WireGood(e)'
    BY <1>w, GoodWire DEF AdmissionInv
  <2>2. \A e \in End : Passed(e)' => Cleared(e)'
    BY <1>w, <1>t DEF AdmissionInv, Cleared, Agree
  <2> QED
    BY <1>0, <1>w, <2>1, <2>2 DEF AdmissionInv
\* A message with these fields
<1>m. \A n \in Name, k \in BOOLEAN, w \in Password \cup {None} :
        [name |-> n, keyed |-> k, word |-> w] \in Message
  BY DEF Message
<1>1. ASSUME NEW e \in End, Add(e) PROVE AdmissionInv'
  <2>1. UNCHANGED <<password, at, todo, repeats, socket, pooled>>
    BY <1>1 DEF Add, chain
  <2>2. PICK m \in Message : m = [name |-> "key:exchange", keyed |-> secret[e], word |-> None]
    <3>1. secret[e] \in BOOLEAN /\ "key:exchange" \in Name
      BY DEF Name, AdmissionInv, TypeOK
    <3> QED
      BY <1>m, <3>1
  <2>3. wire' = wire \/ wire' = [wire EXCEPT ![Other(e)] = Append(@, m)]
    BY <1>1, <2>2, Zenon DEF Add, Send, Written
  <2>4. Good(Other(e), m)'
    BY <2>2 DEF Good
  <2>5. \A f \in End : \/ wire'[f] = wire[f]
                       \/ \E x \in Message : Good(f, x)' /\ wire'[f] = Append(wire[f], x)
    <3>1. \A f \in End : f = e \/ f = Other(e)
      BY Ends
    <3>2. /\ wire'[e] = wire[e]
          /\ wire'[Other(e)] = wire[Other(e)] \/ wire'[Other(e)] = Append(wire[Other(e)], m)
      BY <1>t, <2>3
    <3> QED
      BY <2>4, <3>1, <3>2
  <2> QED
    BY <1>w, <2>1, <2>5 DEF Told, Passed, AdmissionInv
\* What an answer does to the two wires
<1>a. ASSUME NEW e \in End, wire[e] # <<>>, NEW n \in Name, NEW k \in BOOLEAN,
             wire' = Rest(e) \/ (Answer(e, n, k) /\
                Good(Other(e), [name |-> n, keyed |-> k, word |-> None])')
      PROVE  \A f \in End : \/ wire'[f] = wire[f]
                            \/ wire[f] # <<>> /\ wire'[f] = Tail(wire[f])
                            \/ \E x \in Message : Good(f, x)' /\ wire'[f] = Append(wire[f], x)
  <2> DEFINE m == [name |-> n, keyed |-> k, word |-> None]
  <2>1. m \in Message
    BY <1>m
  <2>2. wire' = Rest(e) \/ (wire' = [Rest(e) EXCEPT ![Other(e)] = Append(@, m)]
                            /\ Good(Other(e), m)')
    BY <1>a, Zenon DEF Answer
  <2> HIDE DEF m
  <2>3. wire'[e] = Tail(wire[e])
    BY <1>t, <2>2 DEF Rest
  <2>4. \A f \in End : f # e => f = Other(e)
    BY <1>t, Ends
  <2>5. \/ wire'[Other(e)] = wire[Other(e)]
        \/ Good(Other(e), m)' /\ wire'[Other(e)] = Append(wire[Other(e)], m)
    BY <1>t, <2>2 DEF Rest
  <2> QED
    BY <1>a, <2>1, <2>3, <2>4, <2>5
\* Only an open end gets something to go on with
<1>o. ASSUME NEW e \in End, Open(e), NEW p, NEW w, Settle(e, p, w) \/ UNCHANGED todo,
             UNCHANGED socket
      PROVE  \A f \in End : todo'[f] # "nothing" => socket'[f] = "open"
  BY <1>o, <1>t DEF Open, Settle, AdmissionInv
<1>2. ASSUME NEW e \in End, Open(e), KeyMessage(e) PROVE AdmissionInv'
  <2>1. UNCHANGED <<password, at, repeats, socket, pooled>> /\ wire[e] # <<>>
    BY <1>2 DEF KeyMessage
  <2>2. \A f \in End : Passed(f)' => Passed(f)
    BY <1>2, <1>t, <2>1 DEF KeyMessage, Settle, Passed
  <2>3. PICK k \in BOOLEAN : k = PlainAnswer(e)
    BY DEF PlainAnswer, AdmissionInv, TypeOK
  <2>4. wire' = Rest(e) \/ Answer(e, "key:final", k)
    BY <1>2, <2>3, Zenon DEF KeyMessage
  <2>5. Good(Other(e), [name |-> "key:final", keyed |-> k, word |-> None])'
    BY DEF Good
  <2>6. \A f \in End : \/ wire'[f] = wire[f]
                       \/ wire[f] # <<>> /\ wire'[f] = Tail(wire[f])
                       \/ \E x \in Message : Good(f, x)' /\ wire'[f] = Append(wire[f], x)
    <3>1. "key:final" \in Name
      BY DEF Name
    <3> QED
      BY <1>a, <2>1, <2>4, <2>5, <3>1
  <2>o. \A f \in End : todo'[f] # "nothing" => socket'[f] = "open"
    <3>1. \E p, w : Settle(e, p, w)
      BY <1>2 DEF KeyMessage
    <3> QED
      BY <1>o, <1>2, <2>1, <3>1
  <2> QED
    BY <1>w, <2>o, <2>1, <2>2, <2>6 DEF Told, AdmissionInv
<1>3. ASSUME NEW e \in End, Open(e), AuthMessage(e) PROVE AdmissionInv'
  <2>1. /\ UNCHANGED <<password, at, repeats, socket, pooled>> /\ wire[e] # <<>>
        /\ Head(wire[e]).name = "auth" /\ e = "server"
    BY <1>3 DEF AuthMessage, Heard, Listens
  <2>2. Accepts(e, Head(wire[e]).word) => Agree
    BY <2>1, GoodHead DEF Good, Accepts, Agree
  <2>3. \A f \in End : Passed(f)' => Passed(f) \/ Cleared(f)
    <3>1. todo' = todo \/ (Agree /\ todo' = [todo EXCEPT ![e] = "identify"])
                       \/ todo' = [todo EXCEPT ![e] = "reject"]
      BY <1>3, <2>2, Zenon DEF AuthMessage, Settle
    <3> QED
      BY <1>t, <2>1, <3>1 DEF Passed, Cleared
  <2>4. PICK k \in BOOLEAN : k = secret[e]
    BY DEF AdmissionInv, TypeOK
  <2>5. wire' = Rest(e) \/ (Agree /\ Answer(e, "auth:status", k))
    BY <1>3, <2>2, <2>4, Zenon DEF AuthMessage
  <2>6. Agree => Good(Other(e), [name |-> "auth:status", keyed |-> k, word |-> None])'
    BY <2>1 DEF Good, Agree
  <2>7. \A f \in End : \/ wire'[f] = wire[f]
                       \/ wire[f] # <<>> /\ wire'[f] = Tail(wire[f])
                       \/ \E x \in Message : Good(f, x)' /\ wire'[f] = Append(wire[f], x)
    <3>1. "auth:status" \in Name
      BY DEF Name
    <3> QED
      BY <1>a, <2>1, <2>5, <2>6, <3>1
  <2>o. \A f \in End : todo'[f] # "nothing" => socket'[f] = "open"
    <3>1. \E p, w : Settle(e, p, w)
      BY <1>3 DEF AuthMessage
    <3> QED
      BY <1>o, <1>3, <2>1, <3>1
  <2> QED
    BY <1>w, <2>o, <2>1, <2>3, <2>7 DEF Told, AdmissionInv
<1>4. ASSUME NEW e \in End, Open(e), StatusMessage(e) PROVE AdmissionInv'
  <2>1. /\ UNCHANGED <<password, at, socket, pooled>> /\ wire[e] # <<>> /\ repeats' = 0
        /\ Head(wire[e]).name = "auth:status" /\ wire' = Rest(e)
    BY <1>4 DEF StatusMessage, Heard
  <2>2. Agree
    BY <2>1, GoodHead DEF Good
  <2>3. \A f \in End : Passed(f)' => Passed(f) \/ Cleared(f)
    BY <2>2 DEF Cleared
  <2>4. \A f \in End : wire'[f] = wire[f] \/ (wire'[f] = Tail(wire[f]) /\ f = e)
    BY <1>t, <2>1 DEF Rest
  <2>o. \A f \in End : todo'[f] # "nothing" => socket'[f] = "open"
    <3>1. \E p, w : Settle(e, p, w)
      BY <1>4 DEF StatusMessage
    <3> QED
      BY <1>o, <1>4, <2>1, <3>1
  <2> QED
    BY <1>w, <2>o, <2>1, <2>3, <2>4 DEF Told, AdmissionInv
<1>5. ASSUME NEW e \in End, Open(e), IdentityMessage(e) PROVE AdmissionInv'
  <2>1. /\ UNCHANGED <<password, at, repeats, socket>> /\ wire[e] # <<>>
        /\ Head(wire[e]).name = "identity" /\ at[e] \in {"identity", "confirmed"}
        /\ pooled' = [pooled EXCEPT ![e] = TRUE]
    BY <1>5 DEF IdentityMessage, Heard, Listens
  <2>2. Agree
    <3>1. Cleared(e) /\ Good(e, Head(wire[e]))
      BY <2>1, GoodHead DEF AdmissionInv, Passed
    <3> QED
      BY <1>t, <2>1, <3>1 DEF Good, Cleared, Agree
  <2>3. \A f \in End : Passed(f)' => Passed(f) \/ Cleared(f)
    BY <2>2 DEF Cleared
  <2>4. pooled'[e] /\ \A f \in End : f # e => pooled'[f] = pooled[f]
    BY <1>t, <2>1, Zenon
  <2>5. /\ Told => Told'
        /\ e = "server" => Told'
        /\ \A f \in End : pooled'[f] => socket'[f] # "closed"
    BY <1>t, <1>5, <2>1, <2>4 DEF Told, Open, AdmissionInv
  <2>6. PICK k \in BOOLEAN : k = secret[e]
    BY DEF AdmissionInv, TypeOK
  <2>7. wire' = Rest(e) \/ (e = "server" /\ Answer(e, "identity", k))
    BY <1>5, <2>6, Zenon DEF IdentityMessage
  <2>8. e = "server" => Good(Other(e), [name |-> "identity", keyed |-> k, word |-> None])'
    BY <2>1, <2>2, <2>5, Ends DEF Good, Agree
  <2>9. \A f \in End : \/ wire'[f] = wire[f]
                       \/ wire[f] # <<>> /\ wire'[f] = Tail(wire[f])
                       \/ \E x \in Message : Good(f, x)' /\ wire'[f] = Append(wire[f], x)
    <3>1. "identity" \in Name
      BY DEF Name
    <3> QED
      BY <1>a, <2>1, <2>7, <2>8, <3>1
  <2>o. \A f \in End : todo'[f] # "nothing" => socket'[f] = "open"
    <3>1. \E p, w : Settle(e, p, w)
      BY <1>5 DEF IdentityMessage
    <3> QED
      BY <1>o, <1>5, <2>1, <3>1
  <2> QED
    BY <1>w, <2>o, <2>1, <2>3, <2>5, <2>9 DEF AdmissionInv
<1>6. ASSUME NEW e \in End, Drop(e) PROVE AdmissionInv'
  <2>1. UNCHANGED <<password, at, todo, repeats, socket, pooled>> /\ wire[e] # <<>> /\ wire' = Rest(e)
    BY <1>6 DEF Drop
  <2>2. \A f \in End : wire'[f] = wire[f] \/ (wire'[f] = Tail(wire[f]) /\ f = e)
    BY <1>t, <2>1 DEF Rest
  <2> QED
    BY <1>w, <2>1, <2>2 DEF Told, Passed, AdmissionInv
<1>7. ASSUME NEW e \in End, Continue(e) PROVE AdmissionInv'
  <2>1. /\ UNCHANGED <<password, pooled>> /\ todo[e] # "nothing"
        /\ todo' = [todo EXCEPT ![e] = "nothing"]
    BY <1>7 DEF Continue
  <2>2. socket' = socket \/ socket' = [socket EXCEPT ![e] = "destroyed"]
    BY <1>7, Zenon DEF Continue, Destroyed
  <2>3. socket[e] = "open"
    BY <2>1 DEF AdmissionInv
  <2>4. /\ Told => Told'
        /\ \A f \in End : pooled'[f] => socket'[f] # "closed"
        /\ \A f \in End : todo'[f] # "nothing" => socket'[f] = "open"
    BY <1>t, <2>1, <2>2, <2>3 DEF Told, AdmissionInv
  <2>5. repeats' > 0 => password["client"] # None
    <3>1. repeats' = repeats \/ (e = "client" /\ password[e] # None)
      BY <1>7, Zenon DEF Continue, Identify
    <3> QED
      BY <3>1 DEF AdmissionInv
  <2>6. \/ at' = at
        \/ at' = [at EXCEPT ![e] = "auth"]
        \/ at' = [at EXCEPT ![e] = "identity"] /\ Cleared(e) /\ password[e] = None
        \/ at' = [at EXCEPT ![e] = "identity"] /\ todo[e] = "identify"
        \/ at' = [at EXCEPT ![e] = "confirmed"] /\ todo[e] = "confirm"
    BY <1>7, Zenon DEF Continue, Identify, Cleared
  <2>7. \A f \in End : Passed(f)' => Passed(f) \/ Cleared(f)
    BY <1>t, <2>1, <2>6 DEF Passed
  <2>8. PICK m \in Message : m = [name |-> "identity", keyed |-> TRUE, word |-> None]
    BY DEF Message, Name
  <2>9. \/ wire' = wire
        \/ /\ e = "client" /\ Cleared("client")
           /\ wire' = wire \/ wire' = [wire EXCEPT !["server"] = Append(@, m)]
    <3>1. \/ wire' = wire
          \/ /\ e = "client" /\ (password[e] = None \/ todo[e] = "identify")
             /\ wire' = Written(e, "identity", None, TRUE)
      BY <1>7, Zenon DEF Continue, Identify
    <3>2. todo[e] = "identify" => Cleared(e)
      BY DEF AdmissionInv, Passed
    <3> QED
      BY <2>8, <3>1, <3>2, Ends DEF Written, Cleared
  <2>10. Cleared("client") => Good("server", m)'
    BY <2>1, <2>8 DEF Good, Cleared, Agree
  <2>11. \A f \in End : \/ wire'[f] = wire[f]
                        \/ \E x \in Message : Good(f, x)' /\ wire'[f] = Append(wire[f], x)
    <3>1. /\ wire'["client"] = wire["client"]
          /\ \/ wire'["server"] = wire["server"]
             \/ Cleared("client") /\ wire'["server"] = Append(wire["server"], m)
      BY <1>t, <2>9
    <3> QED
      BY <1>t, <2>10, <3>1
  <2> QED
    BY <1>w, <2>1, <2>4, <2>5, <2>7, <2>11
<1>8. ASSUME Repeat PROVE AdmissionInv'
  <2>1. /\ UNCHANGED <<password, at, todo, socket, pooled>> /\ repeats > 0 /\ repeats' = repeats - 1
        /\ wire' = Written("client", "auth", password["client"], secret["client"])
    BY <1>8 DEF Repeat, chain, Send
  <2>2. password["client"] # None
    BY <2>1 DEF AdmissionInv
  <2>3. PICK m \in Message :
          m = [name |-> "auth", keyed |-> secret["client"], word |-> password["client"]]
    <3>1. /\ secret["client"] \in BOOLEAN /\ password["client"] \in Password \cup {None}
          /\ "auth" \in Name
      BY <1>t DEF AdmissionInv, TypeOK, Name
    <3> QED
      BY <1>m, <3>1
  <2>4. wire' = wire \/ wire' = [wire EXCEPT !["server"] = Append(@, m)]
    BY <2>1, <2>3, Ends DEF Written
  <2>5. Good("server", m)'
    BY <2>1, <2>2, <2>3 DEF Good
  <2>6. \A f \in End : \/ wire'[f] = wire[f]
                       \/ \E x \in Message : Good(f, x)' /\ wire'[f] = Append(wire[f], x)
    BY <1>t, <2>3, <2>4, <2>5
  <2> QED
    BY <1>w, <2>1, <2>2, <2>6 DEF Told, Passed, AdmissionInv
<1>9. ASSUME NEW e \in End, Timeout(e) \/ Fail(e) \/ HearClose(e) PROVE AdmissionInv'
  <2>1. /\ UNCHANGED <<password, at, todo, repeats, pooled, wire>> /\ Open(e)
        /\ socket' = [socket EXCEPT ![e] = "destroyed"]
    BY <1>9 DEF Timeout, Fail, HearClose, Idle, Destroyed, chain
  <2>2. socket[e] = "open" /\ socket'[e] = "destroyed" /\ \A f \in End : f # e => socket'[f] = socket[f]
    BY <1>t, <2>1 DEF Open
  <2>3. Told => Told'
    BY <1>t, <2>1, <2>2 DEF Told
  <2>4. /\ \A f \in End : pooled'[f] => socket'[f] # "closed"
        /\ \A f \in End : todo'[f] # "nothing" => socket'[f] = "open"
    <3>1. todo[e] = "nothing"
      BY <1>9 DEF Timeout, Fail, HearClose, Idle
    <3> QED
      BY <1>t, <2>1, <2>2, <3>1 DEF AdmissionInv
  <2> QED
    BY <1>w, <2>1, <2>3, <2>4 DEF Passed, AdmissionInv
<1>10. ASSUME NEW e \in End, Closed(e) PROVE AdmissionInv'
  <2>1. /\ UNCHANGED <<password, at, todo, repeats>>
        /\ socket' = [socket EXCEPT ![e] = "closed"]
        /\ pooled' = [pooled EXCEPT ![e] = FALSE]
        /\ wire' = [wire EXCEPT ![e] = <<>>]
    BY <1>10 DEF Closed, Removed, chain
  <2>2. /\ socket'[e] = "closed" /\ ~pooled'[e] /\ wire'[e] = <<>>
        /\ \A f \in End : f # e => socket'[f] = socket[f] /\ wire'[f] = wire[f]
    BY <1>t, <2>1
  <2>3. \A f \in End : f # e => pooled'[f] = pooled[f]
    BY <1>t, <2>1, Zenon
  <2>4. /\ Told => Told'
        /\ \A f \in End : pooled'[f] => socket'[f] # "closed"
        /\ \A f \in End : todo'[f] # "nothing" => socket'[f] = "open"
    <3>1. todo[e] = "nothing"
      BY <1>10 DEF Closed
    <3> QED
      BY <1>t, <2>1, <2>2, <2>3, <3>1 DEF Told, AdmissionInv
  <2>5. \A f \in End : wire'[f] = wire[f] \/ wire'[f] = <<>>
    BY <2>2
  <2> QED
    BY <1>w, <2>1, <2>4, <2>5 DEF Passed, AdmissionInv
<1>11. ASSUME UNCHANGED vars PROVE AdmissionInv'
  BY <1>11, <1>w DEF vars, chain, Told, Passed, AdmissionInv
<1> QED
  BY <1>1, <1>2, <1>3, <1>4, <1>5, <1>6, <1>7, <1>8, <1>9, <1>10, <1>11
     DEF Next, ByItself, Read

\* The pools of the two ends keep Admission: no router gets into a pool unless both
\* ends know the same password, the pool of the server is first, and a connection
\* that has closed is in no pool and stays out.
THEOREM HandshakeImplementsAdmission == Spec => KeepsAdmission
<1>1. Init => A!Init
  <2> SUFFICES ASSUME Init PROVE A!Init
    OBVIOUS
  <2>1. \A e \in End : ~pooled[e] /\ socket[e] = "open"
    BY DEF Init
  <2> QED
    BY <2>1 DEF A!Init, Member, End
<1>2. AdmissionInv /\ AdmissionInv' /\ [Next]_vars =>
        [A!Next]_<<password["client"] = password["server"], Member>>
  <2> SUFFICES ASSUME AdmissionInv, AdmissionInv', [Next]_vars
               PROVE  [A!Next]_<<password["client"] = password["server"], Member>>
    OBVIOUS
  <2>t. /\ "client" \in End /\ "server" \in End /\ End = {"client", "server"}
        /\ pooled \in [End -> BOOLEAN]
        /\ socket \in [End -> {"open", "destroyed", "closed"}]
    BY Ends DEF AdmissionInv, TypeOK
  <2>0. password' = password
    BY DEF Next, ByItself, Add, Read, KeyMessage, AuthMessage, StatusMessage, IdentityMessage,
           Drop, Continue, HearClose, Closed, Timeout, Fail, Repeat, vars
  <2>m. \A e \in End : Member[e] =
          IF socket[e] = "closed" THEN "gone" ELSE IF pooled[e] THEN "inside" ELSE "outside"
    BY DEF Member, AdmissionInv
  <2>n. \A e \in End : Member'[e] =
          IF socket'[e] = "closed" THEN "gone" ELSE IF pooled'[e] THEN "inside" ELSE "outside"
    BY DEF Member, AdmissionInv
  <2>f. Member = [e \in End |-> Member[e]] /\ Member' = [e \in End |-> Member'[e]]
    BY DEF Member
  <2>1. ASSUME UNCHANGED pooled, \A e \in End : socket'[e] = "closed" <=> socket[e] = "closed"
        PROVE  UNCHANGED <<password["client"] = password["server"], Member>>
    <3>1. \A e \in End : Member'[e] = Member[e]
      BY <2>1, <2>m, <2>n
    <3> QED
      BY <2>0, <2>f, <3>1, Zenon
  <2>2. ASSUME NEW e \in End, Open(e), IdentityMessage(e)
        PROVE  [A!Next]_<<password["client"] = password["server"], Member>>
    <3>1. /\ UNCHANGED socket /\ pooled' = [pooled EXCEPT ![e] = TRUE] /\ socket[e] = "open"
          /\ wire[e] # <<>> /\ Head(wire[e]).name = "identity" /\ at[e] \in {"identity", "confirmed"}
      BY <2>2 DEF IdentityMessage, Heard, Listens, Open
    <3>2. pooled'[e] /\ \A f \in End : f # e => pooled'[f] = pooled[f]
      BY <2>t, <3>1, Zenon
    <3>3. Agree /\ (e = "client" => Told)
      <4>1. Cleared(e) /\ Good(e, Head(wire[e]))
        BY <3>1, GoodHead DEF AdmissionInv, Passed
      <4> QED
        BY <2>t, <3>1, <4>1 DEF Good, Cleared, Agree
    <3>4. /\ Member'[e] = "inside" /\ Member[e] \in {"inside", "outside"}
          /\ \A f \in End : f # e => Member'[f] = Member[f]
      BY <2>m, <2>n, <3>1, <3>2
    <3>5. CASE Member[e] = "inside"
      <4>1. \A f \in End : Member'[f] = Member[f]
        BY <3>4, <3>5
      <4>2. Member' = Member
        BY <2>f, <4>1, Zenon
      <4> QED
        BY <2>0, <4>2
    <3>6. CASE Member[e] = "outside"
      <4>1. Member' = [Member EXCEPT ![e] = "inside"]
        BY <2>f, <3>4
      <4>2. e = "client" => Member["server"] # "outside"
        BY <2>t, <2>m, <3>3 DEF Told
      <4>3. A!Enter(e)
        BY <2>0, <3>3, <3>6, <4>1, <4>2 DEF A!Enter, Agree
      <4> QED
        BY <2>t, <4>3 DEF A!Next
    <3> QED
      BY <3>4, <3>5, <3>6
  <2>3. ASSUME NEW e \in End, Closed(e)
        PROVE  [A!Next]_<<password["client"] = password["server"], Member>>
    <3>1. /\ socket' = [socket EXCEPT ![e] = "closed"] /\ socket[e] = "destroyed"
          /\ pooled' = [pooled EXCEPT ![e] = FALSE]
      BY <2>3 DEF Closed, Removed
    <3>2. socket'[e] = "closed" /\ \A f \in End : f # e => socket'[f] = socket[f]
      BY <2>t, <3>1
    <3>3. \A f \in End : f # e => pooled'[f] = pooled[f]
      BY <2>t, <3>1, Zenon
    <3>4. /\ Member'[e] = "gone" /\ Member[e] # "gone"
          /\ \A f \in End : f # e => Member'[f] = Member[f]
      BY <2>m, <2>n, <3>1, <3>2, <3>3
    <3>5. Member' = [Member EXCEPT ![e] = "gone"]
      BY <2>f, <3>4
    <3>6. A!Leave(e)
      BY <2>0, <3>4, <3>5 DEF A!Leave
    <3> QED
      BY <2>t, <3>6 DEF A!Next
  <2>4. ASSUME NEW e \in End, Add(e) \/ KeyMessage(e) \/ AuthMessage(e) \/ StatusMessage(e) \/ Drop(e)
        PROVE  UNCHANGED <<pooled, socket>>
    BY <2>4 DEF Add, KeyMessage, AuthMessage, StatusMessage, Drop
  <2>5. ASSUME NEW e \in End, Continue(e) \/ HearClose(e) \/ Timeout(e) \/ Fail(e)
        PROVE  UNCHANGED pooled /\ \A f \in End : socket'[f] = "closed" <=> socket[f] = "closed"
    <3>1. /\ UNCHANGED pooled /\ socket[e] = "open"
          /\ socket' = socket \/ socket' = [socket EXCEPT ![e] = "destroyed"]
      BY <2>5 DEF Continue, HearClose, Timeout, Fail, Idle, Open, Destroyed, AdmissionInv
    <3> QED
      BY <2>t, <3>1
  <2>6. Repeat => UNCHANGED <<pooled, socket>>
    BY DEF Repeat
  <2>7. UNCHANGED vars => UNCHANGED <<pooled, socket>>
    BY DEF vars
  <2> QED
    BY <2>1, <2>2, <2>3, <2>4, <2>5, <2>6, <2>7 DEF Next, ByItself, Read
<1> QED
  BY <1>1, <1>2, AdmissionInit, AdmissionStep, PTL DEF Spec, KeepsAdmission, A!Spec

=============================================================================
