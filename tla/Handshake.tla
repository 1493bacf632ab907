----------------------------- MODULE Handshake -----------------------------
(* What two nodes do with a connection that Interplanetary hands to both      *)
(* (src/network/socket-pool.js, add): exchange keys, check the password,      *)
(* tell their identities, and put the router in the pool.  The router         *)
(* (src/network/secure-socket-router.js) and what it does with the key        *)
(* (src/network/crypto-service.js) are part of it.                            *)
(*                                                                            *)
(* The promises of add are steps of their own: what a handler resolves goes   *)
(* on when the chunk in which its message came has been read to its end, and  *)
(* the messages after it may find no listener.                                *)
EXTENDS Integers, Sequences

CONSTANTS Password,   \* the passwords in use
          None,       \* no password
          MaxAuth     \* bound on how often a client repeats 'auth'

ASSUME HandshakeAssumption == None \notin Password /\ MaxAuth \in Nat \ {0}

VARIABLES
  password,  \* of both ends
  added,     \* whether the end has called add
  at,        \* the promise of add that the end waits for
  todo,      \* the continuation that runs after the chunk
  chunk,     \* how many messages of the chunk being read are left
  secret,    \* whether the router of the end has the key
  wire,      \* the messages that are under way to the end
  repeats,   \* the interval of the client: how often it may go on
  socket,    \* "open", "destroyed", or "closed" after the 'close' event
  pooled,    \* whether the router is in _socket_pool
  misread    \* history: the end has read a message in another state of its key
             \* than the one it was written in

chain == <<at, todo, chunk>>
vars == <<password, added, at, todo, chunk, secret, wire, repeats, socket, pooled,
          misread>>

End == {"client", "server"}
Other(e) == IF e = "client" THEN "server" ELSE "client"

Place == {"key", "auth", "identity", "confirmed"}
Todo  == {"nothing", "secure", "identify", "confirm", "reject"}
Name  == {"key:exchange", "key:final", "auth", "auth:status", "identity"}

\* A message: with key or in plain text, and the password it carries
Message == [name : Name, keyed : BOOLEAN, word : Password \cup {None}]

Init ==
  /\ password \in [End -> Password \cup {None}]
  /\ added = [e \in End |-> FALSE]
  /\ at = [e \in End |-> "key"] /\ todo = [e \in End |-> "nothing"]
  /\ chunk = [e \in End |-> 0]
  /\ secret = [e \in End |-> FALSE] /\ wire = [e \in End |-> <<>>]
  /\ repeats = 0
  /\ socket = [e \in End |-> "open"] /\ pooled = [e \in End |-> FALSE]
  /\ misread = [e \in End |-> FALSE]

Open(e) == socket[e] = "open"
Idle(e) == Open(e) /\ added[e] /\ todo[e] = "nothing" /\ chunk[e] = 0

----------------------------------------------------------------------------
(* The router *)

\* Actor.send with the key k of the end e: what is written to a socket that has
\* been destroyed is lost
Written(e, name, word, k) ==
  IF Open(e)
  THEN [wire EXCEPT ![Other(e)] = Append(@, [name |-> name, keyed |-> k, word |-> word])]
  ELSE wire
Send(e, name, word) == wire' = Written(e, name, word, secret[e])

\* The listeners that add has mounted at the end e.  None is ever removed.
Listens(e, name) ==
  CASE name = "key:exchange" -> e = "server"
    [] name = "key:final"    -> e = "client"
    [] name = "auth"         -> e = "server" /\ at[e] # "key" /\ password[e] # None
    [] name = "auth:status"  -> e = "client" /\ at[e] # "key" /\ password[e] # None
    [] name = "identity"     -> at[e] \in {"identity", "confirmed"}

\* The head of the wire is read, in a new chunk or in the one being read
Take(e) ==
  /\ wire[e] # <<>>
  /\ IF chunk[e] > 0
     THEN chunk' = [chunk EXCEPT ![e] = @ - 1]
     ELSE Idle(e) /\ \E k \in 0 .. Len(wire[e]) - 1 : chunk' = [chunk EXCEPT ![e] = k]

Rest(e) == [wire EXCEPT ![e] = Tail(@)]

\* Of two ways to settle a promise the first counts
Settle(e, place, what) ==
  todo' = IF at[e] = place /\ todo[e] = "nothing" THEN [todo EXCEPT ![e] = what] ELSE todo

\* A handler that answers: the answer leaves after the head has been taken (fault:
\* with a field missing)
AnswerBare(e, name, k) ==
  wire' = [Rest(e) EXCEPT ![Other(e)] = Append(@, [name |-> name, keyed |-> k])]
Answer(e, name, k) ==
  wire' = [Rest(e) EXCEPT ![Other(e)] =
             Append(@, [name |-> name, keyed |-> k, word |-> None])]

----------------------------------------------------------------------------
(* The steps of add *)

\* 'connection' of the swarm
Add(e) ==
  /\ Open(e) /\ ~added[e]
  /\ added' = [added EXCEPT ![e] = TRUE]
  /\ IF e = "client" THEN Send(e, "key:exchange", None) ELSE UNCHANGED wire
  /\ UNCHANGED <<password, chain, secret, repeats, socket, pooled, misread>>

\* Whether the head of the wire reaches its handler: the key that it was written
\* with, if any, is the one it is read with
Matches(e) == Head(wire[e]).keyed = secret[e]
Heard(e, name) ==
  Head(wire[e]).name = name /\ Matches(e) /\ Listens(e, name)

\* 'key:exchange' and 'key:final': both sides take the key in the continuation
\* (fault: the server takes it before it answers)
KeyFirst(e)    == TRUE
PlainAnswer(e) == secret[e]
KeyMessage(e) ==
  /\ wire[e] # <<>> /\ (Heard(e, "key:exchange") \/ Heard(e, "key:final"))
  /\ Take(e)
  /\ IF e = "server" THEN Answer(e, "key:final", PlainAnswer(e)) ELSE wire' = Rest(e)
  /\ Settle(e, "key", "secure")
  /\ UNCHANGED <<password, added, at, secret, repeats, socket, pooled, misread>>

\* 'auth' (fault: the word is not compared).  Every right one is answered.
TakesAny(e, word) == TRUE
Accepts(e, word)  == word = password[e]
AuthMessage(e) ==
  LET word == Head(wire[e]).word
  IN  /\ wire[e] # <<>> /\ Heard(e, "auth") /\ Take(e)
      /\ IF Accepts(e, word)
         THEN Answer(e, "auth:status", secret[e]) /\ Settle(e, "auth", "identify")
         ELSE wire' = Rest(e) /\ Settle(e, "auth", "reject")
      /\ UNCHANGED <<password, added, at, secret, repeats, socket, pooled, misread>>

\* 'auth:status', which is only written for a success
StatusMessage(e) ==
  /\ wire[e] # <<>> /\ Heard(e, "auth:status") /\ Take(e)
  /\ wire' = Rest(e)
  /\ repeats' = 0
  /\ Settle(e, "auth", "identify")
  /\ UNCHANGED <<password, added, at, secret, socket, pooled, misread>>

\* 'identity': the router goes to the pool, and the server answers with its own
IdentityMessage(e) ==
  /\ wire[e] # <<>> /\ Heard(e, "identity") /\ Take(e)
  /\ pooled' = [pooled EXCEPT ![e] = TRUE]
  /\ IF e = "server" THEN Answer(e, "identity", secret[e]) ELSE wire' = Rest(e)
  /\ Settle(e, "identity", "confirm")
  /\ UNCHANGED <<password, added, at, secret, repeats, socket, misread>>

\* Actor.onmessage for all else: verify() throws on plain text, what cannot be
\* deciphered has no name, and what has no listener is dropped
Drop(e) ==
  /\ wire[e] # <<>> /\ ~\E name \in Name : Heard(e, name)
  /\ Take(e)
  /\ wire' = Rest(e)
  /\ misread' = [misread EXCEPT ![e] = @ \/ ~Matches(e)]
  /\ UNCHANGED <<password, added, at, todo, secret, repeats, socket, pooled>>

Read(e) ==
  /\ Open(e)
  /\ \/ KeyMessage(e) \/ AuthMessage(e) \/ StatusMessage(e) \/ IdentityMessage(e)
     \/ Drop(e)

\* socket.destroy
Destroyed(e) == socket' = [socket EXCEPT ![e] = "destroyed"]

\* The continuation: setSecretKey, then the password or, without one, the
\* identity, of which the client tells its own
Identify(e) ==
  /\ at' = [at EXCEPT ![e] = "identity"]
  /\ IF e = "client" THEN wire' = Written(e, "identity", None, TRUE) ELSE UNCHANGED wire

Continue(e) ==
  /\ todo[e] # "nothing" /\ chunk[e] = 0
  /\ todo' = [todo EXCEPT ![e] = "nothing"]
  /\ \/ /\ todo[e] = "secure"
        /\ secret' = [secret EXCEPT ![e] = TRUE]
        /\ IF password[e] = None
           THEN Identify(e) /\ UNCHANGED repeats
           ELSE /\ at' = [at EXCEPT ![e] = "auth"]
                /\ repeats' = IF e = "client" THEN MaxAuth ELSE repeats
                /\ UNCHANGED wire
        /\ UNCHANGED socket
     \/ /\ todo[e] = "identify" /\ Identify(e)
        /\ UNCHANGED <<secret, repeats, socket>>
     \/ /\ todo[e] = "confirm" /\ at' = [at EXCEPT ![e] = "confirmed"]
        /\ UNCHANGED <<wire, secret, repeats, socket>>
     \/ /\ todo[e] = "reject" /\ Destroyed(e)
        /\ UNCHANGED <<at, wire, secret, repeats>>
  /\ UNCHANGED <<password, added, chunk, pooled, misread>>

\* sendAgain, every 500 ms.  It goes on when the socket has closed.
Repeat ==
  /\ repeats > 0 /\ todo["client"] = "nothing" /\ chunk["client"] = 0
  /\ repeats' = repeats - 1
  /\ Send("client", "auth", password["client"])
  /\ UNCHANGED <<password, added, chain, secret, socket, pooled, misread>>

\* The timers: 2 s of the server for 'auth', 3 s of both for 'identity'.  The key
\* exchange and the client's wait for 'auth:status' have none (fault: the first
\* one only).
AuthTimed(e) == at[e] = "auth" /\ e = "server"
Timed(e)     == at[e] = "identity" \/ (at[e] = "auth" /\ e = "server")
Timeout(e) ==
  /\ Idle(e) /\ Timed(e)
  /\ Destroyed(e)
  /\ UNCHANGED <<password, added, chain, secret, wire, repeats, pooled, misread>>

----------------------------------------------------------------------------
(* The socket *)

\* Destroyed from outside: an error, or the swarm lets it go
Fail(e) ==
  /\ Open(e) /\ todo[e] = "nothing" /\ chunk[e] = 0
  /\ Destroyed(e)
  /\ UNCHANGED <<password, added, chain, secret, wire, repeats, pooled, misread>>

\* The other end has closed: what it had written may get lost
HearClose(e) ==
  /\ Open(e) /\ ~Open(Other(e)) /\ todo[e] = "nothing" /\ chunk[e] = 0
  /\ Destroyed(e)
  /\ UNCHANGED <<password, added, chain, secret, wire, repeats, pooled, misread>>

\* 'close' (fault: the router stays in the pool)
Kept(e)    == pooled
Removed(e) == [pooled EXCEPT ![e] = FALSE]
Closed(e) ==
  /\ socket[e] = "destroyed" /\ todo[e] = "nothing"
  /\ socket' = [socket EXCEPT ![e] = "closed"]
  /\ pooled' = Removed(e)
  /\ wire' = [wire EXCEPT ![e] = <<>>]
  /\ UNCHANGED <<password, added, chain, secret, repeats, misread>>

----------------------------------------------------------------------------
ByItself(e) == Add(e) \/ Read(e) \/ Continue(e) \/ HearClose(e) \/ Closed(e)

Next ==
  \/ \E e \in End : ByItself(e) \/ Timeout(e) \/ Fail(e)
  \/ Repeat

Spec == Init /\ [][Next]_vars

\* Sockets deliver, promises go on, both swarms hand the connection over, and
\* timers expire unless the step they watch is over
FairSpec ==
  /\ Spec
  /\ \A e \in End : WF_vars(ByItself(e)) /\ WF_vars(Timeout(e))
  /\ WF_vars(Repeat)

----------------------------------------------------------------------------
(* Properties *)

\* Every variable has its type.
TypeOK ==
  /\ password \in [End -> Password \cup {None}]
  /\ added \in [End -> BOOLEAN]
  /\ at \in [End -> Place] /\ todo \in [End -> Todo] /\ chunk \in [End -> Nat]
  /\ secret \in [End -> BOOLEAN] /\ wire \in [End -> Seq(Message)]
  /\ repeats \in 0 .. MaxAuth
  /\ socket \in [End -> {"open", "destroyed", "closed"}]
  /\ pooled \in [End -> BOOLEAN] /\ misread \in [End -> BOOLEAN]

\* Both ends change over to the key between the same two messages: nothing is read
\* in another state of the key than it was written in (verify() would throw out of
\* the handler of the socket, or the message would be lost without a trace).
NobodyMisreads == \A e \in End : ~misread[e]

\* The pools keep what the handshake is for (module Admission): no router of a
\* peer with another password, or with none, the server's pool first, and no
\* router of a connection that has closed.
Member == [e \in End |->
             CASE pooled[e] /\ socket[e] = "closed"  -> "ghost"
               [] pooled[e] /\ socket[e] # "closed"  -> "inside"
               [] ~pooled[e] /\ socket[e] = "closed" -> "gone"
               [] OTHER -> "outside"]
A == INSTANCE Admission WITH agree <- (password["client"] = password["server"]),
                             member <- Member
KeepsAdmission == A!Spec

\* Every handshake comes to an end, although three of its waits have no timeout:
\* both nodes confirm the router, or the connection is closed at both ends.
HandshakeEnds ==
  <>(\/ \A e \in End : at[e] = "confirmed"
     \/ \A e \in End : socket[e] = "closed")

=============================================================================
