-------------------------------- MODULE Rpc --------------------------------
(***************************************************************************)
(* What a request of the socket router promises its sender                 *)
(* (Actor.send(..., callback).timeout(ms) in secure-socket-router.js): the *)
(* callback runs at most once for the reply and at most once for the       *)
(* timeout, and never for the timeout after the reply.  It may run for a   *)
(* reply after the timeout, so a caller has to expect two answers.         *)
(***************************************************************************)
EXTENDS Naturals

CONSTANT Call

VARIABLES
  asked,    \* SUBSET Call  requests that have been sent
  replies,  \* [Call -> Nat]  how often the callback has run with the reply
  timeouts  \* [Call -> Nat]  how often it has run with the timeout

Never == [x \in Call |-> 0]

Init == asked = {} /\ replies = Never /\ timeouts = Never

\* A broadcast makes several requests in one turn
Ask(S) ==
  /\ S \cap asked = {}
  /\ asked' = asked \cup S
  /\ UNCHANGED <<replies, timeouts>>

Reply(x) ==
  /\ x \in asked /\ replies[x] = 0
  /\ replies' = [replies EXCEPT ![x] = 1]
  /\ UNCHANGED <<asked, timeouts>>

\* 'message response timeout exceeded'
Expire(x) ==
  /\ x \in asked /\ replies[x] = 0 /\ timeouts[x] = 0
  /\ timeouts' = [timeouts EXCEPT ![x] = 1]
  /\ UNCHANGED <<asked, replies>>

Next == (\E x \in Call : Reply(x) \/ Expire(x)) \/ \E S \in SUBSET Call : Ask(S)

Spec == Init /\ [][Next]_<<asked, replies, timeouts>>
=============================================================================
