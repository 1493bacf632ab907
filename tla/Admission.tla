----------------------------- MODULE Admission -----------------------------
(* What SocketPool.add promises of the two ends of a connection: the pool of  *)
(* a node gets the router of a peer only if both know the same password, the  *)
(* side that was dialed first, and a connection that has closed never comes   *)
(* back.                                                                      *)
VARIABLES
  agree,    \* the passwords of the two ends are the same
  member    \* of both ends: in the pool of its node or not

Init ==
  /\ agree \in BOOLEAN
  /\ member = [e \in {"client", "server"} |-> "outside"]

Enter(e) ==
  /\ agree /\ member[e] = "outside"
  /\ e = "client" => member["server"] # "outside"
  /\ member' = [member EXCEPT ![e] = "inside"]
  /\ UNCHANGED agree

Leave(e) ==
  /\ member[e] # "gone"
  /\ member' = [member EXCEPT ![e] = "gone"]
  /\ UNCHANGED agree

Next == \E e \in {"client", "server"} : Enter(e) \/ Leave(e)
Spec == Init /\ [][Next]_<<agree, member>>

=============================================================================
