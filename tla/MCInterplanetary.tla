------------------------- MODULE MCInterplanetary -------------------------
(* Values for TLC: node 1 has the address a1, node 2 has a2 and b2. *)
EXTENDS Interplanetary, TLC

CONSTANTS a1, a2, b2

OneEach == a1 :> 1 @@ a2 :> 2
TwoForSecond == a1 :> 1 @@ a2 :> 2 @@ b2 :> 2

=============================================================================
