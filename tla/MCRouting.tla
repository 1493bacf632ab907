----------------------------- MODULE MCRouting -----------------------------
(* Routing for TLC: peers, and calls for one peer, are interchangeable *)
EXTENDS Routing, TLC

Symmetry == Permutations(Peer) \cup Permutations(Single)
=============================================================================
