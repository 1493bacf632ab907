----------------------------- MODULE MCArchives -----------------------------
(* Archives for TLC: two nodes that both get archives, and a master with two  *)
(* peers                                                                      *)
EXTENDS Archives

CONSTANTS n1, n2, n3

TwoMasters == [nodes |-> {n1, n2}, operators |-> {n1, n2}, archives |-> 2, troubles |-> 1]
TwoPeers   == [nodes |-> {n1, n2, n3}, operators |-> {n1}, archives |-> 1, troubles |-> 1]
Rivals     == [nodes |-> {n1, n2, n3}, operators |-> {n1, n2}, archives |-> 1, troubles |-> 0]
SmallGrids == {TwoMasters, TwoPeers, Rivals}
=============================================================================
