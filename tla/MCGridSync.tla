----------------------------- MODULE MCGridSync -----------------------------
(* GridSync for TLC.  Nodes that play the same part, versions and calls are   *)
(* interchangeable: no action tells them apart, only connections are ordered. *)
EXTENDS GridSync, TLC

\* Both contents have all tasks; the contents of Small lack the task Gone
CONSTANTS Small, Gone
AllTasks     == [v \in Version |-> Task]
ShrinkingTasks == [v \in Version |-> IF v \in Small THEN Task \ {Gone} ELSE Task]

Symmetry == Permutations(Operators) \cup Permutations(Node \ Operators)
              \cup Permutations(Version) \cup Permutations(Request)
=============================================================================
