--------------------------- MODULE MCTimestampOracle ---------------------------
(* Nodes are alike, and so are requests. *)
EXTENDS TimestampOracle, TLC

Symmetry == Permutations(Nodes) \cup Permutations(Requests)
=============================================================================
