------------------------- MODULE MCUpstreamProvider -------------------------
(* Instances of UpstreamProvider for TLC. *)
EXTENDS UpstreamProvider, TLC

Symmetry == Permutations(Loops) \cup Permutations(Requests)
=============================================================================
