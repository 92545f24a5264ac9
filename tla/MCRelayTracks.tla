--------------------------- MODULE MCRelayTracks ---------------------------
(* Model-checking instance of RelayTracks. *)
EXTENDS RelayTracks, TLC

Symmetry == Permutations(Subscribers) \cup Permutations(Publishers)
=============================================================================
