------------------------- MODULE MCPropertyRanking -------------------------
(* Instances of PropertyRanking for TLC. *)
EXTENDS PropertyRanking

CONSTANTS alice, bob, carol, ta, tb, tc

\* Alice publishes two tracks, Bob the others; Carol only watches.
Publisher == [t \in Tracks |-> IF t \in {ta, tb} THEN alice ELSE bob]
=============================================================================
