------------------------- MODULE MCIncrementalIndex -------------------------
(* Instances of IncrementalIndex for TLC. *)
EXTENDS IncrementalIndex, TLC

MCSymmetry == Permutations(Workers) \cup Permutations(Contents)

=============================================================================
