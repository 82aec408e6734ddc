---------------------------- MODULE MCVectorSync ----------------------------
(* Instances of VectorSync for TLC. *)
EXTENDS VectorSync, TLC

Symmetry == Permutations(PointWorkers) \cup Permutations(ErasureWorkers) \cup Permutations(Chunks)

=============================================================================
