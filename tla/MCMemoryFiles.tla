---------------------------- MODULE MCMemoryFiles ----------------------------
(* Model-checking instance of MemoryFiles. *)
EXTENDS MemoryFiles, TLC

Symmetry == Permutations(Updaters)
=============================================================================
