------------------------------ MODULE MCPalloc ------------------------------
(* Instances of Palloc for TLC. *)
EXTENDS Palloc, TLC

ThreadSymmetry == Permutations(Thread)
=============================================================================
