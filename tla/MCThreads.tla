----------------------------- MODULE MCThreads -----------------------------
(* Instances of Threads for TLC. *)
EXTENDS Threads, TLC

(* Pages are interchangeable: palloc may hand out any free one. *)
PageSymmetry == Permutations(Page)
=============================================================================
