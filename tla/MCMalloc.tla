------------------------------ MODULE MCMalloc ------------------------------
(* Instance of Malloc for TLC.  Behaviours are followed until the bitmap     *)
(* loses an update.                                                          *)
EXTENDS Malloc, TLC

ThreadSymmetry == Permutations(Thread)
NothingLost == ~lost

(* Arguments of calloc(): a small block, the largest that fits, and a        *)
(* product that wraps to less than a factor; and one that wraps to more.     *)
FitArgs == {<<2, 8>>, <<8, 19>>, <<16, 17>>}
WrapArgs == {<<2, 8>>, <<17, 17>>}
=============================================================================
