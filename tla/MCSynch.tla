------------------------------ MODULE MCSynch ------------------------------
(* Instance of Synch for TLC: three threads can wait for one condition while  *)
(* a fourth signals; nothing but the lock is shared between conditions.       *)
EXTENDS Synch
=============================================================================
