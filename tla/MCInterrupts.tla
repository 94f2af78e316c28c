---------------------------- MODULE MCInterrupts ----------------------------
(* Instance of Interrupts for TLC. *)
EXTENDS Interrupts

(* A driver on a line of the second register. *)
HighLine == {Half + 1}
=============================================================================
