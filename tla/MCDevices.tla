----------------------------- MODULE MCDevices -----------------------------
(* Instance for TLC of the IRQ dispatcher and of the timer behind its line:   *)
(* a behaviour is of the one that DEVICE says.                                *)
EXTENDS Interrupts, Timer

(* What the kernel registers: drivers of lines of the first register only,   *)
(* and a number that is not a line.                                          *)
LowLines == {1, 2, IRQ_COUNT}

VARIABLE device

AllVars == <<device, vars, timerVars>>
OfController(A) == device = "controller" /\ A /\ UNCHANGED <<device, timerVars>>
OfTimer(A) == device = "timer" /\ A /\ UNCHANGED <<device, vars>>

MCInit == /\ device \in {"controller", "timer"}
          /\ Init /\ TimerInit /\ (device = "controller" => CLO = 0)
MCNext == OfController(Next) \/ OfTimer(TimerNext)
MCSpec ==
  /\ MCInit /\ [][MCNext]_AllVars
  /\ WF_AllVars(OfController(DispatchIrq)) /\ WF_AllVars(OfController(ScanLine))
  /\ WF_AllVars(OfTimer(Tick)) /\ WF_AllVars(OfTimer(Boot \/ TakeIrq \/ TimerIrqHandler))
=============================================================================
