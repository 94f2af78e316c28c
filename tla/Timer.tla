-------------------------------- MODULE Timer --------------------------------
(***************************************************************************)
(* The system timer and its driver, devices/timer.c: a free-running        *)
(* counter CLO that wraps, the compare register C1 that the driver moves   *)
(* on after every match, and busy waiting by differences of timestamps.    *)
(* The counter goes on while the CPU takes its steps.                      *)
(***************************************************************************)
EXTENDS Integers

CONSTANTS Wrap,         \* values of the counter, 2^32
          TIMER_PERIODIC_INTERVAL,
          BootSleep, HandlerSleep, TaskSleep,   \* arguments of timer_msleep()
          MaxLag        \* bound: ticks between two steps of masked code

ASSUME TimerAssumption ==
  /\ Wrap \in Nat /\ Wrap % 2 = 0
  /\ {BootSleep, HandlerSleep, TaskSleep, TIMER_PERIODIC_INTERVAL} \subseteq 1 .. (Wrap \div 2) - 1
  /\ MaxLag \in 1 .. TIMER_PERIODIC_INTERVAL - 1
  /\ BootSleep + MaxLag < Wrap \div 2 /\ HandlerSleep + MaxLag < Wrap \div 2

VARIABLES CLO, C1,
          matched,      \* the bit of C1 in CS: the line of the IRQ
          at,           \* where the masked code is, "task" when interrupts are on
          interval,     \* the local of timer_set_interval()
          sleep,        \* the timer_msleep() that runs with interrupts off
          nap,          \* the one of a task, which interrupts and other threads hold up
          lag           \* ticks since the last step of masked code

timerVars == <<CLO, C1, matched, at, interval, sleep, nap, lag>>

(* A timer_msleep(): start time, argument, and (history) how many of its      *)
(* ticks are still to come.                                                   *)
NoSleep == [start |-> 0, ms |-> 0, left |-> 0]
Awake(s) == s.ms = 0

TimerInit ==
  /\ CLO \in 0 .. Wrap - 1
  /\ C1 = 0 /\ matched = FALSE
  /\ at = "init read" /\ interval = 0
  /\ sleep = NoSleep /\ nap = NoSleep
  /\ lag = 0

-----------------------------------------------------------------------------
Masked == at # "task"

(* The counter advances; a match raises the line.  Masked code keeps up. *)
Ticked(s) == IF s.left = 0 THEN s ELSE [s EXCEPT !.left = @ - 1]
Tick ==
  /\ Masked => lag < MaxLag
  /\ CLO' = (CLO + 1) % Wrap
  /\ matched' = (matched \/ CLO' = C1)
  /\ sleep' = Ticked(sleep) /\ nap' = Ticked(nap)
  /\ lag' = IF Masked THEN lag + 1 ELSE 0
  /\ UNCHANGED <<C1, at, interval>>

Step(from, to) == at = from /\ at' = to /\ lag' = 0 /\ UNCHANGED CLO

(* int subtraction: the value with the wrapped sign. *)
Signed(n) == LET m == n % Wrap IN IF m < Wrap \div 2 THEN m ELSE m - Wrap

(* timer_msleep(): the loop ends when a poll finds enough time elapsed. *)
Begin(ms) == [start |-> CLO, ms |-> ms, left |-> ms]
ElapsedWide(s) == s.ms <= CLO - s.start                 \* mutant: a wider subtraction
ElapsedByEnd(s) == CLO >= (s.start + s.ms) % Wrap       \* mutant: compares end times
Elapsed(s) == s.ms <= Signed(CLO - s.start)

(* timer_set_interval() reads CLO and writes C1 in two steps. *)
IntervalFromC1 == (C1 + TIMER_PERIODIC_INTERVAL) % Wrap \* mutant: counts from the last match
Interval == (CLO + TIMER_PERIODIC_INTERVAL) % Wrap
SetIntervalRead(from, to) ==
  /\ Step(from, to)
  /\ interval' = Interval
  /\ UNCHANGED <<C1, matched, sleep, nap>>
SetIntervalWrite(from, to) ==
  /\ Step(from, to)
  /\ C1' = interval /\ interval' = 0
  /\ UNCHANGED <<matched, sleep, nap>>

SleepBegin(from, to, ms) ==
  /\ Step(from, to)
  /\ sleep' = Begin(ms)
  /\ UNCHANGED <<C1, matched, interval, nap>>
SleepPoll(from) ==
  /\ Step(from, from)
  /\ ~Elapsed(sleep)
  /\ UNCHANGED <<C1, matched, interval, sleep, nap>>
SleepEnd(from, to) ==
  /\ Step(from, to)
  /\ Elapsed(sleep)
  /\ sleep' = NoSleep
  /\ UNCHANGED <<C1, matched, interval, nap>>

(* init() with interrupts off: timer_init(), timer_msleep(), thread_start(). *)
Boot ==
  \/ SetIntervalRead("init read", "init write")
  \/ SetIntervalWrite("init write", "boot")
  \/ SleepBegin("boot", "boot sleep", BootSleep)
  \/ SleepPoll("boot sleep")
  \/ SleepEnd("boot sleep", "task")

(* The IRQ: timer_irq_handler() acknowledges the match, ticks, sleeps, and    *)
(* sets the compare again.                                                    *)
TakeIrq ==
  /\ matched
  /\ Step("task", "reset")
  /\ UNCHANGED <<C1, matched, interval, sleep, nap>>
ResetTimerCompare ==
  /\ Step("reset", "sleep")
  /\ matched' = FALSE
  /\ UNCHANGED <<C1, interval, sleep, nap>>
TimerIrqHandler ==
  \/ ResetTimerCompare
  \/ SleepBegin("sleep", "sleeping", HandlerSleep)
  \/ SleepPoll("sleeping")
  \/ SleepEnd("sleeping", "set read")
  \/ SetIntervalRead("set read", "set write")
  \/ SetIntervalWrite("set write", "task")

(* task_5 sleeps with interrupts on, so any time may pass between its polls. *)
NapBegin ==
  /\ at = "task" /\ Awake(nap)
  /\ nap' = Begin(TaskSleep)
  /\ UNCHANGED <<CLO, C1, matched, at, interval, sleep, lag>>
NapEnd ==
  /\ at = "task" /\ ~Awake(nap)
  /\ Elapsed(nap)
  /\ nap' = NoSleep
  /\ UNCHANGED <<CLO, C1, matched, at, interval, sleep, lag>>

TimerNext == Tick \/ Boot \/ TakeIrq \/ TimerIrqHandler \/ NapBegin \/ NapEnd

(* Time passes, the CPU takes a pending IRQ and does not stop in masked code; *)
(* nothing is assumed of the task.                                            *)
TimerFairness ==
  /\ WF_timerVars(Tick)
  /\ WF_timerVars(Boot \/ TakeIrq \/ TimerIrqHandler)
TimerSpec == TimerInit /\ [][TimerNext]_timerVars /\ TimerFairness

-----------------------------------------------------------------------------
(* The next match is never missed: with interrupts on, it is pending or at   *)
(* most an interval away, although the counter went on while the driver      *)
(* computed it, although boot sleeps through the first one, and across the   *)
(* wrap of CLO.  A compare written too late would wait for a whole wrap.     *)
MatchAhead ==
  at \in {"boot", "boot sleep", "task"} /\ ~matched =>
    (C1 - CLO) % Wrap \in 1 .. TIMER_PERIODIC_INTERVAL

(* timer_msleep() never returns early, wherever CLO wraps and however long a *)
(* task is kept from polling.                                                *)
NotEarly ==
  [][/\ Awake(sleep') => sleep.left = 0
     /\ Awake(nap') => nap.left = 0]_timerVars

(* Once timer_init() has set the compare, timer interrupts go on for ever:   *)
(* every sleep in masked code ends and every handler is followed by another  *)
(* IRQ, which is what the preemption of Threads rests on.                    *)
TicksForever == (at # "init read") ~> (at = "reset")
=============================================================================
