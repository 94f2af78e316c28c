---------------------------- MODULE DevicesProofs ----------------------------
(***************************************************************************)
(* The IRQ dispatcher serves in one IRQ whatever was pending when it was   *)
(* taken, for any size of the pending registers; and behind its line the   *)
(* timer's driver never sets its compare too late and timer_msleep() never *)
(* returns early, for any width of the counter, wherever it wraps.         *)
(***************************************************************************)
EXTENDS Interrupts, Timer, TLAPS

-----------------------------------------------------------------------------
(* The dispatcher. *)

(* irq_handlers[] holds the dummy or the line's own driver, and             *)
(* interrupts_enable_irq() comes after the handler is stored.               *)
Table == /\ \A n \in IRQ : \/ irq_handlers[n] = dummy_handler
                           \/ irq_handlers[n] = n /\ n \in Registrable
         /\ registering # None => irq_handlers[registering] = registering

DInv == EnabledHasDriver /\ Table

(* The drivers of the kernel: on lines of the first register, and at most    *)
(* one on a timer compare, as timer_init() registers compare 1 alone.        *)
KernelDrivers ==
  /\ Registrable \cap IRQ \subseteq 0 .. Half - 1
  /\ \A m, n \in Registrable \cap TimerLine : m = n

(* PendingServed is not inductive: a line that is due must also be up until  *)
(* its driver has run, and enabled.                                          *)
DueInv == PendingServed /\ due \subseteq Pending

(* A line number is not None, and the loops' index is a line. *)
LEMMA Lines ==
  /\ None \notin IRQ
  /\ \A k \in 0 .. IRQ_COUNT - 1 : k % Half \in IRQ
<1>1. Half \in Nat \ {0}
  BY HalfAssumption
<1>2. \A k \in Nat : k % Half \in 0 .. Half - 1
  BY <1>1
<1> QED BY <1>1, <1>2 DEF None, IRQ, IRQ_COUNT

(* interrupts_init() establishes the invariant. *)
LEMMA DispatchInit == ASSUME Init PROVE DInv
<1> USE HalfAssumption
<1>1. TypeOK
  BY DEF Init, TypeOK, Handler, dummy_handler, IRQ_COUNT
<1> QED BY <1>1 DEF Init, DInv, EnabledHasDriver, Table

(* A device raises its line. *)
LEMMA RaiseInv == ASSUME DInv, NEW n \in IRQ, Raise(n) PROVE DInv'
BY DEF DInv, EnabledHasDriver, TypeOK, Table, Raise

(* interrupts_register_irq() and interrupts_enable_irq(). *)
LEMMA RegisterInv ==
  ASSUME DInv, NEW n \in Registrable, RegisterIrq(n) PROVE DInv'
<1>1. n \in IRQ
  BY HalfAssumption, LineAssumption DEF RegisterIrq, ValidIrq, IRQ, IRQ_COUNT
<1>2. /\ irq_handlers' = [irq_handlers EXCEPT ![n] = n] /\ registering' = n
      /\ UNCHANGED <<enabled, asserted, unserved, due, scan, ran>>
  BY DEF RegisterIrq
<1>3. TypeOK'
  BY <1>1, <1>2 DEF DInv, EnabledHasDriver, TypeOK, Handler
<1>4. EnabledHasDriver' /\ Table'
  BY <1>1, <1>2, <1>3 DEF DInv, EnabledHasDriver, TypeOK, Table
<1> QED BY <1>4 DEF DInv

LEMMA EnableInv == ASSUME DInv, EnableIrq PROVE DInv'
<1>1. registering \in IRQ
  BY DEF EnableIrq, DInv, EnabledHasDriver, TypeOK
<1> QED BY <1>1 DEF EnableIrq, DInv, EnabledHasDriver, TypeOK, Table, None

(* The scan starts. *)
LEMMA DispatchInv == ASSUME DInv, DispatchIrq PROVE DInv'
<1>1. scan' \in 0 .. IRQ_COUNT
  BY HalfAssumption DEF DispatchIrq, IRQ_COUNT
<1> QED BY <1>1 DEF DispatchIrq, Pending, DInv, EnabledHasDriver, TypeOK, Table

(* One round of the scan. *)
LEMMA ScanInv == ASSUME DInv, ScanLine PROVE DInv'
<1>1. /\ scan \in 0 .. IRQ_COUNT - 1 /\ scan \in IRQ /\ scan' \in 0 .. IRQ_COUNT
      /\ scan' = scan + 1
      /\ UNCHANGED <<irq_handlers, enabled, registering>>
  BY HalfAssumption DEF ScanLine, DInv, EnabledHasDriver, TypeOK, IRQ, IRQ_COUNT
<1>2. CASE scan \notin Pending
  <2>1. UNCHANGED <<asserted, unserved, due, ran>>
    BY <1>2 DEF ScanLine
  <2> QED BY <1>1, <2>1 DEF DInv, EnabledHasDriver, TypeOK, Table
<1>3. CASE scan \in Pending
  <2> DEFINE h == irq_handlers[DispatchNumber]
  <2>1. /\ asserted' = IF h = dummy_handler THEN asserted ELSE asserted \ Acknowledged(h)
        /\ unserved' = unserved \ {h} /\ due' = due \ {h}
        /\ ran' = [line |-> scan, handler |-> h]
    BY <1>3 DEF ScanLine, RunHandler
  <2>2. DispatchNumber \in IRQ
    BY <1>1, Lines DEF DispatchNumber
  <2>3. h \in Handler /\ (h = dummy_handler \/ (h \in IRQ /\ h \in Registrable))
    BY <2>2 DEF DInv, EnabledHasDriver, TypeOK, Table
  <2> HIDE DEF h
  <2>4. TypeOK'
    BY <1>1, <2>1, <2>3 DEF DInv, EnabledHasDriver, TypeOK
  <2>5. EnabledHasDriver' /\ Table'
    BY <1>1, <2>4 DEF DInv, EnabledHasDriver, Table
  <2> QED BY <2>5 DEF DInv
<1> QED BY <1>2, <1>3

(* The invariant of the dispatcher. *)
THEOREM DispatchInvariance == Spec => []DInv
<1>1. ASSUME DInv, [Next]_vars PROVE DInv'
  <2>1. CASE UNCHANGED vars
    BY <1>1, <2>1 DEF vars, DInv, EnabledHasDriver, TypeOK, Table
  <2> QED BY <1>1, <2>1, RaiseInv, RegisterInv, EnableInv, DispatchInv, ScanInv DEF Next
<1> QED BY <1>1, DispatchInit, PTL DEF Spec

(* A line the controller lets through has its driver in irq_handlers[],      *)
(* whenever interrupts_register_irq() is interrupted.                        *)
THEOREM DriverBeforeLine == Spec => []EnabledHasDriver
<1>1. DInv => EnabledHasDriver
  BY DEF DInv
<1> QED BY <1>1, DispatchInvariance, PTL

(* A round of the scan runs the driver of the line it is at, if that is      *)
(* pending, and no other driver's line goes down.                            *)
LEMMA ScanDue ==
  ASSUME KernelDrivers, DInv, DueInv, ScanLine PROVE DueInv'
<1>1. /\ scan \in IRQ /\ scan \in Nat /\ scan' = scan + 1 /\ UNCHANGED enabled
      /\ IRQ \subseteq Nat /\ due \subseteq IRQ
  BY HalfAssumption DEF ScanLine, DInv, EnabledHasDriver, TypeOK, IRQ, IRQ_COUNT
<1>2. \A n \in enabled : /\ n \in IRQ /\ irq_handlers[n] = n
                          /\ n \in Registrable /\ n \in 0 .. Half - 1
  BY Lines DEF DInv, EnabledHasDriver, TypeOK, Table, KernelDrivers, dummy_handler
<1>3. CASE scan \notin Pending
  <2>1. UNCHANGED <<asserted, due>> /\ scan \notin due
    BY <1>3 DEF ScanLine, DueInv
  <2>2. \A n \in due : scan <= n /\ n # scan /\ n \in Nat
    BY <1>1, <2>1 DEF DueInv, PendingServed
  <2> QED BY <1>1, <2>1, <2>2 DEF DueInv, PendingServed, Pending
<1>4. CASE scan \in Pending
  <2>1. scan \in enabled
    BY <1>4 DEF Pending
  <2>2. DispatchNumber = scan
    BY <1>2, <2>1, HalfAssumption DEF DispatchNumber
  <2>3. irq_handlers[DispatchNumber] = scan /\ scan # dummy_handler
    BY <1>1, <1>2, <2>1, <2>2, Lines DEF dummy_handler
  <2>4. asserted' = asserted \ Acknowledged(scan) /\ due' = due \ {scan}
    BY <1>4, <2>3 DEF ScanLine, RunHandler
  <2>5. \A n \in due : n \in Acknowledged(scan) => n = scan
    BY <1>2, <2>1 DEF Acknowledged, KernelDrivers, DueInv, Pending
  <2>6. \A n \in due' : scan <= n /\ n # scan /\ n \in Nat
    BY <1>1, <2>4 DEF DueInv, PendingServed
  <2> QED BY <1>1, <2>4, <2>5, <2>6 DEF DueInv, PendingServed, Pending
<1> QED BY <1>3, <1>4

(* Every other step. *)
LEMMA DueStep ==
  ASSUME KernelDrivers, DInv, DueInv, [Next]_vars PROVE DueInv'
<1>1. ASSUME NEW n \in IRQ, Raise(n) PROVE DueInv'
  BY <1>1 DEF Raise, DueInv, PendingServed, Pending
<1>2. ASSUME NEW n \in Registrable, RegisterIrq(n) PROVE DueInv'
  BY <1>2 DEF RegisterIrq, DueInv, PendingServed, Pending
<1>3. CASE EnableIrq
  BY <1>3 DEF EnableIrq, DueInv, PendingServed, Pending
<1>4. CASE DispatchIrq
  <2>1. \A n \in Pending : 0 <= n
    BY DEF DInv, EnabledHasDriver, TypeOK, Pending, IRQ
  <2> QED BY <1>4, <2>1 DEF DispatchIrq, DueInv, PendingServed, Pending
<1>5. CASE UNCHANGED vars
  BY <1>5 DEF vars, DueInv, PendingServed, Pending
<1> QED BY <1>1, <1>2, <1>3, <1>4, <1>5, ScanDue DEF Next

(* interrupts_dispatch_irq() serves in one IRQ all lines that were pending   *)
(* when it was taken, although the registers are read again for every bit    *)
(* and acknowledging one timer compare clears them all: for the drivers the  *)
(* kernel has.                                                               *)
THEOREM PendingAllServed == ASSUME KernelDrivers PROVE Spec => []PendingServed
<1>1. Init => DueInv
  BY DEF Init, DueInv, PendingServed
<1>2. DInv /\ DueInv /\ [Next]_vars => DueInv'
  BY DueStep
<1>3. DueInv => PendingServed
  BY DEF DueInv
<1> QED BY <1>1, <1>2, <1>3, DispatchInvariance, PTL DEF Spec

-----------------------------------------------------------------------------
(* The timer. *)

Clock == 0 .. Wrap - 1
Place == {"init read", "init write", "boot", "boot sleep", "task",
          "reset", "sleep", "sleeping", "set read", "set write"}
Sleep == [start: Clock, ms: 0 .. (Wrap \div 2) - 1, left: Nat]

TimerType ==
  /\ CLO \in Clock /\ C1 \in Clock /\ interval \in Clock
  /\ matched \in BOOLEAN
  /\ at \in Place
  /\ sleep \in Sleep /\ nap \in Sleep
  /\ lag \in 0 .. MaxLag

(* Between timer_set_interval()'s read and its write the compare to be       *)
(* written comes closer by the ticks that pass, and stays ahead.             *)
WriteAhead ==
  at \in {"init write", "set write"} =>
    (interval - CLO) % Wrap = TIMER_PERIODIC_INTERVAL - lag

(* A sleep that is not over has slept for MS - LEFT ticks, and CLO says so:  *)
(* it has not wrapped past the start.                                        *)
Timed(s) == /\ s.left <= s.ms
            /\ s.left > 0 => (CLO - s.start) % Wrap = s.ms - s.left

(* MatchAhead holds where the compare is set only because of WriteAhead.     *)
TimerInv == TimerType /\ MatchAhead /\ WriteAhead /\ Timed(sleep) /\ Timed(nap)

-----------------------------------------------------------------------------
(* The counter's range. *)
LEMMA Sizes ==
  /\ Wrap \in Nat \ {0} /\ Wrap \div 2 \in Nat /\ 2 * (Wrap \div 2) = Wrap
  /\ TIMER_PERIODIC_INTERVAL \in 1 .. (Wrap \div 2) - 1
  /\ BootSleep \in 1 .. (Wrap \div 2) - 1
  /\ HandlerSleep \in 1 .. (Wrap \div 2) - 1
  /\ TaskSleep \in 1 .. (Wrap \div 2) - 1
  /\ MaxLag \in 1 .. TIMER_PERIODIC_INTERVAL - 1
BY TimerAssumption

LEMMA Bounds ==
  /\ Wrap \in Nat /\ 3 < Wrap
  /\ TIMER_PERIODIC_INTERVAL \in Nat
  /\ 0 < TIMER_PERIODIC_INTERVAL /\ TIMER_PERIODIC_INTERVAL < Wrap - 1
  /\ MaxLag \in Nat /\ 0 < MaxLag /\ MaxLag < TIMER_PERIODIC_INTERVAL
BY Sizes

(* Differences of timestamps. *)
LEMMA Difference ==
  ASSUME NEW a \in Clock, NEW b \in Clock
  PROVE  (a - b) % Wrap = IF b <= a THEN a - b ELSE a - b + Wrap
<1>1. CASE b <= a
  <2>1. a - b \in 0 .. Wrap - 1
    BY <1>1, Sizes DEF Clock
  <2> QED BY <1>1, <2>1, Sizes
<1>2. CASE ~(b <= a)
  <2>1. a - b \in Int /\ -Wrap <= a - b /\ a - b <= -1
    BY <1>2, Sizes DEF Clock
  <2> QED BY <1>2, <2>1, Sizes
<1> QED BY <1>1, <1>2

(* A number that has wrapped once. *)
LEMMA Wrapped ==
  ASSUME NEW w \in Nat \ {0}, NEW x \in w .. 2 * w - 1
  PROVE  x % w = x - w
OBVIOUS

(* Adding to a timestamp. *)
LEMMA Later ==
  ASSUME NEW a \in Clock, NEW k \in 0 .. Wrap - 1
  PROVE  (a + k) % Wrap = IF a + k < Wrap THEN a + k ELSE a + k - Wrap
<1>1. CASE a + k < Wrap
  <2>1. a + k \in 0 .. Wrap - 1
    BY <1>1, Sizes DEF Clock
  <2> QED BY <1>1, <2>1, Sizes
<1>2. CASE ~(a + k < Wrap)
  <2>1. a + k \in Wrap .. 2 * Wrap - 1
    BY <1>2, Sizes DEF Clock
  <2>2. (a + k) % Wrap = (a + k) - Wrap
    BY <2>1, Sizes, Wrapped
  <2> QED BY <1>2, <2>2, Sizes DEF Clock
<1> QED BY <1>1, <1>2

(* A compare that is ahead of the counter gets closer with every tick, and a *)
(* timestamp gets older.                                                     *)
LEMMA TickDistance ==
  ASSUME NEW a \in Clock, NEW now \in Clock
  PROVE  /\ (now + 1) % Wrap \in Clock
         /\ (a - now) % Wrap \in Clock
         /\ (a - now) % Wrap = 1 => (now + 1) % Wrap = a
         /\ (a - now) % Wrap > 0
              => (a - ((now + 1) % Wrap)) % Wrap = ((a - now) % Wrap) - 1
         /\ (now - a) % Wrap \in Clock
         /\ (now - a) % Wrap < Wrap - 1
              => (((now + 1) % Wrap) - a) % Wrap = ((now - a) % Wrap) + 1
<1> DEFINE n == (now + 1) % Wrap
<1>0. Wrap \in Nat \ {0} /\ 1 \in 0 .. Wrap - 1
  BY Sizes
<1>1. n = IF now + 1 < Wrap THEN now + 1 ELSE now + 1 - Wrap
  BY <1>0, Later
<1>2. n \in Clock
  BY <1>0, <1>1 DEF Clock
<1> HIDE DEF n
<1>3. /\ (a - now) % Wrap = IF now <= a THEN a - now ELSE a - now + Wrap
      /\ (now - a) % Wrap = IF a <= now THEN now - a ELSE now - a + Wrap
      /\ (a - n) % Wrap = IF n <= a THEN a - n ELSE a - n + Wrap
      /\ (n - a) % Wrap = IF a <= n THEN n - a ELSE n - a + Wrap
  BY <1>2, Difference
<1>4. (a - now) % Wrap \in Clock /\ (now - a) % Wrap \in Clock
  BY <1>0, <1>3 DEF Clock
<1>5. (a - now) % Wrap = 1 => n = a
  BY <1>0, <1>1, <1>3 DEF Clock
<1>6. (a - now) % Wrap > 0 => (a - n) % Wrap = ((a - now) % Wrap) - 1
  BY <1>0, <1>1, <1>2, <1>3 DEF Clock
<1>7. (now - a) % Wrap < Wrap - 1 => (n - a) % Wrap = ((now - a) % Wrap) + 1
  BY <1>0, <1>1, <1>2, <1>3 DEF Clock
<1> QED BY <1>2, <1>4, <1>5, <1>6, <1>7 DEF n

(* A compare that is at most an interval ahead stays so until it matches. *)
LEMMA Closer ==
  ASSUME NEW a \in Clock, NEW now \in Clock,
         (a - now) % Wrap \in 1 .. TIMER_PERIODIC_INTERVAL, (now + 1) % Wrap # a
  PROVE  (a - ((now + 1) % Wrap)) % Wrap \in 1 .. TIMER_PERIODIC_INTERVAL
<1> DEFINE d == (a - now) % Wrap
           e == (a - ((now + 1) % Wrap)) % Wrap
<1>1. d \in 1 .. TIMER_PERIODIC_INTERVAL /\ d # 1 /\ (d > 0 => e = d - 1)
  BY TickDistance
<1> HIDE DEF d, e
<1>2. e \in 1 .. TIMER_PERIODIC_INTERVAL
  BY <1>1, Bounds
<1> QED BY <1>2 DEF e

(* One that is to be written comes closer by one. *)
LEMMA CloserByOne ==
  ASSUME NEW a \in Clock, NEW now \in Clock, NEW n \in 0 .. MaxLag, n < MaxLag,
         (a - now) % Wrap = TIMER_PERIODIC_INTERVAL - n
  PROVE  (a - ((now + 1) % Wrap)) % Wrap = TIMER_PERIODIC_INTERVAL - (n + 1)
<1> DEFINE d == (a - now) % Wrap
           e == (a - ((now + 1) % Wrap)) % Wrap
<1>1. d = TIMER_PERIODIC_INTERVAL - n /\ (d > 0 => e = d - 1)
  BY TickDistance
<1> HIDE DEF d, e
<1>2. e = TIMER_PERIODIC_INTERVAL - (n + 1)
  BY <1>1, Bounds
<1> QED BY <1>2 DEF e

(* timer_set_interval() computes a compare one interval ahead. *)
LEMMA IntervalAhead ==
  ASSUME NEW now \in Clock
  PROVE  /\ (now + TIMER_PERIODIC_INTERVAL) % Wrap \in Clock
         /\ (((now + TIMER_PERIODIC_INTERVAL) % Wrap) - now) % Wrap = TIMER_PERIODIC_INTERVAL - 0
<1> DEFINE n == (now + TIMER_PERIODIC_INTERVAL) % Wrap
           d == (n - now) % Wrap
<1>1. n = IF now + TIMER_PERIODIC_INTERVAL < Wrap THEN now + TIMER_PERIODIC_INTERVAL
          ELSE now + TIMER_PERIODIC_INTERVAL - Wrap
  BY Bounds, Later
<1> HIDE DEF n
<1>2. n \in Clock
  BY <1>1, Bounds DEF Clock
<1>3. d = IF now <= n THEN n - now ELSE n - now + Wrap
  BY <1>2, Difference
<1> HIDE DEF d
<1>4. d = TIMER_PERIODIC_INTERVAL - 0
  BY <1>1, <1>3, Bounds DEF Clock
<1> QED BY <1>2, <1>4 DEF n, d

(* The write is not late: less than an interval has passed since the read. *)
LEMMA NotLate ==
  /\ 0 \in 0 .. MaxLag /\ 0 \in Clock
  /\ \A n \in 0 .. MaxLag :
       /\ TIMER_PERIODIC_INTERVAL - n \in 1 .. TIMER_PERIODIC_INTERVAL
       /\ n < MaxLag => n + 1 \in 0 .. MaxLag
BY Bounds DEF Clock

-----------------------------------------------------------------------------
(* A tick keeps a sleep timed. *)
LEMMA TickTimed ==
  ASSUME CLO \in Clock, CLO' = (CLO + 1) % Wrap, NEW s \in Sleep, Timed(s)
  PROVE  /\ Ticked(s) \in Sleep
         /\ Ticked(s).left <= Ticked(s).ms
         /\ Ticked(s).left > 0
              => (CLO' - Ticked(s).start) % Wrap = Ticked(s).ms - Ticked(s).left
<1>0. /\ s.start \in Clock /\ s.ms \in 0 .. (Wrap \div 2) - 1 /\ s.left \in Nat
      /\ s = [start |-> s.start, ms |-> s.ms, left |-> s.left]
      /\ s.left <= s.ms
      /\ s.left > 0 => (CLO - s.start) % Wrap = s.ms - s.left
  BY DEF Sleep, Timed
<1>1. CASE s.left = 0
  BY <1>0, <1>1 DEF Ticked
<1>2. CASE s.left > 0
  <2>1. /\ Ticked(s) \in Sleep
        /\ Ticked(s).start = s.start /\ Ticked(s).ms = s.ms
        /\ Ticked(s).left = s.left - 1
    BY <1>0, <1>2 DEF Ticked, Sleep
  <2>2. (CLO - s.start) % Wrap < Wrap - 1
    BY <1>0, <1>2, Sizes
  <2>3. (CLO' - s.start) % Wrap = ((CLO - s.start) % Wrap) + 1
    BY <1>0, <2>2, TickDistance
  <2> QED BY <1>0, <1>2, <2>1, <2>3
<1> QED BY <1>0, <1>1, <1>2

(* The counter advances. *)
LEMMA TickInv == ASSUME TimerInv, Tick PROVE TimerInv'
<1>0. /\ CLO \in Clock /\ C1 \in Clock /\ interval \in Clock /\ lag \in 0 .. MaxLag
      /\ sleep \in Sleep /\ nap \in Sleep /\ Timed(sleep) /\ Timed(nap)
  BY DEF TimerInv, TimerType
<1>1. /\ CLO' = (CLO + 1) % Wrap
      /\ matched' = (matched \/ CLO' = C1)
      /\ sleep' = Ticked(sleep) /\ nap' = Ticked(nap)
      /\ lag' = IF Masked THEN lag + 1 ELSE 0
      /\ Masked => lag < MaxLag
      /\ UNCHANGED <<C1, at, interval>>
  BY DEF Tick
<1>2. CLO' \in Clock /\ lag' \in 0 .. MaxLag
  BY <1>0, <1>1, TickDistance, NotLate
<1>3. sleep' \in Sleep /\ nap' \in Sleep /\ Timed(sleep)' /\ Timed(nap)'
  BY <1>0, <1>1, TickTimed DEF Timed
<1>4. TimerType'
  BY <1>1, <1>2, <1>3 DEF TimerInv, TimerType
<1>5. MatchAhead'
  <2>1. ASSUME (C1 - CLO) % Wrap \in 1 .. TIMER_PERIODIC_INTERVAL, CLO' # C1
        PROVE  (C1 - CLO') % Wrap \in 1 .. TIMER_PERIODIC_INTERVAL
    BY <1>0, <1>1, <2>1, Closer
  <2> QED BY <1>1, <2>1 DEF TimerInv, MatchAhead
<1>6. WriteAhead'
  <2> SUFFICES ASSUME at \in {"init write", "set write"}
               PROVE  (interval - CLO') % Wrap = TIMER_PERIODIC_INTERVAL - lag'
    BY <1>1 DEF WriteAhead
  <2>1. lag < MaxLag /\ lag' = lag + 1
    BY <1>1 DEF Masked
  <2>2. (interval - CLO) % Wrap = TIMER_PERIODIC_INTERVAL - lag
    BY DEF TimerInv, WriteAhead
  <2>3. (interval - ((CLO + 1) % Wrap)) % Wrap = TIMER_PERIODIC_INTERVAL - (lag + 1)
    BY <1>0, <2>1, <2>2, CloserByOne
  <2> QED BY <1>1, <2>1, <2>3
<1> QED BY <1>3, <1>4, <1>5, <1>6 DEF TimerInv

(* timer_msleep() reads its start time. *)
LEMMA BeginTimed ==
  ASSUME CLO \in Clock, NEW ms \in 1 .. (Wrap \div 2) - 1
  PROVE  Begin(ms) \in Sleep /\ Timed(Begin(ms)) /\ ~Awake(Begin(ms))
<1>1. (CLO - CLO) % Wrap = 0
  BY Sizes, Difference DEF Clock
<1> QED BY <1>1, Sizes DEF Begin, Sleep, Timed, Awake

LEMMA NoSleepTimed == NoSleep \in Sleep /\ Timed(NoSleep)
BY Sizes DEF NoSleep, Sleep, Timed, Clock

(* A step of the driver that leaves the compare alone, at or after the same  *)
(* match; its sleeps are timed.                                              *)
LEMMA StepInv ==
  ASSUME TimerInv, UNCHANGED <<CLO, C1, interval>>,
         at' \in Place \ {"init write", "set write"},
         at' \in {"boot", "boot sleep", "task"} => at \in {"boot", "boot sleep", "task"},
         matched' \in BOOLEAN, lag' \in 0 .. MaxLag,
         at' \in {"boot", "boot sleep", "task"} => matched' = matched,
         sleep' \in Sleep, nap' \in Sleep, Timed(sleep)', Timed(nap)'
  PROVE  TimerInv'
<1>1. TimerType' /\ WriteAhead'
  BY DEF TimerInv, TimerType, WriteAhead
<1>2. MatchAhead'
  BY DEF TimerInv, MatchAhead
<1> QED BY <1>1, <1>2 DEF TimerInv

(* The sleeps of masked code, and the start of the handler. *)
LEMMA SleepInv ==
  ASSUME TimerInv,
         \/ SleepBegin("boot", "boot sleep", BootSleep)
         \/ SleepPoll("boot sleep") \/ SleepEnd("boot sleep", "task")
         \/ TakeIrq \/ ResetTimerCompare
         \/ SleepBegin("sleep", "sleeping", HandlerSleep)
         \/ SleepPoll("sleeping") \/ SleepEnd("sleeping", "set read")
  PROVE  TimerInv'
<1>1. PICK from \in Place, to \in Place \ {"init write", "set write"} :
        /\ Step(from, to)
        /\ to \in {"boot", "boot sleep", "task"} => from \in {"boot", "boot sleep", "task"}
        /\ to \in {"boot", "boot sleep", "task"} => matched' = matched
        /\ matched' \in BOOLEAN
        /\ sleep' \in {sleep, Begin(BootSleep), Begin(HandlerSleep), NoSleep}
        /\ UNCHANGED <<C1, interval, nap>>
  BY DEF TimerInv, TimerType, Place, SleepBegin, SleepPoll, SleepEnd, TakeIrq,
         ResetTimerCompare, Step
<1>2. CLO \in Clock /\ UNCHANGED CLO
  BY <1>1 DEF Step, TimerInv, TimerType
<1>3. \A s \in {sleep, Begin(BootSleep), Begin(HandlerSleep), NoSleep} :
        s \in Sleep /\ Timed(s)
  BY <1>2, Sizes, BeginTimed, NoSleepTimed DEF TimerInv, TimerType
<1>4. sleep' \in Sleep /\ nap' \in Sleep /\ Timed(sleep)' /\ Timed(nap)'
  BY <1>1, <1>2, <1>3 DEF TimerInv, TimerType, Timed
<1>5. at' = to /\ at = from /\ lag' \in 0 .. MaxLag
  BY <1>1, NotLate DEF Step
<1> QED BY <1>1, <1>2, <1>4, <1>5, StepInv

(* timer_msleep() of a task. *)
LEMMA NapInv == ASSUME TimerInv, NapBegin \/ NapEnd PROVE TimerInv'
<1>1. /\ at = "task" /\ nap' \in {Begin(TaskSleep), NoSleep}
      /\ UNCHANGED <<CLO, C1, matched, at, interval, sleep, lag>>
  BY DEF NapBegin, NapEnd
<1>2. \A s \in {Begin(TaskSleep), NoSleep} : s \in Sleep /\ Timed(s)
  BY Sizes, BeginTimed, NoSleepTimed DEF TimerInv, TimerType
<1>3. sleep' \in Sleep /\ nap' \in Sleep /\ Timed(sleep)' /\ Timed(nap)'
  BY <1>1, <1>2 DEF TimerInv, TimerType, Timed
<1> QED BY <1>1, <1>3, StepInv DEF TimerInv, TimerType, Place

(* timer_set_interval(): the new compare is an interval ahead when it is     *)
(* computed, and still ahead when it is written.                             *)
LEMMA SetIntervalInv ==
  ASSUME TimerInv,
         \/ SetIntervalRead("init read", "init write")
         \/ SetIntervalRead("set read", "set write")
         \/ SetIntervalWrite("init write", "boot")
         \/ SetIntervalWrite("set write", "task")
  PROVE  TimerInv'
<1>0. CLO \in Clock /\ interval \in Clock /\ lag \in 0 .. MaxLag
  BY DEF TimerInv, TimerType
<1>1. CASE \/ SetIntervalRead("init read", "init write")
           \/ SetIntervalRead("set read", "set write")
  <2>1. /\ at' \in {"init write", "set write"} /\ interval' = Interval /\ lag' = 0
        /\ UNCHANGED <<CLO, C1, matched, sleep, nap>>
    BY <1>1 DEF SetIntervalRead, Step
  <2>2. /\ interval' \in Clock /\ lag' \in 0 .. MaxLag
        /\ (interval' - CLO) % Wrap = TIMER_PERIODIC_INTERVAL - lag'
    BY <1>0, <2>1, IntervalAhead, NotLate DEF Interval
  <2>3. TimerType'
    BY <2>1, <2>2 DEF TimerInv, TimerType, Place
  <2>4. MatchAhead' /\ WriteAhead'
    BY <2>1, <2>2 DEF MatchAhead, WriteAhead
  <2> QED BY <2>1, <2>3, <2>4 DEF TimerInv, Timed
<1>2. CASE \/ SetIntervalWrite("init write", "boot")
           \/ SetIntervalWrite("set write", "task")
  <2>1. /\ at \in {"init write", "set write"} /\ at' \in {"boot", "task"}
        /\ C1' = interval /\ interval' = 0 /\ lag' = 0
        /\ UNCHANGED <<CLO, matched, sleep, nap>>
    BY <1>2 DEF SetIntervalWrite, Step
  <2>2. (C1' - CLO) % Wrap \in 1 .. TIMER_PERIODIC_INTERVAL
    BY <1>0, <2>1, NotLate DEF TimerInv, WriteAhead
  <2>3. TimerType'
    BY <2>1, NotLate DEF TimerInv, TimerType, Place
  <2>4. MatchAhead' /\ WriteAhead'
    BY <2>1, <2>2 DEF MatchAhead, WriteAhead
  <2> QED BY <2>1, <2>3, <2>4 DEF TimerInv, Timed
<1> QED BY <1>1, <1>2

-----------------------------------------------------------------------------
(* The invariant of the driver and its counter. *)
THEOREM TimerInvariance == TimerSpec => []TimerInv
<1>1. ASSUME TimerInit PROVE TimerInv
  <2>1. TimerType
    BY <1>1, NotLate, NoSleepTimed DEF TimerInit, TimerType, Clock, Place
  <2> QED BY <1>1, <2>1, NoSleepTimed DEF TimerInit, TimerInv, MatchAhead, WriteAhead
<1>2. ASSUME TimerInv, [TimerNext]_timerVars PROVE TimerInv'
  <2>1. CASE UNCHANGED timerVars
    BY <1>2, <2>1 DEF timerVars, TimerInv, TimerType, MatchAhead, WriteAhead, Timed
  <2>2. CASE Boot
    BY <1>2, <2>2, SleepInv, SetIntervalInv DEF Boot
  <2>3. CASE TimerIrqHandler
    BY <1>2, <2>3, SleepInv, SetIntervalInv DEF TimerIrqHandler
  <2> QED BY <1>2, <2>1, <2>2, <2>3, TickInv, SleepInv, NapInv DEF TimerNext
<1> QED BY <1>1, <1>2, PTL DEF TimerSpec

(* timer_set_interval() never writes a compare that the counter has passed,  *)
(* so the next timer IRQ is at most an interval away.                        *)
THEOREM NextMatchAhead == TimerSpec => []MatchAhead
<1>1. TimerInv => MatchAhead
  BY DEF TimerInv
<1> QED BY <1>1, TimerInvariance, PTL

(* A poll of timer_msleep() does not end the loop while ticks are left.      *)
LEMMA ElapsedLate ==
  ASSUME TimerInv, NEW s \in {sleep, nap}, Elapsed(s) PROVE s.left = 0
<1>0. s \in Sleep /\ Timed(s)
  BY DEF TimerInv, TimerType
<1>1. SUFFICES ASSUME s.left > 0 PROVE FALSE
  BY <1>0 DEF Sleep
<1>2. (CLO - s.start) % Wrap = s.ms - s.left /\ s.ms \in 0 .. (Wrap \div 2) - 1
      /\ s.left \in Nat /\ s.left <= s.ms
  BY <1>0, <1>1 DEF Timed, Sleep
<1>3. Signed(CLO - s.start) = s.ms - s.left
  BY <1>2, Sizes DEF Signed
<1> QED BY <1>1, <1>2, <1>3, Sizes DEF Elapsed

(* timer_msleep() never returns early, in masked code or in a task.          *)
THEOREM SleepsFully == TimerSpec => NotEarly
<1>1. ASSUME TimerInv, [TimerNext]_timerVars
      PROVE  [/\ Awake(sleep') => sleep.left = 0
              /\ Awake(nap') => nap.left = 0]_timerVars
  <2>1. /\ Awake(sleep) => sleep.left = 0
        /\ Awake(nap) => nap.left = 0
    BY <1>1 DEF TimerInv, TimerType, Sleep, Timed, Awake
  <2>2. \A ms \in {BootSleep, HandlerSleep, TaskSleep} : ~Awake(Begin(ms))
    BY <1>1, Sizes, BeginTimed DEF TimerInv, TimerType
  <2>3. CASE Tick
    <3>1. \A s \in Sleep : Awake(Ticked(s)) => Awake(s)
      BY DEF Ticked, Awake, Sleep
    <3> QED BY <1>1, <2>1, <2>3, <3>1 DEF Tick, TimerInv, TimerType
  <2>4. CASE Boot
    BY <1>1, <2>1, <2>2, <2>4, ElapsedLate
       DEF Boot, SetIntervalRead, SetIntervalWrite, SleepBegin, SleepPoll, SleepEnd
  <2>5. CASE TakeIrq
    BY <2>1, <2>5 DEF TakeIrq
  <2>6. CASE TimerIrqHandler
    BY <1>1, <2>1, <2>2, <2>6, ElapsedLate
       DEF TimerIrqHandler, ResetTimerCompare, SetIntervalRead, SetIntervalWrite,
           SleepBegin, SleepPoll, SleepEnd
  <2>7. CASE NapBegin \/ NapEnd
    BY <1>1, <2>1, <2>2, <2>7, ElapsedLate DEF NapBegin, NapEnd
  <2> QED BY <1>1, <2>3, <2>4, <2>5, <2>6, <2>7 DEF TimerNext
<1> QED BY <1>1, TimerInvariance, PTL DEF TimerSpec, NotEarly
=============================================================================
