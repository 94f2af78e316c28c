----------------------------- MODULE Interrupts -----------------------------
(***************************************************************************)
(* The IRQ dispatcher of threads/interrupt.c over the BCM2835 interrupt    *)
(* controller: registration of handlers, and the scan of the two pending   *)
(* registers, which are read again for every bit while devices go on       *)
(* raising their lines.  The one driver, devices/timer.c, shares the       *)
(* status register CS among the lines of the four timer compares.          *)
(***************************************************************************)
EXTENDS Naturals

CONSTANTS Half,         \* lines per pending register, IRQ_COUNT / 2
          Registrable,  \* lines that drivers register a handler for
          TimerLine     \* lines of the system timer compares

IRQ_COUNT == 2 * Half
IRQ == 0 .. IRQ_COUNT - 1

ASSUME HalfAssumption == Half \in Nat \ {0}
ASSUME LineAssumption == Registrable \subseteq Nat /\ TimerLine \subseteq IRQ

(* irq_handlers[] holds dummy_handler, or the driver of the line that the    *)
(* handler was written for; a driver is named by its line.                   *)
None == IRQ_COUNT + 1
dummy_handler == None
Handler == IRQ \cup {dummy_handler}

VARIABLES irq_handlers,
          enabled,      \* the controller's enable registers
          asserted,     \* lines a device holds up
          unserved,     \* events whose driver has not run yet
          due,          \* pending when this IRQ was taken, driver yet to run
          registering,  \* the line interrupts_register_irq() is at
          scan,         \* next line of the scan; IRQ_COUNT outside an IRQ
          ran           \* the line last found pending and the handler run for it

vars == <<irq_handlers, enabled, asserted, unserved, due, registering, scan, ran>>

TypeOK ==
  /\ irq_handlers \in [IRQ -> Handler]
  /\ enabled \in SUBSET IRQ
  /\ asserted \in SUBSET IRQ
  /\ unserved \in SUBSET IRQ
  /\ due \in SUBSET IRQ
  /\ registering \in IRQ \cup {None}
  /\ scan \in 0 .. IRQ_COUNT
  /\ ran \in [line: IRQ \cup {None}, handler: Handler]

(* interrupts_init(). *)
Init ==
  /\ irq_handlers = [n \in IRQ |-> dummy_handler]
  /\ enabled = {}
  /\ asserted = {}
  /\ unserved = {}
  /\ due = {}
  /\ registering = None
  /\ scan = IRQ_COUNT
  /\ ran = [line |-> None, handler |-> dummy_handler]

(* The pending registers: lines up and enabled. *)
Pending == asserted \cap enabled

-----------------------------------------------------------------------------
(* A device raises its line. *)
Raise(n) ==
  /\ n \notin asserted
  /\ asserted' = asserted \cup {n}
  /\ unserved' = unserved \cup {n}
  /\ UNCHANGED <<irq_handlers, enabled, due, registering, scan, ran>>

(* interrupts_is_valid_irq_number(). *)
ValidIrq(n) == n < IRQ_COUNT

(* interrupts_register_irq() for a valid number stores the handler; for any *)
(* other number it returns at once.  Driver code runs outside IRQs.          *)
RegisterIrq(n) ==
  /\ scan = IRQ_COUNT /\ registering = None
  /\ ValidIrq(n)
  /\ irq_handlers' = [irq_handlers EXCEPT ![n] = n]
  /\ registering' = n
  /\ UNCHANGED <<enabled, asserted, unserved, due, scan, ran>>

(* interrupts_enable_irq(), which ends the registration. *)
EnableOtherRegister ==                  \* mutant: the wrong enable register
  /\ scan = IRQ_COUNT /\ registering # None
  /\ enabled' = enabled \cup {(registering + Half) % IRQ_COUNT}
  /\ registering' = None
  /\ UNCHANGED <<irq_handlers, asserted, unserved, due, scan, ran>>
EnableIrq ==
  /\ scan = IRQ_COUNT /\ registering # None
  /\ enabled' = enabled \cup {registering}
  /\ registering' = None
  /\ UNCHANGED <<irq_handlers, asserted, unserved, due, scan, ran>>

(* The CPU takes the IRQ; interrupts_dispatch_irq() starts. *)
DispatchIrq ==
  /\ scan = IRQ_COUNT
  /\ Pending # {}
  /\ scan' = 0
  /\ due' = Pending
  /\ UNCHANGED <<irq_handlers, enabled, asserted, unserved, registering, ran>>

(* Lines that go down when the driver of line N acknowledges it.  The timer  *)
(* writes CS | (1 << N), and a 1 clears the compare it stands for: all the   *)
(* compares that have matched.                                               *)
Acknowledged(n) == IF n \in TimerLine THEN TimerLine ELSE {n}

(* irq_handlers[irq_number](stack_frame); the dummy handler only prints. *)
RunHandler(irq_number) ==
  LET h == irq_handlers[irq_number]
  IN  /\ asserted' = IF h = dummy_handler THEN asserted ELSE asserted \ Acknowledged(h)
      /\ unserved' = unserved \ {h}
      /\ due' = due \ {h}
      /\ ran' = [line |-> scan, handler |-> h]

(* The argument of interrupts_dispatch_pending_irq() for the line at SCAN:   *)
(* both loops pass their own index, which starts at 0 in each.               *)
DispatchNumberNext == (scan + 1) % Half \* mutant: off by one
DispatchNumber == scan % Half

(* One round of either loop. *)
ScanLineLeaves ==                       \* mutant: a loop left once a handler ran
  /\ scan < IRQ_COUNT
  /\ IF scan \in Pending
     THEN scan' = IRQ_COUNT /\ RunHandler(DispatchNumber)
     ELSE scan' = scan + 1 /\ UNCHANGED <<asserted, unserved, due, ran>>
  /\ UNCHANGED <<irq_handlers, enabled, registering>>
ScanLine ==
  /\ scan < IRQ_COUNT
  /\ scan' = scan + 1
  /\ IF scan \in Pending THEN RunHandler(DispatchNumber)
                         ELSE UNCHANGED <<asserted, unserved, due, ran>>
  /\ UNCHANGED <<irq_handlers, enabled, registering>>

Next ==
  \/ \E n \in IRQ : Raise(n)
  \/ \E n \in Registrable : RegisterIrq(n)
  \/ EnableIrq \/ DispatchIrq \/ ScanLine

Spec == Init /\ [][Next]_vars

(* A pending IRQ is taken, and the dispatcher does not stop. *)
FairSpec == Spec /\ WF_vars(DispatchIrq) /\ WF_vars(ScanLine)

-----------------------------------------------------------------------------
(* A line the controller lets through has its driver's handler in the table: *)
(* a line whose handler is the dummy would never go down again.              *)
EnabledHasDriver == TypeOK /\ \A n \in enabled : irq_handlers[n] = n

(* interrupt.c runs all that is pending in one IRQ: a line that was pending *)
(* when the IRQ was taken is still ahead of the scan, or its driver has run, *)
(* whatever other drivers acknowledged in the meantime; at the end of the    *)
(* IRQ all have.  It needs a driver's acknowledgement to take down no line   *)
(* of another driver, and the scan to run a line's own handler.              *)
PendingServed == \A n \in due : scan <= n

(* Every event of a registered and enabled line is served, also when it is   *)
(* raised behind the scan.                                                   *)
EventsServed == \A n \in IRQ : (n \in unserved /\ n \in enabled) ~> (n \notin unserved)

(* interrupt.c: "Register the IRQ handler for the given interrupt number.    *)
(* The BCM2835 has 64 IRQ interruptions that are enumerated from 0 to 63."   *)
(* What runs for a pending line is the handler registered for its number.    *)
RunsRegisteredHandler ==
  ran.line # None => ran.handler = irq_handlers[ran.line]
=============================================================================
