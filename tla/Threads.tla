------------------------------ MODULE Threads ------------------------------
(***************************************************************************)
(* The kernel's thread system: threads/thread.c, the IRQ path of           *)
(* threads/interrupt.c with its assembly entry and exit                    *)
(* (arm_asm/interruptsHandlers.s, arm_asm/contextSwitch.s), and the        *)
(* semaphores of threads/synch.c that threads block on.                    *)
(*                                                                         *)
(* There is one CPU.  Code that runs with IRQs masked cannot be            *)
(* interleaved with anything, so each masked section is one action; an     *)
(* action ends where IRQs may be on or where the CPU changes hands.        *)
(*                                                                         *)
(* A thread is named by the page that holds its struct thread and its      *)
(* stack: thread_current() is the stack pointer rounded down to a page.    *)
(* A failing ASSERT halts the kernel (debug_panic): `panicked'.            *)
(***************************************************************************)
EXTENDS Naturals, Sequences, FiniteSets, Functions

CONSTANTS Page,         \* pages of the kernel pool that can hold a thread
          Main,         \* the page start.s gives the boot code: initial_thread
          Sema,         \* the semaphores tasks use
          IdleStarted,  \* the semaphore on thread_start()'s stack
          NULL,         \* the null pointer
          TaskLevel,    \* levels tasks pass to interrupts_set_level() themselves
          MaxTid,       \* bound: tids handed out
          MaxValue      \* bound: value a task raises a semaphore to

Thread == Page \cup {Main}
AllSema == Sema \cup {IdleStarted}

ASSUME PageAssumption == Page # {} /\ IsFiniteSet(Page) /\ Main \notin Page
ASSUME SemaAssumption == IdleStarted \notin Sema
ASSUME NullAssumption == NULL \notin Thread /\ NULL \notin AllSema
                         /\ NULL \notin {"idle", "task"}
ASSUME LevelAssumption == TaskLevel \subseteq {"ON", "OFF"}
ASSUME BoundAssumption == MaxTid \in Nat \ {0} /\ MaxValue \in Nat \ {0}

(* Ticks a thread may run before it is made to yield. *)
TIME_SLICE == 2

Level == {"ON", "OFF"}
Status == {"RUNNING", "READY", "BLOCKED", "DYING", "FREE"}
PC == {"none", "thread_start", "thread_start_wait", "kernel_thread", "user",
       "thread_unblock", "thread_yield", "sema_down", "thread_exit",
       "idle", "idle_sema_up", "idle_loop", "idle_blocked"}
Arg == Thread \cup AllSema \cup {"idle", "task", NULL}

(* What a switch saves and restores (struct interrupts_stack_frame and the *)
(* locals on the stack it points to): the stack, the IRQ mask of the CPSR, *)
(* the point in the code, the object the code is working on, and the local *)
(* old_level of the kernel function the thread is in.                      *)
Frame ==
  {f \in [sp: Thread, irq: Level, pc: PC, arg: Arg, old: Level] :
     /\ f.pc = "thread_unblock" => f.arg \in Thread
     /\ f.pc = "sema_down" => f.arg \in AllSema}

VARIABLES status,       \* struct thread: status; "FREE" where there is no thread
          tid,          \* struct thread: tid
          stack_frame,  \* struct thread: stack_frame
          ready_list, all_list, idle_thread, next_tid, thread_ticks,
          cpu,          \* the registers of SYSTEM mode
          irq_frame,    \* the frame irq_handler_int pushed, NULL outside an IRQ
          in_external_interrupt, was_irq_generated, yield_on_return,
          value, waiters,       \* struct semaphore
          panicked

threadVars == <<status, tid, stack_frame, ready_list, all_list, idle_thread,
                next_tid, thread_ticks>>
irqVars == <<irq_frame, in_external_interrupt, was_irq_generated,
             yield_on_return>>
semaVars == <<value, waiters>>
vars == <<threadVars, cpu, irqVars, semaVars, panicked>>

TypeOK ==
  /\ status \in [Thread -> Status]
  /\ tid \in [Thread -> Nat]
  /\ stack_frame \in [Thread -> Frame]
  /\ ready_list \in Seq(Thread)
  /\ all_list \in SUBSET Thread
  /\ idle_thread \in Thread \cup {NULL}
  /\ next_tid \in Nat
  /\ thread_ticks \in Nat
  /\ cpu \in Frame
  /\ irq_frame \in IF was_irq_generated THEN Frame ELSE {NULL}
  /\ in_external_interrupt \in BOOLEAN
  /\ was_irq_generated \in BOOLEAN
  /\ yield_on_return \in BOOLEAN
  /\ value \in [AllSema -> Nat]
  /\ waiters \in [AllSema -> Seq(Thread)]
  /\ panicked \in BOOLEAN

(* A page that holds no saved context: never allocated, or wiped by        *)
(* palloc_free_multiple().                                                 *)
NoFrame(t) == [sp |-> t, irq |-> "OFF", pc |-> "none", arg |-> NULL, old |-> "ON"]

(***************************************************************************)
(* init() has run thread_init(), palloc_init(), interrupts_init() and      *)
(* timer_init(), and is about to call thread_start() with IRQs masked.     *)
(***************************************************************************)
Init ==
  /\ status = [t \in Thread |-> IF t = Main THEN "RUNNING" ELSE "FREE"]
  /\ tid = [t \in Thread |-> IF t = Main THEN 1 ELSE 0]
  /\ stack_frame = [t \in Thread |-> NoFrame(t)]
  /\ ready_list = <<>>
  /\ all_list = {Main}
  /\ idle_thread = NULL
  /\ next_tid = 2
  /\ thread_ticks = 0
  /\ cpu = [sp |-> Main, irq |-> "OFF", pc |-> "thread_start",
            arg |-> NULL, old |-> "ON"]
  /\ irq_frame = NULL
  /\ in_external_interrupt = FALSE
  /\ was_irq_generated = FALSE
  /\ yield_on_return = FALSE
  /\ value = [s \in AllSema |-> 0]
  /\ waiters = [s \in AllSema |-> <<>>]
  /\ panicked = FALSE

-----------------------------------------------------------------------------
(* The thread whose stack is in use: during an IRQ, the interrupted one. *)
RunningThread == IF was_irq_generated THEN irq_frame.sp ELSE cpu.sp

(* The ASSERTs of thread_current(): the page still holds a thread, and that *)
(* thread is marked running.                                                *)
CurrentOK == status[RunningThread] = "RUNNING"

(* Thread code is executing: no IRQ is being handled. *)
At(label) == ~panicked /\ ~was_irq_generated /\ cpu.pc = label

Panic == /\ panicked' = TRUE
         /\ cpu' = [cpu EXCEPT !.irq = "OFF"]
         /\ UNCHANGED <<threadVars, irqVars, semaVars>>

(* The registers of the running thread after a kernel function returned to *)
(* LABEL with the IRQ mask at LEVEL.                                       *)
Return(label, level) ==
  [cpu EXCEPT !.pc = label, !.irq = level, !.arg = NULL, !.old = "ON"]

(* The frame saved when a kernel function called with IRQs at LEVEL gives   *)
(* up the CPU; the thread will resume at LABEL with IRQs masked.            *)
Suspended(label, arg, level) ==
  [cpu EXCEPT !.pc = label, !.irq = "OFF", !.arg = arg, !.old = level]

(* thread_get_next_thread_to_run(), on run queue RL. *)
NextThread(rl) == IF rl = <<>> THEN idle_thread ELSE Head(rl)
RestOf(rl) == IF rl = <<>> THEN rl ELSE Tail(rl)

(* The ASSERTs of schedule(), for status ST and run queue RL. *)
ScheduleOK(st, rl) ==
  /\ st[RunningThread] # "RUNNING"
  /\ NextThread(rl) # NULL
  /\ st[NextThread(rl)] # "FREE"

(* A dying thread's page goes back to palloc when the CPU has left it; the  *)
(* initial thread's page did not come from there.                           *)
ReapedMain(st, prev) == st[prev] = "DYING"      \* mutant: no test of initial_thread
Reaped(st, prev) == st[prev] = "DYING" /\ prev # Main

(* Status after thread_schedule_tail(PREV, NEXT). *)
TailStatusNotRunning(st, prev, next) ==         \* mutant: NEXT is not marked running
  IF Reaped(st, prev) THEN [st EXCEPT ![prev] = "FREE"] ELSE st
ScheduleTailStatus(st, prev, next) ==
  LET running == [st EXCEPT ![next] = "RUNNING"]
  IN  IF Reaped(running, prev) THEN [running EXCEPT ![prev] = "FREE"]
                               ELSE running

(* Saved contexts after PREV's is stored and thread_schedule_tail() ran. *)
TailFramesSwapped(st, prev, next, frame) ==     \* mutant: stored in NEXT's struct
  [stack_frame EXCEPT ![next] = frame]
ScheduleTailFrames(st, prev, next, frame) ==
  [stack_frame EXCEPT ![prev] =
     IF Reaped([st EXCEPT ![next] = "RUNNING"], prev) THEN NoFrame(prev)
                                                      ELSE frame]

(* schedule() outside an IRQ, save_and_switch_context(): with ST and RL the *)
(* status and run queue the caller left, the running thread's context is    *)
(* stored as FRAME and the next thread's is loaded.                         *)
Schedule(st, rl, frame) ==
  LET next == NextThread(rl)
      frames == ScheduleTailFrames(st, cpu.sp, next, frame)
  IN  /\ ready_list' = RestOf(rl)
      /\ status' = ScheduleTailStatus(st, cpu.sp, next)
      /\ stack_frame' = frames
      /\ cpu' = frames[next]
      /\ thread_ticks' = 0

(* thread_unblock(T). *)
UnblockOK(t) == status[t] = "BLOCKED"
UnblockStaysBlocked(t) ==                       \* mutant: the status is not set
  ready_list' = Append(ready_list, t) /\ UNCHANGED status
UnblockToFront(t) ==                            \* mutant: list_push_front()
  /\ ready_list' = <<t>> \o ready_list
  /\ status' = [status EXCEPT ![t] = "READY"]
ThreadUnblock(t) == /\ ready_list' = Append(ready_list, t)
                    /\ status' = [status EXCEPT ![t] = "READY"]

-----------------------------------------------------------------------------
(* allocate_tid(), for the new thread T. *)
AllocateTidReused(t) ==                         \* mutant: next_tid is not advanced
  tid' = [tid EXCEPT ![t] = next_tid] /\ UNCHANGED next_tid
AllocateTid(t) ==
  /\ tid' = [tid EXCEPT ![t] = next_tid]
  /\ next_tid' = next_tid + 1

(* thread_create() up to the point where the new thread T is complete and   *)
(* blocked; FUNCTION is the code it will run.                               *)
NewThread(t, function) ==
  /\ status[t] = "FREE"
  /\ AllocateTid(t)
  /\ stack_frame' = [stack_frame EXCEPT ![t] =
       [sp |-> t, irq |-> "ON", pc |-> "kernel_thread", arg |-> function,
        old |-> "ON"]]
  /\ all_list' = all_list \cup {t}

(* thread_start(): creates the idle thread and puts it on the run queue,    *)
(* all with IRQs masked, then enables IRQs.                                 *)
ThreadStart ==
  /\ At("thread_start")
  /\ IF CurrentOK
     THEN \E t \in Page :
            /\ NewThread(t, "idle")
            /\ ready_list' = Append(ready_list, t)
            /\ status' = [status EXCEPT ![t] = "READY"]
            /\ cpu' = Return("thread_start_wait", "ON")
            /\ UNCHANGED <<idle_thread, thread_ticks, irqVars, semaVars,
                           panicked>>
     ELSE Panic

(* thread_create() called by a task, up to interrupts_set_level(old_level). *)
ThreadCreate ==
  /\ At("user")
  /\ next_tid <= MaxTid
  /\ IF CurrentOK
     THEN \E t \in Page :
            /\ NewThread(t, "task")
            /\ status' = [status EXCEPT ![t] = "BLOCKED"]
            /\ cpu' = [cpu EXCEPT !.pc = "thread_unblock", !.arg = t]
            /\ UNCHANGED <<ready_list, idle_thread, thread_ticks, irqVars,
                           semaVars, panicked>>
     ELSE Panic

(* thread_create() when palloc_get_page() finds no page: it returns         *)
(* TID_ERROR without restoring the interrupt level.                         *)
ThreadCreateFails ==
  /\ At("user")
  /\ next_tid <= MaxTid
  /\ \A t \in Page : status[t] # "FREE"
  /\ IF CurrentOK
     THEN /\ cpu' = [cpu EXCEPT !.irq = "OFF"]
          /\ UNCHANGED <<threadVars, irqVars, semaVars, panicked>>
     ELSE Panic

(* The end of thread_create(): the new thread is put on the run queue. *)
CreateForgetsUnblock ==                         \* mutant: no thread_unblock()
  /\ At("thread_unblock")
  /\ cpu' = Return("user", cpu.irq)
  /\ UNCHANGED <<threadVars, irqVars, semaVars, panicked>>
ThreadCreateUnblock ==
  /\ At("thread_unblock")
  /\ IF UnblockOK(cpu.arg)
     THEN /\ ThreadUnblock(cpu.arg)
          /\ cpu' = Return("user", cpu.irq)
          /\ UNCHANGED <<tid, stack_frame, all_list, idle_thread, next_tid,
                         thread_ticks, irqVars, semaVars, panicked>>
     ELSE Panic

(* kernel_thread(): the first code of every created thread. *)
KernelThread ==
  /\ At("kernel_thread")
  /\ cpu' = Return(IF cpu.arg = "idle" THEN "idle" ELSE "user", "ON")
  /\ UNCHANGED <<threadVars, irqVars, semaVars, panicked>>

(* thread_exit(), called by a task or when its function returns. *)
ThreadExit ==
  LET st == [status EXCEPT ![cpu.sp] = "DYING"]
  IN  /\ At("user")
      /\ IF /\ ~in_external_interrupt
            /\ CurrentOK
            /\ cpu.sp \in all_list
            /\ ScheduleOK(st, ready_list)
         THEN /\ all_list' = all_list \ {cpu.sp}
              /\ Schedule(st, ready_list, Suspended("thread_exit", NULL, "ON"))
              /\ UNCHANGED <<tid, idle_thread, next_tid, irqVars, semaVars,
                             panicked>>
         ELSE Panic

(* The run queue after thread_yield() by CUR: the idle thread stays off it. *)
YieldQueueFront(cur) ==                         \* mutant: list_push_front()
  IF cur # idle_thread THEN <<cur>> \o ready_list ELSE ready_list
YieldQueue(cur) ==
  IF cur # idle_thread THEN Append(ready_list, cur) ELSE ready_list

(* thread_yield() called by a task, up to the switch. *)
ThreadYield ==
  LET st == [status EXCEPT ![cpu.sp] = "READY"]
      rl == YieldQueue(cpu.sp)
  IN  /\ At("user")
      /\ IF CurrentOK /\ ~in_external_interrupt /\ ScheduleOK(st, rl)
         THEN /\ Schedule(st, rl, Suspended("thread_yield", NULL, cpu.irq))
              /\ UNCHANGED <<tid, all_list, idle_thread, next_tid, irqVars,
                             semaVars, panicked>>
         ELSE Panic

(* thread_yield() after the switch back: interrupts_set_level(old_level). *)
ThreadYieldReturn ==
  /\ At("thread_yield")
  /\ cpu' = Return("user", cpu.old)
  /\ UNCHANGED <<threadVars, irqVars, semaVars, panicked>>

(* interrupts_enable(), interrupts_disable(), interrupts_set_level() as     *)
(* called by a task around its own masked sections.                         *)
InterruptsSetLevel(level) ==
  /\ At("user")
  /\ cpu.irq # level
  /\ cpu' = [cpu EXCEPT !.irq = level]
  /\ UNCHANGED <<threadVars, irqVars, semaVars, panicked>>

-----------------------------------------------------------------------------
(* idle(): publishes itself as idle_thread. *)
IdleInit ==
  /\ At("idle")
  /\ IF CurrentOK
     THEN /\ idle_thread' = cpu.sp
          /\ cpu' = [cpu EXCEPT !.pc = "idle_sema_up"]
          /\ UNCHANGED <<status, tid, stack_frame, ready_list, all_list,
                         next_tid, thread_ticks, irqVars, semaVars, panicked>>
     ELSE Panic

(* The body of idle()'s loop: thread_block() with IRQs masked. *)
IdleBlock ==
  LET st == [status EXCEPT ![cpu.sp] = "BLOCKED"]
  IN  /\ At("idle_loop")
      /\ IF ~in_external_interrupt /\ CurrentOK /\ ScheduleOK(st, ready_list)
         THEN /\ Schedule(st, ready_list, Suspended("idle_blocked", NULL, cpu.irq))
              /\ UNCHANGED <<tid, all_list, idle_thread, next_tid, irqVars,
                             semaVars, panicked>>
         ELSE Panic

(* idle() is scheduled again: interrupts_set_level(old_level), loop. *)
IdleResume ==
  /\ At("idle_blocked")
  /\ cpu' = Return("idle_loop", cpu.old)
  /\ UNCHANGED <<threadVars, irqVars, semaVars, panicked>>

-----------------------------------------------------------------------------
(* One pass of the loop of sema_down(S), IRQs masked: take a unit and       *)
(* return to RET with the mask at LEVEL, or queue up and block; the blocked *)
(* thread resumes at LABEL.                                                 *)
SemaDownPass(s, label, ret, level) ==
  LET st == [status EXCEPT ![cpu.sp] = "BLOCKED"]
  IN  IF value[s] > 0 /\ ~in_external_interrupt
      THEN /\ value' = [value EXCEPT ![s] = @ - 1]
           /\ cpu' = Return(ret, level)
           /\ UNCHANGED <<threadVars, irqVars, waiters, panicked>>
      ELSE IF ~in_external_interrupt /\ CurrentOK /\ ScheduleOK(st, ready_list)
      THEN /\ waiters' = [waiters EXCEPT ![s] = Append(@, cpu.sp)]
           /\ Schedule(st, ready_list, Suspended(label, s, level))
           /\ UNCHANGED <<tid, all_list, idle_thread, next_tid, irqVars,
                          value, panicked>>
      ELSE Panic

(* sema_down(S) called by a task. *)
SemaDown(s) ==
  /\ At("user")
  /\ SemaDownPass(s, "sema_down", "user", cpu.irq)

(* sema_down(&idle_started), the end of thread_start(). *)
ThreadStartWait ==
  /\ At("thread_start_wait")
  /\ SemaDownPass(IdleStarted, "sema_down", "user", cpu.irq)

(* A thread that slept in sema_down() tests the value again. *)
SemaDownRetry ==
  /\ At("sema_down")
  /\ SemaDownPass(cpu.arg, "sema_down", "user", cpu.old)

(* sema_try_down(S) that succeeds; one that fails changes nothing. *)
SemaTryDownAlways(s) ==                         \* mutant: the value is not tested
  /\ At("user")
  /\ value' = [value EXCEPT ![s] = @ - 1]
  /\ UNCHANGED <<threadVars, cpu, irqVars, waiters, panicked>>
SemaTryDown(s) ==
  /\ At("user")
  /\ value[s] > 0
  /\ value' = [value EXCEPT ![s] = @ - 1]
  /\ UNCHANGED <<threadVars, cpu, irqVars, waiters, panicked>>

(* sema_up(S) unblocks a thread. *)
WakesFromZero(s) == waiters[s] # <<>> /\ value[s] = 0  \* mutant: only the first unit
WakesOffByOne(s) == Len(waiters[s]) > 1                \* mutant: the last one sleeps on
Wakes(s) == waiters[s] # <<>>

(* sema_up(S), after which the caller is at LABEL. *)
SemaUpTo(s, label) ==
  /\ cpu' = [cpu EXCEPT !.pc = label]
  /\ value' = [value EXCEPT ![s] = @ + 1]
  /\ IF Wakes(s)
     THEN /\ ThreadUnblock(Head(waiters[s]))
          /\ waiters' = [waiters EXCEPT ![s] = Tail(@)]
     ELSE UNCHANGED <<ready_list, status, waiters>>
  /\ UNCHANGED <<tid, stack_frame, all_list, idle_thread, next_tid,
                 thread_ticks, irqVars, panicked>>
SemaUpOK(s) == Wakes(s) => UnblockOK(Head(waiters[s]))

(* sema_up(S) called by a task. *)
SemaUp(s) ==
  /\ At("user")
  /\ value[s] < MaxValue
  /\ IF SemaUpOK(s) THEN SemaUpTo(s, "user") ELSE Panic

(* sema_up(idle_started) in idle(). *)
IdleSemaUp ==
  /\ At("idle_sema_up")
  /\ IF SemaUpOK(IdleStarted) THEN SemaUpTo(IdleStarted, "idle_loop")
                              ELSE Panic

-----------------------------------------------------------------------------
(* thread_tick() finds that the running thread has used up its time slice.  *)
SliceUsedLate == thread_ticks + 1 > TIME_SLICE  \* mutant: off by one
SliceUsed == thread_ticks + 1 >= TIME_SLICE

(* A timer IRQ while IRQs are unmasked: irq_handler_int saves the           *)
(* interrupted context, interrupts_dispatch_irq() runs timer_irq_handler(), *)
(* which calls thread_tick().                                               *)
IrqDispatch ==
  /\ ~panicked /\ ~was_irq_generated
  /\ cpu.irq = "ON"
  /\ IF ~in_external_interrupt /\ status[cpu.sp] = "RUNNING"
     THEN /\ irq_frame' = cpu
          /\ cpu' = [cpu EXCEPT !.irq = "OFF"]
          /\ was_irq_generated' = TRUE
          /\ in_external_interrupt' = TRUE
          /\ thread_ticks' = thread_ticks + 1
          /\ yield_on_return' = SliceUsed
          /\ UNCHANGED <<status, tid, stack_frame, ready_list, all_list,
                         idle_thread, next_tid, semaVars, panicked>>
     ELSE Panic

(* The end of interrupts_dispatch_irq() without a yield, and the return     *)
(* from irq_handler_int to the interrupted thread.                          *)
IrqReturn ==
  /\ ~panicked /\ was_irq_generated
  /\ ~yield_on_return
  /\ in_external_interrupt' = FALSE
  /\ was_irq_generated' = FALSE
  /\ cpu' = irq_frame
  /\ irq_frame' = NULL
  /\ UNCHANGED <<threadVars, semaVars, yield_on_return, panicked>>

(* The end of interrupts_dispatch_irq() with a yield: thread_yield() and    *)
(* schedule_in_interrupt() exchange the interrupted context with the next   *)
(* thread's in the frame that irq_handler_int returns through.              *)
IrqYield ==
  LET cur == RunningThread
      st == [status EXCEPT ![cur] = "READY"]
      rl == YieldQueue(cur)
      next == NextThread(rl)
      frames == ScheduleTailFrames(st, cur, next, irq_frame)
  IN  /\ ~panicked /\ was_irq_generated
      /\ yield_on_return
      /\ IF CurrentOK /\ ScheduleOK(st, rl)
         THEN /\ ready_list' = RestOf(rl)
              /\ status' = ScheduleTailStatus(st, cur, next)
              /\ stack_frame' = frames
              /\ cpu' = IF cur # next THEN frames[next] ELSE irq_frame
              /\ thread_ticks' = 0
              /\ in_external_interrupt' = FALSE
              /\ was_irq_generated' = FALSE
              /\ irq_frame' = NULL
              /\ UNCHANGED <<tid, all_list, idle_thread, next_tid, semaVars,
                             yield_on_return, panicked>>
         ELSE Panic

-----------------------------------------------------------------------------
(* What a task may call. *)
TaskStep ==
  \/ ThreadCreate \/ ThreadCreateFails \/ ThreadExit \/ ThreadYield
  \/ \E level \in TaskLevel : InterruptsSetLevel(level)
  \/ \E s \in Sema : SemaDown(s) \/ SemaTryDown(s) \/ SemaUp(s)

(* Kernel code a running thread is in the middle of; it cannot stop there. *)
KernelStep ==
  \/ ThreadStart \/ ThreadStartWait \/ ThreadCreateUnblock \/ KernelThread
  \/ ThreadYieldReturn \/ SemaDownRetry
  \/ IdleInit \/ IdleSemaUp \/ IdleBlock \/ IdleResume

IrqEnd == IrqReturn \/ IrqYield

Next == TaskStep \/ KernelStep \/ IrqDispatch \/ IrqEnd

Spec == Init /\ [][Next]_vars

(***************************************************************************)
(* Fairness.  The CPU does not stop in an IRQ handler.  The timer is        *)
(* re-armed by every tick and its IRQ stays pending while masked, so it is  *)
(* taken if IRQs are unmasked again and again.  A tick interval is far      *)
(* longer than a step, so a thread that is dispatched again and again       *)
(* advances.  A task that masks IRQs does so for a section that ends.       *)
(***************************************************************************)
Fairness ==
  /\ WF_vars(IrqEnd)
  /\ SF_vars(IrqDispatch)
  /\ \A t \in Thread : SF_vars(cpu.sp = t /\ KernelStep)
  /\ \A t \in Thread : WF_vars(cpu.sp = t /\ InterruptsSetLevel("ON"))

FairSpec == Spec /\ Fairness

-----------------------------------------------------------------------------
(* Properties. *)

(* The registers of thread T, wherever they are kept now. *)
Context(t) == IF t # RunningThread THEN stack_frame[t]
              ELSE IF was_irq_generated THEN irq_frame ELSE cpu

(* No ASSERT of the modelled code fires: thread_current() always finds the  *)
(* page of a running thread under the stack pointer, schedule() always has  *)
(* a thread to run (never a NULL idle_thread, never a freed page),          *)
(* thread_unblock() is only handed blocked threads.                         *)
NoPanic == ~panicked

(* The stack in use belongs to the one RUNNING thread, and every other      *)
(* thread was saved on its own stack: no switch or IRQ return loads a       *)
(* context into the wrong thread (contextSwitch.s, schedule_in_interrupt).  *)
StacksMatch ==
  \A t \in Thread : /\ status[t] = "RUNNING" <=> t = RunningThread
                    /\ Context(t).sp = t

(* thread.h: elem is shared by the run queue and the wait lists, which works *)
(* "only because they are mutually exclusive: only a thread in the ready     *)
(* state is on the run queue, whereas only a thread in the blocked state is  *)
(* on a semaphore wait list".  The run queue holds all READY threads but     *)
(* idle, which thread.c keeps off it for good; a wait list holds all threads *)
(* asleep in sema_down() on that semaphore; no thread is linked twice.       *)
RunQueueExact ==
  /\ IsInjective(ready_list)
  /\ Range(ready_list) = {t \in Thread : status[t] = "READY"} \ {idle_thread}
WaitListExact ==
  \A s \in AllSema :
    /\ IsInjective(waiters[s])
    /\ Range(waiters[s]) = {t \in Thread : /\ status[t] = "BLOCKED"
                                           /\ Context(t).pc = "sema_down"
                                           /\ Context(t).arg = s}
ElemDiscipline == RunQueueExact /\ WaitListExact

(* Thread U is about to hand T to thread_unblock(). *)
Unblocking(u, t) == Context(u).pc = "thread_unblock" /\ Context(u).arg = t

(* No thread is lost: a blocked one is on a wait list, is the idle thread,  *)
(* or is being handed to thread_unblock() by its creator, who was preempted *)
(* between the two masked sections of thread_create() and will go on.       *)
NoThreadLost ==
  \A t \in Thread : status[t] = "BLOCKED" =>
    \/ t = idle_thread
    \/ \E s \in AllSema : t \in Range(waiters[s])
    \/ \E u \in Thread : status[u] \in {"RUNNING", "READY"} /\ Unblocking(u, t)

(* Threads that sema_up(S) woke and that have not tested the value yet. *)
Woken(s) == {t \in Thread : /\ status[t] \in {"READY", "RUNNING"}
                           /\ Context(t).pc = "sema_down"
                           /\ Context(t).arg = s}

(* No lost wakeup: while threads wait on S, every unit of its value has a   *)
(* woken thread on its way to take it, whatever barges in between through   *)
(* sema_down() or sema_try_down().                                          *)
NoLostWakeup ==
  \A s \in AllSema : waiters[s] # <<>> => value[s] <= Cardinality(Woken(s))

(* all_list holds exactly the threads that are alive, under distinct tids,  *)
(* although palloc hands the page of a dead thread to a new one.            *)
AllListAlive == all_list = {t \in Thread : status[t] \notin {"FREE", "DYING"}}
AllListExact == /\ AllListAlive
                /\ \A t, u \in all_list : tid[t] = tid[u] => t = u

(* A thread that is not in an IRQ has used less than its time slice, and    *)
(* the IRQ flags are down: no tick is lost and no flag survives the switch  *)
(* that thread_yield() makes inside interrupts_dispatch_irq().              *)
SliceRespected ==
  ~was_irq_generated => thread_ticks < TIME_SLICE /\ ~in_external_interrupt

(* The inductive invariant behind NoPanic.  Where a thread is in the code    *)
(* tells its status ...                                                      *)
ContextsFit ==
  \A t \in Thread :
    /\ status[t] = "FREE" => Context(t).pc = "none" /\ t # Main
    /\ status[t] = "DYING" => Context(t).pc = "thread_exit" /\ t = Main
    /\ status[t] = "BLOCKED" =>
         Context(t).pc \in {"sema_down", "idle_blocked", "kernel_thread"}

(* ... thread_unblock() is about to be called once for each new thread ...   *)
UnblockPending ==
  \A t \in Thread :
    /\ status[t] = "BLOCKED" /\ Context(t).pc = "kernel_thread"
         <=> \E u \in Thread : Unblocking(u, t)
    /\ \A u, v \in Thread : Unblocking(u, t) /\ Unblocking(v, t) => u = v

(* ... and until idle_thread is set, the thread that will set it is ready to *)
(* run, so that schedule() finds it on the run queue.                        *)
BecomingIdle(t) ==
  \/ Context(t).pc = "idle"
  \/ Context(t).pc = "kernel_thread" /\ Context(t).arg = "idle"
IdlePhase ==
  /\ \A t \in Thread :
       /\ Context(t).pc \in {"idle_sema_up", "idle_loop", "idle_blocked"}
            <=> t = idle_thread
       /\ BecomingIdle(t) => /\ idle_thread = NULL
                             /\ status[t] \in {"READY", "RUNNING"}
                             /\ \A u \in Thread : BecomingIdle(u) => u = t
       /\ Context(t).pc = "thread_start" =>
            \A u \in Thread \ {t} : status[u] = "FREE"
  /\ idle_thread = NULL =>
       \E t \in Thread : BecomingIdle(t) \/ Context(t).pc = "thread_start"

IInv ==
  /\ TypeOK /\ NoPanic /\ StacksMatch /\ RunQueueExact /\ WaitListExact
  /\ ContextsFit /\ UnblockPending /\ IdlePhase /\ AllListAlive
  /\ in_external_interrupt = was_irq_generated

(* The thread system implements the round-robin scheduler of RoundRobin:    *)
(* each masked section and each IRQ is one step of it or invisible.         *)
RR == INSTANCE RoundRobin WITH
        running <- RunningThread,
        queue   <- ready_list,
        asleep  <- {t \in Thread : status[t] = "BLOCKED"} \ {idle_thread},
        idle    <- idle_thread
ImplementsRoundRobin == RR!RRSpec

(* thread_start() "starts preemptive thread scheduling by enabling          *)
(* interrupts": with tasks that never mask IRQs themselves, task code is    *)
(* always preemptible.                                                      *)
TasksPreemptible == cpu.pc = "user" /\ ~was_irq_generated => cpu.irq = "ON"

(* Round-robin: a thread on the run queue is eventually dispatched, whether *)
(* or not the threads ahead of it ever yield.                               *)
ReadyRuns ==
  \A t \in Thread : (status[t] = "READY" /\ t # idle_thread)
                     ~> (status[t] = "RUNNING")

(* thread_start() returns: the handshake on idle_started, in which main     *)
(* blocks before there is an idle_thread to run, always completes.          *)
BootCompletes == <>(Context(Main).pc = "user")
=============================================================================
