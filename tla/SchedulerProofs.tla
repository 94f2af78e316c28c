-------------------------- MODULE SchedulerProofs --------------------------
(***************************************************************************)
(* The thread system, for any pages, semaphores and bounds: its variables  *)
(* keep their types; no ASSERT can fire, and threads are never lost or     *)
(* mixed up, since IInv is inductive.                                      *)
(*                                                                         *)
(* Most actions are switches: the running thread leaves a context behind   *)
(* and another one, or the same, goes on.  One lemma (SwitchInv) covers    *)
(* them all; the actions that create, wake or rename threads have their    *)
(* own.                                                                    *)
(***************************************************************************)
EXTENDS Threads, DataLemmas, FiniteSetTheorems

(* Frames built from a frame by the kernel functions are frames. *)
LEMMA FrameUpdate ==
  ASSUME NEW f \in Frame, NEW label \in PC, NEW level \in Level, NEW a \in Arg,
         NEW old \in Level,
         label = "thread_unblock" => a \in Thread,
         label = "sema_down" => a \in AllSema
  PROVE  [f EXCEPT !.pc = label, !.irq = level, !.arg = a, !.old = old] \in Frame
BY DEF Frame

(* Masking or unmasking IRQs keeps a frame a frame. *)
LEMMA FrameLevel ==
  ASSUME NEW f \in Frame, NEW level \in Level
  PROVE  [f EXCEPT !.irq = level] \in Frame
BY DEF Frame

LEMMA NoFrameType == \A t \in Thread : NoFrame(t) \in Frame
BY DEF NoFrame, Frame, Level, PC, Arg

(* What schedule() leaves behind, whatever its caller did to the running     *)
(* thread's status and to the run queue, has the right types.                *)
LEMMA ScheduleType ==
  ASSUME TypeOK,
         NEW st \in [Thread -> Status], NEW rl \in Seq(Thread), NEW frame \in Frame,
         ScheduleOK(st, rl), Schedule(st, rl, frame)
  PROVE  /\ ready_list' \in Seq(Thread)
         /\ status' \in [Thread -> Status]
         /\ stack_frame' \in [Thread -> Frame]
         /\ cpu' \in Frame
         /\ thread_ticks' \in Nat
<1> DEFINE next == NextThread(rl)
           frames == ScheduleTailFrames(st, cpu.sp, next, frame)
<1>1. next \in Thread /\ RestOf(rl) \in Seq(Thread)
  <2>1. CASE rl = <<>>
    BY <2>1 DEF NextThread, RestOf, ScheduleOK, TypeOK
  <2>2. CASE rl # <<>>
    BY <2>2, HeadTailProperties DEF NextThread, RestOf
  <2> QED BY <2>1, <2>2
<1>2. cpu.sp \in Thread
  BY DEF TypeOK, Frame
<1>3. ScheduleTailStatus(st, cpu.sp, next) \in [Thread -> Status]
  BY <1>1, <1>2 DEF ScheduleTailStatus, Status
<1>4. frames \in [Thread -> Frame]
  BY <1>2, NoFrameType DEF ScheduleTailFrames, TypeOK
<1> QED
  BY <1>1, <1>3, <1>4 DEF Schedule

(* thread_unblock() keeps the types of what it changes. *)
LEMMA UnblockType ==
  ASSUME TypeOK, NEW t \in Thread, ThreadUnblock(t)
  PROVE  ready_list' \in Seq(Thread) /\ status' \in [Thread -> Status]
BY AppendProperties DEF TypeOK, ThreadUnblock, Status

(* A failing ASSERT only masks IRQs and halts. *)
LEMMA PanicType == ASSUME TypeOK, Panic PROVE TypeOK'
<1>1. cpu' \in Frame
  BY FrameLevel DEF TypeOK, Panic, Level
<1> QED
  BY <1>1 DEF TypeOK, Panic, threadVars, irqVars, semaVars

(* The frames that Return() and Suspended() make from the registers. *)
LEMMA ReturnType ==
  ASSUME TypeOK, NEW label \in PC \ {"thread_unblock", "sema_down"}, NEW level \in Level
  PROVE  Return(label, level) \in Frame
BY FrameUpdate DEF TypeOK, Return, Level, Arg

LEMMA SuspendedType ==
  ASSUME TypeOK, NEW label \in PC \ {"thread_unblock"}, NEW a \in AllSema \cup {NULL},
         label = "sema_down" => a \in AllSema, NEW level \in Level
  PROVE  Suspended(label, a, level) \in Frame
BY FrameUpdate DEF TypeOK, Suspended, Level, Arg

(* thread_create() fills in a frame that starts at kernel_thread(). *)
LEMMA NewThreadType ==
  ASSUME TypeOK, NEW t \in Page, NEW function \in {"idle", "task"},
         NewThread(t, function)
  PROVE  /\ tid' \in [Thread -> Nat]
         /\ next_tid' \in Nat
         /\ stack_frame' \in [Thread -> Frame]
         /\ all_list' \in SUBSET Thread
<1>1. t \in Thread
  BY DEF Thread
<1>2. [sp |-> t, irq |-> "ON", pc |-> "kernel_thread", arg |-> function,
       old |-> "ON"] \in Frame
  BY <1>1 DEF Frame, Level, PC, Arg
<1> QED
  BY <1>1, <1>2 DEF TypeOK, NewThread, AllocateTid

(* One pass of sema_down(). *)
LEMMA SemaDownPassType ==
  ASSUME TypeOK, NEW s \in AllSema, NEW level \in Level,
         SemaDownPass(s, "sema_down", "user", level)
  PROVE  TypeOK'
<1> DEFINE st == [status EXCEPT ![cpu.sp] = "BLOCKED"]
<1>1. CASE value[s] > 0 /\ ~in_external_interrupt
  <2>1. cpu' \in Frame
    BY <1>1, ReturnType DEF SemaDownPass, PC
  <2>2. value' \in [AllSema -> Nat]
    <3>1. value' = [value EXCEPT ![s] = value[s] - 1]
      BY <1>1 DEF SemaDownPass
    <3>2. value[s] - 1 \in Nat
      BY <1>1 DEF TypeOK
    <3> QED BY <3>1, <3>2 DEF TypeOK
  <2> QED
    BY <1>1, <2>1, <2>2 DEF SemaDownPass, TypeOK, threadVars, irqVars
<1>2. CASE /\ ~(value[s] > 0) /\ ~in_external_interrupt
           /\ CurrentOK /\ ScheduleOK(st, ready_list)
  <2>1. st \in [Thread -> Status] /\ cpu.sp \in Thread
    BY DEF TypeOK, Status, Frame
  <2>2. Suspended("sema_down", s, level) \in Frame
    BY SuspendedType DEF PC
  <2>3. Schedule(st, ready_list, Suspended("sema_down", s, level))
    BY <1>2 DEF SemaDownPass
  <2>4. waiters' \in [AllSema -> Seq(Thread)]
    <3>1. waiters' = [waiters EXCEPT ![s] = Append(waiters[s], cpu.sp)]
      BY <1>2 DEF SemaDownPass
    <3>2. Append(waiters[s], cpu.sp) \in Seq(Thread)
      BY <2>1, AppendProperties DEF TypeOK
    <3> QED BY <3>1, <3>2 DEF TypeOK
  <2>5. ready_list \in Seq(Thread)
    BY DEF TypeOK
  <2>6. /\ ready_list' \in Seq(Thread)
        /\ status' \in [Thread -> Status]
        /\ stack_frame' \in [Thread -> Frame]
        /\ cpu' \in Frame
        /\ thread_ticks' \in Nat
    BY <1>2, <2>1, <2>2, <2>3, <2>5, ScheduleType
  <2> QED
    BY <1>2, <2>4, <2>6 DEF SemaDownPass, TypeOK, irqVars
<1>3. CASE Panic
  BY <1>3, PanicType
<1> QED
  BY <1>1, <1>2, <1>3 DEF SemaDownPass

(* sema_up(). *)
LEMMA SemaUpType ==
  ASSUME TypeOK, NEW s \in AllSema, NEW label \in PC \ {"thread_unblock", "sema_down"},
         SemaUpTo(s, label)
  PROVE  TypeOK'
<1>1. cpu' \in Frame
  BY DEF SemaUpTo, TypeOK, Frame
<1>2. value' \in [AllSema -> Nat]
  BY DEF SemaUpTo, TypeOK
<1>3. /\ ready_list' \in Seq(Thread)
      /\ status' \in [Thread -> Status]
      /\ waiters' \in [AllSema -> Seq(Thread)]
  <2>1. CASE waiters[s] # <<>>
    <3>1. waiters[s] \in Seq(Thread)
      BY DEF TypeOK
    <3>2. Head(waiters[s]) \in Thread /\ Tail(waiters[s]) \in Seq(Thread)
      BY <2>1, <3>1, HeadTailProperties
    <3>3. ThreadUnblock(Head(waiters[s]))
          /\ waiters' = [waiters EXCEPT ![s] = Tail(@)]
      BY <2>1 DEF SemaUpTo, Wakes
    <3>4. ready_list' \in Seq(Thread) /\ status' \in [Thread -> Status]
      BY <3>2, <3>3, UnblockType
    <3> QED
      BY <3>2, <3>3, <3>4 DEF TypeOK
  <2>2. CASE waiters[s] = <<>>
    BY <2>2 DEF SemaUpTo, Wakes, TypeOK
  <2> QED BY <2>1, <2>2
<1> QED
  BY <1>1, <1>2, <1>3 DEF SemaUpTo, TypeOK, irqVars

-----------------------------------------------------------------------------
(* The steps of tasks. *)
LEMMA TaskStepType == ASSUME TypeOK, TaskStep PROVE TypeOK'
<1> USE DEF TaskStep
<1>0. cpu.sp \in Thread /\ cpu.irq \in Level /\ ready_list \in Seq(Thread)
  BY DEF TypeOK, Frame
<1>1. CASE ThreadCreate
  <2>1. CASE CurrentOK
    <3>1. PICK t \in Page :
            /\ NewThread(t, "task")
            /\ status' = [status EXCEPT ![t] = "BLOCKED"]
            /\ cpu' = [cpu EXCEPT !.pc = "thread_unblock", !.arg = t]
            /\ UNCHANGED <<ready_list, idle_thread, thread_ticks, irqVars,
                           semaVars, panicked>>
      BY <1>1, <2>1 DEF ThreadCreate
    <3>2. cpu' \in Frame
      BY <3>1 DEF TypeOK, Frame, Thread, Arg, PC
    <3>3. status' \in [Thread -> Status]
      BY <3>1 DEF TypeOK, Status
    <3> QED
      BY <3>1, <3>2, <3>3, NewThreadType DEF TypeOK, irqVars, semaVars
  <2>2. CASE ~CurrentOK
    BY <1>1, <2>2, PanicType DEF ThreadCreate
  <2> QED BY <2>1, <2>2
<1>2. CASE ThreadCreateFails
  <2>1. CASE CurrentOK
    <3>1. cpu' \in Frame
      BY <1>2, <2>1, FrameLevel DEF ThreadCreateFails, TypeOK, Level
    <3> QED
      BY <1>2, <2>1, <3>1 DEF ThreadCreateFails, TypeOK, threadVars, irqVars, semaVars
  <2>2. CASE ~CurrentOK
    BY <1>2, <2>2, PanicType DEF ThreadCreateFails
  <2> QED BY <2>1, <2>2
<1>3. CASE ThreadExit
  <2> DEFINE st == [status EXCEPT ![cpu.sp] = "DYING"]
             frame == Suspended("thread_exit", NULL, "ON")
  <2>1. CASE Panic
    BY <2>1, PanicType
  <2>2. CASE ~Panic
    <3>1. /\ ScheduleOK(st, ready_list)
          /\ Schedule(st, ready_list, frame)
          /\ all_list' = all_list \ {cpu.sp}
          /\ UNCHANGED <<tid, idle_thread, next_tid, irqVars, semaVars, panicked>>
      BY <1>3, <2>2 DEF ThreadExit
    <3>2. st \in [Thread -> Status] /\ frame \in Frame
      BY SuspendedType DEF TypeOK, Status, PC, Level
    <3>3. /\ ready_list' \in Seq(Thread)
          /\ status' \in [Thread -> Status]
          /\ stack_frame' \in [Thread -> Frame]
          /\ cpu' \in Frame
          /\ thread_ticks' \in Nat
      BY <1>0, <3>1, <3>2, ScheduleType
    <3> QED
      BY <3>1, <3>3 DEF TypeOK, irqVars, semaVars
  <2> QED BY <2>1, <2>2
<1>4. CASE ThreadYield
  <2> DEFINE st == [status EXCEPT ![cpu.sp] = "READY"]
             rl == YieldQueue(cpu.sp)
             frame == Suspended("thread_yield", NULL, cpu.irq)
  <2>1. CASE Panic
    BY <2>1, PanicType
  <2>2. CASE ~Panic
    <3>1. /\ ScheduleOK(st, rl)
          /\ Schedule(st, rl, frame)
          /\ UNCHANGED <<tid, all_list, idle_thread, next_tid, irqVars, semaVars,
                         panicked>>
      BY <1>4, <2>2 DEF ThreadYield
    <3>2. st \in [Thread -> Status] /\ frame \in Frame
      BY <1>0, SuspendedType DEF TypeOK, Status, PC, Level
    <3>3. rl \in Seq(Thread)
      BY <1>0, AppendProperties DEF YieldQueue
    <3>4. /\ ready_list' \in Seq(Thread)
          /\ status' \in [Thread -> Status]
          /\ stack_frame' \in [Thread -> Frame]
          /\ cpu' \in Frame
          /\ thread_ticks' \in Nat
      BY <3>1, <3>2, <3>3, ScheduleType
    <3> QED
      BY <3>1, <3>4 DEF TypeOK, irqVars, semaVars
  <2> QED BY <2>1, <2>2
<1>5. ASSUME NEW level \in TaskLevel, InterruptsSetLevel(level) PROVE TypeOK'
  <2>1. cpu' \in Frame
    BY <1>5, FrameLevel, LevelAssumption DEF InterruptsSetLevel, TypeOK, Level
  <2> QED
    BY <1>5, <2>1 DEF InterruptsSetLevel, TypeOK, threadVars, irqVars, semaVars
<1>6. ASSUME NEW s \in Sema, SemaDown(s) PROVE TypeOK'
  BY <1>0, <1>6, SemaDownPassType DEF SemaDown, AllSema
<1>7. ASSUME NEW s \in Sema, SemaTryDown(s) PROVE TypeOK'
  <2>1. value' = [value EXCEPT ![s] = value[s] - 1] /\ value[s] > 0
    BY <1>7 DEF SemaTryDown
  <2>2. value[s] - 1 \in Nat
    BY <2>1 DEF TypeOK, AllSema
  <2>3. value' \in [AllSema -> Nat]
    BY <2>1, <2>2 DEF TypeOK
  <2> QED
    BY <1>7, <2>3 DEF SemaTryDown, TypeOK, threadVars, irqVars
<1>8. ASSUME NEW s \in Sema, SemaUp(s) PROVE TypeOK'
  <2>1. CASE SemaUpOK(s)
    BY <1>8, <2>1, SemaUpType DEF SemaUp, AllSema, PC
  <2>2. CASE ~SemaUpOK(s)
    BY <1>8, <2>2, PanicType DEF SemaUp
  <2> QED BY <2>1, <2>2
<1> QED
  BY <1>1, <1>2, <1>3, <1>4, <1>5, <1>6, <1>7, <1>8

(* The steps of kernel code in threads. *)
LEMMA KernelStepType == ASSUME TypeOK, KernelStep PROVE TypeOK'
<1> USE DEF KernelStep
<1>0. /\ cpu.sp \in Thread /\ cpu.irq \in Level /\ cpu.old \in Level
      /\ ready_list \in Seq(Thread)
  BY DEF TypeOK, Frame
<1>1. CASE ThreadStart
  <2>1. CASE CurrentOK
    <3>1. PICK t \in Page :
            /\ NewThread(t, "idle")
            /\ ready_list' = Append(ready_list, t)
            /\ status' = [status EXCEPT ![t] = "READY"]
            /\ cpu' = Return("thread_start_wait", "ON")
            /\ UNCHANGED <<idle_thread, thread_ticks, irqVars, semaVars, panicked>>
      BY <1>1, <2>1 DEF ThreadStart
    <3>2. cpu' \in Frame
      BY <3>1, ReturnType DEF PC, Level
    <3>3. status' \in [Thread -> Status] /\ ready_list' \in Seq(Thread)
      BY <1>0, <3>1, AppendProperties DEF TypeOK, Status, Thread
    <3> QED
      BY <3>1, <3>2, <3>3, NewThreadType DEF TypeOK, irqVars, semaVars
  <2>2. CASE ~CurrentOK
    BY <1>1, <2>2, PanicType DEF ThreadStart
  <2> QED BY <2>1, <2>2
<1>2. CASE ThreadStartWait
  BY <1>0, <1>2, SemaDownPassType DEF ThreadStartWait, AllSema
<1>3. CASE ThreadCreateUnblock
  <2>1. cpu.arg \in Thread
    BY <1>3 DEF ThreadCreateUnblock, At, TypeOK, Frame
  <2>2. CASE UnblockOK(cpu.arg)
    <3>1. cpu' \in Frame
      BY <1>0, <1>3, <2>2, ReturnType DEF ThreadCreateUnblock, PC
    <3>2. ready_list' \in Seq(Thread) /\ status' \in [Thread -> Status]
      BY <1>3, <2>1, <2>2, UnblockType DEF ThreadCreateUnblock
    <3> QED
      BY <1>3, <2>2, <3>1, <3>2 DEF ThreadCreateUnblock, TypeOK, irqVars, semaVars
  <2>3. CASE ~UnblockOK(cpu.arg)
    BY <1>3, <2>3, PanicType DEF ThreadCreateUnblock
  <2> QED BY <2>2, <2>3
<1>4. CASE KernelThread
  <2>1. cpu' \in Frame
    BY <1>4, ReturnType DEF KernelThread, PC, Level
  <2> QED
    BY <1>4, <2>1 DEF KernelThread, TypeOK, threadVars, irqVars, semaVars
<1>5. CASE ThreadYieldReturn
  <2>1. cpu' \in Frame
    BY <1>0, <1>5, ReturnType DEF ThreadYieldReturn, PC
  <2> QED
    BY <1>5, <2>1 DEF ThreadYieldReturn, TypeOK, threadVars, irqVars, semaVars
<1>6. CASE SemaDownRetry
  <2>1. cpu.arg \in AllSema
    BY <1>6 DEF SemaDownRetry, At, TypeOK, Frame
  <2> QED
    BY <1>0, <1>6, <2>1, SemaDownPassType DEF SemaDownRetry
<1>7. CASE IdleInit
  <2>1. CASE CurrentOK
    <3>1. cpu' \in Frame
      BY <1>7, <2>1 DEF IdleInit, TypeOK, Frame, PC
    <3> QED
      BY <1>0, <1>7, <2>1, <3>1 DEF IdleInit, TypeOK, irqVars, semaVars
  <2>2. CASE ~CurrentOK
    BY <1>7, <2>2, PanicType DEF IdleInit
  <2> QED BY <2>1, <2>2
<1>8. CASE IdleSemaUp
  <2>1. CASE SemaUpOK(IdleStarted)
    BY <1>8, <2>1, SemaUpType DEF IdleSemaUp, AllSema, PC
  <2>2. CASE ~SemaUpOK(IdleStarted)
    BY <1>8, <2>2, PanicType DEF IdleSemaUp
  <2> QED BY <2>1, <2>2
<1>9. CASE IdleBlock
  <2> DEFINE st == [status EXCEPT ![cpu.sp] = "BLOCKED"]
             frame == Suspended("idle_blocked", NULL, cpu.irq)
  <2>1. CASE Panic
    BY <2>1, PanicType
  <2>2. CASE ~Panic
    <3>1. /\ ScheduleOK(st, ready_list)
          /\ Schedule(st, ready_list, frame)
          /\ UNCHANGED <<tid, all_list, idle_thread, next_tid, irqVars, semaVars,
                         panicked>>
      BY <1>9, <2>2 DEF IdleBlock
    <3>2. st \in [Thread -> Status] /\ frame \in Frame
      BY <1>0, SuspendedType DEF TypeOK, Status, PC, Level
    <3>3. /\ ready_list' \in Seq(Thread)
          /\ status' \in [Thread -> Status]
          /\ stack_frame' \in [Thread -> Frame]
          /\ cpu' \in Frame
          /\ thread_ticks' \in Nat
      BY <1>0, <3>1, <3>2, ScheduleType
    <3> QED
      BY <3>1, <3>3 DEF TypeOK, irqVars, semaVars
  <2> QED BY <2>1, <2>2
<1>10. CASE IdleResume
  <2>1. cpu' \in Frame
    BY <1>0, <1>10, ReturnType DEF IdleResume, PC
  <2> QED
    BY <1>10, <2>1 DEF IdleResume, TypeOK, threadVars, irqVars, semaVars
<1> QED
  BY <1>1, <1>2, <1>3, <1>4, <1>5, <1>6, <1>7, <1>8, <1>9, <1>10

(* IRQ entry and exit. *)
LEMMA IrqType == ASSUME TypeOK, IrqDispatch \/ IrqEnd PROVE TypeOK'
<1>1. CASE IrqDispatch
  <2>1. CASE Panic
    BY <2>1, PanicType
  <2>2. CASE ~Panic
    <3>1. cpu' \in Frame
      BY <1>1, <2>2, FrameLevel DEF IrqDispatch, TypeOK, Level
    <3>2. /\ irq_frame' = cpu /\ was_irq_generated' = TRUE
          /\ in_external_interrupt' = TRUE /\ thread_ticks' = thread_ticks + 1
          /\ UNCHANGED <<status, tid, stack_frame, ready_list, all_list,
                         idle_thread, next_tid, semaVars, panicked>>
      BY <1>1, <2>2 DEF IrqDispatch
    <3>3. yield_on_return' = SliceUsed
      BY <1>1, <2>2 DEF IrqDispatch
    <3>4. yield_on_return' \in BOOLEAN
      BY <3>3 DEF SliceUsed
    <3> QED
      BY <3>1, <3>2, <3>4 DEF TypeOK, semaVars
  <2> QED BY <2>1, <2>2
<1>2. CASE IrqReturn
  <2>1. cpu' \in Frame
    BY <1>2 DEF IrqReturn, TypeOK
  <2> QED
    BY <1>2, <2>1 DEF IrqReturn, TypeOK, threadVars, semaVars
<1>3. CASE IrqYield
  <2> DEFINE st == [status EXCEPT ![RunningThread] = "READY"]
             rl == YieldQueue(RunningThread)
             next == NextThread(rl)
             frames == ScheduleTailFrames(st, RunningThread, next, irq_frame)
  <2>1. CASE Panic
    BY <2>1, PanicType
  <2>2. CASE ~Panic
    <3>1. /\ ScheduleOK(st, rl)
          /\ ready_list' = RestOf(rl)
          /\ status' = ScheduleTailStatus(st, RunningThread, next)
          /\ stack_frame' = frames
          /\ cpu' = IF RunningThread # next THEN frames[next] ELSE irq_frame
          /\ thread_ticks' = 0
          /\ ~in_external_interrupt' /\ ~was_irq_generated'
          /\ in_external_interrupt' = FALSE /\ was_irq_generated' = FALSE
          /\ irq_frame' = NULL
          /\ UNCHANGED <<tid, all_list, idle_thread, next_tid, semaVars,
                         yield_on_return, panicked>>
      BY <1>3, <2>2 DEF IrqYield
    <3>2. irq_frame \in Frame /\ RunningThread \in Thread
      BY <1>3 DEF IrqYield, TypeOK, RunningThread, Frame
    <3>3. rl \in Seq(Thread)
      BY <3>2, AppendProperties DEF YieldQueue, TypeOK
    <3>4. next \in Thread /\ RestOf(rl) \in Seq(Thread)
      <4>1. CASE rl = <<>>
        BY <3>1, <3>3, <4>1 DEF NextThread, RestOf, ScheduleOK, TypeOK
      <4>2. CASE rl # <<>>
        BY <3>3, <4>2, HeadTailProperties DEF NextThread, RestOf
      <4> QED BY <4>1, <4>2
    <3>5. status' \in [Thread -> Status]
      <4>1. st \in [Thread -> Status]
        BY DEF TypeOK, Status
      <4> QED BY <3>1, <3>2, <3>4, <4>1 DEF ScheduleTailStatus, Status
    <3>6. frames \in [Thread -> Frame]
      BY <3>2, NoFrameType DEF ScheduleTailFrames, TypeOK
    <3>7. cpu' \in Frame
      BY <3>1, <3>2, <3>4, <3>6
    <3> QED
      BY <3>1, <3>4, <3>5, <3>6, <3>7 DEF TypeOK, semaVars
  <2> QED BY <2>1, <2>2
<1> QED
  BY <1>1, <1>2, <1>3 DEF IrqEnd

(* The thread system is type correct: registers and saved contexts always    *)
(* name a thread's stack, the run queue and wait lists hold threads, and a   *)
(* thread that is about to unblock or to retry a semaphore has a thread or a *)
(* semaphore at hand.                                                        *)
THEOREM TypeCorrect == Spec => []TypeOK
<1>1. Init => TypeOK
  <2> SUFFICES ASSUME Init PROVE TypeOK
    OBVIOUS
  <2>1. Main \in Thread
    BY DEF Thread
  <2>2. cpu \in Frame
    BY <2>1 DEF Init, Frame, Level, PC, Arg
  <2>3. stack_frame \in [Thread -> Frame]
    BY NoFrameType DEF Init
  <2>4. status \in [Thread -> Status]
    BY DEF Init, Status
  <2>5. /\ ready_list \in Seq(Thread)
        /\ waiters \in [AllSema -> Seq(Thread)]
    BY EmptySeq DEF Init
  <2> QED
    BY <2>1, <2>2, <2>3, <2>4, <2>5 DEF Init, TypeOK
<1>2. TypeOK /\ [Next]_vars => TypeOK'
  <2> SUFFICES ASSUME TypeOK, [Next]_vars PROVE TypeOK'
    OBVIOUS
  <2>1. CASE UNCHANGED vars
    BY <2>1 DEF TypeOK, vars, threadVars, irqVars, semaVars
  <2>2. CASE Next
    BY <2>2, TaskStepType, KernelStepType, IrqType DEF Next
  <2> QED BY <2>1, <2>2
<1> QED
  BY <1>1, <1>2, PTL DEF Spec

-----------------------------------------------------------------------------

(* The effect of a switch: RUN is left with status LEFT and context FRAME,   *)
(* and NEXT, perhaps the same thread, goes on.                               *)
Switched(run, next, left, frame) ==
  /\ status' = [t \in Thread |-> IF t = next THEN "RUNNING"
                                 ELSE IF t = run THEN left
                                 ELSE status[t]]
  /\ RunningThread' = next
  /\ Context(run)' = frame
  /\ \A t \in Thread \ {run} : Context(t)' = Context(t)

AtIdle(f) == f.pc \in {"idle_sema_up", "idle_loop", "idle_blocked"}
AtBecoming(f) == \/ f.pc = "idle"
                 \/ f.pc = "kernel_thread" /\ f.arg = "idle"

(* The contexts that status LEFT goes with, for thread T. *)
Fits(t, left, f) ==
  /\ left = "FREE" => f.pc = "none" /\ t # Main
  /\ left = "DYING" => f.pc = "thread_exit" /\ t = Main
  /\ left = "BLOCKED" => f.pc \in {"sema_down", "idle_blocked"}

(* FRAME may take the place of thread T's context, OLD: the parts of the     *)
(* invariant that speak of points in the code cannot tell.                   *)
Alike(t, old, f) ==
  /\ f.sp = t
  /\ AtIdle(f) <=> t = idle_thread
  /\ AtBecoming(f) <=> AtBecoming(old)
  /\ f.pc = "thread_start" => old.pc = "thread_start"
  /\ old.pc = "thread_start" => f.pc = "thread_start"
  /\ f.pc = "thread_unblock" \/ old.pc = "thread_unblock"
       => f.pc = old.pc /\ f.arg = old.arg

(* A switch preserves the invariant if the run queue is what is then ready,  *)
(* the wait lists gain the thread that goes to sleep, and all_list loses the *)
(* one that exits.                                                           *)
LEMMA SwitchInv ==
  ASSUME IInv, TypeOK',
         NEW run \in Thread, run = RunningThread,
         NEW next \in Thread, NEW left \in Status \ {"RUNNING"}, NEW frame \in Frame,
         Switched(run, next, left, frame),
         Fits(run, left, frame), Alike(run, Context(run), frame),
         next = run \/ status[next] = "READY" \/ next = idle_thread,
         AtBecoming(frame) /\ next # run => left = "READY",
         frame.pc = "thread_start" => next = run,
         IsInjective(ready_list'),
         Range(ready_list') =
           {t \in Thread : /\ t # next /\ t # idle_thread
                           /\ IF t = run THEN left = "READY" ELSE status[t] = "READY"},
         \A s \in AllSema : IsInjective(waiters'[s]),
         \A s \in AllSema : Range(waiters'[s]) =
           {t \in Thread : \/ t \in Range(waiters[s])
                           \/ /\ t = run /\ run # next /\ left = "BLOCKED"
                              /\ frame.pc = "sema_down" /\ frame.arg = s},
         next = run \/ left \notin {"FREE", "DYING"} => all_list' = all_list,
         next # run /\ left \in {"FREE", "DYING"} => all_list' = all_list \ {run},
         UNCHANGED <<idle_thread, panicked>>,
         in_external_interrupt' = was_irq_generated'
  PROVE  IInv'
<1> DEFINE st(t) == IF t = next THEN "RUNNING" ELSE IF t = run THEN left ELSE status[t]
<1>1. \A t \in Thread : status'[t] = st(t)
  BY DEF Switched
<1>2. /\ RunningThread' = next
      /\ Context(run)' = frame
      /\ \A t \in Thread : t # run => Context(t)' = Context(t)
  BY DEF Switched
<1>3. /\ \A t \in Thread : status[t] = "RUNNING" <=> t = run
      /\ \A t \in Thread : Context(t).sp = t
  BY DEF IInv, StacksMatch
<1>4. StacksMatch'
  BY <1>1, <1>2, <1>3 DEF StacksMatch, Alike
<1>5. status[next] \in {"READY", "BLOCKED", "RUNNING"}
  <2>1. CASE next = idle_thread
    <3>1. AtIdle(Context(next))
      BY <2>1 DEF IInv, IdlePhase, AtIdle
    <3>2. status[next] \in Status
      BY DEF IInv, TypeOK
    <3> QED BY <3>1, <3>2 DEF IInv, ContextsFit, AtIdle, Status
  <2> QED BY <1>3, <2>1
<1>6. RunQueueExact'
  BY <1>1 DEF RunQueueExact
<1>7. WaitListExact'
  <2> SUFFICES ASSUME NEW s \in AllSema
               PROVE  Range(waiters'[s]) =
                        {t \in Thread : /\ status'[t] = "BLOCKED"
                                        /\ Context(t)'.pc = "sema_down"
                                        /\ Context(t)'.arg = s}
    BY DEF WaitListExact
  <2>1. Range(waiters[s]) = {t \in Thread : /\ status[t] = "BLOCKED"
                                            /\ Context(t).pc = "sema_down"
                                            /\ Context(t).arg = s}
    BY DEF IInv, WaitListExact
  <2>2. next \notin Range(waiters[s])
    <3>1. next = idle_thread => AtIdle(Context(next))
      BY DEF IInv, IdlePhase, AtIdle
    <3> QED BY <1>3, <2>1, <3>1 DEF AtIdle
  <2> QED BY <1>1, <1>2, <1>3, <2>1, <2>2
<1>8. ContextsFit'
  BY <1>1, <1>2 DEF IInv, ContextsFit, Fits
<1>9. UnblockPending'
  <2>1. \A u, t \in Thread : Unblocking(u, t)' <=> Unblocking(u, t)
    BY <1>2 DEF Unblocking, Alike
  <2>2. \A t \in Thread : status'[t] = "BLOCKED" /\ Context(t)'.pc = "kernel_thread"
                       <=> status[t] = "BLOCKED" /\ Context(t).pc = "kernel_thread"
    <3>1. next = idle_thread => AtIdle(Context(next))
      BY DEF IInv, IdlePhase, AtIdle
    <3> QED BY <1>1, <1>2, <1>3, <3>1 DEF Fits, AtIdle
  <2> QED BY <2>1, <2>2 DEF IInv, UnblockPending
<1>10. IdlePhase'
  <2>1. \A t \in Thread : /\ AtIdle(Context(t)) <=> t = idle_thread
                          /\ AtIdle(Context(t)') <=> t = idle_thread
    BY <1>2 DEF IInv, IdlePhase, AtIdle, Alike
  <2>2. \A t \in Thread : /\ BecomingIdle(t) <=> AtBecoming(Context(t))
                          /\ BecomingIdle(t)' <=> AtBecoming(Context(t))
    <3>1. \A t \in Thread : AtBecoming(Context(t)') <=> AtBecoming(Context(t))
      BY <1>2 DEF Alike
    <3>2. \A t \in Thread : BecomingIdle(t) <=> AtBecoming(Context(t))
      BY DEF BecomingIdle, AtBecoming
    <3>3. \A t \in Thread : BecomingIdle(t)' <=> AtBecoming(Context(t)')
      BY DEF BecomingIdle, AtBecoming
    <3> QED BY <3>1, <3>2, <3>3
  <2>3. \A t \in Thread : Context(t)'.pc = "thread_start" <=> Context(t).pc = "thread_start"
    BY <1>2 DEF Alike
  <2>4. \A t \in Thread : BecomingIdle(t)' =>
          /\ idle_thread = NULL
          /\ status'[t] \in {"READY", "RUNNING"}
          /\ \A u \in Thread : BecomingIdle(u)' => u = t
    <3> SUFFICES ASSUME NEW t \in Thread, AtBecoming(Context(t))
                 PROVE  /\ idle_thread = NULL
                        /\ status'[t] \in {"READY", "RUNNING"}
                        /\ \A u \in Thread : AtBecoming(Context(u)) => u = t
      BY <2>2
    <3>1. /\ idle_thread = NULL
          /\ status[t] \in {"READY", "RUNNING"}
          /\ \A u \in Thread : AtBecoming(Context(u)) => u = t
      BY <2>2 DEF IInv, IdlePhase
    <3>2. status'[t] \in {"READY", "RUNNING"}
      BY <1>1, <3>1 DEF Alike
    <3> QED BY <3>1, <3>2
  <2>5. \A t \in Thread : Context(t)'.pc = "thread_start" =>
          \A u \in Thread \ {t} : status'[u] = "FREE"
    <3> SUFFICES ASSUME NEW t \in Thread, Context(t).pc = "thread_start",
                        NEW u \in Thread \ {t}
                 PROVE  status'[u] = "FREE"
      BY <2>3
    <3>1. \A v \in Thread \ {t} : status[v] = "FREE"
      BY DEF IInv, IdlePhase
    <3>2. t = run
      BY <1>3, <3>1
    <3>3. next = run
      BY <3>2 DEF Alike
    <3> QED BY <1>1, <3>1, <3>2, <3>3
  <2>6. idle_thread = NULL =>
          \E t \in Thread : BecomingIdle(t)' \/ Context(t)'.pc = "thread_start"
    BY <2>2, <2>3 DEF IInv, IdlePhase
  <2> QED BY <2>1, <2>4, <2>5, <2>6 DEF IdlePhase, AtIdle
<1>11. AllListAlive'
  BY <1>1, <1>3, <1>5 DEF IInv, AllListAlive
<1>12. NoPanic' /\ (in_external_interrupt = was_irq_generated)'
  BY DEF IInv, NoPanic
<1> QED
  BY <1>4, <1>6, <1>7, <1>8, <1>9, <1>10, <1>11, <1>12 DEF IInv

-----------------------------------------------------------------------------
(* The threads that want the CPU once RUN is left with status LEFT. *)
Ready(run, left) ==
  {t \in Thread : /\ t # idle_thread
                  /\ IF t = run THEN left = "READY" ELSE status[t] = "READY"}

(* schedule() finds a thread to run: the first of the queue, or the idle     *)
(* thread, which exists unless a thread that will become it is ready.        *)
LEMMA Schedulable ==
  ASSUME IInv, NEW run \in Thread, run = RunningThread,
         NEW left \in {"BLOCKED", "READY", "DYING"},
         NEW rl \in Seq(Thread), IsInjective(rl), Range(rl) = Ready(run, left),
         rl = <<>> => ~AtBecoming(Context(run)) /\ Context(run).pc # "thread_start"
  PROVE  /\ NextThread(rl) \in Thread
         /\ \/ status[NextThread(rl)] = "READY"
            \/ NextThread(rl) = idle_thread
            \/ NextThread(rl) = run /\ left = "READY"
         /\ ScheduleOK([status EXCEPT ![run] = left], rl)
         /\ IsInjective(RestOf(rl))
         /\ Range(RestOf(rl)) = Ready(run, left) \ {NextThread(rl)}
<1> DEFINE next == NextThread(rl)
           st == [status EXCEPT ![run] = left]
<1>0. /\ status \in [Thread -> Status]
      /\ \A t \in Thread : status[t] = "RUNNING" <=> t = run
  BY DEF IInv, TypeOK, StacksMatch
<1>1. CASE rl # <<>>
  <2>1. next = Head(rl) /\ RestOf(rl) = Tail(rl)
    BY <1>1 DEF NextThread, RestOf
  <2>2. /\ next \in Thread /\ next \in Ready(run, left)
        /\ IsInjective(RestOf(rl))
        /\ Range(RestOf(rl)) = Ready(run, left) \ {next}
    BY <1>1, <2>1, RangeTail
  <2>3. \/ next # run /\ status[next] = "READY"
        \/ next = run /\ left = "READY"
    BY <2>2 DEF Ready
  <2>4. ScheduleOK(st, rl)
    BY <1>0, <2>2, <2>3, NullAssumption DEF ScheduleOK
  <2> QED BY <2>2, <2>3, <2>4
<1>2. CASE rl = <<>>
  <2>1. next = idle_thread /\ RestOf(rl) = <<>>
    BY <1>2 DEF NextThread, RestOf
  <2>2. Ready(run, left) = {}
    BY <1>2, RangeEmpty
  <2>3. idle_thread # NULL
    <3> SUFFICES ASSUME idle_thread = NULL PROVE FALSE
      OBVIOUS
    <3>1. PICK t \in Thread : BecomingIdle(t) \/ Context(t).pc = "thread_start"
      BY DEF IInv, IdlePhase
    <3>2. t # run
      BY <1>2, <3>1 DEF BecomingIdle, AtBecoming
    <3>3. CASE BecomingIdle(t)
      <4>1. status[t] = "READY" /\ t # idle_thread
        BY <1>0, <3>2, <3>3, NullAssumption DEF IInv, IdlePhase
      <4> QED BY <2>2, <3>2, <4>1 DEF Ready
    <3>4. CASE Context(t).pc = "thread_start"
      BY <1>0, <3>2, <3>4 DEF IInv, IdlePhase
    <3> QED BY <3>1, <3>3, <3>4
  <2>4. idle_thread \in Thread
    BY <2>3 DEF IInv, TypeOK
  <2>5. status[idle_thread] # "FREE"
    BY <2>4 DEF IInv, IdlePhase, ContextsFit
  <2>6. ScheduleOK(st, rl)
    BY <1>0, <2>1, <2>3, <2>4, <2>5 DEF ScheduleOK
  <2> QED BY <2>1, <2>2, <2>4, <2>6, RangeEmpty
<1> QED BY <1>1, <1>2

(* What a thread that calls schedule() with status LEFT is left with. *)
LeftStatus(run, left) == IF left = "DYING" /\ run # Main THEN "FREE" ELSE left
LeftFrame(run, left, f) == IF left = "DYING" /\ run # Main THEN NoFrame(run) ELSE f

(* Status and contexts after thread_schedule_tail(). *)
LEMMA TailEffect ==
  ASSUME TypeOK, NEW run \in Thread, NEW next \in Thread, NEW f \in Frame,
         NEW left \in {"BLOCKED", "READY", "DYING"}, left = "DYING" => next # run,
         NEW st, st = [status EXCEPT ![run] = left]
  PROVE  /\ ScheduleTailStatus(st, run, next) =
              [t \in Thread |-> IF t = next THEN "RUNNING"
                                ELSE IF t = run THEN LeftStatus(run, left)
                                ELSE status[t]]
         /\ ScheduleTailFrames(st, run, next, f) =
              [stack_frame EXCEPT ![run] = LeftFrame(run, left, f)]
<1>1. status \in [Thread -> Status] /\ st \in [Thread -> Status]
  BY DEF TypeOK, Status
<1>2. Reaped([st EXCEPT ![next] = "RUNNING"], run) <=> left = "DYING" /\ run # Main
  BY <1>1 DEF Reaped
<1>3. ScheduleTailStatus(st, run, next) =
              [t \in Thread |-> IF t = next THEN "RUNNING"
                                ELSE IF t = run THEN LeftStatus(run, left)
                                ELSE status[t]]
  BY <1>1, <1>2 DEF ScheduleTailStatus, LeftStatus
<1>4. ScheduleTailFrames(st, run, next, f) =
              [stack_frame EXCEPT ![run] = LeftFrame(run, left, f)]
  BY <1>2 DEF ScheduleTailFrames, LeftFrame
<1> QED BY <1>3, <1>4

(* Registers: outside an IRQ the running thread's are the CPU's. *)
LEMMA CpuContext ==
  ASSUME IInv, ~was_irq_generated
  PROVE  /\ RunningThread = cpu.sp /\ cpu.sp \in Thread
         /\ Context(cpu.sp) = cpu
         /\ \A t \in Thread : t # cpu.sp => Context(t) = stack_frame[t]
BY DEF IInv, TypeOK, Frame, RunningThread, Context

(* schedule() called by a thread is a switch. *)
LEMMA ScheduleSwitched ==
  ASSUME IInv, ~was_irq_generated, UNCHANGED irqVars,
         NEW run \in Thread, run = RunningThread,
         NEW left \in {"BLOCKED", "READY", "DYING"},
         NEW rl \in Seq(Thread), NEW f \in Frame, f.sp = run,
         NEW next \in Thread, next = NextThread(rl), left = "DYING" => next # run,
         Schedule([status EXCEPT ![run] = left], rl, f)
  PROVE  /\ Switched(run, next, LeftStatus(run, left), LeftFrame(run, left, f))
         /\ ready_list' = RestOf(rl)
<1> DEFINE st == [status EXCEPT ![run] = left]
           frames == [stack_frame EXCEPT ![run] = LeftFrame(run, left, f)]
<1>1. /\ run = cpu.sp
      /\ \A t \in Thread : t # run => Context(t) = stack_frame[t]
  BY CpuContext
<1>2. /\ stack_frame \in [Thread -> Frame]
      /\ \A t \in Thread : Context(t).sp = t
  BY DEF IInv, TypeOK, StacksMatch
<1>3. /\ ready_list' = RestOf(rl)
      /\ status' = ScheduleTailStatus(st, run, next)
      /\ stack_frame' = ScheduleTailFrames(st, run, next, f)
      /\ cpu' = ScheduleTailFrames(st, run, next, f)[next]
  BY <1>1 DEF Schedule
<1>4. /\ status' = [t \in Thread |-> IF t = next THEN "RUNNING"
                                    ELSE IF t = run THEN LeftStatus(run, left)
                                    ELSE status[t]]
      /\ stack_frame' = frames
      /\ cpu' = frames[next]
  <2>1. TypeOK
    BY DEF IInv
  <2>2. ScheduleTailStatus(st, run, next) =
          [t \in Thread |-> IF t = next THEN "RUNNING"
                            ELSE IF t = run THEN LeftStatus(run, left)
                            ELSE status[t]]
    BY <2>1, TailEffect
  <2>3. ScheduleTailFrames(st, run, next, f) = frames
    BY <2>1, TailEffect
  <2> QED BY <1>3, <2>2, <2>3
<1>5. \A t \in Thread : frames[t] = IF t = run THEN LeftFrame(run, left, f)
                                    ELSE Context(t)
  BY <1>1, <1>2
<1>6. cpu'.sp = next
  BY <1>2, <1>4, <1>5 DEF LeftFrame
<1>7. ~was_irq_generated'
  BY DEF irqVars
<1>8. RunningThread' = next
  BY <1>6, <1>7 DEF RunningThread
<1>9. \A t \in Thread : Context(t)' = frames[t]
  BY <1>4, <1>7, <1>8 DEF Context
<1>10. Context(run)' = LeftFrame(run, left, f)
  BY <1>5, <1>9
<1>11. \A t \in Thread \ {run} : Context(t)' = Context(t)
  BY <1>5, <1>9
<1> QED
  BY <1>3, <1>4, <1>8, <1>10, <1>11 DEF Switched

-----------------------------------------------------------------------------
(* A step in which only the running thread's context changes. *)
LEMMA LocalInv ==
  ASSUME IInv, TypeOK',
         NEW run \in Thread, run = RunningThread, NEW f \in Frame,
         RunningThread' = run, Context(run)' = f,
         \A t \in Thread \ {run} : Context(t)' = Context(t),
         Alike(run, Context(run), f),
         UNCHANGED <<status, ready_list, waiters, all_list, idle_thread, panicked>>,
         in_external_interrupt' = was_irq_generated'
  PROVE  IInv'
<1>1. /\ status \in [Thread -> Status]
      /\ \A t \in Thread : status[t] = "RUNNING" <=> t = run
  BY DEF IInv, TypeOK, StacksMatch
<1>2. Switched(run, run, "READY", f)
  BY <1>1 DEF Switched
<1>3. Fits(run, "READY", f) /\ "READY" \in Status \ {"RUNNING"}
  BY DEF Fits, Status
<1>4. /\ IsInjective(ready_list')
      /\ Range(ready_list') =
           {t \in Thread : /\ t # run /\ t # idle_thread
                           /\ IF t = run THEN "READY" = "READY" ELSE status[t] = "READY"}
  BY <1>1 DEF IInv, RunQueueExact
<1>5. \A s \in AllSema : IsInjective(waiters'[s])
  BY DEF IInv, WaitListExact
<1>6. \A s \in AllSema : Range(waiters'[s]) =
           {t \in Thread : \/ t \in Range(waiters[s])
                           \/ /\ t = run /\ run # run /\ "READY" = "BLOCKED"
                              /\ f.pc = "sema_down" /\ f.arg = s}
  BY DEF IInv, WaitListExact
<1> QED
  BY <1>2, <1>3, <1>4, <1>5, <1>6, SwitchInv

(* A step of thread code in which only the registers change. *)
LEMMA CpuInv ==
  ASSUME IInv, TypeOK', ~was_irq_generated, Alike(cpu.sp, cpu, cpu'),
         UNCHANGED <<status, stack_frame, ready_list, waiters, all_list,
                     idle_thread, irqVars, panicked>>
  PROVE  IInv'
<1>1. PICK run \in Thread : run = cpu.sp
  BY CpuContext
<1>2. PICK f \in Frame : f = cpu'
  BY DEF TypeOK
<1>3. /\ run = RunningThread /\ Context(run) = cpu
      /\ \A t \in Thread : t # run => Context(t) = stack_frame[t]
  BY <1>1, CpuContext
<1>4. ~was_irq_generated' /\ ~in_external_interrupt'
  BY DEF irqVars, IInv
<1>5. cpu'.sp = run
  BY <1>1 DEF Alike
<1>6. RunningThread' = run
  BY <1>4, <1>5 DEF RunningThread
<1>7. Context(run)' = f
  BY <1>2, <1>4, <1>6 DEF Context
<1>8. \A t \in Thread \ {run} : Context(t)' = Context(t)
  BY <1>3, <1>6 DEF Context
<1>9. Alike(run, Context(run), f)
  BY <1>1, <1>2, <1>3
<1>10. in_external_interrupt' = was_irq_generated'
  BY DEF irqVars, IInv
<1> QED
  BY <1>3, <1>6, <1>7, <1>8, <1>9, <1>10, LocalInv

(* A thread calls schedule() with status LEFT and leaves context F.  It is   *)
(* not one that the others depend on (about to become idle or to unblock).   *)
LEMMA ScheduleInv ==
  ASSUME IInv, TypeOK', ~was_irq_generated,
         NEW run \in Thread, run = cpu.sp,
         NEW left \in {"BLOCKED", "READY", "DYING"},
         NEW rl \in Seq(Thread), IsInjective(rl), Range(rl) = Ready(run, left),
         NEW f \in Frame,
         Schedule([status EXCEPT ![run] = left], rl, f),
         cpu.pc \notin {"thread_start", "thread_unblock", "idle", "kernel_thread"},
         f.pc \notin {"thread_start", "thread_unblock", "idle", "kernel_thread"},
         f.sp = run, AtIdle(f) <=> run = idle_thread,
         left = "BLOCKED" => f.pc \in {"sema_down", "idle_blocked"},
         left = "DYING" => f.pc = "thread_exit",
         \A s \in AllSema : IsInjective(waiters'[s]),
         \A s \in AllSema : Range(waiters'[s]) =
           {t \in Thread : \/ t \in Range(waiters[s])
                           \/ /\ t = run /\ left = "BLOCKED"
                              /\ f.pc = "sema_down" /\ f.arg = s},
         all_list' = IF left = "DYING" THEN all_list \ {run} ELSE all_list,
         UNCHANGED <<idle_thread, irqVars, panicked>>
  PROVE  IInv'
<1> DEFINE status2 == LeftStatus(run, left)
           f2 == LeftFrame(run, left, f)
<1>1. run = RunningThread /\ Context(run) = cpu
  BY CpuContext
<1>2. ~AtBecoming(Context(run)) /\ Context(run).pc # "thread_start"
  BY <1>1 DEF AtBecoming
<1>3. PICK next \in Thread :
        /\ next = NextThread(rl)
        /\ \/ status[next] = "READY"
           \/ next = idle_thread
           \/ next = run /\ left = "READY"
        /\ IsInjective(RestOf(rl))
        /\ Range(RestOf(rl)) = Ready(run, left) \ {next}
  <2>1. /\ NextThread(rl) \in Thread
        /\ \/ status[NextThread(rl)] = "READY"
           \/ NextThread(rl) = idle_thread
           \/ NextThread(rl) = run /\ left = "READY"
        /\ IsInjective(RestOf(rl))
        /\ Range(RestOf(rl)) = Ready(run, left) \ {NextThread(rl)}
    BY <1>1, <1>2, Schedulable
  <2> QED BY <2>1
<1>5. status[run] = "RUNNING"
  BY <1>1 DEF IInv, StacksMatch
<1>6. next = run => left = "READY" \/ AtIdle(f)
  BY <1>3, <1>5
<1>7. left = "DYING" => next # run
  BY <1>6 DEF AtIdle
<1>8. /\ Switched(run, next, status2, f2)
      /\ ready_list' = RestOf(rl)
  BY <1>1, <1>3, <1>7, ScheduleSwitched
<1>9. status2 \in Status \ {"RUNNING"} /\ f2 \in Frame
  BY NoFrameType DEF LeftStatus, LeftFrame, Status
<1>10. Fits(run, status2, f2)
  BY DEF Fits, LeftStatus, LeftFrame, NoFrame
<1>11. Alike(run, Context(run), f2)
  BY <1>1, <1>2 DEF Alike, AtIdle, AtBecoming, LeftFrame, NoFrame
<1>12. ~AtBecoming(f2) /\ f2.pc # "thread_start"
  BY DEF AtBecoming, LeftFrame, NoFrame
<1>13. Range(ready_list') =
           {t \in Thread : /\ t # next /\ t # idle_thread
                           /\ IF t = run THEN status2 = "READY" ELSE status[t] = "READY"}
  BY <1>3, <1>8 DEF Ready, LeftStatus
<1>14. \A s \in AllSema : Range(waiters'[s]) =
           {t \in Thread : \/ t \in Range(waiters[s])
                           \/ /\ t = run /\ run # next /\ status2 = "BLOCKED"
                              /\ f2.pc = "sema_down" /\ f2.arg = s}
  BY <1>6 DEF AtIdle, LeftStatus, LeftFrame
<1>15. /\ next = run \/ status2 \notin {"FREE", "DYING"} => all_list' = all_list
       /\ next # run /\ status2 \in {"FREE", "DYING"} => all_list' = all_list \ {run}
  BY <1>7 DEF LeftStatus
<1>16. in_external_interrupt' = was_irq_generated'
  BY DEF irqVars, IInv
<1>17. IsInjective(ready_list')
  BY <1>3, <1>8
<1> QED
  BY <1>1, <1>3, <1>8, <1>9, <1>10, <1>11, <1>12, <1>13, <1>14, <1>15, <1>16, <1>17,
     SwitchInv

-----------------------------------------------------------------------------
(* Thread W, blocked until now, is put on the run queue; the running thread   *)
(* goes on with context F.                                                   *)
LEMMA WakeInv ==
  ASSUME IInv, TypeOK', ~was_irq_generated,
         NEW run \in Thread, run = cpu.sp, cpu'.sp = run,
         NEW w \in Thread, status[w] = "BLOCKED",
         Context(w).pc \in {"sema_down", "kernel_thread"},
         ThreadUnblock(w),
         AtIdle(cpu') <=> run = idle_thread,
         ~AtBecoming(cpu) /\ ~AtBecoming(cpu'),
         cpu.pc # "thread_start" /\ cpu'.pc # "thread_start",
         \A s \in AllSema : IsInjective(waiters'[s]),
         \A s \in AllSema : Range(waiters'[s]) = Range(waiters[s]) \ {w},
         cpu'.pc # "thread_unblock",
         \/ /\ Context(w).pc = "kernel_thread"
            /\ cpu.pc = "thread_unblock" /\ cpu.arg = w
         \/ Context(w).pc = "sema_down" /\ cpu.pc # "thread_unblock",
         UNCHANGED <<stack_frame, all_list, idle_thread, irqVars, panicked>>
  PROVE  IInv'
<1>1. /\ run = RunningThread /\ Context(run) = cpu
      /\ \A t \in Thread : t # run => Context(t) = stack_frame[t]
  BY CpuContext
<1>2. ~was_irq_generated' /\ RunningThread' = run
  BY DEF irqVars, RunningThread
<1>3. /\ Context(run)' = cpu'
      /\ \A t \in Thread : t # run => Context(t)' = Context(t)
  BY <1>1, <1>2 DEF Context
<1>4. \A t \in Thread : status'[t] = IF t = w THEN "READY" ELSE status[t]
  BY DEF ThreadUnblock, IInv, TypeOK
<1>5. \A t \in Thread : status[t] = "RUNNING" <=> t = run
  BY <1>1 DEF IInv, StacksMatch
<1>6. w # idle_thread /\ w # run
  BY <1>5 DEF IInv, IdlePhase
<1>7. StacksMatch'
  BY <1>2, <1>3, <1>4, <1>5, <1>6 DEF IInv, StacksMatch
<1>8. RunQueueExact'
  <2>1. ready_list \in Seq(Thread) /\ IsInjective(ready_list)
        /\ Range(ready_list) = {t \in Thread : status[t] = "READY"} \ {idle_thread}
    BY DEF IInv, TypeOK, RunQueueExact
  <2>2. IsInjective(ready_list') /\ Range(ready_list') = Range(ready_list) \cup {w}
    BY <2>1, RangeAppend DEF ThreadUnblock
  <2> QED BY <1>4, <1>6, <2>1, <2>2 DEF RunQueueExact
<1>9. WaitListExact'
  <2> SUFFICES ASSUME NEW s \in AllSema
               PROVE  Range(waiters'[s]) =
                        {t \in Thread : /\ status'[t] = "BLOCKED"
                                        /\ Context(t)'.pc = "sema_down"
                                        /\ Context(t)'.arg = s}
    BY DEF WaitListExact
  <2>1. Range(waiters[s]) = {t \in Thread : /\ status[t] = "BLOCKED"
                                            /\ Context(t).pc = "sema_down"
                                            /\ Context(t).arg = s}
    BY DEF IInv, WaitListExact
  <2> QED BY <1>3, <1>4, <1>5, <2>1
<1>10. ContextsFit'
  BY <1>3, <1>4, <1>5 DEF IInv, ContextsFit
<1>11. UnblockPending'
  <2>1. \A u, t \in Thread : Unblocking(u, t)' <=> Unblocking(u, t) /\ t # w
    <3>1. \A u \in Thread : u # run => ~Unblocking(u, w)
      BY <1>1 DEF IInv, UnblockPending, Unblocking
    <3> QED BY <1>1, <1>3, <3>1 DEF Unblocking
  <2>2. \A t \in Thread : status'[t] = "BLOCKED" /\ Context(t)'.pc = "kernel_thread"
               <=> status[t] = "BLOCKED" /\ Context(t).pc = "kernel_thread" /\ t # w
    BY <1>3, <1>4, <1>5
  <2> QED BY <2>1, <2>2 DEF IInv, UnblockPending
<1>12. IdlePhase'
  <2>1. \A t \in Thread : AtIdle(Context(t)') <=> t = idle_thread
    BY <1>3 DEF IInv, IdlePhase, AtIdle
  <2>2. \A t \in Thread : BecomingIdle(t)' <=> BecomingIdle(t)
    BY <1>1, <1>3 DEF BecomingIdle, AtBecoming
  <2>3. \A t \in Thread : Context(t)'.pc # "thread_start"
    <3>1. \A t \in Thread : Context(t).pc = "thread_start" => t = run
      BY <1>5 DEF IInv, IdlePhase
    <3> QED BY <1>3, <3>1
  <2>4. \A t \in Thread : Context(t).pc # "thread_start"
    <3>1. \A t \in Thread : Context(t).pc = "thread_start" => t = run
      BY <1>5 DEF IInv, IdlePhase
    <3> QED BY <1>1, <3>1
  <2> QED BY <1>4, <2>1, <2>2, <2>3, <2>4 DEF IInv, IdlePhase, AtIdle
<1>13. AllListAlive'
  BY <1>4 DEF IInv, AllListAlive
<1>14. NoPanic' /\ (in_external_interrupt = was_irq_generated)'
  BY DEF IInv, NoPanic, irqVars
<1> QED
  BY <1>7, <1>8, <1>9, <1>10, <1>11, <1>12, <1>13, <1>14 DEF IInv

(* sema_up() finds a blocked thread at the head of the wait list. *)
LEMMA SemaUpInv ==
  ASSUME IInv, TypeOK', ~was_irq_generated,
         NEW s \in AllSema, NEW label \in {"user", "idle_loop"},
         \/ cpu.pc = "user" /\ label = "user"
         \/ cpu.pc = "idle_sema_up" /\ label = "idle_loop",
         IF SemaUpOK(s) THEN SemaUpTo(s, label) ELSE Panic
  PROVE  IInv'
<1>1. PICK run \in Thread : /\ run = cpu.sp /\ run = RunningThread
                            /\ Context(run) = cpu
  BY CpuContext
<1>2. cpu \in Frame /\ waiters \in [AllSema -> Seq(Thread)]
  BY DEF IInv, TypeOK
<1>3. AtIdle(cpu) <=> run = idle_thread
  BY <1>1 DEF IInv, IdlePhase, AtIdle
<1>4. CASE waiters[s] # <<>>
  <2>1. PICK w \in Thread : w = Head(waiters[s]) /\ w \in Range(waiters[s])
    BY <1>2, <1>4, RangeTail
  <2>2. status[w] = "BLOCKED" /\ Context(w).pc = "sema_down" /\ Context(w).arg = s
    BY <2>1 DEF IInv, WaitListExact
  <2>3. SemaUpTo(s, label)
    BY <2>1, <2>2 DEF SemaUpOK, UnblockOK
  <2>4. /\ ThreadUnblock(w)
        /\ waiters' = [waiters EXCEPT ![s] = Tail(waiters[s])]
        /\ cpu' = [cpu EXCEPT !.pc = label]
        /\ UNCHANGED <<stack_frame, all_list, idle_thread, irqVars, panicked>>
    BY <1>4, <2>1, <2>3 DEF SemaUpTo, Wakes
  <2>5. IsInjective(waiters[s])
    BY DEF IInv, WaitListExact
  <2>6. IsInjective(Tail(waiters[s])) /\ Range(Tail(waiters[s])) = Range(waiters[s]) \ {w}
    BY <1>2, <1>4, <2>1, <2>5, RangeTail
  <2>7. \A r \in AllSema : r # s => w \notin Range(waiters[r])
    BY <2>2 DEF IInv, WaitListExact
  <2>8. /\ \A r \in AllSema : IsInjective(waiters'[r])
        /\ \A r \in AllSema : Range(waiters'[r]) = Range(waiters[r]) \ {w}
    BY <1>2, <2>4, <2>6, <2>7 DEF IInv, WaitListExact
  <2>9. cpu'.sp = run /\ cpu'.pc = label
    BY <1>1, <1>2, <2>4 DEF Frame
  <2>10. /\ AtIdle(cpu') <=> run = idle_thread
         /\ ~AtBecoming(cpu) /\ ~AtBecoming(cpu')
    BY <1>3, <2>9 DEF AtIdle, AtBecoming
  <2> QED
    BY <1>1, <2>2, <2>4, <2>8, <2>9, <2>10, WakeInv
<1>5. CASE waiters[s] = <<>>
  <2>1. SemaUpTo(s, label)
    BY <1>5 DEF SemaUpOK, Wakes
  <2>2. /\ cpu' = [cpu EXCEPT !.pc = label]
        /\ UNCHANGED <<status, stack_frame, ready_list, waiters, all_list, idle_thread,
                       irqVars, panicked>>
    BY <1>5, <2>1 DEF SemaUpTo, Wakes
  <2>3. cpu'.sp = run /\ cpu'.pc = label /\ cpu'.arg = cpu.arg
    BY <1>1, <1>2, <2>2 DEF Frame
  <2>4. Alike(cpu.sp, cpu, cpu')
    BY <1>1, <1>3, <2>3 DEF Alike, AtIdle, AtBecoming
  <2> QED BY <2>2, <2>4, CpuInv
<1> QED BY <1>4, <1>5

(* thread_create() hands a blocked thread to thread_unblock(). *)
LEMMA CreateUnblockInv ==
  ASSUME IInv, TypeOK', ThreadCreateUnblock
  PROVE  IInv'
<1>1. ~was_irq_generated /\ cpu.pc = "thread_unblock"
  BY DEF ThreadCreateUnblock, At
<1>2. PICK run \in Thread : /\ run = cpu.sp /\ run = RunningThread
                            /\ Context(run) = cpu
  BY <1>1, CpuContext
<1>3. cpu \in Frame
  BY DEF IInv, TypeOK
<1>4. PICK w \in Thread : w = cpu.arg
  BY <1>1, <1>3 DEF Frame
<1>5. Unblocking(run, w)
  BY <1>1, <1>2, <1>4 DEF Unblocking
<1>6. status[w] = "BLOCKED" /\ Context(w).pc = "kernel_thread"
  BY <1>5 DEF IInv, UnblockPending
<1>7. /\ ThreadUnblock(w)
      /\ cpu' = Return("user", cpu.irq)
      /\ UNCHANGED <<stack_frame, all_list, idle_thread, irqVars, waiters, panicked>>
  BY <1>4, <1>6 DEF ThreadCreateUnblock, UnblockOK, semaVars
<1>8. cpu'.sp = run /\ cpu'.pc = "user"
  BY <1>2, <1>3, <1>7 DEF Return, Frame
<1>9. /\ AtIdle(cpu') <=> run = idle_thread
      /\ ~AtBecoming(cpu) /\ ~AtBecoming(cpu')
  BY <1>1, <1>2, <1>8 DEF AtIdle, AtBecoming, IInv, IdlePhase
<1>10. /\ \A s \in AllSema : IsInjective(waiters'[s])
       /\ \A s \in AllSema : Range(waiters'[s]) = Range(waiters[s]) \ {w}
  BY <1>6, <1>7 DEF IInv, WaitListExact
<1> QED
  BY <1>1, <1>2, <1>4, <1>6, <1>7, <1>8, <1>9, <1>10, WakeInv

(* idle() takes its place as idle_thread. *)
LEMMA IdleInitInv ==
  ASSUME IInv, TypeOK', IdleInit
  PROVE  IInv'
<1>1. ~was_irq_generated /\ cpu.pc = "idle"
  BY DEF IdleInit, At
<1>2. PICK run \in Thread : /\ run = cpu.sp /\ run = RunningThread
                            /\ Context(run) = cpu
                            /\ \A t \in Thread : t # run => Context(t) = stack_frame[t]
  BY <1>1, CpuContext
<1>3. cpu \in Frame
  BY DEF IInv, TypeOK
<1>4. \A t \in Thread : status[t] = "RUNNING" <=> t = run
  BY <1>2 DEF IInv, StacksMatch
<1>5. /\ idle_thread' = run
      /\ cpu' = [cpu EXCEPT !.pc = "idle_sema_up"]
      /\ UNCHANGED <<status, stack_frame, ready_list, all_list, irqVars, waiters, panicked>>
  BY <1>2, <1>4 DEF IdleInit, CurrentOK, semaVars
<1>6. cpu'.sp = run /\ cpu'.pc = "idle_sema_up"
  BY <1>2, <1>3, <1>5 DEF Frame
<1>7. ~was_irq_generated' /\ RunningThread' = run
  BY <1>1, <1>5, <1>6 DEF irqVars, RunningThread
<1>8. /\ Context(run)' = cpu'
      /\ \A t \in Thread : t # run => Context(t)' = Context(t)
  BY <1>2, <1>5, <1>7 DEF Context
<1>9. /\ idle_thread = NULL
      /\ \A t \in Thread : BecomingIdle(t) => t = run
      /\ \A t \in Thread : ~AtIdle(Context(t))
  <2>1. BecomingIdle(run)
    BY <1>1, <1>2 DEF BecomingIdle
  <2>2. idle_thread = NULL /\ \A t \in Thread : BecomingIdle(t) => t = run
    BY <2>1 DEF IInv, IdlePhase
  <2>3. \A t \in Thread : ~AtIdle(Context(t))
    BY <2>2, NullAssumption DEF IInv, IdlePhase, AtIdle
  <2> QED BY <2>2, <2>3
<1>10. StacksMatch'
  BY <1>4, <1>5, <1>6, <1>7, <1>8 DEF IInv, StacksMatch
<1>11. RunQueueExact'
  BY <1>4, <1>5, <1>9, NullAssumption DEF IInv, RunQueueExact
<1>12. WaitListExact'
  <2> SUFFICES ASSUME NEW s \in AllSema
               PROVE  /\ IsInjective(waiters[s])
                      /\ Range(waiters[s]) =
                        {t \in Thread : /\ status[t] = "BLOCKED"
                                        /\ Context(t)'.pc = "sema_down"
                                        /\ Context(t)'.arg = s}
    BY <1>5 DEF WaitListExact
  <2> QED BY <1>4, <1>8 DEF IInv, WaitListExact
<1>13. ContextsFit'
  BY <1>4, <1>5, <1>8 DEF IInv, ContextsFit
<1>14. UnblockPending'
  <2>1. \A u, t \in Thread : Unblocking(u, t)' <=> Unblocking(u, t)
    BY <1>1, <1>2, <1>6, <1>8 DEF Unblocking
  <2>2. \A t \in Thread : status'[t] = "BLOCKED" /\ Context(t)'.pc = "kernel_thread"
                       <=> status[t] = "BLOCKED" /\ Context(t).pc = "kernel_thread"
    BY <1>4, <1>5, <1>8
  <2> QED BY <2>1, <2>2 DEF IInv, UnblockPending
<1>15. IdlePhase'
  <2>1. \A t \in Thread : AtIdle(Context(t)') <=> t = run
    BY <1>6, <1>8, <1>9 DEF AtIdle
  <2>2. \A t \in Thread : ~BecomingIdle(t)'
    BY <1>6, <1>8, <1>9 DEF BecomingIdle
  <2>3. \A t \in Thread : Context(t)'.pc # "thread_start"
    BY <1>4, <1>6, <1>8 DEF IInv, IdlePhase
  <2>4. idle_thread' # NULL
    BY <1>5, NullAssumption
  <2> QED BY <1>5, <2>1, <2>2, <2>3, <2>4 DEF IdlePhase, AtIdle
<1>16. AllListAlive'
  BY <1>5 DEF IInv, AllListAlive
<1>17. NoPanic' /\ (in_external_interrupt = was_irq_generated)'
  BY <1>5 DEF IInv, NoPanic, irqVars
<1> QED
  BY <1>10, <1>11, <1>12, <1>13, <1>14, <1>15, <1>16, <1>17 DEF IInv

-----------------------------------------------------------------------------
(* What thread_create() does to contexts: the new thread N gets one that      *)
(* starts at kernel_thread(), and nobody else's changes but the creator's.    *)
LEMMA NewThreadEffect ==
  ASSUME IInv, ~was_irq_generated, UNCHANGED irqVars,
         NEW n \in Page, NEW function \in {"idle", "task"}, NewThread(n, function),
         NEW run \in Thread, run = cpu.sp, cpu'.sp = run
  PROVE  /\ n \in Thread /\ n # Main /\ n # run /\ n # idle_thread
         /\ status[n] = "FREE" /\ Context(n).pc = "none"
         /\ \A t \in Thread : status[t] = "RUNNING" <=> t = run
         /\ RunningThread' = run /\ ~was_irq_generated'
         /\ Context(run) = cpu /\ Context(run)' = cpu'
         /\ Context(n)'.sp = n /\ Context(n)'.pc = "kernel_thread"
         /\ Context(n)'.arg = function
         /\ \A t \in Thread : t # run /\ t # n => Context(t)' = Context(t)
         /\ all_list' = all_list \cup {n}
<1>1. n \in Thread /\ n # Main
  BY PageAssumption DEF Thread
<1>2. /\ run = RunningThread /\ Context(run) = cpu
      /\ \A t \in Thread : t # run => Context(t) = stack_frame[t]
  BY CpuContext
<1>3. \A t \in Thread : status[t] = "RUNNING" <=> t = run
  BY <1>2 DEF IInv, StacksMatch
<1>4. status[n] = "FREE" /\ all_list' = all_list \cup {n}
  BY DEF NewThread
<1>5. Context(n).pc = "none" /\ n # run
  BY <1>1, <1>3, <1>4 DEF IInv, ContextsFit
<1>6. n # idle_thread
  BY <1>1, <1>5 DEF IInv, IdlePhase
<1>7. /\ stack_frame \in [Thread -> Frame]
      /\ stack_frame' = [stack_frame EXCEPT ![n] =
           [sp |-> n, irq |-> "ON", pc |-> "kernel_thread", arg |-> function,
            old |-> "ON"]]
  BY DEF NewThread, IInv, TypeOK
<1>8. ~was_irq_generated' /\ RunningThread' = run
  BY DEF irqVars, RunningThread
<1>9. /\ Context(run)' = cpu'
      /\ \A t \in Thread : t # run => Context(t)' = stack_frame'[t]
  BY <1>8 DEF Context
<1>10. /\ Context(n)'.sp = n /\ Context(n)'.pc = "kernel_thread"
       /\ Context(n)'.arg = function
  BY <1>1, <1>5, <1>7, <1>9
<1>11. \A t \in Thread : t # run /\ t # n => Context(t)' = Context(t)
  BY <1>2, <1>7, <1>9
<1> QED
  BY <1>1, <1>2, <1>3, <1>4, <1>5, <1>6, <1>8, <1>9, <1>10, <1>11

(* thread_create(), called by a task. *)
LEMMA ThreadCreateInv ==
  ASSUME IInv, TypeOK', ThreadCreate
  PROVE  IInv'
<1>1. ~was_irq_generated /\ cpu.pc = "user"
  BY DEF ThreadCreate, At
<1>2. PICK run \in Thread : run = cpu.sp
  BY <1>1, CpuContext
<1>3. CurrentOK
  BY <1>1, CpuContext DEF CurrentOK, IInv, StacksMatch
<1>4. PICK n \in Page :
        /\ NewThread(n, "task")
        /\ status' = [status EXCEPT ![n] = "BLOCKED"]
        /\ cpu' = [cpu EXCEPT !.pc = "thread_unblock", !.arg = n]
        /\ UNCHANGED <<ready_list, idle_thread, irqVars, waiters, panicked>>
  BY <1>3 DEF ThreadCreate, semaVars
<1>5. cpu'.sp = run /\ cpu'.pc = "thread_unblock" /\ cpu'.arg = n
  BY <1>2, <1>4 DEF IInv, TypeOK, Frame
<1>6. /\ n \in Thread /\ n # Main /\ n # run /\ n # idle_thread
      /\ status[n] = "FREE" /\ Context(n).pc = "none"
      /\ \A t \in Thread : status[t] = "RUNNING" <=> t = run
      /\ RunningThread' = run /\ ~was_irq_generated'
      /\ Context(run) = cpu /\ Context(run)' = cpu'
      /\ Context(n)'.sp = n /\ Context(n)'.pc = "kernel_thread"
      /\ Context(n)'.arg = "task"
      /\ \A t \in Thread : t # run /\ t # n => Context(t)' = Context(t)
      /\ all_list' = all_list \cup {n}
  BY <1>1, <1>2, <1>4, <1>5, NewThreadEffect
<1>7. \A t \in Thread : status'[t] = IF t = n THEN "BLOCKED" ELSE status[t]
  BY <1>4, <1>6 DEF IInv, TypeOK
<1>8. StacksMatch'
  BY <1>5, <1>6, <1>7 DEF IInv, StacksMatch
<1>9. RunQueueExact'
  BY <1>4, <1>6, <1>7 DEF IInv, RunQueueExact
<1>10. WaitListExact'
  <2> SUFFICES ASSUME NEW s \in AllSema
               PROVE  /\ IsInjective(waiters[s])
                      /\ Range(waiters[s]) =
                        {t \in Thread : /\ status'[t] = "BLOCKED"
                                        /\ Context(t)'.pc = "sema_down"
                                        /\ Context(t)'.arg = s}
    BY <1>4 DEF WaitListExact
  <2> QED BY <1>6, <1>7 DEF IInv, WaitListExact
<1>11. ContextsFit'
  BY <1>6, <1>7 DEF IInv, ContextsFit
<1>12. UnblockPending'
  <2>1. \A u \in Thread : ~Unblocking(u, n)
    BY <1>6 DEF IInv, UnblockPending
  <2>2. \A u, t \in Thread : Unblocking(u, t)' <=> Unblocking(u, t) \/ (u = run /\ t = n)
    BY <1>1, <1>5, <1>6 DEF Unblocking
  <2>3. \A t \in Thread : status'[t] = "BLOCKED" /\ Context(t)'.pc = "kernel_thread"
              <=> (status[t] = "BLOCKED" /\ Context(t).pc = "kernel_thread") \/ t = n
    BY <1>6, <1>7
  <2> QED BY <2>1, <2>2, <2>3 DEF IInv, UnblockPending
<1>13. IdlePhase'
  <2>1. \A t \in Thread : AtIdle(Context(t)') <=> t = idle_thread
    BY <1>1, <1>5, <1>6 DEF IInv, IdlePhase, AtIdle
  <2>2. \A t \in Thread : BecomingIdle(t)' <=> BecomingIdle(t)
    BY <1>1, <1>5, <1>6 DEF BecomingIdle
  <2>3. \A t \in Thread : Context(t)'.pc # "thread_start" /\ Context(t).pc # "thread_start"
    BY <1>1, <1>5, <1>6 DEF IInv, IdlePhase
  <2> QED BY <1>4, <1>6, <1>7, <2>1, <2>2, <2>3 DEF IInv, IdlePhase, AtIdle
<1>14. AllListAlive'
  BY <1>6, <1>7 DEF IInv, AllListAlive
<1>15. NoPanic' /\ (in_external_interrupt = was_irq_generated)'
  BY <1>4 DEF IInv, NoPanic, irqVars
<1> QED
  BY <1>8, <1>9, <1>10, <1>11, <1>12, <1>13, <1>14, <1>15 DEF IInv

(* thread_start() creates the thread that will become idle_thread. *)
LEMMA ThreadStartInv ==
  ASSUME IInv, TypeOK', ThreadStart
  PROVE  IInv'
<1>1. ~was_irq_generated /\ cpu.pc = "thread_start"
  BY DEF ThreadStart, At
<1>2. PICK run \in Thread : run = cpu.sp
  BY <1>1, CpuContext
<1>3. CurrentOK
  BY <1>1, CpuContext DEF CurrentOK, IInv, StacksMatch
<1>4. PICK n \in Page :
        /\ NewThread(n, "idle")
        /\ ready_list' = Append(ready_list, n)
        /\ status' = [status EXCEPT ![n] = "READY"]
        /\ cpu' = Return("thread_start_wait", "ON")
        /\ UNCHANGED <<idle_thread, irqVars, waiters, panicked>>
  BY <1>3 DEF ThreadStart, semaVars
<1>5. cpu'.sp = run /\ cpu'.pc = "thread_start_wait"
  BY <1>2, <1>4 DEF Return, IInv, TypeOK, Frame
<1>6. /\ n \in Thread /\ n # Main /\ n # run /\ n # idle_thread
      /\ status[n] = "FREE" /\ Context(n).pc = "none"
      /\ \A t \in Thread : status[t] = "RUNNING" <=> t = run
      /\ RunningThread' = run /\ ~was_irq_generated'
      /\ Context(run) = cpu /\ Context(run)' = cpu'
      /\ Context(n)'.sp = n /\ Context(n)'.pc = "kernel_thread"
      /\ Context(n)'.arg = "idle"
      /\ \A t \in Thread : t # run /\ t # n => Context(t)' = Context(t)
      /\ all_list' = all_list \cup {n}
  BY <1>1, <1>2, <1>4, <1>5, NewThreadEffect
<1>7. \A t \in Thread : status'[t] = IF t = n THEN "READY" ELSE status[t]
  BY <1>4, <1>6 DEF IInv, TypeOK
<1>8. \A t \in Thread : t # run => status[t] = "FREE" /\ Context(t).pc = "none"
  BY <1>1, <1>6 DEF IInv, IdlePhase, ContextsFit
<1>9. idle_thread = NULL
  BY <1>1, <1>6, <1>8 DEF IInv, IdlePhase, TypeOK
<1>10. StacksMatch'
  BY <1>5, <1>6, <1>7 DEF IInv, StacksMatch
<1>11. RunQueueExact'
  <2>1. ready_list \in Seq(Thread) /\ IsInjective(ready_list)
        /\ Range(ready_list) = {t \in Thread : status[t] = "READY"} \ {idle_thread}
    BY DEF IInv, TypeOK, RunQueueExact
  <2>2. IsInjective(ready_list') /\ Range(ready_list') = Range(ready_list) \cup {n}
    BY <1>4, <1>6, <2>1, RangeAppend
  <2> QED BY <1>4, <1>6, <1>7, <2>1, <2>2 DEF RunQueueExact
<1>12. WaitListExact'
  <2> SUFFICES ASSUME NEW s \in AllSema
               PROVE  /\ IsInjective(waiters[s])
                      /\ Range(waiters[s]) =
                        {t \in Thread : /\ status'[t] = "BLOCKED"
                                        /\ Context(t)'.pc = "sema_down"
                                        /\ Context(t)'.arg = s}
    BY <1>4 DEF WaitListExact
  <2> QED BY <1>6, <1>7, <1>8 DEF IInv, WaitListExact
<1>13. ContextsFit'
  BY <1>6, <1>7 DEF IInv, ContextsFit
<1>14. UnblockPending'
  <2>1. \A u, t \in Thread : ~Unblocking(u, t)'
    BY <1>5, <1>6, <1>8 DEF Unblocking
  <2>2. \A t \in Thread : status'[t] # "BLOCKED"
    BY <1>6, <1>7, <1>8
  <2> QED BY <2>1, <2>2 DEF UnblockPending
<1>15. IdlePhase'
  <2>1. \A t \in Thread : t # run /\ t # n => Context(t)'.pc = "none"
    BY <1>6, <1>8
  <2>2. \A t \in Thread : ~AtIdle(Context(t)') /\ t # idle_thread
    BY <1>5, <1>6, <1>9, <2>1, NullAssumption DEF AtIdle
  <2>3. \A t \in Thread : BecomingIdle(t)' <=> t = n
    BY <1>5, <1>6, <2>1 DEF BecomingIdle
  <2>4. \A t \in Thread : Context(t)'.pc # "thread_start"
    BY <1>5, <1>6, <2>1
  <2> QED BY <1>4, <1>6, <1>7, <1>9, <2>2, <2>3, <2>4 DEF IdlePhase, AtIdle
<1>16. AllListAlive'
  BY <1>6, <1>7 DEF IInv, AllListAlive
<1>17. NoPanic' /\ (in_external_interrupt = was_irq_generated)'
  BY <1>4 DEF IInv, NoPanic, irqVars
<1> QED
  BY <1>10, <1>11, <1>12, <1>13, <1>14, <1>15, <1>16, <1>17 DEF IInv

-----------------------------------------------------------------------------
(* What schedule() finds on the run queue when the caller blocks or exits ... *)
LEMMA ReadyIsQueue ==
  ASSUME IInv, NEW run \in Thread, run = RunningThread,
         NEW left \in {"BLOCKED", "DYING"}
  PROVE  /\ ready_list \in Seq(Thread) /\ IsInjective(ready_list)
         /\ Range(ready_list) = Ready(run, left)
<1>1. \A t \in Thread : status[t] = "RUNNING" <=> t = run
  BY DEF IInv, StacksMatch
<1>2. ready_list \in Seq(Thread)
  BY DEF IInv, TypeOK
<1> QED BY <1>1, <1>2 DEF IInv, RunQueueExact, Ready

(* ... and when it yields. *)
LEMMA YieldIsQueue ==
  ASSUME IInv, NEW run \in Thread, run = RunningThread
  PROVE  /\ YieldQueue(run) \in Seq(Thread) /\ IsInjective(YieldQueue(run))
         /\ Range(YieldQueue(run)) = Ready(run, "READY")
         /\ YieldQueue(run) = <<>> => run = idle_thread
<1>1. \A t \in Thread : status[t] = "RUNNING" <=> t = run
  BY DEF IInv, StacksMatch
<1>2. /\ ready_list \in Seq(Thread) /\ IsInjective(ready_list)
      /\ Range(ready_list) = {t \in Thread : status[t] = "READY"} \ {idle_thread}
  BY DEF IInv, TypeOK, RunQueueExact
<1>3. CASE run = idle_thread
  <2>1. YieldQueue(run) = ready_list
    BY <1>3 DEF YieldQueue
  <2> QED BY <1>1, <1>2, <1>3, <2>1 DEF Ready
<1>4. CASE run # idle_thread
  <2>1. YieldQueue(run) = Append(ready_list, run)
    BY <1>4 DEF YieldQueue
  <2>2. Append(ready_list, run) # <<>> /\ Append(ready_list, run) \in Seq(Thread)
    BY <1>2, AppendProperties
  <2>3. /\ Range(Append(ready_list, run)) = Range(ready_list) \cup {run}
        /\ IsInjective(Append(ready_list, run))
    BY <1>1, <1>2, RangeAppend
  <2> QED BY <1>1, <1>2, <1>4, <2>1, <2>2, <2>3 DEF Ready
<1> QED BY <1>3, <1>4

(* The frame that Suspended() makes. *)
LEMMA SuspendedFields ==
  ASSUME TypeOK, NEW label, NEW a, NEW level
  PROVE  /\ Suspended(label, a, level).sp = cpu.sp
         /\ Suspended(label, a, level).pc = label
         /\ Suspended(label, a, level).arg = a
BY DEF TypeOK, Frame, Suspended

(* thread_exit() finds a thread to run, frees the page of the thread that    *)
(* left, and keeps main's.                                                   *)
LEMMA ThreadExitInv ==
  ASSUME IInv, TypeOK', ThreadExit
  PROVE  IInv'
<1>1. ~was_irq_generated /\ cpu.pc = "user" /\ TypeOK
  BY DEF ThreadExit, At, IInv
<1>2. PICK run \in Thread : /\ run = cpu.sp /\ run = RunningThread
                            /\ Context(run) = cpu
  BY <1>1, CpuContext
<1>3. /\ ready_list \in Seq(Thread) /\ IsInjective(ready_list)
      /\ Range(ready_list) = Ready(run, "DYING")
  BY <1>2, ReadyIsQueue
<1>4. ScheduleOK([status EXCEPT ![run] = "DYING"], ready_list)
  BY <1>1, <1>2, <1>3, Schedulable DEF AtBecoming
<1>5. status[run] = "RUNNING" /\ run \in all_list /\ ~in_external_interrupt
  BY <1>1, <1>2 DEF IInv, StacksMatch, AllListAlive
<1>6. PICK f \in Frame : f = Suspended("thread_exit", NULL, "ON")
  BY <1>1, SuspendedType DEF PC, Level
<1>7. f.sp = run /\ f.pc = "thread_exit"
  BY <1>1, <1>2, <1>6, SuspendedFields
<1>8. /\ all_list' = all_list \ {run}
      /\ Schedule([status EXCEPT ![run] = "DYING"], ready_list, f)
      /\ UNCHANGED <<idle_thread, irqVars, waiters, panicked>>
  BY <1>2, <1>4, <1>5, <1>6 DEF ThreadExit, CurrentOK, semaVars
<1>9. AtIdle(f) <=> run = idle_thread
  BY <1>1, <1>2, <1>7 DEF AtIdle, IInv, IdlePhase
<1>10. /\ \A s \in AllSema : IsInjective(waiters'[s])
       /\ \A s \in AllSema : Range(waiters'[s]) =
           {t \in Thread : \/ t \in Range(waiters[s])
                           \/ /\ t = run /\ "DYING" = "BLOCKED"
                              /\ f.pc = "sema_down" /\ f.arg = s}
  BY <1>8 DEF IInv, WaitListExact
<1> QED
  BY <1>1, <1>2, <1>3, <1>7, <1>8, <1>9, <1>10, ScheduleInv

(* thread_yield(), called by a task. *)
LEMMA ThreadYieldInv ==
  ASSUME IInv, TypeOK', ThreadYield
  PROVE  IInv'
<1>1. ~was_irq_generated /\ cpu.pc = "user" /\ TypeOK
  BY DEF ThreadYield, At, IInv
<1>2. PICK run \in Thread : /\ run = cpu.sp /\ run = RunningThread
                            /\ Context(run) = cpu
  BY <1>1, CpuContext
<1>3. PICK rl \in Seq(Thread) : /\ rl = YieldQueue(run) /\ IsInjective(rl)
                                /\ Range(rl) = Ready(run, "READY")
  BY <1>2, YieldIsQueue
<1>4. ScheduleOK([status EXCEPT ![run] = "READY"], rl)
  BY <1>1, <1>2, <1>3, Schedulable DEF AtBecoming
<1>5. status[run] = "RUNNING" /\ ~in_external_interrupt
  BY <1>1, <1>2 DEF IInv, StacksMatch
<1>6. PICK f \in Frame : f = Suspended("thread_yield", NULL, cpu.irq)
  BY <1>1, SuspendedType DEF PC, TypeOK, Frame
<1>7. f.sp = run /\ f.pc = "thread_yield"
  BY <1>1, <1>2, <1>6, SuspendedFields
<1>8. /\ Schedule([status EXCEPT ![run] = "READY"], rl, f)
      /\ UNCHANGED <<all_list, idle_thread, irqVars, waiters, panicked>>
  BY <1>2, <1>3, <1>4, <1>5, <1>6 DEF ThreadYield, CurrentOK, semaVars
<1>9. AtIdle(f) <=> run = idle_thread
  BY <1>1, <1>2, <1>7 DEF AtIdle, IInv, IdlePhase
<1>10. /\ \A s \in AllSema : IsInjective(waiters'[s])
       /\ \A s \in AllSema : Range(waiters'[s]) =
           {t \in Thread : \/ t \in Range(waiters[s])
                           \/ /\ t = run /\ "READY" = "BLOCKED"
                              /\ f.pc = "sema_down" /\ f.arg = s}
  BY <1>8 DEF IInv, WaitListExact
<1> QED
  BY <1>1, <1>2, <1>3, <1>7, <1>8, <1>9, <1>10, ScheduleInv

(* idle() blocks; if nobody is ready, it is itself the next to run. *)
LEMMA IdleBlockInv ==
  ASSUME IInv, TypeOK', IdleBlock
  PROVE  IInv'
<1>1. ~was_irq_generated /\ cpu.pc = "idle_loop" /\ TypeOK
  BY DEF IdleBlock, At, IInv
<1>2. PICK run \in Thread : /\ run = cpu.sp /\ run = RunningThread
                            /\ Context(run) = cpu
  BY <1>1, CpuContext
<1>3. /\ ready_list \in Seq(Thread) /\ IsInjective(ready_list)
      /\ Range(ready_list) = Ready(run, "BLOCKED")
  BY <1>2, ReadyIsQueue
<1>4. ScheduleOK([status EXCEPT ![run] = "BLOCKED"], ready_list)
  BY <1>1, <1>2, <1>3, Schedulable DEF AtBecoming
<1>5. status[run] = "RUNNING" /\ ~in_external_interrupt
  BY <1>1, <1>2 DEF IInv, StacksMatch
<1>6. PICK f \in Frame : f = Suspended("idle_blocked", NULL, cpu.irq)
  BY <1>1, SuspendedType DEF PC, TypeOK, Frame
<1>7. f.sp = run /\ f.pc = "idle_blocked"
  BY <1>1, <1>2, <1>6, SuspendedFields
<1>8. /\ Schedule([status EXCEPT ![run] = "BLOCKED"], ready_list, f)
      /\ UNCHANGED <<all_list, idle_thread, irqVars, waiters, panicked>>
  BY <1>2, <1>4, <1>5, <1>6 DEF IdleBlock, CurrentOK, semaVars
<1>9. AtIdle(f) <=> run = idle_thread
  BY <1>1, <1>2, <1>7 DEF AtIdle, IInv, IdlePhase
<1>10. /\ \A s \in AllSema : IsInjective(waiters'[s])
       /\ \A s \in AllSema : Range(waiters'[s]) =
           {t \in Thread : \/ t \in Range(waiters[s])
                           \/ /\ t = run /\ "BLOCKED" = "BLOCKED"
                              /\ f.pc = "sema_down" /\ f.arg = s}
  BY <1>7, <1>8 DEF IInv, WaitListExact
<1> QED
  BY <1>1, <1>2, <1>3, <1>7, <1>8, <1>9, <1>10, ScheduleInv

(* A pass of sema_down(): a unit is taken, or the caller joins the wait list *)
(* and blocks.                                                               *)
LEMMA SemaDownPassInv ==
  ASSUME IInv, TypeOK', ~was_irq_generated,
         cpu.pc \in {"user", "thread_start_wait", "sema_down"},
         NEW s \in AllSema, NEW level \in Level,
         SemaDownPass(s, "sema_down", "user", level)
  PROVE  IInv'
<1>1. TypeOK /\ cpu \in Frame /\ ~in_external_interrupt
  BY DEF IInv, TypeOK
<1>2. PICK run \in Thread : /\ run = cpu.sp /\ run = RunningThread
                            /\ Context(run) = cpu
  BY CpuContext
<1>3. run # idle_thread
  BY <1>2 DEF IInv, IdlePhase
<1>4. CASE value[s] > 0
  <2>1. /\ cpu' = Return("user", level)
        /\ UNCHANGED <<status, stack_frame, ready_list, waiters, all_list,
                       idle_thread, irqVars, panicked>>
    BY <1>1, <1>4 DEF SemaDownPass, threadVars
  <2>2. cpu'.sp = run /\ cpu'.pc = "user"
    BY <1>1, <1>2, <2>1 DEF Return, Frame
  <2>3. Alike(cpu.sp, cpu, cpu')
    BY <1>2, <1>3, <2>2 DEF Alike, AtIdle, AtBecoming
  <2> QED BY <2>1, <2>3, CpuInv
<1>5. CASE ~(value[s] > 0)
  <2>1. /\ ready_list \in Seq(Thread) /\ IsInjective(ready_list)
        /\ Range(ready_list) = Ready(run, "BLOCKED")
    BY <1>2, ReadyIsQueue
  <2>2. ScheduleOK([status EXCEPT ![run] = "BLOCKED"], ready_list)
    BY <1>2, <2>1, Schedulable DEF AtBecoming
  <2>3. status[run] = "RUNNING"
    BY <1>2 DEF IInv, StacksMatch
  <2>4. PICK f \in Frame : f = Suspended("sema_down", s, level)
    BY <1>1, SuspendedType DEF PC
  <2>5. f.sp = run /\ f.pc = "sema_down" /\ f.arg = s
    BY <1>1, <1>2, <2>4, SuspendedFields
  <2>6. /\ waiters' = [waiters EXCEPT ![s] = Append(waiters[s], run)]
        /\ Schedule([status EXCEPT ![run] = "BLOCKED"], ready_list, f)
        /\ UNCHANGED <<all_list, idle_thread, irqVars, panicked>>
    BY <1>1, <1>2, <1>5, <2>2, <2>3, <2>4 DEF SemaDownPass, CurrentOK
  <2>7. AtIdle(f) <=> run = idle_thread
    BY <1>3, <2>5 DEF AtIdle
  <2>8. /\ waiters \in [AllSema -> Seq(Thread)]
        /\ \A r \in AllSema : IsInjective(waiters[r]) /\ run \notin Range(waiters[r])
    BY <1>1, <2>3 DEF IInv, TypeOK, WaitListExact
  <2>9. /\ Range(Append(waiters[s], run)) = Range(waiters[s]) \cup {run}
        /\ IsInjective(Append(waiters[s], run))
        /\ Range(waiters[s]) \subseteq Thread
    BY <2>8, RangeAppend DEF IInv, WaitListExact
  <2>10. \A r \in AllSema :
           waiters'[r] = IF r = s THEN Append(waiters[s], run) ELSE waiters[r]
    BY <2>6, <2>8
  <2>11. /\ \A r \in AllSema : IsInjective(waiters'[r])
         /\ \A r \in AllSema : Range(waiters'[r]) =
           {t \in Thread : \/ t \in Range(waiters[r])
                           \/ /\ t = run /\ "BLOCKED" = "BLOCKED"
                              /\ f.pc = "sema_down" /\ f.arg = r}
    BY <2>5, <2>8, <2>9, <2>10 DEF IInv, WaitListExact
  <2> QED
    BY <1>2, <2>1, <2>5, <2>6, <2>7, <2>11, ScheduleInv
<1> QED BY <1>4, <1>5

(* Code that only moves the running thread on. *)
LEMMA RegisterStepInv ==
  ASSUME IInv, TypeOK',
         \/ ThreadCreateFails \/ KernelThread \/ ThreadYieldReturn \/ IdleResume
         \/ \E level \in TaskLevel : InterruptsSetLevel(level)
         \/ \E s \in Sema : SemaTryDown(s)
  PROVE  IInv'
<1>1. ~was_irq_generated /\ cpu \in Frame
  BY DEF ThreadCreateFails, KernelThread, ThreadYieldReturn, IdleResume,
         InterruptsSetLevel, SemaTryDown, At, IInv, TypeOK
<1>2. PICK run \in Thread : /\ run = cpu.sp /\ run = RunningThread
                            /\ Context(run) = cpu
  BY <1>1, CpuContext
<1>3. AtIdle(cpu) <=> run = idle_thread
  BY <1>2 DEF AtIdle, IInv, IdlePhase
<1>4. CurrentOK
  BY <1>2 DEF CurrentOK, IInv, StacksMatch
<1>5. UNCHANGED <<status, stack_frame, ready_list, waiters, all_list,
                  idle_thread, irqVars, panicked>>
  BY <1>4 DEF ThreadCreateFails, KernelThread, ThreadYieldReturn, IdleResume,
         InterruptsSetLevel, SemaTryDown, threadVars, semaVars
<1>6. CASE ThreadCreateFails \/ (\E level \in TaskLevel : InterruptsSetLevel(level))
           \/ (\E s \in Sema : SemaTryDown(s))
  <2>1. cpu'.sp = cpu.sp /\ cpu'.pc = cpu.pc /\ cpu'.arg = cpu.arg
    BY <1>1, <1>4, <1>6 DEF ThreadCreateFails, InterruptsSetLevel, SemaTryDown, Frame
  <2>2. Alike(cpu.sp, cpu, cpu')
    BY <1>2, <1>3, <2>1 DEF Alike, AtIdle, AtBecoming
  <2> QED BY <1>1, <1>5, <2>2, CpuInv
<1>7. CASE KernelThread
  <2>1. /\ cpu.pc = "kernel_thread" /\ cpu'.sp = cpu.sp
        /\ cpu'.pc = IF cpu.arg = "idle" THEN "idle" ELSE "user"
    BY <1>1, <1>7 DEF KernelThread, At, Return, Frame
  <2>2. Alike(cpu.sp, cpu, cpu')
    BY <1>2, <1>3, <2>1 DEF Alike, AtIdle, AtBecoming
  <2> QED BY <1>1, <1>5, <2>2, CpuInv
<1>8. CASE ThreadYieldReturn \/ IdleResume
  <2>1. /\ cpu'.sp = cpu.sp
        /\ \/ cpu.pc = "thread_yield" /\ cpu'.pc = "user"
           \/ cpu.pc = "idle_blocked" /\ cpu'.pc = "idle_loop"
    BY <1>1, <1>8 DEF ThreadYieldReturn, IdleResume, At, Return, Frame
  <2>2. Alike(cpu.sp, cpu, cpu')
    BY <1>2, <1>3, <2>1 DEF Alike, AtIdle, AtBecoming
  <2> QED BY <1>1, <1>5, <2>2, CpuInv
<1> QED BY <1>6, <1>7, <1>8

-----------------------------------------------------------------------------
(* Registers: during an IRQ the interrupted thread's are in irq_frame. *)
LEMMA IrqContext ==
  ASSUME IInv, was_irq_generated
  PROVE  /\ RunningThread = irq_frame.sp /\ irq_frame.sp \in Thread
         /\ irq_frame \in Frame /\ Context(irq_frame.sp) = irq_frame
         /\ \A t \in Thread : t # irq_frame.sp => Context(t) = stack_frame[t]
BY DEF IInv, TypeOK, Frame, RunningThread, Context

(* A timer IRQ that does not switch threads gives the interrupted thread its *)
(* registers back.                                                           *)
LEMMA IrqLocalInv ==
  ASSUME IInv, TypeOK', IrqDispatch \/ IrqReturn
  PROVE  IInv'
<1>1. CASE IrqDispatch
  <2>1. ~was_irq_generated /\ cpu \in Frame /\ ~in_external_interrupt
    BY <1>1 DEF IrqDispatch, IInv, TypeOK
  <2>2. PICK run \in Thread : /\ run = cpu.sp /\ run = RunningThread
                              /\ Context(run) = cpu
                              /\ \A t \in Thread : t # run => Context(t) = stack_frame[t]
    BY <2>1, CpuContext
  <2>3. PICK f \in Frame : f = cpu
    BY <2>1
  <2>4. status[run] = "RUNNING"
    BY <2>2 DEF IInv, StacksMatch
  <2>5. /\ irq_frame' = f /\ was_irq_generated' = TRUE /\ in_external_interrupt' = TRUE
        /\ UNCHANGED <<status, stack_frame, ready_list, all_list, idle_thread,
                       waiters, panicked>>
    BY <1>1, <2>1, <2>2, <2>3, <2>4 DEF IrqDispatch, semaVars
  <2>6. RunningThread' = run
    BY <2>2, <2>3, <2>5 DEF RunningThread
  <2>7. Context(run)' = f
    BY <2>5, <2>6 DEF Context
  <2>8. \A t \in Thread \ {run} : Context(t)' = Context(t)
    BY <2>2, <2>5, <2>6 DEF Context
  <2>9. Alike(run, Context(run), f)
    BY <2>2, <2>3 DEF Alike, AtIdle, IInv, IdlePhase
  <2> QED BY <2>2, <2>5, <2>6, <2>7, <2>8, <2>9, LocalInv
<1>2. CASE IrqReturn
  <2>1. was_irq_generated
    BY <1>2 DEF IrqReturn
  <2>2. PICK run \in Thread : /\ run = irq_frame.sp /\ run = RunningThread
                              /\ Context(run) = irq_frame
                              /\ \A t \in Thread : t # run => Context(t) = stack_frame[t]
    BY <2>1, IrqContext
  <2>3. PICK f \in Frame : f = irq_frame
    BY <2>1, IrqContext
  <2>4. /\ cpu' = f /\ was_irq_generated' = FALSE /\ in_external_interrupt' = FALSE
        /\ UNCHANGED <<status, stack_frame, ready_list, all_list, idle_thread,
                       waiters, panicked>>
    BY <1>2, <2>3 DEF IrqReturn, threadVars, semaVars
  <2>5. RunningThread' = run
    BY <2>2, <2>3, <2>4 DEF RunningThread
  <2>6. Context(run)' = f
    BY <2>4, <2>5 DEF Context
  <2>7. \A t \in Thread \ {run} : Context(t)' = Context(t)
    BY <2>2, <2>4, <2>5 DEF Context
  <2>8. Alike(run, Context(run), f)
    BY <2>2, <2>3 DEF Alike, AtIdle, IInv, IdlePhase
  <2> QED BY <2>2, <2>4, <2>5, <2>6, <2>7, <2>8, LocalInv
<1> QED BY <1>1, <1>2

(* A timer IRQ that ends the time slice is a switch that saves the           *)
(* interrupted context, wherever in the code the thread was.                 *)
LEMMA IrqYieldSwitched ==
  ASSUME IInv, IrqYield
  PROVE  \E run \in Thread : \E f \in Frame, next \in Thread :
           /\ run = RunningThread /\ f = Context(run)
           /\ next = NextThread(YieldQueue(run)) /\ ready_list' = RestOf(YieldQueue(run))
           /\ status[next] = "READY" \/ next = idle_thread \/ next = run
           /\ IsInjective(ready_list') /\ Range(ready_list') = Ready(run, "READY") \ {next}
           /\ Switched(run, next, "READY", f)
           /\ was_irq_generated' = FALSE /\ in_external_interrupt' = FALSE
           /\ UNCHANGED <<all_list, idle_thread, waiters, value, panicked>>
<1>1. was_irq_generated /\ TypeOK
  BY DEF IrqYield, IInv
<1>2. PICK run \in Thread : /\ run = irq_frame.sp /\ run = RunningThread
                            /\ Context(run) = irq_frame
                            /\ \A t \in Thread : t # run => Context(t) = stack_frame[t]
  BY <1>1, IrqContext
<1>3. PICK f \in Frame : f = irq_frame
  BY <1>1, IrqContext
<1>4. PICK rl \in Seq(Thread) : /\ rl = YieldQueue(run) /\ IsInjective(rl)
                                /\ Range(rl) = Ready(run, "READY")
                                /\ rl = <<>> => run = idle_thread
  BY <1>2, YieldIsQueue
<1>5. rl = <<>> => ~AtBecoming(Context(run)) /\ Context(run).pc # "thread_start"
  BY <1>4 DEF AtBecoming, IInv, IdlePhase
<1>6. /\ NextThread(rl) \in Thread
      /\ \/ status[NextThread(rl)] = "READY"
         \/ NextThread(rl) = idle_thread
         \/ NextThread(rl) = run /\ "READY" = "READY"
      /\ ScheduleOK([status EXCEPT ![run] = "READY"], rl)
      /\ IsInjective(RestOf(rl))
      /\ Range(RestOf(rl)) = Ready(run, "READY") \ {NextThread(rl)}
  BY <1>2, <1>4, <1>5, Schedulable
<1>7. PICK next \in Thread :
        /\ next = NextThread(rl)
        /\ status[next] = "READY" \/ next = idle_thread \/ next = run
        /\ Range(RestOf(rl)) = Ready(run, "READY") \ {next}
  BY <1>6
<1> DEFINE st == [status EXCEPT ![run] = "READY"]
<1>8. \A t \in Thread : status[t] = "RUNNING" <=> t = run
  BY <1>2 DEF IInv, StacksMatch
<1>9. /\ ready_list' = RestOf(rl)
      /\ status' = ScheduleTailStatus(st, run, next)
      /\ stack_frame' = ScheduleTailFrames(st, run, next, f)
      /\ cpu' = IF run # next THEN ScheduleTailFrames(st, run, next, f)[next] ELSE f
      /\ in_external_interrupt' = FALSE /\ was_irq_generated' = FALSE
      /\ UNCHANGED <<all_list, idle_thread, waiters, value, panicked>>
  BY <1>2, <1>3, <1>4, <1>6, <1>7, <1>8 DEF IrqYield, CurrentOK, semaVars
<1>10. LeftStatus(run, "READY") = "READY" /\ LeftFrame(run, "READY", f) = f
  BY DEF LeftStatus, LeftFrame
<1>11. ScheduleTailStatus(st, run, next) =
         [t \in Thread |-> IF t = next THEN "RUNNING" ELSE IF t = run THEN "READY"
                           ELSE status[t]]
  BY <1>1, <1>10, TailEffect
<1>12. ScheduleTailFrames(st, run, next, f) = [stack_frame EXCEPT ![run] = f]
  BY <1>1, <1>10, TailEffect
<1>13. \A t \in Thread : [stack_frame EXCEPT ![run] = f][t] =
                           IF t = run THEN f ELSE Context(t)
  BY <1>1, <1>2 DEF TypeOK
<1>14. cpu' = (IF next = run THEN f ELSE Context(next)) /\ cpu'.sp = next
  BY <1>2, <1>3, <1>9, <1>12, <1>13 DEF IInv, StacksMatch
<1>15. RunningThread' = next
  BY <1>9, <1>14 DEF RunningThread
<1>16. \A t \in Thread : Context(t)' = IF t = run THEN f ELSE Context(t)
  BY <1>9, <1>12, <1>13, <1>14, <1>15 DEF Context
<1>17. Switched(run, next, "READY", f)
  BY <1>9, <1>11, <1>15, <1>16 DEF Switched
<1> QED BY <1>2, <1>3, <1>4, <1>6, <1>7, <1>9, <1>17

LEMMA IrqYieldInv ==
  ASSUME IInv, TypeOK', IrqYield
  PROVE  IInv'
<1>1. PICK run \in Thread, f \in Frame, next \in Thread :
        /\ run = RunningThread /\ f = Context(run)
        /\ status[next] = "READY" \/ next = idle_thread \/ next = run
        /\ IsInjective(ready_list') /\ Range(ready_list') = Ready(run, "READY") \ {next}
        /\ Switched(run, next, "READY", f)
        /\ was_irq_generated' = FALSE /\ in_external_interrupt' = FALSE
        /\ UNCHANGED <<all_list, idle_thread, waiters, panicked>>
  BY IrqYieldSwitched
<1>2. /\ Fits(run, "READY", f) /\ "READY" \in Status \ {"RUNNING"}
      /\ Alike(run, Context(run), f)
  BY <1>1 DEF Fits, Status, Alike, AtIdle, IInv, IdlePhase, StacksMatch
<1>3. f.pc = "thread_start" => next = run
  <2> SUFFICES ASSUME f.pc = "thread_start" PROVE next = run
    OBVIOUS
  <2>1. \A t \in Thread \ {run} : status[t] = "FREE" /\ Context(t).pc = "none"
    BY <1>1 DEF IInv, IdlePhase, ContextsFit
  <2> QED BY <1>1, <2>1 DEF IInv, IdlePhase
<1>4. Range(ready_list') =
        {t \in Thread : /\ t # next /\ t # idle_thread
                        /\ IF t = run THEN "READY" = "READY" ELSE status[t] = "READY"}
  BY <1>1 DEF Ready
<1>5. /\ \A s \in AllSema : IsInjective(waiters'[s])
      /\ \A s \in AllSema : Range(waiters'[s]) =
           {t \in Thread : \/ t \in Range(waiters[s])
                           \/ /\ t = run /\ run # next /\ "READY" = "BLOCKED"
                              /\ f.pc = "sema_down" /\ f.arg = s}
  BY <1>1 DEF IInv, WaitListExact
<1>6. /\ all_list' = all_list /\ UNCHANGED <<idle_thread, panicked>>
      /\ in_external_interrupt' = was_irq_generated'
  BY <1>1
<1> QED
  BY <1>1, <1>2, <1>3, <1>4, <1>5, <1>6, SwitchInv

-----------------------------------------------------------------------------
(* The invariant holds when init() calls thread_start(). *)
LEMMA InitInv == ASSUME Init, TypeOK PROVE IInv
<1>1. /\ ~was_irq_generated /\ ~in_external_interrupt /\ ~panicked
      /\ RunningThread = Main /\ Main \in Thread
  BY DEF Init, RunningThread, Thread
<1>2. /\ Context(Main).sp = Main /\ Context(Main).pc = "thread_start"
      /\ \A t \in Thread \ {Main} : Context(t).sp = t /\ Context(t).pc = "none"
  BY <1>1 DEF Init, Context, NoFrame
<1>3. \A t \in Thread : status[t] = IF t = Main THEN "RUNNING" ELSE "FREE"
  BY DEF Init
<1>4. StacksMatch /\ ContextsFit
  BY <1>1, <1>2, <1>3 DEF StacksMatch, ContextsFit
<1>5. RunQueueExact
  BY <1>3, RangeEmpty DEF Init, RunQueueExact
<1>6. WaitListExact
  BY <1>3, RangeEmpty DEF Init, WaitListExact
<1>7. UnblockPending
  BY <1>2, <1>3 DEF UnblockPending, Unblocking
<1>8. IdlePhase
  <2>1. idle_thread = NULL /\ \A t \in Thread : t # idle_thread
    BY NullAssumption DEF Init
  <2> QED BY <1>1, <1>2, <1>3, <2>1 DEF IdlePhase, BecomingIdle
<1>9. AllListAlive
  BY <1>1, <1>3 DEF Init, AllListAlive
<1>10. NoPanic /\ in_external_interrupt = was_irq_generated
  BY DEF Init, NoPanic
<1> QED
  BY <1>1, <1>4, <1>5, <1>6, <1>7, <1>8, <1>9, <1>10 DEF IInv

LEMMA TaskStepInv == ASSUME IInv, TaskStep PROVE IInv'
<1>1. TypeOK'
  BY TaskStepType DEF IInv
<1>2. cpu.irq \in Level
  BY DEF IInv, TypeOK, Frame
<1>3. ASSUME NEW s \in Sema, SemaDown(s) PROVE IInv'
  <2>1. /\ ~was_irq_generated /\ cpu.pc = "user" /\ s \in AllSema
        /\ SemaDownPass(s, "sema_down", "user", cpu.irq)
    BY <1>3 DEF SemaDown, At, AllSema
  <2> QED BY <1>1, <1>2, <2>1, SemaDownPassInv
<1>4. ASSUME NEW s \in Sema, SemaUp(s) PROVE IInv'
  <2>1. /\ ~was_irq_generated /\ cpu.pc = "user" /\ s \in AllSema
        /\ IF SemaUpOK(s) THEN SemaUpTo(s, "user") ELSE Panic
    BY <1>4 DEF SemaUp, At, AllSema
  <2> QED BY <1>1, <2>1, SemaUpInv
<1> QED
  BY <1>1, <1>3, <1>4, ThreadCreateInv, ThreadExitInv, ThreadYieldInv, RegisterStepInv
  DEF TaskStep

LEMMA KernelStepInv == ASSUME IInv, KernelStep PROVE IInv'
<1>1. TypeOK'
  BY KernelStepType DEF IInv
<1>2. cpu \in Frame /\ cpu.irq \in Level /\ cpu.old \in Level
  BY DEF IInv, TypeOK, Frame
<1>3. CASE ThreadStartWait
  <2>1. /\ ~was_irq_generated /\ cpu.pc = "thread_start_wait" /\ IdleStarted \in AllSema
        /\ SemaDownPass(IdleStarted, "sema_down", "user", cpu.irq)
    BY <1>3 DEF ThreadStartWait, At, AllSema
  <2> QED BY <1>1, <1>2, <2>1, SemaDownPassInv
<1>4. CASE SemaDownRetry
  <2>1. /\ ~was_irq_generated /\ cpu.pc = "sema_down" /\ cpu.arg \in AllSema
        /\ SemaDownPass(cpu.arg, "sema_down", "user", cpu.old)
    BY <1>2, <1>4 DEF SemaDownRetry, At, Frame
  <2> QED BY <1>1, <1>2, <2>1, SemaDownPassInv
<1>5. CASE IdleSemaUp
  <2>1. /\ ~was_irq_generated /\ cpu.pc = "idle_sema_up" /\ IdleStarted \in AllSema
        /\ IF SemaUpOK(IdleStarted) THEN SemaUpTo(IdleStarted, "idle_loop") ELSE Panic
    BY <1>5 DEF IdleSemaUp, At, AllSema
  <2> QED BY <1>1, <2>1, SemaUpInv
<1> QED
  BY <1>1, <1>3, <1>4, <1>5, ThreadStartInv, CreateUnblockInv, IdleInitInv, IdleBlockInv,
     RegisterStepInv
  DEF KernelStep

LEMMA IrqStepInv == ASSUME IInv, IrqDispatch \/ IrqEnd PROVE IInv'
<1>1. TypeOK'
  BY IrqType DEF IInv
<1> QED BY <1>1, IrqLocalInv, IrqYieldInv DEF IrqEnd

LEMMA StutterInv == ASSUME IInv, UNCHANGED vars PROVE IInv'
<1>1. \A t \in Thread : Context(t)' = Context(t)
  BY DEF vars, threadVars, irqVars, Context, RunningThread
<1>2. RunningThread' = RunningThread
  BY DEF vars, threadVars, irqVars, RunningThread
<1>3. TypeOK' /\ NoPanic' /\ RunQueueExact' /\ AllListAlive'
  BY DEF IInv, TypeOK, NoPanic, RunQueueExact, AllListAlive, vars, threadVars, irqVars,
         semaVars
<1>4. StacksMatch' /\ ContextsFit'
  BY <1>1, <1>2 DEF IInv, StacksMatch, ContextsFit, vars, threadVars
<1>5. WaitListExact'
  BY <1>1 DEF IInv, WaitListExact, vars, threadVars, semaVars
<1>6. UnblockPending'
  BY <1>1 DEF IInv, UnblockPending, Unblocking, vars, threadVars
<1>7. IdlePhase'
  BY <1>1 DEF IInv, IdlePhase, BecomingIdle, vars, threadVars
<1>8. (in_external_interrupt = was_irq_generated)'
  BY DEF IInv, vars, irqVars
<1> QED BY <1>3, <1>4, <1>5, <1>6, <1>7, <1>8 DEF IInv

(* Every reachable state of the thread system satisfies the inductive        *)
(* invariant, whatever the number of pages and semaphores, whichever thread  *)
(* code the timer IRQ interrupts: thread.c's lists, statuses and saved       *)
(* contexts stay consistent across every switch.                             *)
THEOREM Invariance == Spec => []IInv
<1>1. Init /\ TypeOK => IInv
  BY InitInv
<1>2. IInv /\ [Next]_vars => IInv'
  BY TaskStepInv, KernelStepInv, IrqStepInv, StutterInv DEF Next
<1> QED
  BY <1>1, <1>2, TypeCorrect, PTL DEF Spec

(* No ASSERT of thread.c, synch.c and the IRQ path ever fires: the stack     *)
(* pointer is always in a running thread's page, schedule() always finds a   *)
(* live thread, thread_unblock() only gets blocked ones.                     *)
THEOREM PanicFree == Spec => []NoPanic
<1>1. IInv => NoPanic
  BY DEF IInv
<1> QED BY <1>1, Invariance, PTL

(* Every thread's context is saved on and restored to its own stack, in      *)
(* save_and_switch_context() and in schedule_in_interrupt().                 *)
THEOREM OwnStacks == Spec => []StacksMatch
<1>1. IInv => StacksMatch
  BY DEF IInv
<1> QED BY <1>1, Invariance, PTL

(* The run queue and the wait lists are exact and disjoint, so that they can *)
(* share struct thread's elem, as thread.h relies on.                        *)
THEOREM ElemShared == Spec => []ElemDiscipline
<1>1. IInv => ElemDiscipline
  BY DEF IInv, ElemDiscipline
<1> QED BY <1>1, Invariance, PTL

(* A blocked thread is always on the wait list of a semaphore, or is idle,   *)
(* or its creator, alive and runnable, is about to unblock it.               *)
THEOREM NobodyLost == Spec => []NoThreadLost
<1>1. ASSUME IInv, NEW t \in Thread, status[t] = "BLOCKED"
      PROVE  \/ t = idle_thread
             \/ \E s \in AllSema : t \in Range(waiters[s])
             \/ \E u \in Thread : status[u] \in {"RUNNING", "READY"} /\ Unblocking(u, t)
  <2>1. Context(t) \in Frame /\ status \in [Thread -> Status]
    <3>1. was_irq_generated => Context(t) \in Frame
      BY <1>1, IrqContext DEF IInv, TypeOK
    <3>2. ~was_irq_generated => Context(t) \in Frame
      BY <1>1, CpuContext DEF IInv, TypeOK
    <3> QED BY <1>1, <3>1, <3>2 DEF IInv, TypeOK
  <2>2. Context(t).pc \in {"sema_down", "idle_blocked", "kernel_thread"}
    BY <1>1 DEF IInv, ContextsFit
  <2>3. CASE Context(t).pc = "idle_blocked"
    BY <1>1, <2>3 DEF IInv, IdlePhase
  <2>4. CASE Context(t).pc = "sema_down"
    <3>1. Context(t).arg \in AllSema
      BY <2>1, <2>4 DEF Frame
    <3> QED BY <1>1, <2>4, <3>1 DEF IInv, WaitListExact
  <2>5. CASE Context(t).pc = "kernel_thread"
    <3>1. PICK u \in Thread : Unblocking(u, t)
      BY <1>1, <2>5 DEF IInv, UnblockPending
    <3>2. Context(u).pc = "thread_unblock"
      BY <3>1 DEF Unblocking
    <3>3. status[u] \notin {"FREE", "DYING", "BLOCKED"}
      BY <1>1, <3>2 DEF IInv, ContextsFit
    <3>4. status[u] \in {"RUNNING", "READY"}
      BY <2>1, <3>3 DEF Status
    <3> QED BY <3>1, <3>4
  <2> QED BY <2>2, <2>3, <2>4, <2>5
<1>2. IInv => NoThreadLost
  BY <1>1 DEF NoThreadLost
<1> QED BY <1>2, Invariance, PTL

-----------------------------------------------------------------------------
(* The slice is overdrawn only in an IRQ that is going to yield. *)
SliceInv == (was_irq_generated /\ yield_on_return) \/ thread_ticks < TIME_SLICE

(* Thread code never touches the IRQ state and at most restarts the slice. *)
LEMMA ThreadCodeTicks ==
  ASSUME TaskStep \/ KernelStep
  PROVE  /\ ~was_irq_generated /\ UNCHANGED irqVars
         /\ thread_ticks' \in {thread_ticks, 0}
<1> USE DEF At, Panic, threadVars
<1>1. ASSUME NEW st, NEW rl, NEW f, Schedule(st, rl, f) PROVE thread_ticks' = 0
  BY <1>1 DEF Schedule
<1>2. ASSUME NEW s, NEW level, SemaDownPass(s, "sema_down", "user", level)
      PROVE  UNCHANGED irqVars /\ thread_ticks' \in {thread_ticks, 0}
  BY <1>1, <1>2 DEF SemaDownPass
<1>3. ASSUME NEW s, NEW label, SemaUpTo(s, label)
      PROVE  UNCHANGED irqVars /\ thread_ticks' \in {thread_ticks, 0}
  BY <1>3 DEF SemaUpTo
<1>4. CASE TaskStep
  <2>1. CASE ThreadCreate \/ ThreadCreateFails
    BY <2>1 DEF ThreadCreate, ThreadCreateFails
  <2>2. CASE ThreadExit \/ ThreadYield
    BY <1>1, <2>2 DEF ThreadExit, ThreadYield
  <2>3. CASE \E level \in TaskLevel : InterruptsSetLevel(level)
    BY <2>3 DEF InterruptsSetLevel
  <2>4. CASE \E s \in Sema : SemaDown(s) \/ SemaTryDown(s) \/ SemaUp(s)
    BY <1>2, <1>3, <2>4 DEF SemaDown, SemaTryDown, SemaUp
  <2> QED BY <1>4, <2>1, <2>2, <2>3, <2>4 DEF TaskStep
<1>5. CASE KernelStep
  <2>1. CASE ThreadStart \/ ThreadCreateUnblock \/ KernelThread \/ ThreadYieldReturn
    BY <2>1 DEF ThreadStart, ThreadCreateUnblock, KernelThread, ThreadYieldReturn
  <2>2. CASE ThreadStartWait \/ SemaDownRetry
    BY <1>2, <2>2 DEF ThreadStartWait, SemaDownRetry
  <2>3. CASE IdleInit \/ IdleSemaUp \/ IdleBlock \/ IdleResume
    BY <1>1, <1>3, <2>3 DEF IdleInit, IdleSemaUp, IdleBlock, IdleResume
  <2> QED BY <1>5, <2>1, <2>2, <2>3 DEF KernelStep
<1> QED BY <1>4, <1>5

(* A thread outside an IRQ has used less than its time slice, and no IRQ      *)
(* flag outlives the IRQ, although thread_yield() leaves                     *)
(* interrupts_dispatch_irq() on another thread's context.                    *)
THEOREM SliceBound == Spec => []SliceRespected
<1>1. Init => SliceInv
  BY DEF Init, SliceInv, TIME_SLICE
<1>2. TypeOK /\ SliceInv /\ [Next]_vars => SliceInv'
  <2> SUFFICES ASSUME TypeOK, SliceInv, [Next]_vars PROVE SliceInv'
    OBVIOUS
  <2>1. thread_ticks \in Nat
    BY DEF TypeOK
  <2>2. CASE TaskStep \/ KernelStep
    BY <2>1, <2>2, ThreadCodeTicks DEF SliceInv, irqVars, TIME_SLICE
  <2>3. CASE IrqDispatch
    <3>1. CASE Panic
      BY <3>1 DEF Panic, threadVars, irqVars, SliceInv
    <3>2. CASE ~Panic
      <4>1. /\ was_irq_generated' = TRUE /\ thread_ticks' = thread_ticks + 1
            /\ yield_on_return' <=> SliceUsed
        BY <2>3, <3>2 DEF IrqDispatch
      <4>2. SliceUsed \/ thread_ticks + 1 < TIME_SLICE
        BY <2>1 DEF SliceUsed, TIME_SLICE
      <4> QED BY <4>1, <4>2 DEF SliceInv
    <3> QED BY <3>1, <3>2
  <2>4. CASE IrqReturn
    BY <2>1, <2>4 DEF IrqReturn, threadVars, SliceInv
  <2>5. CASE IrqYield
    <3>1. CASE Panic
      BY <3>1 DEF Panic, threadVars, irqVars, SliceInv
    <3>2. CASE ~Panic
      <4>1. thread_ticks' = 0
        BY <2>5, <3>2 DEF IrqYield
      <4> QED BY <4>1 DEF SliceInv, TIME_SLICE
    <3> QED BY <3>1, <3>2
  <2>6. CASE UNCHANGED vars
    BY <2>6 DEF vars, threadVars, irqVars, SliceInv
  <2> QED BY <2>2, <2>3, <2>4, <2>5, <2>6 DEF Next, IrqEnd
<1>3. IInv /\ SliceInv => SliceRespected
  BY DEF IInv, SliceInv, SliceRespected
<1> QED
  BY <1>1, <1>2, <1>3, TypeCorrect, Invariance, PTL DEF Spec

-----------------------------------------------------------------------------
(* What a step means to the other threads: five of the actions are switches. *)

(* The running thread calls schedule() with run queue RL and status LEFT,    *)
(* and leaves context F.                                                     *)
Leaves(left, rl, f) ==
  \E run, next \in Thread :
    /\ run = RunningThread /\ next = NextThread(rl) /\ ready_list' = RestOf(rl)
    /\ next # run \/ left = "READY" \/ run = idle_thread
    /\ status[next] = "READY" \/ next = idle_thread \/ next = run
    /\ Switched(run, next, LeftStatus(run, left), LeftFrame(run, left, f))

LEMMA ScheduleLeaves ==
  ASSUME IInv, ~was_irq_generated, UNCHANGED irqVars,
         NEW run \in Thread, run = cpu.sp,
         NEW left \in {"BLOCKED", "READY", "DYING"},
         NEW rl \in Seq(Thread), IsInjective(rl), Range(rl) = Ready(run, left),
         NEW f \in Frame, f.sp = run, left = "DYING" => run # idle_thread,
         Schedule([status EXCEPT ![run] = left], rl, f),
         cpu.pc \notin {"thread_start", "thread_unblock", "idle", "kernel_thread"}
  PROVE  Leaves(left, rl, f)
<1>1. run = RunningThread /\ Context(run) = cpu
  BY CpuContext
<1>2. ~AtBecoming(Context(run)) /\ Context(run).pc # "thread_start"
  BY <1>1 DEF AtBecoming
<1>3. /\ NextThread(rl) \in Thread
      /\ \/ status[NextThread(rl)] = "READY"
         \/ NextThread(rl) = idle_thread
         \/ NextThread(rl) = run /\ left = "READY"
  BY <1>1, <1>2, Schedulable
<1>4. status[run] = "RUNNING"
  BY <1>1 DEF IInv, StacksMatch
<1>5. PICK next \in Thread : next = NextThread(rl)
  BY <1>3
<1>6. next # run \/ left = "READY" \/ run = idle_thread
  BY <1>3, <1>4, <1>5
<1>7. /\ Switched(run, next, LeftStatus(run, left), LeftFrame(run, left, f))
      /\ ready_list' = RestOf(rl)
  BY <1>1, <1>5, <1>6, ScheduleSwitched
<1> QED BY <1>1, <1>3, <1>5, <1>6, <1>7 DEF Leaves

LEMMA ExitLeaves ==
  ASSUME IInv, ThreadExit
  PROVE  /\ RunningThread # idle_thread /\ Context(RunningThread).pc = "user"
         /\ \E f \in Frame : f.pc = "thread_exit" /\ Leaves("DYING", ready_list, f)
         /\ UNCHANGED <<idle_thread, waiters, value>>
<1>1. ~was_irq_generated /\ cpu.pc = "user" /\ TypeOK
  BY DEF ThreadExit, At, IInv
<1>2. PICK run \in Thread : /\ run = cpu.sp /\ run = RunningThread
                            /\ Context(run) = cpu
  BY <1>1, CpuContext
<1>3. /\ ready_list \in Seq(Thread) /\ IsInjective(ready_list)
      /\ Range(ready_list) = Ready(run, "DYING")
  BY <1>2, ReadyIsQueue
<1>4. ScheduleOK([status EXCEPT ![run] = "DYING"], ready_list)
  BY <1>1, <1>2, <1>3, Schedulable DEF AtBecoming
<1>5. status[run] = "RUNNING" /\ run \in all_list /\ ~in_external_interrupt
  BY <1>1, <1>2 DEF IInv, StacksMatch, AllListAlive
<1>6. PICK f \in Frame : f = Suspended("thread_exit", NULL, "ON")
  BY <1>1, SuspendedType DEF PC, Level
<1>7. f.sp = run /\ f.pc = "thread_exit"
  BY <1>1, <1>2, <1>6, SuspendedFields
<1>8. /\ Schedule([status EXCEPT ![run] = "DYING"], ready_list, f)
      /\ UNCHANGED <<idle_thread, irqVars, waiters, value>>
  BY <1>2, <1>4, <1>5, <1>6 DEF ThreadExit, CurrentOK, semaVars
<1>9. run # idle_thread
  BY <1>1, <1>2 DEF IInv, IdlePhase
<1>10. Leaves("DYING", ready_list, f)
  BY <1>1, <1>2, <1>3, <1>7, <1>8, <1>9, ScheduleLeaves
<1> QED BY <1>1, <1>2, <1>7, <1>8, <1>9, <1>10

LEMMA IdleBlockLeaves ==
  ASSUME IInv, IdleBlock
  PROVE  /\ RunningThread = idle_thread /\ Context(RunningThread).pc = "idle_loop"
         /\ \E f \in Frame : f.pc = "idle_blocked" /\ Leaves("BLOCKED", ready_list, f)
         /\ UNCHANGED <<idle_thread, waiters, value>>
<1>1. ~was_irq_generated /\ cpu.pc = "idle_loop" /\ TypeOK
  BY DEF IdleBlock, At, IInv
<1>2. PICK run \in Thread : /\ run = cpu.sp /\ run = RunningThread
                            /\ Context(run) = cpu
  BY <1>1, CpuContext
<1>3. /\ ready_list \in Seq(Thread) /\ IsInjective(ready_list)
      /\ Range(ready_list) = Ready(run, "BLOCKED")
  BY <1>2, ReadyIsQueue
<1>4. ScheduleOK([status EXCEPT ![run] = "BLOCKED"], ready_list)
  BY <1>1, <1>2, <1>3, Schedulable DEF AtBecoming
<1>5. status[run] = "RUNNING" /\ ~in_external_interrupt
  BY <1>1, <1>2 DEF IInv, StacksMatch
<1>6. PICK f \in Frame : f = Suspended("idle_blocked", NULL, cpu.irq)
  BY <1>1, SuspendedType DEF PC, TypeOK, Frame
<1>7. f.sp = run /\ f.pc = "idle_blocked"
  BY <1>1, <1>2, <1>6, SuspendedFields
<1>8. /\ Schedule([status EXCEPT ![run] = "BLOCKED"], ready_list, f)
      /\ UNCHANGED <<idle_thread, irqVars, waiters, value>>
  BY <1>2, <1>4, <1>5, <1>6 DEF IdleBlock, CurrentOK, semaVars
<1>9. run = idle_thread
  BY <1>1, <1>2 DEF IInv, IdlePhase
<1>10. Leaves("BLOCKED", ready_list, f)
  BY <1>1, <1>2, <1>3, <1>7, <1>8, <1>9, ScheduleLeaves
<1> QED BY <1>1, <1>2, <1>7, <1>8, <1>9, <1>10

(* thread_yield(), called by a task or at the end of an IRQ. *)
LEMMA YieldLeaves ==
  ASSUME IInv, ThreadYield \/ IrqYield
  PROVE  /\ \E f \in Frame :
              /\ \/ f = Context(RunningThread)
                 \/ f.pc = "thread_yield" /\ Context(RunningThread).pc = "user"
              /\ Leaves("READY", YieldQueue(RunningThread), f)
         /\ UNCHANGED <<idle_thread, waiters, value>>
<1>1. CASE ThreadYield
  <2>1. ~was_irq_generated /\ cpu.pc = "user" /\ TypeOK
    BY <1>1 DEF ThreadYield, At, IInv
  <2>2. PICK run \in Thread : /\ run = cpu.sp /\ run = RunningThread
                              /\ Context(run) = cpu
    BY <2>1, CpuContext
  <2>3. PICK rl \in Seq(Thread) : /\ rl = YieldQueue(run) /\ IsInjective(rl)
                                  /\ Range(rl) = Ready(run, "READY")
    BY <2>2, YieldIsQueue
  <2>4. ScheduleOK([status EXCEPT ![run] = "READY"], rl)
    BY <2>1, <2>2, <2>3, Schedulable DEF AtBecoming
  <2>5. status[run] = "RUNNING" /\ ~in_external_interrupt
    BY <2>1, <2>2 DEF IInv, StacksMatch
  <2>6. PICK f \in Frame : f = Suspended("thread_yield", NULL, cpu.irq)
    BY <2>1, SuspendedType DEF PC, TypeOK, Frame
  <2>7. f.sp = run /\ f.pc = "thread_yield"
    BY <2>1, <2>2, <2>6, SuspendedFields
  <2>8. /\ Schedule([status EXCEPT ![run] = "READY"], rl, f)
        /\ UNCHANGED <<idle_thread, irqVars, waiters, value>>
    BY <1>1, <2>2, <2>3, <2>4, <2>5, <2>6 DEF ThreadYield, CurrentOK, semaVars
  <2>9. Leaves("READY", rl, f)
    BY <2>1, <2>2, <2>3, <2>7, <2>8, ScheduleLeaves
  <2> QED BY <2>1, <2>2, <2>3, <2>7, <2>8, <2>9
<1>2. CASE IrqYield
  <2>1. PICK run \in Thread, f \in Frame, next \in Thread :
          /\ run = RunningThread /\ f = Context(run)
          /\ next = NextThread(YieldQueue(run)) /\ ready_list' = RestOf(YieldQueue(run))
          /\ status[next] = "READY" \/ next = idle_thread \/ next = run
          /\ Switched(run, next, "READY", f)
          /\ UNCHANGED <<idle_thread, waiters, value>>
    BY <1>2, IrqYieldSwitched
  <2>2. LeftStatus(run, "READY") = "READY" /\ LeftFrame(run, "READY", f) = f
    BY DEF LeftStatus, LeftFrame
  <2>3. Leaves("READY", YieldQueue(run), f)
    BY <2>1, <2>2 DEF Leaves
  <2> QED BY <2>1, <2>3
<1> QED BY <1>1, <1>2

(* sema_down() that finds no unit. *)
LEMMA DownLeaves ==
  ASSUME IInv, ~was_irq_generated,
         cpu.pc \in {"user", "thread_start_wait", "sema_down"},
         NEW s \in AllSema, NEW level \in Level, ~(value[s] > 0),
         SemaDownPass(s, "sema_down", "user", level)
  PROVE  /\ RunningThread # idle_thread
         /\ \E f \in Frame : /\ f.pc = "sema_down" /\ f.arg = s
                             /\ Leaves("BLOCKED", ready_list, f)
         /\ waiters' = [waiters EXCEPT ![s] = Append(waiters[s], RunningThread)]
         /\ UNCHANGED <<idle_thread, value>>
<1>1. TypeOK /\ cpu \in Frame /\ ~in_external_interrupt
  BY DEF IInv, TypeOK
<1>2. PICK run \in Thread : /\ run = cpu.sp /\ run = RunningThread
                            /\ Context(run) = cpu
  BY CpuContext
<1>3. run # idle_thread
  BY <1>2 DEF IInv, IdlePhase
<1>4. /\ ready_list \in Seq(Thread) /\ IsInjective(ready_list)
      /\ Range(ready_list) = Ready(run, "BLOCKED")
  BY <1>2, ReadyIsQueue
<1>5. ScheduleOK([status EXCEPT ![run] = "BLOCKED"], ready_list)
  BY <1>2, <1>4, Schedulable DEF AtBecoming
<1>6. status[run] = "RUNNING"
  BY <1>2 DEF IInv, StacksMatch
<1>7. PICK f \in Frame : f = Suspended("sema_down", s, level)
  BY <1>1, SuspendedType DEF PC
<1>8. f.sp = run /\ f.pc = "sema_down" /\ f.arg = s
  BY <1>1, <1>2, <1>7, SuspendedFields
<1>9. /\ waiters' = [waiters EXCEPT ![s] = Append(waiters[s], run)]
      /\ Schedule([status EXCEPT ![run] = "BLOCKED"], ready_list, f)
      /\ UNCHANGED <<idle_thread, irqVars, value>>
  BY <1>1, <1>2, <1>5, <1>6, <1>7 DEF SemaDownPass, CurrentOK
<1>10. Leaves("BLOCKED", ready_list, f)
  BY <1>2, <1>3, <1>4, <1>8, <1>9, ScheduleLeaves
<1> QED BY <1>2, <1>3, <1>8, <1>9, <1>10

(* The running thread goes on with context F, and nobody else is concerned. *)
Stays(f) ==
  /\ UNCHANGED <<status, ready_list, idle_thread, waiters>>
  /\ RunningThread' = RunningThread /\ Context(RunningThread)' = f
  /\ \A t \in Thread \ {RunningThread} : Context(t)' = Context(t)

(* The running thread goes on with context F and has put W, which was        *)
(* blocked, on the run queue.                                                *)
Awakens(w, f) ==
  /\ status[w] = "BLOCKED" /\ w # idle_thread
  /\ ThreadUnblock(w) /\ UNCHANGED idle_thread
  /\ RunningThread' = RunningThread /\ Context(RunningThread)' = f
  /\ \A t \in Thread \ {RunningThread} : Context(t)' = Context(t)

LEMMA CpuStays ==
  ASSUME IInv, ~was_irq_generated, cpu'.sp = cpu.sp, UNCHANGED <<stack_frame, irqVars>>
  PROVE  /\ RunningThread' = RunningThread /\ Context(RunningThread)' = cpu'
         /\ Context(RunningThread) = cpu
         /\ \A t \in Thread \ {RunningThread} : Context(t)' = Context(t)
<1>1. /\ RunningThread = cpu.sp /\ cpu.sp \in Thread /\ Context(cpu.sp) = cpu
      /\ \A t \in Thread : t # cpu.sp => Context(t) = stack_frame[t]
  BY CpuContext
<1>2. ~was_irq_generated'
  BY DEF irqVars
<1>3. RunningThread' = cpu.sp
  BY <1>2 DEF RunningThread
<1> QED BY <1>1, <1>2, <1>3 DEF Context

LEMMA RegisterStays ==
  ASSUME IInv,
         \/ ThreadCreateFails \/ KernelThread \/ ThreadYieldReturn \/ IdleResume
         \/ \E level \in TaskLevel : InterruptsSetLevel(level)
         \/ \E s \in Sema : SemaTryDown(s)
  PROVE  /\ Stays(cpu') /\ cpu'.pc # "sema_down" /\ Context(RunningThread).pc # "sema_down"
         /\ \A s \in AllSema : value'[s] <= value[s]
<1>1. ~was_irq_generated /\ cpu \in Frame /\ cpu.pc # "sema_down"
  BY DEF ThreadCreateFails, KernelThread, ThreadYieldReturn, IdleResume,
         InterruptsSetLevel, SemaTryDown, At, IInv, TypeOK
<1>2. CurrentOK
  BY <1>1, CpuContext DEF CurrentOK, IInv, StacksMatch
<1>3. UNCHANGED <<status, stack_frame, ready_list, waiters, idle_thread, irqVars>>
  BY <1>2 DEF ThreadCreateFails, KernelThread, ThreadYieldReturn, IdleResume,
         InterruptsSetLevel, SemaTryDown, threadVars, semaVars
<1>4. cpu'.sp = cpu.sp /\ cpu'.pc # "sema_down"
  BY <1>1, <1>2 DEF ThreadCreateFails, KernelThread, ThreadYieldReturn, IdleResume,
         InterruptsSetLevel, SemaTryDown, At, Return, Frame
<1>5. Stays(cpu') /\ Context(RunningThread).pc # "sema_down"
  BY <1>1, <1>3, <1>4, CpuStays DEF Stays
<1>6. value \in [AllSema -> Nat]
  BY DEF IInv, TypeOK
<1>7. \A s \in AllSema : value'[s] <= value[s]
  <2>1. CASE UNCHANGED value
    BY <1>6, <2>1
  <2>2. CASE \E s \in Sema : SemaTryDown(s)
    <3>1. PICK s \in Sema : value' = [value EXCEPT ![s] = value[s] - 1]
      BY <2>2 DEF SemaTryDown
    <3> QED BY <1>6, <3>1
  <2>3. \/ UNCHANGED value
        \/ \E s \in Sema : SemaTryDown(s)
    BY <1>2 DEF ThreadCreateFails, KernelThread, ThreadYieldReturn, IdleResume,
           InterruptsSetLevel, semaVars
  <2> QED BY <2>1, <2>2, <2>3
<1> QED BY <1>4, <1>5, <1>7

(* An IRQ without a switch puts the interrupted context aside and back. *)
LEMMA IrqStays ==
  ASSUME IInv, IrqDispatch \/ IrqReturn
  PROVE  Stays(Context(RunningThread)) /\ UNCHANGED value
<1>1. CASE IrqDispatch
  <2>1. ~was_irq_generated /\ ~in_external_interrupt
    BY <1>1 DEF IrqDispatch, IInv
  <2>2. /\ RunningThread = cpu.sp /\ cpu.sp \in Thread /\ Context(cpu.sp) = cpu
        /\ \A t \in Thread : t # cpu.sp => Context(t) = stack_frame[t]
    BY <2>1, CpuContext
  <2>3. status[cpu.sp] = "RUNNING"
    BY <2>2 DEF IInv, StacksMatch
  <2>4. /\ irq_frame' = cpu /\ was_irq_generated' = TRUE
        /\ UNCHANGED <<status, stack_frame, ready_list, idle_thread, waiters, value>>
    BY <1>1, <2>1, <2>3 DEF IrqDispatch, semaVars
  <2>5. RunningThread' = cpu.sp
    BY <2>4 DEF RunningThread
  <2> QED BY <2>2, <2>4, <2>5 DEF Stays, Context
<1>2. CASE IrqReturn
  <2>1. was_irq_generated
    BY <1>2 DEF IrqReturn
  <2>2. /\ RunningThread = irq_frame.sp /\ irq_frame.sp \in Thread
        /\ Context(irq_frame.sp) = irq_frame
        /\ \A t \in Thread : t # irq_frame.sp => Context(t) = stack_frame[t]
    BY <2>1, IrqContext
  <2>3. /\ cpu' = irq_frame /\ was_irq_generated' = FALSE
        /\ UNCHANGED <<status, stack_frame, ready_list, idle_thread, waiters, value>>
    BY <1>2 DEF IrqReturn, threadVars, semaVars
  <2>4. RunningThread' = irq_frame.sp
    BY <2>3 DEF RunningThread
  <2> QED BY <2>2, <2>3, <2>4 DEF Stays, Context
<1> QED BY <1>1, <1>2

(* sema_down() that takes a unit. *)
LEMMA TakeStays ==
  ASSUME IInv, ~was_irq_generated, NEW s \in AllSema, NEW level, value[s] > 0,
         SemaDownPass(s, "sema_down", "user", level)
  PROVE  /\ Stays(cpu') /\ cpu'.pc = "user" /\ Context(RunningThread) = cpu
         /\ value' = [value EXCEPT ![s] = @ - 1]
<1>1. cpu \in Frame /\ ~in_external_interrupt
  BY DEF IInv, TypeOK
<1>2. /\ cpu' = Return("user", level) /\ value' = [value EXCEPT ![s] = @ - 1]
      /\ UNCHANGED <<status, stack_frame, ready_list, waiters, idle_thread, irqVars>>
  BY <1>1 DEF SemaDownPass, threadVars
<1>3. cpu'.sp = cpu.sp /\ cpu'.pc = "user"
  BY <1>1, <1>2 DEF Return, Frame
<1> QED BY <1>2, <1>3, CpuStays DEF Stays

(* sema_up() with nobody waiting, and with a first thread to wake. *)
LEMMA SemaUpEffect ==
  ASSUME IInv, ~was_irq_generated, cpu.pc # "sema_down",
         NEW s \in AllSema, NEW label, label # "sema_down",
         IF SemaUpOK(s) THEN SemaUpTo(s, label) ELSE Panic
  PROVE  /\ value' = [value EXCEPT ![s] = @ + 1]
         /\ cpu'.pc # "sema_down" /\ Context(RunningThread).pc # "sema_down"
         /\ \/ waiters[s] = <<>> /\ Stays(cpu')
            \/ /\ waiters[s] # <<>> /\ waiters' = [waiters EXCEPT ![s] = Tail(@)]
               /\ \E w \in Thread : w = Head(waiters[s]) /\ Awakens(w, cpu')
<1>1. cpu \in Frame /\ waiters \in [AllSema -> Seq(Thread)]
  BY DEF IInv, TypeOK
<1>2. CASE waiters[s] # <<>>
  <2>1. PICK w \in Thread : w = Head(waiters[s]) /\ w \in Range(waiters[s])
    BY <1>1, <1>2, RangeTail
  <2>2. status[w] = "BLOCKED" /\ Context(w).pc = "sema_down"
    BY <2>1 DEF IInv, WaitListExact
  <2>3. w # idle_thread
    BY <2>2 DEF IInv, IdlePhase
  <2>4. SemaUpTo(s, label)
    BY <2>1, <2>2 DEF SemaUpOK, UnblockOK
  <2>5. /\ ThreadUnblock(w) /\ value' = [value EXCEPT ![s] = @ + 1]
        /\ waiters' = [waiters EXCEPT ![s] = Tail(@)] /\ cpu' = [cpu EXCEPT !.pc = label]
        /\ UNCHANGED <<stack_frame, idle_thread, irqVars>>
    BY <1>2, <2>1, <2>4 DEF SemaUpTo, Wakes
  <2>6. cpu'.sp = cpu.sp /\ cpu'.pc = label
    BY <1>1, <2>5 DEF Frame
  <2>7. Awakens(w, cpu') /\ Context(RunningThread) = cpu
    BY <2>2, <2>3, <2>5, <2>6, CpuStays DEF Awakens
  <2> QED BY <1>2, <2>1, <2>5, <2>6, <2>7
<1>3. CASE waiters[s] = <<>>
  <2>1. SemaUpTo(s, label)
    BY <1>3 DEF SemaUpOK, Wakes
  <2>2. /\ value' = [value EXCEPT ![s] = @ + 1] /\ cpu' = [cpu EXCEPT !.pc = label]
        /\ UNCHANGED <<status, stack_frame, ready_list, waiters, idle_thread, irqVars>>
    BY <1>3, <2>1 DEF SemaUpTo, Wakes
  <2>3. cpu'.sp = cpu.sp /\ cpu'.pc = label
    BY <1>1, <2>2 DEF Frame
  <2>4. Stays(cpu') /\ Context(RunningThread) = cpu
    BY <2>2, <2>3, CpuStays DEF Stays
  <2> QED BY <1>3, <2>2, <2>3, <2>4
<1> QED BY <1>2, <1>3

(* The end of thread_create(). *)
LEMMA CreateAwakens ==
  ASSUME IInv, ThreadCreateUnblock
  PROVE  /\ \E w \in Thread : Awakens(w, cpu') /\ Context(w).pc = "kernel_thread"
         /\ cpu'.pc = "user" /\ Context(RunningThread).pc = "thread_unblock"
         /\ UNCHANGED <<waiters, value>>
<1>1. ~was_irq_generated /\ cpu.pc = "thread_unblock" /\ cpu \in Frame
  BY DEF ThreadCreateUnblock, At, IInv, TypeOK
<1>2. /\ RunningThread = cpu.sp /\ cpu.sp \in Thread /\ Context(cpu.sp) = cpu
  BY <1>1, CpuContext
<1>3. PICK w \in Thread : w = cpu.arg
  BY <1>1 DEF Frame
<1>4. Unblocking(cpu.sp, w)
  BY <1>1, <1>2, <1>3 DEF Unblocking
<1>5. status[w] = "BLOCKED" /\ Context(w).pc = "kernel_thread"
  BY <1>2, <1>4 DEF IInv, UnblockPending
<1>6. w # idle_thread
  BY <1>5 DEF IInv, IdlePhase
<1>7. /\ ThreadUnblock(w) /\ cpu' = Return("user", cpu.irq)
      /\ UNCHANGED <<stack_frame, idle_thread, irqVars, waiters, value>>
  BY <1>3, <1>5 DEF ThreadCreateUnblock, UnblockOK, semaVars
<1>8. cpu'.sp = cpu.sp /\ cpu'.pc = "user"
  BY <1>1, <1>7 DEF Return, Frame
<1>9. Awakens(w, cpu')
  BY <1>1, <1>5, <1>6, <1>7, <1>8, CpuStays DEF Awakens
<1> QED BY <1>1, <1>2, <1>5, <1>7, <1>8, <1>9

(* thread_create() and thread_start(): the new thread was on no list. *)
LEMMA CreateEffect ==
  ASSUME IInv, ThreadCreate \/ ThreadStart
  PROVE  \E n \in Thread :
           /\ status[n] = "FREE" /\ n # RunningThread /\ n # idle_thread
           /\ RunningThread' = RunningThread /\ UNCHANGED <<idle_thread, waiters, value>>
           /\ \/ /\ status' = [status EXCEPT ![n] = "BLOCKED"] /\ UNCHANGED ready_list
              \/ /\ status' = [status EXCEPT ![n] = "READY"]
                 /\ ready_list' = Append(ready_list, n)
           /\ Context(n).pc # "sema_down" /\ Context(n)'.pc # "sema_down"
           /\ Context(RunningThread).pc # "sema_down"
           /\ Context(RunningThread)'.pc # "sema_down"
           /\ \A t \in Thread : t # RunningThread /\ t # n => Context(t)' = Context(t)
<1>1. /\ ~was_irq_generated /\ cpu.pc \in {"user", "thread_start"} /\ cpu \in Frame
  BY DEF ThreadCreate, ThreadStart, At, IInv, TypeOK
<1>2. PICK run \in Thread : run = cpu.sp /\ run = RunningThread /\ Context(run) = cpu
  BY <1>1, CpuContext
<1>3. CurrentOK
  BY <1>1, CpuContext DEF CurrentOK, IInv, StacksMatch
<1>4. PICK n \in Page :
        /\ NewThread(n, "task") \/ NewThread(n, "idle")
        /\ \/ /\ status' = [status EXCEPT ![n] = "BLOCKED"] /\ UNCHANGED ready_list
              /\ cpu' = [cpu EXCEPT !.pc = "thread_unblock", !.arg = n]
           \/ /\ status' = [status EXCEPT ![n] = "READY"]
              /\ ready_list' = Append(ready_list, n)
              /\ cpu' = Return("thread_start_wait", "ON")
        /\ UNCHANGED <<idle_thread, irqVars, waiters, value>>
  BY <1>3 DEF ThreadCreate, ThreadStart, semaVars
<1>5. cpu'.sp = run /\ cpu'.pc \in {"thread_unblock", "thread_start_wait"}
  BY <1>1, <1>2, <1>4 DEF Return, Frame
<1>6. /\ n \in Thread /\ n # run /\ n # idle_thread
      /\ status[n] = "FREE" /\ Context(n).pc = "none"
      /\ RunningThread' = run /\ Context(run)' = cpu'
      /\ Context(n)'.pc = "kernel_thread"
      /\ \A t \in Thread : t # run /\ t # n => Context(t)' = Context(t)
  BY <1>1, <1>2, <1>4, <1>5, NewThreadEffect
<1> QED BY <1>1, <1>2, <1>4, <1>5, <1>6

(* idle() publishes itself. *)
LEMMA IdleInitEffect ==
  ASSUME IInv, IdleInit
  PROVE  /\ idle_thread = NULL /\ idle_thread' = RunningThread
         /\ UNCHANGED <<status, ready_list, waiters, value>>
         /\ RunningThread' = RunningThread
         /\ Context(RunningThread)'.pc = "idle_sema_up" /\ Context(RunningThread).pc = "idle"
         /\ \A t \in Thread \ {RunningThread} : Context(t)' = Context(t)
<1>1. ~was_irq_generated /\ cpu.pc = "idle" /\ cpu \in Frame
  BY DEF IdleInit, At, IInv, TypeOK
<1>2. /\ RunningThread = cpu.sp /\ cpu.sp \in Thread /\ Context(cpu.sp) = cpu
  BY <1>1, CpuContext
<1>3. CurrentOK
  BY <1>2 DEF CurrentOK, IInv, StacksMatch
<1>4. idle_thread = NULL
  BY <1>1, <1>2 DEF IInv, IdlePhase, BecomingIdle
<1>5. /\ idle_thread' = cpu.sp /\ cpu' = [cpu EXCEPT !.pc = "idle_sema_up"]
      /\ UNCHANGED <<status, stack_frame, ready_list, irqVars, waiters, value>>
  BY <1>3 DEF IdleInit, semaVars
<1>6. cpu'.sp = cpu.sp /\ cpu'.pc = "idle_sema_up"
  BY <1>1, <1>5 DEF Frame
<1> QED BY <1>1, <1>2, <1>4, <1>5, <1>6, CpuStays

(* The callers of sema_down() and sema_up(). *)
LEMMA SemaDownCalled ==
  ASSUME IInv, ThreadStartWait \/ SemaDownRetry \/ \E s \in Sema : SemaDown(s)
  PROVE  \E s \in AllSema, level \in Level :
           /\ ~was_irq_generated /\ cpu.pc \in {"user", "thread_start_wait", "sema_down"}
           /\ cpu.pc = "sema_down" => cpu.arg = s
           /\ SemaDownPass(s, "sema_down", "user", level)
<1>1. cpu \in Frame /\ cpu.irq \in Level /\ cpu.old \in Level
  BY DEF IInv, TypeOK, Frame
<1>2. CASE ThreadStartWait
  BY <1>1, <1>2 DEF ThreadStartWait, At, AllSema
<1>3. CASE SemaDownRetry
  BY <1>1, <1>3 DEF SemaDownRetry, At, Frame
<1>4. CASE \E s \in Sema : SemaDown(s)
  BY <1>1, <1>4 DEF SemaDown, At, AllSema
<1> QED BY <1>2, <1>3, <1>4

LEMMA SemaUpCalled ==
  ASSUME IdleSemaUp \/ \E s \in Sema : SemaUp(s)
  PROVE  \E s \in AllSema, label \in {"user", "idle_loop"} :
           /\ ~was_irq_generated /\ cpu.pc # "sema_down"
           /\ IF SemaUpOK(s) THEN SemaUpTo(s, label) ELSE Panic
BY DEF IdleSemaUp, SemaUp, At, AllSema

-----------------------------------------------------------------------------
(* The refinement of RoundRobin, step by step. *)
Sleeping == {t \in Thread : status[t] = "BLOCKED"} \ {idle_thread}

(* A call of schedule() dispatches the first of the queue, or the idle       *)
(* thread, neither of them asleep.                                           *)
LEMMA LeavesDispatches ==
  ASSUME IInv, NEW left \in {"BLOCKED", "READY", "DYING"}, NEW rl, NEW f,
         Leaves(left, rl, f), UNCHANGED idle_thread
  PROVE  /\ RR!Dispatch(rl)
         /\ Sleeping' = IF left = "BLOCKED" /\ RunningThread # idle_thread
                        THEN Sleeping \cup {RunningThread} ELSE Sleeping
<1>1. PICK run \in Thread, next \in Thread :
        /\ run = RunningThread /\ next = NextThread(rl) /\ ready_list' = RestOf(rl)
        /\ next # run \/ left = "READY" \/ run = idle_thread
        /\ status[next] = "READY" \/ next = idle_thread \/ next = run
        /\ Switched(run, next, LeftStatus(run, left), LeftFrame(run, left, f))
  BY DEF Leaves
<1>2. RunningThread' = next
  BY <1>1 DEF Switched
<1>3. RR!Dispatch(rl)
  BY <1>1, <1>2 DEF RR!Dispatch, NextThread, RestOf
<1>4. status[run] = "RUNNING"
  BY <1>1 DEF IInv, StacksMatch
<1>5. \A t \in Thread : status'[t] = IF t = next THEN "RUNNING"
                                     ELSE IF t = run THEN LeftStatus(run, left)
                                     ELSE status[t]
  BY <1>1 DEF Switched
<1>6. LeftStatus(run, left) = "BLOCKED" <=> left = "BLOCKED"
  BY DEF LeftStatus
<1>7. \A t \in Thread : t \in Sleeping' <=>
                          \/ t \in Sleeping
                          \/ t = run /\ left = "BLOCKED" /\ run # idle_thread
  BY <1>1, <1>4, <1>5, <1>6 DEF Sleeping
<1>8. Sleeping' \subseteq Thread /\ Sleeping \subseteq Thread
  BY DEF Sleeping
<1> QED BY <1>1, <1>3, <1>7, <1>8

(* Each masked section and each IRQ is a step of RoundRobin or invisible. *)
LEMMA RoundRobinStep ==
  ASSUME IInv, [Next]_vars
  PROVE  [RR!RRNext]_(RR!rrVars)
<1> USE DEF Sleeping
<1>0. /\ status \in [Thread -> Status] /\ RunningThread \in Thread
      /\ status[RunningThread] = "RUNNING"
      /\ cpu \in Frame /\ cpu.irq \in Level /\ cpu.old \in Level
  <2>1. status \in [Thread -> Status] /\ cpu \in Frame
    BY DEF IInv, TypeOK
  <2>2. RunningThread \in Thread
    BY CpuContext, IrqContext
  <2> QED BY <2>1, <2>2 DEF IInv, StacksMatch, Frame
<1>1. ASSUME NEW f, Stays(f) PROVE UNCHANGED RR!rrVars
  BY <1>1 DEF Stays, RR!rrVars
<1>2. ASSUME NEW w \in Thread, NEW f, Awakens(w, f) PROVE RR!Wake(w)
  <2>1. w \in Sleeping /\ Sleeping' = Sleeping \ {w}
    BY <1>0, <1>2 DEF Awakens, ThreadUnblock
  <2> QED BY <1>2, <2>1 DEF Awakens, ThreadUnblock, RR!Wake
<1>3. ASSUME NEW s \in AllSema, NEW level \in Level, ~was_irq_generated,
             cpu.pc \in {"user", "thread_start_wait", "sema_down"},
             SemaDownPass(s, "sema_down", "user", level)
      PROVE  RR!Sleep \/ UNCHANGED RR!rrVars
  <2>1. CASE value[s] > 0
    BY <1>1, <1>3, <2>1, TakeStays
  <2>2. CASE ~(value[s] > 0)
    <3>1. /\ RunningThread # idle_thread
          /\ \E f \in Frame : Leaves("BLOCKED", ready_list, f)
          /\ UNCHANGED idle_thread
      BY <1>3, <2>2, DownLeaves
    <3>2. RR!Dispatch(ready_list) /\ Sleeping' = Sleeping \cup {RunningThread}
      BY <3>1, LeavesDispatches
    <3> QED BY <3>1, <3>2 DEF RR!Sleep
  <2> QED BY <2>1, <2>2
<1>4. ASSUME NEW s \in AllSema, NEW label, label # "sema_down",
             ~was_irq_generated, cpu.pc # "sema_down",
             IF SemaUpOK(s) THEN SemaUpTo(s, label) ELSE Panic
      PROVE  (\E w \in Thread : RR!Wake(w)) \/ UNCHANGED RR!rrVars
  BY <1>1, <1>2, <1>4, SemaUpEffect
<1>5. CASE ThreadCreate \/ ThreadStart
  <2>1. PICK n \in Thread :
           /\ status[n] = "FREE" /\ n # RunningThread /\ n # idle_thread
           /\ RunningThread' = RunningThread /\ UNCHANGED idle_thread
           /\ \/ /\ status' = [status EXCEPT ![n] = "BLOCKED"] /\ UNCHANGED ready_list
              \/ /\ status' = [status EXCEPT ![n] = "READY"]
                 /\ ready_list' = Append(ready_list, n)
    BY <1>5, CreateEffect
  <2>2. n \notin RR!Alive
    <3>1. n \notin Range(ready_list)
      BY <2>1 DEF IInv, RunQueueExact
    <3> QED BY <2>1, <3>1 DEF RR!Alive, RR!Elements, Range
  <2>3. CASE status' = [status EXCEPT ![n] = "BLOCKED"] /\ UNCHANGED ready_list
    <3>1. Sleeping' = Sleeping \cup {n}
      BY <1>0, <2>1, <2>3
    <3>2. RR!Spawn(n)
      BY <2>1, <2>2, <2>3, <3>1 DEF RR!Spawn
    <3> QED BY <3>2 DEF RR!RRNext
  <2>4. CASE status' = [status EXCEPT ![n] = "READY"] /\ ready_list' = Append(ready_list, n)
    <3>1. Sleeping' = Sleeping
      BY <1>0, <2>1, <2>4
    <3>2. RR!SpawnReady(n)
      BY <2>1, <2>2, <2>4, <3>1 DEF RR!SpawnReady
    <3> QED BY <3>2 DEF RR!RRNext
  <2> QED BY <2>1, <2>3, <2>4
<1>6. CASE ThreadExit
  <2>1. /\ RunningThread # idle_thread
        /\ \E f \in Frame : Leaves("DYING", ready_list, f)
        /\ UNCHANGED idle_thread
    BY <1>6, ExitLeaves
  <2>2. RR!Dispatch(ready_list) /\ Sleeping' = Sleeping
    BY <2>1, LeavesDispatches
  <2>3. RR!Exit
    BY <2>1, <2>2 DEF RR!Exit
  <2> QED BY <2>3 DEF RR!RRNext
<1>7. CASE ThreadYield \/ IrqYield
  <2>1. /\ \E f \in Frame : Leaves("READY", YieldQueue(RunningThread), f)
        /\ UNCHANGED idle_thread
    BY <1>7, YieldLeaves
  <2>2. RR!Dispatch(YieldQueue(RunningThread)) /\ Sleeping' = Sleeping
    BY <2>1, LeavesDispatches
  <2>3. YieldQueue(RunningThread) = IF RunningThread = idle_thread THEN ready_list
                                    ELSE Append(ready_list, RunningThread)
    BY DEF YieldQueue
  <2>4. RR!Yield
    BY <2>1, <2>2, <2>3 DEF RR!Yield
  <2> QED BY <2>4 DEF RR!RRNext
<1>8. CASE IdleBlock
  <2>1. /\ RunningThread = idle_thread
        /\ \E f \in Frame : Leaves("BLOCKED", ready_list, f)
        /\ UNCHANGED idle_thread
    BY <1>8, IdleBlockLeaves
  <2>2. RR!Dispatch(ready_list) /\ Sleeping' = Sleeping
    BY <2>1, LeavesDispatches
  <2>3. RR!Yield
    BY <2>1, <2>2 DEF RR!Yield
  <2> QED BY <2>3 DEF RR!RRNext
<1>9. CASE IdleInit
  <2>1. /\ idle_thread = NULL /\ idle_thread' = RunningThread
        /\ UNCHANGED <<status, ready_list>> /\ RunningThread' = RunningThread
    BY <1>9, IdleInitEffect
  <2>2. Sleeping' = Sleeping
    BY <1>0, <2>1, NullAssumption
  <2>3. RR!BecomeIdle
    BY <2>1, <2>2 DEF RR!BecomeIdle
  <2> QED BY <2>3 DEF RR!RRNext
<1>10. CASE ThreadCreateUnblock
  <2>1. \E w \in Thread : RR!Wake(w)
    BY <1>2, <1>10, CreateAwakens
  <2> QED BY <2>1 DEF RR!RRNext
<1>11. CASE \/ ThreadCreateFails \/ KernelThread \/ ThreadYieldReturn \/ IdleResume
            \/ \E level \in TaskLevel : InterruptsSetLevel(level)
            \/ \E s \in Sema : SemaTryDown(s)
  BY <1>1, <1>11, RegisterStays
<1>12. CASE IrqDispatch \/ IrqReturn
  BY <1>1, <1>12, IrqStays
<1>13. CASE ThreadStartWait \/ SemaDownRetry \/ \E s \in Sema : SemaDown(s)
  <2>1. \E s \in AllSema, level \in Level :
          /\ ~was_irq_generated /\ cpu.pc \in {"user", "thread_start_wait", "sema_down"}
          /\ SemaDownPass(s, "sema_down", "user", level)
    BY <1>13, SemaDownCalled
  <2>2. RR!Sleep \/ UNCHANGED RR!rrVars
    BY <1>3, <2>1
  <2> QED BY <2>2 DEF RR!RRNext
<1>14. CASE IdleSemaUp \/ \E s \in Sema : SemaUp(s)
  <2>1. \E s \in AllSema, label \in {"user", "idle_loop"} :
          /\ ~was_irq_generated /\ cpu.pc # "sema_down"
          /\ IF SemaUpOK(s) THEN SemaUpTo(s, label) ELSE Panic
    BY <1>14, SemaUpCalled
  <2>2. (\E w \in Thread : RR!Wake(w)) \/ UNCHANGED RR!rrVars
    BY <1>4, <2>1
  <2> QED BY <2>2 DEF RR!RRNext
<1>15. CASE UNCHANGED vars
  BY <1>15 DEF vars, threadVars, irqVars, RR!rrVars, RunningThread
<1> QED
  BY <1>5, <1>6, <1>7, <1>8, <1>9, <1>10, <1>11, <1>12, <1>13, <1>14, <1>15
  DEF Next, TaskStep, KernelStep, IrqEnd

(* The thread system implements the round-robin scheduler: seen from          *)
(* outside, schedule(), thread_unblock(), sema_*() and the timer IRQ hand    *)
(* the CPU over in queue order and leave it to idle only when the queue is   *)
(* empty.                                                                    *)
THEOREM RoundRobinRefined == Spec => ImplementsRoundRobin
<1>1. Init => RR!RRInit
  <2> SUFFICES ASSUME Init PROVE RR!RRInit
    OBVIOUS
  <2>1. /\ RunningThread = Main /\ ready_list = <<>> /\ idle_thread = NULL
        /\ \A t \in Thread : status[t] # "BLOCKED"
    BY DEF Init, RunningThread
  <2> QED BY <2>1 DEF RR!RRInit
<1>2. IInv /\ [Next]_vars => [RR!RRNext]_(RR!rrVars)
  BY RoundRobinStep
<1> QED
  BY <1>1, <1>2, Invariance, PTL DEF Spec, ImplementsRoundRobin, RR!RRSpec

-----------------------------------------------------------------------------
(* No wakeup is lost.  The threads inside sema_down(S) past its first test    *)
(* are the waiting and the woken ones, so only the contexts and the wait     *)
(* lists matter, not who runs.                                               *)
InDown(t, s) == Context(t).pc = "sema_down" /\ Context(t).arg = s
Down(s) == {t \in Thread : InDown(t, s)}
WokenIsDown == \A s \in AllSema : Woken(s) = Down(s) \ Range(waiters[s])

LEMMA WokenDown == IInv => WokenIsDown
<1> SUFFICES ASSUME IInv, NEW s \in AllSema PROVE Woken(s) = Down(s) \ Range(waiters[s])
  BY DEF WokenIsDown
<1>1. Range(waiters[s]) = {t \in Thread : status[t] = "BLOCKED" /\ InDown(t, s)}
  BY DEF IInv, WaitListExact, InDown
<1>2. \A t \in Thread : InDown(t, s) => status[t] \in {"READY", "RUNNING", "BLOCKED"}
  BY DEF IInv, TypeOK, Status, ContextsFit, InDown
<1> QED BY <1>1, <1>2 DEF Woken, Down, InDown

LEMMA WokenDownNext == IInv' => WokenIsDown'
BY WokenDown, PTL

(* There are finitely many pages for threads. *)
LEMMA WokenFinite ==
  /\ \A s : IsFiniteSet(Woken(s)) /\ Cardinality(Woken(s)) \in Nat
  /\ \A s : IsFiniteSet(Woken(s)') /\ Cardinality(Woken(s)') \in Nat
<1>1. IsFiniteSet(Thread)
  BY PageAssumption, FS_AddElement DEF Thread
<1>2. \A s : Woken(s) \in SUBSET Thread /\ Woken(s)' \in SUBSET Thread
  BY DEF Woken
<1>3. \A S \in SUBSET Thread : IsFiniteSet(S) /\ Cardinality(S) \in Nat
  BY <1>1, FS_Subset, FS_CardinalityType
<1> QED BY <1>2, <1>3

(* A semaphore whose waiting and woken threads stay the same, and whose      *)
(* value does not grow.                                                      *)
Enough(s) == waiters[s] # <<>> => value[s] <= Cardinality(Woken(s))

LEMMA EnoughKept ==
  ASSUME IInv, IInv', NEW s \in AllSema, Enough(s),
         \A t \in Thread : InDown(t, s)' <=> InDown(t, s),
         waiters'[s] = waiters[s], value'[s] <= value[s]
  PROVE  Enough(s)'
<1>1. Down(s)' = Down(s)
  BY DEF Down
<1>2. Woken(s)' = Woken(s)
  BY <1>1, WokenDown, WokenDownNext DEF WokenIsDown
<1>3. value[s] \in Nat /\ value'[s] \in Nat
  BY DEF IInv, TypeOK
<1>4. Cardinality(Woken(s)) \in Nat
  BY WokenFinite
<1> QED BY <1>2, <1>3, <1>4 DEF Enough

LEMMA StaysEnough ==
  ASSUME IInv, IInv', NoLostWakeup, NEW f, Stays(f),
         \/ f = Context(RunningThread)
         \/ f.pc # "sema_down" /\ Context(RunningThread).pc # "sema_down",
         \A s \in AllSema : value'[s] <= value[s]
  PROVE  NoLostWakeup'
<1>1. \A t \in Thread, s \in AllSema : InDown(t, s)' <=> InDown(t, s)
  BY DEF Stays, InDown
<1>2. \A s \in AllSema : Enough(s)
  BY DEF NoLostWakeup, Enough
<1>3. \A s \in AllSema : waiters'[s] = waiters[s]
  BY DEF Stays
<1>4. \A s \in AllSema : Enough(s)'
  BY <1>1, <1>2, <1>3, EnoughKept
<1> QED BY <1>4 DEF NoLostWakeup, Enough

(* The running thread's and the others' contexts after a switch. *)
LEMMA LeavesDown ==
  ASSUME IInv, NEW left \in {"BLOCKED", "READY", "DYING"}, NEW rl, NEW f,
         Leaves(left, rl, f), left = "DYING" => f.pc # "sema_down"
  PROVE  \A s \in AllSema : \A t \in Thread :
           InDown(t, s)' <=> IF t = RunningThread THEN f.pc = "sema_down" /\ f.arg = s
                                                  ELSE InDown(t, s)
<1>1. PICK run \in Thread :
        /\ run = RunningThread /\ Context(run)' = LeftFrame(run, left, f)
        /\ \A t \in Thread \ {run} : Context(t)' = Context(t)
  BY DEF Leaves, Switched
<1>2. \A s : LeftFrame(run, left, f).pc = "sema_down" /\ LeftFrame(run, left, f).arg = s
             <=> f.pc = "sema_down" /\ f.arg = s
  BY DEF LeftFrame, NoFrame
<1> QED BY <1>1, <1>2 DEF InDown

LEMMA SwitchEnough ==
  ASSUME IInv, IInv', NoLostWakeup,
         NEW left \in {"BLOCKED", "READY", "DYING"}, NEW rl, NEW f, Leaves(left, rl, f),
         \/ f = Context(RunningThread) /\ left = "READY"
         \/ f.pc # "sema_down" /\ Context(RunningThread).pc # "sema_down",
         UNCHANGED <<waiters, value>>
  PROVE  NoLostWakeup'
<1>1. \A s \in AllSema : \A t \in Thread : InDown(t, s)' <=> InDown(t, s)
  BY LeavesDown DEF InDown
<1>2. \A s \in AllSema : Enough(s)
  BY DEF NoLostWakeup, Enough
<1>3. \A s \in AllSema : value'[s] <= value[s]
  BY DEF IInv, TypeOK
<1>4. \A s \in AllSema : Enough(s)'
  BY <1>1, <1>2, <1>3, EnoughKept
<1> QED BY <1>4 DEF NoLostWakeup, Enough

(* A pass of sema_down() takes a unit with the thread that came for it, or   *)
(* finds none and so has nothing to lose.                                    *)
LEMMA DownEnough ==
  ASSUME IInv, IInv', NoLostWakeup, ~was_irq_generated,
         NEW s \in AllSema, NEW level \in Level,
         cpu.pc \in {"user", "thread_start_wait", "sema_down"},
         cpu.pc = "sema_down" => cpu.arg = s,
         SemaDownPass(s, "sema_down", "user", level)
  PROVE  NoLostWakeup'
<1>0. /\ \A r \in AllSema : Enough(r)
      /\ value \in [AllSema -> Nat] /\ waiters \in [AllSema -> Seq(Thread)]
      /\ value' \in [AllSema -> Nat]
  BY DEF NoLostWakeup, Enough, IInv, TypeOK
<1>1. PICK run \in Thread : run = RunningThread /\ Context(run) = cpu
  BY CpuContext
<1>2. CASE value[s] > 0
  <2>1. /\ Stays(cpu') /\ cpu'.pc = "user" /\ value' = [value EXCEPT ![s] = @ - 1]
    BY <1>2, TakeStays
  <2>2. \A t \in Thread, r \in AllSema : InDown(t, r)' <=> InDown(t, r) /\ t # run
    BY <1>1, <2>1 DEF Stays, InDown
  <2>3. ASSUME NEW r \in AllSema, r # s PROVE Enough(r)'
    <3>1. \A t \in Thread : InDown(t, r)' <=> InDown(t, r)
      BY <1>1, <2>2, <2>3 DEF InDown
    <3>2. waiters'[r] = waiters[r] /\ value'[r] <= value[r]
      BY <1>0, <2>1, <2>3 DEF Stays
    <3> QED BY <1>0, <3>1, <3>2, EnoughKept
  <2>4. Enough(s)'
    <3>1. Down(s)' = Down(s) \ {run}
      BY <2>2 DEF Down
    <3>2. waiters'[s] = waiters[s] /\ value'[s] = value[s] - 1 /\ value[s] \in Nat
      BY <1>0, <2>1 DEF Stays
    <3>3. Woken(s)' = Woken(s) \ {run}
      BY <3>1, <3>2, WokenDown, WokenDownNext DEF WokenIsDown
    <3>4. Cardinality(Woken(s)') >= Cardinality(Woken(s)) - 1
      BY <3>3, WokenFinite, FS_RemoveElement
    <3>5. Cardinality(Woken(s)') \in Nat /\ Cardinality(Woken(s)) \in Nat
      BY WokenFinite
    <3> QED BY <1>0, <3>2, <3>4, <3>5 DEF Enough
  <2> QED BY <2>3, <2>4 DEF NoLostWakeup, Enough
<1>3. CASE ~(value[s] > 0)
  <2>1. PICK f \in Frame : /\ f.pc = "sema_down" /\ f.arg = s
                           /\ Leaves("BLOCKED", ready_list, f)
    BY <1>3, DownLeaves
  <2>2. /\ waiters' = [waiters EXCEPT ![s] = Append(waiters[s], RunningThread)]
        /\ value' = value
    BY <1>3, DownLeaves
  <2>3. ASSUME NEW r \in AllSema, r # s PROVE Enough(r)'
    <3>1. \A t \in Thread : InDown(t, r)' <=> InDown(t, r)
      <4>1. \A t \in Thread : InDown(t, r)' <=> IF t = RunningThread
                                                THEN f.pc = "sema_down" /\ f.arg = r
                                                ELSE InDown(t, r)
        BY <2>1, LeavesDown
      <4> QED BY <1>1, <2>1, <2>3, <4>1 DEF InDown
    <3>2. waiters'[r] = waiters[r] /\ value'[r] <= value[r]
      BY <1>0, <2>2, <2>3
    <3> QED BY <1>0, <3>1, <3>2, EnoughKept
  <2>4. Enough(s)'
    <3>1. value'[s] = 0
      BY <1>0, <1>3, <2>2
    <3>2. Cardinality(Woken(s)') \in Nat
      BY WokenFinite
    <3> QED BY <3>1, <3>2 DEF Enough
  <2> QED BY <2>3, <2>4 DEF NoLostWakeup, Enough
<1> QED BY <1>2, <1>3

(* sema_up() adds a unit and, if anyone waits, a woken thread. *)
LEMMA UpEnough ==
  ASSUME IInv, IInv', NoLostWakeup, ~was_irq_generated, cpu.pc # "sema_down",
         NEW s \in AllSema, NEW label, label # "sema_down",
         IF SemaUpOK(s) THEN SemaUpTo(s, label) ELSE Panic
  PROVE  NoLostWakeup'
<1>0. /\ \A r \in AllSema : Enough(r)
      /\ value \in [AllSema -> Nat] /\ waiters \in [AllSema -> Seq(Thread)]
  BY DEF NoLostWakeup, Enough, IInv, TypeOK
<1>1. /\ value' = [value EXCEPT ![s] = @ + 1]
      /\ cpu'.pc # "sema_down" /\ Context(RunningThread).pc # "sema_down"
      /\ \/ waiters[s] = <<>> /\ Stays(cpu')
         \/ /\ waiters[s] # <<>> /\ waiters' = [waiters EXCEPT ![s] = Tail(@)]
            /\ \E w \in Thread : w = Head(waiters[s]) /\ Awakens(w, cpu')
  BY SemaUpEffect
<1>2. \A t \in Thread, r \in AllSema : InDown(t, r)' <=> InDown(t, r)
  BY <1>1 DEF Stays, Awakens, InDown
<1>3. ASSUME NEW r \in AllSema, r # s PROVE Enough(r)'
  <2>1. waiters'[r] = waiters[r] /\ value'[r] <= value[r]
    BY <1>0, <1>1, <1>3 DEF Stays
  <2> QED BY <1>0, <1>2, <2>1, EnoughKept
<1>4. Enough(s)'
  <2>1. CASE waiters[s] = <<>>
    BY <1>1, <2>1 DEF Stays, Enough
  <2>2. CASE waiters[s] # <<>>
    <3>1. PICK w \in Thread : w = Head(waiters[s])
      BY <1>1, <2>2
    <3>2. waiters'[s] = Tail(waiters[s]) /\ value'[s] = value[s] + 1 /\ value[s] \in Nat
      BY <1>0, <1>1, <2>2
    <3>3. IsInjective(waiters[s]) /\ Range(waiters[s]) \subseteq Down(s)
      BY DEF IInv, WaitListExact, Down, InDown
    <3>4. /\ w \in Range(waiters[s])
          /\ Range(Tail(waiters[s])) = Range(waiters[s]) \ {w}
      BY <1>0, <2>2, <3>1, <3>3, RangeTail
    <3>5. Down(s)' = Down(s)
      BY <1>2 DEF Down
    <3>6. Woken(s) = Down(s) \ Range(waiters[s])
      BY WokenDown DEF WokenIsDown
    <3>7. Woken(s)' = Down(s) \ Range(Tail(waiters[s]))
      BY <3>2, <3>5, WokenDownNext DEF WokenIsDown
    <3>8. Woken(s)' = Woken(s) \cup {w} /\ w \notin Woken(s)
      BY <3>3, <3>4, <3>6, <3>7
    <3>9. Cardinality(Woken(s)') = Cardinality(Woken(s)) + 1
      BY <3>8, WokenFinite, FS_AddElement
    <3>10. Cardinality(Woken(s)) \in Nat
      BY WokenFinite
    <3> QED BY <1>0, <2>2, <3>2, <3>9, <3>10 DEF Enough
  <2> QED BY <2>1, <2>2
<1> QED BY <1>3, <1>4 DEF NoLostWakeup, Enough

LEMMA WakeupStep ==
  ASSUME IInv, IInv', NoLostWakeup, [Next]_vars
  PROVE  NoLostWakeup'
<1>0. /\ \A r \in AllSema : Enough(r)
      /\ value \in [AllSema -> Nat]
      /\ UNCHANGED value => \A r \in AllSema : value'[r] <= value[r]
  BY DEF NoLostWakeup, Enough, IInv, TypeOK
<1>1. ASSUME UNCHANGED <<waiters, value>>,
             \A t \in Thread, s \in AllSema : InDown(t, s)' <=> InDown(t, s)
      PROVE  NoLostWakeup'
  <2>1. \A s \in AllSema : Enough(s)'
    BY <1>0, <1>1, EnoughKept
  <2> QED BY <2>1 DEF NoLostWakeup, Enough
<1>2. CASE ThreadCreate \/ ThreadStart
  <2>1. /\ UNCHANGED <<waiters, value>>
        /\ \A t \in Thread, s \in AllSema : InDown(t, s)' <=> InDown(t, s)
    BY <1>2, CreateEffect DEF InDown
  <2> QED BY <1>1, <2>1
<1>3. CASE ThreadExit
  BY <1>3, ExitLeaves, SwitchEnough
<1>4. CASE ThreadYield \/ IrqYield
  BY <1>4, YieldLeaves, SwitchEnough
<1>5. CASE IdleBlock
  BY <1>5, IdleBlockLeaves, SwitchEnough
<1>6. CASE IdleInit
  <2>1. /\ UNCHANGED <<waiters, value>>
        /\ \A t \in Thread, s \in AllSema : InDown(t, s)' <=> InDown(t, s)
    BY <1>6, IdleInitEffect DEF InDown
  <2> QED BY <1>1, <2>1
<1>7. CASE ThreadCreateUnblock
  <2>1. /\ UNCHANGED <<waiters, value>>
        /\ \A t \in Thread, s \in AllSema : InDown(t, s)' <=> InDown(t, s)
    BY <1>7, CreateAwakens DEF Awakens, InDown
  <2> QED BY <1>1, <2>1
<1>8. CASE \/ ThreadCreateFails \/ KernelThread \/ ThreadYieldReturn \/ IdleResume
           \/ \E level \in TaskLevel : InterruptsSetLevel(level)
           \/ \E s \in Sema : SemaTryDown(s)
  <2>1. /\ Stays(cpu') /\ cpu'.pc # "sema_down" /\ Context(RunningThread).pc # "sema_down"
        /\ \A s \in AllSema : value'[s] <= value[s]
    BY <1>8, RegisterStays
  <2> QED BY <2>1, StaysEnough
<1>9. CASE IrqDispatch \/ IrqReturn
  <2>1. Stays(Context(RunningThread)) /\ UNCHANGED value
    BY <1>9, IrqStays
  <2> QED BY <1>0, <2>1, StaysEnough
<1>10. CASE ThreadStartWait \/ SemaDownRetry \/ \E s \in Sema : SemaDown(s)
  BY <1>10, SemaDownCalled, DownEnough
<1>11. CASE IdleSemaUp \/ \E s \in Sema : SemaUp(s)
  <2>1. PICK s \in AllSema, label \in {"user", "idle_loop"} :
          /\ ~was_irq_generated /\ cpu.pc # "sema_down"
          /\ IF SemaUpOK(s) THEN SemaUpTo(s, label) ELSE Panic
    BY <1>11, SemaUpCalled
  <2> QED BY <2>1, UpEnough
<1>12. CASE UNCHANGED vars
  <2>1. /\ UNCHANGED <<waiters, value>>
        /\ \A t \in Thread, s \in AllSema : InDown(t, s)' <=> InDown(t, s)
    BY <1>12 DEF vars, threadVars, irqVars, semaVars, InDown, Context, RunningThread
  <2> QED BY <1>1, <2>1
<1> QED
  BY <1>2, <1>3, <1>4, <1>5, <1>6, <1>7, <1>8, <1>9, <1>10, <1>11, <1>12
  DEF Next, TaskStep, KernelStep, IrqEnd

(* While threads wait on a semaphore, every unit of its value has a woken    *)
(* thread coming for it: sema_up() never leaves a sleeper behind, whoever    *)
(* takes units in between through sema_down() or sema_try_down().            *)
THEOREM WakeupsKept == Spec => []NoLostWakeup
<1>1. Init => NoLostWakeup
  BY DEF Init, NoLostWakeup
<1>2. IInv /\ IInv' /\ NoLostWakeup /\ [Next]_vars => NoLostWakeup'
  BY WakeupStep
<1> QED
  BY <1>1, <1>2, Invariance, PTL DEF Spec

-----------------------------------------------------------------------------
(* allocate_tid() hands out numbers above those in use. *)
TidsBelow == \A t \in all_list : tid[t] < next_tid
TidsApart == \A t, u \in all_list : tid[t] = tid[u] => t = u

(* Only allocate_tid() changes tids, and only for a thread that joins        *)
(* all_list.                                                                 *)
LEMMA TidStep ==
  ASSUME TypeOK, [Next]_vars
  PROVE  \/ UNCHANGED <<tid, next_tid>> /\ all_list' \subseteq all_list
         \/ \E n \in Page : /\ tid' = [tid EXCEPT ![n] = next_tid]
                            /\ next_tid' = next_tid + 1
                            /\ all_list' = all_list \cup {n}
<1> USE DEF Panic, threadVars
<1>1. ASSUME NEW s, NEW level, SemaDownPass(s, "sema_down", "user", level)
      PROVE  UNCHANGED <<tid, next_tid, all_list>>
  BY <1>1 DEF SemaDownPass
<1>2. ASSUME NEW s, NEW label, SemaUpTo(s, label)
      PROVE  UNCHANGED <<tid, next_tid, all_list>>
  BY <1>2 DEF SemaUpTo
<1>3. CASE ThreadCreate \/ ThreadStart
  BY <1>3 DEF ThreadCreate, ThreadStart, NewThread, AllocateTid
<1>4. CASE ThreadExit
  BY <1>4 DEF ThreadExit
<1>5. CASE ThreadCreateFails \/ ThreadYield \/ (\E level \in TaskLevel : InterruptsSetLevel(level))
  BY <1>5 DEF ThreadCreateFails, ThreadYield, InterruptsSetLevel
<1>6. CASE \E s \in Sema : SemaDown(s) \/ SemaTryDown(s) \/ SemaUp(s)
  BY <1>1, <1>2, <1>6 DEF SemaDown, SemaTryDown, SemaUp
<1>7. CASE ThreadStartWait \/ ThreadCreateUnblock \/ KernelThread \/ ThreadYieldReturn
           \/ SemaDownRetry
  BY <1>1, <1>7 DEF ThreadStartWait, ThreadCreateUnblock, KernelThread, ThreadYieldReturn,
                    SemaDownRetry
<1>8. CASE IdleInit \/ IdleSemaUp \/ IdleBlock \/ IdleResume
  BY <1>2, <1>8 DEF IdleInit, IdleSemaUp, IdleBlock, IdleResume
<1>9. CASE IrqDispatch \/ IrqReturn \/ IrqYield
  BY <1>9 DEF IrqDispatch, IrqReturn, IrqYield
<1>10. CASE UNCHANGED vars
  BY <1>10 DEF vars
<1> QED
  BY <1>3, <1>4, <1>5, <1>6, <1>7, <1>8, <1>9, <1>10 DEF Next, TaskStep, KernelStep, IrqEnd

(* all_list holds exactly the threads that are alive, under distinct tids,   *)
(* however often thread_schedule_tail() frees a page and thread_create()     *)
(* gets it back.                                                             *)
THEOREM TidsDistinct == Spec => []AllListExact
<1>1. Init => TidsBelow /\ TidsApart
  BY DEF Init, TidsBelow, TidsApart, Thread
<1>2. TypeOK /\ TidsBelow /\ TidsApart /\ [Next]_vars => (TidsBelow /\ TidsApart)'
  <2> SUFFICES ASSUME TypeOK, TidsBelow, TidsApart, [Next]_vars
               PROVE  TidsBelow' /\ TidsApart'
    OBVIOUS
  <2>1. tid \in [Thread -> Nat] /\ next_tid \in Nat /\ all_list \in SUBSET Thread
    BY DEF TypeOK
  <2>2. CASE UNCHANGED <<tid, next_tid>> /\ all_list' \subseteq all_list
    BY <2>2 DEF TidsBelow, TidsApart
  <2>3. ASSUME NEW n \in Page, tid' = [tid EXCEPT ![n] = next_tid],
               next_tid' = next_tid + 1, all_list' = all_list \cup {n}
        PROVE  TidsBelow' /\ TidsApart'
    <3>1. \A t \in Thread : tid'[t] = IF t = n THEN next_tid ELSE tid[t]
      BY <2>1, <2>3
    <3>2. n \in Thread
      BY DEF Thread
    <3> QED BY <2>1, <2>3, <3>1, <3>2 DEF TidsBelow, TidsApart
  <2> QED BY <2>2, <2>3, TidStep
<1>3. IInv /\ TidsApart => AllListExact
  BY DEF IInv, TidsApart, AllListExact
<1> QED
  BY <1>1, <1>2, <1>3, TypeCorrect, Invariance, PTL DEF Spec
=============================================================================
