------------------------------- MODULE Synch -------------------------------
(***************************************************************************)
(* Locks and condition variables (threads/synch.c), as threads use them    *)
(* with IRQs on.  sema_down(), sema_try_down() and sema_up() run masked    *)
(* and are single steps (module Threads); between any two of them a tick   *)
(* may preempt the thread, so any thread that is not asleep may take the   *)
(* next step.  One lock protects all condition variables, as cond_wait()   *)
(* requires.  Tasks bracket their calls as synch.h asks; the ASSERTs check *)
(* that the code then agrees with them about who holds the lock.           *)
(***************************************************************************)
EXTENDS Naturals, Sequences, FiniteSets, Functions

CONSTANTS Thread, Cond, NULL,
          Lock          \* names the semaphore inside struct lock

(* The semaphore of the struct semaphore_elem on a thread's stack is named  *)
(* by the thread: it waits in one cond_wait() at a time.                    *)
Semaphore == Thread \cup {Lock}

ASSUME ThreadAssumption == Thread # {} /\ Cond # {}
ASSUME NameAssumption == Lock \notin Thread /\ NULL \notin Thread /\ NULL \notin Cond

PC == {"user",          \* outside the monitor
       "lock_down",     \* lock_acquire(): at sema_down(&lock->semaphore)
       "set_holder",    \* lock_acquire(): at lock->holder = thread_current()
       "critical",      \* holds the lock
       "lock_up",       \* lock_release(): at sema_up()
       "cond_release",  \* cond_wait(): at lock_release(lock)
       "cond_up",       \* cond_wait(): in lock_release(), at sema_up()
       "cond_down",     \* cond_wait(): at sema_down(&waiter.semaphore)
       "cond_acquire",  \* cond_wait(): at lock_acquire(lock)
       "broadcast"}     \* cond_broadcast(): at the loop test

VARIABLES value, waiters,   \* struct semaphore
          holder,           \* struct lock
          cond_waiters,     \* struct condition
          asleep,           \* threads in thread_block()
          pc, cond,         \* where each thread is, and the COND it passed
          panicked

vars == <<value, waiters, holder, cond_waiters, asleep, pc, cond, panicked>>

TypeOK ==
  /\ value \in [Semaphore -> Nat]
  /\ waiters \in [Semaphore -> Seq(Thread)]
  /\ holder \in Thread \cup {NULL}
  /\ cond_waiters \in [Cond -> Seq(Thread)]
  /\ asleep \in SUBSET Thread
  /\ pc \in [Thread -> PC]
  /\ cond \in [Thread -> Cond \cup {NULL}]
  /\ panicked \in BOOLEAN

(* lock_init() and cond_init(). *)
Init ==
  /\ value = [s \in Semaphore |-> IF s = Lock THEN 1 ELSE 0]
  /\ waiters = [s \in Semaphore |-> <<>>]
  /\ holder = NULL
  /\ cond_waiters = [c \in Cond |-> <<>>]
  /\ asleep = {}
  /\ pc = [t \in Thread |-> "user"]
  /\ cond = [t \in Thread |-> NULL]
  /\ panicked = FALSE

-----------------------------------------------------------------------------
At(t, label) == ~panicked /\ t \notin asleep /\ pc[t] = label

Goto(t, label) == pc' = [pc EXCEPT ![t] = label]

Panic == panicked' = TRUE /\ UNCHANGED <<value, waiters, holder, cond_waiters,
                                         asleep, pc, cond>>

(* lock_held_by_current_thread(). *)
HeldBy(t) == holder = t

(* The test of sema_down() and sema_try_down(). *)
Available(s) == value[s] > 0

(* One pass of sema_down(S) by T: take a unit and go on at LABEL, or sleep   *)
(* and test again when woken.                                                *)
SemaDown(t, s, label) ==
  IF Available(s)
  THEN /\ value' = [value EXCEPT ![s] = @ - 1]
       /\ Goto(t, label)
       /\ UNCHANGED <<waiters, asleep>>
  ELSE /\ waiters' = [waiters EXCEPT ![s] = Append(@, t)]
       /\ asleep' = asleep \cup {t}
       /\ UNCHANGED <<value, pc>>

(* sema_up(S): thread_unblock() the first waiter, if there is one. *)
SemaUpSilent(s) ==                      \* mutant: nobody is unblocked
  value' = [value EXCEPT ![s] = @ + 1] /\ UNCHANGED <<waiters, asleep>>
SemaUpKeepsFirst(s) ==                  \* mutant: the first waiter is not popped
  /\ value' = [value EXCEPT ![s] = @ + 1]
  /\ asleep' = asleep \ {waiters[s][i] : i \in DOMAIN waiters[s] \cap {1}}
  /\ UNCHANGED waiters
SemaUp(s) ==
  /\ value' = [value EXCEPT ![s] = @ + 1]
  /\ IF waiters[s] = <<>>
     THEN UNCHANGED <<waiters, asleep>>
     ELSE /\ waiters' = [waiters EXCEPT ![s] = Tail(@)]
          /\ asleep' = asleep \ {Head(waiters[s])}

-----------------------------------------------------------------------------
(* lock_acquire(), called by a task: the ASSERT before sema_down(). *)
LockAcquire(t) ==
  /\ At(t, "user")
  /\ IF HeldBy(t) THEN Panic
     ELSE /\ Goto(t, "lock_down")
          /\ UNCHANGED <<value, waiters, holder, cond_waiters, asleep, cond,
                         panicked>>

(* lock_acquire(): sema_down(&lock->semaphore). *)
LockDown(t) ==
  /\ At(t, "lock_down")
  /\ SemaDown(t, Lock, "set_holder")
  /\ UNCHANGED <<holder, cond_waiters, cond, panicked>>

(* lock_acquire() or lock_try_acquire(): the holder is recorded, and a      *)
(* cond_wait() that was reacquiring the lock returns.                        *)
SetHolderForgotten(t) ==                \* mutant: holder is not assigned
  /\ At(t, "set_holder")
  /\ Goto(t, "critical")
  /\ cond' = [cond EXCEPT ![t] = NULL]
  /\ UNCHANGED <<value, waiters, holder, cond_waiters, asleep, panicked>>
SetHolder(t) ==
  /\ At(t, "set_holder")
  /\ holder' = t
  /\ Goto(t, "critical")
  /\ cond' = [cond EXCEPT ![t] = NULL]
  /\ UNCHANGED <<value, waiters, cond_waiters, asleep, panicked>>

(* lock_try_acquire() that gets the lock; one that does not changes nothing. *)
LockTryAcquire(t) ==
  /\ At(t, "user")
  /\ IF HeldBy(t) THEN Panic
     ELSE /\ Available(Lock)
          /\ value' = [value EXCEPT ![Lock] = @ - 1]
          /\ Goto(t, "set_holder")
          /\ UNCHANGED <<waiters, holder, cond_waiters, asleep, cond, panicked>>

(* lock_release() by T at FROM: the ASSERT and lock->holder = NULL. *)
ReleaseFrom(t, from, label) ==
  /\ At(t, from)
  /\ IF HeldBy(t)
     THEN /\ holder' = NULL
          /\ Goto(t, label)
          /\ UNCHANGED <<value, waiters, cond_waiters, asleep, cond, panicked>>
     ELSE Panic

(* lock_release() by T at FROM: sema_up(&lock->semaphore). *)
UpFrom(t, from, label) ==
  /\ At(t, from)
  /\ SemaUp(Lock)
  /\ Goto(t, label)
  /\ UNCHANGED <<holder, cond_waiters, cond, panicked>>

(* lock_release(), called by a task. *)
LockReleaseTwice(t) == UpFrom(t, "critical", "lock_up")  \* mutant: sema_up() twice
LockRelease(t) == ReleaseFrom(t, "critical", "lock_up")
LockUp(t) == UpFrom(t, "lock_up", "user")

-----------------------------------------------------------------------------
(* cond_wait(C): the ASSERT, sema_init() of the semaphore on T's stack, and  *)
(* its place on the condition's list.                                        *)
CondWait(t, c) ==
  /\ At(t, "critical")
  /\ IF HeldBy(t)
     THEN /\ value' = [value EXCEPT ![t] = 0]
          /\ waiters' = [waiters EXCEPT ![t] = <<>>]
          /\ cond_waiters' = [cond_waiters EXCEPT ![c] = Append(@, t)]
          /\ cond' = [cond EXCEPT ![t] = c]
          /\ Goto(t, "cond_release")
          /\ UNCHANGED <<holder, asleep, panicked>>
     ELSE Panic

(* cond_wait(): lock_release(lock). *)
CondRelease(t) == ReleaseFrom(t, "cond_release", "cond_up")
CondUp(t) == UpFrom(t, "cond_up", "cond_down")

(* cond_wait(): sema_down(&waiter.semaphore). *)
CondDown(t) ==
  /\ At(t, "cond_down")
  /\ SemaDown(t, t, "cond_acquire")
  /\ UNCHANGED <<holder, cond_waiters, cond, panicked>>

(* cond_wait(): the ASSERT of lock_acquire(lock). *)
CondAcquire(t) ==
  /\ At(t, "cond_acquire")
  /\ IF HeldBy(t) THEN Panic
     ELSE /\ Goto(t, "lock_down")
          /\ UNCHANGED <<value, waiters, holder, cond_waiters, asleep, cond,
                         panicked>>

(* The body of cond_signal(C) when a thread waits: pop it and up its         *)
(* semaphore.                                                                *)
SignalKeepsFirst(c) ==                  \* mutant: the thread stays on the list
  /\ cond_waiters[c] # <<>>
  /\ SemaUp(Head(cond_waiters[c]))
  /\ UNCHANGED cond_waiters
SignalLast(c) ==                        \* mutant: list_pop_back()
  LET last == Len(cond_waiters[c])
  IN  /\ last > 0
      /\ cond_waiters' = [cond_waiters EXCEPT ![c] = SubSeq(@, 1, last - 1)]
      /\ SemaUp(cond_waiters[c][last])
SignalFirst(c) ==
  /\ cond_waiters[c] # <<>>
  /\ cond_waiters' = [cond_waiters EXCEPT ![c] = Tail(@)]
  /\ SemaUp(Head(cond_waiters[c]))

(* cond_signal(C) by a task; with nobody waiting it changes nothing. *)
CondSignal(t, c) ==
  /\ At(t, "critical")
  /\ IF HeldBy(t)
     THEN /\ SignalFirst(c)
          /\ UNCHANGED <<holder, pc, cond, panicked>>
     ELSE Panic

(* cond_broadcast(C) is called. *)
CondBroadcast(t, c) ==
  /\ At(t, "critical")
  /\ Goto(t, "broadcast")
  /\ cond' = [cond EXCEPT ![t] = c]
  /\ UNCHANGED <<value, waiters, holder, cond_waiters, asleep, panicked>>

(* cond_broadcast(): one round of the loop, a call of cond_signal(). *)
BroadcastOnce(t) ==                     \* mutant: IF in place of WHILE
  /\ At(t, "broadcast")
  /\ SignalFirst(cond[t])
  /\ Goto(t, "critical")
  /\ cond' = [cond EXCEPT ![t] = NULL]
  /\ UNCHANGED <<holder, panicked>>
BroadcastSignal(t) ==
  /\ At(t, "broadcast")
  /\ cond_waiters[cond[t]] # <<>>
  /\ IF HeldBy(t)
     THEN /\ SignalFirst(cond[t])
          /\ UNCHANGED <<holder, pc, cond, panicked>>
     ELSE Panic

(* cond_broadcast(): the list is empty. *)
BroadcastEnd(t) ==
  /\ At(t, "broadcast")
  /\ cond_waiters[cond[t]] = <<>>
  /\ Goto(t, "critical")
  /\ cond' = [cond EXCEPT ![t] = NULL]
  /\ UNCHANGED <<value, waiters, holder, cond_waiters, asleep, panicked>>

-----------------------------------------------------------------------------
(* Calls a task decides to make. *)
TaskStep(t) ==
  \/ LockAcquire(t) \/ LockTryAcquire(t) \/ LockRelease(t)
  \/ \E c \in Cond : CondWait(t, c) \/ CondSignal(t, c) \/ CondBroadcast(t, c)

(* Code of synch.c that T is in the middle of. *)
Advance(t) ==
  \/ LockDown(t) \/ SetHolder(t) \/ LockUp(t)
  \/ CondRelease(t) \/ CondUp(t) \/ CondDown(t) \/ CondAcquire(t)
  \/ BroadcastSignal(t) \/ BroadcastEnd(t)

Next == \E t \in Thread : TaskStep(t) \/ Advance(t)

Spec == Init /\ [][Next]_vars

(* The scheduler runs every ready thread (ReadyRuns of module Threads), so a *)
(* thread in the middle of a function goes on; tasks owe nothing.            *)
FairSpec == Spec /\ \A t \in Thread : WF_vars(Advance(t))

-----------------------------------------------------------------------------
(* Properties. *)

(* Where holder names the thread, and where the thread has the lock's unit. *)
Holding == {"critical", "cond_release", "broadcast"}
Owning == Holding \cup {"set_holder", "lock_up", "cond_up"}
Owner == {t \in Thread : pc[t] \in Owning}

(* Where a cond_wait() is between joining the list and being signalled off   *)
(* its semaphore.                                                            *)
CondWaiting == {"cond_release", "cond_up", "cond_down"}

(* No ASSERT of synch.c fires for tasks that bracket their calls: the code   *)
(* and the task always agree on whether the task holds the lock.             *)
NoPanic == ~panicked

(* "A lock can be held by at most a single thread at any given time": the    *)
(* one unit of the semaphore is free or with one thread, although holder is  *)
(* written before sema_up() and after sema_down(), outside masked sections.  *)
MutualExclusion ==
  /\ \A t, u \in Owner : t = u
  /\ value[Lock] = IF Owner = {} THEN 1 ELSE 0

(* lock_held_by_current_thread() is exact for the thread that asks, and      *)
(* holder never names a thread that has gone on.                             *)
HolderExact == \A t \in Thread : holder = t <=> pc[t] \in Holding

(* A sleeping thread is on exactly one semaphore's list, once.               *)
SleepersQueued ==
  /\ \A s \in Semaphore : IsInjective(waiters[s])
  /\ \A t \in Thread, s \in Semaphore :
       t \in Range(waiters[s]) <=>
         /\ t \in asleep
         /\ \/ pc[t] = "lock_down" /\ s = Lock
            \/ pc[t] = "cond_down" /\ s = t

(* The struct semaphore_elem on a thread's stack lives exactly as long as    *)
(* its cond_wait(), and its semaphore never has a second unit.  A thread     *)
(* that has joined a list and not yet given the lock up is the last there:   *)
(* nobody else can join while it has the lock.                               *)
Joined(t) == pc[t] \notin {"cond_release", "cond_up"}
WaitersExact ==
  /\ \A t \in Thread :
       /\ value[t] \in {0, 1}
       /\ t \in asleep => pc[t] \in {"lock_down", "cond_down"}
       /\ pc[t] \in CondWaiting \cup {"cond_acquire", "broadcast"} => cond[t] # NULL
       /\ pc[t] \in {"user", "critical", "lock_up"} => cond[t] = NULL
  /\ \A c \in Cond : \A i \in DOMAIN cond_waiters[c] :
       Joined(cond_waiters[c][i]) \/ i = Len(cond_waiters[c])

(* What struct lock, struct semaphore and struct condition record is what    *)
(* the threads do.                                                           *)
Bookkeeping == TypeOK /\ HolderExact /\ SleepersQueued /\ WaitersExact

(* No lost wakeup: a free lock with sleepers has a thread awake to take it.  *)
NoLostWakeup ==
  waiters[Lock] # <<>> /\ value[Lock] > 0
    => \E t \in Thread : pc[t] = "lock_down" /\ t \notin asleep

(* No lost signal: a thread in cond_wait() is either still on the list of    *)
(* the condition it named, once, or its own semaphore has been upped and it  *)
(* is awake to take the unit, even if it was signalled before it slept.      *)
NoLostSignal ==
  /\ \A c \in Cond : IsInjective(cond_waiters[c])
  /\ \A t \in Thread, c \in Cond :
       t \in Range(cond_waiters[c]) <=>
         pc[t] \in CondWaiting /\ cond[t] = c /\ value[t] = 0
  /\ \A t \in Thread : value[t] = 1 => pc[t] = "cond_down" /\ t \notin asleep

(* synch.c is a Mesa monitor: cond_wait() "atomically releases LOCK and      *)
(* waits for COND" although it joins the list, releases and sleeps in four   *)
(* separate steps.  A thread waits once it has given the lock up; the one    *)
(* that has not is at the end of its list (WaitersExact) and is left out.    *)
AllJoined(q) == q = <<>> \/ Joined(q[Len(q)])
Inside == IF Owner = {} THEN NULL ELSE CHOOSE t \in Thread : t \in Owner
Waiting == [c \in Cond |-> IF AllJoined(cond_waiters[c]) THEN cond_waiters[c]
                           ELSE SubSeq(cond_waiters[c], 1, Len(cond_waiters[c]) - 1)]
Returning == {t \in Thread : /\ cond[t] # NULL
                             /\ pc[t] \in {"cond_down", "cond_acquire", "lock_down"}
                             /\ \A c \in Cond : t \notin Range(cond_waiters[c])}
M == INSTANCE Monitor WITH inside <- Inside, waiting <- Waiting, returning <- Returning
ImplementsMonitor == M!MonitorSpec

(* A free lock that somebody asks for is taken. *)
LockTaken ==
  (value[Lock] = 1 /\ \E t \in Thread : pc[t] = "lock_down") ~> (value[Lock] = 0)

(* A signalled thread leaves its sleep and asks for the lock; cond_signal()  *)
(* and cond_broadcast() wake the threads they promise to.                    *)
SignalledReturns ==
  \A t \in Thread : (value[t] = 1) ~> (pc[t] = "lock_down")
BroadcastWakesAll ==
  \A t, u \in Thread : (pc[u] = "broadcast" /\ t \in Range(cond_waiters[cond[u]]))
                          ~> (pc[t] = "lock_down")
=============================================================================
