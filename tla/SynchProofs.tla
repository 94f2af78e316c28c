---------------------------- MODULE SynchProofs ----------------------------
(***************************************************************************)
(* Locks and condition variables are correct for any number of threads and *)
(* conditions: the five invariants of the Synch run, together, are         *)
(* inductive.                                                              *)
(***************************************************************************)
EXTENDS Synch, DataLemmas

(* The inductive invariant.  None of its parts is inductive alone: the       *)
(* ASSERTs need HolderExact, which needs MutualExclusion; a signal finds the *)
(* waiter past lock_release() only because of MutualExclusion; and a wakeup  *)
(* reaches its thread only because of SleepersQueued.                        *)
SInv == /\ NoPanic
        /\ MutualExclusion
        /\ Bookkeeping
        /\ NoLostWakeup
        /\ NoLostSignal

-----------------------------------------------------------------------------
(* The parts of the invariant, thread by thread. *)
Sole == /\ \A t, u \in Thread : pc[t] \in Owning /\ pc[u] \in Owning => t = u
        /\ value[Lock] \in {0, 1}
        /\ value[Lock] = 0 <=> \E t \in Thread : pc[t] \in Owning

(* MutualExclusion says the same of the set Owner. *)
LEMMA SoleOwner == MutualExclusion <=> Sole
<1>1. Owner = {} <=> ~ \E t \in Thread : pc[t] \in Owning
  BY DEF Owner
<1>2. (\A t, u \in Owner : t = u)
        <=> \A t, u \in Thread : pc[t] \in Owning /\ pc[u] \in Owning => t = u
  BY DEF Owner
<1>3. (value[Lock] = IF Owner = {} THEN 1 ELSE 0)
        <=> /\ value[Lock] \in {0, 1}
            /\ value[Lock] = 0 <=> \E t \in Thread : pc[t] \in Owning
  BY <1>1
<1> QED BY <1>2, <1>3 DEF MutualExclusion, Sole

(* The same in the next state. *)
LEMMA SoleOwnerNext == MutualExclusion' <=> Sole'
BY SoleOwner, PTL

-----------------------------------------------------------------------------
(* lock_init() and cond_init() establish the invariant. *)
LEMMA InitInv == ASSUME Init PROVE SInv
<1> USE ThreadAssumption, NameAssumption
<1>1. TypeOK
  BY EmptySeq DEF Init, TypeOK, Semaphore, PC
<1>2. Sole
  BY <1>1 DEF Init, Sole, Owning, Holding, Semaphore
<1>3. HolderExact
  BY DEF Init, HolderExact, Holding
<1>4. SleepersQueued
  BY RangeEmpty DEF Init, SleepersQueued, Semaphore
<1>5. WaitersExact
  BY DEF Init, WaitersExact, CondWaiting, Semaphore
<1>6. NoLostWakeup
  BY DEF Init, NoLostWakeup, Semaphore
<1>7. NoLostSignal
  BY RangeEmpty DEF Init, NoLostSignal, CondWaiting, Semaphore
<1> QED BY <1>1, <1>2, <1>3, <1>4, <1>5, <1>6, <1>7, SoleOwner
        DEF SInv, Bookkeeping, NoPanic, Init

-----------------------------------------------------------------------------
(* Steps that leave every queue alone: thread T, awake, goes on at LABEL.    *)
(* What such a step may do to the lock is left to the actions.               *)
Moves(t, label) ==
  /\ t \notin asleep
  /\ pc' = [pc EXCEPT ![t] = label]
  /\ UNCHANGED <<waiters, cond_waiters, asleep, panicked>>
  /\ TypeOK' /\ Sole' /\ HolderExact'
  /\ \A u \in Thread \ {t} : value'[u] = value[u] /\ cond'[u] = cond[u]
  /\ value'[t] = 0
  /\ value'[Lock] = 0 \/ (value'[Lock] = value[Lock] /\ pc[t] # "lock_down")
  /\ label \in CondWaiting <=> pc[t] \in CondWaiting /\ value[t] = 0
  /\ label \in CondWaiting => cond'[t] = cond[t]
  /\ label \in {"cond_acquire", "broadcast"} => cond'[t] # NULL
  /\ label \in {"user", "critical", "lock_up"} => cond'[t] = NULL
  /\ label \in {"cond_release", "cond_up"} => ~Joined(t)

(* Such a step keeps the invariant. *)
LEMMA MoveInv ==
  ASSUME SInv, NEW t \in Thread, NEW label \in PC, Moves(t, label)
  PROVE  SInv'
<1> USE NameAssumption DEF SInv, Bookkeeping, Moves
<1>1. SleepersQueued'
  BY DEF SleepersQueued, TypeOK
<1>2. WaitersExact'
  <2>1. ASSUME NEW u \in Thread
        PROVE  /\ value'[u] \in {0, 1}
               /\ u \in asleep' => pc'[u] \in {"lock_down", "cond_down"}
               /\ pc'[u] \in CondWaiting \cup {"cond_acquire", "broadcast"}
                    => cond'[u] # NULL
               /\ pc'[u] \in {"user", "critical", "lock_up"} => cond'[u] = NULL
    BY DEF WaitersExact, CondWaiting, TypeOK
  <2>2. \A u \in Thread : Joined(u) => Joined(u)'
    BY DEF Joined, TypeOK
  <2>3. ASSUME NEW c \in Cond, NEW i \in DOMAIN cond_waiters'[c]
        PROVE  Joined(cond_waiters[c][i])' \/ i = Len(cond_waiters'[c])
    <3>1. cond_waiters[c][i] \in Thread
      BY LenProperties, ElementOfSeq DEF TypeOK
    <3> QED BY <2>2, <3>1 DEF WaitersExact
  <2> QED BY <2>1, <2>3 DEF WaitersExact, CondWaiting
<1>3. NoLostWakeup'
  BY DEF NoLostWakeup, TypeOK
<1>4. NoLostSignal'
  BY DEF NoLostSignal, WaitersExact, CondWaiting, TypeOK
<1> QED BY <1>1, <1>2, <1>3, <1>4, SoleOwnerNext DEF NoPanic

(* What T can rely on where it is not waiting for a signal. *)
LEMMA Quiet ==
  ASSUME SInv, NEW t \in Thread, pc[t] # "cond_down"
  PROVE  value[t] = 0
BY DEF SInv, Bookkeeping, WaitersExact, NoLostSignal

(* lock_acquire(), lock_try_acquire() and the assignment of holder. *)
LEMMA AcquireInv ==
  ASSUME SInv, NEW t \in Thread,
         LockAcquire(t) \/ CondAcquire(t) \/ LockTryAcquire(t) \/ SetHolder(t)
  PROVE  SInv'
<1> USE NameAssumption DEF SInv, Bookkeeping
<1>0. Sole /\ TypeOK /\ ~panicked
  BY SoleOwner DEF NoPanic
<1>1. CASE LockAcquire(t)
  <2>1. /\ pc' = [pc EXCEPT ![t] = "lock_down"] /\ pc[t] = "user" /\ t \notin asleep
        /\ UNCHANGED <<value, waiters, holder, cond_waiters, asleep, cond, panicked>>
    BY <1>1 DEF LockAcquire, At, HeldBy, HolderExact, Holding, Goto
  <2>2. TypeOK' /\ Sole' /\ HolderExact'
    BY <1>0, <2>1 DEF TypeOK, PC, Sole, Owning, Holding, HolderExact
  <2>3. Moves(t, "lock_down")
    BY <1>0, <2>1, <2>2, Quiet DEF Moves, CondWaiting
  <2> QED BY <2>3, MoveInv DEF PC
<1>2. CASE CondAcquire(t)
  <2>1. /\ pc' = [pc EXCEPT ![t] = "lock_down"] /\ t \notin asleep
        /\ pc[t] = "cond_acquire"
        /\ UNCHANGED <<value, waiters, holder, cond_waiters, asleep, cond, panicked>>
    BY <1>2 DEF CondAcquire, At, HeldBy, HolderExact, Holding, Goto
  <2>2. TypeOK' /\ Sole' /\ HolderExact'
    BY <1>0, <2>1 DEF TypeOK, PC, Sole, Owning, Holding, HolderExact
  <2>3. Moves(t, "lock_down")
    BY <1>0, <2>1, <2>2, Quiet DEF Moves, CondWaiting
  <2> QED BY <2>3, MoveInv DEF PC
<1>3. CASE LockTryAcquire(t)
  <2>1. value[Lock] = 1
    BY <1>0, <1>3 DEF LockTryAcquire, At, HeldBy, HolderExact, Holding, Available, Sole
  <2>2. /\ pc' = [pc EXCEPT ![t] = "set_holder"] /\ pc[t] = "user" /\ t \notin asleep
        /\ value' = [value EXCEPT ![Lock] = 0]
        /\ UNCHANGED <<waiters, holder, cond_waiters, asleep, cond, panicked>>
    BY <1>0, <1>3, <2>1 DEF LockTryAcquire, At, HeldBy, HolderExact, Holding, Goto
  <2>3. TypeOK' /\ Sole' /\ HolderExact'
    BY <1>0, <2>1, <2>2 DEF TypeOK, PC, Sole, Owning, Holding, HolderExact, Semaphore
  <2>4. value'[Lock] = 0 /\ value'[t] = 0 /\ \A u \in Thread : value'[u] = value[u]
    BY <1>0, <2>2, Quiet DEF TypeOK, Semaphore
  <2>5. Moves(t, "set_holder")
    BY <1>0, <2>2, <2>3, <2>4 DEF Moves, CondWaiting
  <2> QED BY <2>5, MoveInv DEF PC
<1>4. CASE SetHolder(t)
  <2>1. /\ pc' = [pc EXCEPT ![t] = "critical"] /\ t \notin asleep
        /\ pc[t] = "set_holder" /\ holder' = t
        /\ cond' = [cond EXCEPT ![t] = NULL]
        /\ UNCHANGED <<value, waiters, cond_waiters, asleep, panicked>>
    BY <1>4 DEF SetHolder, At, Goto
  <2>2. TypeOK' /\ Sole'
    BY <1>0, <2>1 DEF TypeOK, PC, Sole, Owning, Holding
  <2>3. HolderExact'
    BY <1>0, <2>1 DEF TypeOK, Sole, Owning, Holding, HolderExact
  <2>4. value[t] = 0 /\ cond'[t] = NULL /\ \A u \in Thread \ {t} : cond'[u] = cond[u]
    BY <1>0, <2>1, Quiet DEF TypeOK
  <2>5. Moves(t, "critical")
    BY <1>0, <2>1, <2>2, <2>3, <2>4 DEF Moves, CondWaiting
  <2> QED BY <2>5, MoveInv DEF PC
<1> QED BY <1>1, <1>2, <1>3, <1>4

(* lock_release() up to lock->holder = NULL, from a task or cond_wait(). *)
LEMMA ReleaseInv ==
  ASSUME SInv, NEW t \in Thread, LockRelease(t) \/ CondRelease(t)
  PROVE  SInv'
<1> USE NameAssumption DEF SInv, Bookkeeping
<1>0. Sole /\ TypeOK /\ ~panicked
  BY SoleOwner DEF NoPanic
<1>1. PICK from \in {"critical", "cond_release"}, label \in {"lock_up", "cond_up"} :
        /\ from = "critical" <=> label = "lock_up"
        /\ ReleaseFrom(t, from, label)
  BY DEF LockRelease, CondRelease
<1>2. /\ pc' = [pc EXCEPT ![t] = label] /\ pc[t] = from /\ t \notin asleep
      /\ holder' = NULL
      /\ UNCHANGED <<value, waiters, cond_waiters, asleep, cond, panicked>>
  BY <1>1 DEF ReleaseFrom, At, HeldBy, HolderExact, Holding, Goto
<1>3. TypeOK' /\ Sole'
  BY <1>0, <1>1, <1>2 DEF TypeOK, PC, Sole, Owning, Holding
<1>4. HolderExact'
  BY <1>0, <1>1, <1>2 DEF TypeOK, Sole, Owning, Holding, HolderExact
<1>5. value[t] = 0
  BY <1>2, Quiet
<1>6. label \in {"cond_release", "cond_up"} => ~Joined(t)
  BY <1>1, <1>2 DEF Joined
<1>7. label = "lock_up" => cond'[t] = NULL
  BY <1>1, <1>2 DEF WaitersExact
<1>8. Moves(t, label)
  BY <1>0, <1>1, <1>2, <1>3, <1>4, <1>5, <1>6, <1>7 DEF Moves, CondWaiting
<1> QED BY <1>8, MoveInv DEF PC

(* cond_broadcast(): the call and the end of the loop. *)
LEMMA BroadcastInv ==
  ASSUME SInv, NEW t \in Thread, (\E c \in Cond : CondBroadcast(t, c)) \/ BroadcastEnd(t)
  PROVE  SInv'
<1> USE NameAssumption DEF SInv, Bookkeeping
<1>0. Sole /\ TypeOK /\ ~panicked
  BY SoleOwner DEF NoPanic
<1>1. PICK label \in {"broadcast", "critical"}, c \in Cond \cup {NULL} :
        /\ label = "critical" <=> c = NULL
        /\ pc' = [pc EXCEPT ![t] = label] /\ pc[t] \in {"critical", "broadcast"}
        /\ cond' = [cond EXCEPT ![t] = c] /\ t \notin asleep
        /\ UNCHANGED <<value, waiters, holder, cond_waiters, asleep, panicked>>
  <2>1. CASE \E c \in Cond : CondBroadcast(t, c)
    BY <2>1 DEF CondBroadcast, At, Goto
  <2>2. CASE BroadcastEnd(t)
    BY <2>2 DEF BroadcastEnd, At, Goto
  <2> QED BY <2>1, <2>2
<1>2. TypeOK' /\ Sole'
  BY <1>0, <1>1 DEF TypeOK, PC, Sole, Owning, Holding
<1>3. HolderExact'
  BY <1>0, <1>1 DEF TypeOK, Holding, HolderExact
<1>4. value[t] = 0
  BY <1>1, Quiet
<1>5. Moves(t, label)
  BY <1>0, <1>1, <1>2, <1>3, <1>4 DEF Moves, CondWaiting, TypeOK
<1> QED BY <1>5, MoveInv DEF PC

-----------------------------------------------------------------------------
(* sema_down(): taking a unit of the lock, or of the thread's own semaphore. *)
LEMMA TakeInv ==
  ASSUME SInv, NEW t \in Thread,
         \/ LockDown(t) /\ Available(Lock)
         \/ CondDown(t) /\ Available(t)
  PROVE  SInv'
<1> USE NameAssumption DEF SInv, Bookkeeping
<1>0. Sole /\ TypeOK /\ ~panicked
  BY SoleOwner DEF NoPanic
<1>1. CASE LockDown(t) /\ Available(Lock)
  <2>1. value[Lock] = 1
    BY <1>0, <1>1 DEF Available, Sole
  <2>2. /\ pc' = [pc EXCEPT ![t] = "set_holder"] /\ pc[t] = "lock_down"
        /\ t \notin asleep
        /\ value' = [value EXCEPT ![Lock] = 0]
        /\ UNCHANGED <<waiters, holder, cond_waiters, asleep, cond, panicked>>
    BY <1>0, <1>1, <2>1 DEF LockDown, SemaDown, At, Goto
  <2>3. TypeOK' /\ Sole' /\ HolderExact'
    BY <1>0, <2>1, <2>2 DEF TypeOK, PC, Sole, Owning, Holding, HolderExact, Semaphore
  <2>4. value'[Lock] = 0 /\ value'[t] = 0 /\ \A u \in Thread : value'[u] = value[u]
    BY <1>0, <2>2, Quiet DEF TypeOK, Semaphore
  <2>5. Moves(t, "set_holder")
    BY <2>2, <2>3, <2>4 DEF Moves, CondWaiting
  <2> QED BY <2>5, MoveInv DEF PC
<1>2. CASE CondDown(t) /\ Available(t)
  <2>1. value[t] = 1
    BY <1>0, <1>2 DEF Available, WaitersExact
  <2>2. /\ pc' = [pc EXCEPT ![t] = "cond_acquire"] /\ pc[t] = "cond_down"
        /\ t \notin asleep
        /\ value' = [value EXCEPT ![t] = 0]
        /\ UNCHANGED <<waiters, holder, cond_waiters, asleep, cond, panicked>>
    BY <1>0, <1>2, <2>1 DEF CondDown, SemaDown, At, Goto
  <2>3. TypeOK' /\ Sole' /\ HolderExact'
    BY <1>0, <2>1, <2>2 DEF TypeOK, PC, Sole, Owning, Holding, HolderExact, Semaphore
  <2>4. /\ value'[Lock] = value[Lock] /\ value'[t] = 0
        /\ \A u \in Thread \ {t} : value'[u] = value[u]
    BY <1>0, <2>2 DEF TypeOK, Semaphore
  <2>5. cond'[t] # NULL
    BY <2>2 DEF WaitersExact, CondWaiting
  <2>6. Moves(t, "cond_acquire")
    BY <1>0, <2>1, <2>2, <2>3, <2>4, <2>5 DEF Moves, CondWaiting
  <2> QED BY <2>6, MoveInv DEF PC
<1> QED BY <1>1, <1>2

(* sema_down(): the thread joins the semaphore's list and sleeps. *)
LEMMA SleepInv ==
  ASSUME SInv, NEW t \in Thread,
         \/ LockDown(t) /\ ~Available(Lock)
         \/ CondDown(t) /\ ~Available(t)
  PROVE  SInv'
<1> USE NameAssumption DEF SInv, Bookkeeping
<1>0. Sole /\ TypeOK /\ ~panicked
  BY SoleOwner DEF NoPanic
<1>1. PICK s \in Semaphore :
        /\ (s = Lock /\ pc[t] = "lock_down") \/ (s = t /\ pc[t] = "cond_down")
        /\ value[s] = 0 /\ t \notin asleep
        /\ waiters' = [waiters EXCEPT ![s] = Append(@, t)]
        /\ asleep' = asleep \cup {t}
        /\ UNCHANGED <<value, pc, holder, cond_waiters, cond, panicked>>
  <2>1. CASE LockDown(t) /\ ~Available(Lock)
    <3>1. Lock \in Semaphore /\ value[Lock] = 0
      BY <1>0, <2>1 DEF Available, Sole, Semaphore
    <3>2. /\ pc[t] = "lock_down" /\ t \notin asleep
          /\ waiters' = [waiters EXCEPT ![Lock] = Append(@, t)]
          /\ asleep' = asleep \cup {t}
          /\ UNCHANGED <<value, pc, holder, cond_waiters, cond, panicked>>
      BY <2>1 DEF LockDown, SemaDown, At
    <3> QED BY <3>1, <3>2
  <2>2. CASE CondDown(t) /\ ~Available(t)
    BY <1>0, <2>2 DEF CondDown, SemaDown, Available, At, Semaphore, WaitersExact
  <2> QED BY <2>1, <2>2
<1>2. /\ waiters[s] \in Seq(Thread) /\ Append(waiters[s], t) \in Seq(Thread)
      /\ waiters'[s] = Append(waiters[s], t)
      /\ \A r \in Semaphore \ {s} : waiters'[r] = waiters[r]
  BY <1>0, <1>1, AppendProperties DEF TypeOK
<1>3. TypeOK'
  BY <1>0, <1>1, <1>2 DEF TypeOK
<1>4. Sole' /\ HolderExact'
  BY <1>0, <1>1 DEF Sole, HolderExact
<1>5. SleepersQueued'
  <2>1. t \notin Range(waiters[s]) /\ IsInjective(waiters[s])
    BY <1>1 DEF SleepersQueued
  <2>2. IsInjective(waiters'[s]) /\ Range(waiters'[s]) = Range(waiters[s]) \cup {t}
    BY <1>2, <2>1, RangeAppend
  <2> QED BY <1>1, <1>2, <2>2 DEF SleepersQueued
<1>6. WaitersExact'
  BY <1>1 DEF WaitersExact, Joined
<1>7. NoLostWakeup'
  BY <1>1, <1>2 DEF NoLostWakeup, Semaphore
<1>8. NoLostSignal'
  BY <1>1 DEF NoLostSignal
<1> QED BY <1>1, <1>3, <1>4, <1>5, <1>6, <1>7, <1>8, SoleOwnerNext DEF NoPanic

(* sema_up(): one of the sleepers, if there are any, is awake and off the    *)
(* list; nobody else is touched.                                             *)
LEMMA UpEffect ==
  ASSUME TypeOK, SleepersQueued, NEW s \in Semaphore, SemaUp(s)
  PROVE  \E woken \in SUBSET Thread :
           /\ woken \subseteq Range(waiters[s])
           /\ waiters[s] # <<>> => woken # {}
           /\ \A u, v \in woken : u = v
           /\ asleep' = asleep \ woken
           /\ waiters' \in [Semaphore -> Seq(Thread)]
           /\ IsInjective(waiters'[s])
           /\ Range(waiters'[s]) = Range(waiters[s]) \ woken
           /\ \A r \in Semaphore \ {s} : waiters'[r] = waiters[r]
<1>1. waiters[s] \in Seq(Thread) /\ IsInjective(waiters[s])
  BY DEF TypeOK, SleepersQueued
<1>2. CASE waiters[s] = <<>>
  <2>1. UNCHANGED <<waiters, asleep>>
    BY <1>2 DEF SemaUp
  <2> WITNESS {} \in SUBSET Thread
  <2> QED BY <1>1, <1>2, <2>1 DEF TypeOK
<1>3. CASE waiters[s] # <<>>
  <2> DEFINE w == Head(waiters[s])
  <2>1. /\ waiters' = [waiters EXCEPT ![s] = Tail(waiters[s])]
        /\ asleep' = asleep \ {w}
    BY <1>3 DEF SemaUp
  <2>2. /\ w \in Thread /\ w \in Range(waiters[s])
        /\ Tail(waiters[s]) \in Seq(Thread) /\ IsInjective(Tail(waiters[s]))
        /\ Range(Tail(waiters[s])) = Range(waiters[s]) \ {w}
    BY <1>1, <1>3, RangeTail, HeadTailProperties
  <2>3. {w} \in SUBSET Thread
    BY <2>2
  <2> HIDE DEF w
  <2> WITNESS {w} \in SUBSET Thread
  <2> QED BY <1>1, <1>3, <2>1, <2>2 DEF TypeOK
<1> QED BY <1>2, <1>3

(* lock_release(): sema_up(), from a task or from cond_wait(). *)
LEMMA UpInv ==
  ASSUME SInv, NEW t \in Thread, LockUp(t) \/ CondUp(t)
  PROVE  SInv'
<1> USE NameAssumption DEF SInv, Bookkeeping
<1>0. Sole /\ TypeOK /\ ~panicked /\ Lock \in Semaphore
  BY SoleOwner DEF NoPanic, Semaphore
<1>1. PICK label \in {"user", "cond_down"} :
        /\ <<pc[t], label>> \in {<<"lock_up", "user">>, <<"cond_up", "cond_down">>}
        /\ pc' = [pc EXCEPT ![t] = label] /\ t \notin asleep
        /\ value' = [value EXCEPT ![Lock] = @ + 1]
        /\ SemaUp(Lock)
        /\ UNCHANGED <<holder, cond_waiters, cond, panicked>>
  <2>1. CASE LockUp(t)
    <3>1. /\ pc[t] = "lock_up" /\ pc' = [pc EXCEPT ![t] = "user"] /\ t \notin asleep
          /\ SemaUp(Lock) /\ UNCHANGED <<holder, cond_waiters, cond, panicked>>
      BY <2>1 DEF LockUp, UpFrom, At, Goto
    <3> QED BY <3>1 DEF SemaUp
  <2>2. CASE CondUp(t)
    <3>1. /\ pc[t] = "cond_up" /\ pc' = [pc EXCEPT ![t] = "cond_down"] /\ t \notin asleep
          /\ SemaUp(Lock) /\ UNCHANGED <<holder, cond_waiters, cond, panicked>>
      BY <2>2 DEF CondUp, UpFrom, At, Goto
    <3> QED BY <3>1 DEF SemaUp
  <2> QED BY <2>1, <2>2
<1>2. PICK woken \in SUBSET Thread :
        /\ woken \subseteq Range(waiters[Lock])
        /\ waiters[Lock] # <<>> => woken # {}
        /\ asleep' = asleep \ woken
        /\ waiters' \in [Semaphore -> Seq(Thread)]
        /\ IsInjective(waiters'[Lock])
        /\ Range(waiters'[Lock]) = Range(waiters[Lock]) \ woken
        /\ \A r \in Semaphore \ {Lock} : waiters'[r] = waiters[r]
  BY <1>0, <1>1, UpEffect
<1>3. \A w \in woken : pc[w] = "lock_down" /\ w # t
  BY <1>0, <1>1, <1>2 DEF SleepersQueued
<1>4. /\ value[Lock] = 0 /\ value'[Lock] = 1
      /\ \A u \in Thread : value'[u] = value[u]
  BY <1>0, <1>1 DEF Sole, Owning, TypeOK, Semaphore
<1>5. TypeOK'
  <2>1. value' \in [Semaphore -> Nat]
    BY <1>0, <1>1 DEF TypeOK
  <2>2. pc' \in [Thread -> PC]
    BY <1>0, <1>1 DEF TypeOK, PC
  <2> QED BY <1>0, <1>1, <1>2, <2>1, <2>2 DEF TypeOK
<1>6. Sole'
  BY <1>0, <1>1, <1>4 DEF Sole, Owning, Holding, TypeOK
<1>7. HolderExact'
  BY <1>0, <1>1 DEF HolderExact, Holding, TypeOK
<1>8. SleepersQueued'
  BY <1>0, <1>1, <1>2, <1>3 DEF SleepersQueued, TypeOK, Semaphore
<1>9. WaitersExact'
  <2>1. \A u \in Thread : Joined(u) => Joined(u)'
    BY <1>0, <1>1 DEF Joined, TypeOK
  <2>2. \A c \in Cond : \A i \in DOMAIN cond_waiters[c] : cond_waiters[c][i] \in Thread
    BY <1>0, LenProperties, ElementOfSeq DEF TypeOK
  <2>3. \A c \in Cond : \A i \in DOMAIN cond_waiters'[c] :
          Joined(cond_waiters[c][i])' \/ i = Len(cond_waiters'[c])
    BY <1>1, <2>1, <2>2 DEF WaitersExact
  <2> QED BY <1>0, <1>1, <1>2, <1>4, <2>3 DEF WaitersExact, CondWaiting, TypeOK
<1>10. NoLostWakeup'
  <2>1. ASSUME waiters'[Lock] # <<>>
        PROVE  \E u \in Thread : pc'[u] = "lock_down" /\ u \notin asleep'
    <3>1. waiters[Lock] # <<>>
      BY <1>0, <1>1, <2>1 DEF SemaUp
    <3>2. PICK w \in woken : TRUE
      BY <1>2, <3>1
    <3> QED BY <1>0, <1>1, <1>2, <1>3, <3>2 DEF TypeOK
  <2> QED BY <2>1 DEF NoLostWakeup
<1>11. NoLostSignal'
  BY <1>0, <1>1, <1>2, <1>4, Quiet DEF NoLostSignal, CondWaiting, TypeOK
<1> QED BY <1>1, <1>5, <1>6, <1>7, <1>8, <1>9, <1>10, <1>11, SoleOwnerNext DEF NoPanic

-----------------------------------------------------------------------------
(* While a thread is in its critical section, every thread on a condition's  *)
(* list has given the lock up and has not been signalled.                    *)
LEMMA ListsJoined ==
  ASSUME SInv, NEW t \in Thread, pc[t] \in {"critical", "broadcast"}, NEW c \in Cond
  PROVE  /\ cond_waiters[c] \in Seq(Thread) /\ IsInjective(cond_waiters[c])
         /\ \A w \in Range(cond_waiters[c]) :
              w \in Thread /\ w # t /\ pc[w] = "cond_down" /\ cond[w] = c /\ value[w] = 0
<1> USE DEF SInv, Bookkeeping
<1>1. cond_waiters[c] \in Seq(Thread) /\ IsInjective(cond_waiters[c])
  BY DEF TypeOK, NoLostSignal
<1>2. Range(cond_waiters[c]) \subseteq Thread
  BY <1>1, LenProperties, ElementOfSeq DEF Range
<1>3. ASSUME NEW w \in Range(cond_waiters[c])
      PROVE  w # t /\ pc[w] = "cond_down" /\ cond[w] = c /\ value[w] = 0
  <2>1. pc[w] \in CondWaiting /\ cond[w] = c /\ value[w] = 0
    BY <1>2, <1>3 DEF NoLostSignal
  <2>2. w # t
    BY <2>1 DEF CondWaiting
  <2>3. pc[w] \notin Owning
    BY <1>2, <1>3, <2>2, SoleOwner DEF Sole, Owning, Holding
  <2> QED BY <2>1, <2>2, <2>3 DEF CondWaiting, Owning, Holding
<1> QED BY <1>1, <1>2, <1>3

(* cond_wait(): the waiter joins the list while it holds the lock. *)
LEMMA CondWaitInv ==
  ASSUME SInv, NEW t \in Thread, NEW c \in Cond, CondWait(t, c)
  PROVE  SInv'
<1> USE NameAssumption DEF SInv, Bookkeeping
<1>0. Sole /\ TypeOK /\ ~panicked
  BY SoleOwner DEF NoPanic
<1>1. /\ pc[t] = "critical" /\ t \notin asleep
      /\ value' = [value EXCEPT ![t] = 0]
      /\ waiters' = [waiters EXCEPT ![t] = <<>>]
      /\ cond_waiters' = [cond_waiters EXCEPT ![c] = Append(@, t)]
      /\ cond' = [cond EXCEPT ![t] = c]
      /\ pc' = [pc EXCEPT ![t] = "cond_release"]
      /\ UNCHANGED <<holder, asleep, panicked>>
  BY DEF CondWait, At, HeldBy, HolderExact, Holding, Goto
<1>2. value' = value
  BY <1>0, <1>1, Quiet DEF TypeOK, Semaphore
<1>3. /\ cond_waiters[c] \in Seq(Thread)
      /\ Append(cond_waiters[c], t) \in Seq(Thread)
      /\ cond_waiters'[c] = Append(cond_waiters[c], t)
      /\ \A d \in Cond \ {c} : cond_waiters'[d] = cond_waiters[d]
  BY <1>0, <1>1, AppendProperties DEF TypeOK
<1>4. \A d \in Cond : t \notin Range(cond_waiters[d])
  BY <1>1, ListsJoined
<1>5. /\ Range(cond_waiters'[c]) = Range(cond_waiters[c]) \cup {t}
      /\ IsInjective(cond_waiters'[c])
  BY <1>1, <1>3, <1>4, ListsJoined, RangeAppend
<1>6. TypeOK'
  BY <1>0, <1>1, <1>2, <1>3, EmptySeq DEF TypeOK, PC, Semaphore
<1>7. Sole'
  BY <1>0, <1>1, <1>2 DEF Sole, Owning, Holding, TypeOK
<1>8. HolderExact'
  BY <1>0, <1>1 DEF HolderExact, Holding, TypeOK
<1>9. SleepersQueued'
  <2>1. waiters'[t] = <<>> /\ \A s \in Semaphore \ {t} : waiters'[s] = waiters[s]
    BY <1>0, <1>1 DEF TypeOK, Semaphore
  <2>2. \A u \in Thread : u \in Range(waiters'[t]) <=> u \in Range(waiters[t])
    BY <1>1, <2>1, RangeEmpty DEF SleepersQueued, Semaphore
  <2>3. \A s \in Semaphore : IsInjective(waiters'[s])
    BY <2>1, RangeEmpty DEF SleepersQueued
  <2> QED BY <1>0, <1>1, <2>1, <2>2, <2>3 DEF SleepersQueued, TypeOK, Semaphore
<1>10. WaitersExact'
  <2>1. ASSUME NEW d \in Cond, NEW i \in DOMAIN cond_waiters'[d]
        PROVE  \/ pc'[cond_waiters'[d][i]] \notin {"cond_release", "cond_up"}
               \/ i = Len(cond_waiters'[d])
    <3>1. \A w \in Range(cond_waiters[d]) : pc'[w] \notin {"cond_release", "cond_up"}
      BY <1>0, <1>1, ListsJoined DEF TypeOK
    <3>2. CASE d # c
      BY <1>3, <2>1, <3>1, <3>2 DEF Range
    <3>3. CASE d = c
      <4>1. /\ Len(cond_waiters'[d]) = Len(cond_waiters[d]) + 1
            /\ \A j \in 1 .. Len(cond_waiters[d]) : cond_waiters'[d][j] = cond_waiters[d][j]
        BY <1>3, <3>3, AppendProperties
      <4>2. /\ Len(cond_waiters[d]) \in Nat /\ DOMAIN cond_waiters[d] = 1 .. Len(cond_waiters[d])
            /\ DOMAIN cond_waiters'[d] = 1 .. Len(cond_waiters'[d])
        BY <1>3, <3>3, LenProperties
      <4>3. CASE i \in 1 .. Len(cond_waiters[d])
        BY <3>1, <4>1, <4>2, <4>3 DEF Range
      <4>4. CASE i \notin 1 .. Len(cond_waiters[d])
        BY <2>1, <4>1, <4>2, <4>4
      <4> QED BY <4>3, <4>4
    <3> QED BY <3>2, <3>3
  <2>2. \A u \in Thread :
          /\ value'[u] \in {0, 1}
          /\ u \in asleep' => pc'[u] \in {"lock_down", "cond_down"}
          /\ pc'[u] \in CondWaiting \cup {"cond_acquire", "broadcast"} => cond'[u] # NULL
          /\ pc'[u] \in {"user", "critical", "lock_up"} => cond'[u] = NULL
    BY <1>0, <1>1, <1>2 DEF WaitersExact, CondWaiting, TypeOK
  <2> QED BY <2>1, <2>2 DEF WaitersExact, CondWaiting, Joined
<1>11. NoLostWakeup'
  <2>1. waiters'[Lock] = waiters[Lock]
    BY <1>0, <1>1 DEF TypeOK, Semaphore
  <2> QED BY <1>0, <1>1, <1>2, <2>1 DEF NoLostWakeup, TypeOK
<1>12. NoLostSignal'
  <2>1. value[t] = 0 /\ cond'[t] = c /\ pc'[t] = "cond_release"
    BY <1>0, <1>1, Quiet DEF TypeOK
  <2>2. \A u \in Thread \ {t} : cond'[u] = cond[u] /\ pc'[u] = pc[u]
    BY <1>0, <1>1 DEF TypeOK
  <2>3. \A d \in Cond : IsInjective(cond_waiters'[d])
    BY <1>3, <1>5 DEF NoLostSignal
  <2>4. \A u \in Thread, d \in Cond :
          u \in Range(cond_waiters'[d]) <=>
            pc'[u] \in CondWaiting /\ cond'[u] = d /\ value'[u] = 0
    <3> TAKE u \in Thread, d \in Cond
    <3>1. CASE u = t
      <4>1. t \in Range(cond_waiters'[d]) <=> d = c
        BY <1>3, <1>4, <1>5
      <4> QED BY <1>2, <2>1, <3>1, <4>1 DEF CondWaiting
    <3>2. CASE u # t
      <4>1. u \in Range(cond_waiters'[d]) <=> u \in Range(cond_waiters[d])
        BY <1>3, <1>5, <3>2
      <4> QED BY <1>2, <2>2, <3>2, <4>1 DEF NoLostSignal
    <3> QED BY <3>1, <3>2
  <2>5. \A u \in Thread : value'[u] = 1 => pc'[u] = "cond_down" /\ u \notin asleep'
    BY <1>1, <1>2, <2>1, <2>2 DEF NoLostSignal
  <2> QED BY <2>3, <2>4, <2>5 DEF NoLostSignal, CondWaiting
<1> QED BY <1>1, <1>6, <1>7, <1>8, <1>9, <1>10, <1>11, <1>12, SoleOwnerNext DEF NoPanic

(* What cond_signal(C) by T does to the first waiter W. *)
LEMMA SignalEffect ==
  ASSUME SInv, NEW t \in Thread, pc[t] \in {"critical", "broadcast"}, NEW c \in Cond,
         SignalFirst(c)
  PROVE  \E w \in Range(cond_waiters[c]) :
           /\ w = Head(cond_waiters[c])
           /\ cond_waiters' = [cond_waiters EXCEPT ![c] = Tail(@)]
           /\ cond_waiters' \in [Cond -> Seq(Thread)]
           /\ IsInjective(cond_waiters'[c])
           /\ Range(cond_waiters'[c]) = Range(cond_waiters[c]) \ {w}
           /\ value' = [value EXCEPT ![w] = 1]
           /\ waiters' \in [Semaphore -> Seq(Thread)]
           /\ \A s \in Semaphore \ {w} : waiters'[s] = waiters[s]
           /\ IsInjective(waiters'[w]) /\ Range(waiters'[w]) \cap Thread = {}
           /\ asleep' = asleep \ {w}
<1> USE NameAssumption DEF SInv, Bookkeeping
<1> DEFINE w == Head(cond_waiters[c])
<1>1. cond_waiters[c] # <<>> /\ SemaUp(w)
      /\ cond_waiters' = [cond_waiters EXCEPT ![c] = Tail(cond_waiters[c])]
  BY DEF SignalFirst
<1>2. /\ cond_waiters[c] \in Seq(Thread) /\ IsInjective(cond_waiters[c])
      /\ \A u \in Range(cond_waiters[c]) :
           u \in Thread /\ pc[u] = "cond_down" /\ value[u] = 0
  BY ListsJoined
<1>3. /\ w \in Range(cond_waiters[c]) /\ w \in Semaphore /\ w \in Thread
      /\ Tail(cond_waiters[c]) \in Seq(Thread) /\ IsInjective(Tail(cond_waiters[c]))
      /\ Range(Tail(cond_waiters[c])) = Range(cond_waiters[c]) \ {w}
  BY <1>1, <1>2, RangeTail, HeadTailProperties DEF Semaphore
<1> HIDE DEF w
<1>4. cond_waiters' \in [Cond -> Seq(Thread)] /\ cond_waiters'[c] = Tail(cond_waiters[c])
  BY <1>1, <1>3 DEF TypeOK
<1>5. value[w] = 0 /\ pc[w] = "cond_down"
  BY <1>2, <1>3
<1>6. value' = [value EXCEPT ![w] = 1]
  BY <1>1, <1>5 DEF SemaUp
<1>7. PICK woken \in SUBSET Thread :
        /\ woken \subseteq Range(waiters[w])
        /\ waiters[w] # <<>> => woken # {}
        /\ asleep' = asleep \ woken
        /\ waiters' \in [Semaphore -> Seq(Thread)]
        /\ IsInjective(waiters'[w])
        /\ Range(waiters'[w]) = Range(waiters[w]) \ woken
        /\ \A s \in Semaphore \ {w} : waiters'[s] = waiters[s]
  BY <1>1, <1>3, UpEffect
<1>8. \A u \in Thread : u \in Range(waiters[w]) <=> u = w /\ w \in asleep
  BY <1>3, <1>5 DEF SleepersQueued
<1>9. w \in Range(waiters[w]) => woken = {w}
  BY <1>3, <1>7, <1>8, RangeEmpty
<1>10. w \notin Range(waiters[w]) => woken = {} /\ w \notin asleep
  BY <1>3, <1>7, <1>8
<1>11. asleep' = asleep \ {w} /\ Range(waiters'[w]) \cap Thread = {}
  BY <1>7, <1>8, <1>9, <1>10
<1> QED BY <1>1, <1>3, <1>4, <1>6, <1>7, <1>11 DEF w

(* cond_signal() and a round of cond_broadcast(). *)
LEMMA SignalInv ==
  ASSUME SInv, NEW t \in Thread, pc[t] \in {"critical", "broadcast"}, NEW c \in Cond,
         SignalFirst(c), UNCHANGED <<holder, pc, cond, panicked>>
  PROVE  SInv'
<1> USE NameAssumption DEF SInv, Bookkeeping
<1>0. Sole /\ TypeOK
  BY SoleOwner
<1>1. PICK w \in Range(cond_waiters[c]) :
        /\ cond_waiters' \in [Cond -> Seq(Thread)]
        /\ cond_waiters' = [cond_waiters EXCEPT ![c] = Tail(@)]
        /\ IsInjective(cond_waiters'[c])
        /\ Range(cond_waiters'[c]) = Range(cond_waiters[c]) \ {w}
        /\ value' = [value EXCEPT ![w] = 1]
        /\ waiters' \in [Semaphore -> Seq(Thread)]
        /\ \A s \in Semaphore \ {w} : waiters'[s] = waiters[s]
        /\ IsInjective(waiters'[w]) /\ Range(waiters'[w]) \cap Thread = {}
        /\ asleep' = asleep \ {w}
  BY SignalEffect
<1>2. w \in Thread /\ pc[w] = "cond_down" /\ cond[w] = c /\ w \in Semaphore
  BY ListsJoined DEF Semaphore
<1>3. /\ value'[w] = 1 /\ value'[Lock] = value[Lock]
      /\ \A u \in Thread \ {w} : value'[u] = value[u]
      /\ \A d \in Cond \ {c} : cond_waiters'[d] = cond_waiters[d]
  BY <1>0, <1>1, <1>2 DEF TypeOK, Semaphore
<1>4. TypeOK'
  BY <1>0, <1>1, <1>2 DEF TypeOK
<1>5. Sole' /\ HolderExact'
  BY <1>0, <1>3 DEF Sole, HolderExact
<1>6. SleepersQueued'
  <2>1. \A s \in Semaphore : IsInjective(waiters'[s])
    BY <1>1 DEF SleepersQueued
  <2>2. ASSUME NEW u \in Thread, NEW s \in Semaphore
        PROVE  u \in Range(waiters'[s]) <=>
                 /\ u \in asleep'
                 /\ \/ pc'[u] = "lock_down" /\ s = Lock
                    \/ pc'[u] = "cond_down" /\ s = u
    <3>1. CASE s = w
      BY <1>1, <1>2, <3>1
    <3>2. CASE s # w /\ u = w
      BY <1>1, <1>2, <3>2 DEF SleepersQueued
    <3>3. CASE s # w /\ u # w
      <4>1. waiters'[s] = waiters[s] /\ (u \in asleep' <=> u \in asleep) /\ pc' = pc
        BY <1>1, <3>3
      <4> QED BY <4>1 DEF SleepersQueued
    <3> QED BY <3>1, <3>2, <3>3
  <2> QED BY <2>1, <2>2 DEF SleepersQueued
<1>7. WaitersExact'
  <2>1. ASSUME NEW d \in Cond, NEW i \in DOMAIN cond_waiters'[d]
        PROVE  pc'[cond_waiters'[d][i]] \notin {"cond_release", "cond_up"}
    <3>1. cond_waiters'[d][i] \in Range(cond_waiters'[d])
      BY <2>1 DEF Range
    <3>2. cond_waiters'[d][i] \in Range(cond_waiters[d])
      BY <1>1, <1>3, <3>1
    <3> QED BY <3>2, ListsJoined
  <2> QED BY <1>1, <1>3, <2>1 DEF WaitersExact, CondWaiting, Joined
<1>8. NoLostWakeup'
  BY <1>0, <1>1, <1>2, <1>3 DEF NoLostWakeup, Semaphore
<1>9. NoLostSignal'
  <2>1. \A d \in Cond : IsInjective(cond_waiters'[d])
    BY <1>1, <1>3 DEF NoLostSignal
  <2>2. ASSUME NEW u \in Thread, NEW d \in Cond
        PROVE  u \in Range(cond_waiters'[d]) <=>
                 pc'[u] \in CondWaiting /\ cond'[u] = d /\ value'[u] = 0
    <3>1. u \in Range(cond_waiters'[d]) <=> u \in Range(cond_waiters[d]) /\ u # w
      BY <1>1, <1>2, <1>3 DEF NoLostSignal
    <3> QED BY <1>3, <3>1 DEF NoLostSignal
  <2>3. \A u \in Thread : value'[u] = 1 => pc'[u] = "cond_down" /\ u \notin asleep'
    BY <1>1, <1>2, <1>3 DEF NoLostSignal
  <2> QED BY <2>1, <2>2, <2>3 DEF NoLostSignal, CondWaiting
<1> QED BY <1>4, <1>5, <1>6, <1>7, <1>8, <1>9, SoleOwnerNext DEF NoPanic

(* cond_signal() by a task. *)
LEMMA CondSignalStep ==
  ASSUME SInv, NEW t \in Thread, NEW c \in Cond, CondSignal(t, c)
  PROVE  pc[t] = "critical" /\ SignalFirst(c) /\ UNCHANGED <<holder, pc, cond, panicked>>
BY DEF CondSignal, At, HeldBy, SInv, Bookkeeping, HolderExact, Holding

(* A round of cond_broadcast(). *)
LEMMA BroadcastSignalStep ==
  ASSUME SInv, NEW t \in Thread, BroadcastSignal(t)
  PROVE  /\ pc[t] = "broadcast" /\ cond[t] \in Cond
         /\ SignalFirst(cond[t]) /\ UNCHANGED <<holder, pc, cond, panicked>>
<1>1. pc[t] = "broadcast" /\ SignalFirst(cond[t]) /\ UNCHANGED <<holder, pc, cond, panicked>>
  BY DEF BroadcastSignal, At, HeldBy, SInv, Bookkeeping, HolderExact, Holding
<1>2. cond[t] \in Cond
  BY <1>1 DEF SInv, Bookkeeping, WaitersExact, TypeOK
<1> QED BY <1>1, <1>2

(* A step that changes nothing keeps the invariant. *)
LEMMA StutterInv == ASSUME SInv, UNCHANGED vars PROVE SInv'
<1> USE DEF SInv, Bookkeeping, vars
<1>1. TypeOK' /\ HolderExact' /\ SleepersQueued' /\ NoPanic'
  BY DEF TypeOK, HolderExact, SleepersQueued, NoPanic
<1>2. WaitersExact'
  BY DEF WaitersExact, Joined
<1>3. MutualExclusion'
  BY SoleOwner, SoleOwnerNext DEF Sole
<1>4. NoLostWakeup' /\ NoLostSignal'
  BY DEF NoLostWakeup, NoLostSignal
<1> QED BY <1>1, <1>2, <1>3, <1>4

-----------------------------------------------------------------------------
(* Every step of synch.c, by any thread, keeps the invariant. *)
LEMMA NextInv == ASSUME SInv, [Next]_vars PROVE SInv'
<1>1. ASSUME NEW t \in Thread, TaskStep(t) PROVE SInv'
  <2>1. CASE LockAcquire(t) \/ LockTryAcquire(t)
    BY <2>1, AcquireInv
  <2>2. CASE LockRelease(t)
    BY <2>2, ReleaseInv
  <2>3. ASSUME NEW c \in Cond, CondWait(t, c) PROVE SInv'
    BY <2>3, CondWaitInv
  <2>4. ASSUME NEW c \in Cond, CondSignal(t, c) PROVE SInv'
    BY <2>4, CondSignalStep, SignalInv
  <2>5. ASSUME NEW c \in Cond, CondBroadcast(t, c) PROVE SInv'
    BY <2>5, BroadcastInv
  <2> QED BY <1>1, <2>1, <2>2, <2>3, <2>4, <2>5 DEF TaskStep
<1>2. ASSUME NEW t \in Thread, Advance(t) PROVE SInv'
  <2>1. CASE LockDown(t)
    BY <2>1, TakeInv, SleepInv
  <2>2. CASE SetHolder(t) \/ CondAcquire(t)
    BY <2>2, AcquireInv
  <2>3. CASE LockUp(t) \/ CondUp(t)
    BY <2>3, UpInv
  <2>4. CASE CondRelease(t)
    BY <2>4, ReleaseInv
  <2>5. CASE CondDown(t)
    BY <2>5, TakeInv, SleepInv
  <2>6. CASE BroadcastSignal(t)
    BY <2>6, BroadcastSignalStep, SignalInv
  <2>7. CASE BroadcastEnd(t)
    BY <2>7, BroadcastInv
  <2> QED BY <1>2, <2>1, <2>2, <2>3, <2>4, <2>5, <2>6, <2>7 DEF Advance
<1>3. CASE UNCHANGED vars
  BY <1>3, StutterInv
<1> QED BY <1>1, <1>2, <1>3 DEF Next

(* The invariant of locks and condition variables, for any threads and       *)
(* conditions.                                                               *)
THEOREM SynchInvariance == Spec => []SInv
BY InitInv, NextInv, PTL DEF Spec

(* No ASSERT of synch.c fires: lock_held_by_current_thread() agrees with     *)
(* what the caller did, wherever it was preempted.                           *)
THEOREM SynchPanicFree == Spec => []NoPanic
<1>1. SInv => NoPanic
  BY DEF SInv
<1> QED BY <1>1, SynchInvariance, PTL

(* The lock has one owner, from sema_down() to sema_up().                    *)
THEOREM LockExclusive == Spec => []MutualExclusion
<1>1. SInv => MutualExclusion
  BY DEF SInv
<1> QED BY <1>1, SynchInvariance, PTL

(* holder, the semaphores' waiters and the conditions' waiters are exact.    *)
THEOREM ListsExact == Spec => []Bookkeeping
<1>1. SInv => Bookkeeping
  BY DEF SInv
<1> QED BY <1>1, SynchInvariance, PTL

(* lock_release() never leaves everybody asleep on a free lock.              *)
THEOREM WakeupKept == Spec => []NoLostWakeup
<1>1. SInv => NoLostWakeup
  BY DEF SInv
<1> QED BY <1>1, SynchInvariance, PTL

(* cond_signal() between cond_wait()'s lock_release() and its sema_down() is *)
(* not lost.                                                                 *)
THEOREM SignalKept == Spec => []NoLostSignal
<1>1. SInv => NoLostSignal
  BY DEF SInv
<1> QED BY <1>1, SynchInvariance, PTL

-----------------------------------------------------------------------------
(* The refinement of Monitor.  First, what the mapping says in a state of    *)
(* the invariant.                                                            *)
InsideExact == /\ \A t \in Thread : pc[t] \in Owning => Inside = t
               /\ value[Lock] = 1 => Inside = NULL

(* The lists are the monitor's, except for a thread that has joined one and  *)
(* not yet given the lock up: it is the last there, and not seen.            *)
WaitingExact ==
  /\ (\A t \in Thread : Joined(t)) => Waiting = cond_waiters
  /\ \A t \in Thread : ~Joined(t) =>
       /\ cond[t] \in Cond
       /\ Waiting \in [Cond -> Seq(Thread)]
       /\ \A c \in Cond \ {cond[t]} : Waiting[c] = cond_waiters[c]
       /\ cond_waiters[cond[t]] = Append(Waiting[cond[t]], t)

(* The owner of the lock is inside. *)
LEMMA InsideOwner == SInv => InsideExact
<1> SUFFICES ASSUME SInv PROVE /\ \A t \in Thread : pc[t] \in Owning => Inside = t
                               /\ value[Lock] = 1 => Inside = NULL
  BY DEF InsideExact
<1>1. MutualExclusion
  BY DEF SInv
<1>2. ASSUME NEW t \in Thread, pc[t] \in Owning PROVE Inside = t
  <2>1. t \in Owner /\ \A u \in Thread : u \in Owner => u = t
    BY <1>1, <1>2 DEF Owner, MutualExclusion
  <2>2. \A u \in Thread : u \in Owner <=> u = t
    BY <2>1
  <2>3. (CHOOSE u \in Thread : u \in Owner) = t
    BY <2>2
  <2> QED BY <2>1, <2>3 DEF Inside
<1>3. ASSUME value[Lock] = 1 PROVE Inside = NULL
  BY <1>1, <1>3 DEF MutualExclusion, Inside
<1> QED BY <1>2, <1>3

(* Everybody on the lists has given the lock up. *)
LEMMA WaitingAll ==
  SInv => ((\A t \in Thread : Joined(t)) => Waiting = cond_waiters)
<1> SUFFICES ASSUME SInv, \A t \in Thread : Joined(t) PROVE Waiting = cond_waiters
  OBVIOUS
<1>1. cond_waiters \in [Cond -> Seq(Thread)]
  BY DEF SInv, Bookkeeping, TypeOK
<1>2. \A c \in Cond : AllJoined(cond_waiters[c])
  <2> TAKE c \in Cond
  <2>1. CASE cond_waiters[c] = <<>>
    BY <2>1 DEF AllJoined
  <2>2. CASE cond_waiters[c] # <<>>
    <3>1. cond_waiters[c] \in Seq(Thread) /\ Len(cond_waiters[c]) \in 1 .. Len(cond_waiters[c])
      BY <1>1, <2>2, EmptySeq
    <3>2. cond_waiters[c][Len(cond_waiters[c])] \in Thread
      BY <3>1, ElementOfSeq
    <3> QED BY <3>2 DEF AllJoined
  <2> QED BY <2>1, <2>2
<1> QED BY <1>1, <1>2 DEF Waiting

(* Somebody has not. *)
LEMMA WaitingBut ==
  SInv => \A t \in Thread : ~Joined(t) =>
            /\ cond[t] \in Cond
            /\ Waiting \in [Cond -> Seq(Thread)]
            /\ \A c \in Cond \ {cond[t]} : Waiting[c] = cond_waiters[c]
            /\ cond_waiters[cond[t]] = Append(Waiting[cond[t]], t)
<1> SUFFICES ASSUME SInv, NEW t \in Thread, ~Joined(t)
             PROVE  /\ cond[t] \in Cond
                    /\ Waiting \in [Cond -> Seq(Thread)]
                    /\ \A c \in Cond \ {cond[t]} : Waiting[c] = cond_waiters[c]
                    /\ cond_waiters[cond[t]] = Append(Waiting[cond[t]], t)
  OBVIOUS
<1> USE DEF SInv, Bookkeeping
<1>1. pc[t] \in {"cond_release", "cond_up"} /\ cond[t] \in Cond /\ value[t] = 0
  BY Quiet DEF Joined, WaitersExact, CondWaiting, TypeOK
<1>2. \A u \in Thread \ {t} : Joined(u)
  BY <1>1, SoleOwner DEF Sole, Joined, Owning, Holding
<1>3. ASSUME NEW c \in Cond, c # cond[t] PROVE Waiting[c] = cond_waiters[c]
  <2>1. cond_waiters[c] \in Seq(Thread) /\ t \notin Range(cond_waiters[c])
    BY <1>3 DEF TypeOK, NoLostSignal
  <2>2. AllJoined(cond_waiters[c])
    <3>1. CASE cond_waiters[c] = <<>>
      BY <3>1 DEF AllJoined
    <3>2. CASE cond_waiters[c] # <<>>
      <4>1. Len(cond_waiters[c]) \in 1 .. Len(cond_waiters[c])
            /\ DOMAIN cond_waiters[c] = 1 .. Len(cond_waiters[c])
        BY <2>1, <3>2, EmptySeq, LenProperties
      <4>2. cond_waiters[c][Len(cond_waiters[c])] \in Thread \ {t}
        BY <2>1, <4>1, ElementOfSeq DEF Range
      <4> QED BY <1>2, <4>2 DEF AllJoined
    <3> QED BY <3>1, <3>2
  <2> QED BY <2>2 DEF Waiting
<1> DEFINE q == cond_waiters[cond[t]]
           front == SubSeq(q, 1, Len(q) - 1)
<1>4. q \in Seq(Thread) /\ t \in Range(q)
  BY <1>1 DEF TypeOK, NoLostSignal, CondWaiting
<1>5. q # <<>> /\ q[Len(q)] = t
  <2>1. PICK i \in DOMAIN q : q[i] = t
    BY <1>4 DEF Range
  <2>2. i = Len(q)
    BY <1>1, <2>1 DEF WaitersExact
  <2> QED BY <1>4, <2>1, <2>2
<1>6. Waiting[cond[t]] = front
  BY <1>1, <1>5 DEF Waiting, AllJoined
<1>7. Len(q) \in Nat \ {0} /\ \A i \in 1 .. Len(q) : q[i] \in Thread
  BY <1>4, <1>5, EmptySeq, ElementOfSeq
<1>8. front \in Seq(Thread) /\ q = Append(front, t)
  <2>1. /\ front \in Seq(Thread) /\ Len(front) = Len(q) - 1
        /\ \A i \in 1 .. Len(q) - 1 : front[i] = q[i]
    BY <1>7, SubSeqProperties
  <2>2. /\ Append(front, t) \in Seq(Thread) /\ Len(Append(front, t)) = Len(q)
        /\ \A i \in 1 .. Len(q) - 1 : Append(front, t)[i] = q[i]
        /\ Append(front, t)[Len(q)] = t
    BY <1>7, <2>1, AppendProperties
  <2>3. \A i \in 1 .. Len(q) : Append(front, t)[i] = q[i]
    BY <1>5, <1>7, <2>2
  <2> QED BY <1>4, <2>1, <2>2, <2>3, SeqEqual
<1>9. Waiting \in [Cond -> Seq(Thread)]
  <2>1. \A c \in Cond : Waiting[c] \in Seq(Thread)
    BY <1>3, <1>6, <1>8 DEF TypeOK
  <2> QED BY <2>1 DEF Waiting
<1> QED BY <1>1, <1>3, <1>6, <1>8, <1>9

(* The mapping is exact, before and after every step. *)
LEMMA MappingExact == SInv => InsideExact /\ WaitingExact
BY InsideOwner, WaitingAll, WaitingBut DEF WaitingExact

LEMMA MappingExactNext == SInv' => InsideExact' /\ WaitingExact'
BY MappingExact, PTL

(* The monitor's lists only change when a list does, or a thread gives the   *)
(* lock up.                                                                  *)
LEMMA WaitingSame ==
  ASSUME SInv, UNCHANGED cond_waiters, \A u \in Thread : Joined(u)' <=> Joined(u)
  PROVE  Waiting' = Waiting
<1>1. ASSUME NEW c \in Cond PROVE AllJoined(cond_waiters[c])' <=> AllJoined(cond_waiters[c])
  <2>1. CASE cond_waiters[c] = <<>>
    BY <2>1 DEF AllJoined
  <2>2. CASE cond_waiters[c] # <<>>
    <3>1. cond_waiters[c] \in Seq(Thread) /\ Len(cond_waiters[c]) \in 1 .. Len(cond_waiters[c])
      BY <2>2, EmptySeq DEF SInv, Bookkeeping, TypeOK
    <3>2. cond_waiters[c][Len(cond_waiters[c])] \in Thread
      BY <3>1, ElementOfSeq
    <3> QED BY <2>2, <3>2 DEF AllJoined, Joined
  <2> QED BY <2>1, <2>2
<1> QED BY <1>1 DEF Waiting

(* Who is returning, thread by thread. *)
Returns(t) == /\ cond[t] # NULL
              /\ pc[t] \in {"cond_down", "cond_acquire", "lock_down"}
              /\ \A c \in Cond : t \notin Range(cond_waiters[c])

(* lock_init() and cond_init() make an empty monitor. *)
LEMMA MonitorStart == ASSUME Init PROVE M!MonitorInit
<1>1. SInv
  BY InitInv
<1>2. Inside = NULL
  BY <1>1, MappingExact DEF InsideExact, Init, Semaphore
<1>3. Waiting = [c \in Cond |-> <<>>]
  BY <1>1, MappingExact DEF WaitingExact, Init, Joined
<1>4. Returning = {}
  BY DEF Init, Returning
<1> QED BY <1>2, <1>3, <1>4 DEF M!MonitorInit

(* Steps in which nobody gains or loses the lock are not seen.               *)
LEMMA HiddenStep ==
  ASSUME SInv, SInv', NEW t \in Thread,
         \/ LockAcquire(t) \/ CondAcquire(t) \/ SetHolder(t)
         \/ LockRelease(t) \/ CondRelease(t)
         \/ (\E c \in Cond : CondBroadcast(t, c)) \/ BroadcastEnd(t)
         \/ LockDown(t) /\ ~Available(Lock)
         \/ CondDown(t)
  PROVE  UNCHANGED <<Inside, Waiting, Returning>>
<1> USE DEF SInv, Bookkeeping
<1>1. TypeOK /\ ~panicked /\ HolderExact
  BY DEF NoPanic
<1>2. PICK label \in PC, c \in Cond \cup {NULL} :
        /\ pc' = [pc EXCEPT ![t] = label] /\ cond' = [cond EXCEPT ![t] = c]
        /\ UNCHANGED cond_waiters
        /\ pc[t] \in Owning <=> label \in Owning
        /\ pc[t] \in {"cond_release", "cond_up"} <=> label \in {"cond_release", "cond_up"}
        /\ (/\ cond[t] # NULL /\ pc[t] \in {"cond_down", "cond_acquire", "lock_down"})
             <=> (c # NULL /\ label \in {"cond_down", "cond_acquire", "lock_down"})
  <2>0. pc[t] \in PC /\ cond[t] \in Cond \cup {NULL}
        /\ pc = [pc EXCEPT ![t] = pc[t]] /\ cond = [cond EXCEPT ![t] = cond[t]]
    BY <1>1 DEF TypeOK
  <2> USE DEF At, HeldBy, Holding, Owning, Goto, PC, WaitersExact
  <2>1. CASE LockAcquire(t)
    <3>1. pc[t] = "user" /\ pc' = [pc EXCEPT ![t] = "lock_down"] /\ cond[t] = NULL
          /\ UNCHANGED <<cond, cond_waiters>>
      BY <1>1, <2>1 DEF LockAcquire, HolderExact
    <3> QED BY <2>0, <3>1
  <2>2. CASE CondAcquire(t)
    <3>1. pc[t] = "cond_acquire" /\ pc' = [pc EXCEPT ![t] = "lock_down"] /\ cond[t] # NULL
          /\ UNCHANGED <<cond, cond_waiters>>
      BY <1>1, <2>2 DEF CondAcquire, HolderExact
    <3> QED BY <2>0, <3>1
  <2>3. CASE SetHolder(t)
    <3>1. pc[t] = "set_holder" /\ pc' = [pc EXCEPT ![t] = "critical"]
          /\ cond' = [cond EXCEPT ![t] = NULL] /\ UNCHANGED cond_waiters
      BY <2>3 DEF SetHolder
    <3> QED BY <3>1
  <2>4. CASE LockRelease(t)
    <3>1. pc[t] = "critical" /\ pc' = [pc EXCEPT ![t] = "lock_up"]
          /\ UNCHANGED <<cond, cond_waiters>>
      BY <1>1, <2>4 DEF LockRelease, ReleaseFrom, HolderExact
    <3> QED BY <2>0, <3>1
  <2>5. CASE CondRelease(t)
    <3>1. pc[t] = "cond_release" /\ pc' = [pc EXCEPT ![t] = "cond_up"]
          /\ UNCHANGED <<cond, cond_waiters>>
      BY <1>1, <2>5 DEF CondRelease, ReleaseFrom, HolderExact
    <3> QED BY <2>0, <3>1
  <2>6. ASSUME NEW c \in Cond, CondBroadcast(t, c)
        PROVE  pc[t] = "critical" /\ pc' = [pc EXCEPT ![t] = "broadcast"]
               /\ cond' = [cond EXCEPT ![t] = c] /\ UNCHANGED cond_waiters
    BY <2>6 DEF CondBroadcast
  <2>7. CASE BroadcastEnd(t)
    <3>1. pc[t] = "broadcast" /\ pc' = [pc EXCEPT ![t] = "critical"]
          /\ cond' = [cond EXCEPT ![t] = NULL] /\ UNCHANGED cond_waiters
      BY <2>7 DEF BroadcastEnd
    <3> QED BY <3>1
  <2>8. CASE LockDown(t) /\ ~Available(Lock)
    <3>1. pc' = [pc EXCEPT ![t] = pc[t]] /\ cond' = [cond EXCEPT ![t] = cond[t]]
          /\ UNCHANGED cond_waiters
      BY <2>0, <2>8 DEF LockDown, SemaDown
    <3> QED BY <2>0, <3>1
  <2>9. CASE CondDown(t) /\ ~Available(t)
    <3>1. pc' = [pc EXCEPT ![t] = pc[t]] /\ cond' = [cond EXCEPT ![t] = cond[t]]
          /\ UNCHANGED cond_waiters
      BY <2>0, <2>9 DEF CondDown, SemaDown
    <3> QED BY <2>0, <3>1
  <2>10. CASE CondDown(t) /\ Available(t)
    <3>1. pc[t] = "cond_down" /\ pc' = [pc EXCEPT ![t] = "cond_acquire"]
          /\ UNCHANGED <<cond, cond_waiters>>
      BY <2>10 DEF CondDown, SemaDown
    <3> QED BY <2>0, <3>1
  <2>11. CASE \E c \in Cond : CondBroadcast(t, c)
    <3>1. PICK c \in Cond : CondBroadcast(t, c)
      BY <2>11
    <3> QED BY <2>6, <3>1
  <2> QED BY <2>1, <2>2, <2>3, <2>4, <2>5, <2>7, <2>8, <2>9, <2>10, <2>11
<1>3. /\ pc'[t] = label /\ cond'[t] = c
      /\ \A u \in Thread \ {t} : pc'[u] = pc[u] /\ cond'[u] = cond[u]
  BY <1>1, <1>2 DEF TypeOK
<1>4. Inside' = Inside
  <2>1. Owner' = Owner
    BY <1>2, <1>3 DEF Owner, Owning, Holding
  <2> QED BY <2>1 DEF Inside
<1>5. Waiting' = Waiting
  BY <1>2, <1>3, WaitingSame DEF Joined
<1>6. Returning' = Returning
  <2>1. \A u \in Thread : Returns(u)' <=> Returns(u)
    BY <1>2, <1>3 DEF Returns
  <2> QED BY <2>1 DEF Returning, Returns
<1> QED BY <1>4, <1>5, <1>6

(* cond_wait() joins the list unseen: the caller still has the lock. *)
LEMMA JoinHidden ==
  ASSUME SInv, SInv', NEW t \in Thread, NEW c \in Cond, CondWait(t, c)
  PROVE  UNCHANGED <<Inside, Waiting, Returning>>
<1> USE DEF SInv, Bookkeeping
<1>1. /\ pc[t] = "critical" /\ pc' = [pc EXCEPT ![t] = "cond_release"]
      /\ cond_waiters' = [cond_waiters EXCEPT ![c] = Append(@, t)]
      /\ cond' = [cond EXCEPT ![t] = c]
  BY DEF CondWait, At, HeldBy, HolderExact, Holding, Goto
<1>2. /\ pc'[t] = "cond_release" /\ cond'[t] = c
      /\ \A u \in Thread \ {t} : pc'[u] = pc[u] /\ cond'[u] = cond[u]
      /\ cond_waiters'[c] = Append(cond_waiters[c], t)
      /\ cond_waiters[c] \in Seq(Thread)
      /\ \A d \in Cond \ {c} : cond_waiters'[d] = cond_waiters[d]
  BY <1>1 DEF TypeOK
<1>3. Inside = t /\ Inside' = t
  BY <1>1, <1>2, MappingExact, MappingExactNext DEF InsideExact, Owning, Holding
<1>4. Waiting' = Waiting
  <2>1. \A u \in Thread : Joined(u)
    BY <1>1, SoleOwner DEF Sole, Joined, Owning, Holding
  <2>2. Waiting = cond_waiters
    BY <2>1, MappingExact DEF WaitingExact
  <2>3. ~Joined(t)'
    BY <1>2 DEF Joined
  <2>4. /\ Waiting' \in [Cond -> Seq(Thread)]
        /\ \A d \in Cond \ {c} : Waiting'[d] = cond_waiters[d]
        /\ Append(cond_waiters[c], t) = Append(Waiting'[c], t)
    BY <1>2, <2>3, MappingExactNext DEF WaitingExact
  <2>5. Waiting'[c] = cond_waiters[c]
    BY <1>2, <2>4, AppendInjective
  <2>6. Waiting \in [Cond -> Seq(Thread)]
    BY <2>2 DEF TypeOK
  <2> QED BY <2>2, <2>4, <2>5, <2>6
<1>5. Returning' = Returning
  <2>1. \A d \in Cond, u \in Thread \ {t} :
          u \in Range(cond_waiters'[d]) <=> u \in Range(cond_waiters[d])
    <3>1. Range(cond_waiters'[c]) = Range(cond_waiters[c]) \cup {t}
      BY <1>2, RangeAppend
    <3> QED BY <1>2, <3>1
  <2>2. \A u \in Thread : Returns(u)' <=> Returns(u)
    BY <1>1, <1>2, <2>1 DEF Returns
  <2> QED BY <2>2 DEF Returning, Returns
<1> QED BY <1>3, <1>4, <1>5

(* sema_down() on a free lock, or lock_try_acquire(): the thread enters. *)
LEMMA EnterStep ==
  ASSUME SInv, SInv', NEW t \in Thread,
         LockTryAcquire(t) \/ (LockDown(t) /\ Available(Lock))
  PROVE  M!Enter(t)
<1> USE DEF SInv, Bookkeeping
<1>1. /\ pc[t] \in {"user", "lock_down"} /\ value[Lock] > 0
      /\ pc' = [pc EXCEPT ![t] = "set_holder"]
      /\ UNCHANGED <<cond, cond_waiters>>
  <2>1. CASE LockTryAcquire(t)
    BY <2>1 DEF LockTryAcquire, At, HeldBy, HolderExact, Holding, Goto, Available
  <2>2. CASE LockDown(t) /\ Available(Lock)
    BY <2>2 DEF LockDown, SemaDown, At, Goto, Available
  <2> QED BY <2>1, <2>2
<1>2. pc'[t] = "set_holder" /\ \A u \in Thread \ {t} : pc'[u] = pc[u]
  BY <1>1 DEF TypeOK
<1>3. value[Lock] = 1 /\ \A u \in Thread : pc[u] \notin Owning
  BY <1>1, SoleOwner DEF Sole
<1>4. Inside = NULL /\ Inside' = t
  BY <1>2, <1>3, MappingExact, MappingExactNext DEF InsideExact, Owning, Holding
<1>5. Waiting' = Waiting /\ Waiting = cond_waiters
  <2>1. \A u \in Thread : Joined(u) /\ Joined(u)'
    BY <1>2, <1>3 DEF Joined, Owning, Holding
  <2> QED BY <1>1, <2>1, MappingExact, WaitingSame DEF WaitingExact
<1>6. M!NotWaiting(t)
  <2>1. \A c \in Cond : t \notin Range(cond_waiters[c])
    BY <1>1 DEF NoLostSignal, CondWaiting
  <2> QED BY <1>5, <2>1 DEF M!NotWaiting, Range
<1>7. Returning' = Returning \ {t}
  <2>1. \A u \in Thread : Returns(u)' <=> Returns(u) /\ u # t
    BY <1>1, <1>2 DEF Returns
  <2> QED BY <2>1 DEF Returning, Returns
<1> QED BY <1>4, <1>5, <1>6, <1>7 DEF M!Enter

(* sema_up() in lock_release(): the thread leaves, or its wait begins. *)
LEMMA LeaveStep ==
  ASSUME SInv, SInv', NEW t \in Thread, LockUp(t) \/ CondUp(t)
  PROVE  M!MonitorNext
<1> USE NameAssumption DEF SInv, Bookkeeping
<1>1. PICK label \in {"user", "cond_down"} :
        /\ <<pc[t], label>> \in {<<"lock_up", "user">>, <<"cond_up", "cond_down">>}
        /\ pc' = [pc EXCEPT ![t] = label]
        /\ value' = [value EXCEPT ![Lock] = @ + 1]
        /\ UNCHANGED <<cond, cond_waiters>>
  <2>1. CASE LockUp(t)
    BY <2>1 DEF LockUp, UpFrom, At, Goto, SemaUp
  <2>2. CASE CondUp(t)
    BY <2>2 DEF CondUp, UpFrom, At, Goto, SemaUp
  <2> QED BY <2>1, <2>2
<1>2. pc'[t] = label /\ \A u \in Thread \ {t} : pc'[u] = pc[u]
  BY <1>1 DEF TypeOK
<1>3. value[Lock] = 0 /\ value'[Lock] = 1 /\ pc[t] \in Owning
  BY <1>1, SoleOwner DEF Sole, Owning, TypeOK, Semaphore
<1>4. Inside = t /\ Inside' = NULL /\ t # NULL
  BY <1>3, MappingExact, MappingExactNext DEF InsideExact
<1>5. \A u \in Thread : Joined(u)' /\ (u # t => Joined(u))
  BY <1>1, <1>2, <1>3, SoleOwner DEF Sole, Joined, Owning, Holding
<1>6. CASE label = "user"
  <2>1. Waiting' = Waiting
    BY <1>1, <1>5, <1>6, WaitingSame DEF Joined
  <2>2. \A u \in Thread : Returns(u)' <=> Returns(u)
    BY <1>1, <1>2, <1>6 DEF Returns
  <2>3. Returning' = Returning
    BY <2>2 DEF Returning, Returns
  <2> QED BY <1>4, <2>1, <2>3 DEF M!MonitorNext, M!Leave
<1>7. CASE label = "cond_down"
  <2>1. pc[t] = "cond_up" /\ ~Joined(t)
    BY <1>1, <1>7 DEF Joined
  <2>2. /\ cond[t] \in Cond
        /\ Waiting \in [Cond -> Seq(Thread)]
        /\ \A d \in Cond \ {cond[t]} : Waiting[d] = cond_waiters[d]
        /\ cond_waiters[cond[t]] = Append(Waiting[cond[t]], t)
    BY <2>1, MappingExact DEF WaitingExact
  <2>3. Waiting' = cond_waiters
    BY <1>1, <1>5, MappingExactNext DEF WaitingExact
  <2>4. Waiting' = [Waiting EXCEPT ![cond[t]] = Append(@, t)]
    <3>1. cond_waiters \in [Cond -> Seq(Thread)]
      BY DEF TypeOK
    <3> QED BY <2>2, <2>3, <3>1
  <2>5. t \in Range(cond_waiters[cond[t]])
    BY <2>1, <2>2, Quiet DEF NoLostSignal, CondWaiting
  <2>6. \A u \in Thread : Returns(u)' <=> Returns(u)
    BY <1>1, <1>2, <2>1, <2>2, <2>5 DEF Returns
  <2>7. Returning' = Returning
    BY <2>6 DEF Returning, Returns
  <2>8. M!Wait(cond[t])
    BY <1>4, <2>4, <2>7 DEF M!Wait
  <2> QED BY <2>2, <2>8 DEF M!MonitorNext
<1> QED BY <1>6, <1>7

(* cond_signal() and a round of cond_broadcast() move the first waiter. *)
LEMMA SignalStep ==
  ASSUME SInv, SInv', NEW t \in Thread, pc[t] \in {"critical", "broadcast"}, NEW c \in Cond,
         SignalFirst(c), UNCHANGED <<holder, pc, cond, panicked>>
  PROVE  M!Signal(c)
<1> USE NameAssumption DEF SInv, Bookkeeping
<1>1. PICK w \in Range(cond_waiters[c]) :
        /\ w = Head(cond_waiters[c])
        /\ cond_waiters' = [cond_waiters EXCEPT ![c] = Tail(@)]
        /\ Range(cond_waiters'[c]) = Range(cond_waiters[c]) \ {w}
  BY SignalEffect
<1>2. w \in Thread /\ pc[w] = "cond_down" /\ cond[w] = c
  BY ListsJoined
<1>3. \A d \in Cond \ {c} : cond_waiters'[d] = cond_waiters[d]
  BY <1>1 DEF TypeOK
<1>4. Inside = t /\ Inside' = Inside /\ t # NULL
  <2>1. Owner' = Owner
    BY DEF Owner
  <2> QED BY <2>1, MappingExact DEF InsideExact, Inside, Owning, Holding
<1>5. Waiting = cond_waiters /\ Waiting' = cond_waiters'
  <2>1. \A u \in Thread : Joined(u) /\ Joined(u)'
    BY SoleOwner DEF Sole, Joined, Owning, Holding
  <2> QED BY <2>1, MappingExact, MappingExactNext DEF WaitingExact
<1>6. Returning' = Returning \cup {w}
  <2>1. ASSUME NEW u \in Thread PROVE Returns(u)' <=> Returns(u) \/ u = w
    <3>1. CASE u = w
      <4>1. \A d \in Cond : w \notin Range(cond_waiters'[d])
        BY <1>1, <1>2, <1>3 DEF NoLostSignal
      <4> QED BY <1>2, <3>1, <4>1 DEF Returns
    <3>2. CASE u # w
      <4>1. \A d \in Cond : u \in Range(cond_waiters'[d]) <=> u \in Range(cond_waiters[d])
        BY <1>1, <1>3, <3>2
      <4> QED BY <3>2, <4>1 DEF Returns
    <3> QED BY <3>1, <3>2
  <2> QED BY <1>2, <2>1 DEF Returning, Returns
<1>7. cond_waiters[c] # <<>>
  BY <1>1, RangeEmpty
<1> QED BY <1>1, <1>4, <1>5, <1>6, <1>7 DEF M!Signal

(* Every step of synch.c is a step of the monitor, or is not seen. *)
LEMMA MonitorStep ==
  ASSUME SInv, SInv', [Next]_vars PROVE [M!MonitorNext]_M!monitorVars
<1> USE DEF M!monitorVars
<1>1. ASSUME NEW t \in Thread, TaskStep(t) PROVE [M!MonitorNext]_M!monitorVars
  <2>1. CASE LockAcquire(t) \/ LockRelease(t)
    BY <2>1, HiddenStep
  <2>2. CASE LockTryAcquire(t)
    BY <2>2, EnterStep DEF M!MonitorNext
  <2>3. ASSUME NEW c \in Cond, CondWait(t, c) PROVE [M!MonitorNext]_M!monitorVars
    BY <2>3, JoinHidden
  <2>4. ASSUME NEW c \in Cond, CondSignal(t, c) PROVE [M!MonitorNext]_M!monitorVars
    BY <2>4, CondSignalStep, SignalStep DEF M!MonitorNext
  <2>5. ASSUME NEW c \in Cond, CondBroadcast(t, c) PROVE [M!MonitorNext]_M!monitorVars
    BY <2>5, HiddenStep
  <2> QED BY <1>1, <2>1, <2>2, <2>3, <2>4, <2>5 DEF TaskStep
<1>2. ASSUME NEW t \in Thread, Advance(t) PROVE [M!MonitorNext]_M!monitorVars
  <2>1. CASE LockDown(t) /\ Available(Lock)
    BY <2>1, EnterStep DEF M!MonitorNext
  <2>2. CASE LockUp(t) \/ CondUp(t)
    BY <2>2, LeaveStep
  <2>3. CASE BroadcastSignal(t)
    BY <2>3, BroadcastSignalStep, SignalStep DEF M!MonitorNext
  <2>4. CASE \/ (LockDown(t) /\ ~Available(Lock)) \/ SetHolder(t) \/ CondAcquire(t)
             \/ CondRelease(t) \/ CondDown(t) \/ BroadcastEnd(t)
    BY <2>4, HiddenStep
  <2> QED BY <1>2, <2>1, <2>2, <2>3, <2>4 DEF Advance
<1>3. CASE UNCHANGED vars
  <2>1. Owner' = Owner
    BY <1>3 DEF vars, Owner
  <2>2. Waiting' = Waiting
    BY <1>3, WaitingSame DEF vars, Joined
  <2> QED BY <1>3, <2>1, <2>2 DEF vars, Inside, Returning
<1> QED BY <1>1, <1>2, <1>3 DEF Next

(* synch.c implements a Mesa monitor: cond_wait() releases the lock and      *)
(* starts to wait as if in one step, and signals go to the first waiter.     *)
THEOREM MonitorRefined == Spec => ImplementsMonitor
BY SynchInvariance, MonitorStart, MonitorStep, PTL DEF Spec, ImplementsMonitor, M!MonitorSpec
=============================================================================
