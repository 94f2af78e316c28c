----------------------------- MODULE RoundRobin -----------------------------
(***************************************************************************)
(* What the thread system promises its users: one thread runs at a time;   *)
(* the threads that want the CPU get it in the order in which they became  *)
(* ready; a sleeping thread gets it again only after it has been woken;    *)
(* the idle thread runs only when nobody else wants to.  There are no      *)
(* stacks, frames, interrupts or semaphores at this level.                 *)
(***************************************************************************)
EXTENDS Sequences

CONSTANTS Thread, Main, NULL

VARIABLES running, queue, asleep, idle

rrVars == <<running, queue, asleep, idle>>

Elements(seq) == {seq[i] : i \in DOMAIN seq}
Alive == {running} \cup Elements(queue) \cup asleep \cup {idle}

RRInit ==
  /\ running = Main
  /\ queue = <<>>
  /\ asleep = {}
  /\ idle = NULL

(* Hand the CPU to the first of the ready threads Q, or to the idle thread. *)
Dispatch(q) ==
  IF q = <<>> THEN running' = idle /\ queue' = q
              ELSE running' = Head(q) /\ queue' = Tail(q)

(* A new thread, asleep until its creator wakes it. *)
Spawn(t) ==
  /\ t \notin Alive
  /\ asleep' = asleep \cup {t}
  /\ UNCHANGED <<running, queue, idle>>

(* A new thread, ready at once. *)
SpawnReady(t) ==
  /\ t \notin Alive
  /\ queue' = Append(queue, t)
  /\ UNCHANGED <<running, asleep, idle>>

Wake(t) ==
  /\ t \in asleep
  /\ asleep' = asleep \ {t}
  /\ queue' = Append(queue, t)
  /\ UNCHANGED <<running, idle>>

Sleep ==
  /\ running # idle
  /\ asleep' = asleep \cup {running}
  /\ Dispatch(queue)
  /\ UNCHANGED idle

(* The running thread gives way; the idle thread does so without queueing. *)
Yield ==
  /\ Dispatch(IF running = idle THEN queue ELSE Append(queue, running))
  /\ UNCHANGED <<asleep, idle>>

Exit ==
  /\ running # idle
  /\ Dispatch(queue)
  /\ UNCHANGED <<asleep, idle>>

BecomeIdle ==
  /\ idle = NULL
  /\ idle' = running
  /\ UNCHANGED <<running, queue, asleep>>

RRNext ==
  \/ \E t \in Thread : Spawn(t) \/ SpawnReady(t) \/ Wake(t)
  \/ Sleep \/ Yield \/ Exit \/ BecomeIdle

RRSpec == RRInit /\ [][RRNext]_rrVars
=============================================================================
