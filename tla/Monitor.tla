------------------------------ MODULE Monitor ------------------------------
(***************************************************************************)
(* What locks and condition variables promise: a Mesa-style monitor.  At   *)
(* most one thread is inside; waiting gives the monitor up and joins the   *)
(* condition in one indivisible step, so a signal sent by whoever enters   *)
(* next cannot be missed; a signalled thread has to enter again before its *)
(* wait returns.  There are no semaphores and no sleeping at this level.   *)
(***************************************************************************)
EXTENDS Sequences

CONSTANTS Thread, Cond, NULL

VARIABLES inside,       \* the thread that has the lock, or NULL
          waiting,      \* per condition, the threads waiting, first come first
          returning     \* signalled threads whose wait has not returned

monitorVars == <<inside, waiting, returning>>

MonitorInit ==
  /\ inside = NULL
  /\ waiting = [c \in Cond |-> <<>>]
  /\ returning = {}

NotWaiting(t) == \A c \in Cond : \A i \in DOMAIN waiting[c] : waiting[c][i] # t

(* A thread enters, for the first time or to return from its wait. *)
Enter(t) ==
  /\ inside = NULL
  /\ NotWaiting(t)
  /\ inside' = t
  /\ returning' = returning \ {t}
  /\ UNCHANGED waiting

Leave ==
  /\ inside # NULL
  /\ inside' = NULL
  /\ UNCHANGED <<waiting, returning>>

(* "Atomically releases LOCK and waits for COND to be signaled." *)
Wait(c) ==
  /\ inside # NULL
  /\ inside' = NULL
  /\ waiting' = [waiting EXCEPT ![c] = Append(@, inside)]
  /\ UNCHANGED returning

Signal(c) ==
  /\ inside # NULL
  /\ waiting[c] # <<>>
  /\ waiting' = [waiting EXCEPT ![c] = Tail(@)]
  /\ returning' = returning \cup {Head(waiting[c])}
  /\ UNCHANGED inside

MonitorNext ==
  \/ \E t \in Thread : Enter(t)
  \/ Leave
  \/ \E c \in Cond : Wait(c) \/ Signal(c)

MonitorSpec == MonitorInit /\ [][MonitorNext]_monitorVars
=============================================================================
