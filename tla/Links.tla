-------------------------------- MODULE Links --------------------------------
(***************************************************************************)
(* The doubly linked lists of lib/kernel/list.c, as pointers: list_init()  *)
(* and the functions that link and unlink one element, the ones the rest   *)
(* of the kernel calls.  Callers use a list in a masked section or under a *)
(* lock, so each function is one step.  An element that was removed keeps  *)
(* the pointers it had.                                                    *)
(***************************************************************************)
EXTENDS Naturals, Sequences, FiniteSetsExt

CONSTANTS Elem, List, NULL,
          Keys          \* the keys the elements may have

(* struct list: its two header elements. *)
HeadOf(l) == <<"head", l>>
TailOf(l) == <<"tail", l>>
Heads == {HeadOf(l) : l \in List}
Tails == {TailOf(l) : l \in List}
Node == Elem \cup Heads \cup Tails

ASSUME ElemAssumption ==
  /\ NULL \notin Node \cup List /\ Elem \cap (Heads \cup Tails) = {}
  /\ IsFiniteSet(Elem) /\ Keys \subseteq [Elem -> Nat]

VARIABLES links,        \* prev and next of every struct list_elem
          owner,        \* the list a caller has put each element in, or NULL
          key,          \* what the callers' LESS compares
          call          \* the last call and its result

vars == <<links, owner, key, call>>

(* list_init() of every list; elements are zero until they are linked. *)
Init ==
  /\ links = [prev |-> [n \in Node |-> IF n \in Tails THEN HeadOf(n[2]) ELSE NULL],
              next |-> [n \in Node |-> IF n \in Heads THEN TailOf(n[2]) ELSE NULL]]
  /\ owner = [e \in Elem |-> NULL]
  /\ key \in Keys
  /\ call = [op |-> "init"]

-----------------------------------------------------------------------------
(* Functions on the links K. *)
IsInterior(k, n) == n # NULL /\ k.prev[n] # NULL /\ k.next[n] # NULL
IsTail(k, n) == n # NULL /\ k.prev[n] # NULL /\ k.next[n] = NULL

Begin(k, l) == k.next[HeadOf(l)]
Empty(k, l) == Begin(k, l) = TailOf(l)

(* list_insert(). *)
Insert(k, before, e) ==
  LET p == k.prev[before]
  IN  [prev |-> [k.prev EXCEPT ![e] = p, ![before] = e],
       next |-> [k.next EXCEPT ![e] = before, ![p] = e]]

(* list_remove(). *)
Unlink(k, e) ==
  [prev |-> [k.prev EXCEPT ![k.next[e]] = k.prev[e]],
   next |-> [k.next EXCEPT ![k.prev[e]] = k.next[e]]]

-----------------------------------------------------------------------------
(* Callers link an element that is in no list, and unlink one that is in     *)
(* one.  A call whose ASSERT OK fails halts.                                 *)
Call(ok, k, o, c) ==
  /\ call.op # "panic"
  /\ UNCHANGED key
  /\ IF ok THEN links' = k /\ owner' = o /\ call' = c
     ELSE call' = [op |-> "panic"] /\ UNCHANGED <<links, owner>>

Put(op, l, e, before) ==
  /\ owner[e] = NULL
  /\ Call(IsInterior(links, before) \/ IsTail(links, before),
          Insert(links, before, e), [owner EXCEPT ![e] = l],
          [op |-> op, list |-> l, elem |-> e])
PushFront(l, e) == Put("push_front", l, e, Begin(links, l))
PushBack(l, e) == Put("push_back", l, e, TailOf(l))
ListInsert(before, e) ==
  /\ owner[e] = NULL /\ owner[before] # NULL
  /\ Call(IsInterior(links, before) \/ IsTail(links, before),
          Insert(links, before, e), [owner EXCEPT ![e] = owner[before]],
          [op |-> "insert", before |-> before, elem |-> e])

(* list_front(), list_back() and list_remove(). *)
Pop(op, l, e) ==
  /\ ~Empty(links, l)
  /\ Call(IsInterior(links, e), Unlink(links, e), [owner EXCEPT ![e] = NULL],
          [op |-> op, list |-> l, elem |-> e])
PopFront(l) == Pop("pop_front", l, Begin(links, l))
PopBack(l) == Pop("pop_back", l, links.prev[TailOf(l)])
ListRemove(e) ==
  /\ owner[e] # NULL
  /\ Call(IsInterior(links, e), Unlink(links, e), [owner EXCEPT ![e] = NULL],
          [op |-> "remove", list |-> owner[e], elem |-> e,
           result |-> IF links.next[e] \in Elem THEN links.next[e] ELSE NULL])

LinkStep ==
  \/ \E l \in List : \/ \E e \in Elem : PushFront(l, e) \/ PushBack(l, e)
                     \/ PopFront(l) \/ PopBack(l)
  \/ \E e \in Elem : ListRemove(e) \/ \E before \in Elem : ListInsert(before, e)

LinkSpec == Init /\ [][LinkStep]_vars

-----------------------------------------------------------------------------
(* The elements of list L in order, on a walk along links K from its head to *)
(* its tail; a walk that leaves the list, takes more steps than there are    *)
(* elements, or meets a prev that is not the way back shows no sequence.     *)
Walked(k, l) ==
  LET walk[fuel \in 0 .. Cardinality(Elem) + 1] ==
        [n \in Node |->
           LET m == k.next[n]
           IN  IF fuel = 0 \/ m = NULL THEN <<NULL>>
               ELSE IF k.prev[m] # n THEN <<NULL>>
               ELSE IF m = TailOf(l) THEN <<>>
               ELSE <<m>> \o walk[fuel - 1][m]]
  IN  walk[Cardinality(Elem) + 1][HeadOf(l)]

Contents == [l \in List |-> Walked(links, l)]

LS == INSTANCE ListSeq WITH seqs <- Contents

(* list.c implements sequences: after any series of calls each list can be   *)
(* walked forwards and backwards, holds what the calls put there in the      *)
(* order their comments promise (a stable sort, duplicates in order), and no *)
(* ASSERT fires; stale pointers of removed elements are never followed.      *)
ImplementsSequences == LS!ListSpec
=============================================================================
