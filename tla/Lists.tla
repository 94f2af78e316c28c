-------------------------------- MODULE Lists --------------------------------
(***************************************************************************)
(* The rest of lib/kernel/list.c, over Links: splicing, reversing, sorting *)
(* and ordered insertion, removal of duplicates, size, maximum, minimum.   *)
(***************************************************************************)
EXTENDS Links

Less(a, b) == key[a] < key[b]

(* list_splice() of FIRST up to END, exclusive. *)
Splice(k, before, first, end) ==
  LET last == k.prev[end]
      k1 == [k EXCEPT !.next[k.prev[first]] = k.next[last]]
      k2 == [k1 EXCEPT !.prev[k1.next[last]] = k1.prev[first]]
      k3 == [k2 EXCEPT !.prev[first] = k2.prev[before], !.next[last] = before]
      k4 == [k3 EXCEPT !.next[k3.prev[before]] = first]
  IN  IF first = end THEN k ELSE [k4 EXCEPT !.prev[before] = last]

(* list_reverse(): every element's pointers, then the headers'. *)
RECURSIVE SwapFrom(_, _, _)
SwapFrom(k, e, end) ==
  IF e = end THEN k
  ELSE LET s == [k EXCEPT !.prev[e] = k.next[e], !.next[e] = k.prev[e]]
       IN  SwapFrom(s, s.prev[e], end)
Reversed(k, l) ==
  LET s == SwapFrom(k, Begin(k, l), TailOf(l))
      h == [s EXCEPT !.next[HeadOf(l)] = s.prev[TailOf(l)],
                     !.prev[TailOf(l)] = s.next[HeadOf(l)]]
      front == h.next[HeadOf(l)]
      back == h.prev[TailOf(l)]
  IN  IF Empty(k, l) THEN k
      ELSE [h EXCEPT !.prev[front] = h.next[back], !.next[back] = h.prev[front]]

(* is_sorted() and find_end_of_run(). *)
RECURSIVE IsSorted(_, _, _)
IsSorted(k, a, b) ==
  LET n == k.next[a]
  IN  IF a = b \/ n = b THEN TRUE ELSE ~Less(n, k.prev[n]) /\ IsSorted(k, n, b)
RECURSIVE EndOfRun(_, _, _)
EndOfRun(k, a, b) ==
  LET n == k.next[a]
  IN  IF n # b /\ ~Less(n, k.prev[n]) THEN EndOfRun(k, n, b) ELSE n

(* inplace_merge(). *)
MergeLeft(a1b0, a0) == Less(a0, a1b0)   \* mutant: equal keys change places
MergeKeeps(a1b0, a0) == ~Less(a1b0, a0)
RECURSIVE Merge(_, _, _, _)
Merge(k, a0, a1b0, b1) ==
  LET n == k.next[a1b0]
  IN  IF a0 = a1b0 \/ a1b0 = b1 THEN k
      ELSE IF MergeKeeps(a1b0, a0) THEN Merge(k, k.next[a0], a1b0, b1)
      ELSE Merge(Splice(k, a0, k.prev[n], n), a0, n, b1)

(* A pass of list_sort(), and list_sort(); OK while inplace_merge()'s ASSERTs *)
(* and the last one hold.                                                     *)
RECURSIVE Pass(_, _, _, _, _)
Pass(k, a0, end, runs, ok) ==
  LET a1b0 == EndOfRun(k, a0, end)
      b1 == EndOfRun(k, a1b0, end)
  IN  IF a0 = end THEN [links |-> k, runs |-> runs, ok |-> ok]
      ELSE IF a1b0 = end THEN [links |-> k, runs |-> runs + 1, ok |-> ok]
      ELSE Pass(Merge(k, a0, a1b0, b1), b1, end, runs + 1,
                ok /\ IsSorted(k, a0, a1b0) /\ IsSorted(k, a1b0, b1))
RECURSIVE Sorted(_, _, _)
Sorted(k, l, ok) ==
  LET p == Pass(k, Begin(k, l), TailOf(l), 0, ok)
  IN  IF p.runs > 1 THEN Sorted(p.links, l, p.ok)
      ELSE [p EXCEPT !.ok = @ /\ IsSorted(p.links, Begin(p.links, l), TailOf(l))]

(* list_insert_ordered(): the place for E. *)
RECURSIVE PlaceFor(_, _, _, _)
PlaceFor(k, n, end, e) ==
  IF n = end \/ Less(e, n) THEN n ELSE PlaceFor(k, k.next[n], end, e)

(* list_unique(): the links and the elements that were removed; they go to *)
(* the end of M unless it is NULL.                                         *)
RECURSIVE UniqueFrom(_, _, _, _, _)
UniqueFrom(k, e, end, m, moved) ==
  LET n == k.next[e]
      u == Unlink(k, n)
  IN  IF n = end THEN [links |-> k, moved |-> moved]
      ELSE IF Less(e, n) \/ Less(n, e) THEN UniqueFrom(k, n, end, m, moved)
      ELSE UniqueFrom(IF m = NULL THEN u ELSE Insert(u, TailOf(m), n),
                      e, end, m, moved \cup {n})

(* list_size(), list_max(), list_min(). *)
RECURSIVE SizeFrom(_, _, _)
SizeFrom(k, n, end) == IF n = end THEN 0 ELSE 1 + SizeFrom(k, k.next[n], end)
Beats(max, a, b) == IF max THEN Less(b, a) ELSE Less(a, b)
RECURSIVE BestFrom(_, _, _, _, _)
BestFrom(k, n, end, best, max) ==
  IF n = end THEN best
  ELSE BestFrom(k, k.next[n], end, IF Beats(max, n, best) THEN n ELSE best, max)
Best(k, l, max) ==
  IF Empty(k, l) THEN NULL
  ELSE BestFrom(k, k.next[Begin(k, l)], TailOf(l), Begin(k, l), max)

-----------------------------------------------------------------------------
InsertOrdered(l, e) ==
  /\ IsSorted(links, Begin(links, l), TailOf(l))
  /\ Put("insert_ordered", l, e, PlaceFor(links, Begin(links, l), TailOf(l), e))

(* list_splice() of the elements FIRST to LAST of a list into list M. *)
RECURSIVE Between(_, _)
Between(first, last) ==
  IF first = last THEN {first}
  ELSE IF links.next[first] \notin Elem THEN {}
  ELSE LET rest == Between(links.next[first], last)
       IN  IF rest = {} THEN {} ELSE {first} \cup rest
ListSplice(first, last, m, before) ==
  /\ owner[first] # NULL
  /\ before = TailOf(m) \/ (before \in Elem /\ owner[before] = m)
  /\ LET range == Between(first, last)
     IN  /\ range # {} /\ before \notin range
         /\ Call(/\ IsInterior(links, before) \/ IsTail(links, before)
                 /\ IsInterior(links, first) /\ IsInterior(links, last),
                 Splice(links, before, first, links.next[last]),
                 [e \in Elem |-> IF e \in range THEN m ELSE owner[e]],
                 [op |-> "splice", from |-> owner[first], list |-> m, first |-> first,
                  last |-> last, before |-> IF before \in Elem THEN before ELSE NULL])

ListReverse(l) ==
  Call(TRUE, Reversed(links, l), owner, [op |-> "reverse", list |-> l])
Sort(l) ==
  LET s == Sorted(links, l, TRUE)
  IN  Call(s.ok, s.links, owner, [op |-> "sort", list |-> l])
Unique(l, m) ==
  LET u == IF Empty(links, l) THEN [links |-> links, moved |-> {}]
           ELSE UniqueFrom(links, Begin(links, l), TailOf(l), m, {})
  IN  Call(TRUE, u.links, [e \in Elem |-> IF e \in u.moved THEN m ELSE owner[e]],
           [op |-> "unique", list |-> l, duplicates |-> m])
Query(l) ==
  Call(TRUE, links, owner,
       [op |-> "query", list |-> l, size |-> SizeFrom(links, Begin(links, l), TailOf(l)),
        max |-> Best(links, l, TRUE), min |-> Best(links, l, FALSE)])

Next ==
  \/ LinkStep
  \/ \E l \in List :
       \/ \E e \in Elem : InsertOrdered(l, e)
       \/ ListReverse(l) \/ Sort(l) \/ Query(l)
       \/ \E m \in (List \ {l}) \cup {NULL} : Unique(l, m)
       \/ \E first, last \in Elem, before \in Node : ListSplice(first, last, l, before)

Spec == Init /\ [][Next]_vars
=============================================================================
