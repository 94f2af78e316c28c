------------------------------- MODULE ListSeq -------------------------------
(***************************************************************************)
(* What lib/kernel/list.c promises: lists are sequences, and the function  *)
(* that was called last did to them what its comment says and returned     *)
(* what it says.                                                           *)
(***************************************************************************)
EXTENDS Naturals, SequencesExt

CONSTANTS Elem, List, NULL

VARIABLES seqs,         \* the elements of each list, in order
          key,          \* what the callers' LESS compares
          call          \* the last call and its result

Linked == UNION {ToSet(seqs[l]) : l \in List}

(* S sorted by key, elements with equal keys in the order they had. *)
Position(s, e) == CHOOSE i \in DOMAIN s : s[i] = e
Sorted(s) ==
  SortSeq(s, LAMBDA d, e : \/ key[d] < key[e]
                           \/ key[d] = key[e] /\ Position(s, d) < Position(s, e))

(* The elements of S that repeat the key of the one before. *)
Repeats(s) == {s[i] : i \in {j \in DOMAIN s : j > 1 /\ key[s[j - 1]] = key[s[j]]}}

(* The first element of S that no other one beats. *)
First(s, Beats(_, _)) ==
  LET best == {i \in DOMAIN s : \A j \in DOMAIN s : ~Beats(s[j], s[i])}
  IN  IF s = <<>> THEN NULL ELSE s[CHOOSE i \in best : \A j \in best : i <= j]

ListInit == /\ seqs = [l \in List |-> <<>>]
            /\ call = [op |-> "init"]

PushFront(l, e) ==
  /\ call' = [op |-> "push_front", list |-> l, elem |-> e]
  /\ e \notin Linked
  /\ seqs' = [seqs EXCEPT ![l] = <<e>> \o @]
PushBack(l, e) ==
  /\ call' = [op |-> "push_back", list |-> l, elem |-> e]
  /\ e \notin Linked
  /\ seqs' = [seqs EXCEPT ![l] = Append(@, e)]
Insert(l, i, e) ==
  /\ call' = [op |-> "insert", before |-> seqs[l][i], elem |-> e]
  /\ e \notin Linked
  /\ seqs' = [seqs EXCEPT ![l] = InsertAt(@, i, e)]
InsertOrdered(l, e) ==
  /\ call' = [op |-> "insert_ordered", list |-> l, elem |-> e]
  /\ e \notin Linked
  /\ seqs[l] = Sorted(seqs[l])
  /\ seqs' = [seqs EXCEPT ![l] = Sorted(Append(@, e))]
PopFront(l) ==
  /\ seqs[l] # <<>>
  /\ call' = [op |-> "pop_front", list |-> l, elem |-> seqs[l][1]]
  /\ seqs' = [seqs EXCEPT ![l] = Tail(@)]
PopBack(l) ==
  /\ seqs[l] # <<>>
  /\ call' = [op |-> "pop_back", list |-> l, elem |-> Last(seqs[l])]
  /\ seqs' = [seqs EXCEPT ![l] = Front(@)]
(* The element that followed is returned, NULL for the end of the list. *)
ListRemove(l, i) ==
  /\ call' = [op |-> "remove", list |-> l, elem |-> seqs[l][i],
              result |-> IF i = Len(seqs[l]) THEN NULL ELSE seqs[l][i + 1]]
  /\ seqs' = [seqs EXCEPT ![l] = RemoveAt(@, i)]
(* The elements I to J of list L move before BEFORE, or to the end, of M. *)
Splice(l, i, j, m, before) ==
  LET rest == [seqs EXCEPT ![l] = SubSeq(@, 1, i - 1) \o SubSeq(@, j + 1, Len(@))]
      k == IF before = NULL THEN Len(rest[m]) + 1 ELSE Position(rest[m], before)
  IN  /\ call' = [op |-> "splice", from |-> l, list |-> m,
                  first |-> seqs[l][i], last |-> seqs[l][j], before |-> before]
      /\ seqs' = [rest EXCEPT ![m] = SubSeq(@, 1, k - 1) \o SubSeq(seqs[l], i, j)
                                       \o SubSeq(@, k, Len(@))]
ListReverse(l) ==
  /\ call' = [op |-> "reverse", list |-> l]
  /\ seqs' = [seqs EXCEPT ![l] = Reverse(@)]
Sort(l) ==
  /\ call' = [op |-> "sort", list |-> l]
  /\ seqs' = [seqs EXCEPT ![l] = Sorted(@)]
(* Repeated elements go to the end of M, or to no list. *)
Unique(l, m) ==
  LET repeats == Repeats(seqs[l])
      Kept(e) == e \notin repeats
      Dropped(e) == e \in repeats
  IN  /\ call' = [op |-> "unique", list |-> l, duplicates |-> m]
      /\ seqs' = [k \in List |-> IF k = l THEN SelectSeq(seqs[l], Kept)
                                ELSE IF k = m THEN seqs[m] \o SelectSeq(seqs[l], Dropped)
                                ELSE seqs[k]]
Query(l) ==
  /\ call' = [op |-> "query", list |-> l, size |-> Len(seqs[l]),
              max |-> First(seqs[l], LAMBDA d, e : key[d] > key[e]),
              min |-> First(seqs[l], LAMBDA d, e : key[d] < key[e])]
  /\ UNCHANGED seqs

ListStep ==
  \E l \in List :
    \/ \E e \in Elem : \/ PushFront(l, e) \/ PushBack(l, e) \/ InsertOrdered(l, e)
                      \/ \E i \in DOMAIN seqs[l] : Insert(l, i, e)
    \/ PopFront(l) \/ PopBack(l) \/ ListReverse(l) \/ Sort(l) \/ Query(l)
    \/ \E i \in DOMAIN seqs[l] : ListRemove(l, i)
    \/ \E m \in (List \ {l}) \cup {NULL} : Unique(l, m)
    \/ \E i \in DOMAIN seqs[l] : \E j \in i .. Len(seqs[l]), m \in List :
         LET moved == {seqs[l][n] : n \in i .. j}
         IN  \E before \in (ToSet(seqs[m]) \ moved) \cup {NULL} : Splice(l, i, j, m, before)

ListSpec == ListInit /\ [][ListStep /\ UNCHANGED key]_<<seqs, key, call>>
=============================================================================
