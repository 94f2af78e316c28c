-------------------------------- MODULE Hash --------------------------------
(***************************************************************************)
(* The chained hash table of lib/kernel/hash.c.  A bucket is the sequence  *)
(* that list.c shows it as (ListSeq); callers serialise their calls, so    *)
(* each function is one step.  malloc() may fail in hash_init() and in     *)
(* rehash().                                                               *)
(***************************************************************************)
EXTENDS Naturals, Sequences, Functions, FiniteSetsExt

SE == INSTANCE SequencesExt

CONSTANTS HashElem, None,
          Data,                 \* the keys and hash values elements may have
          MIN_BUCKETS,          \* the 4 of hash_init() and rehash()
          BEST_ELEMS_PER_BUCKET

(* Elements with equal keys have equal hash values. *)
ASSUME DataAssumption ==
  /\ None \notin HashElem /\ \A S \in SUBSET HashElem : S # None
  /\ IsFiniteSet(HashElem)
  /\ \A d \in Data : /\ d \in [HashElem -> [key: Nat, hash: Nat]]
                     /\ \A a, b \in HashElem : d[a].key = d[b].key => d[a].hash = d[b].hash
  /\ BEST_ELEMS_PER_BUCKET \in Nat \ {0}
  /\ MIN_BUCKETS \in Nat /\ \E i \in 0 .. MIN_BUCKETS : MIN_BUCKETS = 2^i

VARIABLES buckets,      \* the bucket lists, from 0 up; none of them: no table
          bucket_cnt,
          elem_cnt,
          arrays,       \* bucket arrays that malloc() gave and free() did not get back
          iter,         \* the iterator <<bucket, place in it>>, or <<>>
          datum,        \* key and hash of every element
          hcall         \* the last call and its result

hvars == <<buckets, bucket_cnt, elem_cnt, arrays, iter, datum, hcall>>

NoTable == <<>>
Open == DOMAIN buckets # {}

HashInitial ==
  /\ buckets = NoTable /\ bucket_cnt = 0 /\ elem_cnt = 0 /\ arrays = 0
  /\ iter = <<>>
  /\ datum \in Data
  /\ hcall = [op |-> "none", result |-> None]

-----------------------------------------------------------------------------
(* x & y, bit by bit from the lowest. *)
And(x, y) ==
  LET and[a \in 0 .. x] ==
        [b \in 0 .. y |-> IF a = 0 \/ b = 0 THEN 0
                          ELSE 2 * and[a \div 2][b \div 2] + (a % 2) * (b % 2)]
  IN  and[x][y]

BucketIdx(e, cnt) == And(datum[e].hash, cnt - 1)

FindElem(bucket, e) ==
  LET equal == {i \in DOMAIN bucket : datum[bucket[i]].key = datum[e].key}
  IN  IF equal = {} THEN None ELSE bucket[Min(equal)]
Found(e) == FindElem(buckets[BucketIdx(e, bucket_cnt)], e)

TurnOffLeast1Bit(x) == And(x, x - 1)
IsPowerOf2(x) == x # 0 /\ TurnOffLeast1Bit(x) = 0

(* The bucket count rehash() wants for N elements: its while loop. *)
NewBucketCnt(n) ==
  LET wanted == n \div BEST_ELEMS_PER_BUCKET
      first == IF wanted < MIN_BUCKETS THEN MIN_BUCKETS ELSE wanted
      rounded[x \in 1 .. first] ==
        IF IsPowerOf2(x) THEN x ELSE rounded[TurnOffLeast1Bit(x)]
  IN  rounded[first]

(* All elements of the bucket lists B, in the order of a traversal. *)
Traversal(b) ==
  LET upto[k \in 0 .. bucket_cnt] == IF k = 0 THEN <<>> ELSE upto[k - 1] \o b[k - 1]
  IN  upto[bucket_cnt]

EmptyBuckets(cnt) == [i \in 0 .. cnt - 1 |-> <<>>]
Pushed(b, e, cnt) == [b EXCEPT ![BucketIdx(e, cnt)] = <<e>> \o @]

(* The old elements pushed to the front of their new buckets, one by one. *)
Moved(b, cnt) ==
  LET old == Traversal(b)
      moved[k \in 0 .. Len(old)] ==
        IF k = 0 THEN EmptyBuckets(cnt) ELSE Pushed(moved[k - 1], old[k], cnt)
  IN  moved[Len(old)]

(* rehash() of a table with bucket lists B and N elements; OK: malloc() finds *)
(* room for the new array.                                                    *)
RehashLeaks(b, n, ok) ==        \* mutant: the old array is not freed
  LET cnt == NewBucketCnt(n)
  IN  IF cnt = bucket_cnt \/ ~ok THEN buckets' = b /\ UNCHANGED <<bucket_cnt, arrays>>
      ELSE buckets' = Moved(b, cnt) /\ bucket_cnt' = cnt /\ arrays' = arrays + 1
Rehash(b, n, ok) ==
  LET cnt == NewBucketCnt(n)
  IN  IF cnt = bucket_cnt \/ ~ok THEN buckets' = b /\ UNCHANGED <<bucket_cnt, arrays>>
      ELSE /\ buckets' = Moved(b, cnt)
           /\ bucket_cnt' = cnt
           /\ arrays' = (arrays + 1) - 1

InsertElem(b, e) == Pushed(b, e, bucket_cnt)
RemoveElem(b, e) ==
  [b EXCEPT ![BucketIdx(e, bucket_cnt)] = SE!RemoveAt(@, CHOOSE i \in DOMAIN @ : @[i] = e)]

-----------------------------------------------------------------------------
Return(op, r) == hcall' = [op |-> op, result |-> r] /\ UNCHANGED datum

(* hash_init() of a struct hash that holds no table. *)
HashInit(ok) ==
  /\ ~Open
  /\ elem_cnt' = 0 /\ bucket_cnt' = MIN_BUCKETS
  /\ buckets' = IF ok THEN EmptyBuckets(MIN_BUCKETS) ELSE NoTable
  /\ arrays' = IF ok THEN arrays + 1 ELSE arrays
  /\ Return("init", ok)
  /\ UNCHANGED iter

(* hash_clear(), with or without a destructor: the elements it is called for. *)
Destroyed(destructor) == IF destructor THEN Traversal(buckets) ELSE <<>>
HashClear(destructor) ==
  /\ Open
  /\ buckets' = EmptyBuckets(bucket_cnt) /\ elem_cnt' = 0
  /\ iter' = <<>>
  /\ Return(IF destructor THEN "clear_all" ELSE "clear", Destroyed(destructor))
  /\ UNCHANGED <<bucket_cnt, arrays>>
HashDestroy(destructor) ==
  /\ Open
  /\ buckets' = NoTable /\ arrays' = arrays - 1
  /\ elem_cnt' = IF destructor THEN 0 ELSE elem_cnt
  /\ iter' = <<>>
  /\ Return(IF destructor THEN "destroy_all" ELSE "destroy", Destroyed(destructor))
  /\ UNCHANGED bucket_cnt

HashInsert(e, ok) ==
  LET old == Found(e)
      cnt == IF old = None THEN elem_cnt + 1 ELSE elem_cnt
  IN  /\ Open
      /\ elem_cnt' = cnt
      /\ Rehash(IF old = None THEN InsertElem(buckets, e) ELSE buckets, cnt, ok)
      /\ iter' = <<>>
      /\ Return("insert", old)

HashReplace(e, ok) ==
  LET old == Found(e)
      kept == IF old = None THEN buckets ELSE RemoveElem(buckets, old)
      cnt == IF old = None THEN elem_cnt + 1 ELSE (elem_cnt - 1) + 1
  IN  /\ Open
      /\ elem_cnt' = cnt
      /\ Rehash(InsertElem(kept, e), cnt, ok)
      /\ iter' = <<>>
      /\ Return("replace", old)

HashFind(e) ==
  /\ Open
  /\ Return("find", Found(e))
  /\ UNCHANGED <<buckets, bucket_cnt, elem_cnt, arrays, iter>>

HashDelete(e, ok) ==
  LET found == Found(e)
  IN  /\ Open
      /\ IF found = None THEN UNCHANGED <<buckets, bucket_cnt, elem_cnt, arrays>>
         ELSE elem_cnt' = elem_cnt - 1 /\ Rehash(RemoveElem(buckets, found), elem_cnt - 1, ok)
      /\ iter' = <<>>
      /\ Return("delete", found)

HashApply ==
  /\ Open
  /\ Return("apply", Traversal(buckets))
  /\ UNCHANGED <<buckets, bucket_cnt, elem_cnt, arrays, iter>>
HashSize ==
  /\ Open
  /\ Return("size", elem_cnt)
  /\ UNCHANGED <<buckets, bucket_cnt, elem_cnt, arrays, iter>>

(* The iterator starts at the head of the first bucket; place 0 is the head. *)
HashFirst ==
  /\ Open
  /\ iter' = <<0, 0>>
  /\ Return("first", None)
  /\ UNCHANGED <<buckets, bucket_cnt, elem_cnt, arrays>>

(* hash_next() and the hash_cur() after it; at the end the iterator is done. *)
NextPlaceOne(i) ==              \* mutant: an empty bucket ends the iteration
  LET later == {b \in {i[1] + 1} : b < bucket_cnt /\ buckets[b] # <<>>}
  IN  IF i[2] < Len(buckets[i[1]]) THEN <<i[1], i[2] + 1>>
      ELSE IF later = {} THEN <<>> ELSE <<Min(later), 1>>
NextPlace(i) ==
  LET later == {b \in i[1] + 1 .. bucket_cnt - 1 : buckets[b] # <<>>}
  IN  IF i[2] < Len(buckets[i[1]]) THEN <<i[1], i[2] + 1>>
      ELSE IF later = {} THEN <<>> ELSE <<Min(later), 1>>
HashNext ==
  /\ Open /\ iter # <<>>
  /\ LET place == NextPlace(iter)
     IN  /\ iter' = place
         /\ Return("next", IF place = <<>> THEN None ELSE buckets[place[1]][place[2]])
  /\ UNCHANGED <<buckets, bucket_cnt, elem_cnt, arrays>>

HashStep ==
  \/ \E ok \in BOOLEAN :
       \/ HashInit(ok)
       \/ \E e \in HashElem : HashInsert(e, ok) \/ HashReplace(e, ok) \/ HashDelete(e, ok)
  \/ \E destructor \in BOOLEAN : HashClear(destructor) \/ HashDestroy(destructor)
  \/ \E e \in HashElem : HashFind(e)
  \/ HashApply \/ HashSize \/ HashFirst \/ HashNext

HashSpec == HashInitial /\ [][HashStep]_hvars

-----------------------------------------------------------------------------
Members == UNION {Range(buckets[b]) : b \in DOMAIN buckets}
Ahead(e) ==             \* the iterator has yet to come to E
  \E b \in iter[1] .. bucket_cnt - 1 : \E i \in DOMAIN buckets[b] :
    buckets[b][i] = e /\ (b = iter[1] => i > iter[2])
Left == IF iter = <<>> THEN None ELSE {e \in Members : Ahead(e)}

D == INSTANCE Dictionary WITH open <- Open, members <- Members, left <- Left

(* hash.c is a dictionary: whatever the order of calls, the sizes the table   *)
(* grows and shrinks through and the allocations that fail on the way, every  *)
(* call answers as if for a set with one element per key, and an iteration    *)
(* that no update cuts short visits every element once.                       *)
ImplementsDictionary == D!DictSpec

(* An element is where find_bucket() looks for it, the count rehash() decides *)
(* by is exact, the bucket count is a power of two of at least the minimum    *)
(* (or the mask would leave buckets out), and one array is allocated exactly  *)
(* while there is a table: no path of rehash() leaks or frees twice.          *)
TableExact ==
  /\ arrays = IF Open THEN 1 ELSE 0
  /\ Open => /\ DOMAIN buckets = 0 .. bucket_cnt - 1
             /\ \E i \in 0 .. bucket_cnt : bucket_cnt = MIN_BUCKETS * 2^i
             /\ elem_cnt = Len(Traversal(buckets))
             /\ \A b \in DOMAIN buckets : \A e \in Range(buckets[b]) : BucketIdx(e, bucket_cnt) = b
=============================================================================
