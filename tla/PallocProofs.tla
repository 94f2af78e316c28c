---------------------------- MODULE PallocProofs ----------------------------
(***************************************************************************)
(* The page allocator is correct for callers that mask IRQs, for any       *)
(* amount of memory, word size of the bitmaps and number of threads.  (For *)
(* callers that do not, the run palloc_race shows that it is not.)         *)
(***************************************************************************)
EXTENDS Palloc, DataLemmas

(* The bits of a group in its pool's bitmap. *)
GroupBits(g) == Bits(g.page - Base(g.pool), g.cnt)

(* A client has the page of bit B of pool P. *)
Taken(p, b) == \E t \in Thread : \E g \in owned[t] : g.pool = p /\ b \in GroupBits(g)

(* The call of T has set, or not yet reset, bit B of pool P. *)
Partial(t, p, b) ==
  /\ pc[t] # "user" /\ op[t].pool = p
  /\ \/ /\ pc[t] \in {"mark", "mark_store"}
        /\ op[t].start <= b /\ b < op[t].start + op[t].i
     \/ /\ pc[t] \in {"reset", "reset_store"}
        /\ op[t].start + op[t].i <= b /\ b < op[t].start + op[t].cnt

(* Calls do not overlap; a call works on pages of its pool that no client    *)
(* has; and the word it has loaded is still the bitmap's.                    *)
Alone(t) == \A u \in Thread \ {t} : pc[u] = "user"
CallOf(t) ==
  pc[t] # "user" =>
    /\ op[t] \in Op /\ op[t].i < op[t].cnt
    /\ op[t].start + op[t].cnt <= BitCnt(op[t].pool)
    /\ \A b \in Bits(op[t].start, op[t].cnt) : ~Taken(op[t].pool, b)
WordOf(t) ==
  pc[t] \in {"mark_store", "reset_store"} =>
    elem[t] = used_map[op[t].pool] \cap Word(Bit(t))

OneCall == \A t \in Thread : pc[t] # "user" => Alone(t)
CallExact == \A t \in Thread : CallOf(t)
WordFresh == \A t \in Thread : WordOf(t)

(* Groups lie in their pool and apart from each other, and the bitmap says   *)
(* what is taken, in the middle of calls too.                                *)
GroupsInside ==
  \A t \in Thread : \A g \in owned[t] :
    Base(g.pool) <= g.page /\ g.page + g.cnt <= Base(g.pool) + BitCnt(g.pool)
GroupsApart ==
  \A t, u \in Thread : \A g \in owned[t], h \in owned[u] :
    g.pool = h.pool /\ (t # u \/ g # h) => GroupBits(g) \cap GroupBits(h) = {}
MapSays ==
  \A p \in Pool, b \in Nat :
    b \in used_map[p] <=> Taken(p, b) \/ \E t \in Thread : Partial(t, p, b)

PInv == /\ TypeOK /\ NoPanic
        /\ OneCall /\ CallExact /\ WordFresh
        /\ GroupsInside /\ GroupsApart /\ MapSays

-----------------------------------------------------------------------------
(* A bit is in its word. *)
LEMMA BitInWord == ASSUME NEW b \in Nat PROVE b \in Word(b)
<1> DEFINE w == ELEM_BITS * (b \div ELEM_BITS)
<1>1. w \in Nat /\ w <= b /\ b < w + ELEM_BITS
  BY ElemAssumption, Division
<1> HIDE DEF w
<1>2. b \in w .. w + ELEM_BITS - 1
  BY <1>1, ElemAssumption
<1> QED BY <1>2 DEF Word, Bits, w

(* How palloc_init() lays the pools out: the kernel's first, each with its   *)
(* bitmap in front.                                                          *)
LEMMA UserPages ==
  LET u == Min({FreePages \div 2, UserPageLimit})
  IN  u \in Nat /\ u <= FreePages
<1>1. FreePages \div 2 \in Nat /\ FreePages \div 2 <= FreePages
  BY MemoryAssumption
<1>2. {FreePages \div 2, UserPageLimit} \in SUBSET Nat
  BY <1>1, MemoryAssumption
<1> DEFINE u == Min({FreePages \div 2, UserPageLimit})
<1>3. u \in {FreePages \div 2, UserPageLimit} /\ u <= FreePages \div 2
  BY <1>2, LeastNatural
<1> HIDE DEF u
<1>4. u \in Nat /\ u <= FreePages
  BY <1>1, <1>3, MemoryAssumption
<1> QED BY <1>4 DEF u

LEMMA Layout ==
  /\ \A p \in Pool : /\ PoolPages(p) \in Nat /\ PoolStart(p) \in Nat
                     /\ BmPages(p) \in Nat /\ BitCnt(p) \in Nat /\ Base(p) \in Nat
                     /\ Base(p) = PoolStart(p) + BmPages(p)
                     /\ Base(p) + BitCnt(p) = PoolStart(p) + PoolPages(p)
  /\ PoolStart("kernel") = 0
  /\ PoolStart("user") = PoolPages("kernel")
  /\ PoolStart("user") + PoolPages("user") = FreePages
  /\ FreePages \in Nat
<1>1. \A p \in Pool : PoolPages(p) \in Nat
  BY UserPages, MemoryAssumption DEF PoolPages, Pool
<1>2. PoolPages("kernel") + PoolPages("user") = FreePages
  BY UserPages, MemoryAssumption DEF PoolPages
<1>3. \A p \in Pool : PoolStart(p) \in Nat
  BY <1>1 DEF PoolStart, Pool
<1>4. ASSUME NEW p \in Pool PROVE BmPages(p) \in Nat
  <2>1. PoolPages(p) + ELEM_BITS - 1 \in Nat
    BY <1>1, ElemAssumption
  <2>2. DivRoundUp(PoolPages(p), ELEM_BITS) \in Nat
    BY <2>1, ElemAssumption, Division DEF DivRoundUp
  <2> HIDE DEF DivRoundUp
  <2>3. BitmapBufSize(PoolPages(p)) + PGSIZE - 1 \in Nat /\ PGSIZE \in Nat \ {0}
    BY <2>2 DEF BitmapBufSize, PGSIZE
  <2> QED BY <2>3, Division DEF BmPages, DivRoundUp
<1>5. \A p \in Pool : BmPages(p) <= PoolPages(p)
  BY PoolAssumption
<1> QED BY <1>1, <1>2, <1>3, <1>4, <1>5, MemoryAssumption DEF BitCnt, Base, PoolStart, Pool

(* palloc_free_multiple() finds the pool a page came from. *)
LEMMA PoolFound ==
  ASSUME NEW p \in Pool, NEW page \in Int,
         Base(p) <= page, page < Base(p) + BitCnt(p)
  PROVE  PoolOf(page) = p
<1>1. CASE p = "kernel"
  BY <1>1 DEF PoolOf, PageFromPool
<1>2. CASE p = "user"
  <2>1. Base("kernel") + BitCnt("kernel") <= Base("user") /\ Base("user") \in Nat
        /\ Base("kernel") + BitCnt("kernel") \in Nat
    BY Layout DEF Pool
  <2> QED BY <1>2, <2>1 DEF PoolOf, PageFromPool
<1> QED BY <1>1, <1>2 DEF Pool

-----------------------------------------------------------------------------
(* The invariant, seen by the one thread that may be inside a call. *)
MapWith(t) ==
  \A p \in Pool, b \in Nat : b \in used_map[p] <=> Taken(p, b) \/ Partial(t, p, b)

LEMMA Focus ==
  ASSUME PInv, NEW t \in Thread, Alone(t) PROVE MapWith(t)
BY DEF PInv, MapSays, MapWith, Alone, Partial

LEMMA Gather ==
  ASSUME NEW t \in Thread, TypeOK', NoPanic', Alone(t)', CallOf(t)', WordOf(t)',
         GroupsInside', GroupsApart', MapWith(t)'
  PROVE  PInv'
<1>1. OneCall'
  BY DEF OneCall, Alone
<1>2. CallExact'
  BY DEF CallExact, CallOf, Alone
<1>3. WordFresh'
  BY DEF WordFresh, WordOf, Alone
<1>4. MapSays'
  BY DEF MapSays, MapWith, Alone, Partial
<1> QED BY <1>1, <1>2, <1>3, <1>4 DEF PInv

(* Bits of a pool's bitmap number pages of free memory. *)
LEMMA BitInMemory ==
  ASSUME NEW p \in Pool, NEW b \in Nat, b < BitCnt(p)
  PROVE  b \in 0 .. FreePages - 1 /\ Base(p) + b \in 0 .. FreePages - 1
<1>1. Base(p) \in Nat /\ BitCnt(p) \in Nat /\ FreePages \in Nat
      /\ Base(p) + BitCnt(p) <= FreePages
  BY Layout DEF Pool
<1> QED BY <1>1

(* The bit a call is at is one of its group's. *)
LEMMA CallBit ==
  ASSUME PInv, NEW t \in Thread, pc[t] # "user"
  PROVE  /\ op[t] \in Op /\ op[t].pool \in Pool
         /\ op[t].start \in Nat /\ op[t].cnt \in 1 .. MaxCnt
         /\ op[t].i \in Nat /\ op[t].i < op[t].cnt
         /\ op[t].start + op[t].cnt <= BitCnt(op[t].pool)
         /\ Bit(t) = op[t].start + op[t].i /\ Bit(t) \in Nat
         /\ Bit(t) \in Bits(op[t].start, op[t].cnt)
         /\ Bit(t) \in 0 .. FreePages - 1
         /\ \A b \in Bits(op[t].start, op[t].cnt) : ~Taken(op[t].pool, b)
<1>1. CallOf(t)
  BY DEF PInv, CallExact
<1>2. /\ op[t] \in Op /\ op[t].i < op[t].cnt
      /\ op[t].start + op[t].cnt <= BitCnt(op[t].pool)
      /\ \A b \in Bits(op[t].start, op[t].cnt) : ~Taken(op[t].pool, b)
  BY <1>1 DEF CallOf
<1>3. /\ op[t].pool \in Pool /\ op[t].start \in Nat /\ op[t].cnt \in 1 .. MaxCnt
      /\ op[t].i \in 0 .. MaxCnt
  BY <1>2 DEF Op
<1>4. Bit(t) = op[t].start + op[t].i /\ MaxCnt \in Nat
  BY ClientAssumption DEF Bit
<1>5. /\ op[t].i \in Nat /\ Bit(t) \in Nat
      /\ Bit(t) \in Bits(op[t].start, op[t].cnt)
      /\ Bit(t) < op[t].start + op[t].cnt
  BY <1>2, <1>3, <1>4 DEF Bits
<1>6. BitCnt(op[t].pool) \in Nat
  BY <1>3, Layout
<1>7. Bit(t) < BitCnt(op[t].pool)
  BY <1>2, <1>3, <1>4, <1>5, <1>6
<1> QED BY <1>2, <1>3, <1>4, <1>5, <1>7, BitInMemory

(* Storing the word sets, or clears, the one bit: nothing else was changed   *)
(* since it was loaded.                                                      *)
LEMMA StoreSets ==
  ASSUME PInv, NEW t \in Thread, pc[t] \in {"mark_store", "reset_store"}
  PROVE  /\ StoreWord(t, elem[t] \cup {Bit(t)}) =>
              used_map' = [used_map EXCEPT ![op[t].pool] = @ \cup {Bit(t)}]
         /\ StoreWord(t, elem[t] \ {Bit(t)}) =>
              used_map' = [used_map EXCEPT ![op[t].pool] = @ \ {Bit(t)}]
<1>1. Bit(t) \in Word(Bit(t))
  BY CallBit, BitInWord
<1>2. elem[t] = used_map[op[t].pool] \cap Word(Bit(t))
  BY DEF PInv, WordFresh, WordOf
<1> DEFINE m == used_map[op[t].pool]
<1>3. (m \ Word(Bit(t))) \cup (elem[t] \cup {Bit(t)}) = m \cup {Bit(t)}
  BY <1>1, <1>2
<1>4. (m \ Word(Bit(t))) \cup (elem[t] \ {Bit(t)}) = m \ {Bit(t)}
  BY <1>1, <1>2
<1> QED BY <1>3, <1>4 DEF StoreWord

LEMMA PallocInit == Init => PInv
<1> SUFFICES ASSUME Init PROVE PInv
  OBVIOUS
<1>1. TypeOK
  BY DEF Init, TypeOK
<1> QED BY <1>1 DEF Init, PInv, NoPanic, OneCall, Alone, CallExact, CallOf, WordFresh, WordOf,
     GroupsInside, GroupsApart, MapSays, Taken, Partial

LEMMA PallocStutter == ASSUME PInv, UNCHANGED vars PROVE PInv'
BY DEF vars, PInv, TypeOK, NoPanic, OneCall, Alone, CallExact, CallOf, WordFresh, WordOf, Bit,
     GroupsInside, GroupsApart, MapSays, Taken, Partial

(* palloc_get_multiple() has found a run of bits that are all clear. *)
LEMMA ScanFound ==
  ASSUME PInv, NEW p \in Pool, NEW cnt \in 1 .. MaxCnt, BitmapScan(p, cnt) # BITMAP_ERROR
  PROVE  /\ BitmapScan(p, cnt) \in Nat
         /\ BitmapScan(p, cnt) + cnt <= BitCnt(p)
         /\ Bits(BitmapScan(p, cnt), cnt) \cap used_map[p] = {}
<1> DEFINE fits == {i \in 0 .. BitCnt(p) - cnt : Bits(i, cnt) \cap used_map[p] = {}}
<1>1. BitmapScan(p, cnt) = Min(fits) /\ fits # {}
  BY DEF BitmapScan
<1>2. BitCnt(p) \in Nat /\ cnt \in Nat
  BY Layout, ClientAssumption
<1>3. fits \in SUBSET Nat
  BY <1>2
<1>4. Min(fits) \in fits
  BY <1>1, <1>3, LeastNatural
<1>5. /\ Min(fits) \in 0 .. BitCnt(p) - cnt
      /\ Bits(Min(fits), cnt) \cap used_map[p] = {}
  BY <1>4
<1> HIDE DEF fits
<1> QED BY <1>1, <1>2, <1>5

-----------------------------------------------------------------------------
(* While one call runs nobody else does: its caller has masked IRQs. *)
LEMMA MaskedAlone ==
  ASSUME Masked, NEW t \in Thread, NEW label, At(t, label)
  PROVE  Alone(t) /\ pc[t] = label /\ ~panicked
BY DEF At, Alone

(* A step that leaves the clients' pages alone leaves these two alone too. *)
LEMMA OwnedSame ==
  ASSUME PInv, owned' = owned
  PROVE  /\ GroupsInside' /\ GroupsApart'
         /\ \A p, b : Taken(p, b)' <=> Taken(p, b)
BY DEF PInv, GroupsInside, GroupsApart, Taken

LEMMA GetPreserves ==
  ASSUME Masked, PInv, NEW t \in Thread, NEW p \in Pool, NEW cnt \in 1 .. MaxCnt,
         PallocGet(t, p, cnt)
  PROVE  PInv'
<1> DEFINE s == BitmapScan(p, cnt)
           o == [pool |-> p, start |-> s, cnt |-> cnt, i |-> 0]
<1>1. /\ s \in Nat /\ s + cnt <= BitCnt(p) /\ Bits(s, cnt) \cap used_map[p] = {}
  BY ScanFound DEF PallocGet
<1>2. /\ At(t, "user")
      /\ lock' = [lock EXCEPT ![p] = t] /\ op' = [op EXCEPT ![t] = o]
      /\ pc' = [pc EXCEPT ![t] = "mark"]
      /\ used_map' = used_map /\ elem' = elem /\ owned' = owned /\ panicked' = panicked
  BY DEF PallocGet
<1> HIDE DEF s
<1>3. o \in Op /\ o.pool = p /\ o.start = s /\ o.cnt = cnt /\ o.i = 0
  BY <1>1, ClientAssumption DEF Op
<1> HIDE DEF o
<1>4. Alone(t) /\ pc[t] = "user" /\ ~panicked
  BY <1>2, MaskedAlone
<1>5. TypeOK
  BY DEF PInv
<1>6. TypeOK'
  BY <1>2, <1>3, <1>5 DEF TypeOK
<1>7. pc'[t] = "mark" /\ op'[t] = o
  BY <1>2, <1>5 DEF TypeOK
<1>8. Alone(t)' /\ NoPanic'
  BY <1>2, <1>4, <1>5 DEF Alone, TypeOK, NoPanic
<1>9. GroupsInside' /\ GroupsApart' /\ \A q, b : Taken(q, b)' <=> Taken(q, b)
  BY <1>2, OwnedSame
<1>10. MapWith(t)
  BY <1>4, Focus
<1>11. \A b \in Bits(s, cnt) : b \in Nat /\ ~Taken(p, b)
  <2>1. \A b \in Bits(s, cnt) : b \in Nat
    BY <1>1, ClientAssumption DEF Bits
  <2> QED BY <1>1, <1>10, <2>1 DEF MapWith
<1>12. CallOf(t)'
  <2>1. op'[t] \in Op /\ op'[t].i < op'[t].cnt
        /\ op'[t].start + op'[t].cnt <= BitCnt(op'[t].pool)
    BY <1>1, <1>3, <1>7, ClientAssumption
  <2>2. \A b \in Bits(s, cnt) : ~Taken(p, b)'
    BY <1>9, <1>11
  <2>3. \A b \in Bits(op[t].start, op[t].cnt)' : ~Taken(op[t].pool, b)'
    BY <1>3, <1>7, <2>2 DEF Taken
  <2> QED BY <2>1, <2>3 DEF CallOf
<1>13. WordOf(t)'
  BY <1>7 DEF WordOf
<1>14. MapWith(t)'
  <2>1. \A q \in Pool, b \in Nat : ~Partial(t, q, b) /\ ~Partial(t, q, b)'
    BY <1>1, <1>3, <1>4, <1>7 DEF Partial
  <2> QED BY <1>2, <1>9, <1>10, <2>1 DEF MapWith
<1> QED BY <1>6, <1>8, <1>9, <1>12, <1>13, <1>14, Gather

LEMMA LoadPreserves ==
  ASSUME Masked, PInv, NEW t \in Thread,
         MarkLoad(t) \/ ResetLoad(t)
  PROVE  PInv'
<1>1. PICK label \in {"mark", "reset"} :
        Load(t, label, IF label = "mark" THEN "mark_store" ELSE "reset_store")
  BY DEF MarkLoad, ResetLoad
<1> DEFINE next == IF label = "mark" THEN "mark_store" ELSE "reset_store"
<1>2. /\ At(t, label)
      /\ elem' = [elem EXCEPT ![t] = used_map[op[t].pool] \cap Word(Bit(t))]
      /\ pc' = [pc EXCEPT ![t] = next]
      /\ used_map' = used_map /\ lock' = lock /\ op' = op /\ owned' = owned
      /\ panicked' = panicked
  BY <1>1 DEF Load
<1>3. TypeOK
  BY DEF PInv
<1>4. Alone(t) /\ pc[t] = label /\ ~panicked
  BY <1>2, MaskedAlone
<1>5. used_map[op[t].pool] \subseteq 0 .. FreePages - 1
  BY <1>3, <1>4, CallBit DEF TypeOK
<1>6. TypeOK'
  BY <1>2, <1>3, <1>5 DEF TypeOK
<1>7. pc'[t] = next /\ op'[t] = op[t]
      /\ elem'[t] = used_map[op[t].pool] \cap Word(Bit(t))
  BY <1>2, <1>3 DEF TypeOK
<1>8. Alone(t)' /\ NoPanic'
  BY <1>2, <1>3, <1>4 DEF Alone, TypeOK, NoPanic
<1>9. GroupsInside' /\ GroupsApart' /\ \A q, b : Taken(q, b)' <=> Taken(q, b)
  BY <1>2, OwnedSame
<1>10. CallOf(t)'
  BY <1>2, <1>4, <1>7, <1>9, CallBit DEF CallOf
<1>11. WordOf(t)'
  BY <1>2, <1>7 DEF WordOf, Bit
<1>12. MapWith(t)'
  <2>1. \A q, b : Partial(t, q, b)' <=> Partial(t, q, b)
    BY <1>4, <1>7 DEF Partial
  <2>2. MapWith(t)
    BY <1>4, Focus
  <2> QED BY <1>2, <1>9, <2>1, <2>2 DEF MapWith
<1> QED BY <1>6, <1>8, <1>9, <1>10, <1>11, <1>12, Gather

-----------------------------------------------------------------------------
(* What a store leaves: the loop goes on, or the call is over. *)
LEMMA NextBitStep ==
  ASSUME PInv, NEW t \in Thread, NEW label \in {"mark", "reset"},
         pc[t] # "user", Alone(t), NextBit(t, label)
  PROVE  /\ Alone(t)' /\ WordOf(t)'
         /\ op' \in [Thread -> Op \cup {NULL}]
         /\ pc' \in [Thread -> {"user", "mark", "mark_store", "reset", "reset_store"}]
         /\ elem' \in [Thread -> SUBSET (0 .. FreePages - 1)]
         /\ Last(t) => pc'[t] = "user" /\ op[t].i = op[t].cnt - 1
         /\ ~Last(t) => /\ pc'[t] = label /\ op'[t] \in Op
                        /\ op'[t].pool = op[t].pool /\ op'[t].start = op[t].start
                        /\ op'[t].cnt = op[t].cnt /\ op'[t].i = op[t].i + 1
                        /\ op[t].i + 1 < op[t].cnt
<1>1. /\ op' = [op EXCEPT ![t] = IF Last(t) THEN NULL ELSE [op[t] EXCEPT !.i = op[t].i + 1]]
      /\ pc' = [pc EXCEPT ![t] = IF Last(t) THEN "user" ELSE label]
      /\ elem' = [elem EXCEPT ![t] = {}]
  BY DEF NextBit
<1>2. TypeOK
  BY DEF PInv
<1>3. pc'[t] = IF Last(t) THEN "user" ELSE label
  BY <1>1, <1>2 DEF TypeOK
<1>4. Alone(t)' /\ WordOf(t)'
  BY <1>1, <1>2, <1>3 DEF Alone, TypeOK, WordOf
<1>5. CASE Last(t)
  <2>1. op[t].i = op[t].cnt - 1
    BY <1>5, CallBit, ClientAssumption DEF Last
  <2> QED BY <1>1, <1>2, <1>3, <1>4, <1>5, <2>1 DEF TypeOK
<1>6. CASE ~Last(t)
  <2> DEFINE o == [op[t] EXCEPT !.i = op[t].i + 1]
  <2>1. op[t].i + 1 < op[t].cnt /\ op[t].i + 1 \in 0 .. MaxCnt
    BY <1>6, CallBit, ClientAssumption DEF Last
  <2>2. /\ o \in Op /\ o.pool = op[t].pool /\ o.start = op[t].start
        /\ o.cnt = op[t].cnt /\ o.i = op[t].i + 1
    BY <2>1, CallBit DEF Op
  <2> HIDE DEF o
  <2>3. op' = [op EXCEPT ![t] = o]
    BY <1>1, <1>6 DEF o
  <2>4. op'[t] = o
    BY <1>2, <2>3 DEF TypeOK
  <2>5. op' \in [Thread -> Op \cup {NULL}]
    BY <1>2, <2>2, <2>3 DEF TypeOK
  <2>6. pc' = [pc EXCEPT ![t] = label] /\ pc'[t] = label
    BY <1>1, <1>3, <1>6
  <2>7. pc' \in [Thread -> {"user", "mark", "mark_store", "reset", "reset_store"}]
    BY <1>2, <2>6 DEF TypeOK
  <2>8. elem' \in [Thread -> SUBSET (0 .. FreePages - 1)]
    BY <1>1, <1>2 DEF TypeOK
  <2> QED BY <1>4, <1>6, <2>1, <2>2, <2>4, <2>5, <2>6, <2>7, <2>8
<1> QED BY <1>5, <1>6

LEMMA ResetStorePreserves ==
  ASSUME Masked, PInv, NEW t \in Thread, ResetStore(t)
  PROVE  PInv'
<1> DEFINE p == op[t].pool
           bit == Bit(t)
<1>1. /\ At(t, "reset_store") /\ StoreWord(t, elem[t] \ {bit}) /\ NextBit(t, "reset")
      /\ lock' = lock /\ owned' = owned /\ panicked' = panicked
  BY DEF ResetStore
<1>2. Alone(t) /\ pc[t] = "reset_store" /\ ~panicked
  BY <1>1, MaskedAlone
<1>3. used_map' = [used_map EXCEPT ![p] = @ \ {bit}]
  BY <1>1, <1>2, StoreSets
<1>4. TypeOK /\ p \in Pool
  BY <1>2, CallBit DEF PInv
<1>5. /\ used_map' \in [Pool -> SUBSET (0 .. FreePages - 1)]
      /\ \A q \in Pool : used_map'[q] = IF q = p THEN used_map[q] \ {bit} ELSE used_map[q]
  BY <1>3, <1>4 DEF TypeOK
<1> HIDE DEF p, bit
<1>6. TypeOK'
  BY <1>1, <1>2, <1>4, <1>5, NextBitStep DEF TypeOK
<1>7. Alone(t)' /\ WordOf(t)' /\ NoPanic'
  BY <1>1, <1>2, NextBitStep DEF NoPanic
<1>8. GroupsInside' /\ GroupsApart' /\ \A q, b : Taken(q, b)' <=> Taken(q, b)
  BY <1>1, OwnedSame
<1>9. CallOf(t)'
  <2>1. CASE Last(t)
    BY <1>1, <1>2, <2>1, NextBitStep DEF CallOf
  <2>2. CASE ~Last(t)
    <3>1. /\ op'[t] \in Op /\ op'[t].pool = op[t].pool /\ op'[t].start = op[t].start
          /\ op'[t].cnt = op[t].cnt /\ op'[t].i = op[t].i + 1 /\ op[t].i + 1 < op[t].cnt
      BY <1>1, <1>2, <2>2, NextBitStep
    <3>2. \A b \in Bits(op[t].start, op[t].cnt)' : ~Taken(op[t].pool, b)'
      BY <1>1, <1>2, <3>1, CallBit DEF Taken
    <3>3. op'[t].start + op'[t].cnt <= BitCnt(op'[t].pool)
      BY <1>2, <3>1, CallBit
    <3> QED BY <3>1, <3>2, <3>3 DEF CallOf
  <2> QED BY <2>1, <2>2
<1>10. MapWith(t)'
  <2>1. MapWith(t)
    BY <1>2, Focus
  <2>2. \A q \in Pool, b \in Nat :
          Partial(t, q, b)' <=> Partial(t, q, b) /\ ~(q = p /\ b = bit)
    <3>1. /\ op[t].start \in Nat /\ op[t].cnt \in Nat /\ op[t].i \in Nat
          /\ op[t].i < op[t].cnt /\ bit = op[t].start + op[t].i /\ p = op[t].pool
      BY <1>2, CallBit, ClientAssumption DEF p, bit
    <3>2. CASE Last(t)
      <4>1. pc'[t] = "user" /\ op[t].i = op[t].cnt - 1
        BY <1>1, <1>2, <3>2, NextBitStep
      <4> QED BY <1>2, <3>1, <4>1 DEF Partial
    <3>3. CASE ~Last(t)
      <4>1. /\ pc'[t] = "reset" /\ op'[t].pool = op[t].pool /\ op'[t].start = op[t].start
            /\ op'[t].cnt = op[t].cnt /\ op'[t].i = op[t].i + 1
        BY <1>1, <1>2, <3>3, NextBitStep
      <4> QED BY <1>2, <3>1, <4>1 DEF Partial
    <3> QED BY <3>2, <3>3
  <2>3. ~Taken(p, bit)
    BY <1>2, CallBit DEF p, bit
  <2>4. \A q, b : Taken(q, b)' <=> Taken(q, b)
    BY <1>8
  <2> QED BY <1>5, <2>1, <2>2, <2>3, <2>4 DEF MapWith
<1> QED BY <1>6, <1>7, <1>8, <1>9, <1>10, Gather

-----------------------------------------------------------------------------
(* bitmap_mark() before the last bit. *)
LEMMA MarkStoreMore ==
  ASSUME Masked, PInv, NEW t \in Thread, MarkStore(t), ~Last(t)
  PROVE  PInv'
<1> DEFINE p == op[t].pool
           bit == Bit(t)
<1>1. /\ At(t, "mark_store") /\ StoreWord(t, elem[t] \cup {bit}) /\ NextBit(t, "mark")
      /\ lock' = lock /\ owned' = owned /\ panicked' = panicked
  BY DEF MarkStore
<1>2. Alone(t) /\ pc[t] = "mark_store" /\ ~panicked
  BY <1>1, MaskedAlone
<1>3. used_map' = [used_map EXCEPT ![p] = @ \cup {bit}]
  BY <1>1, <1>2, StoreSets
<1>4. TypeOK /\ p \in Pool /\ bit \in 0 .. FreePages - 1
  BY <1>2, CallBit DEF PInv
<1>5. /\ used_map' \in [Pool -> SUBSET (0 .. FreePages - 1)]
      /\ \A q \in Pool : used_map'[q] = IF q = p THEN used_map[q] \cup {bit} ELSE used_map[q]
  BY <1>3, <1>4 DEF TypeOK
<1> HIDE DEF p, bit
<1>6. TypeOK'
  BY <1>1, <1>2, <1>4, <1>5, NextBitStep DEF TypeOK
<1>7. Alone(t)' /\ WordOf(t)' /\ NoPanic'
  BY <1>1, <1>2, NextBitStep DEF NoPanic
<1>8. GroupsInside' /\ GroupsApart' /\ \A q, b : Taken(q, b)' <=> Taken(q, b)
  BY <1>1, OwnedSame
<1>9. /\ pc'[t] = "mark" /\ op'[t] \in Op /\ op'[t].pool = op[t].pool
      /\ op'[t].start = op[t].start /\ op'[t].cnt = op[t].cnt /\ op'[t].i = op[t].i + 1
      /\ op[t].i + 1 < op[t].cnt
  BY <1>1, <1>2, NextBitStep
<1>10. CallOf(t)'
  <2>1. \A b \in Bits(op[t].start, op[t].cnt)' : ~Taken(op[t].pool, b)'
    BY <1>1, <1>2, <1>9, CallBit DEF Taken
  <2>2. op'[t].start + op'[t].cnt <= BitCnt(op'[t].pool)
    BY <1>2, <1>9, CallBit
  <2> QED BY <1>9, <2>1, <2>2 DEF CallOf
<1>11. MapWith(t)'
  <2>1. MapWith(t)
    BY <1>2, Focus
  <2>2. \A q \in Pool, b \in Nat :
          Partial(t, q, b)' <=> Partial(t, q, b) \/ (q = p /\ b = bit)
    <3>1. /\ op[t].start \in Nat /\ op[t].cnt \in Nat /\ op[t].i \in Nat
          /\ op[t].i < op[t].cnt /\ bit = op[t].start + op[t].i /\ p = op[t].pool
      BY <1>2, CallBit, ClientAssumption DEF p, bit
    <3> QED BY <1>2, <1>9, <3>1 DEF Partial
  <2>3. \A q, b : Taken(q, b)' <=> Taken(q, b)
    BY <1>8
  <2> QED BY <1>5, <2>1, <2>2, <2>3 DEF MapWith
<1> QED BY <1>6, <1>7, <1>8, <1>10, <1>11, Gather

(* bitmap_mark() of the last bit: palloc_get_multiple() returns the group. *)
LEMMA MarkStoreLast ==
  ASSUME Masked, PInv, NEW t \in Thread, MarkStore(t), Last(t)
  PROVE  PInv'
<1> DEFINE p == op[t].pool
           bit == Bit(t)
           s == op[t].start
           n == op[t].cnt
           g == [pool |-> p, page |-> Base(p) + s, cnt |-> n]
<1>1. /\ At(t, "mark_store") /\ StoreWord(t, elem[t] \cup {bit}) /\ NextBit(t, "mark")
      /\ lock' = [lock EXCEPT ![p] = NULL]
      /\ owned' = [owned EXCEPT ![t] = @ \cup {g}] /\ panicked' = panicked
  BY DEF MarkStore
<1>2. Alone(t) /\ pc[t] = "mark_store" /\ ~panicked
  BY <1>1, MaskedAlone
<1>3. used_map' = [used_map EXCEPT ![p] = @ \cup {bit}]
  BY <1>1, <1>2, StoreSets
<1>4. TypeOK /\ p \in Pool /\ bit \in 0 .. FreePages - 1
  BY <1>2, CallBit DEF PInv
<1>5. /\ used_map' \in [Pool -> SUBSET (0 .. FreePages - 1)]
      /\ \A q \in Pool : used_map'[q] = IF q = p THEN used_map[q] \cup {bit} ELSE used_map[q]
  BY <1>3, <1>4 DEF TypeOK
<1>6. /\ s \in Nat /\ n \in 1 .. MaxCnt /\ n \in Nat /\ n > 0 /\ op[t].i = n - 1
      /\ bit = s + n - 1 /\ s + n <= BitCnt(p)
      /\ \A b \in Bits(s, n) : ~Taken(p, b)
  <2>1. op[t].i = n - 1
    BY <1>1, <1>2, NextBitStep
  <2>2. /\ s \in Nat /\ n \in 1 .. MaxCnt /\ bit = s + op[t].i /\ s + n <= BitCnt(p)
        /\ \A b \in Bits(s, n) : ~Taken(p, b)
    BY <1>2, CallBit
  <2> HIDE DEF s, n, bit, p
  <2>3. n \in Nat /\ n > 0
    BY <2>2, ClientAssumption
  <2> QED BY <2>1, <2>2, <2>3
<1>7. Base(p) \in Nat /\ BitCnt(p) \in Nat
  BY <1>4, Layout
<1>8. g \in Group /\ GroupBits(g) = Bits(s, n)
      /\ g.pool = p /\ g.page = Base(p) + s /\ g.cnt = n
  <2>1. s < BitCnt(p)
    BY <1>6, <1>7
  <2>2. Base(p) + s \in 0 .. FreePages - 1
    BY <1>4, <1>6, <2>1, BitInMemory
  <2>3. g.pool = p /\ g.page = Base(p) + s /\ g.cnt = n
    OBVIOUS
  <2>4. g.page - Base(g.pool) = s
    BY <1>6, <1>7, <2>3
  <2> QED BY <1>4, <1>6, <2>2, <2>3, <2>4 DEF Group, GroupBits
<1>9. pc'[t] = "user" /\ Alone(t)' /\ WordOf(t)' /\ NoPanic'
  BY <1>1, <1>2, NextBitStep DEF NoPanic
<1> HIDE DEF p, bit, s, n, g
<1>10. TypeOK'
  <2>1. owned' \in [Thread -> SUBSET Group]
    BY <1>1, <1>4, <1>8 DEF TypeOK
  <2>2. lock' \in [Pool -> Thread \cup {NULL}]
    BY <1>1, <1>4 DEF TypeOK
  <2> QED BY <1>1, <1>2, <1>4, <1>5, <2>1, <2>2, NextBitStep DEF TypeOK
<1>11. \A u \in Thread : \A h : h \in owned'[u] <=> h \in owned[u] \/ (u = t /\ h = g)
  BY <1>1, <1>4 DEF TypeOK
<1>12. CallOf(t)'
  BY <1>9 DEF CallOf
<1>13. GroupsInside'
  <2>1. Base(g.pool) <= g.page /\ g.page + g.cnt <= Base(g.pool) + BitCnt(g.pool)
    BY <1>6, <1>7, <1>8
  <2>2. GroupsInside
    BY DEF PInv
  <2> QED BY <1>11, <2>1, <2>2 DEF GroupsInside
<1>14. GroupsApart'
  <2>1. ASSUME NEW u \in Thread, NEW h \in owned[u], h.pool = p
        PROVE  GroupBits(g) \cap GroupBits(h) = {} /\ GroupBits(h) \cap GroupBits(g) = {}
    <3>1. \A b \in GroupBits(h) : Taken(p, b)
      BY <2>1 DEF Taken
    <3> QED BY <1>6, <1>8, <3>1
  <2>2. GroupsApart
    BY DEF PInv
  <2>3. ASSUME NEW u \in Thread, NEW v \in Thread, NEW h \in owned'[u], NEW k \in owned'[v],
               h.pool = k.pool, u # v \/ h # k
        PROVE  GroupBits(h) \cap GroupBits(k) = {}
    <3>1. CASE h \in owned[u] /\ k \in owned[v]
      BY <2>2, <2>3, <3>1 DEF GroupsApart
    <3>2. CASE h \in owned[u] /\ (v = t /\ k = g)
      BY <1>8, <2>1, <2>3, <3>2
    <3>3. CASE (u = t /\ h = g) /\ k \in owned[v]
      BY <1>8, <2>1, <2>3, <3>3
    <3>4. CASE (u = t /\ h = g) /\ (v = t /\ k = g)
      BY <2>3, <3>4
    <3> QED BY <1>11, <3>1, <3>2, <3>3, <3>4
  <2> QED BY <2>3 DEF GroupsApart, GroupBits
<1>15. MapWith(t)'
  <2>1. MapWith(t)
    BY <1>2, Focus
  <2>2. \A q, b : Taken(q, b)' <=> Taken(q, b) \/ (q = p /\ b \in Bits(s, n))
    BY <1>8, <1>11 DEF Taken, GroupBits
  <2>3. \A q \in Pool, b \in Nat :
          /\ ~Partial(t, q, b)'
          /\ Partial(t, q, b) \/ (q = p /\ b = bit) <=> q = p /\ b \in Bits(s, n)
    <3>1. op[t].start = s /\ op[t].i = n - 1 /\ op[t].pool = p
      BY <1>6 DEF s, p, n
    <3> QED BY <1>2, <1>6, <1>9, <3>1 DEF Partial, Bits
  <2> QED BY <1>5, <2>1, <2>2, <2>3 DEF MapWith
<1> QED BY <1>9, <1>10, <1>12, <1>13, <1>14, <1>15, Gather

(* palloc_free_multiple(): its ASSERT holds, and the group is the caller's   *)
(* no more.                                                                  *)
LEMMA FreePreserves ==
  ASSUME Masked, PInv, NEW t \in Thread, NEW g \in owned[t], PallocFree(t, g)
  PROVE  PInv'
<1> DEFINE p == g.pool
           s == g.page - Base(p)
           n == g.cnt
           o == [pool |-> p, start |-> s, cnt |-> n, i |-> 0]
<1>1. TypeOK
  BY DEF PInv
<1>2. /\ g \in Group /\ p \in Pool /\ g.page \in Nat /\ n \in 1 .. MaxCnt
      /\ n \in Nat /\ n > 0 /\ MaxCnt \in Nat
  BY <1>1, MemoryAssumption, ClientAssumption DEF TypeOK, Group
<1>3. Base(p) \in Nat /\ BitCnt(p) \in Nat
  BY <1>2, Layout
<1>4. Base(p) <= g.page /\ g.page + n <= Base(p) + BitCnt(p)
  BY DEF PInv, GroupsInside
<1>5. s \in Nat /\ s + n <= BitCnt(p) /\ GroupBits(g) = Bits(s, n)
  BY <1>2, <1>3, <1>4 DEF GroupBits
<1>6. PoolOf(g.page) = p
  BY <1>2, <1>3, <1>4, PoolFound
<1>7. At(t, "user")
  BY DEF PallocFree
<1>8. Alone(t) /\ pc[t] = "user" /\ ~panicked
  BY <1>7, MaskedAlone
<1>9. MapWith(t) /\ \A q, b : ~Partial(t, q, b)
  BY <1>8, Focus DEF Partial
<1>10. Bits(s, n) \subseteq used_map[p]
  <2>1. \A b \in Bits(s, n) : b \in Nat
    BY <1>2, <1>5 DEF Bits
  <2>2. \A b \in Bits(s, n) : Taken(p, b)
    BY <1>5 DEF Taken
  <2> QED BY <1>2, <1>9, <2>1, <2>2 DEF MapWith
<1>11. /\ owned' = [owned EXCEPT ![t] = @ \ {g}] /\ op' = [op EXCEPT ![t] = o]
       /\ pc' = [pc EXCEPT ![t] = "reset"]
       /\ used_map' = used_map /\ lock' = lock /\ elem' = elem /\ panicked' = panicked
  BY <1>6, <1>10 DEF PallocFree
<1> HIDE DEF s
<1>12. o \in Op /\ o.pool = p /\ o.start = s /\ o.cnt = n /\ o.i = 0
  BY <1>2, <1>5 DEF Op
<1> HIDE DEF p, n, o
<1>13. TypeOK'
  BY <1>1, <1>11, <1>12 DEF TypeOK
<1>14. pc'[t] = "reset" /\ op'[t] = o
  BY <1>1, <1>11 DEF TypeOK
<1>15. Alone(t)' /\ NoPanic'
  BY <1>1, <1>8, <1>11 DEF Alone, TypeOK, NoPanic
<1>16. \A u \in Thread : \A h : h \in owned'[u] <=> h \in owned[u] /\ ~(u = t /\ h = g)
  BY <1>1, <1>11 DEF TypeOK
<1>17. GroupsInside' /\ GroupsApart'
  BY <1>16 DEF PInv, GroupsInside, GroupsApart
<1>18. \A q, b : Taken(q, b)' <=> Taken(q, b) /\ ~(q = p /\ b \in Bits(s, n))
  <2>1. \A u \in Thread : \A h \in owned[u] :
          h.pool = p /\ (t # u \/ g # h) => GroupBits(g) \cap GroupBits(h) = {}
    BY DEF PInv, GroupsApart, p
  <2>2. \A q, b : Taken(q, b)' <=>
          \E u \in Thread : \E h \in owned[u] :
            ~(u = t /\ h = g) /\ h.pool = q /\ b \in GroupBits(h)
    BY <1>16 DEF Taken, GroupBits
  <2> QED BY <1>5, <2>1, <2>2 DEF Taken, p
<1>19. CallOf(t)'
  <2>1. op'[t] \in Op /\ op'[t].i < op'[t].cnt
        /\ op'[t].start + op'[t].cnt <= BitCnt(op'[t].pool)
    BY <1>2, <1>5, <1>12, <1>14 DEF n
  <2>2. \A b \in Bits(s, n) : ~Taken(p, b)'
    BY <1>18
  <2>3. \A b \in Bits(op[t].start, op[t].cnt)' : ~Taken(op[t].pool, b)'
    BY <1>12, <1>14, <2>2 DEF Taken, GroupBits
  <2> QED BY <2>1, <2>3 DEF CallOf
<1>20. WordOf(t)'
  BY <1>14 DEF WordOf
<1>21. MapWith(t)'
  <2>1. \A q \in Pool, b \in Nat : Partial(t, q, b)' <=> q = p /\ b \in Bits(s, n)
    BY <1>2, <1>5, <1>12, <1>14 DEF Partial, Bits, n
  <2>2. \A b \in Bits(s, n) : Taken(p, b)
    BY <1>5 DEF Taken, p
  <2> QED BY <1>9, <1>11, <1>18, <2>1, <2>2 DEF MapWith
<1> QED BY <1>13, <1>15, <1>17, <1>19, <1>20, <1>21, Gather

-----------------------------------------------------------------------------
(* The allocator's invariant holds for ever if every caller masks IRQs, as   *)
(* thread_create() and thread_schedule_tail() do: no call is ever half done  *)
(* while another one looks at the bitmap.                                    *)
THEOREM PallocInvariance == ASSUME Masked PROVE Spec => []PInv
<1>1. ASSUME PInv, [Next]_vars PROVE PInv'
  <2>1. CASE UNCHANGED vars
    BY <1>1, <2>1, PallocStutter
  <2>2. ASSUME NEW t \in Thread, NEW p \in Pool, NEW cnt \in 1 .. MaxCnt, PallocGet(t, p, cnt)
        PROVE  PInv'
    BY <1>1, <2>2, GetPreserves
  <2>3. ASSUME NEW t \in Thread, NEW g \in owned[t], PallocFree(t, g)
        PROVE  PInv'
    BY <1>1, <2>3, FreePreserves
  <2>4. ASSUME NEW t \in Thread, MarkLoad(t) \/ ResetLoad(t)
        PROVE  PInv'
    BY <1>1, <2>4, LoadPreserves
  <2>5. ASSUME NEW t \in Thread, MarkStore(t)
        PROVE  PInv'
    BY <1>1, <2>5, MarkStoreLast, MarkStoreMore
  <2>6. ASSUME NEW t \in Thread, ResetStore(t)
        PROVE  PInv'
    BY <1>1, <2>6, ResetStorePreserves
  <2> QED BY <1>1, <2>1, <2>2, <2>3, <2>4, <2>5, <2>6 DEF Next
<1> QED BY <1>1, PallocInit, PTL DEF Spec

(* The ASSERT of palloc_free_multiple(), that the bits of the pages given    *)
(* back are all set, never fires.                                            *)
THEOREM FreeAsserted == ASSUME Masked PROVE Spec => []NoPanic
<1>1. PInv => NoPanic
  BY DEF PInv
<1> QED BY <1>1, PallocInvariance, PTL

(* The pages of a group are those of its bits. *)
LEMMA PagesAndBits ==
  ASSUME PInv, NEW t \in Thread, NEW g \in owned[t]
  PROVE  /\ g.pool \in Pool /\ Base(g.pool) \in Nat /\ BitCnt(g.pool) \in Nat
         /\ \A x : x \in PagesOf(g) <=> x \in Int /\ x - Base(g.pool) \in GroupBits(g)
         /\ \A x \in PagesOf(g) : Base(g.pool) <= x /\ x < Base(g.pool) + BitCnt(g.pool)
<1>1. g \in Group
  BY DEF PInv, TypeOK
<1>2. g.pool \in Pool /\ g.page \in Nat /\ g.cnt \in Nat
  BY <1>1, MemoryAssumption, ClientAssumption DEF Group
<1>3. Base(g.pool) \in Nat /\ BitCnt(g.pool) \in Nat
  BY <1>2, Layout
<1>4. Base(g.pool) <= g.page /\ g.page + g.cnt <= Base(g.pool) + BitCnt(g.pool)
  BY DEF PInv, GroupsInside
<1> QED BY <1>2, <1>3, <1>4 DEF PagesOf, GroupBits, Bits

(* palloc_get_multiple() never hands out a page that a client already has,   *)
(* whatever pool either came from.                                           *)
THEOREM PagesApart == ASSUME Masked PROVE Spec => []NoDoubleAllocation
<1>1. ASSUME PInv PROVE NoDoubleAllocation
  <2>1. ASSUME NEW t \in Thread, NEW u \in Thread, NEW g \in owned[t], NEW h \in owned[u],
               t # u \/ g # h, NEW x \in PagesOf(g), x \in PagesOf(h)
        PROVE  FALSE
    <3>1. /\ g.pool \in Pool /\ h.pool \in Pool /\ x \in Int
          /\ x - Base(g.pool) \in GroupBits(g) /\ x - Base(h.pool) \in GroupBits(h)
          /\ Base(g.pool) <= x /\ x < Base(g.pool) + BitCnt(g.pool)
          /\ Base(h.pool) <= x /\ x < Base(h.pool) + BitCnt(h.pool)
      BY <1>1, <2>1, PagesAndBits
    <3>2. g.pool = h.pool
      <4>1. PoolOf(x) = g.pool
        BY <3>1, PoolFound
      <4>2. PoolOf(x) = h.pool
        BY <3>1, PoolFound
      <4> QED BY <4>1, <4>2
    <3>3. GroupBits(g) \cap GroupBits(h) = {}
      BY <1>1, <2>1, <3>2 DEF PInv, GroupsApart
    <3> QED BY <3>1, <3>2, <3>3
  <2>2. ASSUME NEW t \in Thread, NEW u \in Thread, t # u, NEW g \in owned[t], g \in owned[u]
        PROVE  FALSE
    <3>1. g.page \in PagesOf(g)
      BY <1>1, MemoryAssumption, ClientAssumption DEF PInv, TypeOK, Group, PagesOf, Bits
    <3> QED BY <2>1, <2>2, <3>1
  <2>3. \A g, h \in AllOwned : g # h => PagesOf(g) \cap PagesOf(h) = {}
    BY <2>1 DEF AllOwned
  <2> QED BY <2>2, <2>3 DEF NoDoubleAllocation
<1> QED BY <1>1, PallocInvariance, PTL

(* Between calls the bitmaps say exactly which pages clients have: none is   *)
(* lost for good, none is both free and in use.                              *)
THEOREM BitmapTrue == ASSUME Masked PROVE Spec => []MapExact
<1>1. ASSUME PInv PROVE MapExact
  <2>1. SUFFICES ASSUME \A t \in Thread : pc[t] = "user", NEW p \in Pool
                 PROVE  {Base(p) + b : b \in used_map[p]} =
                          UNION {PagesOf(g) : g \in {h \in AllOwned : h.pool = p}}
    BY <1>1 DEF MapExact, PInv
  <2>2. used_map[p] \subseteq Nat /\ Base(p) \in Nat
    BY <1>1, <2>1, Layout DEF PInv, TypeOK
  <2>3. \A b \in Nat : b \in used_map[p] <=> Taken(p, b)
    BY <1>1, <2>1 DEF PInv, MapSays, Partial
  <2>4. ASSUME NEW b \in used_map[p]
        PROVE  \E g \in AllOwned : g.pool = p /\ Base(p) + b \in PagesOf(g)
    <3>1. PICK t \in Thread : \E g \in owned[t] : g.pool = p /\ b \in GroupBits(g)
      BY <2>2, <2>3 DEF Taken
    <3>1a. PICK g \in owned[t] : g.pool = p /\ b \in GroupBits(g)
      BY <3>1
    <3>2. Base(p) + b \in Int /\ (Base(p) + b) - Base(p) = b
      BY <2>2
    <3>3. Base(p) + b \in PagesOf(g)
      BY <1>1, <3>1a, <3>2, PagesAndBits
    <3> QED BY <3>1a, <3>3 DEF AllOwned
  <2>5. ASSUME NEW g \in AllOwned, g.pool = p, NEW x \in PagesOf(g)
        PROVE  \E b \in used_map[p] : x = Base(p) + b
    <3>1. PICK t \in Thread : g \in owned[t]
      BY DEF AllOwned
    <3>2. x \in Int /\ x - Base(p) \in GroupBits(g) /\ Base(p) <= x
      BY <1>1, <2>5, <3>1, PagesAndBits
    <3>3. x - Base(p) \in Nat /\ x = Base(p) + (x - Base(p))
      BY <2>2, <3>2
    <3>4. Taken(p, x - Base(p))
      BY <2>5, <3>1, <3>2 DEF Taken
    <3> QED BY <2>3, <3>3, <3>4
  <2> QED BY <2>4, <2>5
<1> QED BY <1>1, PallocInvariance, PTL

(* A group lies in free memory, clear of both bitmaps, and in the pool that  *)
(* palloc_free_multiple() will find from any of its addresses.               *)
THEOREM GroupsPlaced == ASSUME Masked PROVE Spec => []GroupsInPool
<1>1. ASSUME PInv PROVE GroupsInPool
  <2>1. SUFFICES ASSUME NEW g \in AllOwned, NEW x \in PagesOf(g)
                 PROVE  x \in 0 .. FreePages - 1 /\ x \notin BitmapPages
                        /\ PoolOf(x) = g.pool
    BY DEF GroupsInPool
  <2>2. PICK t \in Thread : g \in owned[t]
    BY DEF AllOwned
  <2>3. /\ g.pool \in Pool /\ x \in Int
        /\ Base(g.pool) <= x /\ x < Base(g.pool) + BitCnt(g.pool)
    BY <1>1, <2>1, <2>2, PagesAndBits
  <2>4. PoolOf(x) = g.pool
    BY <2>3, PoolFound
  <2>5. x \in 0 .. FreePages - 1
    BY <2>3, Layout DEF Pool
  <2>6. ASSUME NEW p \in Pool, x \in Bits(PoolStart(p), BmPages(p)) PROVE FALSE
    <3>1. /\ PoolStart(p) \in Nat /\ BmPages(p) \in Nat
          /\ PoolStart(p) <= x /\ x < PoolStart(p) + BmPages(p)
      BY <2>3, <2>6, Layout DEF Bits
    <3>2. CASE p = g.pool
      BY <2>3, <3>1, <3>2, Layout
    <3>3. CASE p = "kernel" /\ g.pool = "user"
      BY <2>3, <3>1, <3>3, Layout, PoolAssumption DEF Pool
    <3>4. CASE p = "user" /\ g.pool = "kernel"
      BY <2>3, <3>1, <3>4, Layout, PoolAssumption DEF Pool
    <3> QED BY <2>3, <3>2, <3>3, <3>4 DEF Pool
  <2> QED BY <2>4, <2>5, <2>6 DEF BitmapPages
<1> QED BY <1>1, PallocInvariance, PTL
=============================================================================
