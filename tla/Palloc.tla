------------------------------- MODULE Palloc -------------------------------
(***************************************************************************)
(* The page allocator (threads/palloc.c) over its bitmaps                  *)
(* (lib/kernel/bitmap.c).  palloc_get_multiple() holds the pool's lock,    *)
(* palloc_free_multiple() does not.  Setting or clearing a bit is a load   *)
(* of its word and a later store, and a thread with IRQs on can be         *)
(* preempted between the two.                                              *)
(***************************************************************************)
EXTENDS Integers, FiniteSets, FiniteSetsExt

CONSTANTS Thread, NULL,
          FreePages,        \* pages of free memory given to palloc_init()
          UserPageLimit,    \* its user_page_limit
          ELEM_BITS,        \* bits in an element of a bitmap
          MaxCnt,           \* bound: pages asked for at once
          Masked            \* whether clients call with IRQs masked

ASSUME MemoryAssumption == FreePages \in Nat /\ UserPageLimit \in Nat
ASSUME ElemAssumption == ELEM_BITS \in Nat \ {0}
ASSUME ClientAssumption == MaxCnt \in Nat \ {0} /\ Masked \in BOOLEAN
                           /\ NULL \notin Thread

PGSIZE == 4096
BITMAP_ERROR == -1

DivRoundUp(x, step) == (x + step - 1) \div step

(* bitmap_buf_size(): the header and the elements, in bytes. *)
BitmapBufSize(bit_cnt) == 8 + 4 * DivRoundUp(bit_cnt, ELEM_BITS)

Pool == {"kernel", "user"}

(* palloc_init(): how many pages each pool is given, and from where; pages   *)
(* are numbered from the start of free memory.                               *)
PoolPages(p) ==
  LET user_pages == Min({FreePages \div 2, UserPageLimit})
  IN  IF p = "user" THEN user_pages ELSE FreePages - user_pages
PoolStart(p) == IF p = "kernel" THEN 0 ELSE PoolPages("kernel")

(* init_pool(): the bitmap takes the first pages of the pool. *)
BmPages(p) == DivRoundUp(BitmapBufSize(PoolPages(p)), PGSIZE)
BaseAtStart(p) == PoolStart(p)          \* mutant: the bitmap's pages are not skipped
BitCnt(p) == PoolPages(p) - BmPages(p)
Base(p) == PoolStart(p) + BmPages(p)

ASSUME PoolAssumption == \A p \in Pool : BmPages(p) <= PoolPages(p)

(* page_from_pool(), and the pool palloc_free_multiple() settles on. *)
PageFromPool(p, page) == Base(p) <= page /\ page < Base(p) + BitCnt(p)
PoolOf(page) == IF PageFromPool("kernel", page) THEN "kernel" ELSE "user"

VARIABLES used_map,     \* per pool, the numbers of the bits that are set
          lock,         \* per pool, the holder of its lock
          pc,           \* what each thread is doing
          op,           \* the call it is in: pool, first bit, count, bits done
          elem,         \* the word it has loaded, as the bits set in it
          owned,        \* the page groups each thread has been given
          panicked

vars == <<used_map, lock, pc, op, elem, owned, panicked>>

Group == [pool: Pool, page: 0 .. FreePages - 1, cnt: 1 .. MaxCnt]
Op == [pool: Pool, start: Nat, cnt: 1 .. MaxCnt, i: 0 .. MaxCnt]

TypeOK ==
  /\ used_map \in [Pool -> SUBSET (0 .. FreePages - 1)]
  /\ lock \in [Pool -> Thread \cup {NULL}]
  /\ pc \in [Thread -> {"user", "mark", "mark_store", "reset", "reset_store"}]
  /\ op \in [Thread -> Op \cup {NULL}]
  /\ elem \in [Thread -> SUBSET (0 .. FreePages - 1)]
  /\ owned \in [Thread -> SUBSET Group]
  /\ panicked \in BOOLEAN

Init ==
  /\ used_map = [p \in Pool |-> {}]
  /\ lock = [p \in Pool |-> NULL]
  /\ pc = [t \in Thread |-> "user"]
  /\ op = [t \in Thread |-> NULL]
  /\ elem = [t \in Thread |-> {}]
  /\ owned = [t \in Thread |-> {}]
  /\ panicked = FALSE

-----------------------------------------------------------------------------
(* T may run: a caller that masks IRQs is not preempted inside a call. *)
At(t, label) == /\ ~panicked
                /\ pc[t] = label
                /\ Masked => \A u \in Thread \ {t} : pc[u] = "user"

Bits(start, cnt) == start .. start + cnt - 1

(* bitmap_scan(b, 0, CNT, false) on the pool's bitmap. *)
ScanFirstBit(p, cnt) ==                 \* mutant: only the first bit is tested
  LET fits == (0 .. BitCnt(p) - cnt) \ used_map[p]
  IN  IF fits # {} THEN Min(fits) ELSE BITMAP_ERROR
BitmapScan(p, cnt) ==
  LET fits == {i \in 0 .. BitCnt(p) - cnt : Bits(i, cnt) \cap used_map[p] = {}}
  IN  IF cnt <= BitCnt(p) /\ fits # {} THEN Min(fits) ELSE BITMAP_ERROR

(* The word of the bitmap that holds BIT: elem_idx(). *)
Word(bit) == Bits(ELEM_BITS * (bit \div ELEM_BITS), ELEM_BITS)

(* The bit the call of T is at. *)
Bit(t) == op[t].start + op[t].i
LastTooSoon(t) == op[t].i + 2 >= op[t].cnt      \* mutant: i < cnt - 1
Last(t) == op[t].i + 1 = op[t].cnt

(* palloc_get_multiple() takes the lock and scans for CNT free pages; with   *)
(* none it releases the lock and returns a null pointer.                     *)
PallocGet(t, p, cnt) ==
  /\ At(t, "user")
  /\ lock[p] = NULL
  /\ BitmapScan(p, cnt) # BITMAP_ERROR
  /\ lock' = [lock EXCEPT ![p] = t]
  /\ op' = [op EXCEPT ![t] = [pool |-> p, start |-> BitmapScan(p, cnt),
                              cnt |-> cnt, i |-> 0]]
  /\ pc' = [pc EXCEPT ![t] = "mark"]
  /\ UNCHANGED <<used_map, elem, owned, panicked>>

(* bitmap_mark() or bitmap_reset() loads the word. *)
Load(t, label, next) ==
  /\ At(t, label)
  /\ elem' = [elem EXCEPT ![t] = used_map[op[t].pool] \cap Word(Bit(t))]
  /\ pc' = [pc EXCEPT ![t] = next]
  /\ UNCHANGED <<used_map, lock, op, owned, panicked>>

(* The whole word is stored, holding WORD. *)
StoreWord(t, word) ==
  used_map' = [used_map EXCEPT ![op[t].pool] = (@ \ Word(Bit(t))) \cup word]

(* The loop of bitmap_set_multiple() goes on at LABEL, or the call is over.  *)
NextBit(t, label) ==
  /\ op' = [op EXCEPT ![t] = IF Last(t) THEN NULL ELSE [op[t] EXCEPT !.i = op[t].i + 1]]
  /\ pc' = [pc EXCEPT ![t] = IF Last(t) THEN "user" ELSE label]
  /\ elem' = [elem EXCEPT ![t] = {}]

MarkLoad(t) == Load(t, "mark", "mark_store")

(* bitmap_mark() stores.  After the last bit palloc_get_multiple() releases  *)
(* the lock and returns the pages.                                           *)
MarkStore(t) ==
  LET o == op[t]
  IN  /\ At(t, "mark_store")
      /\ StoreWord(t, elem[t] \cup {Bit(t)})
      /\ NextBit(t, "mark")
      /\ IF Last(t)
         THEN /\ lock' = [lock EXCEPT ![o.pool] = NULL]
              /\ owned' = [owned EXCEPT ![t] = @ \cup
                   {[pool |-> o.pool, page |-> Base(o.pool) + o.start, cnt |-> o.cnt]}]
         ELSE UNCHANGED <<lock, owned>>
      /\ UNCHANGED panicked

(* palloc_free_multiple(): the pool is found from the address, the pages are *)
(* wiped, and all their bits must be set.                                    *)
PallocFree(t, g) ==
  LET p == PoolOf(g.page)
      page_idx == g.page - Base(p)
  IN  /\ At(t, "user")
      /\ IF Bits(page_idx, g.cnt) \subseteq used_map[p]
         THEN /\ owned' = [owned EXCEPT ![t] = @ \ {g}]
              /\ op' = [op EXCEPT ![t] = [pool |-> p, start |-> page_idx,
                                          cnt |-> g.cnt, i |-> 0]]
              /\ pc' = [pc EXCEPT ![t] = "reset"]
              /\ UNCHANGED <<used_map, lock, elem, panicked>>
         ELSE /\ panicked' = TRUE
              /\ UNCHANGED <<used_map, lock, pc, op, elem, owned>>

ResetLoad(t) == Load(t, "reset", "reset_store")

(* bitmap_reset() stores. *)
ResetStore(t) ==
  /\ At(t, "reset_store")
  /\ StoreWord(t, elem[t] \ {Bit(t)})
  /\ NextBit(t, "reset")
  /\ UNCHANGED <<lock, owned, panicked>>

Next ==
  \E t \in Thread :
    \/ \E p \in Pool, cnt \in 1 .. MaxCnt : PallocGet(t, p, cnt)
    \/ \E g \in owned[t] : PallocFree(t, g)
    \/ MarkLoad(t) \/ MarkStore(t) \/ ResetLoad(t) \/ ResetStore(t)

Spec == Init /\ [][Next]_vars

-----------------------------------------------------------------------------
PagesOf(g) == Bits(g.page, g.cnt)
AllOwned == UNION {owned[t] : t \in Thread}

(* The ASSERT of palloc_free_multiple() never fires: the pages a client      *)
(* gives back are marked as used.                                            *)
NoPanic == ~panicked

(* bitmap.c: "Atomically sets the bit numbered BIT_IDX in B".  If it does,   *)
(* no page is given to two clients, nor twice to one.                        *)
NoDoubleAllocation ==
  /\ \A t, u \in Thread : t # u => owned[t] \cap owned[u] = {}
  /\ \A g, h \in AllOwned : g # h => PagesOf(g) \cap PagesOf(h) = {}

(* The bitmap tells the truth whenever no call is in progress: a bit is set  *)
(* exactly if its page has been given out, so no page leaks for good.        *)
MapExact ==
  /\ TypeOK
  /\ (\A t \in Thread : pc[t] = "user") =>
       \A p \in Pool :
         {Base(p) + b : b \in used_map[p]} =
           UNION {PagesOf(g) : g \in {h \in AllOwned : h.pool = p}}

(* A group lies in free memory, clear of the pages that hold the bitmaps,    *)
(* and in the pool it was asked from, which palloc_free_multiple() finds     *)
(* again from the address.                                                   *)
BitmapPages == UNION {Bits(PoolStart(p), BmPages(p)) : p \in Pool}
GroupsInPool ==
  \A g \in AllOwned :
    /\ PagesOf(g) \subseteq (0 .. FreePages - 1) \ BitmapPages
    /\ \A page \in PagesOf(g) : PoolOf(page) = g.pool
=============================================================================
