------------------------------- MODULE Malloc -------------------------------
(***************************************************************************)
(* The block allocator (threads/malloc.c): descriptors with free lists of  *)
(* blocks of one size, arenas of one page each, and big blocks of whole    *)
(* pages.  Callers run with IRQs on; a descriptor's lock protects its free *)
(* list and the counters of its arenas, and the arena of a block that is   *)
(* given back is read before the lock is taken.  Pages come from palloc,   *)
(* which flips their bits one by one, each by a load and a later store of  *)
(* the word, and locks its pool on the way out of it but not on the way    *)
(* back: a store from a stale load undoes what others stored meanwhile.    *)
(*                                                                         *)
(* A descriptor is named by its block size.  An address is a page and an   *)
(* offset.                                                                 *)
(***************************************************************************)
EXTENDS Integers, Sequences, FiniteSets, FiniteSetsExt, SequencesExt

CONSTANTS Thread, NULL,
          PageCnt,          \* pages of the kernel pool
          PGSIZE,           \* bytes in a page
          ArenaSize,        \* sizeof (struct arena)
          MinBlock,         \* the smallest block_size
          SizeRange,        \* number of values of a size_t
          ELEM_BITS,        \* bits in an element of palloc's bitmap
          Sizes,            \* sizes callers of malloc() and realloc() ask for
          CallocArgs,       \* pairs of arguments of calloc()
          MaxBlocks         \* bound: blocks in use

ASSUME GeometryAssumption ==
  /\ {PageCnt, PGSIZE, ArenaSize, MinBlock, ELEM_BITS} \subseteq Nat \ {0}
  /\ 2 * MinBlock < PGSIZE /\ ArenaSize < PGSIZE
ASSUME SizeAssumption ==
  /\ SizeRange \in Nat /\ PGSIZE < SizeRange
  /\ Sizes \subseteq 1 .. SizeRange - 1
  /\ CallocArgs \subseteq (1 .. SizeRange - 1) \X (1 .. SizeRange - 1)

Page == 0 .. PageCnt - 1

(* malloc_init(): the descriptors, and the blocks an arena of each holds. *)
Desc == {bs \in 1 .. PGSIZE : /\ \E k \in 0 .. 9 : bs = MinBlock * 2 ^ k
                              /\ bs < PGSIZE \div 2}
BlocksNoHeader(d) == PGSIZE \div d      \* mutant: the header takes no room
BlocksPerArena(d) == (PGSIZE - ArenaSize) \div d
ASSUME ArenaAssumption == \A d \in Desc : BlocksPerArena(d) > 0

(* arena_to_block(). *)
ArenaToBlock(p, d, idx) == [page |-> p, ofs |-> ArenaSize + idx * d]
BlocksOf(p, d) == {ArenaToBlock(p, d, i) : i \in 0 .. BlocksPerArena(d) - 1}
Block == [page: Page, ofs: Nat]

VARIABLES free_pages,   \* pages whose bit in the pool's bitmap is clear
          lost,         \* a stale store has undone an update of the bitmap
          palloc,       \* the call of palloc each thread is in, NULL if none
          arena,        \* per page, its struct arena; NULL where there is none
          free_list,    \* struct desc
          lock,         \* struct desc: holder of the lock
          op,           \* the call each thread is in, NULL if none
          in_use,       \* blocks callers hold, with the size they asked for
          panicked

pageVars == <<free_pages, lost, palloc>>
vars == <<pageVars, arena, free_list, lock, op, in_use, panicked>>

(* A call of palloc for CNT pages from PAGE on is flipping the bit of the    *)
(* page PAGE + I; ELEM is what it has loaded of that bit's word.             *)
PageCall == [at: {"mark", "mark_store", "reset", "reset_store"},
             page: Page, cnt: Nat, i: Nat, elem: SUBSET Page]

(* A call: at "malloc" the thread holds the lock of DESC and has yet to find *)
(* a block for SIZE bytes (OLD is the block realloc() is moving), at "big"   *)
(* it is getting the pages of a big one; at "free" it has entered            *)
(* free(BLOCK), at "free_lock" it waits for DESC's lock, and at "give" it is *)
(* giving pages back, with DESC's lock unless they were a big block.         *)
Arena == [desc: Desc \cup {NULL}, free_cnt: Nat]
Held == [block: Block, size: Nat]
Call == [at: {"malloc"}, desc: Desc, size: Nat, old: Held \cup {NULL}]
        \cup [at: {"big"}, size: Nat, old: Held \cup {NULL}]
        \cup [at: {"free"}, block: Block]
        \cup [at: {"free_lock"}, desc: Desc, block: Block]
        \cup [at: {"give"}, desc: Desc \cup {NULL}]
ASSUME CallerAssumption ==
  /\ NULL \notin Thread \cup Desc \cup Arena \cup Held \cup Call \cup PageCall
  /\ MaxBlocks \in Nat

TypeOK ==
  /\ free_pages \subseteq Page
  /\ lost \in BOOLEAN
  /\ palloc \in [Thread -> PageCall \cup {NULL}]
  /\ arena \in [Page -> Arena \cup {NULL}]
  /\ free_list \in [Desc -> Seq(Block)]
  /\ lock \in [Desc -> Thread \cup {NULL}]
  /\ op \in [Thread -> Call \cup {NULL}]
  /\ in_use \subseteq Held
  /\ panicked \in BOOLEAN

Init ==
  /\ free_pages = Page
  /\ lost = FALSE
  /\ palloc = [t \in Thread |-> NULL]
  /\ arena = [p \in Page |-> NULL]
  /\ free_list = [d \in Desc |-> <<>>]
  /\ lock = [d \in Desc |-> NULL]
  /\ op = [t \in Thread |-> NULL]
  /\ in_use = {}
  /\ panicked = FALSE

-----------------------------------------------------------------------------
At(t, label) == /\ ~panicked /\ palloc[t] = NULL
                /\ op[t] # NULL /\ op[t].at = label
Idle(t) == ~panicked /\ op[t] = NULL
InPalloc(t, label) == ~panicked /\ palloc[t] # NULL /\ palloc[t].at = label

Panic == /\ panicked' = TRUE
         /\ UNCHANGED <<pageVars, arena, free_list, lock, op, in_use>>

Pages(p, cnt) == p .. p + cnt - 1

(* bitmap_scan() for palloc_get_multiple(0, CNT): starts of CNT free pages. *)
Groups(cnt) == {p \in Page : cnt > 0 /\ Pages(p, cnt) \subseteq free_pages}

(* palloc_get_multiple(0, CNT) takes the pool's lock, which the thread that  *)
(* is marking pages holds, and finds pages.  The scan looks at the bits one  *)
(* by one: they need not be the first, for others may have been given back   *)
(* behind it.                                                                *)
PoolLocked == \E t \in Thread : palloc[t] # NULL /\ palloc[t].at \in {"mark", "mark_store"}
PallocGet(t, cnt) ==
  /\ ~PoolLocked
  /\ \E p \in Groups(cnt) :
       palloc' = [palloc EXCEPT ![t] = [at |-> "mark", page |-> p, cnt |-> cnt,
                                        i |-> 0, elem |-> {}]]
  /\ UNCHANGED <<free_pages, lost>>

(* The ASSERT of palloc_free_multiple(P, CNT), bitmap_all(); and the call,   *)
(* which wipes the pages, arena headers included, and takes no lock.         *)
BitmapAll(p, cnt) == Pages(p, cnt) \cap free_pages = {}
PallocFree(t, p, cnt) ==
  /\ arena' = [q \in Page |-> IF q \in Pages(p, cnt) THEN NULL ELSE arena[q]]
  /\ palloc' = [palloc EXCEPT ![t] = [at |-> "reset", page |-> p, cnt |-> cnt,
                                      i |-> 0, elem |-> {}]]
  /\ UNCHANGED <<free_pages, lost>>

(* The page whose bit the call of T is at, the word of the bitmap that holds *)
(* the bit, and whether it is the call's last.                               *)
PageAt(t) == palloc[t].page + palloc[t].i
Word(p) == {q \in Page : q \div ELEM_BITS = p \div ELEM_BITS}
LastBit(t) == palloc[t].i + 1 = palloc[t].cnt

(* bitmap_mark() or bitmap_reset() loads the word. *)
Load(t, label, next) ==
  /\ InPalloc(t, label)
  /\ palloc' = [palloc EXCEPT ![t] =
       [palloc[t] EXCEPT !.at = next, !.elem = free_pages \cap Word(PageAt(t))]]
  /\ UNCHANGED <<free_pages, lost, arena, free_list, lock, op, in_use, panicked>>
MarkLoad(t) == Load(t, "mark", "mark_store")
ResetLoad(t) == Load(t, "reset", "reset_store")

(* It stores the word, now WORD; an update since the load is lost. *)
Store(t, word) ==
  /\ free_pages' = (free_pages \ Word(PageAt(t))) \cup word
  /\ lost' = (lost \/ palloc[t].elem # free_pages \cap Word(PageAt(t)))
Mark(t) == Store(t, palloc[t].elem \ {PageAt(t)})
Reset(t) == Store(t, palloc[t].elem \cup {PageAt(t)})

(* The loop of bitmap_set_multiple() goes on. *)
NextBit(t, label) ==
  /\ ~LastBit(t)
  /\ palloc' = [palloc EXCEPT ![t] =
       [palloc[t] EXCEPT !.at = label, !.i = palloc[t].i + 1, !.elem = {}]]
  /\ UNCHANGED <<arena, free_list, lock, op, in_use, panicked>>
MarkNext(t) == InPalloc(t, "mark_store") /\ Mark(t) /\ NextBit(t, "mark")
ResetNext(t) == InPalloc(t, "reset_store") /\ Reset(t) /\ NextBit(t, "reset")

(* The last bit: the call is over. *)
PallocGot(t) ==
  /\ InPalloc(t, "mark_store") /\ LastBit(t) /\ Mark(t)
  /\ palloc' = [palloc EXCEPT ![t] = NULL]
PallocGave(t) ==
  /\ InPalloc(t, "reset_store") /\ LastBit(t) /\ Reset(t)
  /\ palloc' = [palloc EXCEPT ![t] = NULL]

(* The ASSERTs of block_to_arena(B). *)
BlockOK(b) ==
  LET a == arena[b.page]
  IN  /\ a # NULL
      /\ IF a.desc # NULL THEN (b.ofs - ArenaSize) % a.desc = 0
                          ELSE b.ofs = ArenaSize

(* block_size(). *)
BlockSize(b) ==
  LET a == arena[b.page]
  IN  IF a.desc # NULL THEN a.desc ELSE PGSIZE * a.free_cnt - b.ofs

(* The descriptor malloc() picks, NULL if SIZE is too big for all. *)
DescForLess(size) ==                    \* mutant: off by one
  LET fits == {d \in Desc : d + 1 >= size}
  IN  IF fits = {} THEN NULL ELSE Min(fits)
DescFor(size) ==
  LET fits == {d \in Desc : d >= size}
  IN  IF fits = {} THEN NULL ELSE Min(fits)

(* DIV_ROUND_UP (size + sizeof *a, PGSIZE), in size_t arithmetic. *)
BigPages(size) ==
  ((((size + ArenaSize) % SizeRange) + PGSIZE - 1) % SizeRange) \div PGSIZE

(* malloc() has a block and returns it to a caller that asked for SIZE       *)
(* bytes; realloc() then copies and goes on to free OLD.                     *)
Returns(t, block, size, old) ==
  /\ in_use' = (in_use \ {old}) \cup {[block |-> block, size |-> size]}
  /\ op' = [op EXCEPT ![t] = IF old = NULL THEN NULL
                             ELSE [at |-> "free", block |-> old.block]]

(* malloc(SIZE) for a caller that asked for ASKED bytes and, in realloc(),   *)
(* holds OLD: a big block asks palloc at once, a small one takes the lock of *)
(* its descriptor.  Without pages for a big block the call returns NULL and  *)
(* nothing has changed.                                                      *)
MallocBig(t, size, asked, old) ==
  /\ DescFor(size) = NULL
  /\ PallocGet(t, BigPages(size))
  /\ op' = [op EXCEPT ![t] = [at |-> "big", size |-> asked, old |-> old]]
  /\ in_use' = in_use \ {old}
  /\ UNCHANGED <<arena, free_list, lock, panicked>>
MallocLock(t, size, asked, old) ==
  LET d == DescFor(size)
  IN  /\ d # NULL /\ lock[d] = NULL
      /\ lock' = [lock EXCEPT ![d] = t]
      /\ op' = [op EXCEPT ![t] = [at |-> "malloc", desc |-> d, size |-> asked,
                                  old |-> old]]
      /\ in_use' = in_use \ {old}
      /\ UNCHANGED <<pageVars, arena, free_list, panicked>>
MallocCall(t, size, asked, old) ==
  \/ MallocBig(t, size, asked, old)
  \/ MallocLock(t, size, asked, old)

(* malloc(), calloc() and realloc() as callers call them. *)
Malloc(t, size) ==
  /\ Idle(t) /\ Cardinality(in_use) < MaxBlocks
  /\ MallocCall(t, size, size, NULL)
Calloc(t, a, b) ==
  LET size == (a * b) % SizeRange
  IN  /\ Idle(t) /\ Cardinality(in_use) < MaxBlocks
      /\ ~(size < a \/ size < b)
      /\ MallocCall(t, size, a * b, NULL)
Realloc(t, h, size) == Idle(t) /\ MallocCall(t, size, size, h)

(* The struct arena of a new page of D, and the one a block was taken from. *)
NewArena(d) == [desc |-> d, free_cnt |-> BlocksPerArena(d)]
DrawnUncounted(a) == a                                  \* mutant: no decrement
Drawn(a) == [a EXCEPT !.free_cnt = a.free_cnt - 1]

(* The pages of a big block have come: it is made and returned. *)
MallocGotBig(t) ==
  LET p == palloc[t].page
  IN  /\ PallocGot(t) /\ op[t].at = "big"
      /\ arena' = [arena EXCEPT ![p] = [desc |-> NULL, free_cnt |-> palloc[t].cnt]]
      /\ Returns(t, [page |-> p, ofs |-> ArenaSize], op[t].size, op[t].old)
      /\ UNCHANGED <<free_list, lock, panicked>>

(* The free list is empty and there is a page; it becomes an arena. *)
MallocGet(t) ==
  /\ At(t, "malloc") /\ free_list[op[t].desc] = <<>>
  /\ PallocGet(t, 1)
  /\ UNCHANGED <<arena, free_list, lock, op, in_use, panicked>>
MallocRefill(t) ==
  LET d == op[t].desc
      p == palloc[t].page
  IN  /\ PallocGot(t) /\ op[t].at = "malloc"
      /\ arena' = [arena EXCEPT ![p] = NewArena(d)]
      /\ free_list' = [free_list EXCEPT ![d] =
           [i \in 1 .. BlocksPerArena(d) |-> ArenaToBlock(p, d, i - 1)]]
      /\ UNCHANGED <<lock, op, in_use, panicked>>

(* There is none: the lock is released and NULL returned; realloc()'s caller *)
(* keeps the old block.                                                      *)
MallocFails(t) ==
  LET d == op[t].desc
  IN  /\ At(t, "malloc")
      /\ free_list[d] = <<>> /\ ~PoolLocked /\ Groups(1) = {}
      /\ lock' = [lock EXCEPT ![d] = NULL]
      /\ op' = [op EXCEPT ![t] = NULL]
      /\ in_use' = in_use \cup ({op[t].old} \ {NULL})
      /\ UNCHANGED <<pageVars, arena, free_list, panicked>>

(* A block is popped and the lock released. *)
MallocPop(t) ==
  LET d == op[t].desc
      b == Head(free_list[d])
  IN  /\ At(t, "malloc")
      /\ free_list[d] # <<>>
      /\ IF BlockOK(b)
         THEN /\ free_list' = [free_list EXCEPT ![d] = Tail(@)]
              /\ arena' = [arena EXCEPT ![b.page] = Drawn(arena[b.page])]
              /\ lock' = [lock EXCEPT ![d] = NULL]
              /\ Returns(t, b, op[t].size, op[t].old)
              /\ UNCHANGED <<pageVars, panicked>>
         ELSE Panic

(* free(), or realloc() to zero bytes, of a block the caller holds. *)
Free(t, h) ==
  /\ Idle(t)
  /\ in_use' = in_use \ {h}
  /\ op' = [op EXCEPT ![t] = [at |-> "free", block |-> h.block]]
  /\ UNCHANGED <<pageVars, arena, free_list, lock, panicked>>

(* free() looks at the arena.  A big block's pages go back to palloc; for    *)
(* another the descriptor is noted.                                          *)
FreeArena(t) ==
  LET b == op[t].block
      a == arena[b.page]
  IN  /\ At(t, "free")
      /\ IF BlockOK(b) /\ (a.desc = NULL => BitmapAll(b.page, a.free_cnt))
         THEN IF a.desc # NULL
              THEN /\ op' = [op EXCEPT ![t] = [at |-> "free_lock", desc |-> a.desc,
                                               block |-> b]]
                   /\ UNCHANGED <<pageVars, arena, free_list, lock, in_use, panicked>>
              ELSE /\ PallocFree(t, b.page, a.free_cnt)
                   /\ op' = [op EXCEPT ![t] = [at |-> "give", desc |-> NULL]]
                   /\ UNCHANGED <<free_list, lock, in_use, panicked>>
         ELSE Panic

(* The arena with CNT free blocks has none in use. *)
EmptiedLate(d, cnt) == cnt > BlocksPerArena(d)  \* mutant: off by one
Emptied(d, cnt) == cnt >= BlocksPerArena(d)

(* list_remove() of each of BLOCKS from LIST: what stays on it, in order. *)
Unlisted(list, blocks) ==
  LET stays[i \in 0 .. Len(list)] ==
        IF i = 0 THEN <<>>
        ELSE IF list[i] \in blocks THEN stays[i - 1] ELSE Append(stays[i - 1], list[i])
  IN  stays[Len(list)]

(* free() with the lock: the block is pushed.  An arena without blocks in    *)
(* use has its blocks taken off the list and its page goes back to palloc.   *)
FreeBlock(t) ==
  LET d == op[t].desc
      b == op[t].block
      a == arena[b.page]
      cnt == a.free_cnt + 1
      listed == <<b>> \o free_list[d]
  IN  /\ At(t, "free_lock") /\ lock[d] = NULL
      /\ \/ /\ ~Emptied(d, cnt)
            /\ free_list' = [free_list EXCEPT ![d] = listed]
            /\ arena' = [arena EXCEPT ![b.page] = [a EXCEPT !.free_cnt = cnt]]
            /\ op' = [op EXCEPT ![t] = NULL]
            /\ UNCHANGED <<pageVars, lock, in_use, panicked>>
         \/ /\ Emptied(d, cnt)
            /\ IF cnt = BlocksPerArena(d) /\ BitmapAll(b.page, 1)
               THEN /\ free_list' = [free_list EXCEPT ![d] =
                         Unlisted(listed, BlocksOf(b.page, d))]
                    /\ PallocFree(t, b.page, 1)
                    /\ lock' = [lock EXCEPT ![d] = t]
                    /\ op' = [op EXCEPT ![t] = [at |-> "give", desc |-> d]]
                    /\ UNCHANGED <<in_use, panicked>>
               ELSE Panic

(* The pages are back; free() releases the lock it holds and returns. *)
FreeGave(t) ==
  /\ PallocGave(t)
  /\ lock' = [d \in Desc |-> IF d = op[t].desc THEN NULL ELSE lock[d]]
  /\ op' = [op EXCEPT ![t] = NULL]
  /\ UNCHANGED <<arena, free_list, in_use, panicked>>

Next ==
  \E t \in Thread :
    \/ \E size \in Sizes : Malloc(t, size)
    \/ \E args \in CallocArgs : Calloc(t, args[1], args[2])
    \/ \E h \in in_use : \/ Free(t, h)
                         \/ \E size \in Sizes : Realloc(t, h, size)
    \/ MallocGotBig(t) \/ MallocGet(t) \/ MallocRefill(t) \/ MallocFails(t)
    \/ MallocPop(t) \/ FreeArena(t) \/ FreeBlock(t) \/ FreeGave(t)
    \/ MarkLoad(t) \/ MarkNext(t) \/ ResetLoad(t) \/ ResetNext(t)

Spec == Init /\ [][Next]_vars

-----------------------------------------------------------------------------
(* Once an update of the bitmap is lost a page leaks or is handed out twice, *)
(* as it is in Palloc; the properties speak of the time before.              *)

(* No ASSERT fires: free() and malloc() find a valid arena around each block *)
(* although another thread may have emptied it in the meantime, free_cnt     *)
(* never exceeds the number of blocks, and the pages that go back to palloc  *)
(* are marked as used.                                                       *)
NoPanic == lost \/ ~panicked

(* What callers and calls in progress hold. *)
HoldOf(c) ==
  IF c = NULL THEN {}
  ELSE IF c.at \in {"free", "free_lock"} THEN {c.block}
  ELSE IF c.at = "give" \/ c.old = NULL THEN {} ELSE {c.old.block}
Holding(t) == HoldOf(op[t])
Taken == {h.block : h \in in_use} \cup UNION {Holding(t) : t \in Thread}

(* Pages marked as used that are in no arena yet, or no longer in one. *)
MovedBy(c) ==
  IF c = NULL THEN {}
  ELSE IF c.at \in {"mark", "mark_store"} THEN Pages(c.page, c.i)
  ELSE Pages(c.page + c.i, c.cnt - c.i)
Moving(t) == MovedBy(palloc[t])

(* Bytes of memory: a block in use, a block on a free list, an arena header, *)
(* a page that palloc has or is busy with.                                   *)
Start(b) == b.page * PGSIZE + b.ofs
Extents ==
  {[from |-> Start(b), to |-> Start(b) + BlockSize(b)] : b \in Taken}
    \cup (UNION {{[from |-> Start(b), to |-> Start(b) + d] : b \in Range(free_list[d])} :
                 d \in Desc})
    \cup {[from |-> p * PGSIZE, to |-> p * PGSIZE + ArenaSize] :
            p \in {q \in Page : arena[q] # NULL}}
    \cup {[from |-> p * PGSIZE, to |-> (p + 1) * PGSIZE] :
            p \in free_pages \cup UNION {Moving(t) : t \in Thread}}

(* As long as the bitmap has lost no update: a block that malloc() returned  *)
(* shares no byte with another, with a block on a free list, with an arena's *)
(* header or with a page that palloc may hand to someone else or is being    *)
(* given, until it is given back.                                            *)
BlocksApart ==
  lost \/ /\ \A x, y \in Extents : x = y \/ x.to <= y.from \/ y.to <= x.from
          /\ \A x \in Extents : x.to <= PageCnt * PGSIZE
          /\ \A d \in Desc : IsInjective(free_list[d])
                            /\ Range(free_list[d]) \cap Taken = {}

(* malloc.c: "if the arena that the block was in now has no in-use blocks,   *)
(* we remove all of the arena's blocks from the free list and give the arena *)
(* back".  Unless its descriptor is locked, an arena has a block in use, its *)
(* counter is the number of its blocks on the list and no block is lost; and *)
(* every page is free, in an arena or in a call of palloc.                   *)
ArenaPages(p) == IF arena[p].desc = NULL THEN Pages(p, arena[p].free_cnt) ELSE {p}
CountsExact(p) ==
  LET d == arena[p].desc
      listed == Range(free_list[d]) \cap BlocksOf(p, d)
  IN  /\ arena[p].free_cnt = Cardinality(listed)
      /\ arena[p].free_cnt < BlocksPerArena(d)
      /\ BlocksOf(p, d) = listed \cup (Taken \cap BlocksOf(p, d))
ArenasExact ==
  lost \/ /\ TypeOK
          /\ Page \ free_pages =
               (UNION {ArenaPages(p) : p \in {q \in Page : arena[q] # NULL}})
                 \cup UNION {Moving(t) : t \in Thread}
          /\ \A p \in Page :
               arena[p] # NULL /\ arena[p].desc # NULL /\ lock[arena[p].desc] = NULL
                 => CountsExact(p)

(* malloc.c: "Obtains and returns a new block of at least SIZE bytes".  So   *)
(* it does for a request that, with its header and rounded up to pages, is   *)
(* a size_t.  realloc() keeps the old block's size until it is given up.     *)
Fits(size) == size + ArenaSize + PGSIZE <= SizeRange
HoldsRequest ==
  lost \/ \A h \in in_use : Fits(h.size) => BlockSize(h.block) >= h.size

(* malloc.c, of calloc(): "Calculate block size and make sure it fits in     *)
(* size_t."  If it does, no caller of calloc() is given a block for a number *)
(* of bytes that is not a size_t.                                            *)
ProductFits == \A h \in in_use : h.size < SizeRange
=============================================================================
