---------------------------- MODULE MallocProofs ----------------------------
(***************************************************************************)
(* The block allocator is correct for any number of threads, any amount of *)
(* memory and any sizes of pages, headers and blocks, as long as no update *)
(* of the page bitmap is lost.                                             *)
(***************************************************************************)
EXTENDS Malloc, FiniteSetTheorems, DataLemmas

(* The arena of page P is divided into blocks of one size. *)
Small(p) == arena[p] # NULL /\ arena[p].desc # NULL
Listed(p) == Range(free_list[arena[p].desc]) \cap BlocksOf(p, arena[p].desc)

(* Nothing is held twice: not by callers, not by calls, not by both. *)
UsedOnce == \A h, k \in in_use : h.block = k.block => h = k
HeldOnce ==
  \A t \in Thread : \A b \in Holding(t) :
    /\ \A h \in in_use : h.block # b
    /\ \A u \in Thread : b \in Holding(u) => u = t

(* The holder of a descriptor's lock is in malloc(), or in free() and giving *)
(* an emptied arena back; and no other thread is, for that descriptor.       *)
InMalloc(c) == c # NULL /\ c.at = "malloc"
HasLock(c) == c # NULL /\ c.at \in {"malloc", "give"} /\ c.desc # NULL
LockHeld ==
  \A d \in Desc : lock[d] # NULL => HasLock(op[lock[d]]) /\ op[lock[d]].desc = d
LockKnown == \A t \in Thread : HasLock(op[t]) => lock[op[t].desc] = t

(* What is held is a block of its arena, and so is what is listed; nothing   *)
(* is both, and nothing is listed twice.                                     *)
IsBlock(b) ==
  /\ b.page \in Page /\ arena[b.page] # NULL
  /\ arena[b.page].desc = NULL => b.ofs = ArenaSize
  /\ arena[b.page].desc # NULL => b \in BlocksOf(b.page, arena[b.page].desc)
TakenInArena == \A b \in Taken : IsBlock(b)
ListedInArena ==
  \A d \in Desc : \A b \in Range(free_list[d]) :
    /\ b.page \in Page /\ arena[b.page] # NULL /\ arena[b.page].desc = d
    /\ b \in BlocksOf(b.page, d)
ListsApart ==
  \A d \in Desc : IsInjective(free_list[d]) /\ Range(free_list[d]) \cap Taken = {}

(* The counter is the number of listed blocks and every other block is held, *)
(* also while the lock is; and only an arena that malloc() has just made has *)
(* no block in use, and then one is about to be taken.                       *)
CountExact ==
  \A p \in Page : Small(p) =>
    /\ arena[p].free_cnt = Cardinality(Listed(p))
    /\ BlocksOf(p, arena[p].desc) \subseteq Listed(p) \cup Taken
Drawing == {d \in Desc : lock[d] # NULL /\ op[lock[d]].at = "malloc"}
FullLocked ==
  \A p \in Page : Small(p) /\ arena[p].free_cnt = BlocksPerArena(arena[p].desc) =>
    /\ arena[p].desc \in Drawing
    /\ free_list[arena[p].desc] # <<>> /\ Head(free_list[arena[p].desc]).page = p

(* A call of free() that waits for a lock waits for the right one. *)
FreeNoted ==
  \A t \in Thread : op[t] # NULL /\ op[t].at = "free_lock" =>
    arena[op[t].block.page].desc = op[t].desc

(* A page is free, in a call of palloc or in one arena. *)
Spare == free_pages \cup UNION {Moving(t) : t \in Thread}
PagesFilled ==
  /\ Spare \subseteq Page
  /\ \A p \in Page : arena[p] # NULL => ArenaPages(p) \subseteq Page \ Spare
  /\ \A q \in Page \ Spare : \E p \in Page : arena[p] # NULL /\ q \in ArenaPages(p)
PagesApart ==
  \A p, q \in Page : arena[p] # NULL /\ arena[q] # NULL
                       /\ ArenaPages(p) \cap ArenaPages(q) # {} => p = q
BigCounted ==
  \A p \in Page : arena[p] # NULL /\ arena[p].desc = NULL => arena[p].free_cnt > 0

(* Calls of palloc.  A page a call is busy with is marked as used, in that   *)
(* call alone; the pages a call has yet to mark are free, and there is one   *)
(* such call at most.                                                        *)
Marks(c) == c # NULL /\ c.at \in {"mark", "mark_store"}
AheadOf(c) == IF Marks(c) THEN Pages(c.page + c.i, c.cnt - c.i) ELSE {}
InRange == \A t \in Thread : palloc[t] # NULL =>
             /\ palloc[t].i < palloc[t].cnt
             /\ Pages(palloc[t].page, palloc[t].cnt) \subseteq Page
MovedUsed == \A t \in Thread : Moving(t) \cap free_pages = {}
AheadFree == \A t \in Thread : AheadOf(palloc[t]) \subseteq free_pages
MovedOnce == \A t, u \in Thread : t # u => Moving(t) \cap Moving(u) = {}
OneMarks == \A t, u \in Thread : Marks(palloc[t]) /\ Marks(palloc[u]) => t = u
PageInv == InRange /\ MovedUsed /\ AheadFree /\ MovedOnce /\ OneMarks

(* Which call of malloc.c is behind a call of palloc: malloc() marks, for a  *)
(* big block or for an arena while its free list is empty; free() resets.    *)
Linked(t) ==
  palloc[t] # NULL =>
    /\ op[t] # NULL
    /\ Marks(palloc[t]) =>
         \/ op[t].at = "big"
         \/ op[t].at = "malloc" /\ free_list[op[t].desc] = <<>> /\ palloc[t].cnt = 1
    /\ ~Marks(palloc[t]) => op[t].at = "give"
CallsLinked == \A t \in Thread : Linked(t)

Sound == ~lost /\ ~panicked
CallInv == TypeOK /\ Sound /\ UsedOnce /\ HeldOnce /\ LockHeld /\ LockKnown
MemInv == /\ TakenInArena /\ ListedInArena /\ ListsApart /\ CountExact /\ FullLocked
          /\ PagesFilled /\ PagesApart /\ BigCounted
MInv == CallInv /\ MemInv /\ FreeNoted /\ PageInv /\ CallsLinked

-----------------------------------------------------------------------------
(* Arithmetic of multiples. *)
LEMMA Multiples ==
  ASSUME NEW i \in Nat, NEW j \in Nat, NEW d \in Nat \ {0}
  PROVE  /\ i * d \in Nat
         /\ i < j => i * d + d <= j * d
         /\ (i * d) % d = 0
         /\ i * d = j * d => i = j
<1>1. i * d \in Nat /\ j * d \in Nat
  OBVIOUS
<1>2. ASSUME NEW m \in Nat, NEW n \in Nat, m < n PROVE m * d + d <= n * d
  <2>1. PICK k \in Nat : n = m + 1 + k
    <3>1. n - m - 1 \in Nat /\ n = m + 1 + (n - m - 1)
      BY <1>2
    <3> QED BY <3>1
  <2>2. n * d = m * d + d + k * d
    BY <2>1
  <2>3. k * d >= 0
    OBVIOUS
  <2> QED BY <2>2, <2>3
<1>3. (i * d) % d = 0
  <2> DEFINE x == i * d
             q == x \div d
             r == x % d
  <2>1. x \in Nat /\ q \in Nat /\ r \in 0 .. (d - 1) /\ x = d * q + r
    OBVIOUS
  <2>2. CASE i < q
    <3>1. i * d + d <= q * d
      BY <1>2, <2>1, <2>2
    <3> QED BY <3>1, <2>1
  <2>3. CASE q < i
    <3>1. q * d + d <= i * d
      BY <1>2, <2>1, <2>3
    <3> QED BY <3>1, <2>1
  <2>4. CASE i = q
    BY <2>4, <2>1
  <2> QED BY <2>1, <2>2, <2>3, <2>4
<1>4. ASSUME i * d = j * d PROVE i = j
  <2>1. CASE i < j
    BY <1>1, <1>2, <1>4, <2>1
  <2>2. CASE j < i
    BY <1>1, <1>2, <1>4, <2>2
  <2> QED BY <2>1, <2>2
<1> QED BY <1>1, <1>2, <1>3, <1>4

(* The blocks of an arena fit between its header and the end of the page. *)
LEMMA Descriptor ==
  ASSUME NEW d \in Desc
  PROVE  /\ d \in Nat \ {0} /\ d # NULL
         /\ BlocksPerArena(d) \in Nat \ {0}
         /\ BlocksPerArena(d) * d <= PGSIZE - ArenaSize
<1>1. d \in 1 .. PGSIZE
  BY DEF Desc
<1>2. PGSIZE \in Nat /\ ArenaSize \in Nat /\ PGSIZE - ArenaSize \in Nat
  BY GeometryAssumption
<1>3. d \in Nat \ {0}
  BY <1>1, <1>2
<1>4. BlocksPerArena(d) \in Nat \ {0}
  BY <1>2, <1>3, ArenaAssumption, Division DEF BlocksPerArena
<1>5. d * BlocksPerArena(d) <= PGSIZE - ArenaSize
  BY <1>2, <1>3, Division DEF BlocksPerArena
<1>6. d # NULL
  BY CallerAssumption
<1> QED BY <1>3, <1>4, <1>5, <1>6

(* arena_to_block() stays in the page, behind the header, and on a multiple  *)
(* of the block size, as block_to_arena() asserts.                           *)
LEMMA BlockPlace ==
  ASSUME NEW p \in Page, NEW d \in Desc, NEW b \in BlocksOf(p, d)
  PROVE  /\ b \in Block /\ b.page = p
         /\ b.ofs \in Nat /\ ArenaSize <= b.ofs /\ b.ofs + d <= PGSIZE
         /\ (b.ofs - ArenaSize) % d = 0
<1>1. PICK i \in 0 .. BlocksPerArena(d) - 1 : b = [page |-> p, ofs |-> ArenaSize + i * d]
  BY DEF BlocksOf, ArenaToBlock
<1>2. i \in Nat /\ i < BlocksPerArena(d)
  BY Descriptor
<1>3. i * d \in Nat /\ i * d + d <= BlocksPerArena(d) * d /\ (i * d) % d = 0
  BY <1>2, Descriptor, Multiples
<1>4. b.page = p /\ b.ofs = ArenaSize + i * d
  BY <1>1
<1>5. ArenaSize \in Nat /\ PGSIZE \in Nat
  BY GeometryAssumption
<1>6. b.ofs - ArenaSize = i * d /\ b.ofs \in Nat
  BY <1>3, <1>4, <1>5
<1>7. b \in Block
  BY <1>1, <1>4, <1>6 DEF Block
<1>8. b.ofs + d <= PGSIZE
  <2> HIDE DEF Desc
  <2>1. BlocksPerArena(d) * d <= PGSIZE - ArenaSize /\ BlocksPerArena(d) * d \in Int /\ d \in Nat
    BY Descriptor
  <2> QED BY <1>3, <1>4, <1>5, <2>1
<1> QED BY <1>3, <1>4, <1>5, <1>6, <1>7, <1>8

(* Two blocks of an arena do not overlap. *)
LEMMA BlocksDistinct ==
  ASSUME NEW p \in Page, NEW d \in Desc, NEW b \in BlocksOf(p, d), NEW c \in BlocksOf(p, d),
         b # c
  PROVE  b.ofs + d <= c.ofs \/ c.ofs + d <= b.ofs
<1>1. PICK i \in 0 .. BlocksPerArena(d) - 1 : b = [page |-> p, ofs |-> ArenaSize + i * d]
  BY DEF BlocksOf, ArenaToBlock
<1>2. PICK j \in 0 .. BlocksPerArena(d) - 1 : c = [page |-> p, ofs |-> ArenaSize + j * d]
  BY DEF BlocksOf, ArenaToBlock
<1>3. i # j /\ i \in Nat /\ j \in Nat /\ d \in Nat \ {0}
  BY <1>1, <1>2, Descriptor
<1>4. i * d \in Nat /\ j * d \in Nat /\ (i * d + d <= j * d \/ j * d + d <= i * d)
  BY <1>3, Multiples
<1>5. b.ofs = ArenaSize + i * d /\ c.ofs = ArenaSize + j * d /\ ArenaSize \in Nat
  BY <1>1, <1>2, GeometryAssumption
<1> QED BY <1>3, <1>4, <1>5

(* An arena has blocks_per_arena blocks. *)
LEMMA BlocksCounted ==
  ASSUME NEW p \in Page, NEW d \in Desc
  PROVE  /\ IsFiniteSet(BlocksOf(p, d))
         /\ Cardinality(BlocksOf(p, d)) = BlocksPerArena(d)
<1> DEFINE n == BlocksPerArena(d)
           f == [i \in 0 .. n - 1 |-> ArenaToBlock(p, d, i)]
<1>1. n \in Nat \ {0} /\ d \in Nat \ {0} /\ ArenaSize \in Nat
  BY Descriptor, GeometryAssumption
<1>2. IsFiniteSet(0 .. n - 1) /\ Cardinality(0 .. n - 1) = n
  <2> HIDE DEF n
  <2>1. 0 \in Int /\ n - 1 \in Int /\ ~(0 > n - 1) /\ (n - 1) - 0 + 1 = n
    BY <1>1
  <2> QED BY <2>1, FS_Interval
<1>3. ASSUME NEW i \in 0 .. n - 1, NEW j \in 0 .. n - 1, f[i] = f[j] PROVE i = j
  <2>1. f[i].ofs = ArenaSize + i * d /\ f[j].ofs = ArenaSize + j * d
    BY DEF ArenaToBlock
  <2>2. i \in Nat /\ j \in Nat
    BY <1>1
  <2>3. i * d = j * d
    BY <1>1, <1>3, <2>1, <2>2
  <2> QED BY <1>1, <2>2, <2>3, Multiples
<1>4. f \in [0 .. n - 1 -> BlocksOf(p, d)]
  BY DEF BlocksOf
<1>5. \A b \in BlocksOf(p, d) : \E i \in 0 .. n - 1 : f[i] = b
  BY DEF BlocksOf
<1>6. f \in Bijection(0 .. n - 1, BlocksOf(p, d))
  BY <1>3, <1>4, <1>5 DEF Bijection, Injection, Surjection, IsInjective
<1>7. ExistsBijection(0 .. n - 1, BlocksOf(p, d))
  BY <1>6 DEF ExistsBijection
<1> QED BY <1>2, <1>7, FS_Bijection

(* malloc() picks a descriptor whose blocks are big enough. *)
LEMMA DescriptorFits ==
  ASSUME NEW size, DescFor(size) # NULL
  PROVE  DescFor(size) \in Desc /\ DescFor(size) >= size
<1> DEFINE fits == {d \in Desc : d >= size}
<1>1. fits \in SUBSET Nat
  BY Descriptor
<1>2. fits # {} /\ DescFor(size) = Min(fits)
  BY DEF DescFor
<1>3. Min(fits) \in fits
  BY <1>1, <1>2, LeastNatural
<1> QED BY <1>2, <1>3

(* Pages in a row. *)
LEMMA PageRow ==
  ASSUME NEW p \in Nat, NEW i \in Nat, NEW cnt \in Nat
  PROVE  /\ Pages(p, 0) = {} /\ Pages(p, 1) = {p} /\ p + i \in Nat
         /\ Pages(p, i + 1) = Pages(p, i) \cup {p + i} /\ p + i \notin Pages(p, i)
         /\ i < cnt => /\ Pages(p, cnt) = Pages(p, i) \cup Pages(p + i, cnt - i)
                      /\ Pages(p, i) \cap Pages(p + i, cnt - i) = {}
                      /\ p + i \in Pages(p + i, cnt - i)
                      /\ p + i \notin Pages(p + (i + 1), cnt - (i + 1))
                      /\ Pages(p + i, cnt - i) = {p + i} \cup Pages(p + (i + 1), cnt - (i + 1))
BY DEF Pages

LEMMA BigPagesType == ASSUME NEW size \in Nat PROVE BigPages(size) \in Nat
<1>1. PGSIZE \in Nat \ {0} /\ ArenaSize \in Nat /\ SizeRange \in Nat \ {0}
  BY GeometryAssumption, SizeAssumption
<1>2. (size + ArenaSize) % SizeRange \in Nat
  BY <1>1
<1>3. (((size + ArenaSize) % SizeRange) + PGSIZE - 1) % SizeRange \in Nat
  BY <1>1, <1>2
<1> QED BY <1>1, <1>3, Division DEF BigPages

(* A request that does not wrap gets enough pages. *)
LEMMA BigPagesFit ==
  ASSUME NEW size \in Nat, size + ArenaSize + PGSIZE <= SizeRange
  PROVE  size + ArenaSize <= PGSIZE * BigPages(size)
<1>1. PGSIZE \in Nat \ {0} /\ ArenaSize \in Nat /\ SizeRange \in Nat \ {0}
  BY GeometryAssumption, SizeAssumption
<1>2. (size + ArenaSize) % SizeRange = size + ArenaSize
  BY <1>1
<1>3. (size + ArenaSize + PGSIZE - 1) % SizeRange = size + ArenaSize + PGSIZE - 1
  BY <1>1
<1> DEFINE n == size + ArenaSize + PGSIZE - 1
<1>4. n \in Nat /\ BigPages(size) = n \div PGSIZE
  BY <1>1, <1>2, <1>3 DEF BigPages
<1>5. BigPages(size) \in Nat /\ n < PGSIZE * BigPages(size) + PGSIZE
  BY <1>1, <1>4, Division
<1>6. PGSIZE * BigPages(size) \in Nat
  BY <1>1, <1>5
<1> QED BY <1>1, <1>5, <1>6

-----------------------------------------------------------------------------
(* list_remove() of the blocks of an arena leaves the others, each once.     *)
(* The loop is defined by recursion, so its value is first shown to exist    *)
(* for every length, by the least length for which it would not.             *)
Step(list, S, i, before) ==
  IF i = 0 THEN <<>> ELSE IF list[i] \in S THEN before[i - 1]
                          ELSE Append(before[i - 1], list[i])
IsLoop(list, S, n, f) == f = [i \in 0 .. n |-> Step(list, S, i, f)]

LEMMA LoopExists ==
  ASSUME NEW list, NEW S, NEW n \in Nat
  PROVE  \E f : IsLoop(list, S, n, f)
<1> DEFINE Bad == {k \in Nat : ~ \E f : IsLoop(list, S, k, f)}
<1> SUFFICES Bad = {}
  OBVIOUS
<1> SUFFICES ASSUME Bad # {} PROVE FALSE
  OBVIOUS
<1> DEFINE m == Min(Bad)
<1>1. m \in Bad /\ \A k \in Bad : m <= k
  <2>1. Bad \in SUBSET Nat
    OBVIOUS
  <2> HIDE DEF Bad
  <2> QED BY <2>1, LeastNatural
<1>2. m \in Nat
  BY <1>1
<1> HIDE DEF m
<1>3. CASE m = 0
  <2> DEFINE f == [i \in 0 .. 0 |-> <<>>]
  <2>1. f = [i \in 0 .. 0 |-> Step(list, S, i, f)]
    <3>1. \A i \in 0 .. 0 : Step(list, S, i, f) = <<>>
      BY DEF Step
    <3> QED BY <3>1
  <2> QED BY <1>1, <1>3, <2>1 DEF IsLoop
<1>4. CASE m # 0
  <2>1. m - 1 \in Nat /\ m - 1 \notin Bad
    BY <1>1, <1>2, <1>4
  <2>2. PICK g : IsLoop(list, S, m - 1, g)
    BY <2>1
  <2> DEFINE f == [i \in 0 .. m |-> IF i = m THEN Step(list, S, m, g) ELSE g[i]]
  <2>3. /\ \A i \in 0 .. m - 1 : f[i] = g[i] /\ g[i] = Step(list, S, i, g)
        /\ f[m] = Step(list, S, m, g)
        /\ f = [i \in 0 .. m |-> f[i]]
    BY <1>2, <2>2 DEF IsLoop
  <2> HIDE DEF f
  <2>4. ASSUME NEW i \in 0 .. m PROVE f[i] = Step(list, S, i, f)
    <3>1. CASE i = 0
      <4>1. f[0] = g[0] /\ g[0] = Step(list, S, 0, g)
        <5>1. 0 \in 0 .. m - 1
          BY <1>2, <1>4
        <5> QED BY <2>3, <5>1
      <4> QED BY <3>1, <4>1 DEF Step
    <3>2. CASE i # 0
      <4>1. i - 1 \in 0 .. m - 1 /\ f[i - 1] = g[i - 1]
        <5>1. i - 1 \in 0 .. m - 1
          BY ONLY <1>2, <3>2, i \in 0 .. m
        <5> QED BY ONLY <2>3, <5>1
      <4>2. f[i] = Step(list, S, i, g)
        <5>1. i = m \/ i \in 0 .. m - 1
          BY <1>2
        <5> QED BY <2>3, <5>1
      <4> QED BY <3>2, <4>1, <4>2 DEF Step
    <3> QED BY <3>1, <3>2
  <2>5. IsLoop(list, S, m, f)
    BY <2>3, <2>4 DEF IsLoop
  <2> QED BY <1>1, <2>5
<1> QED BY <1>3, <1>4

LEMMA UnlistedLoop ==
  ASSUME NEW list, NEW S, Len(list) \in Nat
  PROVE  \E f : IsLoop(list, S, Len(list), f) /\ Unlisted(list, S) = f[Len(list)]
<1> DEFINE n == Len(list)
           f == CHOOSE g : IsLoop(list, S, n, g)
<1>1. IsLoop(list, S, n, f)
  BY LoopExists
<1>2. Unlisted(list, S) = f[n]
  BY Zenon DEF Unlisted, IsLoop, Step
<1> QED BY <1>1, <1>2

LEMMA UnlistedStays ==
  ASSUME NEW T, NEW list \in Seq(T), NEW S, IsInjective(list)
  PROVE  /\ Unlisted(list, S) \in Seq(T)
         /\ Range(Unlisted(list, S)) = Range(list) \ S
         /\ IsInjective(Unlisted(list, S))
<1> DEFINE n == Len(list)
           Pre(k) == {list[j] : j \in 1 .. k}
<1>1. n \in Nat /\ DOMAIN list = 1 .. n /\ \A i \in 1 .. n : list[i] \in T
  BY LenProperties, ElementOfSeq
<1>2. PICK f : IsLoop(list, S, n, f) /\ Unlisted(list, S) = f[n]
  BY <1>1, UnlistedLoop
<1>3. \A i \in 0 .. n : f[i] = Step(list, S, i, f)
  BY <1>2 DEF IsLoop
<1> DEFINE OK(k) == f[k] \in Seq(T) /\ Range(f[k]) = Pre(k) \ S /\ IsInjective(f[k])
           Bad == {k \in 0 .. n : ~OK(k)}
<1>4. OK(0)
  <2>1. f[0] = <<>>
    BY <1>1, <1>3 DEF Step
  <2>2. Pre(0) = {}
    OBVIOUS
  <2>3. <<>> \in Seq(T)
    OBVIOUS
  <2> QED BY <2>1, <2>2, <2>3, RangeEmpty
<1>5. ASSUME NEW k \in 1 .. n, OK(k - 1) PROVE OK(k)
  <2>1. k - 1 \in 0 .. n /\ k \in 0 .. n /\ k # 0
    BY <1>1
  <2>2. Pre(k) = Pre(k - 1) \cup {list[k]}
    <3>1. 1 .. k = (1 .. k - 1) \cup {k}
      BY <1>1
    <3> QED BY <3>1
  <2>3. list[k] \notin Pre(k - 1)
    <3>1. \A j \in 1 .. k - 1 : j \in DOMAIN list /\ k \in DOMAIN list /\ j # k
      BY <1>1
    <3> QED BY <3>1 DEF IsInjective
  <2>4. CASE list[k] \in S
    <3>1. f[k] = f[k - 1]
      BY <1>3, <2>1, <2>4 DEF Step
    <3> HIDE DEF Pre
    <3> QED BY <1>5, <2>2, <2>4, <3>1
  <2>5. CASE list[k] \notin S
    <3>1. f[k] = Append(f[k - 1], list[k])
      BY <1>3, <2>1, <2>5 DEF Step
    <3>2. list[k] \in T
      BY <1>1
    <3> HIDE DEF Pre
    <3>3. Append(f[k - 1], list[k]) \in Seq(T)
      BY <1>5, <3>2
    <3> QED BY <1>5, <2>2, <2>3, <2>5, <3>1, <3>2, <3>3, RangeAppend
  <2> QED BY <2>4, <2>5
<1> HIDE DEF OK
<1>6. Bad = {}
  <2> SUFFICES ASSUME Bad # {} PROVE FALSE
    OBVIOUS
  <2> DEFINE m == Min(Bad)
  <2>1. m \in Bad /\ \A k \in Bad : m <= k
    <3>1. Bad \in SUBSET Nat
      BY <1>1
    <3> HIDE DEF Bad
    <3> QED BY <3>1, LeastNatural
  <2> HIDE DEF m
  <2>2. m \in 0 .. n /\ ~OK(m) /\ m # 0
    BY <1>4, <2>1
  <2>3. m \in 1 .. n /\ m - 1 \in 0 .. n /\ m - 1 \notin Bad
    BY <1>1, <2>1, <2>2
  <2>4. OK(m - 1)
    BY <2>3
  <2> QED BY <1>5, <2>2, <2>3, <2>4
<1>7. OK(n)
  BY <1>1, <1>6
<1>8. Pre(n) = Range(list)
  BY <1>1 DEF Range
<1> QED BY <1>2, <1>7, <1>8 DEF OK

-----------------------------------------------------------------------------
(* The records of calls. *)
LEMMA CallShapes ==
  ASSUME TypeOK, NEW t \in Thread, op[t] # NULL
  PROVE  /\ op[t].at \in {"malloc", "big", "free", "free_lock", "give"}
         /\ op[t].at = "malloc" => op[t].desc \in Desc
         /\ op[t].at \in {"malloc", "big"} => /\ op[t].size \in Nat
                                             /\ op[t].old \in Held \cup {NULL}
         /\ op[t].at = "free" => op[t].block \in Block
         /\ op[t].at = "free_lock" => op[t].desc \in Desc /\ op[t].block \in Block
         /\ op[t].at = "give" => op[t].desc \in Desc \cup {NULL}
<1>1. op[t] \in Call
  BY DEF TypeOK
<1>2. CASE op[t] \in [at: {"malloc"}, desc: Desc, size: Nat, old: Held \cup {NULL}]
  BY <1>2
<1>3. CASE op[t] \in [at: {"big"}, size: Nat, old: Held \cup {NULL}]
  BY <1>3
<1>4. CASE op[t] \in [at: {"free"}, block: Block]
  BY <1>4
<1>5. CASE op[t] \in [at: {"free_lock"}, desc: Desc, block: Block]
  BY <1>5
<1>6. CASE op[t] \in [at: {"give"}, desc: Desc \cup {NULL}]
  BY <1>6
<1> QED BY <1>1, <1>2, <1>3, <1>4, <1>5, <1>6 DEF Call

LEMMA LockedDesc ==
  ASSUME TypeOK, NEW t \in Thread, HasLock(op[t]) PROVE op[t].desc \in Desc
BY CallShapes DEF HasLock

LEMMA RecordTypes ==
  /\ \A d \in Desc, n \in Nat : [desc |-> d, free_cnt |-> n] \in Arena
  /\ \A n \in Nat : [desc |-> NULL, free_cnt |-> n] \in Arena
  /\ \A b \in Block, n \in Nat : [block |-> b, size |-> n] \in Held
  /\ \A b \in Block : [at |-> "free", block |-> b] \in Call
  /\ \A d \in Desc, b \in Block : [at |-> "free_lock", desc |-> d, block |-> b] \in Call
  /\ \A d \in Desc, n \in Nat, o \in Held \cup {NULL} :
       [at |-> "malloc", desc |-> d, size |-> n, old |-> o] \in Call
  /\ \A n \in Nat, o \in Held \cup {NULL} : [at |-> "big", size |-> n, old |-> o] \in Call
  /\ \A d \in Desc \cup {NULL} : [at |-> "give", desc |-> d] \in Call
<1>1. \A d \in Desc \cup {NULL}, n \in Nat : [desc |-> d, free_cnt |-> n] \in Arena
  BY DEF Arena
<1>2. \A b \in Block, n \in Nat : [block |-> b, size |-> n] \in Held
  BY DEF Held
<1>3. \A b \in Block : [at |-> "free", block |-> b] \in Call
  BY DEF Call
<1>4. \A d \in Desc, b \in Block : [at |-> "free_lock", desc |-> d, block |-> b] \in Call
  BY DEF Call
<1>5. \A d \in Desc, n \in Nat, o \in Held \cup {NULL} :
        [at |-> "malloc", desc |-> d, size |-> n, old |-> o] \in Call
  BY DEF Call
<1>6. \A n \in Nat, o \in Held \cup {NULL} : [at |-> "big", size |-> n, old |-> o] \in Call
  BY DEF Call
<1>7. \A d \in Desc \cup {NULL} : [at |-> "give", desc |-> d] \in Call
  BY DEF Call
<1> QED BY <1>1, <1>2, <1>3, <1>4, <1>5, <1>6, <1>7

LEMMA NullApart ==
  /\ NULL \notin Thread /\ NULL \notin Desc /\ NULL \notin Held
  /\ NULL \notin Arena /\ NULL \notin Call /\ NULL \notin PageCall
BY CallerAssumption

(* What a thread holds and what callers hold: a call of that thread moves    *)
(* blocks between the two, takes new ones and gives some up.                 *)
Own(t) == {h.block : h \in in_use} \cup Holding(t)

LEMMA OwnTaken == ASSUME NEW t \in Thread PROVE Own(t) \subseteq Taken
BY DEF Own, Taken

LEMMA HoldStep ==
  ASSUME HeldOnce, NEW t \in Thread,
         \A u \in Thread : u # t => Holding(u)' = Holding(u),
         \A h \in in_use' : h.block \notin Holding(t)',
         \A b \in Own(t)' : b \in Own(t) \/ b \notin Taken
  PROVE  HeldOnce' /\ Taken' = (Taken \ Own(t)) \cup Own(t)'
<1>1. \A u \in Thread : u # t => \A b \in Holding(u) : b \in Taken /\ b \notin Own(t)
  BY DEF HeldOnce, Own, Taken
<1>2. \A u \in Thread : u # t => \A b \in Holding(u)' : b \notin Own(t)'
  BY <1>1
<1>3. HeldOnce'
  <2> SUFFICES ASSUME NEW u \in Thread, NEW b \in Holding(u)'
               PROVE  /\ \A h \in in_use' : h.block # b
                      /\ \A v \in Thread : b \in Holding(v)' => v = u
    BY DEF HeldOnce
  <2>1. \A h \in in_use' : h.block # b
    <3>1. CASE u = t
      BY <3>1
    <3>2. CASE u # t
      BY <3>2, <1>2 DEF Own
    <3> QED BY <3>1, <3>2
  <2>2. ASSUME NEW v \in Thread, b \in Holding(v)' PROVE v = u
    <3>1. CASE u = t
      BY <2>2, <3>1, <1>2 DEF Own
    <3>2. CASE v = t
      BY <2>2, <3>2, <1>2 DEF Own
    <3>3. CASE u # t /\ v # t
      BY <2>2, <3>3 DEF HeldOnce
    <3> QED BY <3>1, <3>2, <3>3
  <2> QED BY <2>1, <2>2
<1>4. Taken' = (Taken \ Own(t)) \cup Own(t)'
  <2>1. ASSUME NEW b \in Taken' PROVE b \in (Taken \ Own(t)) \cup Own(t)'
    <3>1. CASE b \in Own(t)'
      BY <3>1
    <3>2. ASSUME NEW u \in Thread, u # t, b \in Holding(u)' PROVE b \in Taken \ Own(t)
      BY <3>2, <1>1
    <3> QED BY <2>1, <3>1, <3>2 DEF Taken, Own
  <2>2. ASSUME NEW b \in (Taken \ Own(t)) \cup Own(t)' PROVE b \in Taken'
    <3>1. CASE b \in Own(t)'
      BY <3>1 DEF Own, Taken
    <3>2. CASE b \in Taken \ Own(t)
      <4>1. PICK u \in Thread : u # t /\ b \in Holding(u)
        BY <3>2 DEF Taken, Own
      <4>2. b \in Holding(u)'
        BY <4>1
      <4> QED BY <4>2 DEF Taken
    <3> QED BY <2>2, <3>1, <3>2
  <2> QED BY <2>1, <2>2
<1> QED BY <1>3, <1>4

(* A call of T goes on as C. *)
LEMMA OpStep ==
  ASSUME TypeOK, NEW t \in Thread, NEW c \in Call \cup {NULL}, op' = [op EXCEPT ![t] = c]
  PROVE  /\ op' \in [Thread -> Call \cup {NULL}]
         /\ op'[t] = c /\ \A u \in Thread : u # t => op'[u] = op[u]
         /\ Holding(t)' = HoldOf(c)
         /\ \A u \in Thread : u # t => Holding(u)' = Holding(u)
<1>1. op \in [Thread -> Call \cup {NULL}]
  BY DEF TypeOK
<1>2. /\ op' \in [Thread -> Call \cup {NULL}]
      /\ op'[t] = c /\ \A u \in Thread : u # t => op'[u] = op[u]
  BY <1>1
<1>3. Holding(t)' = HoldOf(c)
  BY <1>2 DEF Holding
<1>4. \A u \in Thread : u # t => Holding(u)' = Holding(u)
  BY <1>2 DEF Holding
<1> QED BY <1>2, <1>3, <1>4

(* Locks: calls that have none, that take one and that give theirs back. *)
LEMMA LockKept ==
  ASSUME LockHeld, LockKnown, TypeOK, NEW t \in Thread, ~HasLock(op[t]), ~HasLock(op'[t]),
         \A u \in Thread : u # t => op'[u] = op[u], UNCHANGED lock
  PROVE  LockHeld' /\ LockKnown'
<1>1. LockHeld'
  <2> SUFFICES ASSUME NEW d \in Desc, lock'[d] # NULL
               PROVE  HasLock(op'[lock'[d]]) /\ op'[lock'[d]].desc = d
    BY DEF LockHeld
  <2>1. lock'[d] = lock[d] /\ lock[d] \in Thread
    BY DEF TypeOK
  <2>2. HasLock(op[lock[d]]) /\ op[lock[d]].desc = d
    BY <2>1 DEF LockHeld
  <2>3. lock[d] # t
    BY <2>2
  <2> QED BY <2>1, <2>2, <2>3
<1>2. LockKnown'
  BY DEF LockKnown
<1> QED BY <1>1, <1>2

LEMMA LockTaken ==
  ASSUME LockHeld, LockKnown, TypeOK, NEW t \in Thread, ~HasLock(op[t]),
         \A u \in Thread : u # t => op'[u] = op[u],
         NEW d \in Desc, lock[d] = NULL, lock' = [lock EXCEPT ![d] = t],
         HasLock(op'[t]), op'[t].desc = d
  PROVE  LockHeld' /\ LockKnown' /\ lock' \in [Desc -> Thread \cup {NULL}]
<1>1. lock \in [Desc -> Thread \cup {NULL}]
  BY DEF TypeOK
<1>2. /\ lock' \in [Desc -> Thread \cup {NULL}]
      /\ lock'[d] = t /\ \A e \in Desc : e # d => lock'[e] = lock[e]
  BY <1>1
<1>3. LockHeld'
  <2> SUFFICES ASSUME NEW e \in Desc, lock'[e] # NULL
               PROVE  HasLock(op'[lock'[e]]) /\ op'[lock'[e]].desc = e
    BY DEF LockHeld
  <2>1. CASE e = d
    BY <2>1, <1>2
  <2>2. CASE e # d
    <3>1. lock'[e] = lock[e] /\ lock[e] \in Thread
      BY <2>2, <1>1, <1>2
    <3>2. HasLock(op[lock[e]]) /\ op[lock[e]].desc = e
      BY <3>1 DEF LockHeld
    <3>3. lock[e] # t
      BY <3>2
    <3> QED BY <3>1, <3>2, <3>3
  <2> QED BY <2>1, <2>2
<1>4. LockKnown'
  <2> SUFFICES ASSUME NEW u \in Thread, HasLock(op'[u]) PROVE lock'[op'[u].desc] = u
    BY DEF LockKnown
  <2>1. CASE u = t
    BY <2>1, <1>2
  <2>2. CASE u # t
    <3>1. op'[u] = op[u] /\ lock[op[u].desc] = u /\ op[u].desc \in Desc
      BY <2>2, LockedDesc DEF LockKnown
    <3>2. op[u].desc # d
      BY <3>1, NullApart
    <3> QED BY <1>2, <3>1, <3>2
  <2> QED BY <2>1, <2>2
<1> QED BY <1>2, <1>3, <1>4

LEMMA LockGiven ==
  ASSUME LockHeld, LockKnown, TypeOK, NEW t \in Thread, HasLock(op[t]), ~HasLock(op'[t]),
         \A u \in Thread : u # t => op'[u] = op[u],
         lock' = [lock EXCEPT ![op[t].desc] = NULL]
  PROVE  LockHeld' /\ LockKnown' /\ lock' \in [Desc -> Thread \cup {NULL}]
<1> DEFINE d == op[t].desc
<1>1. lock \in [Desc -> Thread \cup {NULL}] /\ d \in Desc
  BY LockedDesc DEF TypeOK
<1>2. /\ lock' \in [Desc -> Thread \cup {NULL}]
      /\ lock'[d] = NULL /\ \A e \in Desc : e # d => lock'[e] = lock[e]
  BY <1>1
<1>3. lock[d] = t
  BY DEF LockKnown
<1>4. LockHeld'
  <2> SUFFICES ASSUME NEW e \in Desc, lock'[e] # NULL
               PROVE  HasLock(op'[lock'[e]]) /\ op'[lock'[e]].desc = e
    BY DEF LockHeld
  <2>1. lock'[e] = lock[e] /\ lock[e] \in Thread /\ e # d
    BY <1>1, <1>2
  <2>2. HasLock(op[lock[e]]) /\ op[lock[e]].desc = e
    BY <2>1 DEF LockHeld
  <2>3. lock[e] # t
    BY <2>1, <2>2
  <2> QED BY <2>1, <2>2, <2>3
<1>5. LockKnown'
  <2> SUFFICES ASSUME NEW u \in Thread, HasLock(op'[u]) PROVE lock'[op'[u].desc] = u
    BY DEF LockKnown
  <2>1. u # t
    OBVIOUS
  <2>2. op'[u] = op[u] /\ lock[op[u].desc] = u /\ op[u].desc \in Desc
    BY <2>1, LockedDesc DEF LockKnown
  <2>3. op[u].desc # d
    BY <1>3, <2>1, <2>2
  <2> QED BY <1>2, <2>2, <2>3
<1> QED BY <1>2, <1>4, <1>5

(* malloc() still holds a lock it held unless this step gives it up. *)
LEMMA DrawingKept ==
  ASSUME TypeOK, LockHeld, NEW t \in Thread, ~InMalloc(op[t]),
         \A u \in Thread : u # t => op'[u] = op[u],
         \A e \in Desc : lock[e] # NULL /\ lock[e] # t => lock'[e] = lock[e]
  PROVE  Drawing \subseteq Drawing'
<1> SUFFICES ASSUME NEW e \in Drawing PROVE e \in Drawing'
  OBVIOUS
<1>1. e \in Desc /\ lock[e] # NULL /\ lock[e] \in Thread /\ InMalloc(op[lock[e]])
  BY DEF Drawing, LockHeld, HasLock, InMalloc, TypeOK
<1>2. lock[e] # t
  BY <1>1
<1>3. lock'[e] = lock[e] /\ op'[lock[e]] = op[lock[e]]
  BY <1>1, <1>2
<1> QED BY <1>1, <1>3 DEF Drawing, InMalloc

LEMMA DrawingOthers ==
  ASSUME TypeOK, LockHeld, NEW t \in Thread, NEW d \in Desc, op[t].desc = d,
         \A u \in Thread : u # t => op'[u] = op[u], lock' = [lock EXCEPT ![d] = NULL]
  PROVE  Drawing \ {d} \subseteq Drawing'
<1> SUFFICES ASSUME NEW e \in Drawing, e # d PROVE e \in Drawing'
  OBVIOUS
<1>1. /\ e \in Desc /\ lock[e] # NULL /\ lock[e] \in Thread
      /\ op[lock[e]].desc = e /\ op[lock[e]].at = "malloc"
  BY DEF Drawing, LockHeld, TypeOK
<1>2. lock[e] # t /\ lock'[e] = lock[e]
  BY <1>1 DEF TypeOK
<1>3. op'[lock[e]] = op[lock[e]]
  BY <1>1, <1>2
<1> QED BY <1>1, <1>2, <1>3 DEF Drawing

-----------------------------------------------------------------------------
(* Calls of palloc.  T's call goes on as C, or is over; the others' stay.    *)
Others(t) == UNION {Moving(u) : u \in Thread \ {t}}

LEMMA SpareParts ==
  ASSUME NEW t \in Thread PROVE Spare = free_pages \cup Moving(t) \cup Others(t)
BY DEF Spare, Others

LEMMA PageCallStep ==
  ASSUME TypeOK, NEW t \in Thread, NEW c \in PageCall \cup {NULL},
         palloc' = [palloc EXCEPT ![t] = c]
  PROVE  /\ palloc' \in [Thread -> PageCall \cup {NULL}]
         /\ palloc'[t] = c /\ \A u \in Thread : u # t => palloc'[u] = palloc[u]
         /\ Moving(t)' = MovedBy(c)
         /\ \A u \in Thread : u # t => Moving(u)' = Moving(u)
         /\ Others(t)' = Others(t)
<1>1. /\ palloc' \in [Thread -> PageCall \cup {NULL}]
      /\ palloc'[t] = c /\ \A u \in Thread : u # t => palloc'[u] = palloc[u]
  BY DEF TypeOK
<1>2. Moving(t)' = MovedBy(c) /\ \A u \in Thread : u # t => Moving(u)' = Moving(u)
  BY <1>1 DEF Moving
<1>3. Others(t)' = Others(t)
  BY <1>2 DEF Others
<1> QED BY <1>1, <1>2, <1>3

(* The invariant of the calls is kept when the pages of T's call and the     *)
(* bitmap change together.                                                   *)
LEMMA PageStep ==
  ASSUME TypeOK, PageInv, NEW t \in Thread, NEW c \in PageCall \cup {NULL},
         palloc' = [palloc EXCEPT ![t] = c],
         c # NULL => c.i < c.cnt /\ Pages(c.page, c.cnt) \subseteq Page,
         MovedBy(c) \cap free_pages' = {}, AheadOf(c) \subseteq free_pages',
         MovedBy(c) \cap Others(t) = {}, Others(t) \cap free_pages' = {},
         \A u \in Thread : u # t => AheadOf(palloc[u]) \subseteq free_pages',
         Marks(c) => \A u \in Thread : u # t => ~Marks(palloc[u])
  PROVE  PageInv' /\ Spare' = free_pages' \cup MovedBy(c) \cup Others(t)
<1>1. /\ palloc'[t] = c /\ \A u \in Thread : u # t => palloc'[u] = palloc[u]
      /\ Moving(t)' = MovedBy(c)
      /\ \A u \in Thread : u # t => Moving(u)' = Moving(u)
      /\ Others(t)' = Others(t)
  BY PageCallStep
<1>2. \A u \in Thread : u # t => Moving(u) \subseteq Others(t)
  BY DEF Others
<1>3. InRange'
  BY <1>1 DEF PageInv, InRange
<1>4. MovedUsed' /\ MovedOnce'
  BY <1>1, <1>2 DEF PageInv, MovedUsed, MovedOnce
<1>5. AheadFree'
  BY <1>1 DEF PageInv, AheadFree
<1>6. OneMarks'
  BY <1>1 DEF PageInv, OneMarks
<1>7. Spare' = free_pages' \cup MovedBy(c) \cup Others(t)
  BY <1>1 DEF Spare, Others
<1> QED BY <1>3, <1>4, <1>5, <1>6, <1>7 DEF PageInv

LEMMA PagesSame ==
  ASSUME PageInv, UNCHANGED pageVars
  PROVE  PageInv' /\ Spare' = Spare
<1>1. \A t \in Thread : Moving(t)' = Moving(t)
  BY DEF pageVars, Moving
<1> QED BY <1>1 DEF pageVars, PageInv, InRange, MovedUsed, AheadFree, MovedOnce, OneMarks, Spare

(* A call as a record, its fields, and the pages it has behind and ahead. *)
LEMMA PageCallShape ==
  ASSUME NEW c \in PageCall
  PROVE  /\ c.at \in {"mark", "mark_store", "reset", "reset_store"} /\ c # NULL
         /\ c.page \in Page /\ c.page \in Nat /\ c.cnt \in Nat /\ c.i \in Nat
         /\ Marks(c) <=> c.at \in {"mark", "mark_store"}
         /\ Marks(c) => MovedBy(c) = Pages(c.page, c.i)
         /\ ~Marks(c) => MovedBy(c) = Pages(c.page + c.i, c.cnt - c.i)
         /\ AheadOf(c) = IF Marks(c) THEN Pages(c.page + c.i, c.cnt - c.i) ELSE {}
<1>1. c.at \in {"mark", "mark_store", "reset", "reset_store"} /\ c # NULL
      /\ c.page \in Page /\ c.cnt \in Nat /\ c.i \in Nat
  BY NullApart DEF PageCall
<1>2. c.page \in Nat
  BY <1>1, GeometryAssumption DEF Page
<1> QED BY <1>1, <1>2 DEF Marks, MovedBy, AheadOf

LEMMA PageCallMade ==
  ASSUME NEW at \in {"mark", "reset"}, NEW p \in Page, NEW cnt \in Nat
  PROVE  \E c \in PageCall :
           /\ c = [at |-> at, page |-> p, cnt |-> cnt, i |-> 0, elem |-> {}]
           /\ c.at = at /\ c.page = p /\ c.cnt = cnt /\ c.i = 0
<1>1. [at |-> at, page |-> p, cnt |-> cnt, i |-> 0, elem |-> {}] \in PageCall
  BY DEF PageCall
<1> QED BY <1>1

Loaded(c, at, e) == [c EXCEPT !.at = at, !.elem = e]
Advanced(c, at) == [c EXCEPT !.at = at, !.i = c.i + 1, !.elem = {}]

LEMMA PageCallLoaded ==
  ASSUME NEW c \in PageCall, NEW at, at \in {"mark_store", "reset_store"},
         NEW e, e \subseteq Page
  PROVE  /\ Loaded(c, at, e) \in PageCall
         /\ Loaded(c, at, e).at = at /\ Loaded(c, at, e).page = c.page
         /\ Loaded(c, at, e).cnt = c.cnt /\ Loaded(c, at, e).i = c.i
BY DEF PageCall, Loaded

LEMMA PageCallAdvanced ==
  ASSUME NEW c \in PageCall, NEW at, at \in {"mark", "reset"}
  PROVE  /\ Advanced(c, at) \in PageCall
         /\ Advanced(c, at).at = at /\ Advanced(c, at).page = c.page
         /\ Advanced(c, at).cnt = c.cnt /\ Advanced(c, at).i = c.i + 1
<1>1. c.i + 1 \in Nat
  BY DEF PageCall
<1> QED BY <1>1 DEF PageCall, Advanced

(* palloc_get_multiple() has found pages. *)
LEMMA GetStep ==
  ASSUME TypeOK, PageInv, NEW t \in Thread, palloc[t] = NULL, NEW cnt \in Nat,
         PallocGet(t, cnt)
  PROVE  /\ PageInv' /\ Spare' = Spare /\ UNCHANGED <<free_pages, lost>>
         /\ palloc' \in [Thread -> PageCall \cup {NULL}]
         /\ palloc'[t] # NULL /\ Marks(palloc'[t]) /\ palloc'[t].cnt = cnt
         /\ \A u \in Thread : u # t => palloc'[u] = palloc[u]
<1>1. PICK p \in Groups(cnt) :
        palloc' = [palloc EXCEPT ![t] = [at |-> "mark", page |-> p, cnt |-> cnt,
                                         i |-> 0, elem |-> {}]]
  BY DEF PallocGet
<1>2. p \in Page /\ cnt > 0 /\ Pages(p, cnt) \subseteq free_pages
  BY DEF Groups
<1>3. PICK c \in PageCall : /\ c = [at |-> "mark", page |-> p, cnt |-> cnt, i |-> 0, elem |-> {}]
                            /\ c.at = "mark" /\ c.page = p /\ c.cnt = cnt /\ c.i = 0
  BY <1>2, PageCallMade
<1>4. palloc' = [palloc EXCEPT ![t] = c] /\ UNCHANGED <<free_pages, lost>>
  BY <1>1, <1>3 DEF PallocGet
<1>5. c # NULL /\ Marks(c) /\ p \in Nat
  BY <1>3, PageCallShape
<1>6. MovedBy(c) = {} /\ AheadOf(c) = Pages(p, cnt)
  <2>1. Pages(p, 0) = {} /\ p + 0 = p /\ cnt - 0 = cnt
    BY <1>5, PageRow
  <2> QED BY <1>3, <1>5, <2>1, PageCallShape
<1>7. \A u \in Thread : ~Marks(palloc[u])
  BY DEF PallocGet, PoolLocked, Marks
<1>8. Others(t) \cap free_pages = {} /\ free_pages \subseteq Page /\ Moving(t) = {}
  BY DEF Others, PageInv, MovedUsed, TypeOK, Moving, MovedBy
<1>9. PageInv' /\ Spare' = free_pages' \cup MovedBy(c) \cup Others(t)
  <2>1. c.i < c.cnt /\ Pages(c.page, c.cnt) \subseteq Page
    BY <1>2, <1>3, <1>8
  <2>2. /\ MovedBy(c) \cap free_pages' = {} /\ AheadOf(c) \subseteq free_pages'
        /\ MovedBy(c) \cap Others(t) = {} /\ Others(t) \cap free_pages' = {}
        /\ \A u \in Thread : u # t => AheadOf(palloc[u]) \subseteq free_pages'
    BY <1>2, <1>4, <1>6, <1>8 DEF PageInv, AheadFree
  <2> QED BY <1>4, <1>7, <2>1, <2>2, PageStep
<1>10. Spare' = Spare
  BY <1>4, <1>6, <1>8, <1>9, SpareParts
<1> QED BY <1>3, <1>4, <1>5, <1>9, <1>10, PageCallStep

(* palloc_free_multiple() has been given pages that are in use. *)
LEMMA GiveStep ==
  ASSUME TypeOK, PageInv, NEW t \in Thread, palloc[t] = NULL, NEW p \in Page,
         NEW cnt \in Nat, cnt > 0, Pages(p, cnt) \subseteq Page \ Spare, PallocFree(t, p, cnt)
  PROVE  /\ PageInv' /\ Spare' = Spare \cup Pages(p, cnt) /\ UNCHANGED <<free_pages, lost>>
         /\ palloc' \in [Thread -> PageCall \cup {NULL}]
         /\ palloc'[t] # NULL /\ ~Marks(palloc'[t])
         /\ \A u \in Thread : u # t => palloc'[u] = palloc[u]
<1>1. PICK c \in PageCall : /\ c = [at |-> "reset", page |-> p, cnt |-> cnt, i |-> 0, elem |-> {}]
                            /\ c.at = "reset" /\ c.page = p /\ c.cnt = cnt /\ c.i = 0
  BY PageCallMade
<1>2. palloc' = [palloc EXCEPT ![t] = c] /\ UNCHANGED <<free_pages, lost>>
  BY <1>1 DEF PallocFree
<1>3. c # NULL /\ ~Marks(c) /\ p \in Nat
  BY <1>1, PageCallShape
<1>4. MovedBy(c) = Pages(p, cnt) /\ AheadOf(c) = {}
  <2>1. p + 0 = p /\ cnt - 0 = cnt
    BY <1>3
  <2> QED BY <1>1, <1>3, <2>1, PageCallShape
<1>5. Others(t) \cap free_pages = {} /\ Moving(t) = {}
  BY DEF Others, PageInv, MovedUsed, Moving, MovedBy
<1>6. Spare = free_pages \cup Others(t)
  BY <1>5, SpareParts
<1>7. PageInv' /\ Spare' = free_pages' \cup MovedBy(c) \cup Others(t)
  <2>1. c.i < c.cnt /\ Pages(c.page, c.cnt) \subseteq Page
    BY <1>1
  <2>2. /\ MovedBy(c) \cap free_pages' = {} /\ AheadOf(c) \subseteq free_pages'
        /\ MovedBy(c) \cap Others(t) = {} /\ Others(t) \cap free_pages' = {}
        /\ \A u \in Thread : u # t => AheadOf(palloc[u]) \subseteq free_pages'
    BY <1>2, <1>4, <1>5, <1>6 DEF PageInv, AheadFree
  <2> QED BY <1>2, <1>3, <2>1, <2>2, PageStep
<1>8. Spare' = Spare \cup Pages(p, cnt)
  BY <1>2, <1>4, <1>6, <1>7
<1> QED BY <1>1, <1>2, <1>3, <1>7, <1>8, PageCallStep

(* A word is loaded. *)
LEMMA LoadStep ==
  ASSUME TypeOK, PageInv, NEW t \in Thread, NEW label, NEW next, Load(t, label, next),
         \/ label = "mark" /\ next = "mark_store"
         \/ label = "reset" /\ next = "reset_store"
  PROVE  /\ PageInv' /\ Spare' = Spare /\ UNCHANGED <<free_pages, lost>>
         /\ palloc' \in [Thread -> PageCall \cup {NULL}]
         /\ palloc[t] # NULL /\ palloc'[t].cnt = palloc[t].cnt
         /\ Marks(palloc'[t]) <=> Marks(palloc[t])
         /\ \A u \in Thread : u # t => palloc'[u] = palloc[u]
<1>1. palloc[t] # NULL /\ palloc[t].at = label
  BY DEF Load, InPalloc
<1>2. PICK k \in PageCall : k = palloc[t]
  BY <1>1 DEF TypeOK
<1>3. PICK e : e = free_pages \cap Word(PageAt(t)) /\ e \subseteq Page
  BY DEF TypeOK
<1>4. next \in {"mark_store", "reset_store"}
  OBVIOUS
<1>5. PICK c \in PageCall : /\ c = Loaded(k, next, e)
                            /\ c.at = next /\ c.page = k.page /\ c.cnt = k.cnt /\ c.i = k.i
  BY <1>3, <1>4, PageCallLoaded
<1>6. palloc' = [palloc EXCEPT ![t] = c] /\ UNCHANGED <<free_pages, lost>>
  BY <1>2, <1>3, <1>4, <1>5 DEF Load, Loaded
<1>7. /\ Marks(c) <=> Marks(k)
      /\ MovedBy(c) = Moving(t) /\ AheadOf(c) = AheadOf(k)
  <2>1. Marks(c) <=> Marks(k)
    BY <1>1, <1>2, <1>4, <1>5, PageCallShape
  <2>2. MovedBy(c) = MovedBy(k) /\ AheadOf(c) = AheadOf(k)
    BY <1>5, <2>1, PageCallShape
  <2> QED BY <1>2, <2>1, <2>2 DEF Moving
<1>8. /\ Others(t) \cap free_pages = {} /\ Moving(t) \cap Others(t) = {}
      /\ Moving(t) \cap free_pages = {}
  BY DEF Others, PageInv, MovedUsed, MovedOnce
<1>9. PageInv' /\ Spare' = free_pages' \cup MovedBy(c) \cup Others(t)
  <2>1. c.i < c.cnt /\ Pages(c.page, c.cnt) \subseteq Page
    BY <1>1, <1>2, <1>5 DEF PageInv, InRange
  <2>2. /\ MovedBy(c) \cap free_pages' = {} /\ AheadOf(c) \subseteq free_pages'
        /\ MovedBy(c) \cap Others(t) = {} /\ Others(t) \cap free_pages' = {}
        /\ \A u \in Thread : u # t => AheadOf(palloc[u]) \subseteq free_pages'
    BY <1>2, <1>6, <1>7, <1>8 DEF PageInv, AheadFree
  <2>3. Marks(c) => \A u \in Thread : u # t => ~Marks(palloc[u])
    BY <1>2, <1>7 DEF PageInv, OneMarks
  <2> QED BY <1>6, <2>1, <2>2, <2>3, PageStep
<1>10. Spare' = Spare
  BY <1>6, <1>7, <1>9, SpareParts
<1> QED BY <1>1, <1>2, <1>5, <1>6, <1>7, <1>9, <1>10, PageCallStep

(* A word is stored.  Unless an update is lost the store changes one bit. *)
LEMMA StoreOne ==
  ASSUME TypeOK, NEW t \in Thread, PageAt(t) \in Page, ~lost'
  PROVE  /\ Mark(t) => free_pages' = free_pages \ {PageAt(t)}
         /\ Reset(t) => free_pages' = free_pages \cup {PageAt(t)}
         /\ Mark(t) \/ Reset(t) => ~lost /\ lost' \in BOOLEAN
<1> DEFINE w == Word(PageAt(t))
<1>1. PageAt(t) \in w
  BY DEF Word
<1>2. ASSUME NEW word, Store(t, word)
      PROVE  palloc[t].elem = free_pages \cap w /\ ~lost /\ lost' \in BOOLEAN
  <2>1. lost' = (lost \/ palloc[t].elem # free_pages \cap w)
    BY <1>2 DEF Store
  <2> HIDE DEF w
  <2> QED BY <2>1, Zenon
<1>3. ASSUME Mark(t) PROVE free_pages' = free_pages \ {PageAt(t)}
  <2>1. palloc[t].elem = free_pages \cap w
    BY <1>2, <1>3 DEF Mark
  <2>2. free_pages' = (free_pages \ w) \cup (palloc[t].elem \ {PageAt(t)})
    BY <1>3 DEF Mark, Store
  <2> HIDE DEF w
  <2> QED BY <1>1, <2>1, <2>2
<1>4. ASSUME Reset(t) PROVE free_pages' = free_pages \cup {PageAt(t)}
  <2>1. palloc[t].elem = free_pages \cap w
    BY <1>2, <1>4 DEF Reset
  <2>2. free_pages' = (free_pages \ w) \cup (palloc[t].elem \cup {PageAt(t)})
    BY <1>4 DEF Reset, Store
  <2> HIDE DEF w
  <2> QED BY <1>1, <2>1, <2>2
<1>5. Mark(t) \/ Reset(t) => ~lost /\ lost' \in BOOLEAN
  BY <1>2 DEF Mark, Reset
<1> QED BY <1>3, <1>4, <1>5

(* Where the call of T is. *)
LEMMA PageCallAt ==
  ASSUME TypeOK, PageInv, NEW t \in Thread, NEW k \in PageCall, k = palloc[t]
  PROVE  /\ PageAt(t) = k.page + k.i /\ PageAt(t) \in Page
         /\ k.i < k.cnt /\ Pages(k.page, k.cnt) \subseteq Page
         /\ Others(t) \cap free_pages = {} /\ Moving(t) \cap Others(t) = {}
         /\ Moving(t) = MovedBy(k) /\ Moving(t) \cap free_pages = {}
         /\ AheadOf(k) \subseteq free_pages
         /\ Marks(k) => \A u \in Thread : u # t => AheadOf(palloc[u]) = {} /\ ~Marks(palloc[u])
<1>1. k # NULL /\ k.page \in Nat /\ k.cnt \in Nat /\ k.i \in Nat
  BY PageCallShape
<1>2. PageAt(t) = k.page + k.i /\ k.i < k.cnt /\ Pages(k.page, k.cnt) \subseteq Page
  BY <1>1 DEF PageAt, PageInv, InRange
<1>3. PageAt(t) \in Page
  BY <1>1, <1>2 DEF Pages
<1>4. /\ Others(t) \cap free_pages = {} /\ Moving(t) \cap Others(t) = {}
      /\ Moving(t) = MovedBy(k) /\ Moving(t) \cap free_pages = {}
  BY DEF Others, PageInv, MovedUsed, MovedOnce, Moving
<1>5. AheadOf(k) \subseteq free_pages
  BY DEF PageInv, AheadFree
<1>6. Marks(k) => \A u \in Thread : u # t => AheadOf(palloc[u]) = {} /\ ~Marks(palloc[u])
  BY DEF PageInv, OneMarks, AheadOf
<1> QED BY <1>2, <1>3, <1>4, <1>5, <1>6

(* A page is marked, or given back, and the call goes on. *)
LEMMA MarkStep ==
  ASSUME TypeOK, PageInv, NEW t \in Thread, MarkNext(t), ~lost'
  PROVE  /\ PageInv' /\ Spare' = Spare /\ free_pages' \subseteq Page /\ lost' \in BOOLEAN
         /\ palloc' \in [Thread -> PageCall \cup {NULL}]
         /\ palloc[t] # NULL /\ palloc'[t].cnt = palloc[t].cnt
         /\ Marks(palloc'[t]) <=> Marks(palloc[t])
         /\ \A u \in Thread : u # t => palloc'[u] = palloc[u]
<1>1. palloc[t] # NULL /\ palloc[t].at = "mark_store"
  BY DEF MarkNext, InPalloc
<1>2. PICK k \in PageCall : k = palloc[t]
  BY <1>1 DEF TypeOK
<1>3. Marks(k) /\ k.page \in Nat /\ k.cnt \in Nat /\ k.i \in Nat
  BY <1>1, <1>2, PageCallShape
<1>4. PICK c \in PageCall : /\ c = Advanced(k, "mark")
                            /\ c.at = "mark" /\ c.page = k.page /\ c.cnt = k.cnt /\ c.i = k.i + 1
  BY PageCallAdvanced
<1>5. palloc' = [palloc EXCEPT ![t] = c] /\ k.i + 1 # k.cnt
  BY <1>2, <1>4 DEF MarkNext, NextBit, LastBit, Advanced
<1>6. PICK p \in Page : p = PageAt(t) /\ p = k.page + k.i
  BY <1>2, PageCallAt
<1>7. /\ k.i < k.cnt /\ Pages(k.page, k.cnt) \subseteq Page
      /\ Others(t) \cap free_pages = {} /\ Moving(t) \cap Others(t) = {}
      /\ Moving(t) = MovedBy(k) /\ Moving(t) \cap free_pages = {}
      /\ AheadOf(k) \subseteq free_pages
      /\ \A u \in Thread : u # t => AheadOf(palloc[u]) = {} /\ ~Marks(palloc[u])
  BY <1>2, <1>3, PageCallAt
<1>8. free_pages' = free_pages \ {p} /\ lost' \in BOOLEAN
  BY <1>6, StoreOne DEF MarkNext
<1>9. /\ MovedBy(c) = Moving(t) \cup {p} /\ p \in free_pages
      /\ AheadOf(c) \subseteq free_pages \ {p}
  <2>1. Marks(c)
    BY <1>4, PageCallShape
  <2>2. /\ MovedBy(k) = Pages(k.page, k.i) /\ MovedBy(c) = Pages(k.page, k.i + 1)
        /\ AheadOf(k) = Pages(k.page + k.i, k.cnt - k.i)
        /\ AheadOf(c) = Pages(k.page + (k.i + 1), k.cnt - (k.i + 1))
    BY <1>3, <1>4, <2>1, PageCallShape
  <2>3. /\ Pages(k.page, k.i + 1) = Pages(k.page, k.i) \cup {p}
        /\ p \in Pages(k.page + k.i, k.cnt - k.i)
        /\ p \notin Pages(k.page + (k.i + 1), k.cnt - (k.i + 1))
        /\ Pages(k.page + (k.i + 1), k.cnt - (k.i + 1)) \subseteq Pages(k.page + k.i, k.cnt - k.i)
    BY <1>3, <1>6, <1>7 DEF Pages
  <2> QED BY <1>7, <2>2, <2>3
<1>10. PageInv' /\ Spare' = free_pages' \cup MovedBy(c) \cup Others(t)
  <2>1. c.i < c.cnt /\ Pages(c.page, c.cnt) \subseteq Page
    BY <1>3, <1>4, <1>5, <1>7
  <2>2. /\ MovedBy(c) \cap free_pages' = {} /\ AheadOf(c) \subseteq free_pages'
        /\ MovedBy(c) \cap Others(t) = {} /\ Others(t) \cap free_pages' = {}
        /\ \A u \in Thread : u # t => AheadOf(palloc[u]) \subseteq free_pages'
    BY <1>7, <1>8, <1>9
  <2> QED BY <1>5, <1>7, <2>1, <2>2, PageStep
<1>11. Spare' = Spare
  BY <1>8, <1>9, <1>10, SpareParts
<1>12. Marks(c)
  BY <1>4, PageCallShape
<1>13. free_pages' \subseteq Page
  BY <1>8 DEF TypeOK
<1> QED BY <1>1, <1>2, <1>3, <1>4, <1>5, <1>8, <1>10, <1>11, <1>12, <1>13, PageCallStep

LEMMA ResetStep ==
  ASSUME TypeOK, PageInv, NEW t \in Thread, ResetNext(t), ~lost'
  PROVE  /\ PageInv' /\ Spare' = Spare /\ free_pages' \subseteq Page /\ lost' \in BOOLEAN
         /\ palloc' \in [Thread -> PageCall \cup {NULL}]
         /\ palloc[t] # NULL /\ palloc'[t].cnt = palloc[t].cnt
         /\ Marks(palloc'[t]) <=> Marks(palloc[t])
         /\ \A u \in Thread : u # t => palloc'[u] = palloc[u]
<1>1. palloc[t] # NULL /\ palloc[t].at = "reset_store"
  BY DEF ResetNext, InPalloc
<1>2. PICK k \in PageCall : k = palloc[t]
  BY <1>1 DEF TypeOK
<1>3. ~Marks(k) /\ k.page \in Nat /\ k.cnt \in Nat /\ k.i \in Nat
  BY <1>1, <1>2, PageCallShape
<1>4. PICK c \in PageCall : /\ c = Advanced(k, "reset")
                            /\ c.at = "reset" /\ c.page = k.page /\ c.cnt = k.cnt /\ c.i = k.i + 1
  BY PageCallAdvanced
<1>5. palloc' = [palloc EXCEPT ![t] = c] /\ k.i + 1 # k.cnt
  BY <1>2, <1>4 DEF ResetNext, NextBit, LastBit, Advanced
<1>6. PICK p \in Page : p = PageAt(t) /\ p = k.page + k.i
  BY <1>2, PageCallAt
<1>7. /\ k.i < k.cnt /\ Pages(k.page, k.cnt) \subseteq Page
      /\ Others(t) \cap free_pages = {} /\ Moving(t) \cap Others(t) = {}
      /\ Moving(t) = MovedBy(k) /\ Moving(t) \cap free_pages = {}
  BY <1>2, PageCallAt
<1>8. free_pages' = free_pages \cup {p} /\ lost' \in BOOLEAN
  BY <1>6, StoreOne DEF ResetNext
<1>9. ~Marks(c) /\ AheadOf(c) = {} /\ Moving(t) = MovedBy(c) \cup {p} /\ p \notin MovedBy(c)
  <2>1. ~Marks(c)
    BY <1>4, PageCallShape
  <2>2. /\ MovedBy(k) = Pages(k.page + k.i, k.cnt - k.i) /\ AheadOf(c) = {}
        /\ MovedBy(c) = Pages(k.page + (k.i + 1), k.cnt - (k.i + 1))
    BY <1>3, <1>4, <2>1, PageCallShape
  <2>3. /\ Pages(k.page + k.i, k.cnt - k.i) = {p} \cup Pages(k.page + (k.i + 1), k.cnt - (k.i + 1))
        /\ p \notin Pages(k.page + (k.i + 1), k.cnt - (k.i + 1))
    BY <1>3, <1>6, <1>7 DEF Pages
  <2> QED BY <1>7, <2>1, <2>2, <2>3
<1>10. PageInv' /\ Spare' = free_pages' \cup MovedBy(c) \cup Others(t)
  <2>1. c.i < c.cnt /\ Pages(c.page, c.cnt) \subseteq Page
    BY <1>3, <1>4, <1>5, <1>7
  <2>2. /\ MovedBy(c) \cap free_pages' = {} /\ AheadOf(c) \subseteq free_pages'
        /\ MovedBy(c) \cap Others(t) = {} /\ Others(t) \cap free_pages' = {}
    BY <1>7, <1>8, <1>9
  <2>3. \A u \in Thread : u # t => AheadOf(palloc[u]) \subseteq free_pages'
    BY <1>8 DEF PageInv, AheadFree
  <2> QED BY <1>5, <1>9, <2>1, <2>2, <2>3, PageStep
<1>11. Spare' = Spare
  BY <1>8, <1>9, <1>10, SpareParts
<1>12. free_pages' \subseteq Page
  BY <1>8 DEF TypeOK
<1> QED BY <1>1, <1>2, <1>3, <1>4, <1>5, <1>8, <1>9, <1>10, <1>11, <1>12, PageCallStep

(* The last page is marked: the caller has the pages, and palloc no longer.  *)
LEMMA GotStep ==
  ASSUME TypeOK, PageInv, NEW t \in Thread, PallocGot(t), ~lost'
  PROVE  LET p == palloc[t].page
             cnt == palloc[t].cnt
         IN  /\ palloc[t] # NULL /\ p \in Page /\ cnt \in Nat /\ cnt > 0
             /\ Marks(palloc[t]) /\ Pages(p, cnt) \subseteq Spare
             /\ PageInv' /\ Spare' = Spare \ Pages(p, cnt)
             /\ free_pages' \subseteq Page /\ lost' \in BOOLEAN
             /\ palloc' \in [Thread -> PageCall \cup {NULL}]
             /\ palloc'[t] = NULL /\ \A u \in Thread : u # t => palloc'[u] = palloc[u]
<1>1. palloc[t] # NULL /\ palloc[t].at = "mark_store" /\ palloc' = [palloc EXCEPT ![t] = NULL]
  BY DEF PallocGot, InPalloc
<1>2. PICK k \in PageCall : k = palloc[t]
  BY <1>1 DEF TypeOK
<1>3. Marks(k) /\ k.page \in Page /\ k.page \in Nat /\ k.cnt \in Nat /\ k.i \in Nat
  BY <1>1, <1>2, PageCallShape
<1>4. PICK c \in PageCall \cup {NULL} : c = NULL
  OBVIOUS
<1>5. MovedBy(c) = {} /\ AheadOf(c) = {} /\ ~Marks(c)
  BY <1>4 DEF MovedBy, AheadOf, Marks
<1>6. PICK p \in Page : p = PageAt(t) /\ p = k.page + k.i
  BY <1>2, PageCallAt
<1>7. /\ k.i < k.cnt /\ Pages(k.page, k.cnt) \subseteq Page
      /\ Others(t) \cap free_pages = {} /\ Moving(t) \cap Others(t) = {}
      /\ Moving(t) = MovedBy(k) /\ Moving(t) \cap free_pages = {}
      /\ AheadOf(k) \subseteq free_pages
      /\ \A u \in Thread : u # t => AheadOf(palloc[u]) = {} /\ ~Marks(palloc[u])
  BY <1>2, <1>3, PageCallAt
<1>8. free_pages' = free_pages \ {p} /\ lost' \in BOOLEAN
  BY <1>6, StoreOne DEF PallocGot
<1>9. Pages(k.page, k.cnt) = Moving(t) \cup {p} /\ p \in free_pages
  <2>1. k.cnt = k.i + 1
    BY <1>2 DEF PallocGot, LastBit
  <2>2. MovedBy(k) = Pages(k.page, k.i) /\ AheadOf(k) = Pages(k.page + k.i, k.cnt - k.i)
    BY <1>3, PageCallShape
  <2>3. /\ Pages(k.page, k.i + 1) = Pages(k.page, k.i) \cup {p}
        /\ p \in Pages(k.page + k.i, k.cnt - k.i)
    BY <1>3, <1>6, <1>7 DEF Pages
  <2> QED BY <1>7, <2>1, <2>2, <2>3
<1>10. PageInv' /\ Spare' = free_pages' \cup MovedBy(c) \cup Others(t)
  <2>1. /\ MovedBy(c) \cap free_pages' = {} /\ AheadOf(c) \subseteq free_pages'
        /\ MovedBy(c) \cap Others(t) = {} /\ Others(t) \cap free_pages' = {}
        /\ \A u \in Thread : u # t => AheadOf(palloc[u]) \subseteq free_pages'
    BY <1>5, <1>7, <1>8
  <2> QED BY <1>1, <1>4, <1>5, <2>1, PageStep
<1>11. Pages(k.page, k.cnt) \subseteq Spare /\ Spare' = Spare \ Pages(k.page, k.cnt)
  BY <1>5, <1>7, <1>8, <1>9, <1>10, SpareParts
<1>12. free_pages' \subseteq Page
  BY <1>8 DEF TypeOK
<1>13. /\ palloc' \in [Thread -> PageCall \cup {NULL}]
       /\ palloc'[t] = NULL /\ \A u \in Thread : u # t => palloc'[u] = palloc[u]
  BY <1>1, <1>4, PageCallStep
<1> QED BY <1>1, <1>2, <1>3, <1>7, <1>8, <1>10, <1>11, <1>12, <1>13

(* The last page is back. *)
LEMMA GaveStep ==
  ASSUME TypeOK, PageInv, NEW t \in Thread, PallocGave(t), ~lost'
  PROVE  /\ palloc[t] # NULL /\ ~Marks(palloc[t]) /\ PageInv' /\ Spare' = Spare
         /\ free_pages' \subseteq Page /\ lost' \in BOOLEAN
         /\ palloc' \in [Thread -> PageCall \cup {NULL}]
         /\ palloc'[t] = NULL /\ \A u \in Thread : u # t => palloc'[u] = palloc[u]
<1>1. palloc[t] # NULL /\ palloc[t].at = "reset_store" /\ palloc' = [palloc EXCEPT ![t] = NULL]
  BY DEF PallocGave, InPalloc
<1>2. PICK k \in PageCall : k = palloc[t]
  BY <1>1 DEF TypeOK
<1>3. ~Marks(k) /\ k.page \in Nat /\ k.cnt \in Nat /\ k.i \in Nat
  BY <1>1, <1>2, PageCallShape
<1>4. PICK c \in PageCall \cup {NULL} : c = NULL
  OBVIOUS
<1>5. MovedBy(c) = {} /\ AheadOf(c) = {} /\ ~Marks(c)
  BY <1>4 DEF MovedBy, AheadOf, Marks
<1>6. PICK p \in Page : p = PageAt(t) /\ p = k.page + k.i
  BY <1>2, PageCallAt
<1>7. /\ Others(t) \cap free_pages = {} /\ Moving(t) \cap Others(t) = {} /\ Moving(t) = MovedBy(k)
  BY <1>2, PageCallAt
<1>8. free_pages' = free_pages \cup {p} /\ lost' \in BOOLEAN
  BY <1>6, StoreOne DEF PallocGave
<1>9. Moving(t) = {p}
  <2>1. k.cnt - k.i = 1
    BY <1>2, <1>3 DEF PallocGave, LastBit
  <2>2. MovedBy(k) = Pages(p, 1) /\ p \in Nat
    BY <1>3, <1>6, <2>1, PageCallShape
  <2> QED BY <1>7, <2>2, PageRow
<1>10. PageInv' /\ Spare' = free_pages' \cup MovedBy(c) \cup Others(t)
  <2>1. /\ MovedBy(c) \cap free_pages' = {} /\ AheadOf(c) \subseteq free_pages'
        /\ MovedBy(c) \cap Others(t) = {} /\ Others(t) \cap free_pages' = {}
    BY <1>5, <1>7, <1>8, <1>9
  <2>2. \A u \in Thread : u # t => AheadOf(palloc[u]) \subseteq free_pages'
    BY <1>8 DEF PageInv, AheadFree
  <2> QED BY <1>1, <1>4, <1>5, <2>1, <2>2, PageStep
<1>11. Spare' = Spare
  BY <1>5, <1>8, <1>9, <1>10, SpareParts
<1>12. free_pages' \subseteq Page
  BY <1>8 DEF TypeOK
<1>13. /\ palloc' \in [Thread -> PageCall \cup {NULL}]
       /\ palloc'[t] = NULL /\ \A u \in Thread : u # t => palloc'[u] = palloc[u]
  BY <1>1, <1>4, PageCallStep
<1> QED BY <1>1, <1>2, <1>3, <1>8, <1>10, <1>11, <1>12, <1>13

-----------------------------------------------------------------------------
(* Pages: an arena's first page is its own, hence not free. *)
LEMMA FirstPage ==
  ASSUME TypeOK, MemInv, NEW p \in Page, arena[p] # NULL
  PROVE  /\ p \in Nat /\ p \in ArenaPages(p) /\ p \notin Spare
         /\ arena[p] \in Arena /\ arena[p].free_cnt \in Nat
         /\ arena[p].desc \in Desc \cup {NULL}
<1>1. p \in Nat
  BY GeometryAssumption DEF Page
<1>2. arena[p] \in Arena
  BY DEF TypeOK
<1>3. arena[p].free_cnt \in Nat /\ arena[p].desc \in Desc \cup {NULL}
  BY <1>2 DEF Arena
<1>4. p \in ArenaPages(p)
  <2>1. CASE arena[p].desc = NULL
    <3>1. arena[p].free_cnt > 0
      BY <2>1 DEF MemInv, BigCounted
    <3> QED BY <1>1, <1>3, <2>1, <3>1 DEF ArenaPages, Pages
  <2>2. CASE arena[p].desc # NULL
    BY <2>2 DEF ArenaPages
  <2> QED BY <2>1, <2>2
<1>5. p \notin Spare
  BY <1>4 DEF MemInv, PagesFilled
<1> QED BY <1>1, <1>2, <1>3, <1>4, <1>5

(* Blocks that stay taken keep their arena and their size. *)
Steady ==
  \A b \in Taken \cap Taken' :
    /\ arena'[b.page].desc = arena[b.page].desc
    /\ arena[b.page].desc = NULL => arena'[b.page].free_cnt = arena[b.page].free_cnt

(* Steps that only pass a lock on. *)
LEMMA MemSame ==
  ASSUME TypeOK, MemInv, UNCHANGED <<arena, free_list>>, Spare' = Spare,
         Taken' = Taken, \A d \in Drawing : d \in Drawing' \/ free_list[d] = <<>>
  PROVE  MemInv' /\ Steady
<1>1. TakenInArena' /\ ListedInArena' /\ ListsApart'
  BY DEF MemInv, TakenInArena, ListedInArena, ListsApart, IsBlock
<1>2. \A p : (Small(p)' <=> Small(p)) /\ Listed(p)' = Listed(p) /\ ArenaPages(p)' = ArenaPages(p)
  BY DEF Small, Listed, ArenaPages
<1>3. CountExact'
  BY <1>2 DEF MemInv, CountExact
<1>4. FullLocked'
  <2> SUFFICES ASSUME NEW p \in Page, Small(p)',
                      arena'[p].free_cnt = BlocksPerArena(arena'[p].desc)
               PROVE  /\ arena'[p].desc \in Drawing'
                      /\ free_list'[arena'[p].desc] # <<>>
                      /\ Head(free_list'[arena'[p].desc]).page = p
    BY DEF FullLocked
  <2>1. /\ arena[p].desc \in Drawing
        /\ free_list[arena[p].desc] # <<>> /\ Head(free_list[arena[p].desc]).page = p
    BY <1>2 DEF MemInv, FullLocked
  <2>2. arena[p].desc \in Desc
    BY <1>2, FirstPage DEF Small
  <2> QED BY <2>1, <2>2
<1>5. PagesFilled' /\ PagesApart' /\ BigCounted'
  BY <1>2 DEF MemInv, PagesFilled, PagesApart, BigCounted
<1>6. Steady
  BY DEF Steady
<1> QED BY <1>1, <1>3, <1>4, <1>5, <1>6 DEF MemInv

(* A big block is made. *)
LEMMA MemBig ==
  ASSUME TypeOK, MemInv, NEW p \in Page, NEW cnt \in Nat, cnt > 0,
         Pages(p, cnt) \subseteq Spare, Spare' = Spare \ Pages(p, cnt),
         arena' = [arena EXCEPT ![p] = [desc |-> NULL, free_cnt |-> cnt]],
         UNCHANGED free_list, Drawing \subseteq Drawing',
         Taken' = Taken \cup {[page |-> p, ofs |-> ArenaSize]}
  PROVE  MemInv' /\ Steady
<1> DEFINE a == [desc |-> NULL, free_cnt |-> cnt]
           new == [page |-> p, ofs |-> ArenaSize]
<1>1. p \in Nat /\ p \in Pages(p, cnt)
  BY GeometryAssumption DEF Page, Pages
<1>2. arena[p] = NULL
  BY <1>1, FirstPage
<1>3. /\ arena'[p] = a /\ a.desc = NULL /\ a.free_cnt = cnt /\ a # NULL
      /\ \A q \in Page : q # p => arena'[q] = arena[q]
  BY RecordTypes, NullApart DEF TypeOK
<1>4. /\ \A q \in Page : Small(q)' <=> Small(q)
      /\ \A q \in Page : Small(q) => arena'[q] = arena[q] /\ Listed(q)' = Listed(q)
  BY <1>2, <1>3 DEF Small, Listed
<1>5. /\ ArenaPages(p)' = Pages(p, cnt)
      /\ \A q \in Page : q # p => ArenaPages(q)' = ArenaPages(q)
  BY <1>3 DEF ArenaPages
<1>6. \A b \in Taken : b.page \in Page /\ b.page # p /\ arena'[b.page] = arena[b.page]
  BY <1>2, <1>3 DEF MemInv, TakenInArena, IsBlock
<1>7. TakenInArena'
  <2>1. ASSUME NEW b \in Taken PROVE IsBlock(b)'
    BY <1>6 DEF MemInv, TakenInArena, IsBlock
  <2>2. IsBlock(new)'
    BY <1>3 DEF IsBlock
  <2> QED BY <2>1, <2>2 DEF TakenInArena
<1>8. ListedInArena'
  <2> SUFFICES ASSUME NEW d \in Desc, NEW b \in Range(free_list[d])
               PROVE  /\ b.page \in Page /\ arena'[b.page] # NULL
                      /\ arena'[b.page].desc = d /\ b \in BlocksOf(b.page, d)
    BY DEF ListedInArena
  <2>1. /\ b.page \in Page /\ arena[b.page] # NULL
        /\ arena[b.page].desc = d /\ b \in BlocksOf(b.page, d)
    BY DEF MemInv, ListedInArena
  <2> QED BY <1>2, <1>3, <2>1
<1>9. ListsApart'
  <2>1. \A d \in Desc : \A b \in Range(free_list[d]) : b # new
    BY <1>2 DEF MemInv, ListedInArena
  <2> QED BY <2>1 DEF MemInv, ListsApart
<1>10. CountExact'
  BY <1>4 DEF MemInv, CountExact
<1>11. FullLocked'
  BY <1>4 DEF MemInv, FullLocked
<1>12. PagesFilled'
  <2>1. ASSUME NEW q \in Page, arena'[q] # NULL
        PROVE  ArenaPages(q)' \subseteq Page \ Spare'
    <3>1. CASE q = p
      BY <3>1, <1>5 DEF MemInv, PagesFilled
    <3>2. CASE q # p
      BY <2>1, <3>2, <1>3, <1>5 DEF MemInv, PagesFilled
    <3> QED BY <3>1, <3>2
  <2>2. ASSUME NEW r \in Page \ Spare'
        PROVE  \E q \in Page : arena'[q] # NULL /\ r \in ArenaPages(q)'
    <3>1. CASE r \in Pages(p, cnt)
      BY <3>1, <1>3, <1>5
    <3>2. CASE r \notin Pages(p, cnt)
      <4>1. PICK q \in Page : arena[q] # NULL /\ r \in ArenaPages(q)
        BY <2>2, <3>2 DEF MemInv, PagesFilled
      <4>2. q # p
        BY <1>2, <4>1
      <4> QED BY <1>3, <1>5, <4>1, <4>2
    <3> QED BY <3>1, <3>2
  <2>3. Spare' \subseteq Page
    BY DEF MemInv, PagesFilled
  <2> QED BY <2>1, <2>2, <2>3 DEF PagesFilled
<1>13. PagesApart'
  <2>1. \A q \in Page : q # p /\ arena[q] # NULL => ArenaPages(q) \cap Pages(p, cnt) = {}
    BY DEF MemInv, PagesFilled
  <2> SUFFICES ASSUME NEW q \in Page, NEW r \in Page, arena'[q] # NULL, arena'[r] # NULL,
                      ArenaPages(q)' \cap ArenaPages(r)' # {}
               PROVE  q = r
    BY DEF PagesApart
  <2>2. CASE q = p \/ r = p
    BY <2>1, <2>2, <1>3, <1>5
  <2>3. CASE q # p /\ r # p
    BY <2>3, <1>3, <1>5 DEF MemInv, PagesApart
  <2> QED BY <2>2, <2>3
<1>14. BigCounted'
  BY <1>3 DEF MemInv, BigCounted
<1>15. Steady
  BY <1>6 DEF Steady
<1> QED BY <1>7, <1>8, <1>9, <1>10, <1>11, <1>12, <1>13, <1>14, <1>15 DEF MemInv

(* Blocks of different arenas differ. *)
LEMMA OtherArena ==
  ASSUME NEW p \in Page, NEW q \in Page, NEW d \in Desc, NEW e \in Desc, p # q
  PROVE  BlocksOf(p, d) \cap BlocksOf(q, e) = {}
BY BlockPlace

(* A small arena's listed blocks are some of its blocks. *)
LEMMA ListedCount ==
  ASSUME TypeOK, NEW p \in Page, Small(p)
  PROVE  /\ arena[p].desc \in Desc
         /\ Listed(p) \subseteq BlocksOf(p, arena[p].desc)
         /\ IsFiniteSet(Listed(p)) /\ Cardinality(Listed(p)) \in Nat
         /\ Cardinality(Listed(p)) <= BlocksPerArena(arena[p].desc)
         /\ Cardinality(Listed(p)) = BlocksPerArena(arena[p].desc)
              => Listed(p) = BlocksOf(p, arena[p].desc)
<1>1. arena[p].desc \in Desc
  BY DEF TypeOK, Small, Arena
<1>2. Listed(p) \in SUBSET BlocksOf(p, arena[p].desc)
  BY DEF Listed
<1>3. /\ IsFiniteSet(BlocksOf(p, arena[p].desc))
      /\ Cardinality(BlocksOf(p, arena[p].desc)) = BlocksPerArena(arena[p].desc)
  BY <1>1, BlocksCounted
<1>4. IsFiniteSet(Listed(p)) /\ Cardinality(Listed(p)) <= BlocksPerArena(arena[p].desc)
      /\ (BlocksPerArena(arena[p].desc) = Cardinality(Listed(p))
            => BlocksOf(p, arena[p].desc) = Listed(p))
  BY <1>2, <1>3, FS_Subset
<1>5. Cardinality(Listed(p)) \in Nat
  BY <1>4, FS_CardinalityType
<1> QED BY <1>1, <1>2, <1>4, <1>5

(* The free list of a new arena. *)
LEMMA NewList ==
  ASSUME NEW p \in Page, NEW d \in Desc
  PROVE  LET list == [i \in 1 .. BlocksPerArena(d) |-> ArenaToBlock(p, d, i - 1)]
         IN  /\ list \in Seq(Block) /\ list # <<>> /\ Head(list).page = p
             /\ Range(list) = BlocksOf(p, d) /\ IsInjective(list)
<1> DEFINE n == BlocksPerArena(d)
           list == [i \in 1 .. n |-> ArenaToBlock(p, d, i - 1)]
<1>1. n \in Nat /\ n # 0 /\ d \in Nat \ {0} /\ ArenaSize \in Nat
  BY Descriptor, GeometryAssumption
<1>2. \A i \in 1 .. n : i - 1 \in 0 .. n - 1
  BY <1>1
<1>3. \A i \in 0 .. n - 1 : i + 1 \in 1 .. n /\ (i + 1) - 1 = i
  BY <1>1
<1> HIDE DEF n
<1>4. \A i \in 1 .. n : list[i] \in BlocksOf(p, d)
  BY <1>2 DEF BlocksOf, n
<1>5. \A i \in 1 .. n : list[i] \in Block
  BY <1>4, BlockPlace
<1>6. list \in [1 .. n -> Block]
  BY <1>5
<1>7. list \in Seq(Block) /\ Len(list) = n
  BY <1>1, <1>6
<1>8. list # <<>>
  BY <1>1, <1>7
<1>9. Head(list).page = p
  <2>1. 1 \in 1 .. n /\ Head(list) = list[1]
    BY <1>1, <1>7
  <2> QED BY <2>1 DEF ArenaToBlock
<1>10. Range(list) = BlocksOf(p, d)
  <2>1. DOMAIN list = 1 .. n
    OBVIOUS
  <2>2. ASSUME NEW b \in BlocksOf(p, d) PROVE b \in Range(list)
    <3>1. PICK i \in 0 .. n - 1 : b = ArenaToBlock(p, d, i)
      BY <2>2 DEF BlocksOf, n
    <3>2. list[i + 1] = b /\ i + 1 \in DOMAIN list
      BY <1>3, <3>1
    <3> HIDE DEF list
    <3> QED BY <3>2 DEF Range
  <2> HIDE DEF list
  <2> QED BY <1>4, <2>1, <2>2 DEF Range
<1>11. IsInjective(list)
  <2> SUFFICES ASSUME NEW i \in 1 .. n, NEW j \in 1 .. n, list[i] = list[j] PROVE i = j
    BY DEF IsInjective
  <2>1. list[i].ofs = ArenaSize + (i - 1) * d /\ list[j].ofs = ArenaSize + (j - 1) * d
    BY DEF ArenaToBlock
  <2>2. i - 1 \in Nat /\ j - 1 \in Nat
    BY <1>1
  <2>3. (i - 1) * d \in Nat /\ (j - 1) * d \in Nat
    BY <1>1, <2>2, Multiples
  <2> HIDE DEF list
  <2>4. (i - 1) * d = (j - 1) * d
    BY <1>1, <2>1, <2>3
  <2>5. i - 1 = j - 1
    BY <1>1, <2>2, <2>4, Multiples
  <2> QED BY <2>5
<1> QED BY <1>7, <1>8, <1>9, <1>10, <1>11 DEF n

(* A page becomes an arena of D, whose free list was empty. *)
LEMMA MemRefill ==
  ASSUME TypeOK, MemInv, NEW p \in Page, p \in Spare, NEW d \in Desc,
         free_list[d] = <<>>, d \in Drawing', Drawing \subseteq Drawing',
         Spare' = Spare \ {p},
         arena' = [arena EXCEPT ![p] = NewArena(d)],
         NEW list \in Seq(Block), list # <<>>, Head(list).page = p,
         Range(list) = BlocksOf(p, d), IsInjective(list),
         free_list' = [free_list EXCEPT ![d] = list],
         Taken' = Taken
  PROVE  MemInv' /\ Steady
<1> DEFINE a == NewArena(d)
<1>1. arena[p] = NULL
  BY FirstPage
<1>2. d # NULL /\ BlocksPerArena(d) \in Nat \ {0}
  BY Descriptor
<1>3. /\ arena'[p] = a /\ a.desc = d /\ a.free_cnt = BlocksPerArena(d) /\ a # NULL
      /\ \A q \in Page : q # p => arena'[q] = arena[q]
  BY <1>2, RecordTypes, NullApart DEF TypeOK, NewArena
<1>4. /\ free_list'[d] = list
      /\ \A e \in Desc : e # d => free_list'[e] = free_list[e]
  BY DEF TypeOK
<1>5. Small(p)' /\ \A q \in Page : q # p => (Small(q)' <=> Small(q))
  BY <1>2, <1>3 DEF Small
<1>6. Listed(p)' = BlocksOf(p, d)
  BY <1>3, <1>4 DEF Listed
<1>7. ASSUME NEW q \in Page, q # p, Small(q) PROVE Listed(q)' = Listed(q)
  <2>1. arena'[q] = arena[q] /\ arena[q].desc \in Desc
    BY <1>3, <1>7, ListedCount
  <2>2. CASE arena[q].desc = d
    <3>1. Listed(q) = {}
      BY <2>2, RangeEmpty DEF Listed
    <3>2. Listed(q)' = BlocksOf(p, d) \cap BlocksOf(q, d)
      BY <1>4, <2>1, <2>2 DEF Listed
    <3> QED BY <1>7, <3>1, <3>2, OtherArena
  <2>3. CASE arena[q].desc # d
    BY <1>4, <2>1, <2>3 DEF Listed
  <2> QED BY <2>2, <2>3
<1>8. \A b \in Taken : b.page \in Page /\ b.page # p /\ arena'[b.page] = arena[b.page]
  BY <1>1, <1>3 DEF MemInv, TakenInArena, IsBlock
<1>9. TakenInArena'
  <2>1. ASSUME NEW b \in Taken PROVE IsBlock(b)'
    BY <1>8 DEF MemInv, TakenInArena, IsBlock
  <2> QED BY <2>1 DEF TakenInArena
<1>10. ListedInArena'
  <2> SUFFICES ASSUME NEW e \in Desc, NEW b \in Range(free_list'[e])
               PROVE  /\ b.page \in Page /\ arena'[b.page] # NULL
                      /\ arena'[b.page].desc = e /\ b \in BlocksOf(b.page, e)
    BY DEF ListedInArena
  <2>1. CASE e = d
    <3>1. b \in BlocksOf(p, d) /\ b.page = p
      BY <2>1, <1>4, BlockPlace
    <3> QED BY <2>1, <3>1, <1>3
  <2>2. CASE e # d
    <3>1. /\ b.page \in Page /\ arena[b.page] # NULL
          /\ arena[b.page].desc = e /\ b \in BlocksOf(b.page, e)
      BY <2>2, <1>4 DEF MemInv, ListedInArena
    <3> QED BY <1>1, <1>3, <3>1
  <2> QED BY <2>1, <2>2
<1>11. ListsApart'
  <2> SUFFICES ASSUME NEW e \in Desc
               PROVE  IsInjective(free_list'[e]) /\ Range(free_list'[e]) \cap Taken = {}
    BY DEF ListsApart
  <2>1. CASE e = d
    <3>1. \A b \in BlocksOf(p, d) : b.page = p
      BY BlockPlace
    <3> QED BY <2>1, <1>4, <1>8, <3>1
  <2>2. CASE e # d
    BY <2>2, <1>4 DEF MemInv, ListsApart
  <2> QED BY <2>1, <2>2
<1>12. CountExact'
  <2> SUFFICES ASSUME NEW q \in Page, Small(q)'
               PROVE  /\ arena'[q].free_cnt = Cardinality(Listed(q)')
                      /\ BlocksOf(q, arena'[q].desc) \subseteq Listed(q)' \cup Taken'
    BY DEF CountExact
  <2>1. CASE q = p
    BY <2>1, <1>3, <1>6, BlocksCounted
  <2>2. CASE q # p
    BY <2>2, <1>3, <1>5, <1>7 DEF MemInv, CountExact
  <2> QED BY <2>1, <2>2
<1>13. FullLocked'
  <2> SUFFICES ASSUME NEW q \in Page, Small(q)',
                      arena'[q].free_cnt = BlocksPerArena(arena'[q].desc)
               PROVE  /\ arena'[q].desc \in Drawing'
                      /\ free_list'[arena'[q].desc] # <<>>
                      /\ Head(free_list'[arena'[q].desc]).page = q
    BY DEF FullLocked
  <2>1. CASE q = p
    BY <2>1, <1>3, <1>4
  <2>2. CASE q # p
    <3>1. arena'[q] = arena[q] /\ Small(q) /\ arena[q].desc \in Desc
      BY <2>2, <1>3, <1>5, ListedCount
    <3>2. /\ arena[q].desc \in Drawing /\ free_list[arena[q].desc] # <<>>
          /\ Head(free_list[arena[q].desc]).page = q
      BY <3>1 DEF MemInv, FullLocked
    <3> QED BY <1>4, <3>1, <3>2
  <2> QED BY <2>1, <2>2
<1>14. /\ ArenaPages(p)' = {p}
       /\ \A q \in Page : q # p => ArenaPages(q)' = ArenaPages(q)
  BY <1>2, <1>3 DEF ArenaPages
<1>15. PagesFilled'
  <2>1. ASSUME NEW q \in Page, arena'[q] # NULL
        PROVE  ArenaPages(q)' \subseteq Page \ Spare'
    <3>1. CASE q = p
      BY <3>1, <1>14
    <3>2. CASE q # p
      BY <2>1, <3>2, <1>3, <1>14 DEF MemInv, PagesFilled
    <3> QED BY <3>1, <3>2
  <2>2. ASSUME NEW r \in Page \ Spare'
        PROVE  \E q \in Page : arena'[q] # NULL /\ r \in ArenaPages(q)'
    <3>1. CASE r = p
      BY <3>1, <1>3, <1>14
    <3>2. CASE r # p
      <4>1. PICK q \in Page : arena[q] # NULL /\ r \in ArenaPages(q)
        BY <2>2, <3>2 DEF MemInv, PagesFilled
      <4>2. q # p
        BY <1>1, <4>1
      <4> QED BY <1>3, <1>14, <4>1, <4>2
    <3> QED BY <3>1, <3>2
  <2>3. Spare' \subseteq Page
    BY DEF MemInv, PagesFilled
  <2> QED BY <2>1, <2>2, <2>3 DEF PagesFilled
<1>16. PagesApart'
  <2>1. \A q \in Page : q # p /\ arena[q] # NULL => p \notin ArenaPages(q)
    BY DEF MemInv, PagesFilled
  <2> SUFFICES ASSUME NEW q \in Page, NEW r \in Page, arena'[q] # NULL, arena'[r] # NULL,
                      ArenaPages(q)' \cap ArenaPages(r)' # {}
               PROVE  q = r
    BY DEF PagesApart
  <2>2. CASE q = p \/ r = p
    BY <2>1, <2>2, <1>3, <1>14
  <2>3. CASE q # p /\ r # p
    BY <2>3, <1>3, <1>14 DEF MemInv, PagesApart
  <2> QED BY <2>2, <2>3
<1>17. BigCounted'
  BY <1>2, <1>3 DEF MemInv, BigCounted
<1>18. Steady
  BY <1>8 DEF Steady
<1> QED BY <1>9, <1>10, <1>11, <1>12, <1>13, <1>15, <1>16, <1>17, <1>18 DEF MemInv

LEMMA Recounted ==
  ASSUME NEW a \in Arena, NEW n
  PROVE  [a EXCEPT !.free_cnt = n] = [desc |-> a.desc, free_cnt |-> n]
BY DEF Arena

(* A block B of the small arena P passes from the free list to a caller or   *)
(* back; the counter becomes N.                                              *)
LEMMA MemRecount ==
  ASSUME TypeOK, MemInv, NEW p \in Page, Small(p), NEW d \in Desc, arena[p].desc = d,
         NEW b \in BlocksOf(p, d), NEW n \in Nat,
         arena' = [arena EXCEPT ![p] = [desc |-> d, free_cnt |-> n]],
         Spare' = Spare,
         NEW list \in Seq(Block), IsInjective(list),
         free_list' = [free_list EXCEPT ![d] = list],
         Range(list) \ {b} = Range(free_list[d]) \ {b}, Taken' \ {b} = Taken \ {b},
         b \in Range(list) <=> b \notin Taken',
         n = Cardinality(Range(list) \cap BlocksOf(p, d)),
         FullLocked'
  PROVE  MemInv' /\ Steady
<1>1. arena[p] # NULL /\ arena[p] \in Arena /\ d # NULL
  BY FirstPage DEF Small
<1>2. /\ arena'[p] # NULL /\ arena'[p].desc = d /\ arena'[p].free_cnt = n
      /\ \A q \in Page : q # p => arena'[q] = arena[q]
  <2>1. arena'[p] = [desc |-> d, free_cnt |-> n]
        /\ \A q \in Page : q # p => arena'[q] = arena[q]
    BY DEF TypeOK
  <2>2. arena'[p] \in Arena /\ arena'[p].desc = d /\ arena'[p].free_cnt = n
    BY <2>1, RecordTypes
  <2> QED BY <2>1, <2>2, NullApart
<1>3. /\ free_list'[d] = list
      /\ \A e \in Desc : e # d => free_list'[e] = free_list[e]
  BY DEF TypeOK
<1>4. /\ \A q \in Page : arena'[q] # NULL <=> arena[q] # NULL
      /\ \A q \in Page : arena[q] # NULL => arena'[q].desc = arena[q].desc
      /\ \A q \in Page : Small(q)' <=> Small(q)
  BY <1>1, <1>2 DEF Small
<1>5. Listed(p)' = Range(list) \cap BlocksOf(p, d)
  BY <1>2, <1>3 DEF Listed
<1>6. ASSUME NEW q \in Page, q # p, Small(q)
      PROVE  /\ Listed(q)' = Listed(q) /\ arena[q].desc \in Desc
             /\ b \notin BlocksOf(q, arena[q].desc)
  <2>1. arena'[q] = arena[q] /\ arena[q].desc \in Desc
    BY <1>2, <1>6, ListedCount
  <2>2. b \notin BlocksOf(q, arena[q].desc)
    BY <1>6, <2>1, OtherArena
  <2>3. CASE arena[q].desc = d
    BY <1>3, <2>1, <2>2, <2>3 DEF Listed
  <2>4. CASE arena[q].desc # d
    <3>1. free_list'[arena[q].desc] = free_list[arena[q].desc]
      BY <1>3, <2>1, <2>4
    <3> QED BY <2>1, <2>2, <3>1 DEF Listed
  <2> QED BY <2>1, <2>2, <2>3, <2>4
<1>7. b.page = p /\ IsBlock(b) /\ IsBlock(b)'
  BY <1>1, <1>2, BlockPlace DEF IsBlock
<1>8. TakenInArena'
  <2> SUFFICES ASSUME NEW c \in Taken', c # b PROVE IsBlock(c)'
    BY <1>7 DEF TakenInArena
  <2>1. IsBlock(c)
    BY DEF MemInv, TakenInArena
  <2>2. c.page \in Page
    BY <2>1 DEF IsBlock
  <2> QED BY <1>4, <2>1, <2>2 DEF IsBlock
<1>9. ListedInArena'
  <2> SUFFICES ASSUME NEW e \in Desc, NEW c \in Range(free_list'[e])
               PROVE  /\ c.page \in Page /\ arena'[c.page] # NULL
                      /\ arena'[c.page].desc = e /\ c \in BlocksOf(c.page, e)
    BY DEF ListedInArena
  <2>1. CASE e = d /\ c = b
    BY <2>1, <1>2, <1>7
  <2>2. CASE ~(e = d /\ c = b)
    <3>1. c \in Range(free_list[e])
      BY <2>2, <1>3
    <3>2. /\ c.page \in Page /\ arena[c.page] # NULL
          /\ arena[c.page].desc = e /\ c \in BlocksOf(c.page, e)
      BY <3>1 DEF MemInv, ListedInArena
    <3> QED BY <1>4, <3>2
  <2> QED BY <2>1, <2>2
<1>10. ListsApart'
  <2> SUFFICES ASSUME NEW e \in Desc
               PROVE  IsInjective(free_list'[e]) /\ Range(free_list'[e]) \cap Taken' = {}
    BY DEF ListsApart
  <2>1. CASE e = d
    <3>1. Range(free_list[d]) \cap Taken = {}
      BY DEF MemInv, ListsApart
    <3> QED BY <2>1, <3>1, <1>3
  <2>2. CASE e # d
    <3>1. IsInjective(free_list[e]) /\ Range(free_list[e]) \cap Taken = {}
      BY DEF MemInv, ListsApart
    <3>2. b \notin Range(free_list[e])
      BY <2>2, <1>7 DEF MemInv, ListedInArena
    <3> QED BY <2>2, <3>1, <3>2, <1>3
  <2> QED BY <2>1, <2>2
<1>11. CountExact'
  <2> SUFFICES ASSUME NEW q \in Page, Small(q)'
               PROVE  /\ arena'[q].free_cnt = Cardinality(Listed(q)')
                      /\ BlocksOf(q, arena'[q].desc) \subseteq Listed(q)' \cup Taken'
    BY DEF CountExact
  <2>1. CASE q = p
    <3>1. BlocksOf(p, d) \subseteq Listed(p) \cup Taken
      BY DEF MemInv, CountExact
    <3>2. Listed(p) \subseteq Range(free_list[d])
      BY DEF Listed
    <3>3. BlocksOf(p, d) \subseteq Listed(p)' \cup Taken'
      BY <1>5, <3>1, <3>2
    <3> QED BY <2>1, <1>2, <1>5, <3>3
  <2>2. CASE q # p
    <3>1. Small(q) /\ arena'[q] = arena[q]
      BY <2>2, <1>2, <1>4
    <3>2. /\ arena[q].free_cnt = Cardinality(Listed(q))
          /\ BlocksOf(q, arena[q].desc) \subseteq Listed(q) \cup Taken
      BY <3>1 DEF MemInv, CountExact
    <3>3. Listed(q)' = Listed(q) /\ b \notin BlocksOf(q, arena[q].desc)
      BY <2>2, <3>1, <1>6
    <3> QED BY <3>1, <3>2, <3>3
  <2> QED BY <2>1, <2>2
<1>12. \A q \in Page : arena[q] # NULL => ArenaPages(q)' = ArenaPages(q)
  BY <1>1, <1>2 DEF ArenaPages
<1>13. PagesFilled' /\ PagesApart'
  <2>1. PagesFilled'
    <3>1. \A q \in Page : arena'[q] # NULL => ArenaPages(q)' \subseteq Page \ Spare'
      BY <1>4, <1>12 DEF MemInv, PagesFilled
    <3>2. ASSUME NEW r \in Page \ Spare'
          PROVE  \E q \in Page : arena'[q] # NULL /\ r \in ArenaPages(q)'
      <4>1. PICK q \in Page : arena[q] # NULL /\ r \in ArenaPages(q)
        BY <3>2 DEF MemInv, PagesFilled
      <4> QED BY <1>4, <1>12, <4>1
    <3>3. Spare' \subseteq Page
      BY DEF MemInv, PagesFilled
    <3> QED BY <3>1, <3>2, <3>3 DEF PagesFilled
  <2>2. PagesApart'
    <3> SUFFICES ASSUME NEW q \in Page, NEW r \in Page, arena'[q] # NULL, arena'[r] # NULL,
                        ArenaPages(q)' \cap ArenaPages(r)' # {}
                 PROVE  q = r
      BY DEF PagesApart
    <3>1. arena[q] # NULL /\ arena[r] # NULL
      BY <1>4
    <3>2. ArenaPages(q) \cap ArenaPages(r) # {}
      BY <1>12, <3>1
    <3> QED BY <3>1, <3>2 DEF MemInv, PagesApart
  <2> QED BY <2>1, <2>2
<1>14. BigCounted'
  BY <1>1, <1>2 DEF MemInv, BigCounted
<1>15. Steady
  <2> SUFFICES ASSUME NEW c \in Taken \cap Taken'
               PROVE  /\ arena'[c.page].desc = arena[c.page].desc
                      /\ arena[c.page].desc = NULL =>
                           arena'[c.page].free_cnt = arena[c.page].free_cnt
    BY DEF Steady
  <2>1. c.page \in Page /\ arena[c.page] # NULL
    BY DEF MemInv, TakenInArena, IsBlock
  <2> QED BY <1>1, <1>2, <2>1
<1> QED BY <1>8, <1>9, <1>10, <1>11, <1>13, <1>14, <1>15 DEF MemInv

(* Only an arena whose descriptor is locked has all its blocks on the list. *)
LEMMA MemPop ==
  ASSUME TypeOK, MemInv, NEW d \in Desc, free_list[d] # <<>>,
         arena' = [arena EXCEPT ![Head(free_list[d]).page] = Drawn(arena[Head(free_list[d]).page])],
         Spare' = Spare,
         free_list' = [free_list EXCEPT ![d] = Tail(free_list[d])],
         Drawing \ {d} \subseteq Drawing',
         Taken' = Taken \cup {Head(free_list[d])}
  PROVE  MemInv' /\ Steady
<1> DEFINE q == free_list[d]
<1>1. q \in Seq(Block) /\ IsInjective(q)
  BY DEF TypeOK, MemInv, ListsApart
<1>2. PICK b \in Block : b = Head(q)
  BY <1>1, RangeTail
<1>3. /\ b \in Range(q) /\ Range(Tail(q)) = Range(q) \ {b} /\ IsInjective(Tail(q))
      /\ Tail(q) \in Seq(Block)
  BY <1>1, <1>2, RangeTail
<1>4. PICK p \in Page : p = b.page /\ arena[p] # NULL /\ arena[p].desc = d /\ b \in BlocksOf(p, d)
  BY <1>3 DEF MemInv, ListedInArena
<1>5. Small(p) /\ d # NULL
  BY <1>4, NullApart DEF Small
<1>6. /\ Listed(p) = Range(q) \cap BlocksOf(p, d) /\ IsFiniteSet(Listed(p))
      /\ arena[p].free_cnt = Cardinality(Listed(p)) /\ b \in Listed(p)
      /\ arena[p].free_cnt \in Nat /\ arena[p].free_cnt <= BlocksPerArena(d)
  <2>1. Listed(p) = Range(q) \cap BlocksOf(p, d)
    BY <1>4 DEF Listed
  <2>2. arena[p].free_cnt = Cardinality(Listed(p))
    BY <1>5 DEF MemInv, CountExact
  <2> QED BY <1>3, <1>4, <1>5, <2>1, <2>2, ListedCount
<1>7. PICK n \in Nat : n = arena[p].free_cnt - 1 /\ n = Cardinality(Listed(p) \ {b})
  <2>1. Cardinality(Listed(p) \ {b}) = arena[p].free_cnt - 1 /\ IsFiniteSet(Listed(p) \ {b})
    BY <1>6, FS_RemoveElement
  <2>2. Cardinality(Listed(p) \ {b}) \in Nat
    BY <2>1, FS_CardinalityType
  <2> QED BY <2>1, <2>2
<1>8. arena' = [arena EXCEPT ![p] = [desc |-> d, free_cnt |-> n]]
  <2>1. arena' = [arena EXCEPT ![p] = Drawn(arena[p])]
    BY <1>2, <1>4
  <2>2. Drawn(arena[p]) = [desc |-> d, free_cnt |-> n]
    BY <1>4, <1>7, FirstPage, Recounted DEF Drawn
  <2> QED BY <2>1, <2>2
<1>9. PICK list \in Seq(Block) : list = Tail(q)
  BY <1>3
<1>10. FullLocked'
  <2>1. /\ arena'[p].free_cnt = n /\ arena'[p].desc = d
        /\ \A r \in Page : r # p => arena'[r] = arena[r]
    BY <1>8 DEF TypeOK
  <2>2. \A e \in Desc : e # d => free_list'[e] = free_list[e]
    BY DEF TypeOK
  <2> SUFFICES ASSUME NEW r \in Page, Small(r)',
                      arena'[r].free_cnt = BlocksPerArena(arena'[r].desc)
               PROVE  /\ arena'[r].desc \in Drawing'
                      /\ free_list'[arena'[r].desc] # <<>>
                      /\ Head(free_list'[arena'[r].desc]).page = r
    BY DEF FullLocked
  <2>3. r # p
    BY <1>6, <1>7, <2>1, Descriptor
  <2>4. arena'[r] = arena[r] /\ Small(r) /\ arena[r].desc \in Desc
    BY <2>1, <2>3, ListedCount DEF Small
  <2>5. /\ arena[r].desc \in Drawing /\ free_list[arena[r].desc] # <<>>
        /\ Head(free_list[arena[r].desc]).page = r
    BY <2>4 DEF MemInv, FullLocked
  <2>6. arena[r].desc # d
    BY <1>2, <1>4, <2>3, <2>5
  <2> QED BY <2>2, <2>4, <2>5, <2>6
<1>11. b \notin Taken
  BY <1>3 DEF MemInv, ListsApart
<1>12. /\ free_list' = [free_list EXCEPT ![d] = list] /\ IsInjective(list)
       /\ Range(list) = Range(free_list[d]) \ {b} /\ Taken' = Taken \cup {b}
       /\ n = Cardinality(Range(list) \cap BlocksOf(p, d))
  <2>1. Range(list) \cap BlocksOf(p, d) = Listed(p) \ {b}
    BY <1>3, <1>6, <1>9
  <2> QED BY <1>2, <1>3, <1>7, <1>9, <2>1
<1>13. /\ Range(list) \ {b} = Range(free_list[d]) \ {b} /\ Taken' \ {b} = Taken \ {b}
       /\ b \in Range(list) <=> b \notin Taken'
  BY <1>12
<1>14. Spare' = Spare /\ b \in BlocksOf(p, d) /\ arena[p].desc = d /\ IsInjective(list)
  BY <1>4, <1>12
<1> QED BY ONLY TypeOK, MemInv, <1>5, <1>8, <1>10, <1>12, <1>13, <1>14, MemRecount

(* The counter of an arena whose descriptor is not locked is below the       *)
(* number of its blocks, as free() asserts.                                  *)
LEMMA NotFull ==
  ASSUME TypeOK, MemInv, NEW p \in Page, Small(p), arena[p].desc \notin Drawing
  PROVE  /\ arena[p].free_cnt \in Nat
         /\ arena[p].free_cnt < BlocksPerArena(arena[p].desc)
<1>1. arena[p].free_cnt = Cardinality(Listed(p))
  BY DEF MemInv, CountExact
<1>2. /\ Cardinality(Listed(p)) \in Nat /\ arena[p].desc \in Desc
      /\ Cardinality(Listed(p)) <= BlocksPerArena(arena[p].desc)
  BY ListedCount
<1>3. arena[p].free_cnt # BlocksPerArena(arena[p].desc)
  BY DEF MemInv, FullLocked
<1>4. BlocksPerArena(arena[p].desc) \in Nat
  BY <1>2, Descriptor
<1> QED BY <1>1, <1>2, <1>3, <1>4

(* A block of a small arena is given back. *)
LEMMA GivenBack ==
  ASSUME TypeOK, MemInv, NEW b \in Taken, NEW p \in Page, b.page = p, NEW d \in Desc,
         arena[p].desc = d
  PROVE  /\ Small(p) /\ b \in BlocksOf(p, d) /\ b \in Block
         /\ free_list[d] \in Seq(Block) /\ <<b>> \o free_list[d] \in Seq(Block)
         /\ IsInjective(<<b>> \o free_list[d])
         /\ Range(<<b>> \o free_list[d]) = Range(free_list[d]) \cup {b}
         /\ b \notin Range(free_list[d])
         /\ Cardinality(Range(<<b>> \o free_list[d]) \cap BlocksOf(p, d)) = arena[p].free_cnt + 1
<1>1. Small(p) /\ b \in BlocksOf(p, d)
  BY Descriptor DEF MemInv, TakenInArena, IsBlock, Small
<1>2. b \in Block
  BY <1>1, BlockPlace
<1>3. free_list[d] \in Seq(Block) /\ IsInjective(free_list[d]) /\ b \notin Range(free_list[d])
  BY DEF TypeOK, MemInv, ListsApart
<1>4. /\ <<b>> \o free_list[d] \in Seq(Block) /\ IsInjective(<<b>> \o free_list[d])
      /\ Range(<<b>> \o free_list[d]) = Range(free_list[d]) \cup {b}
  BY <1>2, <1>3, RangePush
<1>5. Listed(p) = Range(free_list[d]) \cap BlocksOf(p, d) /\ b \notin Listed(p)
  BY <1>3 DEF Listed
<1>6. Range(<<b>> \o free_list[d]) \cap BlocksOf(p, d) = Listed(p) \cup {b}
  BY <1>1, <1>4, <1>5
<1>7. Cardinality(Listed(p) \cup {b}) = Cardinality(Listed(p)) + 1
  BY <1>1, <1>5, ListedCount, FS_AddElement
<1>8. arena[p].free_cnt = Cardinality(Listed(p))
  BY <1>1 DEF MemInv, CountExact
<1> QED BY <1>1, <1>2, <1>3, <1>4, <1>6, <1>7, <1>8

LEMMA MemPush ==
  ASSUME TypeOK, MemInv, NEW b \in Taken, NEW p \in Page, b.page = p, NEW d \in Desc,
         arena[p].desc = d, d \notin Drawing, Drawing \subseteq Drawing',
         arena[p].free_cnt + 1 # BlocksPerArena(d),
         arena' = [arena EXCEPT ![p] = [arena[p] EXCEPT !.free_cnt = arena[p].free_cnt + 1]],
         Spare' = Spare,
         free_list' = [free_list EXCEPT ![d] = <<b>> \o free_list[d]],
         Taken' = Taken \ {b}
  PROVE  MemInv' /\ Steady
<1>1. /\ Small(p) /\ b \in BlocksOf(p, d) /\ b \in Block
      /\ <<b>> \o free_list[d] \in Seq(Block) /\ IsInjective(<<b>> \o free_list[d])
      /\ Range(<<b>> \o free_list[d]) = Range(free_list[d]) \cup {b}
      /\ Cardinality(Range(<<b>> \o free_list[d]) \cap BlocksOf(p, d)) = arena[p].free_cnt + 1
  BY GivenBack
<1>2. PICK list \in Seq(Block) : list = <<b>> \o free_list[d]
  BY <1>1
<1>3. arena[p].free_cnt \in Nat /\ arena[p] \in Arena
  BY <1>1, FirstPage DEF Small
<1>4. PICK n \in Nat : n = arena[p].free_cnt + 1
  BY <1>3
<1>5. arena' = [arena EXCEPT ![p] = [desc |-> d, free_cnt |-> n]]
  <2>1. [arena[p] EXCEPT !.free_cnt = n] = [desc |-> d, free_cnt |-> n]
    BY <1>3, Recounted
  <2> QED BY <1>4, <2>1
<1>6. FullLocked'
  <2>1. /\ arena'[p].free_cnt = n /\ arena'[p].desc = d
        /\ \A r \in Page : r # p => arena'[r] = arena[r]
    BY <1>5 DEF TypeOK
  <2>2. \A e \in Desc : e # d => free_list'[e] = free_list[e]
    BY DEF TypeOK
  <2> SUFFICES ASSUME NEW r \in Page, Small(r)',
                      arena'[r].free_cnt = BlocksPerArena(arena'[r].desc)
               PROVE  /\ arena'[r].desc \in Drawing'
                      /\ free_list'[arena'[r].desc] # <<>>
                      /\ Head(free_list'[arena'[r].desc]).page = r
    BY DEF FullLocked
  <2>3. r # p
    BY <1>4, <2>1
  <2>4. arena'[r] = arena[r] /\ Small(r) /\ arena[r].desc \in Desc
    BY <2>1, <2>3, ListedCount DEF Small
  <2>5. /\ arena[r].desc \in Drawing /\ free_list[arena[r].desc] # <<>>
        /\ Head(free_list[arena[r].desc]).page = r
    BY <2>4 DEF MemInv, FullLocked
  <2>6. arena[r].desc # d
    BY <2>5
  <2> QED BY <2>2, <2>4, <2>5, <2>6
<1>7. /\ free_list' = [free_list EXCEPT ![d] = list] /\ IsInjective(list)
      /\ Range(list) = Range(free_list[d]) \cup {b}
      /\ n = Cardinality(Range(list) \cap BlocksOf(p, d))
  BY <1>1, <1>2, <1>4
<1>8. /\ Range(list) \ {b} = Range(free_list[d]) \ {b} /\ Taken' \ {b} = Taken \ {b}
      /\ b \in Range(list) <=> b \notin Taken'
  BY <1>7
<1>9. Spare' = Spare /\ arena[p].desc = d
  OBVIOUS
<1> QED BY ONLY TypeOK, MemInv, <1>1, <1>5, <1>6, <1>7, <1>8, <1>9, MemRecount

(* All pages of an arena go back to palloc. *)
LEMMA ArenaGone ==
  ASSUME TypeOK, MemInv, NEW p \in Page, arena[p] # NULL,
         Spare' = Spare \cup ArenaPages(p),
         arena' = [q \in Page |-> IF q \in ArenaPages(p) THEN NULL ELSE arena[q]]
  PROVE  /\ arena'[p] = NULL /\ \A q \in Page : q # p => arena'[q] = arena[q]
         /\ PagesFilled' /\ PagesApart' /\ BigCounted'
<1>1. p \in ArenaPages(p)
  BY FirstPage
<1>2. arena'[p] = NULL
  BY <1>1
<1>3. ASSUME NEW q \in Page, q # p PROVE arena'[q] = arena[q]
  <2>1. CASE q \in ArenaPages(p)
    <3>1. arena[q] = NULL
      <4> SUFFICES ASSUME arena[q] # NULL PROVE FALSE
        OBVIOUS
      <4>1. q \in ArenaPages(q)
        BY FirstPage
      <4> QED BY <1>3, <2>1, <4>1 DEF MemInv, PagesApart
    <3> QED BY <2>1, <3>1
  <2>2. CASE q \notin ArenaPages(p)
    BY <2>2
  <2> QED BY <2>1, <2>2
<1>4. \A q \in Page : q # p => ArenaPages(q)' = ArenaPages(q)
  BY <1>3 DEF ArenaPages
<1>5. PagesFilled'
  <2>1. ASSUME NEW q \in Page, arena'[q] # NULL
        PROVE  ArenaPages(q)' \subseteq Page \ Spare'
    <3>1. q # p /\ arena[q] # NULL /\ ArenaPages(q)' = ArenaPages(q)
      BY <1>2, <1>3, <1>4, <2>1
    <3>2. ArenaPages(q) \subseteq Page \ Spare /\ ArenaPages(q) \cap ArenaPages(p) = {}
      BY <3>1 DEF MemInv, PagesFilled, PagesApart
    <3> QED BY <3>1, <3>2
  <2>2. ASSUME NEW r \in Page \ Spare'
        PROVE  \E q \in Page : arena'[q] # NULL /\ r \in ArenaPages(q)'
    <3>1. PICK q \in Page : arena[q] # NULL /\ r \in ArenaPages(q)
      BY <2>2 DEF MemInv, PagesFilled
    <3>2. q # p
      BY <2>2, <3>1
    <3> QED BY <1>3, <1>4, <3>1, <3>2
  <2>3. Spare' \subseteq Page
    BY DEF MemInv, PagesFilled
  <2> QED BY <2>1, <2>2, <2>3 DEF PagesFilled
<1>6. PagesApart'
  <2> SUFFICES ASSUME NEW q \in Page, NEW r \in Page, arena'[q] # NULL, arena'[r] # NULL,
                      ArenaPages(q)' \cap ArenaPages(r)' # {}
               PROVE  q = r
    BY DEF PagesApart
  <2>1. q # p /\ r # p
    BY <1>2
  <2>2. arena[q] # NULL /\ arena[r] # NULL /\ ArenaPages(q) \cap ArenaPages(r) # {}
    BY <1>3, <1>4, <2>1
  <2> QED BY <2>2 DEF MemInv, PagesApart
<1>7. BigCounted'
  BY <1>2, <1>3 DEF MemInv, BigCounted
<1> QED BY <1>2, <1>3, <1>5, <1>6, <1>7

(* What is taken are blocks. *)
LEMMA TakenBlocks == ASSUME TypeOK, NEW b \in Taken PROVE b \in Block
<1>1. ASSUME NEW h \in in_use PROVE h.block \in Block
  BY <1>1 DEF TypeOK, Held
<1>2. ASSUME NEW t \in Thread, b \in Holding(t) PROVE b \in Block
  <2>1. op[t] # NULL
    BY <1>2 DEF Holding, HoldOf
  <2>2. CASE op[t].at \in {"free", "free_lock"}
    BY <1>2, <2>1, <2>2, CallShapes DEF Holding, HoldOf
  <2>3. CASE op[t].at \notin {"free", "free_lock"}
    <3>1. op[t].old # NULL /\ op[t].at # "give" /\ b = op[t].old.block
      BY <1>2, <2>1, <2>3 DEF Holding, HoldOf
    <3>2. op[t].old \in Held
      BY <2>1, <2>3, <3>1, CallShapes
    <3> QED BY <3>1, <3>2 DEF Held
  <2> QED BY <2>2, <2>3
<1> QED BY <1>1, <1>2 DEF Taken

(* The last block in use of an arena is given back, and the arena goes. *)
LEMMA MemGone ==
  ASSUME TypeOK, MemInv, NEW b \in Taken, NEW p \in Page, b.page = p,
         Spare' = Spare \cup ArenaPages(p),
         arena' = [q \in Page |-> IF q \in ArenaPages(p) THEN NULL ELSE arena[q]],
         Drawing \subseteq Drawing', Taken' = Taken \ {b},
         \A c \in Taken : c.page = p => c = b,
         \A e \in Desc : /\ IsInjective(free_list'[e])
                         /\ Range(free_list'[e]) = {c \in Range(free_list[e]) : c.page # p}
                         /\ e \in Drawing => free_list'[e] = free_list[e]
  PROVE  MemInv' /\ Steady
<1>1. arena[p] # NULL
  BY DEF MemInv, TakenInArena, IsBlock
<1>2. /\ arena'[p] = NULL /\ \A q \in Page : q # p => arena'[q] = arena[q]
      /\ PagesFilled' /\ PagesApart' /\ BigCounted'
  BY <1>1, ArenaGone
<1>3. \A c \in Taken' : c \in Taken /\ c.page \in Page /\ c.page # p /\ arena'[c.page] = arena[c.page]
  BY <1>2 DEF MemInv, TakenInArena, IsBlock
<1>4. TakenInArena'
  <2>1. ASSUME NEW c \in Taken' PROVE IsBlock(c)'
    BY <1>3 DEF MemInv, TakenInArena, IsBlock
  <2> QED BY <2>1 DEF TakenInArena
<1>5. ListedInArena'
  <2> SUFFICES ASSUME NEW e \in Desc, NEW c \in Range(free_list'[e])
               PROVE  /\ c.page \in Page /\ arena'[c.page] # NULL
                      /\ arena'[c.page].desc = e /\ c \in BlocksOf(c.page, e)
    BY DEF ListedInArena
  <2>1. c \in Range(free_list[e]) /\ c.page # p
    OBVIOUS
  <2>2. /\ c.page \in Page /\ arena[c.page] # NULL
        /\ arena[c.page].desc = e /\ c \in BlocksOf(c.page, e)
    BY <2>1 DEF MemInv, ListedInArena
  <2> QED BY <1>2, <2>1, <2>2
<1>6. ListsApart'
  BY DEF MemInv, ListsApart
<1>7. ASSUME NEW q \in Page, Small(q)'
      PROVE  /\ q # p /\ arena'[q] = arena[q] /\ Small(q) /\ arena[q].desc \in Desc
             /\ Listed(q)' = Listed(q)
  <2>1. q # p /\ arena'[q] = arena[q] /\ Small(q)
    BY <1>2, <1>7 DEF Small
  <2>2. arena[q].desc \in Desc
    BY <2>1, ListedCount
  <2>3. \A c \in BlocksOf(q, arena[q].desc) : c.page # p
    BY <2>1, <2>2, BlockPlace
  <2>4. Listed(q)' = Range(free_list'[arena[q].desc]) \cap BlocksOf(q, arena[q].desc)
    BY <2>1 DEF Listed
  <2>5. Range(free_list'[arena[q].desc]) = {c \in Range(free_list[arena[q].desc]) : c.page # p}
    BY <2>2
  <2>6. Listed(q)' = Listed(q)
    BY <2>3, <2>4, <2>5 DEF Listed
  <2> QED BY <2>1, <2>2, <2>6
<1>8. CountExact'
  <2> SUFFICES ASSUME NEW q \in Page, Small(q)'
               PROVE  /\ arena'[q].free_cnt = Cardinality(Listed(q)')
                      /\ BlocksOf(q, arena'[q].desc) \subseteq Listed(q)' \cup Taken'
    BY DEF CountExact
  <2>1. /\ q # p /\ arena'[q] = arena[q] /\ Small(q) /\ arena[q].desc \in Desc
        /\ Listed(q)' = Listed(q)
    BY <1>7
  <2>2. /\ arena[q].free_cnt = Cardinality(Listed(q))
        /\ BlocksOf(q, arena[q].desc) \subseteq Listed(q) \cup Taken
    BY <2>1 DEF MemInv, CountExact
  <2>3. b \notin BlocksOf(q, arena[q].desc)
    BY <2>1, BlockPlace
  <2> QED BY <2>1, <2>2, <2>3
<1>9. FullLocked'
  <2> SUFFICES ASSUME NEW q \in Page, Small(q)',
                      arena'[q].free_cnt = BlocksPerArena(arena'[q].desc)
               PROVE  /\ arena'[q].desc \in Drawing'
                      /\ free_list'[arena'[q].desc] # <<>>
                      /\ Head(free_list'[arena'[q].desc]).page = q
    BY DEF FullLocked
  <2>1. arena'[q] = arena[q] /\ Small(q) /\ arena[q].desc \in Desc
    BY <1>7
  <2>2. /\ arena[q].desc \in Drawing /\ free_list[arena[q].desc] # <<>>
        /\ Head(free_list[arena[q].desc]).page = q
    BY <2>1 DEF MemInv, FullLocked
  <2>3. free_list'[arena[q].desc] = free_list[arena[q].desc]
    BY <2>1, <2>2
  <2> QED BY <2>1, <2>2, <2>3
<1>10. Steady
  BY <1>3 DEF Steady
<1> QED BY <1>2, <1>4, <1>5, <1>6, <1>8, <1>9, <1>10 DEF MemInv

(* A big block's pages go back. *)
LEMMA MemFreeBig ==
  ASSUME TypeOK, MemInv, NEW b \in Taken, NEW p \in Page, b.page = p, arena[p].desc = NULL,
         Spare' = Spare \cup ArenaPages(p),
         arena' = [q \in Page |-> IF q \in ArenaPages(p) THEN NULL ELSE arena[q]],
         UNCHANGED free_list, Drawing \subseteq Drawing',
         Taken' = Taken \ {b}
  PROVE  MemInv' /\ Steady
<1>3. ASSUME NEW c \in Taken, c.page = p PROVE c = b
  <2>1. c.ofs = ArenaSize /\ b.ofs = ArenaSize
    BY <1>3 DEF MemInv, TakenInArena, IsBlock
  <2>2. c \in Block /\ b \in Block
    BY TakenBlocks
  <2> QED BY <1>3, <2>1, <2>2 DEF Block
<1>4. ASSUME NEW e \in Desc
      PROVE  /\ IsInjective(free_list'[e])
             /\ Range(free_list'[e]) = {c \in Range(free_list[e]) : c.page # p}
             /\ e \in Drawing => free_list'[e] = free_list[e]
  <2>1. \A c \in Range(free_list[e]) : c.page # p
    BY Descriptor DEF MemInv, ListedInArena
  <2>2. IsInjective(free_list[e])
    BY DEF MemInv, ListsApart
  <2> QED BY <2>1, <2>2
<1> QED BY <1>3, <1>4, MemGone

(* A small arena's last block in use comes back: its blocks leave the free   *)
(* list and its page goes back.                                              *)
LEMMA MemFreeLast ==
  ASSUME TypeOK, MemInv, NEW b \in Taken, NEW p \in Page, b.page = p, NEW d \in Desc,
         arena[p].desc = d, d \notin Drawing, Drawing \subseteq Drawing',
         arena[p].free_cnt + 1 = BlocksPerArena(d),
         Spare' = Spare \cup ArenaPages(p),
         arena' = [q \in Page |-> IF q \in ArenaPages(p) THEN NULL ELSE arena[q]],
         free_list' = [free_list EXCEPT ![d] = Unlisted(<<b>> \o free_list[d], BlocksOf(p, d))],
         Taken' = Taken \ {b}
  PROVE  MemInv' /\ Steady /\ free_list' \in [Desc -> Seq(Block)]
<1> DEFINE list == <<b>> \o free_list[d]
           rest == Unlisted(list, BlocksOf(p, d))
<1>1. /\ Small(p) /\ b \in BlocksOf(p, d)
      /\ list \in Seq(Block) /\ IsInjective(list)
      /\ Range(list) = Range(free_list[d]) \cup {b}
      /\ Cardinality(Range(list) \cap BlocksOf(p, d)) = BlocksPerArena(d)
  BY GivenBack
<1>2. /\ rest \in Seq(Block) /\ IsInjective(rest)
      /\ Range(rest) = Range(list) \ BlocksOf(p, d)
  <2> HIDE DEF list
  <2> QED BY <1>1, UnlistedStays
<1> HIDE DEF list, rest
<1>3. /\ free_list' \in [Desc -> Seq(Block)]
      /\ free_list'[d] = rest /\ \A e \in Desc : e # d => free_list'[e] = free_list[e]
  BY <1>2 DEF TypeOK, list, rest
<1>4. BlocksOf(p, d) \subseteq Range(list)
  <2>1. IsFiniteSet(BlocksOf(p, d)) /\ Cardinality(BlocksOf(p, d)) = BlocksPerArena(d)
    BY BlocksCounted
  <2>2. Range(list) \cap BlocksOf(p, d) \in SUBSET BlocksOf(p, d)
    OBVIOUS
  <2>3. BlocksOf(p, d) = Range(list) \cap BlocksOf(p, d)
    BY <1>1, <2>1, <2>2, FS_Subset
  <2> QED BY <2>3
<1>5. ASSUME NEW c \in Taken, c.page = p PROVE c = b
  <2>1. c \in BlocksOf(p, d)
    BY <1>5, Descriptor DEF MemInv, TakenInArena, IsBlock
  <2>2. c \notin Range(free_list[d])
    BY DEF MemInv, ListsApart
  <2> QED BY <1>1, <1>4, <2>1, <2>2
<1>6. ASSUME NEW e \in Desc
      PROVE  /\ IsInjective(free_list'[e])
             /\ Range(free_list'[e]) = {c \in Range(free_list[e]) : c.page # p}
             /\ e \in Drawing => free_list'[e] = free_list[e]
  <2>1. CASE e = d
    <3>1. \A c \in Range(free_list[d]) : c.page = p <=> c \in BlocksOf(p, d)
      BY BlockPlace DEF MemInv, ListedInArena
    <3>2. Range(rest) = {c \in Range(free_list[d]) : c.page # p}
      BY <1>1, <1>2, <3>1
    <3> QED BY <2>1, <1>2, <1>3, <3>2
  <2>2. CASE e # d
    <3>1. \A c \in Range(free_list[e]) : c.page # p
      BY <2>2 DEF MemInv, ListedInArena
    <3>2. IsInjective(free_list[e])
      BY DEF MemInv, ListsApart
    <3> QED BY <2>2, <1>3, <3>1, <3>2
  <2> QED BY <2>1, <2>2
<1>7. /\ Spare' = Spare \cup ArenaPages(p)
      /\ arena' = [q \in Page |-> IF q \in ArenaPages(p) THEN NULL ELSE arena[q]]
      /\ b \in Taken /\ b.page = p /\ Drawing \subseteq Drawing' /\ Taken' = Taken \ {b}
  OBVIOUS
<1>8. MemInv' /\ Steady
  BY ONLY TypeOK, MemInv, <1>5, <1>6, <1>7, MemGone
<1> QED BY <1>3, <1>8

-----------------------------------------------------------------------------
(* The actions.  A descriptor that a waiting free() has noted stays right.   *)
LEMMA NotedStep ==
  ASSUME FreeNoted, Steady, NEW t \in Thread, \A u \in Thread : u # t => op'[u] = op[u],
         \/ op'[t] = NULL \/ op'[t].at # "free_lock"
         \/ arena'[op'[t].block.page].desc = op'[t].desc
  PROVE  FreeNoted'
<1> SUFFICES ASSUME NEW u \in Thread, u # t, op'[u] # NULL, op'[u].at = "free_lock"
             PROVE  arena'[op'[u].block.page].desc = op'[u].desc
  BY DEF FreeNoted
<1>1. op'[u] = op[u]
  OBVIOUS
<1>2. op[u].block \in Holding(u) /\ op[u].block \in Holding(u)'
  BY <1>1 DEF Holding, HoldOf
<1>3. op[u].block \in Taken \cap Taken'
  BY <1>2 DEF Taken
<1>4. arena[op[u].block.page].desc = op[u].desc
  BY <1>1 DEF FreeNoted
<1> QED BY <1>1, <1>3, <1>4 DEF Steady

(* The calls of the others and their free lists stay, so that their calls of *)
(* palloc are still the right ones.                                          *)
LEMMA LinkStep ==
  ASSUME TypeOK, LockKnown, CallsLinked, NEW t \in Thread,
         \A u \in Thread : u # t => op'[u] = op[u],
         \A u \in Thread : u # t => palloc'[u] = palloc[u],
         \A d \in Desc : lock[d] = t \/ lock[d] = NULL \/ free_list'[d] = free_list[d],
         Linked(t)'
  PROVE  CallsLinked'
<1> SUFFICES ASSUME NEW u \in Thread, u # t PROVE Linked(u)'
  BY DEF CallsLinked
<1>1. op'[u] = op[u] /\ palloc'[u] = palloc[u] /\ Linked(u)
  BY DEF CallsLinked
<1>2. ASSUME op[u] # NULL, op[u].at = "malloc" PROVE free_list'[op[u].desc] = free_list[op[u].desc]
  <2>1. op[u].desc \in Desc /\ op[u].desc # NULL
    BY <1>2, CallShapes, NullApart
  <2>2. lock[op[u].desc] = u /\ u # NULL
    BY <1>2, <2>1, NullApart DEF LockKnown, HasLock
  <2> QED BY <2>1, <2>2
<1> QED BY <1>1, <1>2 DEF Linked

LEMMA HeldBlock ==
  ASSUME TypeOK, NEW h \in in_use
  PROVE  h \in Held /\ h.block \in Block /\ h.size \in Nat /\ h # NULL /\ h.block \in Taken
<1>1. h \in Held
  BY DEF TypeOK
<1> QED BY <1>1, NullApart DEF Held, Taken

(* A call starts and holds OLD, which its caller held. *)
LEMMA StartHold ==
  ASSUME TypeOK, UsedOnce, HeldOnce, NEW t \in Thread, op[t] = NULL,
         NEW c \in Call, op' = [op EXCEPT ![t] = c], NEW old \in in_use \cup {NULL},
         HoldOf(c) = IF old = NULL THEN {} ELSE {old.block}, in_use' = in_use \ {old}
  PROVE  /\ op' \in [Thread -> Call \cup {NULL}] /\ op'[t] = c
         /\ \A u \in Thread : u # t => op'[u] = op[u]
         /\ UsedOnce' /\ HeldOnce' /\ Taken' = Taken
<1>1. /\ op' \in [Thread -> Call \cup {NULL}] /\ op'[t] = c
      /\ \A u \in Thread : u # t => op'[u] = op[u] /\ Holding(u)' = Holding(u)
      /\ Holding(t)' = IF old = NULL THEN {} ELSE {old.block}
  BY OpStep
<1>2. Holding(t) = {}
  BY DEF Holding, HoldOf
<1>3. UsedOnce'
  BY DEF UsedOnce
<1>4. \A h \in in_use' : h.block \notin Holding(t)'
  <2>1. CASE old = NULL
    BY <1>1, <2>1
  <2>2. CASE old # NULL
    BY <1>1, <2>2 DEF UsedOnce
  <2> QED BY <2>1, <2>2
<1>5. Own(t)' = Own(t)
  <2>1. CASE old = NULL
    <3>1. in_use' = in_use
      BY <2>1, NullApart DEF TypeOK
    <3> QED BY <1>1, <1>2, <2>1, <3>1 DEF Own
  <2>2. CASE old # NULL
    BY <1>1, <1>2, <2>2 DEF Own
  <2> QED BY <2>1, <2>2
<1>6. HeldOnce' /\ Taken' = Taken
  <2>1. HeldOnce' /\ Taken' = (Taken \ Own(t)) \cup Own(t)'
    BY <1>1, <1>4, <1>5, HoldStep
  <2> QED BY <1>5, <2>1, OwnTaken
<1> QED BY <1>1, <1>3, <1>6

(* malloc() returns: the call ends, or goes on to free what realloc() moved. *)
LEMMA ReturnsStep ==
  ASSUME TypeOK, NEW t \in Thread, NEW block, NEW size, NEW old \in Held \cup {NULL},
         Returns(t, block, size, old)
  PROVE  /\ op' \in [Thread -> Call \cup {NULL}] /\ (op'[t] = NULL \/ op'[t].at = "free")
         /\ \A u \in Thread : u # t => op'[u] = op[u] /\ Holding(u)' = Holding(u)
         /\ Holding(t)' = IF old = NULL THEN {} ELSE {old.block}
<1>1. CASE old = NULL
  <2>1. op' = [op EXCEPT ![t] = NULL]
    BY <1>1 DEF Returns
  <2>2. HoldOf(NULL) = {}
    BY DEF HoldOf
  <2>3. PICK c \in Call \cup {NULL} : c = NULL
    OBVIOUS
  <2> QED BY <1>1, <2>1, <2>2, <2>3, OpStep
<1>2. CASE old # NULL
  <2>1. old.block \in Block
    BY <1>2 DEF Held
  <2>2. [at |-> "free", block |-> old.block] \in Call
    BY <2>1, RecordTypes
  <2>3. PICK c \in Call : c = [at |-> "free", block |-> old.block]
    BY <2>2
  <2>4. c.at = "free" /\ c # NULL /\ c.block = old.block
    BY <2>3, NullApart
  <2>5. op' = [op EXCEPT ![t] = c]
    BY <1>2, <2>3 DEF Returns
  <2>6. HoldOf(c) = {old.block}
    BY <2>4 DEF HoldOf
  <2> QED BY <1>2, <2>4, <2>5, <2>6, OpStep
<1> QED BY <1>1, <1>2

LEMMA ReturnHold ==
  ASSUME TypeOK, UsedOnce, HeldOnce, NEW t \in Thread, NEW b \in Block, b \notin Taken,
         NEW asked \in Nat, NEW old \in Held \cup {NULL},
         Holding(t) = IF old = NULL THEN {} ELSE {old.block}, Returns(t, b, asked, old)
  PROVE  /\ op' \in [Thread -> Call \cup {NULL}] /\ (op'[t] = NULL \/ op'[t].at = "free")
         /\ \A u \in Thread : u # t => op'[u] = op[u]
         /\ in_use' \subseteq Held /\ UsedOnce' /\ HeldOnce' /\ Taken' = Taken \cup {b}
<1>1. /\ op' \in [Thread -> Call \cup {NULL}] /\ (op'[t] = NULL \/ op'[t].at = "free")
      /\ \A u \in Thread : u # t => op'[u] = op[u] /\ Holding(u)' = Holding(u)
      /\ Holding(t)' = Holding(t)
  BY ReturnsStep
<1>2. PICK k \in Held : k = [block |-> b, size |-> asked] /\ k.block = b
  BY RecordTypes
<1>3. in_use' = in_use \cup {k}
  <2>1. in_use' = (in_use \ {old}) \cup {k}
    BY <1>2 DEF Returns
  <2>2. old \notin in_use
    <3>1. CASE old = NULL
      BY <3>1, NullApart DEF TypeOK
    <3>2. CASE old # NULL
      BY <3>2 DEF HeldOnce
    <3> QED BY <3>1, <3>2
  <2> QED BY <2>1, <2>2
<1>4. \A h \in in_use : h.block # b
  BY HeldBlock
<1>5. UsedOnce'
  BY <1>2, <1>3, <1>4 DEF UsedOnce
<1>6. \A h \in in_use' : h.block \notin Holding(t)'
  <2>1. b \notin Holding(t)
    BY DEF Taken
  <2> QED BY <1>1, <1>2, <1>3, <2>1 DEF HeldOnce
<1>7. Own(t)' = Own(t) \cup {b}
  BY <1>1, <1>2, <1>3 DEF Own
<1>8. HeldOnce' /\ Taken' = Taken \cup {b}
  <2>1. HeldOnce' /\ Taken' = (Taken \ Own(t)) \cup Own(t)'
    BY <1>1, <1>6, <1>7, HoldStep
  <2> QED BY <1>7, <2>1, OwnTaken
<1>9. in_use' \subseteq Held
  BY <1>3 DEF TypeOK
<1> QED BY <1>1, <1>5, <1>8, <1>9

(* A call of free() goes on as C, or ends, and its block is no one's. *)
LEMMA GiveUp ==
  ASSUME TypeOK, UsedOnce, HeldOnce, NEW t \in Thread, NEW b, Holding(t) = {b},
         NEW c \in Call \cup {NULL}, HoldOf(c) = {},
         op' = [op EXCEPT ![t] = c], UNCHANGED in_use
  PROVE  /\ op' \in [Thread -> Call \cup {NULL}] /\ op'[t] = c
         /\ \A u \in Thread : u # t => op'[u] = op[u]
         /\ UsedOnce' /\ HeldOnce' /\ Taken' = Taken \ {b}
<1>1. /\ op' \in [Thread -> Call \cup {NULL}] /\ op'[t] = c
      /\ \A u \in Thread : u # t => op'[u] = op[u] /\ Holding(u)' = Holding(u)
      /\ Holding(t)' = {}
  BY OpStep
<1>2. Own(t)' = Own(t) \ {b} /\ b \in Own(t)
  <2>1. \A h \in in_use : h.block # b
    BY DEF HeldOnce
  <2> QED BY <1>1, <2>1 DEF Own
<1>3. HeldOnce' /\ Taken' = (Taken \ Own(t)) \cup Own(t)'
  BY <1>1, <1>2, HoldStep
<1>4. Taken' = Taken \ {b}
  BY <1>2, <1>3, OwnTaken
<1>5. UsedOnce'
  BY DEF UsedOnce
<1> QED BY <1>1, <1>3, <1>4, <1>5

(* The calls of malloc.c stand still. *)
LEMMA CallsSame ==
  ASSUME UsedOnce, HeldOnce, LockHeld, LockKnown, UNCHANGED <<lock, op, in_use>>
  PROVE  UsedOnce' /\ HeldOnce' /\ LockHeld' /\ LockKnown' /\ Taken' = Taken
         /\ Drawing' = Drawing
BY DEF UsedOnce, HeldOnce, LockHeld, LockKnown, Taken, Holding, Drawing

-----------------------------------------------------------------------------
(* malloc() of a big block finds pages. *)
LEMMA BigInv ==
  ASSUME MInv, ~lost', NEW t \in Thread, Idle(t), NEW size \in Nat, NEW asked \in Nat,
         NEW old \in in_use \cup {NULL}, MallocBig(t, size, asked, old)
  PROVE  MInv' /\ Steady
<1>0. /\ TypeOK /\ Sound /\ UsedOnce /\ HeldOnce /\ LockHeld /\ LockKnown
      /\ MemInv /\ FreeNoted /\ PageInv /\ CallsLinked
  BY DEF MInv, CallInv
<1>1. op[t] = NULL /\ palloc[t] = NULL
  BY <1>0 DEF Idle, CallsLinked, Linked
<1>2. PICK cnt \in Nat : cnt = BigPages(size)
  BY BigPagesType
<1>3. old \in Held \cup {NULL}
  BY <1>0, HeldBlock
<1>4. PICK c \in Call : c = [at |-> "big", size |-> asked, old |-> old]
  BY <1>3, RecordTypes
<1>5. c.at = "big" /\ c.old = old /\ c # NULL
  BY <1>4, NullApart
<1>6. /\ PallocGet(t, cnt) /\ op' = [op EXCEPT ![t] = c] /\ in_use' = in_use \ {old}
      /\ UNCHANGED <<arena, free_list, lock, panicked>>
  BY <1>2, <1>4 DEF MallocBig
<1>7. /\ PageInv' /\ Spare' = Spare /\ UNCHANGED <<free_pages, lost>>
      /\ palloc' \in [Thread -> PageCall \cup {NULL}]
      /\ palloc'[t] # NULL /\ Marks(palloc'[t])
      /\ \A u \in Thread : u # t => palloc'[u] = palloc[u]
  BY <1>0, <1>1, <1>6, GetStep
<1>8. HoldOf(c) = IF old = NULL THEN {} ELSE {old.block}
  BY <1>5 DEF HoldOf
<1>9. /\ op' \in [Thread -> Call \cup {NULL}] /\ op'[t] = c
      /\ \A u \in Thread : u # t => op'[u] = op[u]
      /\ UsedOnce' /\ HeldOnce' /\ Taken' = Taken
  BY <1>0, <1>1, <1>6, <1>8, StartHold
<1>10. LockHeld' /\ LockKnown' /\ Drawing \subseteq Drawing'
  <2>1. ~HasLock(op[t]) /\ ~HasLock(op'[t]) /\ ~InMalloc(op[t])
    BY <1>1, <1>5, <1>9 DEF HasLock, InMalloc
  <2> QED BY <1>0, <1>6, <1>9, <2>1, LockKept, DrawingKept
<1>11. MemInv' /\ Steady
  BY <1>0, <1>6, <1>7, <1>9, <1>10, MemSame
<1>12. TypeOK' /\ Sound'
  BY <1>0, <1>6, <1>7, <1>9 DEF TypeOK, Sound
<1>13. FreeNoted'
  BY <1>0, <1>5, <1>9, <1>11, NotedStep
<1>14. CallsLinked'
  <2>1. Linked(t)'
    BY <1>5, <1>7, <1>9 DEF Linked
  <2> QED BY <1>0, <1>6, <1>7, <1>9, <2>1, LinkStep
<1> QED BY <1>7, <1>9, <1>10, <1>11, <1>12, <1>13, <1>14 DEF MInv, CallInv

(* malloc() of a small block takes the lock. *)
LEMMA LockInv ==
  ASSUME MInv, ~lost', NEW t \in Thread, Idle(t), NEW size \in Nat, NEW asked \in Nat,
         NEW old \in in_use \cup {NULL}, MallocLock(t, size, asked, old)
  PROVE  MInv' /\ Steady
<1>0. /\ TypeOK /\ Sound /\ UsedOnce /\ HeldOnce /\ LockHeld /\ LockKnown
      /\ MemInv /\ FreeNoted /\ PageInv /\ CallsLinked
  BY DEF MInv, CallInv
<1>1. op[t] = NULL /\ palloc[t] = NULL
  BY <1>0 DEF Idle, CallsLinked, Linked
<1>2. PICK d \in Desc : d = DescFor(size)
  BY DescriptorFits DEF MallocLock
<1>3. old \in Held \cup {NULL}
  BY <1>0, HeldBlock
<1>4. PICK c \in Call : c = [at |-> "malloc", desc |-> d, size |-> asked, old |-> old]
  BY <1>3, RecordTypes
<1>5. c.at = "malloc" /\ c.desc = d /\ c.old = old /\ c # NULL /\ d # NULL
  BY <1>4, NullApart
<1>6. /\ lock[d] = NULL /\ lock' = [lock EXCEPT ![d] = t] /\ op' = [op EXCEPT ![t] = c]
      /\ in_use' = in_use \ {old}
      /\ UNCHANGED <<pageVars, arena, free_list, panicked>>
  BY <1>2, <1>4 DEF MallocLock
<1>7. PageInv' /\ Spare' = Spare /\ UNCHANGED <<free_pages, lost, palloc>>
  BY <1>0, <1>6, PagesSame DEF pageVars
<1>8. HoldOf(c) = IF old = NULL THEN {} ELSE {old.block}
  BY <1>5 DEF HoldOf
<1>9. /\ op' \in [Thread -> Call \cup {NULL}] /\ op'[t] = c
      /\ \A u \in Thread : u # t => op'[u] = op[u]
      /\ UsedOnce' /\ HeldOnce' /\ Taken' = Taken
  BY <1>0, <1>1, <1>6, <1>8, StartHold
<1>10. /\ LockHeld' /\ LockKnown' /\ lock' \in [Desc -> Thread \cup {NULL}]
       /\ Drawing \subseteq Drawing'
  <2>1. ~HasLock(op[t]) /\ HasLock(op'[t]) /\ op'[t].desc = d /\ ~InMalloc(op[t])
    BY <1>1, <1>5, <1>9 DEF HasLock, InMalloc
  <2>2. LockHeld' /\ LockKnown' /\ lock' \in [Desc -> Thread \cup {NULL}]
    BY <1>0, <1>6, <1>9, <2>1, LockTaken
  <2>3. \A e \in Desc : lock[e] # NULL /\ lock[e] # t => lock'[e] = lock[e]
    BY <1>0, <1>6 DEF TypeOK
  <2> QED BY <1>0, <1>9, <2>1, <2>2, <2>3, DrawingKept
<1>11. MemInv' /\ Steady
  BY <1>0, <1>6, <1>7, <1>9, <1>10, MemSame
<1>12. TypeOK' /\ Sound'
  BY <1>0, <1>6, <1>7, <1>9, <1>10 DEF TypeOK, Sound
<1>13. FreeNoted'
  BY <1>0, <1>5, <1>9, <1>11, NotedStep
<1>14. CallsLinked'
  <2>1. Linked(t)'
    BY <1>1, <1>7 DEF Linked
  <2> QED BY <1>0, <1>6, <1>7, <1>9, <2>1, LinkStep
<1> QED BY <1>7, <1>9, <1>10, <1>11, <1>12, <1>13, <1>14 DEF MInv, CallInv

(* A caller of malloc(), calloc() or realloc(). *)
LEMMA MallocCallInv ==
  ASSUME MInv, ~lost', NEW t \in Thread, Idle(t), NEW size \in Nat, NEW asked \in Nat,
         NEW old \in in_use \cup {NULL}, MallocCall(t, size, asked, old)
  PROVE  MInv' /\ Steady
BY BigInv, LockInv DEF MallocCall

(* The call that is drawing from a descriptor, and one for a big block. *)
LEMMA AtMalloc ==
  ASSUME MInv, NEW t \in Thread, op[t] # NULL, op[t].at = "malloc"
  PROVE  /\ HasLock(op[t])
         /\ op[t].desc \in Desc /\ op[t].size \in Nat /\ op[t].old \in Held \cup {NULL}
         /\ lock[op[t].desc] = t /\ lock[op[t].desc] # NULL /\ op[t].desc \in Drawing
         /\ Holding(t) = IF op[t].old = NULL THEN {} ELSE {op[t].old.block}
<1>1. TypeOK /\ LockKnown
  BY DEF MInv, CallInv
<1>2. op[t].desc \in Desc /\ op[t].size \in Nat /\ op[t].old \in Held \cup {NULL}
  BY <1>1, CallShapes
<1>3. HasLock(op[t])
  BY <1>2, NullApart DEF HasLock
<1>4. lock[op[t].desc] = t /\ t # NULL
  BY <1>1, <1>3, NullApart DEF LockKnown
<1> QED BY <1>2, <1>3, <1>4 DEF Holding, HoldOf, Drawing

LEMMA AtBig ==
  ASSUME TypeOK, NEW t \in Thread, op[t] # NULL, op[t].at = "big"
  PROVE  /\ op[t].size \in Nat /\ op[t].old \in Held \cup {NULL}
         /\ ~HasLock(op[t]) /\ ~InMalloc(op[t])
         /\ Holding(t) = IF op[t].old = NULL THEN {} ELSE {op[t].old.block}
BY CallShapes DEF Holding, HoldOf, HasLock, InMalloc

(* The pages of a big block have come. *)
LEMMA GotBigInv ==
  ASSUME MInv, ~lost', NEW t \in Thread, MallocGotBig(t)
  PROVE  MInv' /\ Steady
<1>0. /\ TypeOK /\ Sound /\ UsedOnce /\ HeldOnce /\ LockHeld /\ LockKnown
      /\ MemInv /\ FreeNoted /\ PageInv /\ CallsLinked
  BY DEF MInv, CallInv
<1>1. PallocGot(t) /\ op[t].at = "big" /\ UNCHANGED <<free_list, lock, panicked>>
  BY DEF MallocGotBig
<1>2. palloc[t] # NULL
  BY <1>1 DEF PallocGot, InPalloc
<1>3. op[t] # NULL
  BY <1>0, <1>2 DEF CallsLinked, Linked
<1>4. PICK p \in Page : p = palloc[t].page
  BY <1>0, <1>1, GotStep
<1>5. PICK cnt \in Nat : cnt = palloc[t].cnt /\ cnt > 0
  BY <1>0, <1>1, GotStep
<1>6. /\ Pages(p, cnt) \subseteq Spare
      /\ PageInv' /\ Spare' = Spare \ Pages(p, cnt)
      /\ free_pages' \subseteq Page /\ lost' \in BOOLEAN
      /\ palloc' \in [Thread -> PageCall \cup {NULL}]
      /\ palloc'[t] = NULL /\ \A u \in Thread : u # t => palloc'[u] = palloc[u]
  BY <1>0, <1>1, <1>4, <1>5, GotStep
<1>7. PICK old \in Held \cup {NULL} : old = op[t].old
  BY <1>0, <1>1, <1>3, AtBig
<1>8. PICK asked \in Nat : asked = op[t].size
  BY <1>0, <1>1, <1>3, AtBig
<1>9. PICK new \in Block : new = [page |-> p, ofs |-> ArenaSize]
  BY GeometryAssumption DEF Block
<1>10. /\ arena' = [arena EXCEPT ![p] = [desc |-> NULL, free_cnt |-> cnt]]
       /\ Returns(t, new, asked, old)
  BY <1>4, <1>5, <1>7, <1>8, <1>9 DEF MallocGotBig
<1>11. new \notin Taken
  <2>1. p \in Pages(p, cnt)
    BY <1>5, GeometryAssumption DEF Page, Pages
  <2>2. arena[p] = NULL
    BY <1>0, <1>6, <2>1, FirstPage
  <2> QED BY <1>0, <1>9, <2>2 DEF MemInv, TakenInArena, IsBlock
<1>12. /\ ~HasLock(op[t]) /\ ~InMalloc(op[t])
       /\ Holding(t) = IF old = NULL THEN {} ELSE {old.block}
  BY <1>0, <1>1, <1>3, <1>7, AtBig
<1>13. /\ op' \in [Thread -> Call \cup {NULL}] /\ (op'[t] = NULL \/ op'[t].at = "free")
       /\ \A u \in Thread : u # t => op'[u] = op[u]
       /\ in_use' \subseteq Held /\ UsedOnce' /\ HeldOnce' /\ Taken' = Taken \cup {new}
  BY <1>0, <1>10, <1>11, <1>12, ReturnHold
<1>14. LockHeld' /\ LockKnown' /\ Drawing \subseteq Drawing'
  <2>1. ~HasLock(op'[t])
    BY <1>13 DEF HasLock
  <2> QED BY <1>0, <1>1, <1>12, <1>13, <2>1, LockKept, DrawingKept
<1>15. MemInv' /\ Steady
  BY <1>0, <1>1, <1>5, <1>6, <1>9, <1>10, <1>13, <1>14, MemBig
<1>16. TypeOK' /\ Sound'
  <2>1. arena' \in [Page -> Arena \cup {NULL}]
    BY <1>0, <1>10, RecordTypes DEF TypeOK
  <2> QED BY <1>0, <1>1, <1>6, <1>13, <2>1 DEF TypeOK, Sound
<1>17. FreeNoted'
  BY <1>0, <1>13, <1>15, NotedStep
<1>18. CallsLinked'
  <2>1. Linked(t)'
    BY <1>6 DEF Linked
  <2> QED BY <1>0, <1>1, <1>6, <1>13, <2>1, LinkStep
<1> QED BY <1>6, <1>13, <1>14, <1>15, <1>16, <1>17, <1>18 DEF MInv, CallInv

(* The free list is empty: a page is found. *)
LEMMA GetInv ==
  ASSUME MInv, ~lost', NEW t \in Thread, MallocGet(t)
  PROVE  MInv' /\ Steady
<1>0. /\ TypeOK /\ Sound /\ UsedOnce /\ HeldOnce /\ LockHeld /\ LockKnown
      /\ MemInv /\ FreeNoted /\ PageInv /\ CallsLinked
  BY DEF MInv, CallInv
<1>1. /\ op[t] # NULL /\ op[t].at = "malloc" /\ palloc[t] = NULL
      /\ free_list[op[t].desc] = <<>> /\ PallocGet(t, 1)
      /\ UNCHANGED <<arena, free_list, lock, op, in_use, panicked>>
  BY DEF MallocGet, At
<1>2. PICK one \in Nat : one = 1
  OBVIOUS
<1>3. /\ PageInv' /\ Spare' = Spare /\ UNCHANGED <<free_pages, lost>>
      /\ palloc' \in [Thread -> PageCall \cup {NULL}]
      /\ palloc'[t] # NULL /\ Marks(palloc'[t]) /\ palloc'[t].cnt = 1
      /\ \A u \in Thread : u # t => palloc'[u] = palloc[u]
  BY <1>0, <1>1, <1>2, GetStep
<1>4. /\ UsedOnce' /\ HeldOnce' /\ LockHeld' /\ LockKnown' /\ Taken' = Taken
      /\ Drawing' = Drawing
  BY <1>0, <1>1, CallsSame
<1>5. MemInv' /\ Steady
  BY <1>0, <1>1, <1>3, <1>4, MemSame
<1>6. TypeOK' /\ Sound' /\ FreeNoted'
  BY <1>0, <1>1, <1>3 DEF TypeOK, Sound, FreeNoted
<1>7. CallsLinked'
  <2>1. Linked(t)'
    BY <1>1, <1>3 DEF Linked
  <2> QED BY <1>0, <1>1, <1>3, <2>1, LinkStep
<1> QED BY <1>3, <1>4, <1>5, <1>6, <1>7 DEF MInv, CallInv

(* The page has come and becomes an arena. *)
LEMMA RefillInv ==
  ASSUME MInv, ~lost', NEW t \in Thread, MallocRefill(t)
  PROVE  MInv' /\ Steady
<1>0. /\ TypeOK /\ Sound /\ UsedOnce /\ HeldOnce /\ LockHeld /\ LockKnown
      /\ MemInv /\ FreeNoted /\ PageInv /\ CallsLinked
  BY DEF MInv, CallInv
<1>1. PallocGot(t) /\ op[t].at = "malloc" /\ UNCHANGED <<lock, op, in_use, panicked>>
  BY DEF MallocRefill
<1>2. palloc[t] # NULL /\ Marks(palloc[t])
  BY <1>0, <1>1, GotStep
<1>3. op[t] # NULL /\ free_list[op[t].desc] = <<>> /\ palloc[t].cnt = 1
  BY <1>0, <1>1, <1>2 DEF CallsLinked, Linked
<1>4. PICK d \in Desc : d = op[t].desc /\ d \in Drawing /\ lock[d] = t
  BY <1>1, <1>3, AtMalloc
<1>5. PICK p \in Page : p = palloc[t].page
  BY <1>0, <1>1, GotStep
<1>6. Pages(p, palloc[t].cnt) = {p}
  <2>1. p \in Nat /\ 1 \in Nat
    BY GeometryAssumption DEF Page
  <2> QED BY <1>3, <2>1, PageRow
<1>7. /\ p \in Spare /\ PageInv' /\ Spare' = Spare \ {p}
      /\ free_pages' \subseteq Page /\ lost' \in BOOLEAN
      /\ palloc' \in [Thread -> PageCall \cup {NULL}]
      /\ palloc'[t] = NULL /\ \A u \in Thread : u # t => palloc'[u] = palloc[u]
  BY <1>0, <1>1, <1>5, <1>6, GotStep
<1>8. PICK list \in Seq(Block) :
        /\ list = [i \in 1 .. BlocksPerArena(d) |-> ArenaToBlock(p, d, i - 1)]
        /\ list # <<>> /\ Head(list).page = p
        /\ Range(list) = BlocksOf(p, d) /\ IsInjective(list)
  BY NewList
<1>9. /\ arena' = [arena EXCEPT ![p] = NewArena(d)]
      /\ free_list' = [free_list EXCEPT ![d] = list]
  BY <1>4, <1>5, <1>8 DEF MallocRefill
<1>10. /\ UsedOnce' /\ HeldOnce' /\ LockHeld' /\ LockKnown' /\ Taken' = Taken
       /\ Drawing' = Drawing
  BY <1>0, <1>1, CallsSame
<1>11. MemInv' /\ Steady
  BY <1>0, <1>3, <1>4, <1>7, <1>8, <1>9, <1>10, MemRefill
<1>12. TypeOK' /\ Sound'
  <2>1. NewArena(d) \in Arena
    BY Descriptor, RecordTypes DEF NewArena
  <2>2. arena' \in [Page -> Arena \cup {NULL}]
    BY <1>0, <1>9, <2>1 DEF TypeOK
  <2>3. free_list' \in [Desc -> Seq(Block)]
    BY <1>0, <1>9 DEF TypeOK
  <2> QED BY <1>0, <1>1, <1>7, <2>2, <2>3 DEF TypeOK, Sound
<1>13. FreeNoted'
  <2>1. \A u \in Thread : op'[u] = op[u]
    BY <1>1
  <2>2. op'[t].at # "free_lock"
    BY <1>1
  <2> QED BY <1>0, <1>11, <2>1, <2>2, NotedStep
<1>14. CallsLinked'
  <2>1. Linked(t)'
    BY <1>7 DEF Linked
  <2>2. \A e \in Desc : lock[e] = t \/ lock[e] = NULL \/ free_list'[e] = free_list[e]
    BY <1>0, <1>4, <1>9 DEF TypeOK
  <2> QED BY <1>0, <1>1, <1>7, <2>1, <2>2, LinkStep
<1> QED BY <1>7, <1>10, <1>11, <1>12, <1>13, <1>14 DEF MInv, CallInv

(* There is no page. *)
LEMMA FailsInv ==
  ASSUME MInv, ~lost', NEW t \in Thread, MallocFails(t)
  PROVE  MInv' /\ Steady
<1>0. /\ TypeOK /\ Sound /\ UsedOnce /\ HeldOnce /\ LockHeld /\ LockKnown
      /\ MemInv /\ FreeNoted /\ PageInv /\ CallsLinked
  BY DEF MInv, CallInv
<1>1. op[t] # NULL /\ op[t].at = "malloc" /\ palloc[t] = NULL
  BY DEF MallocFails, At
<1>2. PICK d \in Desc : d = op[t].desc
  BY <1>1, AtMalloc
<1>3. PICK old \in Held \cup {NULL} : old = op[t].old
  BY <1>1, AtMalloc
<1>4. /\ free_list[d] = <<>> /\ lock' = [lock EXCEPT ![d] = NULL]
      /\ op' = [op EXCEPT ![t] = NULL] /\ in_use' = in_use \cup ({old} \ {NULL})
      /\ UNCHANGED <<pageVars, arena, free_list, panicked>>
  BY <1>2, <1>3 DEF MallocFails
<1>5. PageInv' /\ Spare' = Spare /\ UNCHANGED <<free_pages, lost, palloc>>
  BY <1>0, <1>4, PagesSame DEF pageVars
<1>6. /\ op' \in [Thread -> Call \cup {NULL}] /\ op'[t] = NULL
      /\ \A u \in Thread : u # t => op'[u] = op[u] /\ Holding(u)' = Holding(u)
      /\ Holding(t)' = {}
  <2>1. PICK c \in Call \cup {NULL} : c = NULL
    OBVIOUS
  <2>2. HoldOf(NULL) = {}
    BY DEF HoldOf
  <2> QED BY <1>0, <1>4, <2>1, <2>2, OpStep
<1>7. HasLock(op[t]) /\ Holding(t) = IF old = NULL THEN {} ELSE {old.block}
  BY <1>1, <1>3, AtMalloc
<1>8. UsedOnce'
  <2>1. CASE old = NULL
    BY <1>0, <1>4, <2>1 DEF UsedOnce
  <2>2. CASE old # NULL
    <3>1. \A h \in in_use : h.block # old.block
      BY <1>0, <1>7, <2>2 DEF HeldOnce
    <3> QED BY <1>0, <1>4, <2>2, <3>1 DEF UsedOnce
  <2> QED BY <2>1, <2>2
<1>9. Own(t)' = Own(t)
  <2>1. CASE old = NULL
    BY <1>4, <1>6, <1>7, <2>1 DEF Own
  <2>2. CASE old # NULL
    BY <1>4, <1>6, <1>7, <2>2 DEF Own
  <2> QED BY <2>1, <2>2
<1>10. HeldOnce' /\ Taken' = Taken
  <2>1. HeldOnce' /\ Taken' = (Taken \ Own(t)) \cup Own(t)'
    BY <1>0, <1>6, <1>9, HoldStep
  <2> QED BY <1>9, <2>1, OwnTaken
<1>11. LockHeld' /\ LockKnown' /\ lock' \in [Desc -> Thread \cup {NULL}]
  <2>1. ~HasLock(op'[t])
    BY <1>6 DEF HasLock
  <2> QED BY <1>0, <1>2, <1>4, <1>6, <1>7, <2>1, LockGiven
<1>12. MemInv' /\ Steady
  <2>1. Drawing \ {d} \subseteq Drawing'
    BY <1>0, <1>2, <1>4, <1>6, DrawingOthers
  <2> QED BY <1>0, <1>4, <1>5, <1>10, <2>1, MemSame
<1>13. TypeOK' /\ Sound'
  BY <1>0, <1>4, <1>5, <1>6, <1>11 DEF TypeOK, Sound
<1>14. FreeNoted'
  BY <1>0, <1>6, <1>12, NotedStep
<1>15. CallsLinked'
  <2>1. Linked(t)'
    BY <1>1, <1>5 DEF Linked
  <2> QED BY <1>0, <1>4, <1>5, <1>6, <2>1, LinkStep
<1> QED BY <1>5, <1>8, <1>10, <1>11, <1>12, <1>13, <1>14, <1>15 DEF MInv, CallInv

(* An arena with a listed block has a free one to count down. *)
LEMMA ListedPositive ==
  ASSUME TypeOK, MemInv, NEW d \in Desc, NEW b \in Range(free_list[d])
  PROVE  arena[b.page].free_cnt \in Nat \ {0}
<1>1. PICK p \in Page : /\ p = b.page /\ arena[p] # NULL /\ arena[p].desc = d
                        /\ b \in BlocksOf(p, d)
  BY DEF MemInv, ListedInArena
<1>2. Small(p) /\ b \in Listed(p)
  BY <1>1, Descriptor DEF Small, Listed
<1>3. arena[p].free_cnt = Cardinality(Listed(p)) /\ IsFiniteSet(Listed(p))
      /\ Cardinality(Listed(p)) \in Nat
  BY <1>2, ListedCount DEF MemInv, CountExact
<1>4. Cardinality(Listed(p)) # 0
  BY <1>2, <1>3, FS_EmptySet
<1> QED BY <1>1, <1>3, <1>4

(* block_to_arena() accepts the blocks of arenas. *)
LEMMA BlockAccepted ==
  ASSUME TypeOK, NEW b, IsBlock(b)
  PROVE  BlockOK(b)
<1>1. b.page \in Page /\ arena[b.page] # NULL
  BY DEF IsBlock
<1>2. CASE arena[b.page].desc = NULL
  BY <1>1, <1>2 DEF IsBlock, BlockOK
<1>3. CASE arena[b.page].desc # NULL
  <2>1. arena[b.page].desc \in Desc
    BY <1>1, <1>3 DEF TypeOK, Arena
  <2>2. b \in BlocksOf(b.page, arena[b.page].desc)
    BY <1>3 DEF IsBlock
  <2>3. (b.ofs - ArenaSize) % arena[b.page].desc = 0
    BY <1>1, <2>1, <2>2, BlockPlace
  <2> QED BY <1>1, <1>3, <2>3 DEF BlockOK
<1> QED BY <1>2, <1>3

(* A block is popped. *)
LEMMA PopInv ==
  ASSUME MInv, ~lost', NEW t \in Thread, MallocPop(t)
  PROVE  MInv' /\ Steady
<1>0. /\ TypeOK /\ Sound /\ UsedOnce /\ HeldOnce /\ LockHeld /\ LockKnown
      /\ MemInv /\ FreeNoted /\ PageInv /\ CallsLinked
  BY DEF MInv, CallInv
<1>1. op[t] # NULL /\ op[t].at = "malloc" /\ palloc[t] = NULL
  BY DEF MallocPop, At
<1>2. PICK d \in Desc : d = op[t].desc /\ lock[d] = t
  BY <1>1, AtMalloc
<1>3. PICK old \in Held \cup {NULL} : old = op[t].old
  BY <1>1, AtMalloc
<1>4. PICK asked \in Nat : asked = op[t].size
  BY <1>1, AtMalloc
<1>5. free_list[d] # <<>> /\ free_list[d] \in Seq(Block) /\ IsInjective(free_list[d])
  BY <1>0, <1>2 DEF MallocPop, TypeOK, MemInv, ListsApart
<1>6. PICK b \in Block : b = Head(free_list[d]) /\ b \in Range(free_list[d])
  BY <1>5, RangeTail
<1>7. b.page \in Page /\ arena[b.page] \in Arena /\ arena[b.page].desc = d /\ b \notin Taken
      /\ IsBlock(b)
  <2>1. /\ b.page \in Page /\ arena[b.page] # NULL /\ arena[b.page].desc = d
        /\ b \in BlocksOf(b.page, d)
    BY <1>0, <1>6 DEF MemInv, ListedInArena
  <2>2. b \notin Taken
    BY <1>0, <1>6 DEF MemInv, ListsApart
  <2> QED BY <1>0, <2>1, <2>2, FirstPage, Descriptor DEF IsBlock
<1>8. BlockOK(b)
  BY <1>0, <1>7, BlockAccepted
<1>9. /\ free_list' = [free_list EXCEPT ![d] = Tail(free_list[d])]
      /\ arena' = [arena EXCEPT ![b.page] = Drawn(arena[b.page])]
      /\ lock' = [lock EXCEPT ![d] = NULL]
      /\ Returns(t, b, asked, old)
      /\ UNCHANGED <<pageVars, panicked>>
  BY <1>2, <1>3, <1>4, <1>6, <1>8 DEF MallocPop
<1>10. PageInv' /\ Spare' = Spare /\ UNCHANGED <<free_pages, lost, palloc>>
  BY <1>0, <1>9, PagesSame DEF pageVars
<1>11. HasLock(op[t]) /\ Holding(t) = IF old = NULL THEN {} ELSE {old.block}
  BY <1>1, <1>3, AtMalloc
<1>12. /\ op' \in [Thread -> Call \cup {NULL}] /\ (op'[t] = NULL \/ op'[t].at = "free")
       /\ \A u \in Thread : u # t => op'[u] = op[u]
       /\ in_use' \subseteq Held /\ UsedOnce' /\ HeldOnce' /\ Taken' = Taken \cup {b}
  BY <1>0, <1>7, <1>9, <1>11, ReturnHold
<1>13. LockHeld' /\ LockKnown' /\ lock' \in [Desc -> Thread \cup {NULL}]
  <2>1. ~HasLock(op'[t])
    BY <1>12 DEF HasLock
  <2> QED BY <1>0, <1>2, <1>9, <1>11, <1>12, <2>1, LockGiven
<1>14. MemInv' /\ Steady
  <2>1. Drawing \ {d} \subseteq Drawing'
    BY <1>0, <1>2, <1>9, <1>12, DrawingOthers
  <2> QED BY <1>0, <1>5, <1>6, <1>9, <1>10, <1>12, <2>1, MemPop
<1>15. TypeOK' /\ Sound'
  <2>1. Tail(free_list[d]) \in Seq(Block)
    BY <1>5
  <2>2. free_list' \in [Desc -> Seq(Block)]
    BY <1>0, <1>9, <2>1 DEF TypeOK
  <2>3. Drawn(arena[b.page]) \in Arena
    <3>1. arena[b.page].free_cnt \in Nat \ {0}
      BY <1>0, <1>6, <1>7, ListedPositive
    <3>2. Drawn(arena[b.page]) = [desc |-> d, free_cnt |-> arena[b.page].free_cnt - 1]
      BY <1>7, Recounted DEF Drawn
    <3>3. arena[b.page].free_cnt - 1 \in Nat
      BY <3>1
    <3> QED BY <3>2, <3>3, RecordTypes
  <2>4. arena' \in [Page -> Arena \cup {NULL}]
    BY <1>0, <1>9, <2>3 DEF TypeOK
  <2> QED BY <1>0, <1>9, <1>10, <1>12, <1>13, <2>2, <2>4 DEF TypeOK, Sound
<1>16. FreeNoted'
  BY <1>0, <1>12, <1>14, NotedStep
<1>17. CallsLinked'
  <2>1. Linked(t)'
    BY <1>1, <1>10 DEF Linked
  <2>2. \A e \in Desc : lock[e] = t \/ lock[e] = NULL \/ free_list'[e] = free_list[e]
    BY <1>0, <1>2, <1>9 DEF TypeOK
  <2> QED BY <1>0, <1>10, <1>12, <2>1, <2>2, LinkStep
<1> QED BY <1>10, <1>12, <1>13, <1>14, <1>15, <1>16, <1>17 DEF MInv, CallInv

(* free() and realloc() to nothing. *)
LEMMA FreeInv ==
  ASSUME MInv, ~lost', NEW t \in Thread, NEW h \in in_use, Free(t, h)
  PROVE  MInv' /\ Steady
<1>0. /\ TypeOK /\ Sound /\ UsedOnce /\ HeldOnce /\ LockHeld /\ LockKnown
      /\ MemInv /\ FreeNoted /\ PageInv /\ CallsLinked
  BY DEF MInv, CallInv
<1>1. h.block \in Block /\ h # NULL
  BY <1>0, HeldBlock
<1>2. PICK c \in Call : c = [at |-> "free", block |-> h.block]
  BY <1>1, RecordTypes
<1>3. c.at = "free" /\ c # NULL /\ c.block = h.block
  BY <1>2, NullApart
<1>4. /\ op[t] = NULL /\ in_use' = in_use \ {h} /\ op' = [op EXCEPT ![t] = c]
      /\ UNCHANGED <<pageVars, arena, free_list, lock, panicked>>
  BY <1>2 DEF Free, Idle
<1>5. palloc[t] = NULL
  BY <1>0, <1>4 DEF CallsLinked, Linked
<1>6. PageInv' /\ Spare' = Spare /\ UNCHANGED <<free_pages, lost, palloc>>
  BY <1>0, <1>4, PagesSame DEF pageVars
<1>7. PICK old \in in_use \cup {NULL} : old = h
  OBVIOUS
<1>8. HoldOf(c) = IF old = NULL THEN {} ELSE {old.block}
  BY <1>1, <1>3, <1>7 DEF HoldOf
<1>9. /\ op' \in [Thread -> Call \cup {NULL}] /\ op'[t] = c
      /\ \A u \in Thread : u # t => op'[u] = op[u]
      /\ UsedOnce' /\ HeldOnce' /\ Taken' = Taken
  BY <1>0, <1>4, <1>7, <1>8, StartHold
<1>10. LockHeld' /\ LockKnown' /\ Drawing \subseteq Drawing'
  <2>1. ~HasLock(op[t]) /\ ~HasLock(op'[t]) /\ ~InMalloc(op[t])
    BY <1>3, <1>4, <1>9 DEF HasLock, InMalloc
  <2> QED BY <1>0, <1>4, <1>9, <2>1, LockKept, DrawingKept
<1>11. MemInv' /\ Steady
  BY <1>0, <1>4, <1>6, <1>9, <1>10, MemSame
<1>12. TypeOK' /\ Sound'
  BY <1>0, <1>4, <1>6, <1>9 DEF TypeOK, Sound
<1>13. FreeNoted'
  BY <1>0, <1>3, <1>9, <1>11, NotedStep
<1>14. CallsLinked'
  <2>1. Linked(t)'
    BY <1>5, <1>6 DEF Linked
  <2> QED BY <1>0, <1>4, <1>6, <1>9, <2>1, LinkStep
<1> QED BY <1>6, <1>9, <1>10, <1>11, <1>12, <1>13, <1>14 DEF MInv, CallInv

(* free() gives the pages of an arena back, which are marked as used; this   *)
(* wipes its header.                                                         *)
LEMMA PagesGiven ==
  ASSUME TypeOK, MemInv, PageInv, NEW t \in Thread, palloc[t] = NULL, NEW p \in Page,
         arena[p] # NULL, NEW cnt \in Nat, cnt > 0, Pages(p, cnt) = ArenaPages(p),
         PallocFree(t, p, cnt)
  PROVE  /\ PageInv' /\ Spare' = Spare \cup ArenaPages(p) /\ UNCHANGED <<free_pages, lost>>
         /\ palloc' \in [Thread -> PageCall \cup {NULL}]
         /\ palloc'[t] # NULL /\ ~Marks(palloc'[t])
         /\ \A u \in Thread : u # t => palloc'[u] = palloc[u]
         /\ arena' = [q \in Page |-> IF q \in ArenaPages(p) THEN NULL ELSE arena[q]]
         /\ arena' \in [Page -> Arena \cup {NULL}]
<1>1. Pages(p, cnt) \subseteq Page \ Spare
  BY DEF MemInv, PagesFilled
<1>2. /\ PageInv' /\ Spare' = Spare \cup Pages(p, cnt) /\ UNCHANGED <<free_pages, lost>>
      /\ palloc' \in [Thread -> PageCall \cup {NULL}]
      /\ palloc'[t] # NULL /\ ~Marks(palloc'[t])
      /\ \A u \in Thread : u # t => palloc'[u] = palloc[u]
  BY <1>1, GiveStep
<1>3. arena' = [q \in Page |-> IF q \in ArenaPages(p) THEN NULL ELSE arena[q]]
  BY DEF PallocFree
<1>4. arena' \in [Page -> Arena \cup {NULL}]
  BY <1>3 DEF TypeOK
<1> QED BY <1>2, <1>3, <1>4

(* The ASSERT of palloc_free_multiple() holds of an arena's pages. *)
LEMMA ArenaMarked ==
  ASSUME MemInv, NEW p \in Page, arena[p] # NULL, NEW cnt, Pages(p, cnt) = ArenaPages(p)
  PROVE  BitmapAll(p, cnt)
<1>1. Pages(p, cnt) \cap Spare = {}
  BY DEF MemInv, PagesFilled
<1> QED BY <1>1 DEF Spare, BitmapAll

(* free() looks at the arena. *)
LEMMA FreeArenaInv ==
  ASSUME MInv, ~lost', NEW t \in Thread, FreeArena(t)
  PROVE  MInv' /\ Steady
<1>0. /\ TypeOK /\ Sound /\ UsedOnce /\ HeldOnce /\ LockHeld /\ LockKnown
      /\ MemInv /\ FreeNoted /\ PageInv /\ CallsLinked
  BY DEF MInv, CallInv
<1>1. op[t] # NULL /\ op[t].at = "free" /\ palloc[t] = NULL
  BY DEF FreeArena, At
<1>2. PICK b \in Block : b = op[t].block
  BY <1>0, <1>1, CallShapes
<1>3. Holding(t) = {b} /\ b \in Taken
  BY <1>1, <1>2 DEF Holding, HoldOf, Taken
<1>4. IsBlock(b)
  BY <1>0, <1>3 DEF MemInv, TakenInArena
<1>5. BlockOK(b)
  BY <1>0, <1>4, BlockAccepted
<1>6. PICK p \in Page : p = b.page /\ arena[p] # NULL
  BY <1>4 DEF IsBlock
<1>7. ~HasLock(op[t]) /\ ~InMalloc(op[t])
  BY <1>1 DEF HasLock, InMalloc
<1>8. CASE arena[p].desc # NULL
  <2>1. PICK d \in Desc : d = arena[p].desc
    BY <1>0, <1>6, <1>8, FirstPage
  <2>2. PICK c \in Call : c = [at |-> "free_lock", desc |-> d, block |-> b]
    BY RecordTypes
  <2>3. c.at = "free_lock" /\ c.desc = d /\ c.block = b /\ c # NULL
    BY <2>2, NullApart
  <2>4. /\ op' = [op EXCEPT ![t] = c]
        /\ UNCHANGED <<pageVars, arena, free_list, lock, in_use, panicked>>
    BY <1>2, <1>5, <1>6, <1>8, <2>1, <2>2 DEF FreeArena
  <2>5. PageInv' /\ Spare' = Spare /\ UNCHANGED <<free_pages, lost, palloc>>
    BY <1>0, <2>4, PagesSame DEF pageVars
  <2>6. /\ op' \in [Thread -> Call \cup {NULL}] /\ op'[t] = c
        /\ \A u \in Thread : u # t => op'[u] = op[u] /\ Holding(u)' = Holding(u)
        /\ Holding(t)' = {b}
    <3>1. HoldOf(c) = {b}
      BY <2>3 DEF HoldOf
    <3> QED BY <1>0, <2>4, <3>1, OpStep
  <2>7. UsedOnce' /\ \A h \in in_use' : h.block \notin Holding(t)'
    BY <1>0, <1>3, <2>4, <2>6 DEF UsedOnce, HeldOnce
  <2>8. Own(t)' = Own(t)
    BY <1>3, <2>4, <2>6 DEF Own
  <2>9. HeldOnce' /\ Taken' = Taken
    <3>1. HeldOnce' /\ Taken' = (Taken \ Own(t)) \cup Own(t)'
      BY <1>0, <2>6, <2>7, <2>8, HoldStep
    <3> QED BY <2>8, <3>1, OwnTaken
  <2>10. LockHeld' /\ LockKnown' /\ Drawing \subseteq Drawing'
    <3>1. ~HasLock(op'[t])
      BY <2>3, <2>6 DEF HasLock
    <3> QED BY <1>0, <1>7, <2>4, <2>6, <3>1, LockKept, DrawingKept
  <2>11. MemInv' /\ Steady
    BY <1>0, <2>4, <2>5, <2>9, <2>10, MemSame
  <2>12. TypeOK' /\ Sound'
    BY <1>0, <2>4, <2>5, <2>6 DEF TypeOK, Sound
  <2>13. FreeNoted'
    <3>1. arena'[op'[t].block.page].desc = op'[t].desc
      BY <1>6, <2>1, <2>3, <2>4, <2>6
    <3> QED BY <1>0, <2>6, <2>11, <3>1, NotedStep
  <2>14. CallsLinked'
    <3>1. Linked(t)'
      BY <1>1, <2>5 DEF Linked
    <3> QED BY <1>0, <2>4, <2>5, <2>6, <3>1, LinkStep
  <2> QED BY <2>5, <2>7, <2>9, <2>10, <2>11, <2>12, <2>13, <2>14 DEF MInv, CallInv
<1>9. CASE arena[p].desc = NULL
  <2>1. PICK cnt \in Nat : cnt = arena[p].free_cnt /\ cnt > 0
    BY <1>0, <1>6, <1>9, FirstPage DEF MemInv, BigCounted
  <2>2. Pages(p, cnt) = ArenaPages(p)
    BY <1>9, <2>1 DEF ArenaPages
  <2>3. PICK c \in Call : c = [at |-> "give", desc |-> NULL]
    BY RecordTypes
  <2>4. c.at = "give" /\ c.desc = NULL /\ c # NULL
    BY <2>3, NullApart
  <2>5. /\ PallocFree(t, p, cnt) /\ op' = [op EXCEPT ![t] = c]
        /\ UNCHANGED <<free_list, lock, in_use, panicked>>
    <3>1. BitmapAll(p, cnt)
      BY <1>0, <1>6, <2>2, ArenaMarked
    <3> QED BY <1>2, <1>5, <1>6, <1>9, <2>1, <2>3, <3>1 DEF FreeArena
  <2>6. /\ PageInv' /\ Spare' = Spare \cup ArenaPages(p) /\ UNCHANGED <<free_pages, lost>>
        /\ palloc' \in [Thread -> PageCall \cup {NULL}]
        /\ palloc'[t] # NULL /\ ~Marks(palloc'[t])
        /\ \A u \in Thread : u # t => palloc'[u] = palloc[u]
        /\ arena' = [q \in Page |-> IF q \in ArenaPages(p) THEN NULL ELSE arena[q]]
        /\ arena' \in [Page -> Arena \cup {NULL}]
    BY <1>0, <1>1, <1>6, <2>1, <2>2, <2>5, PagesGiven
  <2>7. /\ op' \in [Thread -> Call \cup {NULL}] /\ op'[t] = c
        /\ \A u \in Thread : u # t => op'[u] = op[u]
        /\ UsedOnce' /\ HeldOnce' /\ Taken' = Taken \ {b}
    <3>1. HoldOf(c) = {}
      BY <2>4 DEF HoldOf
    <3> QED BY <1>0, <1>3, <2>5, <3>1, GiveUp
  <2>8. LockHeld' /\ LockKnown' /\ Drawing \subseteq Drawing'
    <3>1. ~HasLock(op'[t])
      BY <2>4, <2>7 DEF HasLock
    <3> QED BY <1>0, <1>7, <2>5, <2>7, <3>1, LockKept, DrawingKept
  <2>9. MemInv' /\ Steady
    BY <1>0, <1>3, <1>6, <1>9, <2>5, <2>6, <2>7, <2>8, MemFreeBig
  <2>10. TypeOK' /\ Sound'
    BY <1>0, <2>5, <2>6, <2>7 DEF TypeOK, Sound
  <2>11. FreeNoted'
    BY <1>0, <2>4, <2>7, <2>9, NotedStep
  <2>12. CallsLinked'
    <3>1. Linked(t)'
      BY <2>4, <2>6, <2>7 DEF Linked
    <3> QED BY <1>0, <2>5, <2>6, <2>7, <3>1, LinkStep
  <2> QED BY <2>6, <2>7, <2>8, <2>9, <2>10, <2>11, <2>12 DEF MInv, CallInv
<1> QED BY <1>8, <1>9

(* free() with the lock. *)
LEMMA FreeBlockInv ==
  ASSUME MInv, ~lost', NEW t \in Thread, FreeBlock(t)
  PROVE  MInv' /\ Steady
<1>0. /\ TypeOK /\ Sound /\ UsedOnce /\ HeldOnce /\ LockHeld /\ LockKnown
      /\ MemInv /\ FreeNoted /\ PageInv /\ CallsLinked
  BY DEF MInv, CallInv
<1>1. op[t] # NULL /\ op[t].at = "free_lock" /\ palloc[t] = NULL
  BY DEF FreeBlock, At
<1>2. PICK b \in Block : b = op[t].block
  BY <1>0, <1>1, CallShapes
<1>3. Holding(t) = {b} /\ b \in Taken
  BY <1>1, <1>2 DEF Holding, HoldOf, Taken
<1>4. PICK p \in Page : p = b.page /\ arena[p] # NULL
  BY <1>0, <1>3 DEF MemInv, TakenInArena, IsBlock
<1>5. PICK d \in Desc : d = op[t].desc /\ arena[p].desc = d
  BY <1>0, <1>1, <1>2, <1>4, CallShapes DEF FreeNoted
<1>6. lock[d] = NULL /\ d \notin Drawing /\ Small(p) /\ arena[p] \in Arena /\ d # NULL
  BY <1>0, <1>4, <1>5, Descriptor, FirstPage DEF FreeBlock, Small, Drawing
<1>7. arena[p].free_cnt \in Nat /\ arena[p].free_cnt < BlocksPerArena(d) /\ BlocksPerArena(d) \in Nat
  BY <1>0, <1>5, <1>6, NotFull, Descriptor
<1>8. Emptied(d, arena[p].free_cnt + 1) <=> arena[p].free_cnt + 1 = BlocksPerArena(d)
  BY <1>7 DEF Emptied
<1>9. ~HasLock(op[t]) /\ ~InMalloc(op[t])
  BY <1>1 DEF HasLock, InMalloc
<1>10. CASE arena[p].free_cnt + 1 # BlocksPerArena(d)
  <2>1. /\ free_list' = [free_list EXCEPT ![d] = <<b>> \o free_list[d]]
        /\ arena' = [arena EXCEPT ![p] = [arena[p] EXCEPT !.free_cnt = arena[p].free_cnt + 1]]
        /\ op' = [op EXCEPT ![t] = NULL]
        /\ UNCHANGED <<pageVars, lock, in_use, panicked>>
    BY <1>2, <1>4, <1>5, <1>8, <1>10 DEF FreeBlock
  <2>2. PageInv' /\ Spare' = Spare /\ UNCHANGED <<free_pages, lost, palloc>>
    BY <1>0, <2>1, PagesSame DEF pageVars
  <2>3. /\ op' \in [Thread -> Call \cup {NULL}] /\ op'[t] = NULL
        /\ \A u \in Thread : u # t => op'[u] = op[u]
        /\ UsedOnce' /\ HeldOnce' /\ Taken' = Taken \ {b}
    <3>1. PICK c \in Call \cup {NULL} : c = NULL
      OBVIOUS
    <3>2. HoldOf(c) = {}
      BY <3>1 DEF HoldOf
    <3> QED BY <1>0, <1>3, <2>1, <3>1, <3>2, GiveUp
  <2>4. LockHeld' /\ LockKnown' /\ Drawing \subseteq Drawing'
    <3>1. ~HasLock(op'[t])
      BY <2>3 DEF HasLock
    <3> QED BY <1>0, <1>9, <2>1, <2>3, <3>1, LockKept, DrawingKept
  <2>5. MemInv' /\ Steady
    BY <1>0, <1>3, <1>4, <1>5, <1>6, <1>10, <2>1, <2>2, <2>3, <2>4, MemPush
  <2>6. free_list' \in [Desc -> Seq(Block)]
    <3>1. <<b>> \o free_list[d] \in Seq(Block)
      BY <1>0, <1>3, <1>4, <1>5, GivenBack
    <3> QED BY <1>0, <2>1, <3>1 DEF TypeOK
  <2>7. arena' \in [Page -> Arena \cup {NULL}]
    <3>1. PICK n \in Nat : n = arena[p].free_cnt + 1
      BY <1>7
    <3>2. PICK a \in Arena : a = [arena[p] EXCEPT !.free_cnt = n]
      <4>1. [arena[p] EXCEPT !.free_cnt = n] = [desc |-> d, free_cnt |-> n]
        BY <1>5, <1>6, Recounted
      <4>2. [desc |-> d, free_cnt |-> n] \in Arena
        BY RecordTypes
      <4> QED BY <4>1, <4>2
    <3>3. arena' = [arena EXCEPT ![p] = a]
      BY <2>1, <3>1, <3>2
    <3> QED BY <1>0, <3>3 DEF TypeOK
  <2>8. TypeOK' /\ Sound'
    BY <1>0, <2>1, <2>2, <2>3, <2>6, <2>7 DEF TypeOK, Sound
  <2>9. FreeNoted'
    BY <1>0, <2>3, <2>5, NotedStep
  <2>10. CallsLinked'
    <3>1. Linked(t)'
      BY <1>1, <2>2 DEF Linked
    <3>2. \A e \in Desc : lock[e] = t \/ lock[e] = NULL \/ free_list'[e] = free_list[e]
      BY <1>0, <1>6, <2>1 DEF TypeOK
    <3> QED BY <1>0, <2>2, <2>3, <3>1, <3>2, LinkStep
  <2> QED BY <2>2, <2>3, <2>4, <2>5, <2>8, <2>9, <2>10 DEF MInv, CallInv
<1>11. CASE arena[p].free_cnt + 1 = BlocksPerArena(d)
  <2>1. PICK cnt \in Nat : cnt = 1
    OBVIOUS
  <2>2. Pages(p, cnt) = ArenaPages(p)
    <3>1. Pages(p, 1) = {p}
      BY GeometryAssumption DEF Page, Pages
    <3> QED BY <1>5, <1>6, <2>1, <3>1 DEF ArenaPages
  <2>3. PICK c \in Call : c = [at |-> "give", desc |-> d]
    BY RecordTypes
  <2>4. c.at = "give" /\ c.desc = d /\ c # NULL
    BY <2>3, NullApart
  <2>5. /\ free_list' = [free_list EXCEPT ![d] = Unlisted(<<b>> \o free_list[d], BlocksOf(p, d))]
        /\ PallocFree(t, p, cnt) /\ lock' = [lock EXCEPT ![d] = t]
        /\ op' = [op EXCEPT ![t] = c] /\ UNCHANGED <<in_use, panicked>>
    <3>1. BitmapAll(p, 1)
      BY <1>0, <1>4, <2>1, <2>2, ArenaMarked
    <3> QED BY <1>2, <1>4, <1>5, <1>8, <1>11, <2>1, <2>3, <3>1 DEF FreeBlock
  <2>6. /\ PageInv' /\ Spare' = Spare \cup ArenaPages(p) /\ UNCHANGED <<free_pages, lost>>
        /\ palloc' \in [Thread -> PageCall \cup {NULL}]
        /\ palloc'[t] # NULL /\ ~Marks(palloc'[t])
        /\ \A u \in Thread : u # t => palloc'[u] = palloc[u]
        /\ arena' = [q \in Page |-> IF q \in ArenaPages(p) THEN NULL ELSE arena[q]]
        /\ arena' \in [Page -> Arena \cup {NULL}]
    BY <1>0, <1>1, <1>4, <2>1, <2>2, <2>5, PagesGiven
  <2>7. /\ op' \in [Thread -> Call \cup {NULL}] /\ op'[t] = c
        /\ \A u \in Thread : u # t => op'[u] = op[u]
        /\ UsedOnce' /\ HeldOnce' /\ Taken' = Taken \ {b}
    <3>1. HoldOf(c) = {}
      BY <2>4 DEF HoldOf
    <3> QED BY <1>0, <1>3, <2>5, <3>1, GiveUp
  <2>8. /\ LockHeld' /\ LockKnown' /\ lock' \in [Desc -> Thread \cup {NULL}]
        /\ Drawing \subseteq Drawing'
    <3>1. HasLock(op'[t]) /\ op'[t].desc = d
      BY <1>6, <2>4, <2>7 DEF HasLock
    <3>2. LockHeld' /\ LockKnown' /\ lock' \in [Desc -> Thread \cup {NULL}]
      BY <1>0, <1>6, <1>9, <2>5, <2>7, <3>1, LockTaken
    <3>3. \A e \in Desc : lock[e] # NULL /\ lock[e] # t => lock'[e] = lock[e]
      BY <1>0, <1>6, <2>5 DEF TypeOK
    <3> QED BY <1>0, <1>9, <2>7, <3>2, <3>3, DrawingKept
  <2>9. MemInv' /\ Steady /\ free_list' \in [Desc -> Seq(Block)]
    BY <1>0, <1>3, <1>4, <1>5, <1>6, <1>11, <2>5, <2>6, <2>7, <2>8, MemFreeLast
  <2>10. TypeOK' /\ Sound'
    BY <1>0, <2>5, <2>6, <2>7, <2>8, <2>9 DEF TypeOK, Sound
  <2>11. FreeNoted'
    BY <1>0, <2>4, <2>7, <2>9, NotedStep
  <2>12. CallsLinked'
    <3>1. Linked(t)'
      BY <2>4, <2>6, <2>7 DEF Linked
    <3>2. \A e \in Desc : lock[e] = t \/ lock[e] = NULL \/ free_list'[e] = free_list[e]
      BY <1>0, <1>6, <2>5 DEF TypeOK
    <3> QED BY <1>0, <2>6, <2>7, <3>1, <3>2, LinkStep
  <2> QED BY <2>6, <2>7, <2>8, <2>9, <2>10, <2>11, <2>12 DEF MInv, CallInv
<1> QED BY <1>10, <1>11

(* The pages are back and free() returns. *)
LEMMA FreeGaveInv ==
  ASSUME MInv, ~lost', NEW t \in Thread, FreeGave(t)
  PROVE  MInv' /\ Steady
<1>0. /\ TypeOK /\ Sound /\ UsedOnce /\ HeldOnce /\ LockHeld /\ LockKnown
      /\ MemInv /\ FreeNoted /\ PageInv /\ CallsLinked
  BY DEF MInv, CallInv
<1>1. /\ PallocGave(t) /\ op' = [op EXCEPT ![t] = NULL]
      /\ lock' = [d \in Desc |-> IF d = op[t].desc THEN NULL ELSE lock[d]]
      /\ UNCHANGED <<arena, free_list, in_use, panicked>>
  BY DEF FreeGave
<1>2. /\ palloc[t] # NULL /\ ~Marks(palloc[t]) /\ PageInv' /\ Spare' = Spare
      /\ free_pages' \subseteq Page /\ lost' \in BOOLEAN
      /\ palloc' \in [Thread -> PageCall \cup {NULL}]
      /\ palloc'[t] = NULL /\ \A u \in Thread : u # t => palloc'[u] = palloc[u]
  BY <1>0, <1>1, GaveStep
<1>3. op[t] # NULL /\ op[t].at = "give" /\ op[t].desc \in Desc \cup {NULL}
  BY <1>0, <1>2, CallShapes DEF CallsLinked, Linked
<1>4. ~InMalloc(op[t]) /\ Holding(t) = {}
  BY <1>3 DEF InMalloc, Holding, HoldOf
<1>5. /\ op' \in [Thread -> Call \cup {NULL}] /\ op'[t] = NULL
      /\ \A u \in Thread : u # t => op'[u] = op[u] /\ Holding(u)' = Holding(u)
      /\ Holding(t)' = {} /\ ~HasLock(op'[t])
  <2>1. PICK c \in Call \cup {NULL} : c = NULL
    OBVIOUS
  <2>2. HoldOf(NULL) = {} /\ ~HasLock(NULL)
    BY DEF HoldOf, HasLock
  <2> QED BY <1>0, <1>1, <2>1, <2>2, OpStep
<1>6. UsedOnce' /\ HeldOnce' /\ Taken' = Taken
  <2>1. \A u \in Thread : Holding(u)' = Holding(u)
    BY <1>4, <1>5
  <2> QED BY <1>0, <1>1, <2>1 DEF UsedOnce, HeldOnce, Taken
<1>7. LockHeld' /\ LockKnown' /\ lock' \in [Desc -> Thread \cup {NULL}]
  <2>1. CASE op[t].desc = NULL
    <3>1. lock' = lock
      BY <1>0, <1>1, <2>1, NullApart DEF TypeOK
    <3>2. ~HasLock(op[t])
      BY <2>1 DEF HasLock
    <3> QED BY <1>0, <1>5, <3>1, <3>2, LockKept DEF TypeOK
  <2>2. CASE op[t].desc # NULL
    <3>1. HasLock(op[t])
      BY <1>3, <2>2 DEF HasLock
    <3>2. lock' = [lock EXCEPT ![op[t].desc] = NULL]
      BY <1>0, <1>1, <1>3, <2>2 DEF TypeOK
    <3> QED BY <1>0, <1>5, <3>1, <3>2, LockGiven
  <2> QED BY <2>1, <2>2
<1>8. Drawing \subseteq Drawing'
  <2>1. ASSUME NEW e \in Desc, lock[e] # NULL, lock[e] # t PROVE lock'[e] = lock[e]
    <3>1. e # op[t].desc
      BY <1>0, <1>3, <2>1, NullApart DEF LockKnown, HasLock
    <3> QED BY <1>1, <3>1
  <2> QED BY <1>0, <1>4, <1>5, <2>1, DrawingKept
<1>9. MemInv' /\ Steady
  BY <1>0, <1>1, <1>2, <1>6, <1>8, MemSame
<1>10. TypeOK' /\ Sound'
  BY <1>0, <1>1, <1>2, <1>5, <1>7 DEF TypeOK, Sound
<1>11. FreeNoted'
  BY <1>0, <1>5, <1>9, NotedStep
<1>12. CallsLinked'
  <2>1. Linked(t)'
    BY <1>2 DEF Linked
  <2> QED BY <1>0, <1>1, <1>2, <1>5, <2>1, LinkStep
<1> QED BY <1>2, <1>6, <1>7, <1>9, <1>10, <1>11, <1>12 DEF MInv, CallInv

(* A call of palloc goes on; malloc.c waits for it. *)
LEMMA PageMove ==
  ASSUME MInv, ~lost', NEW t \in Thread,
         UNCHANGED <<arena, free_list, lock, op, in_use, panicked>>,
         PageInv', Spare' = Spare, free_pages' \subseteq Page, lost' \in BOOLEAN,
         palloc' \in [Thread -> PageCall \cup {NULL}], palloc[t] # NULL,
         palloc'[t].cnt = palloc[t].cnt, Marks(palloc'[t]) <=> Marks(palloc[t]),
         \A u \in Thread : u # t => palloc'[u] = palloc[u]
  PROVE  MInv' /\ Steady
<1>0. /\ TypeOK /\ Sound /\ UsedOnce /\ HeldOnce /\ LockHeld /\ LockKnown
      /\ MemInv /\ FreeNoted /\ PageInv /\ CallsLinked
  BY DEF MInv, CallInv
<1>1. /\ UsedOnce' /\ HeldOnce' /\ LockHeld' /\ LockKnown' /\ Taken' = Taken
      /\ Drawing' = Drawing
  BY <1>0, CallsSame
<1>2. MemInv' /\ Steady
  BY <1>0, <1>1, MemSame
<1>3. TypeOK' /\ Sound' /\ FreeNoted'
  BY <1>0 DEF TypeOK, Sound, FreeNoted
<1>4. CallsLinked'
  <2>1. Linked(t)'
    BY <1>0 DEF CallsLinked, Linked
  <2> QED BY <1>0, <2>1, LinkStep
<1> QED BY <1>1, <1>2, <1>3, <1>4 DEF MInv, CallInv

LEMMA LoadInv ==
  ASSUME MInv, ~lost', NEW t \in Thread, MarkLoad(t) \/ ResetLoad(t)
  PROVE  MInv' /\ Steady
<1>0. TypeOK /\ PageInv
  BY DEF MInv, CallInv
<1>1. ASSUME NEW label, NEW next, Load(t, label, next),
             \/ label = "mark" /\ next = "mark_store"
             \/ label = "reset" /\ next = "reset_store"
      PROVE  MInv' /\ Steady
  <2>1. UNCHANGED <<arena, free_list, lock, op, in_use, panicked>>
    BY <1>1 DEF Load
  <2>2. /\ PageInv' /\ Spare' = Spare /\ UNCHANGED <<free_pages, lost>>
        /\ palloc' \in [Thread -> PageCall \cup {NULL}]
        /\ palloc[t] # NULL /\ palloc'[t].cnt = palloc[t].cnt
        /\ Marks(palloc'[t]) <=> Marks(palloc[t])
        /\ \A u \in Thread : u # t => palloc'[u] = palloc[u]
    BY <1>0, <1>1, LoadStep
  <2>3. free_pages' \subseteq Page /\ lost' \in BOOLEAN
    BY <1>0, <2>2 DEF TypeOK
  <2> QED BY <2>1, <2>2, <2>3, PageMove
<1> QED BY <1>1 DEF MarkLoad, ResetLoad

LEMMA NextBitInv ==
  ASSUME MInv, ~lost', NEW t \in Thread, MarkNext(t) \/ ResetNext(t)
  PROVE  MInv' /\ Steady
<1>0. TypeOK /\ PageInv
  BY DEF MInv, CallInv
<1>1. UNCHANGED <<arena, free_list, lock, op, in_use, panicked>>
  BY DEF MarkNext, ResetNext, NextBit
<1>2. /\ PageInv' /\ Spare' = Spare /\ free_pages' \subseteq Page /\ lost' \in BOOLEAN
      /\ palloc' \in [Thread -> PageCall \cup {NULL}]
      /\ palloc[t] # NULL /\ palloc'[t].cnt = palloc[t].cnt
      /\ Marks(palloc'[t]) <=> Marks(palloc[t])
      /\ \A u \in Thread : u # t => palloc'[u] = palloc[u]
  BY <1>0, MarkStep, ResetStep
<1> QED BY <1>1, <1>2, PageMove

-----------------------------------------------------------------------------
(* What callers call. *)
LEMMA CallerInv ==
  ASSUME MInv, ~lost', NEW t \in Thread,
         \/ \E size \in Sizes : Malloc(t, size)
         \/ \E args \in CallocArgs : Calloc(t, args[1], args[2])
         \/ \E h \in in_use : \E size \in Sizes : Realloc(t, h, size)
  PROVE  MInv' /\ Steady
<1>1. ASSUME NEW size \in Sizes, Malloc(t, size) PROVE MInv' /\ Steady
  <2>1. size \in Nat
    BY SizeAssumption
  <2>2. PICK none \in in_use \cup {NULL} : none = NULL
    OBVIOUS
  <2>3. Idle(t) /\ MallocCall(t, size, size, none)
    BY <1>1, <2>2 DEF Malloc
  <2> QED BY <2>1, <2>3, MallocCallInv
<1>2. ASSUME NEW args \in CallocArgs, Calloc(t, args[1], args[2]) PROVE MInv' /\ Steady
  <2>1. args[1] \in Nat /\ args[2] \in Nat /\ SizeRange \in Nat \ {0}
    BY SizeAssumption
  <2>2. PICK asked \in Nat : asked = args[1] * args[2]
    BY <2>1
  <2>3. PICK size \in Nat : size = asked % SizeRange
    BY <2>1
  <2>4. PICK none \in in_use \cup {NULL} : none = NULL
    OBVIOUS
  <2>5. Idle(t) /\ MallocCall(t, size, asked, none)
    BY <1>2, <2>2, <2>3, <2>4 DEF Calloc
  <2> QED BY <2>5, MallocCallInv
<1>3. ASSUME NEW h \in in_use, NEW size \in Sizes, Realloc(t, h, size)
      PROVE  MInv' /\ Steady
  <2>1. size \in Nat
    BY SizeAssumption
  <2>2. Idle(t) /\ MallocCall(t, size, size, h)
    BY <1>3 DEF Realloc
  <2> QED BY <2>1, <2>2, MallocCallInv
<1> QED BY <1>1, <1>2, <1>3

LEMMA MallocStep ==
  ASSUME MInv, Next, ~lost' PROVE MInv' /\ Steady
<1>1. ASSUME NEW t \in Thread,
             \/ \E size \in Sizes : Malloc(t, size)
             \/ \E args \in CallocArgs : Calloc(t, args[1], args[2])
             \/ \E h \in in_use : \E size \in Sizes : Realloc(t, h, size)
      PROVE  MInv' /\ Steady
  BY <1>1, CallerInv
<1>2. ASSUME NEW t \in Thread, NEW h \in in_use, Free(t, h) PROVE MInv' /\ Steady
  BY <1>2, FreeInv
<1>3. ASSUME NEW t \in Thread, MallocGotBig(t) \/ MallocGet(t) \/ MallocRefill(t)
      PROVE  MInv' /\ Steady
  BY <1>3, GotBigInv, GetInv, RefillInv
<1>4. ASSUME NEW t \in Thread, MallocFails(t) \/ MallocPop(t) PROVE MInv' /\ Steady
  BY <1>4, FailsInv, PopInv
<1>5. ASSUME NEW t \in Thread, FreeArena(t) \/ FreeBlock(t) \/ FreeGave(t)
      PROVE  MInv' /\ Steady
  BY <1>5, FreeArenaInv, FreeBlockInv, FreeGaveInv
<1>6. ASSUME NEW t \in Thread, MarkLoad(t) \/ ResetLoad(t) PROVE MInv' /\ Steady
  BY <1>6, LoadInv
<1>7. ASSUME NEW t \in Thread, MarkNext(t) \/ ResetNext(t) PROVE MInv' /\ Steady
  BY <1>7, NextBitInv
<1> QED BY <1>1, <1>2, <1>3, <1>4, <1>5, <1>6, <1>7 DEF Next

LEMMA MallocStutter == ASSUME MInv, UNCHANGED vars PROVE MInv'
<1>0. /\ TypeOK /\ Sound /\ UsedOnce /\ HeldOnce /\ LockHeld /\ LockKnown
      /\ MemInv /\ FreeNoted /\ PageInv /\ CallsLinked
  BY DEF MInv, CallInv
<1>1. UNCHANGED <<pageVars, arena, free_list, lock, op, in_use, panicked>>
  BY DEF vars
<1>2. PageInv' /\ Spare' = Spare /\ UNCHANGED <<free_pages, lost, palloc>>
  BY <1>0, <1>1, PagesSame DEF pageVars
<1>3. /\ UsedOnce' /\ HeldOnce' /\ LockHeld' /\ LockKnown' /\ Taken' = Taken
      /\ Drawing' = Drawing
  BY <1>0, <1>1, CallsSame
<1>4. MemInv'
  BY <1>0, <1>1, <1>2, <1>3, MemSame
<1>5. TypeOK' /\ Sound' /\ FreeNoted' /\ CallsLinked'
  BY <1>0, <1>1, <1>2 DEF TypeOK, Sound, FreeNoted, CallsLinked, Linked
<1> QED BY <1>2, <1>3, <1>4, <1>5 DEF MInv, CallInv

(* A lost update stays lost. *)
LEMMA LostStays == ASSUME lost, [Next]_vars PROVE lost'
<1>1. ASSUME NEW t \in Thread, NEW word, Store(t, word) PROVE lost'
  <2>1. lost' = (lost \/ palloc[t].elem # free_pages \cap Word(PageAt(t)))
    BY <1>1 DEF Store
  <2> QED BY <2>1, Zenon
<1>2. ASSUME NEW t \in Thread, Mark(t) \/ Reset(t) PROVE lost'
  BY <1>1, <1>2 DEF Mark, Reset
<1>3. CASE UNCHANGED lost
  BY <1>3
<1>4. ASSUME NEW t \in Thread, NEW size, NEW asked, NEW old, MallocCall(t, size, asked, old)
      PROVE  UNCHANGED lost
  BY <1>4 DEF MallocCall, MallocBig, MallocLock, PallocGet, pageVars
<1>5. ASSUME NEW t \in Thread PROVE
        /\ \A size \in Sizes : Malloc(t, size) => UNCHANGED lost
        /\ \A args \in CallocArgs : Calloc(t, args[1], args[2]) => UNCHANGED lost
        /\ \A h \in in_use : \A size \in Sizes : Realloc(t, h, size) => UNCHANGED lost
  BY <1>4 DEF Malloc, Calloc, Realloc
<1>6. ASSUME NEW t \in Thread,
             \/ \E h \in in_use : Free(t, h)
             \/ MallocGet(t) \/ MallocFails(t) \/ MallocPop(t) \/ FreeArena(t) \/ FreeBlock(t)
             \/ MarkLoad(t) \/ ResetLoad(t)
      PROVE  UNCHANGED lost
  BY <1>6 DEF Free, MallocGet, MallocFails, MallocPop, FreeArena, FreeBlock, MarkLoad,
              ResetLoad, Load, PallocGet, PallocFree, Panic, pageVars
<1>7. ASSUME NEW t \in Thread,
             \/ MallocGotBig(t) \/ MallocRefill(t) \/ FreeGave(t) \/ MarkNext(t) \/ ResetNext(t)
      PROVE  Mark(t) \/ Reset(t)
  BY <1>7 DEF MallocGotBig, MallocRefill, FreeGave, MarkNext, ResetNext, PallocGot, PallocGave
<1>8. CASE UNCHANGED vars
  BY <1>3, <1>8 DEF vars, pageVars
<1> QED BY <1>2, <1>3, <1>5, <1>6, <1>7, <1>8 DEF Next

LEMMA MallocInit == Init => MInv
<1> SUFFICES ASSUME Init PROVE MInv
  OBVIOUS
<1>1. \A t \in Thread : op[t] = NULL /\ palloc[t] = NULL /\ Holding(t) = {} /\ Moving(t) = {}
  BY DEF Init, Holding, HoldOf, Moving, MovedBy
<1>2. Taken = {} /\ Spare = Page
  BY <1>1 DEF Init, Taken, Spare
<1>3. \A d \in Desc : free_list[d] = <<>> /\ Range(free_list[d]) = {} /\ IsInjective(free_list[d])
  BY RangeEmpty DEF Init
<1>4. TypeOK /\ Sound
  <2>1. Sound /\ panicked \in BOOLEAN /\ lost \in BOOLEAN
    BY Zenon DEF Init, Sound
  <2>2. <<>> \in Seq(Block)
    OBVIOUS
  <2>3. /\ free_pages \subseteq Page /\ in_use \subseteq Held
        /\ palloc \in [Thread -> PageCall \cup {NULL}]
        /\ arena \in [Page -> Arena \cup {NULL}]
        /\ lock \in [Desc -> Thread \cup {NULL}] /\ op \in [Thread -> Call \cup {NULL}]
    BY Zenon DEF Init
  <2>4. free_list \in [Desc -> Seq(Block)]
    BY <2>2, Zenon DEF Init
  <2> QED BY <2>1, <2>3, <2>4, Zenon DEF TypeOK
<1>5. UsedOnce /\ HeldOnce /\ LockHeld /\ LockKnown /\ FreeNoted
  BY <1>1 DEF Init, UsedOnce, HeldOnce, LockHeld, LockKnown, HasLock, FreeNoted
<1>6. TakenInArena /\ ListedInArena /\ ListsApart
  BY <1>2, <1>3 DEF TakenInArena, ListedInArena, ListsApart
<1>7. \A p \in Page : arena[p] = NULL
  BY DEF Init
<1>8. CountExact /\ FullLocked /\ PagesFilled /\ PagesApart /\ BigCounted
  BY <1>2, <1>7 DEF CountExact, FullLocked, PagesFilled, PagesApart, BigCounted, Small
<1>9. PageInv /\ CallsLinked
  BY <1>1 DEF PageInv, InRange, MovedUsed, AheadFree, MovedOnce, OneMarks, AheadOf, Marks,
              CallsLinked, Linked
<1> QED BY <1>4, <1>5, <1>6, <1>8, <1>9 DEF MInv, CallInv, MemInv

(* The inductive invariant of the block allocator, which holds until a stale *)
(* store undoes an update of palloc's bitmap: who holds which block and      *)
(* which lock, where each block is, what the arenas' counters count, and     *)
(* which pages the calls of palloc are busy with.                            *)
THEOREM MallocInvariance == Spec => [](lost \/ MInv)
<1>1. (lost \/ MInv) /\ [Next]_vars => (lost \/ MInv)'
  <2> SUFFICES ASSUME lost \/ MInv, [Next]_vars, ~lost' PROVE MInv'
    OBVIOUS
  <2>1. MInv
    BY LostStays
  <2> QED BY <2>1, MallocStep, MallocStutter
<1> QED BY <1>1, MallocInit, PTL DEF Spec

(* No ASSERT of malloc.c or of palloc_free_multiple() fires before an update *)
(* of the bitmap is lost: block_to_arena() finds a valid arena around every  *)
(* block, also when free() read the arena before it took the lock, the last  *)
(* block given back to an arena brings its counter to exactly                *)
(* blocks_per_arena, and the pages given back are all marked as used.        *)
THEOREM AllocatorPanicFree == Spec => []NoPanic
<1>1. lost \/ MInv => NoPanic
  BY DEF MInv, CallInv, Sound, NoPanic
<1> QED BY <1>1, MallocInvariance, PTL

(* Until then, unless their descriptor is locked, arenas have a block in     *)
(* use, count their listed blocks and lose none; and every page is free, in  *)
(* an arena or in a call of palloc.                                          *)
THEOREM ArenasTrue == Spec => []ArenasExact
<1>1. ASSUME MInv PROVE ArenasExact
  <2>1. TypeOK /\ MemInv /\ PageInv
    BY <1>1 DEF MInv, CallInv
  <2>2. Page \ free_pages =
          (UNION {ArenaPages(p) : p \in {q \in Page : arena[q] # NULL}})
            \cup UNION {Moving(t) : t \in Thread}
    <3>1. Page \ Spare = UNION {ArenaPages(p) : p \in {q \in Page : arena[q] # NULL}}
      BY <2>1 DEF MemInv, PagesFilled
    <3>2. (UNION {Moving(t) : t \in Thread}) \cap free_pages = {}
      BY <2>1 DEF PageInv, MovedUsed
    <3>3. (UNION {Moving(t) : t \in Thread}) \subseteq Page
      BY <2>1 DEF MemInv, PagesFilled, Spare
    <3> QED BY <3>1, <3>2, <3>3 DEF Spare
  <2>3. ASSUME NEW p \in Page, arena[p] # NULL, arena[p].desc # NULL,
               lock[arena[p].desc] = NULL
        PROVE  CountsExact(p)
    <3>1. Small(p) /\ arena[p].desc \notin Drawing
      BY <2>3 DEF Small, Drawing
    <3>2. arena[p].free_cnt < BlocksPerArena(arena[p].desc)
      BY <2>1, <3>1, NotFull
    <3>3. /\ arena[p].free_cnt = Cardinality(Listed(p))
          /\ BlocksOf(p, arena[p].desc) \subseteq Listed(p) \cup Taken
      BY <2>1, <3>1 DEF MemInv, CountExact
    <3> QED BY <3>2, <3>3 DEF Listed, CountsExact
  <2> QED BY <2>1, <2>2, <2>3 DEF ArenasExact
<1>2. lost \/ MInv => ArenasExact
  BY <1>1 DEF ArenasExact
<1> QED BY <1>2, MallocInvariance, PTL

-----------------------------------------------------------------------------
(* A page of palloc's, the header of an arena and a block of an arena, in    *)
(* bytes.                                                                    *)
FreeBytes(p) == [from |-> p * PGSIZE, to |-> (p + 1) * PGSIZE]
HeaderBytes(p) == [from |-> p * PGSIZE, to |-> p * PGSIZE + ArenaSize]
BlockBytes(b) == [from |-> Start(b), to |-> Start(b) + BlockSize(b)]

LEMMA ExtentKinds ==
  ASSUME TypeOK, MemInv, NEW x \in Extents
  PROVE  \/ \E p \in Spare : x = FreeBytes(p)
         \/ \E p \in Page : arena[p] # NULL /\ x = HeaderBytes(p)
         \/ \E b \in Block : IsBlock(b) /\ x = BlockBytes(b)
<1>1. ASSUME NEW b \in Taken PROVE b \in Block /\ IsBlock(b)
  BY TakenBlocks DEF MemInv, TakenInArena
<1>2. ASSUME NEW d \in Desc, NEW b \in Range(free_list[d])
      PROVE  b \in Block /\ IsBlock(b) /\ BlockSize(b) = d
  <2>1. /\ b.page \in Page /\ arena[b.page] # NULL /\ arena[b.page].desc = d
        /\ b \in BlocksOf(b.page, d)
    BY <1>2 DEF MemInv, ListedInArena
  <2>2. d # NULL
    BY Descriptor
  <2>3. b \in Block
    BY <2>1, BlockPlace
  <2> QED BY <2>1, <2>2, <2>3 DEF IsBlock, BlockSize
<1>3. CASE x \in {[from |-> Start(b), to |-> Start(b) + BlockSize(b)] : b \in Taken}
  BY <1>1, <1>3 DEF BlockBytes
<1>4. CASE x \in UNION {{[from |-> Start(b), to |-> Start(b) + d] : b \in Range(free_list[d])} :
                         d \in Desc}
  <2>1. PICK d \in Desc : \E b \in Range(free_list[d]) :
                            x = [from |-> Start(b), to |-> Start(b) + d]
    BY <1>4
  <2>2. PICK b \in Range(free_list[d]) : x = [from |-> Start(b), to |-> Start(b) + d]
    BY <2>1
  <2>3. b \in Block /\ IsBlock(b) /\ x = BlockBytes(b)
    BY <1>2, <2>2 DEF BlockBytes
  <2> QED BY <2>3
<1>5. CASE x \in {[from |-> p * PGSIZE, to |-> p * PGSIZE + ArenaSize] :
                    p \in {q \in Page : arena[q] # NULL}}
  BY <1>5 DEF HeaderBytes
<1>6. CASE x \in {[from |-> p * PGSIZE, to |-> (p + 1) * PGSIZE] : p \in Spare}
  BY <1>6 DEF FreeBytes
<1> QED BY <1>3, <1>4, <1>5, <1>6 DEF Extents, Spare

(* The pages of an arena are those before page HI. *)
LEMMA ArenaSpan ==
  ASSUME TypeOK, MemInv, NEW p \in Page, arena[p] # NULL
  PROVE  \E hi \in Nat : /\ p < hi /\ hi <= PageCnt /\ ArenaPages(p) = p .. hi - 1
                         /\ arena[p].desc = NULL => hi = p + arena[p].free_cnt
<1>1. p \in Nat /\ PageCnt \in Nat
  BY GeometryAssumption DEF Page
<1>2. arena[p].free_cnt \in Nat
  BY DEF TypeOK, Arena
<1>3. ArenaPages(p) \subseteq 0 .. PageCnt - 1
  BY DEF MemInv, PagesFilled, Page
<1>4. CASE arena[p].desc = NULL
  <2>1. PICK hi \in Nat : hi = p + arena[p].free_cnt
    BY <1>1, <1>2
  <2>2. arena[p].free_cnt > 0
    BY <1>4 DEF MemInv, BigCounted
  <2>3. ArenaPages(p) = p .. hi - 1
    BY <1>1, <1>2, <1>4, <2>1 DEF ArenaPages, Pages
  <2>4. p < hi /\ hi - 1 \in p .. hi - 1
    BY <1>1, <1>2, <2>1, <2>2
  <2>5. hi <= PageCnt
    BY <1>1, <1>3, <2>3, <2>4
  <2> QED BY <2>1, <2>3, <2>4, <2>5
<1>5. CASE arena[p].desc # NULL
  <2>1. ArenaPages(p) = {p} /\ {p} = p .. (p + 1) - 1
    BY <1>1, <1>5 DEF ArenaPages
  <2>2. p + 1 \in Nat /\ p < p + 1 /\ p + 1 <= PageCnt
    BY <1>1 DEF Page
  <2> QED BY <1>5, <2>1, <2>2
<1> QED BY <1>4, <1>5

(* Pages are in order in memory. *)
LEMMA PageOrder ==
  ASSUME NEW p \in Nat, NEW q \in Nat
  PROVE  /\ p * PGSIZE \in Nat /\ (p + 1) * PGSIZE = p * PGSIZE + PGSIZE
         /\ p < q => p * PGSIZE + PGSIZE <= q * PGSIZE
         /\ p <= q => p * PGSIZE <= q * PGSIZE
<1>1. PGSIZE \in Nat \ {0}
  BY GeometryAssumption
<1>2. p * PGSIZE \in Nat /\ q * PGSIZE \in Nat
      /\ (p < q => p * PGSIZE + PGSIZE <= q * PGSIZE)
  BY <1>1, Multiples
<1>3. (p + 1) * PGSIZE = p * PGSIZE + PGSIZE
  BY <1>1
<1>4. p <= q => p < q \/ p = q
  OBVIOUS
<1> QED BY <1>1, <1>2, <1>3, <1>4

(* A block lies behind the header of its arena and before its end. *)
LEMMA BlockSpan ==
  ASSUME TypeOK, MemInv, NEW b \in Block, IsBlock(b), NEW p \in Page, p = b.page,
         NEW hi \in Nat, p < hi, arena[p].desc = NULL => hi = p + arena[p].free_cnt
  PROVE  /\ Start(b) \in Nat /\ BlockSize(b) \in Int
         /\ p * PGSIZE + ArenaSize <= Start(b)
         /\ Start(b) + BlockSize(b) <= hi * PGSIZE
<1>1. PGSIZE \in Nat /\ ArenaSize \in Nat /\ p \in Nat /\ b.ofs \in Nat
  BY GeometryAssumption DEF Page, Block
<1>2. PICK n \in Nat : n = p * PGSIZE
  BY <1>1, PageOrder
<1>3. PICK m \in Nat : m = hi * PGSIZE
  BY <1>1, PageOrder
<1>4. n + PGSIZE <= m
  BY <1>1, <1>2, <1>3, PageOrder
<1>5. Start(b) = n + b.ofs
  BY <1>2 DEF Start
<1>6. arena[p] # NULL /\ arena[p].free_cnt \in Nat
  BY DEF IsBlock, TypeOK, Arena
<1>7. CASE arena[p].desc = NULL
  <2>1. BlockSize(b) = PGSIZE * arena[p].free_cnt - b.ofs /\ b.ofs = ArenaSize
    BY <1>7 DEF BlockSize, IsBlock
  <2>2. PICK k \in Nat : k = arena[p].free_cnt
    BY <1>6
  <2>3. hi = p + k
    BY <1>7, <2>2
  <2>4. PGSIZE * k \in Nat /\ m = n + PGSIZE * k
    BY <1>1, <1>2, <1>3, <2>3
  <2> QED BY <1>1, <1>2, <1>3, <1>5, <2>1, <2>2, <2>4
<1>8. CASE arena[p].desc # NULL
  <2>1. PICK d \in Desc : d = arena[p].desc
    BY <1>6, <1>8 DEF TypeOK, Arena
  <2>2. BlockSize(b) = d /\ b \in BlocksOf(p, d)
    BY <1>8, <2>1 DEF BlockSize, IsBlock
  <2>3. ArenaSize <= b.ofs /\ b.ofs + d <= PGSIZE /\ d \in Nat
    BY <2>2, BlockPlace, Descriptor
  <2> QED BY <1>1, <1>2, <1>3, <1>4, <1>5, <2>2, <2>3
<1> QED BY <1>7, <1>8

(* Every extent lies in pages LO .. HI - 1: one page of palloc's, or all    *)
(* the pages of the arena that starts at LO.                                 *)
InFree(x, lo, hi) == lo \in Spare /\ hi = lo + 1 /\ x = FreeBytes(lo)
InArena(x, lo, hi) ==
  /\ arena[lo] # NULL /\ ArenaPages(lo) = lo .. hi - 1
  /\ \/ x = HeaderBytes(lo)
     \/ \E b \in Block : /\ IsBlock(b) /\ b.page = lo /\ x = BlockBytes(b)
                         /\ lo * PGSIZE + ArenaSize <= x.from

LEMMA ExtentPages ==
  ASSUME TypeOK, MemInv, NEW x \in Extents
  PROVE  \E lo \in Page, hi \in Nat :
           /\ lo < hi /\ hi <= PageCnt
           /\ x.from \in Int /\ x.to \in Int
           /\ lo * PGSIZE <= x.from /\ x.to <= hi * PGSIZE
           /\ InFree(x, lo, hi) \/ InArena(x, lo, hi)
<1>1. PGSIZE \in Nat \ {0} /\ ArenaSize \in Nat /\ ArenaSize < PGSIZE /\ PageCnt \in Nat
      /\ \A p \in Page : p \in Nat /\ p < PageCnt
  BY GeometryAssumption DEF Page
<1>2. ASSUME NEW p \in Spare, x = FreeBytes(p)
      PROVE  \E lo \in Page, hi \in Nat :
               /\ lo < hi /\ hi <= PageCnt
               /\ x.from \in Int /\ x.to \in Int
               /\ lo * PGSIZE <= x.from /\ x.to <= hi * PGSIZE
               /\ InFree(x, lo, hi) \/ InArena(x, lo, hi)
  <2>1. p \in Page /\ p \in Nat /\ p + 1 \in Nat /\ p < p + 1 /\ p + 1 <= PageCnt
    BY <1>1 DEF MemInv, PagesFilled
  <2>2. p * PGSIZE \in Nat /\ (p + 1) * PGSIZE \in Nat
    BY <2>1, PageOrder
  <2>3. x.from = p * PGSIZE /\ x.to = (p + 1) * PGSIZE
    BY <1>2 DEF FreeBytes
  <2>4. InFree(x, p, p + 1)
    BY <1>2 DEF InFree
  <2>5. /\ x.from \in Int /\ x.to \in Int
        /\ p * PGSIZE <= x.from /\ x.to <= (p + 1) * PGSIZE
    BY <2>2, <2>3
  <2> QED BY <2>1, <2>4, <2>5
<1>3. ASSUME NEW p \in Page, arena[p] # NULL, x = HeaderBytes(p)
      PROVE  \E lo \in Page, hi \in Nat :
               /\ lo < hi /\ hi <= PageCnt
               /\ x.from \in Int /\ x.to \in Int
               /\ lo * PGSIZE <= x.from /\ x.to <= hi * PGSIZE
               /\ InFree(x, lo, hi) \/ InArena(x, lo, hi)
  <2>1. PICK hi \in Nat : p < hi /\ hi <= PageCnt /\ ArenaPages(p) = p .. hi - 1
    BY <1>3, ArenaSpan
  <2>2. p * PGSIZE \in Nat /\ hi * PGSIZE \in Nat /\ p * PGSIZE + PGSIZE <= hi * PGSIZE
    BY <1>1, <2>1, PageOrder
  <2>3. x.from = p * PGSIZE /\ x.to = p * PGSIZE + ArenaSize
    BY <1>3 DEF HeaderBytes
  <2>4. /\ x.from \in Int /\ x.to \in Int
        /\ p * PGSIZE <= x.from /\ x.to <= hi * PGSIZE
    BY <1>1, <2>2, <2>3
  <2>5. InArena(x, p, hi)
    BY <1>3, <2>1 DEF InArena
  <2> QED BY <2>1, <2>4, <2>5
<1>4. ASSUME NEW b \in Block, IsBlock(b), x = BlockBytes(b)
      PROVE  \E lo \in Page, hi \in Nat :
               /\ lo < hi /\ hi <= PageCnt
               /\ x.from \in Int /\ x.to \in Int
               /\ lo * PGSIZE <= x.from /\ x.to <= hi * PGSIZE
               /\ InFree(x, lo, hi) \/ InArena(x, lo, hi)
  <2>1. PICK p \in Page : p = b.page /\ arena[p] # NULL
    BY <1>4 DEF IsBlock
  <2>2. PICK hi \in Nat : /\ p < hi /\ hi <= PageCnt /\ ArenaPages(p) = p .. hi - 1
                          /\ arena[p].desc = NULL => hi = p + arena[p].free_cnt
    BY <2>1, ArenaSpan
  <2>3. /\ Start(b) \in Nat /\ BlockSize(b) \in Int
        /\ p * PGSIZE + ArenaSize <= Start(b)
        /\ Start(b) + BlockSize(b) <= hi * PGSIZE
    BY <1>4, <2>1, <2>2, BlockSpan
  <2>4. p * PGSIZE \in Nat /\ hi * PGSIZE \in Nat
    BY <1>1, <2>1, PageOrder
  <2>5. x.from = Start(b) /\ x.to = Start(b) + BlockSize(b)
    BY <1>4 DEF BlockBytes
  <2>6. /\ x.from \in Int /\ x.to \in Int
        /\ p * PGSIZE <= x.from /\ x.to <= hi * PGSIZE
        /\ p * PGSIZE + ArenaSize <= x.from
    BY <1>1, <2>3, <2>4, <2>5
  <2>7. InArena(x, p, hi)
    BY <1>4, <2>1, <2>2, <2>6 DEF InArena
  <2> QED BY <2>1, <2>2, <2>6, <2>7
<1> QED BY <1>2, <1>3, <1>4, ExtentKinds

(* Two blocks of one arena are the same or apart. *)
LEMMA BlocksOfArena ==
  ASSUME TypeOK, NEW b \in Block, NEW c \in Block, IsBlock(b), IsBlock(c),
         b.page = c.page
  PROVE  \/ b = c
         \/ Start(b) + BlockSize(b) <= Start(c)
         \/ Start(c) + BlockSize(c) <= Start(b)
<1>1. PICK p \in Page : p = b.page /\ p = c.page /\ arena[p] # NULL
  BY DEF IsBlock
<1>2. CASE arena[p].desc = NULL
  <2>1. b.ofs = c.ofs
    BY <1>1, <1>2 DEF IsBlock
  <2>2. b = [page |-> b.page, ofs |-> b.ofs] /\ c = [page |-> c.page, ofs |-> c.ofs]
    BY DEF Block
  <2> QED BY <2>1, <2>2
<1>3. CASE arena[p].desc # NULL
  <2>1. PICK d \in Desc : d = arena[p].desc
    BY <1>1, <1>3 DEF TypeOK, Arena
  <2>2. /\ b \in BlocksOf(p, d) /\ c \in BlocksOf(p, d)
        /\ BlockSize(b) = d /\ BlockSize(c) = d
    BY <1>1, <1>3, <2>1 DEF IsBlock, BlockSize
  <2>3. b = c \/ b.ofs + d <= c.ofs \/ c.ofs + d <= b.ofs
    BY <2>2, BlocksDistinct
  <2>4. p \in Nat /\ b.ofs \in Nat /\ c.ofs \in Nat /\ d \in Nat
    BY GeometryAssumption, Descriptor DEF Page, Block
  <2>5. PICK n \in Nat : n = p * PGSIZE
    BY <2>4, PageOrder
  <2>6. Start(b) = n + b.ofs /\ Start(c) = n + c.ofs
    BY <1>1, <2>5 DEF Start
  <2> QED BY <2>2, <2>3, <2>4, <2>5, <2>6
<1> QED BY <1>2, <1>3

LEMMA ExtentsApart ==
  ASSUME TypeOK, MemInv, NEW x \in Extents, NEW y \in Extents
  PROVE  x = y \/ x.to <= y.from \/ y.to <= x.from
<1>1. PICK lo \in Page, hi \in Nat :
        /\ lo < hi /\ hi <= PageCnt
        /\ x.from \in Int /\ x.to \in Int
        /\ lo * PGSIZE <= x.from /\ x.to <= hi * PGSIZE
        /\ InFree(x, lo, hi) \/ InArena(x, lo, hi)
  BY ExtentPages
<1>2. PICK l \in Page, h \in Nat :
        /\ l < h /\ h <= PageCnt
        /\ y.from \in Int /\ y.to \in Int
        /\ l * PGSIZE <= y.from /\ y.to <= h * PGSIZE
        /\ InFree(y, l, h) \/ InArena(y, l, h)
  BY ExtentPages
<1>3. lo \in Nat /\ l \in Nat
  BY GeometryAssumption DEF Page
<1>4. CASE hi <= l
  <2>1. hi * PGSIZE <= l * PGSIZE /\ hi * PGSIZE \in Nat /\ l * PGSIZE \in Nat
    BY <1>3, <1>4, PageOrder
  <2> QED BY <1>1, <1>2, <2>1
<1>5. CASE h <= lo
  <2>1. h * PGSIZE <= lo * PGSIZE /\ h * PGSIZE \in Nat /\ lo * PGSIZE \in Nat
    BY <1>3, <1>5, PageOrder
  <2> QED BY <1>1, <1>2, <2>1
<1>6. CASE l < hi /\ lo < h
  <2>1. PICK q \in Nat : q \in lo .. hi - 1 /\ q \in l .. h - 1
    <3>1. CASE lo <= l
      BY <1>2, <1>3, <1>6, <3>1
    <3>2. CASE l <= lo
      BY <1>1, <1>3, <1>6, <3>2
    <3> QED BY <1>3, <3>1, <3>2
  <2>2. CASE InFree(x, lo, hi) /\ InFree(y, l, h)
    <3>1. q = lo /\ q = l
      BY <1>3, <2>1, <2>2 DEF InFree
    <3> QED BY <2>2, <3>1 DEF InFree
  <2>3. CASE InFree(x, lo, hi) /\ InArena(y, l, h)
    <3>1. q = lo /\ q \in Spare
      BY <1>3, <2>1, <2>3 DEF InFree
    <3>2. q \in ArenaPages(l) /\ ArenaPages(l) \subseteq Page \ Spare
      BY <2>1, <2>3 DEF InArena, MemInv, PagesFilled
    <3> QED BY <3>1, <3>2
  <2>4. CASE InArena(x, lo, hi) /\ InFree(y, l, h)
    <3>1. q = l /\ q \in Spare
      BY <1>3, <2>1, <2>4 DEF InFree
    <3>2. q \in ArenaPages(lo) /\ ArenaPages(lo) \subseteq Page \ Spare
      BY <2>1, <2>4 DEF InArena, MemInv, PagesFilled
    <3> QED BY <3>1, <3>2
  <2>5. CASE InArena(x, lo, hi) /\ InArena(y, l, h)
    <3>1. lo = l
      <4>1. q \in ArenaPages(lo) \cap ArenaPages(l) /\ arena[lo] # NULL /\ arena[l] # NULL
        BY <2>1, <2>5 DEF InArena
      <4> QED BY <4>1 DEF MemInv, PagesApart
    <3>2. CASE x = HeaderBytes(lo) /\ y = HeaderBytes(l)
      BY <3>1, <3>2
    <3>3. ASSUME x = HeaderBytes(lo), lo * PGSIZE + ArenaSize <= y.from
          PROVE  x.to <= y.from
      BY <3>3 DEF HeaderBytes
    <3>4. ASSUME y = HeaderBytes(l), l * PGSIZE + ArenaSize <= x.from
          PROVE  y.to <= x.from
      BY <3>4 DEF HeaderBytes
    <3>5. ASSUME NEW b \in Block, NEW c \in Block, IsBlock(b), IsBlock(c),
                 b.page = lo, c.page = l, x = BlockBytes(b), y = BlockBytes(c)
          PROVE  x = y \/ x.to <= y.from \/ y.to <= x.from
      <4>1. \/ b = c
            \/ Start(b) + BlockSize(b) <= Start(c)
            \/ Start(c) + BlockSize(c) <= Start(b)
        BY <3>1, <3>5, BlocksOfArena
      <4>2. /\ x.from = Start(b) /\ x.to = Start(b) + BlockSize(b)
            /\ y.from = Start(c) /\ y.to = Start(c) + BlockSize(c)
        BY <3>5 DEF BlockBytes
      <4>3. b = c => x = y
        BY <3>5
      <4> QED BY <4>1, <4>2, <4>3
    <3> QED BY <2>5, <3>1, <3>2, <3>3, <3>4, <3>5 DEF InArena
  <2> QED BY <1>1, <1>2, <2>2, <2>3, <2>4, <2>5
<1> QED BY <1>1, <1>2, <1>3, <1>4, <1>5, <1>6

(* Until an update of the bitmap is lost, blocks that callers hold, blocks   *)
(* on free lists, headers of arenas and pages that palloc has or is busy     *)
(* with share no byte, and all are in memory: also while another thread      *)
(* frees the last block of the same arena, and between the load and the      *)
(* store of any bit of palloc's.                                             *)
THEOREM BlocksDisjoint == Spec => []BlocksApart
<1>1. ASSUME MInv PROVE BlocksApart
  <2>1. TypeOK /\ MemInv
    BY <1>1 DEF MInv, CallInv
  <2>2. \A x, y \in Extents : x = y \/ x.to <= y.from \/ y.to <= x.from
    BY <2>1, ExtentsApart
  <2>3. ASSUME NEW x \in Extents PROVE x.to <= PageCnt * PGSIZE
    <3>1. PICK hi \in Nat : hi <= PageCnt /\ x.to \in Int /\ x.to <= hi * PGSIZE
      BY <2>1, ExtentPages
    <3>2. hi * PGSIZE \in Nat /\ PageCnt * PGSIZE \in Nat /\ hi * PGSIZE <= PageCnt * PGSIZE
      BY <3>1, GeometryAssumption, PageOrder
    <3> QED BY <3>1, <3>2
  <2> QED BY <2>1, <2>2, <2>3 DEF BlocksApart, MemInv, ListsApart
<1>2. lost \/ MInv => BlocksApart
  BY <1>1 DEF BlocksApart
<1> QED BY <1>2, MallocInvariance, PTL

-----------------------------------------------------------------------------
(* What callers asked for, of the blocks they hold and of the ones realloc() *)
(* is moving; a call that has yet to find a block looks in the right lists,  *)
(* or is getting pages enough.                                               *)
Finding(c) == c # NULL /\ c.at \in {"malloc", "big"}
OldOf(c) == IF Finding(c) /\ c.old # NULL THEN {c.old} ELSE {}
Requests == in_use \cup UNION {OldOf(op[t]) : t \in Thread}
Enough(h) == Fits(h.size) => BlockSize(h.block) >= h.size
Room(c, k) ==
  Finding(c) /\ Fits(c.size) =>
    /\ c.at = "malloc" => c.size <= c.desc
    /\ c.at = "big" /\ k # NULL => c.size + ArenaSize <= PGSIZE * k.cnt
FitInv == /\ \A h \in Requests : Enough(h)
          /\ \A t \in Thread : Room(op[t], palloc[t])

LEMMA RequestsTaken == \A h \in Requests : h.block \in Taken
BY DEF Requests, Taken, Holding, HoldOf, OldOf, Finding

(* The call of T goes on, and what it adds to the requests has its room. *)
LEMMA FitStep ==
  ASSUME FitInv, Steady, NEW t \in Thread,
         \A u \in Thread : u # t => op'[u] = op[u],
         \A u \in Thread : u # t => palloc'[u] = palloc[u],
         Room(op'[t], palloc'[t]),
         \A h \in in_use' \cup OldOf(op'[t]) : h \in in_use \cup OldOf(op[t]) \/ Enough(h)'
  PROVE  FitInv'
<1>1. ASSUME NEW h \in Requests, h \in Requests' PROVE Enough(h)'
  <2>1. h.block \in Taken /\ h.block \in Taken'
    BY <1>1, RequestsTaken DEF Requests, Taken, Holding, HoldOf, OldOf, Finding
  <2>2. BlockSize(h.block)' = BlockSize(h.block)
    BY <2>1 DEF Steady, BlockSize
  <2> QED BY <1>1, <2>2 DEF FitInv, Enough
<1>2. ASSUME NEW h \in Requests', h \notin Requests PROVE Enough(h)'
  <2>1. h \in in_use' \cup OldOf(op'[t])
    BY <1>2 DEF Requests
  <2>2. h \notin in_use \cup OldOf(op[t])
    BY <1>2 DEF Requests
  <2> QED BY <2>1, <2>2
<1>3. \A u \in Thread : Room(op'[u], palloc'[u])
  BY DEF FitInv
<1> QED BY <1>1, <1>2, <1>3 DEF FitInv

(* A call that finds no more, or is over, needs no room. *)
LEMMA FitEnds ==
  ASSUME TypeOK, FitInv, Steady, NEW t \in Thread,
         NEW c, op' = [op EXCEPT ![t] = c], ~Finding(c),
         \A u \in Thread : u # t => palloc'[u] = palloc[u],
         \A h \in in_use' : h \in in_use \cup OldOf(op[t]) \/ Enough(h)'
  PROVE  FitInv'
<1>1. op'[t] = c /\ \A u \in Thread : u # t => op'[u] = op[u]
  BY DEF TypeOK
<1>2. Room(op'[t], palloc'[t]) /\ OldOf(op'[t]) = {}
  BY <1>1 DEF Room, OldOf
<1> QED BY <1>1, <1>2, FitStep

(* malloc() is called for SIZE bytes, as many as its caller ASKED for unless *)
(* that wraps.                                                               *)
LEMMA FitCall ==
  ASSUME MInv, FitInv, Steady, NEW t \in Thread, Idle(t), NEW size \in Nat, NEW asked \in Nat,
         NEW old \in in_use \cup {NULL}, Fits(asked) => size = asked,
         MallocCall(t, size, asked, old)
  PROVE  FitInv'
<1>1. TypeOK /\ PageInv /\ palloc[t] = NULL /\ old \in Held \cup {NULL}
  BY HeldBlock DEF MInv, CallInv, CallsLinked, Linked, Idle
<1>2. CASE MallocBig(t, size, asked, old)
  <2>1. PICK cnt \in Nat : cnt = BigPages(size)
    BY BigPagesType
  <2>2. PallocGet(t, cnt)
    BY <1>2, <2>1 DEF MallocBig
  <2>3. palloc'[t].cnt = cnt /\ \A u \in Thread : u # t => palloc'[u] = palloc[u]
    BY <1>1, <2>2, GetStep
  <2>4. PICK c \in Call : c = [at |-> "big", size |-> asked, old |-> old]
    BY <1>1, RecordTypes
  <2>5. c.at = "big" /\ c.size = asked /\ c.old = old
    BY <2>4
  <2>6. op' = [op EXCEPT ![t] = c] /\ in_use' = in_use \ {old}
    BY <1>2, <2>4 DEF MallocBig
  <2>7. op'[t] = c /\ \A u \in Thread : u # t => op'[u] = op[u]
    BY <1>1, <2>6 DEF TypeOK
  <2>8. Fits(asked) => asked + ArenaSize <= PGSIZE * cnt
    BY <2>1, BigPagesFit DEF Fits
  <2>9. Room(op'[t], palloc'[t])
    BY <2>3, <2>5, <2>7, <2>8 DEF Room
  <2>10. \A h \in in_use' \cup OldOf(op'[t]) : h \in in_use
    BY <2>5, <2>6, <2>7 DEF OldOf
  <2> QED BY <2>3, <2>7, <2>9, <2>10, FitStep
<1>3. CASE MallocLock(t, size, asked, old)
  <2>1. PICK d \in Desc : d = DescFor(size) /\ d >= size
    BY <1>3, DescriptorFits DEF MallocLock
  <2>2. PICK c \in Call : c = [at |-> "malloc", desc |-> d, size |-> asked, old |-> old]
    BY <1>1, <2>1, RecordTypes
  <2>3. c.at = "malloc" /\ c.desc = d /\ c.size = asked /\ c.old = old
    BY <2>2
  <2>4. op' = [op EXCEPT ![t] = c] /\ in_use' = in_use \ {old} /\ palloc' = palloc
    BY <1>3, <2>1, <2>2 DEF MallocLock, pageVars
  <2>5. op'[t] = c /\ \A u \in Thread : u # t => op'[u] = op[u]
    BY <1>1, <2>4 DEF TypeOK
  <2>6. Fits(asked) => asked <= d
    BY <2>1, Descriptor
  <2>7. Room(op'[t], palloc'[t])
    BY <2>3, <2>5, <2>6 DEF Room
  <2>8. \A h \in in_use' \cup OldOf(op'[t]) : h \in in_use
    BY <2>3, <2>4, <2>5 DEF OldOf
  <2> QED BY <2>4, <2>5, <2>7, <2>8, FitStep
<1> QED BY <1>2, <1>3 DEF MallocCall

(* A call of palloc starts, goes on or ends while malloc() waits for it. *)
LEMMA FitWaits ==
  ASSUME MInv, FitInv, Steady, ~lost', NEW t \in Thread,
         \/ MallocGet(t) \/ MallocRefill(t)
         \/ MarkLoad(t) \/ ResetLoad(t) \/ MarkNext(t) \/ ResetNext(t)
  PROVE  FitInv'
<1>1. TypeOK /\ PageInv
  BY DEF MInv, CallInv
<1>2. UNCHANGED <<op, in_use>>
  BY DEF MallocGet, MallocRefill, MarkLoad, ResetLoad, Load, MarkNext, ResetNext, NextBit
<1>3. /\ \A u \in Thread : u # t => palloc'[u] = palloc[u]
      /\ op[t].at = "malloc" \/ (palloc[t] # NULL /\ palloc'[t].cnt = palloc[t].cnt)
  <2>1. CASE MallocGet(t)
    <3>1. PICK one \in Nat : one = 1
      OBVIOUS
    <3> QED BY <1>1, <2>1, <3>1, GetStep DEF MallocGet, At
  <2>2. CASE MallocRefill(t)
    BY <1>1, <2>2, GotStep DEF MallocRefill
  <2>3. CASE MarkLoad(t) \/ ResetLoad(t)
    BY <1>1, <2>3, LoadStep DEF MarkLoad, ResetLoad
  <2>4. CASE MarkNext(t) \/ ResetNext(t)
    BY <1>1, <2>4, MarkStep, ResetStep
  <2> QED BY <2>1, <2>2, <2>3, <2>4
<1>4. Room(op'[t], palloc'[t])
  BY <1>2, <1>3 DEF FitInv, Room
<1> QED BY <1>2, <1>3, <1>4, FitStep

(* free(), and a malloc() that fails. *)
LEMMA FitGives ==
  ASSUME MInv, FitInv, Steady, MInv', NEW t \in Thread,
         \/ MallocFails(t) \/ FreeArena(t) \/ FreeBlock(t) \/ FreeGave(t)
         \/ \E h \in in_use : Free(t, h)
  PROVE  FitInv'
<1>1. TypeOK /\ ~panicked'
  BY DEF MInv, CallInv, Sound
<1>2. ASSUME NEW c, c = NULL \/ c.at \in {"free", "free_lock", "give"},
             op' = [op EXCEPT ![t] = c],
             \A u \in Thread : u # t => palloc'[u] = palloc[u],
             in_use' \subseteq in_use \cup OldOf(op[t])
      PROVE  FitInv'
  <2>1. ~Finding(c)
    BY <1>2 DEF Finding
  <2> QED BY <1>1, <1>2, <2>1, FitEnds
<1>3. ASSUME NEW k, palloc' = [palloc EXCEPT ![t] = k]
      PROVE  \A u \in Thread : u # t => palloc'[u] = palloc[u]
  BY <1>1, <1>3 DEF TypeOK
<1>4. CASE MallocFails(t)
  <2>1. Finding(op[t])
    BY <1>4 DEF MallocFails, At, Finding
  <2>2. /\ op' = [op EXCEPT ![t] = NULL] /\ in_use' = in_use \cup ({op[t].old} \ {NULL})
        /\ palloc' = palloc
    BY <1>4 DEF MallocFails, pageVars
  <2>3. in_use' \subseteq in_use \cup OldOf(op[t])
    BY <2>1, <2>2 DEF OldOf
  <2> QED BY <1>2, <2>2, <2>3
<1>5. CASE FreeArena(t)
  <2>1. PICK c : c = [at |-> "free_lock", desc |-> arena[op[t].block.page].desc,
                      block |-> op[t].block]
    OBVIOUS
  <2>2. PICK e : e = [at |-> "give", desc |-> NULL]
    OBVIOUS
  <2>3. c.at = "free_lock" /\ e.at = "give"
    BY <2>1, <2>2
  <2>4. \/ op' = [op EXCEPT ![t] = c] /\ in_use' = in_use /\ palloc' = palloc
        \/ /\ op' = [op EXCEPT ![t] = e] /\ in_use' = in_use
           /\ \A u \in Thread : u # t => palloc'[u] = palloc[u]
    BY <1>1, <1>3, <1>5, <2>1, <2>2 DEF FreeArena, Panic, PallocFree, pageVars
  <2> QED BY <1>2, <2>3, <2>4
<1>6. CASE FreeBlock(t)
  <2>1. PICK e : e = [at |-> "give", desc |-> op[t].desc]
    OBVIOUS
  <2>2. e.at = "give"
    BY <2>1
  <2>3. \/ op' = [op EXCEPT ![t] = NULL] /\ in_use' = in_use /\ palloc' = palloc
        \/ /\ op' = [op EXCEPT ![t] = e] /\ in_use' = in_use
           /\ \A u \in Thread : u # t => palloc'[u] = palloc[u]
    BY <1>1, <1>3, <1>6, <2>1 DEF FreeBlock, Panic, PallocFree, pageVars
  <2> QED BY <1>2, <2>2, <2>3
<1>7. CASE FreeGave(t)
  BY <1>2, <1>3, <1>7 DEF FreeGave, PallocGave
<1>8. ASSUME NEW h \in in_use, Free(t, h) PROVE FitInv'
  <2>1. PICK c : c = [at |-> "free", block |-> h.block]
    OBVIOUS
  <2>2. /\ c.at = "free" /\ op' = [op EXCEPT ![t] = c] /\ in_use' = in_use \ {h}
        /\ palloc' = palloc
    BY <1>8, <2>1 DEF Free, pageVars
  <2> QED BY <1>2, <2>2
<1> QED BY <1>4, <1>5, <1>6, <1>7, <1>8

(* malloc() returns a block that is big enough. *)
LEMMA FitReturns ==
  ASSUME TypeOK, FitInv, Steady, NEW t \in Thread, NEW b, NEW size, NEW old,
         Returns(t, b, size, old), \A u \in Thread : u # t => palloc'[u] = palloc[u],
         Fits(size) => BlockSize(b)' >= size
  PROVE  FitInv'
<1>1. PICK c : c = IF old = NULL THEN NULL ELSE [at |-> "free", block |-> old.block]
  OBVIOUS
<1>2. ~Finding(c)
  BY <1>1 DEF Finding
<1>3. PICK k : k = [block |-> b, size |-> size] /\ k.block = b /\ k.size = size
  <2>1. PICK k : k = [block |-> b, size |-> size]
    OBVIOUS
  <2> QED BY <2>1
<1>4. op' = [op EXCEPT ![t] = c] /\ in_use' = (in_use \ {old}) \cup {k}
  BY <1>1, <1>3 DEF Returns
<1>5. Enough(k)'
  BY <1>3 DEF Enough
<1>6. \A h \in in_use' : h \in in_use \cup OldOf(op[t]) \/ Enough(h)'
  BY <1>4, <1>5
<1> QED BY <1>2, <1>4, <1>6, FitEnds

LEMMA FitPop ==
  ASSUME MInv, FitInv, Steady, MInv', NEW t \in Thread, MallocPop(t)
  PROVE  FitInv'
<1>1. TypeOK /\ MemInv /\ ~panicked'
  BY DEF MInv, CallInv, Sound
<1>2. op[t] # NULL /\ op[t].at = "malloc"
  BY DEF MallocPop, At
<1>3. PICK d \in Desc : d = op[t].desc /\ free_list[d] # <<>>
  BY <1>2, AtMalloc DEF MallocPop
<1>4. PICK b \in Block : b = Head(free_list[d]) /\ b \in Range(free_list[d])
  BY <1>1, <1>3, RangeTail DEF TypeOK
<1>5. PICK p \in Page : p = b.page /\ arena[p] # NULL /\ arena[p].desc = d
  BY <1>1, <1>4 DEF MemInv, ListedInArena
<1>6. PICK size \in Nat : size = op[t].size
  BY <1>2, AtMalloc
<1>7. Fits(size) => size <= d
  BY <1>2, <1>3, <1>6 DEF FitInv, Room, Finding
<1>8. /\ arena' = [arena EXCEPT ![p] = Drawn(arena[p])] /\ Returns(t, b, size, op[t].old)
      /\ palloc' = palloc
  BY <1>1, <1>3, <1>4, <1>5, <1>6 DEF MallocPop, Panic, pageVars
<1>9. BlockSize(b)' = d
  <2>1. arena[p] \in Arena
    BY <1>1, <1>5 DEF TypeOK
  <2>2. Drawn(arena[p]).desc = d
    BY <1>5, <2>1 DEF Drawn, Arena
  <2>3. arena'[p] = Drawn(arena[p])
    BY <1>1, <1>8 DEF TypeOK
  <2> QED BY <1>5, <2>2, <2>3, Descriptor DEF BlockSize
<1>10. Fits(size) => BlockSize(b)' >= size
  BY <1>7, <1>9, Descriptor
<1> QED BY <1>1, <1>8, <1>10, FitReturns

LEMMA FitGotBig ==
  ASSUME MInv, FitInv, Steady, ~lost', NEW t \in Thread, MallocGotBig(t)
  PROVE  FitInv'
<1>1. TypeOK /\ PageInv
  BY DEF MInv, CallInv
<1>2. PallocGot(t) /\ op[t].at = "big"
  BY DEF MallocGotBig
<1>3. palloc[t] # NULL /\ \A u \in Thread : u # t => palloc'[u] = palloc[u]
  BY <1>1, <1>2, GotStep
<1>4. op[t] # NULL
  BY <1>3 DEF MInv, CallsLinked, Linked
<1>5. PICK p \in Page : p = palloc[t].page
  BY <1>1, <1>2, GotStep
<1>6. PICK cnt \in Nat : cnt = palloc[t].cnt
  BY <1>1, <1>2, GotStep
<1>7. PICK size \in Nat : size = op[t].size
  BY <1>1, <1>2, <1>4, AtBig
<1>8. Fits(size) => size + ArenaSize <= PGSIZE * cnt
  BY <1>2, <1>3, <1>4, <1>6, <1>7 DEF FitInv, Room, Finding
<1>9. PICK new \in Block : new = [page |-> p, ofs |-> ArenaSize]
  BY GeometryAssumption DEF Block
<1>10. /\ arena' = [arena EXCEPT ![p] = [desc |-> NULL, free_cnt |-> cnt]]
       /\ Returns(t, new, size, op[t].old)
  BY <1>5, <1>6, <1>7, <1>9 DEF MallocGotBig
<1>11. Fits(size) => BlockSize(new)' >= size
  <2>1. arena'[p] = [desc |-> NULL, free_cnt |-> cnt]
    BY <1>1, <1>10 DEF TypeOK
  <2>2. arena'[p].desc = NULL /\ arena'[p].free_cnt = cnt
    BY <2>1
  <2>3. new.page = p /\ new.ofs = ArenaSize
    BY <1>9
  <2>4. BlockSize(new)' = PGSIZE * cnt - ArenaSize
    BY <2>2, <2>3 DEF BlockSize
  <2>5. ArenaSize \in Nat /\ PGSIZE * cnt \in Nat
    BY GeometryAssumption
  <2> QED BY <1>8, <2>4, <2>5
<1> QED BY <1>1, <1>3, <1>10, <1>11, FitReturns

LEMMA FitNext == ASSUME MInv, FitInv, Next, ~lost' PROVE FitInv'
<1>1. Steady /\ MInv'
  BY MallocStep
<1>2. PICK none \in in_use \cup {NULL} : none = NULL
  OBVIOUS
<1>3. ASSUME NEW t \in Thread, NEW size \in Sizes, Malloc(t, size) PROVE FitInv'
  <2>1. size \in Nat
    BY SizeAssumption
  <2>2. Idle(t) /\ MallocCall(t, size, size, none)
    BY <1>2, <1>3 DEF Malloc
  <2> QED BY <1>1, <2>1, <2>2, FitCall
<1>4. ASSUME NEW t \in Thread, NEW args \in CallocArgs, Calloc(t, args[1], args[2])
      PROVE  FitInv'
  <2>1. args[1] \in Nat /\ args[2] \in Nat /\ SizeRange \in Nat \ {0}
    BY SizeAssumption
  <2>2. PICK asked \in Nat : asked = args[1] * args[2]
    BY <2>1
  <2>3. PICK size \in Nat : size = asked % SizeRange
    BY <2>1
  <2>4. Fits(asked) => size = asked
    BY <2>1, <2>3, GeometryAssumption DEF Fits
  <2>5. Idle(t) /\ MallocCall(t, size, asked, none)
    BY <1>2, <1>4, <2>2, <2>3 DEF Calloc
  <2> QED BY <1>1, <2>4, <2>5, FitCall
<1>5. ASSUME NEW t \in Thread, NEW h \in in_use, NEW size \in Sizes, Realloc(t, h, size)
      PROVE  FitInv'
  <2>1. size \in Nat
    BY SizeAssumption
  <2>2. Idle(t) /\ MallocCall(t, size, size, h)
    BY <1>5 DEF Realloc
  <2> QED BY <1>1, <2>1, <2>2, FitCall
<1>6. ASSUME NEW t \in Thread, MallocPop(t) \/ MallocGotBig(t) PROVE FitInv'
  BY <1>1, <1>6, FitPop, FitGotBig
<1>7. ASSUME NEW t \in Thread,
             \/ MallocGet(t) \/ MallocRefill(t)
             \/ MarkLoad(t) \/ ResetLoad(t) \/ MarkNext(t) \/ ResetNext(t)
      PROVE  FitInv'
  BY <1>1, <1>7, FitWaits
<1>8. ASSUME NEW t \in Thread,
             \/ MallocFails(t) \/ FreeArena(t) \/ FreeBlock(t) \/ FreeGave(t)
             \/ \E h \in in_use : Free(t, h)
      PROVE  FitInv'
  BY <1>1, <1>8, FitGives
<1> QED BY <1>3, <1>4, <1>5, <1>6, <1>7, <1>8 DEF Next

(* A block is as big as its caller asked for, and stays so until the caller  *)
(* gives it back, whatever sizes the others ask for: for every request that  *)
(* does not wrap with its header, rounded up to pages, and until an update   *)
(* of the bitmap is lost.                                                    *)
THEOREM RequestHeld == Spec => []HoldsRequest
<1>1. Init => FitInv
  <2> SUFFICES ASSUME Init PROVE FitInv
    OBVIOUS
  <2>1. \A t \in Thread : ~Finding(op[t])
    BY DEF Init, Finding
  <2>2. \A t \in Thread : OldOf(op[t]) = {}
    BY <2>1 DEF OldOf
  <2>3. Requests = {}
    BY <2>2 DEF Init, Requests
  <2>4. \A t \in Thread : Room(op[t], palloc[t])
    BY <2>1 DEF Room
  <2> QED BY <2>3, <2>4 DEF FitInv
<1>2. (lost \/ MInv) /\ (lost \/ FitInv) /\ [Next]_vars => (lost \/ FitInv)'
  <2> SUFFICES ASSUME lost \/ MInv, lost \/ FitInv, [Next]_vars, ~lost' PROVE FitInv'
    OBVIOUS
  <2>1. MInv /\ FitInv
    BY LostStays
  <2>2. CASE UNCHANGED vars
    <3>1. Requests' = Requests
      BY <2>2 DEF vars, Requests
    <3>2. \A b : BlockSize(b)' = BlockSize(b)
      BY <2>2 DEF vars, BlockSize
    <3>3. UNCHANGED <<op, palloc>>
      BY <2>2 DEF vars, pageVars
    <3> QED BY <2>1, <3>1, <3>2, <3>3 DEF FitInv, Enough
  <2> QED BY <2>1, <2>2, FitNext
<1>3. lost \/ FitInv => HoldsRequest
  BY DEF FitInv, HoldsRequest, Requests, Enough
<1> QED BY <1>1, <1>2, <1>3, MallocInvariance, PTL DEF Spec
=============================================================================
