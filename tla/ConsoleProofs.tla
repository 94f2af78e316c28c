---------------------------- MODULE ConsoleProofs ----------------------------
(***************************************************************************)
(* Two results about printing, for any number of tasks and any messages.   *)
(* write_cnt of console.c, which tasks increment by a load and a store     *)
(* that anything may come between, never exceeds what was written.  And    *)
(* the screen of video.c shows the text that was written, the cursor at    *)
(* its end, for any geometry in which a character fits.                    *)
(***************************************************************************)
EXTENDS Console, DataLemmas, FiniteSetTheorems

(* Characters that are counted and not yet on the screen. *)
Counted == {t \in Task : pc[t] = "video"}

ConsoleType ==
  /\ write_cnt \in Nat /\ written \in Nat
  /\ register \in [Task -> Nat]
  /\ pc \in [Task -> {"colour", "print", "load", "store", "video"}]

(* A count that a task has loaded may be stale, but it was right once, and   *)
(* what was written since only adds to what it may claim.                    *)
LoadedNotOver ==
  \A t \in Task : pc[t] = "store" => register[t] <= written + Cardinality(Counted)

ConsoleInv == ConsoleType /\ CountNotOver /\ LoadedNotOver

-----------------------------------------------------------------------------
LEMMA CountedSize == IsFiniteSet(Counted) /\ Cardinality(Counted) \in Nat
<1>1. IsFiniteSet(Counted)
  BY ConsoleAssumption, FS_Subset DEF Counted
<1> QED BY <1>1, FS_CardinalityType

(* A task goes on to point TO: what that does to the characters counted. *)
LEMMA CountedStep ==
  ASSUME ConsoleType, NEW t \in Task, NEW to, pc' = [pc EXCEPT ![t] = to]
  PROVE  /\ pc[t] # "video" /\ to # "video" => Counted' = Counted
         /\ pc[t] # "video" /\ to = "video" =>
              Cardinality(Counted') = Cardinality(Counted) + 1
         /\ pc[t] = "video" /\ to # "video" =>
              Cardinality(Counted') = Cardinality(Counted) - 1
<1>1. pc'[t] = to /\ \A u \in Task : u # t => pc'[u] = pc[u]
  BY DEF ConsoleType
<1>2. CASE pc[t] # "video" /\ to # "video"
  BY <1>1, <1>2 DEF Counted
<1>3. CASE pc[t] # "video" /\ to = "video"
  <2>1. Counted' = Counted \cup {t} /\ t \notin Counted
    BY <1>1, <1>3 DEF Counted
  <2> QED BY <1>3, <2>1, CountedSize, FS_AddElement
<1>4. CASE pc[t] = "video" /\ to # "video"
  <2>1. Counted' = Counted \ {t} /\ t \in Counted
    BY <1>1, <1>4 DEF Counted
  <2> QED BY <1>4, <2>1, CountedSize, FS_RemoveElement
<1> QED BY <1>2, <1>3, <1>4

(* The counts in a state where PC is at hand. *)
LEMMA Counts == CountNotOver <=> write_cnt <= written + Cardinality(Counted)
BY DEF CountNotOver, Counted

LEMMA CountsNext == CountNotOver' <=> write_cnt' <= written' + Cardinality(Counted')
BY DEF CountNotOver, Counted

-----------------------------------------------------------------------------
LEMMA ConsoleStart == ConsoleInit => ConsoleInv
<1> SUFFICES ASSUME ConsoleInit PROVE ConsoleInv
  OBVIOUS
<1>1. ConsoleType
  BY DEF ConsoleInit, ConsoleType
<1>2. CountNotOver
  BY CountedSize, Counts DEF ConsoleInit
<1>3. LoadedNotOver
  BY DEF ConsoleInit, LoadedNotOver
<1> QED BY <1>1, <1>2, <1>3 DEF ConsoleInv

(* SetForeColour() and the call of vprintf() count nothing. *)
LEMMA QuietInv ==
  ASSUME ConsoleInv, NEW t \in Task, NEW to \in {"print", "load"},
         pc[t] \in {"colour", "print"}, pc' = [pc EXCEPT ![t] = to],
         UNCHANGED <<write_cnt, written, register>>
  PROVE  ConsoleInv'
<1>1. ConsoleType /\ ConsoleType'
  BY DEF ConsoleInv, ConsoleType
<1>2. Counted' = Counted
  BY <1>1, CountedStep
<1>3. CountNotOver'
  BY <1>2, Counts, CountsNext DEF ConsoleInv
<1>4. LoadedNotOver'
  BY <1>1, <1>2 DEF ConsoleInv, ConsoleType, LoadedNotOver
<1> QED BY <1>1, <1>3, <1>4 DEF ConsoleInv

LEMMA LoadInv ==
  ASSUME ConsoleInv, NEW t \in Task, CountLoad(t) PROVE ConsoleInv'
<1>1. ConsoleType /\ ConsoleType'
  BY DEF ConsoleInv, ConsoleType, CountLoad
<1>2. Counted' = Counted
  <2>1. PICK to : to = "store" /\ pc' = [pc EXCEPT ![t] = to]
    BY DEF CountLoad
  <2>2. pc[t] # "video" /\ to # "video"
    BY <2>1 DEF CountLoad
  <2> QED BY ONLY <1>1, <2>1, <2>2, CountedStep
<1>3. CountNotOver'
  BY <1>2, Counts, CountsNext DEF ConsoleInv, CountLoad
<1>4. LoadedNotOver'
  <2> SUFFICES ASSUME NEW u \in Task, pc'[u] = "store"
               PROVE  register'[u] <= written' + Cardinality(Counted')
    BY DEF LoadedNotOver
  <2>1. CASE u = t
    <3>1. register'[u] = write_cnt /\ written' = written
      BY <1>1, <2>1 DEF ConsoleType, CountLoad
    <3> QED BY <1>2, <3>1, Counts DEF ConsoleInv
  <2>2. CASE u # t
    <3>1. pc[u] = "store" /\ register'[u] = register[u] /\ written' = written
      BY <1>1, <2>2 DEF ConsoleType, CountLoad
    <3> QED BY <1>2, <3>1 DEF ConsoleInv, LoadedNotOver
  <2> QED BY <2>1, <2>2
<1> QED BY <1>1, <1>3, <1>4 DEF ConsoleInv

LEMMA StoreInv ==
  ASSUME ConsoleInv, NEW t \in Task, CountStore(t) PROVE ConsoleInv'
<1>1. ConsoleType /\ ConsoleType'
  BY DEF ConsoleInv, ConsoleType, CountStore
<1>2. PICK n \in Nat : n = Cardinality(Counted)
  BY CountedSize
<1>3. Cardinality(Counted') = n + 1
  BY <1>1, <1>2, CountedStep DEF CountStore
<1>4. PICK r \in Nat : r = register[t] /\ write_cnt' = r + 1 /\ r <= written + n
  BY <1>1, <1>2 DEF ConsoleType, ConsoleInv, LoadedNotOver, CountStore
<1>5. written \in Nat /\ written' = written
  BY <1>1 DEF ConsoleType, CountStore
<1>6. CountNotOver'
  BY <1>3, <1>4, <1>5, CountsNext
<1>7. LoadedNotOver'
  <2> SUFFICES ASSUME NEW u \in Task, pc'[u] = "store"
               PROVE  register'[u] <= written' + Cardinality(Counted')
    BY DEF LoadedNotOver
  <2>1. pc[u] = "store" /\ register'[u] = register[u] /\ register[u] \in Nat
    BY <1>1 DEF ConsoleType, CountStore
  <2>2. register[u] <= written + n
    BY <1>2, <2>1 DEF ConsoleInv, LoadedNotOver
  <2> QED BY <1>3, <1>5, <2>1, <2>2
<1> QED BY <1>1, <1>6, <1>7 DEF ConsoleInv

LEMMA VideoInv ==
  ASSUME ConsoleInv, NEW t \in Task, VideoPutc(t) PROVE ConsoleInv'
<1>1. ConsoleType
  BY DEF ConsoleInv
<1>2. PICK to \in {"colour", "load"} : pc' = [pc EXCEPT ![t] = to]
  BY DEF VideoPutc
<1>3. pc[t] = "video" /\ UNCHANGED <<write_cnt, register>>
  BY DEF VideoPutc
<1>4. written \in Nat /\ written' = written + 1
  <2>1. Len(<<Head(rest[t])>>) = 1
    OBVIOUS
  <2> QED BY <1>1, <2>1 DEF ConsoleType, VideoPutc, Show
<1>5. ConsoleType'
  BY <1>1, <1>2, <1>3, <1>4 DEF ConsoleType
<1>6. PICK n \in Nat : n = Cardinality(Counted)
  BY CountedSize
<1>7. Cardinality(Counted') = n - 1
  BY <1>1, <1>2, <1>3, <1>6, CountedStep
<1>8. CountNotOver'
  <2>1. write_cnt \in Nat /\ write_cnt <= written + n
    BY <1>1, <1>6, Counts DEF ConsoleInv, ConsoleType
  <2> QED BY <1>3, <1>4, <1>7, <2>1, CountsNext
<1>9. LoadedNotOver'
  <2> SUFFICES ASSUME NEW u \in Task, pc'[u] = "store"
               PROVE  register'[u] <= written' + Cardinality(Counted')
    BY DEF LoadedNotOver
  <2>1. pc[u] = "store" /\ register'[u] = register[u] /\ register[u] \in Nat
    BY <1>1, <1>2, <1>3 DEF ConsoleType
  <2>2. register[u] <= written + n
    BY <1>6, <2>1 DEF ConsoleInv, LoadedNotOver
  <2> QED BY <1>4, <1>7, <2>1, <2>2
<1> QED BY <1>5, <1>8, <1>9 DEF ConsoleInv

(* printf() with interrupts masked writes and counts as many characters. *)
LEMMA MaskedInv ==
  ASSUME ConsoleInv, NEW m \in IrqMessage, MaskedPrintf(m) \/ MainPrintf(m)
  PROVE  ConsoleInv'
<1>1. ConsoleType
  BY DEF ConsoleInv
<1>2. PICK k \in Nat : k = Len(m)
  BY ConsoleAssumption
<1>3. /\ written' = written + k /\ write_cnt' = write_cnt + k
      /\ UNCHANGED <<pc, register>>
  BY <1>2 DEF MaskedPrintf, MainPrintf, MaskedShow, Show
<1>4. written \in Nat /\ write_cnt \in Nat
  BY <1>1 DEF ConsoleType
<1>5. ConsoleType'
  BY <1>1, <1>3, <1>4 DEF ConsoleType
<1>6. PICK n \in Nat : n = Cardinality(Counted)
  BY CountedSize
<1>7. Cardinality(Counted') = n
  BY <1>3, <1>6 DEF Counted
<1>8. CountNotOver'
  <2>1. write_cnt <= written + n
    BY <1>6, Counts DEF ConsoleInv
  <2> QED BY <1>3, <1>4, <1>7, <2>1, CountsNext
<1>9. LoadedNotOver'
  <2> SUFFICES ASSUME NEW u \in Task, pc'[u] = "store"
               PROVE  register'[u] <= written' + Cardinality(Counted')
    BY DEF LoadedNotOver
  <2>1. pc[u] = "store" /\ register'[u] = register[u] /\ register[u] \in Nat
    BY <1>1, <1>3 DEF ConsoleType
  <2>2. register[u] <= written + n
    BY <1>6, <2>1 DEF ConsoleInv, LoadedNotOver
  <2> QED BY <1>3, <1>4, <1>7, <2>1, <2>2
<1> QED BY <1>5, <1>8, <1>9 DEF ConsoleInv

(* console_print_stats() never reports more characters than were written or  *)
(* are being written, however many increments of write_cnt overlap: each     *)
(* lost update loses a count, and a stale one never brings a count back.     *)
THEOREM CountBounded == ConsoleSpec => []CountNotOver
<1>1. ASSUME ConsoleInv, [ConsoleNext]_consoleVars PROVE ConsoleInv'
  <2>1. CASE UNCHANGED consoleVars
    <3>1. Counted' = Counted
      BY <2>1 DEF consoleVars, Counted
    <3>2. CountNotOver'
      BY <1>1, <2>1, <3>1, Counts, CountsNext DEF consoleVars, ConsoleInv
    <3> QED BY <1>1, <2>1, <3>1, <3>2 DEF consoleVars, ConsoleInv, ConsoleType, LoadedNotOver
  <2>2. ASSUME NEW t \in Task, ChooseColour(t) PROVE ConsoleInv'
    BY <1>1, <2>2, QuietInv DEF ChooseColour
  <2>3. ASSUME NEW t \in Task, NEW m \in Message, Vprintf(t, m) PROVE ConsoleInv'
    BY <1>1, <2>3, QuietInv DEF Vprintf
  <2>4. ASSUME NEW t \in Task, CountLoad(t) PROVE ConsoleInv'
    BY <1>1, <2>4, LoadInv
  <2>5. ASSUME NEW t \in Task, CountStore(t) PROVE ConsoleInv'
    BY <1>1, <2>5, StoreInv
  <2>6. ASSUME NEW t \in Task, VideoPutc(t) PROVE ConsoleInv'
    BY <1>1, <2>6, VideoInv
  <2>7. ASSUME NEW m \in IrqMessage, MaskedPrintf(m) \/ MainPrintf(m) PROVE ConsoleInv'
    BY <1>1, <2>7, MaskedInv
  <2> QED BY <1>1, <2>1, <2>2, <2>3, <2>4, <2>5, <2>6, <2>7 DEF ConsoleNext
<1>2. ConsoleInv => CountNotOver
  BY DEF ConsoleInv
<1> QED BY <1>1, <1>2, ConsoleStart, PTL DEF ConsoleSpec

-----------------------------------------------------------------------------
(* Where byte I of the framebuffer is: the column and the row of text, from   *)
(* zero, and the dot of the character there.                                  *)
ColumnOf(i) == PixelOf(i)[1] \div FONT_WIDTH
RowOf(i) == PixelOf(i)[2] \div FONT_HEIGHT
DotOf(i) == <<PixelOf(i)[1] % FONT_WIDTH, PixelOf(i)[2] % FONT_HEIGHT>>

Line == SCREEN_WIDTH * BYTES_PER_PIXEL
Byte == 0 .. ScreenBytes - 1

LEMMA Sizes ==
  /\ SCREEN_WIDTH \in Nat \ {0} /\ SCREEN_HEIGHT \in Nat \ {0}
  /\ FONT_WIDTH \in Nat \ {0} /\ FONT_HEIGHT \in Nat \ {0}
  /\ BYTES_PER_PIXEL \in Nat \ {0} /\ BLOCK \in Nat \ {0} /\ WORD \in Nat \ {0}
BY GeometryAssumption

LEMMA LineSize ==
  /\ Line \in Nat \ {0}
  /\ RowSize \in Nat \ {0} /\ RowSize = Line * FONT_HEIGHT
  /\ ScreenBytes \in Nat \ {0} /\ ScreenBytes = Line * SCREEN_HEIGHT
<1>1. Line \in Nat \ {0}
  BY Sizes DEF Line
<1>2. RowSize = Line * FONT_HEIGHT
  BY DEF RowSize, Line
<1>3. ScreenBytes = Line * SCREEN_HEIGHT
  BY Sizes DEF ScreenBytes, Line
<1>4. \A m, n \in Nat \ {0} : m * n \in Nat \ {0}
  OBVIOUS
<1> QED BY <1>1, <1>2, <1>3, <1>4, Sizes

(* Whole rows and columns of text, and less than one more of either. *)
LEMMA WholeRows ==
  /\ Rows \in Nat \ {0} /\ Columns \in Nat \ {0}
  /\ FONT_HEIGHT * Rows \in Nat /\ FONT_WIDTH * Columns \in Nat
  /\ FONT_HEIGHT * Rows <= SCREEN_HEIGHT /\ SCREEN_HEIGHT < FONT_HEIGHT * Rows + FONT_HEIGHT
  /\ FONT_WIDTH * Columns <= SCREEN_WIDTH /\ SCREEN_WIDTH < FONT_WIDTH * Columns + FONT_WIDTH
<1>1. /\ Rows \in Nat /\ Columns \in Nat
      /\ FONT_HEIGHT * Rows <= SCREEN_HEIGHT /\ SCREEN_HEIGHT < FONT_HEIGHT * Rows + FONT_HEIGHT
      /\ FONT_WIDTH * Columns <= SCREEN_WIDTH /\ SCREEN_WIDTH < FONT_WIDTH * Columns + FONT_WIDTH
  BY Sizes, Division DEF Rows, Columns
<1>2. FONT_HEIGHT <= SCREEN_HEIGHT /\ FONT_WIDTH <= SCREEN_WIDTH
  BY GeometryAssumption
<1>3. Rows # 0 /\ Columns # 0
  BY <1>1, <1>2, Sizes
<1>4. FONT_HEIGHT * Rows \in Nat /\ FONT_WIDTH * Columns \in Nat
  BY <1>1, Sizes
<1> QED BY <1>1, <1>3, <1>4

(* The pixel of a byte: on which line it is, and a row further down. *)
LEMMA Pixel ==
  ASSUME NEW i \in Nat
  PROVE  /\ PixelOf(i) = <<PixelOf(i)[1], PixelOf(i)[2]>>
         /\ PixelOf(i)[1] \in 0 .. SCREEN_WIDTH - 1 /\ PixelOf(i)[2] \in Nat
<1>1. PICK p \in Nat : p = i \div BYTES_PER_PIXEL
  BY Sizes, Division
<1>2. p % SCREEN_WIDTH \in 0 .. SCREEN_WIDTH - 1 /\ p \div SCREEN_WIDTH \in Nat
  BY Sizes, Division, Remainder
<1>3. PixelOf(i) = <<p % SCREEN_WIDTH, p \div SCREEN_WIDTH>>
  BY <1>1 DEF PixelOf
<1> QED BY <1>2, <1>3

LEMMA PixelLine ==
  ASSUME NEW i \in Nat, NEW m \in Nat
  PROVE  PixelOf(i)[2] >= m <=> i >= Line * m
<1>1. PICK p \in Nat : p = i \div BYTES_PER_PIXEL
  BY Sizes, Division
<1>2. PixelOf(i)[2] = p \div SCREEN_WIDTH
  BY <1>1 DEF PixelOf
<1>3. p \div SCREEN_WIDTH >= m <=> p >= SCREEN_WIDTH * m
  BY Sizes, Quotient
<1>4. PICK w \in Nat : w = SCREEN_WIDTH * m
  BY Sizes
<1>5. p >= w <=> i >= BYTES_PER_PIXEL * w
  BY <1>1, Sizes, Quotient
<1>6. BYTES_PER_PIXEL * w = Line * m
  BY <1>4, Sizes DEF Line
<1> QED BY <1>2, <1>3, <1>4, <1>5, <1>6

LEMMA PixelBelow ==
  ASSUME NEW i \in Nat
  PROVE  PixelOf(i + RowSize) = <<PixelOf(i)[1], PixelOf(i)[2] + FONT_HEIGHT>>
<1>1. PICK p \in Nat : p = i \div BYTES_PER_PIXEL
  BY Sizes, Division
<1>2. PICK w \in Nat : w = SCREEN_WIDTH * FONT_HEIGHT
  BY Sizes
<1>3. RowSize = BYTES_PER_PIXEL * w
  BY <1>2, Sizes DEF RowSize
<1>4. (i + RowSize) \div BYTES_PER_PIXEL = p + w
  <2>1. (i + BYTES_PER_PIXEL * w) \div BYTES_PER_PIXEL = i \div BYTES_PER_PIXEL + w
    BY Sizes, Shift
  <2> QED BY ONLY <1>1, <1>3, <2>1
<1>5. (p + w) % SCREEN_WIDTH = p % SCREEN_WIDTH
      /\ (p + w) \div SCREEN_WIDTH = p \div SCREEN_WIDTH + FONT_HEIGHT
  BY <1>2, Sizes, Shift
<1> QED BY <1>1, <1>4, <1>5 DEF PixelOf

(* The place of a byte, and of the byte one row of text below it. *)
LEMMA Place ==
  ASSUME NEW i \in Nat
  PROVE  ColumnOf(i) \in Nat /\ RowOf(i) \in Nat
BY Pixel, Sizes, Division DEF ColumnOf, RowOf

LEMMA PlaceBelow ==
  ASSUME NEW i \in Nat
  PROVE  /\ ColumnOf(i + RowSize) = ColumnOf(i)
         /\ RowOf(i + RowSize) = RowOf(i) + 1
         /\ DotOf(i + RowSize) = DotOf(i)
<1>1. PICK x \in Nat, y \in Nat : x = PixelOf(i)[1] /\ y = PixelOf(i)[2]
  BY Pixel
<1>2. PixelOf(i + RowSize)[1] = x /\ PixelOf(i + RowSize)[2] = y + FONT_HEIGHT
  BY <1>1, PixelBelow
<1>3. PICK m \in Nat : m = 1 /\ y + FONT_HEIGHT = y + FONT_HEIGHT * m
  BY Sizes
<1>4. (y + FONT_HEIGHT) \div FONT_HEIGHT = y \div FONT_HEIGHT + 1
      /\ (y + FONT_HEIGHT) % FONT_HEIGHT = y % FONT_HEIGHT
  <2>1. (y + FONT_HEIGHT * m) \div FONT_HEIGHT = y \div FONT_HEIGHT + m
        /\ (y + FONT_HEIGHT * m) % FONT_HEIGHT = y % FONT_HEIGHT
    BY Sizes, Shift
  <2> QED BY ONLY <1>3, <2>1
<1> QED BY <1>1, <1>2, <1>4 DEF ColumnOf, RowOf, DotOf

(* The bytes of one character, of one row and of the dots of a glyph. *)
LEMMA InCell ==
  ASSUME NEW i \in Nat, NEW k \in Nat, NEW n \in Nat
  PROVE  PixelOf(i) \in (FONT_WIDTH * k .. FONT_WIDTH * k + FONT_WIDTH - 1)
                          \X (FONT_HEIGHT * n .. FONT_HEIGHT * n + FONT_HEIGHT - 1)
           <=> ColumnOf(i) = k /\ RowOf(i) = n
<1>1. PICK x \in Nat, y \in Nat : x = PixelOf(i)[1] /\ y = PixelOf(i)[2] /\ PixelOf(i) = <<x, y>>
  BY Pixel
<1>2. PICK a \in Nat, b \in Nat : a = FONT_WIDTH * k /\ b = FONT_HEIGHT * n
  BY Sizes
<1>3. ColumnOf(i) = k <=> a <= x /\ x < a + FONT_WIDTH
  BY <1>1, <1>2, Sizes, Quotient DEF ColumnOf
<1>4. RowOf(i) = n <=> b <= y /\ y < b + FONT_HEIGHT
  BY <1>1, <1>2, Sizes, Quotient DEF RowOf
<1>5. x \in a .. a + FONT_WIDTH - 1 <=> a <= x /\ x < a + FONT_WIDTH
  BY Sizes
<1>6. y \in b .. b + FONT_HEIGHT - 1 <=> b <= y /\ y < b + FONT_HEIGHT
  BY Sizes
<1> QED BY <1>1, <1>2, <1>3, <1>4, <1>5, <1>6

LEMMA InRow ==
  ASSUME NEW i \in Nat, NEW n \in Nat
  PROVE  PixelOf(i) \in (0 .. SCREEN_WIDTH - 1)
                          \X (FONT_HEIGHT * n .. FONT_HEIGHT * n + FONT_HEIGHT - 1)
           <=> RowOf(i) = n
<1>1. PICK x \in 0 .. SCREEN_WIDTH - 1, y \in Nat : y = PixelOf(i)[2] /\ PixelOf(i) = <<x, y>>
  BY Pixel
<1>2. PICK b \in Nat : b = FONT_HEIGHT * n
  BY Sizes
<1>3. RowOf(i) = n <=> b <= y /\ y < b + FONT_HEIGHT
  BY <1>1, <1>2, Sizes, Quotient DEF RowOf
<1>4. y \in b .. b + FONT_HEIGHT - 1 <=> b <= y /\ y < b + FONT_HEIGHT
  BY Sizes
<1> QED BY <1>1, <1>2, <1>3, <1>4

LEMMA InGlyph ==
  ASSUME NEW i \in Nat, NEW k \in Nat, NEW n \in Nat,
         NEW g \in SUBSET ((0 .. FONT_WIDTH - 1) \X (0 .. FONT_HEIGHT - 1))
  PROVE  PixelOf(i) \in {<<FONT_WIDTH * k + p[1], FONT_HEIGHT * n + p[2]>> : p \in g}
           <=> ColumnOf(i) = k /\ RowOf(i) = n /\ DotOf(i) \in g
<1>1. PICK x \in Nat, y \in Nat : x = PixelOf(i)[1] /\ y = PixelOf(i)[2] /\ PixelOf(i) = <<x, y>>
  BY Pixel
<1>2. PICK a \in Nat, b \in Nat : a = FONT_WIDTH * k /\ b = FONT_HEIGHT * n
  BY Sizes
<1>3. ASSUME NEW p \in g, <<x, y>> = <<a + p[1], b + p[2]>>
      PROVE  ColumnOf(i) = k /\ RowOf(i) = n
    <2>1. p[1] \in 0 .. FONT_WIDTH - 1 /\ p[2] \in 0 .. FONT_HEIGHT - 1
      OBVIOUS
    <2>2. x \in a .. a + FONT_WIDTH - 1 /\ y \in b .. b + FONT_HEIGHT - 1
      BY <1>3, <2>1, Sizes
    <2> QED BY <1>1, <1>2, <2>2, InCell
<1>4. ASSUME ColumnOf(i) = k, RowOf(i) = n PROVE DotOf(i) = <<x - a, y - b>>
  <2>1. x \div FONT_WIDTH = k /\ y \div FONT_HEIGHT = n
    BY <1>1, <1>4 DEF ColumnOf, RowOf
  <2>2. x % FONT_WIDTH = x - a /\ y % FONT_HEIGHT = y - b
    BY <1>2, <2>1, Sizes, Remainder
  <2> QED BY <1>1, <2>2 DEF DotOf
<1>5. ASSUME NEW p \in g, <<x, y>> = <<a + p[1], b + p[2]>> PROVE DotOf(i) \in g
  <2>1. DotOf(i) = <<x - a, y - b>>
    BY <1>3, <1>4, <1>5
  <2>2. p[1] \in 0 .. FONT_WIDTH - 1 /\ p[2] \in 0 .. FONT_HEIGHT - 1 /\ p = <<p[1], p[2]>>
    OBVIOUS
  <2>3. x - a = p[1] /\ y - b = p[2]
    BY <1>5, <2>2, Sizes
  <2> QED BY <2>1, <2>2, <2>3
<1>6. ASSUME ColumnOf(i) = k, RowOf(i) = n, DotOf(i) \in g
      PROVE  \E p \in g : <<x, y>> = <<a + p[1], b + p[2]>>
  <2>1. DotOf(i) = <<x - a, y - b>>
    BY <1>4, <1>6
  <2>2. a + (x - a) = x /\ b + (y - b) = y
    OBVIOUS
  <2> QED BY <1>6, <2>1, <2>2
<1> QED BY <1>1, <1>2, <1>3, <1>5, <1>6

-----------------------------------------------------------------------------
(* memory_fastest_copy(): each loop stops when one step or less is left, and  *)
(* so at least one byte stays behind.                                         *)
IsRest(step, n, f) == f = [m \in 0 .. n |-> IF m > step THEN f[m - step] ELSE m]

LEMMA RestExists ==
  ASSUME NEW step \in Nat \ {0}, NEW n \in Nat
  PROVE  \E f : IsRest(step, n, f)
<1> DEFINE left(m) == IF m = 0 THEN 0 ELSE ((m - 1) % step) + 1
           f == [m \in 0 .. n |-> left(m)]
<1>1. ASSUME NEW m \in 0 .. n PROVE left(m) = IF m > step THEN f[m - step] ELSE m
  <2>1. CASE m > step
    <3>1. m - step \in 0 .. n /\ m - step # 0 /\ m # 0 /\ m - step - 1 \in Nat
      BY <2>1
    <3>2. f[m - step] = ((m - step - 1) % step) + 1
      BY <3>1
    <3>3. PICK one \in Nat, k \in Nat : one = 1 /\ k = m - step - 1 /\ k + step * one = m - 1
      BY <3>1
    <3>4. (k + step * one) % step = k % step
      BY Shift
    <3> QED BY <2>1, <3>1, <3>2, <3>3, <3>4
  <2>2. CASE ~ (m > step) /\ m # 0
    <3>1. m - 1 \in Nat /\ m - 1 < step
      BY <2>2
    <3>2. (m - 1) % step = m - 1
      BY <3>1
    <3> QED BY <2>2, <3>2
  <2>3. CASE m = 0
    BY <2>3
  <2> QED BY <2>1, <2>2, <2>3
<1>2. IsRest(step, n, f)
  BY <1>1 DEF IsRest
<1> QED BY <1>2

LEMMA RestBounds ==
  ASSUME NEW step \in Nat \ {0}, NEW n \in Nat
  PROVE  /\ n = 0 => LoopLeaves(step, n) = 0
         /\ n # 0 => LoopLeaves(step, n) \in 1 .. n /\ LoopLeaves(step, n) <= step
<1>1. PICK f : IsRest(step, n, f) /\ LoopLeaves(step, n) = f[n]
  <2>1. IsRest(step, n, CHOOSE f : IsRest(step, n, f))
    BY RestExists
  <2>2. LoopLeaves(step, n) = (CHOOSE f : IsRest(step, n, f))[n]
    BY Zenon DEF LoopLeaves, IsRest
  <2> QED BY <2>1, <2>2
<1>2. \A m \in 0 .. n : f[m] = IF m > step THEN f[m - step] ELSE m
  BY <1>1 DEF IsRest
<1> DEFINE OK(m) == IF m = 0 THEN f[m] = 0 ELSE f[m] \in 1 .. m /\ f[m] <= step
           Bad == {m \in 0 .. n : ~OK(m)}
<1>3. Bad = {}
  <2> SUFFICES ASSUME Bad # {} PROVE FALSE
    OBVIOUS
  <2>1. Bad \in SUBSET Nat
    OBVIOUS
  <2>2. PICK m : m \in Bad /\ \A k \in Bad : m <= k
    <3> HIDE DEF Bad
    <3> QED BY <2>1, LeastNatural
  <2>3. m \in 0 .. n /\ ~OK(m)
    BY <2>2
  <2>4. CASE m > step
    <3>1. m - step \in 0 .. n /\ m - step < m /\ m - step # 0 /\ f[m] = f[m - step]
      BY <1>2, <2>3, <2>4
    <3>2. OK(m - step)
      BY <2>2, <3>1
    <3> QED BY <2>3, <3>1, <3>2
  <2>5. CASE ~ (m > step)
    <3>1. f[m] = m
      BY <1>2, <2>3, <2>5
    <3> QED BY <2>3, <2>5, <3>1
  <2> QED BY <2>4, <2>5
<1>4. OK(n)
  BY <1>3
<1> QED BY <1>1, <1>4

LEMMA CopiedBytes ==
  ASSUME NEW size \in Nat
  PROVE  Copied(size) = IF size = 0 THEN 0 ELSE size - 1
<1>1. PICK b \in Nat : b = LoopLeaves(BLOCK, size) /\ (b = 0 <=> size = 0)
  BY RestBounds, Sizes
<1>2. PICK w \in Nat : w = LoopLeaves(WORD, b) /\ (w = 0 <=> b = 0)
  BY RestBounds, Sizes
<1>3. PICK one \in Nat \ {0} : one = 1
  OBVIOUS
<1>4. LoopLeaves(one, w) = IF size = 0 THEN 0 ELSE 1
  <2>1. /\ w = 0 => LoopLeaves(one, w) = 0
        /\ w # 0 => LoopLeaves(one, w) \in 1 .. w /\ LoopLeaves(one, w) <= one
    BY RestBounds
  <2>2. PICK r : r = LoopLeaves(one, w)
    OBVIOUS
  <2> QED BY ONLY <1>1, <1>2, <1>3, <2>1, <2>2
<1>5. Copied(size) = size - LoopLeaves(one, w)
  BY <1>1, <1>2, <1>3 DEF Copied
<1> QED BY <1>4, <1>5

-----------------------------------------------------------------------------
(* What the functions of video.c do to a screen, field by field. *)
Screen == [fb: [Byte -> Nat], x: Nat, y: Nat, foreColour: Nat]

LEMMA Drawn ==
  ASSUME NEW s \in Screen, NEW pixels
  PROVE  /\ DrawPixels(s, pixels) \in Screen
         /\ DrawPixels(s, pixels) =
              [fb |-> [i \in Byte |-> IF PixelOf(i) \in pixels THEN s.foreColour ELSE s.fb[i]],
               x |-> s.x, y |-> s.y, foreColour |-> s.foreColour]
BY DEF Screen, DrawPixels

LEMMA Coloured ==
  ASSUME NEW s \in Screen, NEW colour \in Nat
  PROVE  /\ SetForeColour(s, colour) \in Screen
         /\ SetForeColour(s, colour) =
              [fb |-> s.fb, x |-> s.x, y |-> s.y, foreColour |-> colour]
BY DEF Screen, SetForeColour

LEMMA Cleaned ==
  ASSUME NEW s \in Screen, NEW pixels
  PROVE  /\ Clean(s, pixels) \in Screen
         /\ Clean(s, pixels) =
              [fb |-> [i \in Byte |-> IF PixelOf(i) \in pixels THEN Black ELSE s.fb[i]],
               x |-> s.x, y |-> s.y, foreColour |-> s.foreColour]
<1>1. PICK a : a = SetForeColour(s, Black)
  OBVIOUS
<1>2. a \in Screen /\ a = [fb |-> s.fb, x |-> s.x, y |-> s.y, foreColour |-> Black]
  BY <1>1, Coloured DEF Black
<1>3. PICK b : b = DrawPixels(a, pixels)
  OBVIOUS
<1>4. b \in Screen /\ b = [fb |-> [i \in Byte |-> IF PixelOf(i) \in pixels THEN Black ELSE s.fb[i]],
                           x |-> s.x, y |-> s.y, foreColour |-> Black]
  BY <1>2, <1>3, Drawn
<1>5. PICK c : c = s.foreColour /\ c \in Nat
  BY DEF Screen
<1>6. Clean(s, pixels) = SetForeColour(b, c)
  BY <1>1, <1>3, <1>5 DEF Clean
<1> QED BY <1>4, <1>5, <1>6, Coloured

LEMMA Scrolled ==
  ASSUME NEW s \in Screen, NEW size \in Nat, size + RowSize <= ScreenBytes
  PROVE  /\ memory_fastest_copy(s, size) \in Screen
         /\ memory_fastest_copy(s, size) =
              [fb |-> [i \in Byte |-> IF i + 1 < size THEN s.fb[i + RowSize] ELSE s.fb[i]],
               x |-> s.x, y |-> s.y, foreColour |-> s.foreColour]
<1>1. \A i \in Byte : i < Copied(size) <=> i + 1 < size
  BY CopiedBytes, LineSize DEF Byte
<1>2. \A i \in Byte : i + 1 < size => i + RowSize \in Byte
  BY LineSize DEF Byte
<1>3. memory_fastest_copy(s, size) =
        [fb |-> [i \in Byte |-> IF i + 1 < size THEN s.fb[i + RowSize] ELSE s.fb[i]],
         x |-> s.x, y |-> s.y, foreColour |-> s.foreColour]
  BY <1>1 DEF Screen, memory_fastest_copy
<1>4. [i \in Byte |-> IF i + 1 < size THEN s.fb[i + RowSize] ELSE s.fb[i]] \in [Byte -> Nat]
  BY <1>2 DEF Screen
<1> QED BY <1>3, <1>4 DEF Screen

-----------------------------------------------------------------------------
(* The rows of text as bytes of the framebuffer. *)
LEMMA RowBytes ==
  ASSUME NEW i \in Nat, NEW m \in Nat
  PROVE  RowOf(i) >= m <=> i >= RowSize * m
<1>1. PICK y \in Nat : y = PixelOf(i)[2]
  BY Pixel
<1>2. PICK h \in Nat : h = FONT_HEIGHT * m
  BY Sizes
<1>3. RowOf(i) >= m <=> y >= h
  BY <1>1, <1>2, Sizes, Quotient DEF RowOf
<1>4. y >= h <=> i >= Line * h
  BY <1>1, PixelLine
<1>5. Line * h = RowSize * m
  BY <1>2, Sizes, LineSize
<1> QED BY <1>3, <1>4, <1>5

LEMMA RowsOfBytes ==
  /\ RowSize * Rows \in Nat /\ RowSize * (Rows - 1) \in Nat
  /\ RowSize * Rows = RowSize * (Rows - 1) + RowSize
  /\ RowSize * Rows <= ScreenBytes /\ ScreenBytes < RowSize * Rows + RowSize
<1>1. PICK r \in Nat \ {0}, h \in Nat : r = Rows /\ h = FONT_HEIGHT * r
  BY WholeRows
<1>2. PICK rs \in Nat \ {0}, l \in Nat \ {0} : rs = RowSize /\ l = Line /\ rs = l * FONT_HEIGHT
  BY LineSize
<1>3. rs * r \in Nat /\ rs * (r - 1) \in Nat /\ rs * r = rs * (r - 1) + rs /\ l * h = rs * r
  BY <1>1, <1>2, Sizes
<1>4. h <= SCREEN_HEIGHT /\ SCREEN_HEIGHT < h + FONT_HEIGHT
  BY <1>1, WholeRows
<1>5. PICK d \in Nat : SCREEN_HEIGHT = h + d
  <2>1. SCREEN_HEIGHT - h \in Nat /\ SCREEN_HEIGHT = h + (SCREEN_HEIGHT - h)
    BY <1>4, Sizes
  <2> QED BY <2>1
<1>6. PICK e \in Nat : e = l * d
  OBVIOUS
<1>7. ScreenBytes = rs * r + e
  BY <1>2, <1>3, <1>5, <1>6, LineSize
<1>8. e < rs
  <2>1. d < FONT_HEIGHT
    BY <1>4, <1>5, Sizes
  <2>2. l * d + l <= l * FONT_HEIGHT
    BY <2>1, Sizes, Order
  <2> QED BY <1>2, <1>6, <2>2
<1> QED BY <1>1, <1>2, <1>3, <1>7, <1>8

(* What byte I shows, by its place. *)
LEMMA PrintedAt ==
  ASSUME NEW p, NEW i
  PROVE  Printed(p, i) =
           IF RowOf(i) + 1 > Len(p) THEN Black
           ELSE IF ColumnOf(i) + 1 > Len(p[RowOf(i) + 1]) THEN Black
           ELSE IF DotOf(i) \in Glyph[p[RowOf(i) + 1][ColumnOf(i) + 1][1]]
                THEN p[RowOf(i) + 1][ColumnOf(i) + 1][2] ELSE Black
BY DEF Printed, RowOf, ColumnOf, DotOf

(* Screen S shows the text of paper P, its colour is C and its cursor is on   *)
(* the row of P's last line.                                                  *)
Cell == Char \X Nat
Page(s, p, c) ==
  /\ s \in Screen /\ s.foreColour = c
  /\ p \in Seq(Seq(Cell)) /\ Len(p) \in 1 .. Rows
  /\ s.y = FONT_HEIGHT * (Len(p) - 1)
  /\ \A i \in Byte \ LeftBehind : s.fb[i] = Printed(p, i)

(* And its cursor is at the end of that line, which has room for a character. *)
Agrees(s, p, c) ==
  /\ Page(s, p, c)
  /\ Len(p[Len(p)]) < Columns
  /\ s.x = FONT_WIDTH * Len(p[Len(p)])

(* A line feed scrolls exactly if the paper is full. *)
LEMMA ScrollsFull ==
  ASSUME NEW n \in 1 .. Rows
  PROVE  Scrolls(FONT_HEIGHT * (n - 1) + FONT_HEIGHT) <=> n = Rows
<1>1. PICK m \in Nat : m = n + 1
  BY WholeRows
<1>2. Rows >= m <=> SCREEN_HEIGHT >= FONT_HEIGHT * m
  BY Sizes, Quotient DEF Rows
<1>3. PICK a \in Nat : a = FONT_HEIGHT * m
  BY Sizes
<1>4. FONT_HEIGHT * (n - 1) + FONT_HEIGHT + FONT_HEIGHT = a
  BY <1>1, <1>3, Sizes, WholeRows
<1>5. Rows >= m <=> SCREEN_HEIGHT >= a
  BY <1>2, <1>3
<1>6. Rows >= m <=> n # Rows
  BY <1>1, WholeRows
<1>7. Scrolls(FONT_HEIGHT * (n - 1) + FONT_HEIGHT) <=> a > SCREEN_HEIGHT
  BY <1>4 DEF Scrolls
<1> QED BY <1>3, <1>5, <1>6, <1>7, Sizes

(* An empty line adds nothing to what is printed. *)
LEMMA FeedPrinted ==
  ASSUME NEW p \in Seq(Seq(Cell)), NEW i \in Nat
  PROVE  Printed(Append(p, <<>>), i) = Printed(p, i)
<1>0. PICK q : q = Append(p, <<>>)
  OBVIOUS
<1>1. PICK n \in Nat : n = Len(p)
  BY LenProperties
<1>2. PICK r \in Nat, k \in Nat : r = RowOf(i) /\ k = ColumnOf(i)
  BY Place
<1>3. <<>> \in Seq(Cell) /\ Len(<<>>) = 0
  OBVIOUS
<1>4. Len(q) = n + 1 /\ q[n + 1] = <<>> /\ \A j \in 1 .. n : q[j] = p[j]
  BY <1>0, <1>1, <1>3, AppendProperties
<1>5. /\ Printed(q, i) =
           IF r + 1 > Len(q) THEN Black
           ELSE IF k + 1 > Len(q[r + 1]) THEN Black
           ELSE IF DotOf(i) \in Glyph[q[r + 1][k + 1][1]] THEN q[r + 1][k + 1][2] ELSE Black
      /\ Printed(p, i) =
           IF r + 1 > Len(p) THEN Black
           ELSE IF k + 1 > Len(p[r + 1]) THEN Black
           ELSE IF DotOf(i) \in Glyph[p[r + 1][k + 1][1]] THEN p[r + 1][k + 1][2] ELSE Black
  BY <1>2, PrintedAt
<1>6. SUFFICES Printed(q, i) = Printed(p, i)
  BY <1>0
<1>7. CASE r + 1 <= n
  <2>1. q[r + 1] = p[r + 1]
    BY <1>4, <1>7
  <2> QED BY <1>1, <1>2, <1>4, <1>7, <2>1, <1>5
<1>8. CASE r + 1 = n + 1
  <2>1. k + 1 > Len(q[r + 1])
    BY <1>3, <1>4, <1>8
  <2> QED BY <1>1, <1>2, <1>4, <1>8, <2>1, <1>5
<1>9. CASE r + 1 > n + 1
  BY <1>1, <1>2, <1>4, <1>9, <1>5
<1> QED BY <1>7, <1>8, <1>9

LEMMA NothingBelow ==
  ASSUME NEW p \in Seq(Seq(Cell)), NEW i \in Nat, RowOf(i) >= Len(p)
  PROVE  Printed(p, i) = Black
BY Place, PrintedAt, LenProperties

(* Without its first line, the paper shows everything one row higher. *)
LEMMA TailPrinted ==
  ASSUME NEW p \in Seq(Seq(Cell)), p # <<>>, NEW i \in Nat
  PROVE  Printed(Tail(p), i) = Printed(p, i + RowSize)
<1>0. PICK q : q = Tail(p)
  OBVIOUS
<1>1. PICK n \in Nat : n = Len(p) /\ n # 0
  BY LenProperties, EmptySeq
<1>2. PICK r \in Nat, k \in Nat : r = RowOf(i) /\ k = ColumnOf(i)
  BY Place
<1>3. Len(q) = n - 1 /\ \A j \in 1 .. n - 1 : q[j] = p[j + 1]
  BY <1>0, <1>1, HeadTailProperties
<1>4. PICK j \in Nat : j = i + RowSize
  BY LineSize
<1>5. RowOf(j) = r + 1 /\ ColumnOf(j) = k /\ DotOf(j) = DotOf(i)
  BY <1>2, <1>4, PlaceBelow
<1>6. /\ Printed(q, i) =
           IF r + 1 > Len(q) THEN Black
           ELSE IF k + 1 > Len(q[r + 1]) THEN Black
           ELSE IF DotOf(i) \in Glyph[q[r + 1][k + 1][1]] THEN q[r + 1][k + 1][2] ELSE Black
      /\ Printed(p, j) =
           IF (r + 1) + 1 > Len(p) THEN Black
           ELSE IF k + 1 > Len(p[(r + 1) + 1]) THEN Black
           ELSE IF DotOf(i) \in Glyph[p[(r + 1) + 1][k + 1][1]]
                THEN p[(r + 1) + 1][k + 1][2] ELSE Black
  BY <1>2, <1>5, PrintedAt
<1>7. SUFFICES Printed(q, i) = Printed(p, j)
  BY <1>0, <1>4
<1>8. CASE r + 1 <= n - 1
  <2>1. q[r + 1] = p[(r + 1) + 1]
    BY <1>1, <1>3, <1>8
  <2> QED BY <1>1, <1>3, <1>6, <1>8, <2>1
<1>9. CASE r + 1 > n - 1
  BY <1>1, <1>3, <1>6, <1>9
<1> QED BY <1>1, <1>8, <1>9

(* A line feed on paper: one more line, the last one empty. *)
LEMMA FedPaper ==
  ASSUME NEW p \in Seq(Seq(Cell)), Len(p) \in 1 .. Rows
  PROVE  /\ LineFeed(p) \in Seq(Seq(Cell))
         /\ Len(LineFeed(p)) = IF Len(p) = Rows THEN Rows ELSE Len(p) + 1
         /\ Len(LineFeed(p)[Len(LineFeed(p))]) = 0
<1>1. <<>> \in Seq(Cell) /\ Len(<<>>) = 0
  OBVIOUS
<1>2. PICK n \in Nat, rows \in Nat : n = Len(p) /\ rows = Rows /\ n # 0 /\ n <= rows
  BY WholeRows, LenProperties
<1>3. PICK q \in Seq(Seq(Cell)) : q = IF n = rows THEN Tail(p) ELSE p
  <2>1. Tail(p) \in Seq(Seq(Cell))
    BY <1>2, EmptySeq, HeadTailProperties
  <2> QED BY <2>1
<1>4. PICK m \in Nat : m = Len(q) /\ m = IF n = rows THEN n - 1 ELSE n
  BY <1>2, <1>3, EmptySeq, HeadTailProperties, LenProperties
<1>5. PICK f : f = Append(q, <<>>)
  OBVIOUS
<1>6. f \in Seq(Seq(Cell)) /\ Len(f) = m + 1 /\ f[m + 1] = <<>>
  <2>1. /\ Append(q, <<>>) \in Seq(Seq(Cell)) /\ Len(Append(q, <<>>)) = Len(q) + 1
        /\ Append(q, <<>>)[Len(q) + 1] = <<>>
    BY <1>1, AppendProperties
  <2> QED BY ONLY <1>4, <1>5, <2>1
<1>7. LineFeed(p) = f
  BY <1>2, <1>3, <1>5 DEF LineFeed
<1> QED BY <1>1, <1>2, <1>4, <1>6, <1>7

(* video_new_line_fastest(): below the last row of text nothing is copied,    *)
(* the last row is cleaned, and the byte that a scroll leaves behind is the   *)
(* last one of a row, or in the row that is cleaned.                          *)
LEMMA ScrolledByte ==
  ASSUME NEW i \in Byte, i \notin LeftBehind, RowOf(i) + 1 # Rows
  PROVE  /\ RowOf(i) + 1 < Rows => /\ i + 1 < ScreenBytes - RowSize
                                   /\ i + RowSize \in Byte \ LeftBehind
         /\ RowOf(i) + 1 > Rows => ~ (i + 1 < ScreenBytes - RowSize)
<1>1. PICK b \in Nat \ {0}, r \in Nat \ {0}, full \in Nat :
        b = RowSize /\ r = Rows /\ full = RowSize * Rows
  BY LineSize, WholeRows, RowsOfBytes
<1>2. PICK last \in Nat : last = RowSize * (Rows - 1)
  BY RowsOfBytes
<1>3. full = last + b /\ full <= ScreenBytes /\ ScreenBytes < full + b
  BY <1>1, <1>2, RowsOfBytes
<1>4. i \in Nat /\ i < ScreenBytes /\ ScreenBytes \in Nat
  BY LineSize DEF Byte
<1>5. PICK row \in Nat : row = RowOf(i)
  BY <1>4, Place
<1>6. row >= r <=> i >= full
  BY <1>1, <1>4, <1>5, RowBytes
<1>7. row >= r - 1 <=> i >= last
  <2>1. PICK m \in Nat : m = r - 1
    BY <1>1
  <2> QED BY <1>1, <1>2, <1>4, <1>5, <2>1, RowBytes
<1>8. ASSUME row + 1 < r
      PROVE  i + 1 < ScreenBytes - b /\ i + b \in Byte \ LeftBehind
  <2>1. i < last
    BY <1>1, <1>4, <1>5, <1>7, <1>8
  <2>2. PICK n \in Nat : n = i + 1
    BY <1>4
  <2>3. (n + b) % b = n % b
    <3>1. PICK one \in Nat : one = 1 /\ n + b = n + b * one
      BY <1>1
    <3>2. (n + b * one) % b = n % b
      BY <1>1, Shift
    <3> QED BY ONLY <3>1, <3>2
  <2>4. n < full /\ n % b # 0
    <3>1. n < full
      BY <1>1, <1>3, <1>4, <2>1, <2>2
    <3>2. Rows * RowSize = full
      BY <1>1
    <3> QED BY <1>1, <2>2, <3>1, <3>2 DEF LeftBehind, Byte
  <2>5. n < ScreenBytes - b
    <3>1. last % b = 0
      <4>1. PICK m \in Nat : m = r - 1
        BY <1>1
      <4>2. PICK zero \in Nat : zero = 0 /\ last = zero + b * m
        BY <1>1, <1>2, <4>1
      <4>3. (zero + b * m) % b = zero % b
        BY <1>1, Shift
      <4>4. zero % b = 0
        BY <4>2, <1>1
      <4> QED BY <4>2, <4>3, <4>4
    <3>2. n # last
      BY <2>4, <3>1
    <3> QED BY <1>1, <1>3, <1>4, <2>1, <2>2, <3>2
  <2>6. i + b \in Byte
    BY <1>1, <1>4, <2>2, <2>5 DEF Byte
  <2>7. i + b \notin LeftBehind
    <3>1. (i + b) + 1 = n + b
      BY <1>1, <1>4, <2>2
    <3> QED BY <1>1, <2>3, <2>4, <3>1 DEF LeftBehind
  <2> QED BY <2>2, <2>5, <2>6, <2>7
<1>9. ASSUME row + 1 > r PROVE ~ (i + 1 < ScreenBytes - b)
  BY <1>1, <1>3, <1>4, <1>5, <1>6, <1>9
<1> QED BY <1>1, <1>5, <1>8, <1>9

(* A new line on the screen is a new line on paper. *)
LEMMA NewLineAgrees ==
  ASSUME NEW s, NEW p, NEW c, Page(s, p, c)
  PROVE  Agrees(video_new_line_fastest(s), LineFeed(p), c)
<1>1. /\ s \in Screen /\ s.foreColour = c
      /\ p \in Seq(Seq(Cell)) /\ Len(p) \in 1 .. Rows
      /\ s.y = FONT_HEIGHT * (Len(p) - 1)
      /\ \A i \in Byte \ LeftBehind : s.fb[i] = Printed(p, i)
  BY DEF Page
<1>2. PICK n \in 1 .. Rows : n = Len(p)
  BY <1>1
<1>3. PICK y \in Nat : y = s.y /\ y = FONT_HEIGHT * (n - 1)
  BY <1>1, <1>2, Sizes, WholeRows DEF Screen
<1>4. Scrolls(y + FONT_HEIGHT) <=> n = Rows
  BY <1>3, ScrollsFull
<1>5. PICK q : q = LineFeed(p)
  OBVIOUS
<1>6. q \in Seq(Seq(Cell)) /\ Len(q) = (IF n = Rows THEN Rows ELSE n + 1) /\ Len(q[Len(q)]) = 0
  BY <1>1, <1>2, <1>5, FedPaper
<1>7. PICK t : t = video_new_line_fastest(s)
  OBVIOUS
<1>8. \A i \in Byte : i \in Nat
  BY DEF Byte
<1>9. SUFFICES /\ t \in Screen /\ t.foreColour = c /\ t.x = 0
               /\ t.y = FONT_HEIGHT * (Len(q) - 1)
               /\ \A i \in Byte \ LeftBehind : t.fb[i] = Printed(q, i)
  <2>1. 0 < Columns /\ FONT_WIDTH * 0 = 0 /\ Len(q) \in 1 .. Rows
    BY <1>2, <1>6, Sizes, WholeRows
  <2> QED BY <1>5, <1>6, <1>7, <2>1 DEF Agrees, Page
<1>10. CASE n # Rows
  <2>1. t = [s EXCEPT !.x = 0, !.y = y + FONT_HEIGHT]
    BY <1>3, <1>4, <1>7, <1>10 DEF video_new_line_fastest
  <2>2. /\ t \in Screen /\ t.foreColour = c /\ t.x = 0 /\ t.y = y + FONT_HEIGHT /\ t.fb = s.fb
    <3>1. PICK h \in Nat : h = y + FONT_HEIGHT
      BY Sizes
    <3>2. t = [fb |-> s.fb, x |-> 0, y |-> h, foreColour |-> s.foreColour]
      BY <1>1, <2>1, <3>1 DEF Screen
    <3> QED BY <1>1, <3>1, <3>2 DEF Screen
  <2>3. y + FONT_HEIGHT = FONT_HEIGHT * (Len(q) - 1)
    BY <1>2, <1>3, <1>6, <1>10, Sizes, WholeRows
  <2>4. q = Append(p, <<>>)
    BY <1>2, <1>5, <1>10 DEF LineFeed
  <2> QED BY <1>1, <1>8, <2>2, <2>3, <2>4, FeedPrinted
<1>11. CASE n = Rows
  <2>1. PICK size \in Nat : size = ScreenBytes - RowSize
    BY LineSize, RowsOfBytes
  <2>2. size + RowSize <= ScreenBytes
    BY <2>1, LineSize
  <2>3. PICK u : u = memory_fastest_copy(s, size)
    OBVIOUS
  <2>4. u \in Screen
        /\ u = [fb |-> [i \in Byte |-> IF i + 1 < size THEN s.fb[i + RowSize] ELSE s.fb[i]],
                x |-> s.x, y |-> s.y, foreColour |-> s.foreColour]
    BY <1>1, <2>2, <2>3, Scrolled
  <2>5. PICK row : row = (0 .. SCREEN_WIDTH - 1) \X (y .. y + FONT_HEIGHT - 1)
    OBVIOUS
  <2>6. PICK v : v = video_clean_row(u, y)
    OBVIOUS
  <2>7. v \in Screen
        /\ v = [fb |-> [i \in Byte |-> IF PixelOf(i) \in row THEN Black ELSE u.fb[i]],
                x |-> s.x, y |-> y, foreColour |-> c]
    <3>1. v = Clean(u, row)
      BY <2>5, <2>6 DEF video_clean_row
    <3>2. u.x = s.x /\ u.y = y /\ u.foreColour = c
      BY <1>1, <1>3, <2>4
    <3>3. v \in Screen
          /\ v = [fb |-> [i \in Byte |-> IF PixelOf(i) \in row THEN Black ELSE u.fb[i]],
                  x |-> u.x, y |-> u.y, foreColour |-> u.foreColour]
      BY <2>4, <3>1, Cleaned
    <3> QED BY <3>2, <3>3
  <2>8. t = [v EXCEPT !.x = 0]
    BY <1>3, <1>4, <1>7, <1>11, <2>1, <2>3, <2>6 DEF video_new_line_fastest
  <2>9. t \in Screen /\ t.foreColour = c /\ t.x = 0 /\ t.y = y /\ t.fb = v.fb
    BY <2>7, <2>8 DEF Screen
  <2>10. q = Append(Tail(p), <<>>) /\ Tail(p) \in Seq(Seq(Cell)) /\ p # <<>> /\ Len(Tail(p)) = n - 1
    <3>1. p # <<>>
      BY <1>1, <1>2, WholeRows, EmptySeq
    <3> QED BY <1>1, <1>2, <1>5, <1>11, <3>1, HeadTailProperties DEF LineFeed
  <2>11. t.y = FONT_HEIGHT * (Len(q) - 1)
    BY <1>3, <1>6, <1>11, <2>9
  <2>12. ASSUME NEW i \in Byte \ LeftBehind PROVE t.fb[i] = Printed(q, i)
    <3>1. i \in Nat /\ i \in Byte
      BY <1>8
    <3>2. Printed(q, i) = Printed(Tail(p), i)
      BY <2>10, <3>1, FeedPrinted
    <3>3. PICK m \in Nat : m = n - 1
      BY <1>2, WholeRows
    <3>4. PixelOf(i) \in row <=> RowOf(i) = m
      BY <1>3, <2>5, <3>1, <3>3, InRow
    <3>5. RowOf(i) \in Nat /\ Rows \in Nat /\ m + 1 = Rows
      BY <1>11, <3>1, <3>3, Place, WholeRows
    <3>6. CASE RowOf(i) = m
      <4>1. t.fb[i] = Black
        BY <2>7, <2>9, <3>1, <3>4, <3>6
      <4>2. Printed(Tail(p), i) = Black
        <5>1. RowOf(i) >= Len(Tail(p))
          BY <2>10, <3>3, <3>6
        <5> QED BY <2>10, <3>1, <5>1, NothingBelow
      <4> QED BY <3>2, <4>1, <4>2
    <3>7. CASE RowOf(i) < m
      <4>1. i + 1 < size /\ i + RowSize \in Byte \ LeftBehind
        BY <2>1, <3>5, <3>7, ScrolledByte
      <4>2. t.fb[i] = s.fb[i + RowSize]
        BY <2>4, <2>7, <2>9, <3>1, <3>4, <3>5, <3>7, <4>1
      <4>3. s.fb[i + RowSize] = Printed(p, i + RowSize)
        BY <1>1, <4>1
      <4>4. Printed(Tail(p), i) = Printed(p, i + RowSize)
        BY <1>1, <2>10, <3>1, TailPrinted
      <4> QED BY <3>2, <4>2, <4>3, <4>4
    <3>8. CASE RowOf(i) > m
      <4>1. ~ (i + 1 < size)
        BY <2>1, <3>5, <3>8, ScrolledByte
      <4>2. t.fb[i] = s.fb[i]
        BY <2>4, <2>7, <2>9, <3>1, <3>4, <3>5, <3>8, <4>1
      <4>3. Printed(p, i) = Black
        <5>1. RowOf(i) >= Len(p)
          BY <1>2, <1>11, <3>5, <3>8
        <5> QED BY <1>1, <3>1, <5>1, NothingBelow
      <4>4. Printed(Tail(p), i) = Black
        <5>1. RowOf(i) >= Len(Tail(p))
          BY <2>10, <3>3, <3>5, <3>8
        <5> QED BY <2>10, <3>1, <5>1, NothingBelow
      <4> QED BY <1>1, <3>2, <4>2, <4>3, <4>4
    <3> QED BY <3>5, <3>6, <3>7, <3>8
  <2> QED BY <2>9, <2>11, <2>12
<1> QED BY <1>10, <1>11

(* The paper with one more character on its last line. *)
LEMMA LongerLine ==
  ASSUME NEW p \in Seq(Seq(Cell)), NEW n \in Nat \ {0}, n = Len(p), NEW d \in Cell,
         NEW q, q = [p EXCEPT ![Len(p)] = Append(@, d)]
  PROVE  /\ q \in Seq(Seq(Cell)) /\ Len(q) = n
         /\ \A j \in 1 .. n : j # n => q[j] = p[j]
         /\ Len(q[n]) = Len(p[n]) + 1 /\ q[n][Len(p[n]) + 1] = d
         /\ \A j \in 1 .. Len(p[n]) : q[n][j] = p[n][j]
<1>1. DOMAIN p = 1 .. n /\ n \in 1 .. n /\ \A j \in 1 .. n : p[j] \in Seq(Cell)
  BY LenProperties, ElementOfSeq
<1>2. PICK l \in Seq(Cell) : l = p[n]
  BY <1>1
<1>3. PICK e : e = Append(l, d)
  OBVIOUS
<1>4. e \in Seq(Cell) /\ Len(e) = Len(l) + 1 /\ e[Len(l) + 1] = d
      /\ \A j \in 1 .. Len(l) : e[j] = l[j]
  BY <1>3, AppendProperties
<1>5. q = [j \in 1 .. n |-> IF j = n THEN e ELSE p[j]]
  BY <1>1, <1>2, <1>3
<1>6. q \in [1 .. n -> Seq(Cell)]
  BY <1>1, <1>4, <1>5
<1>7. q \in Seq(Seq(Cell)) /\ Len(q) = n
  BY <1>6, IsASeq, LenProperties
<1> QED BY <1>1, <1>2, <1>4, <1>5, <1>7

(* A line wraps exactly if it is full. *)
LEMMA WrapsFull ==
  ASSUME NEW k \in Nat, k < Columns
  PROVE  FONT_WIDTH * k + FONT_WIDTH + FONT_WIDTH > SCREEN_WIDTH <=> k + 1 = Columns
<1>1. PICK m \in Nat : m = k + 2
  OBVIOUS
<1>2. Columns >= m <=> SCREEN_WIDTH >= FONT_WIDTH * m
  BY Sizes, Quotient DEF Columns
<1>3. PICK a \in Nat : a = FONT_WIDTH * m
  BY Sizes
<1>4. FONT_WIDTH * k + FONT_WIDTH + FONT_WIDTH = a
  BY <1>1, <1>3, Sizes
<1>5. Columns >= m <=> SCREEN_WIDTH >= a
  BY <1>2, <1>3
<1>6. Columns >= m <=> k + 1 # Columns
  BY <1>1, WholeRows
<1> QED BY <1>3, <1>4, <1>5, <1>6, Sizes

(* DrawCharacter() after video_clean_character(): the dots of the glyph and   *)
(* nothing else, at the cursor and nowhere else.                              *)
Draws(s, ch, d) == d = DrawCharacter(video_clean_character(s, s.x, s.y), ch)
Types(p, ch, c, q) == q = [p EXCEPT ![Len(p)] = Append(@, <<ch, c>>)]

LEMMA CharacterPage ==
  ASSUME NEW s, NEW p, NEW c, Agrees(s, p, c), NEW ch \in Char,
         NEW d, Draws(s, ch, d), NEW q, Types(p, ch, c, q)
  PROVE  /\ Page(d, q, c) /\ d.x = s.x /\ c \in Nat
         /\ Len(q) = Len(p) /\ Len(q[Len(q)]) = Len(p[Len(p)]) + 1
<1>1. /\ s \in Screen /\ s.foreColour = c /\ c \in Nat
      /\ p \in Seq(Seq(Cell)) /\ Len(p) \in 1 .. Rows
      /\ s.y = FONT_HEIGHT * (Len(p) - 1)
      /\ \A i \in Byte \ LeftBehind : s.fb[i] = Printed(p, i)
      /\ s.x = FONT_WIDTH * Len(p[Len(p)])
  BY DEF Agrees, Page, Screen
<1>2. PICK n \in Nat \ {0} : n = Len(p)
  BY <1>1, WholeRows
<1>3. PICK k \in Nat : k = Len(p[n])
  <2>1. p[n] \in Seq(Cell)
    BY <1>1, <1>2, ElementOfSeq
  <2> QED BY <2>1, LenProperties
<1>4. PICK m \in Nat : m = n - 1
  BY <1>2
<1>5. <<ch, c>> \in Cell
  BY <1>1 DEF Cell
<1>6. /\ q \in Seq(Seq(Cell)) /\ Len(q) = n
      /\ \A j \in 1 .. n : j # n => q[j] = p[j]
      /\ Len(q[n]) = k + 1 /\ q[n][k + 1] = <<ch, c>>
      /\ \A j \in 1 .. k : q[n][j] = p[n][j]
  <2>1. PICK cell \in Cell : cell = <<ch, c>>
    BY <1>5
  <2>2. q = [p EXCEPT ![Len(p)] = Append(@, cell)]
    BY <2>1 DEF Types
  <2>3. /\ q \in Seq(Seq(Cell)) /\ Len(q) = n
        /\ \A j \in 1 .. n : j # n => q[j] = p[j]
        /\ Len(q[n]) = Len(p[n]) + 1 /\ q[n][Len(p[n]) + 1] = cell
        /\ \A j \in 1 .. Len(p[n]) : q[n][j] = p[n][j]
    BY ONLY <1>1, <1>2, <2>2, LongerLine
  <2> QED BY ONLY <1>3, <2>1, <2>3
<1>7. PICK x \in Nat, y \in Nat : x = s.x /\ y = s.y /\ x = FONT_WIDTH * k /\ y = FONT_HEIGHT * m
  BY <1>1, <1>2, <1>3, <1>4 DEF Screen
<1>8. PICK box : box = (x .. x + FONT_WIDTH - 1) \X (y .. y + FONT_HEIGHT - 1)
  OBVIOUS
<1>9. PICK u : u = Clean(s, box)
  OBVIOUS
<1>10. u \in Screen
       /\ u = [fb |-> [i \in Byte |-> IF PixelOf(i) \in box THEN Black ELSE s.fb[i]],
               x |-> x, y |-> y, foreColour |-> c]
  BY <1>1, <1>7, <1>9, Cleaned
<1>11. u.x = x /\ u.y = y /\ u.foreColour = c
  BY <1>10
<1>12. PICK g \in SUBSET ((0 .. FONT_WIDTH - 1) \X (0 .. FONT_HEIGHT - 1)) : g = Glyph[ch]
  BY GeometryAssumption
<1>13. PICK dots : dots = {<<FONT_WIDTH * k + e[1], FONT_HEIGHT * m + e[2]>> : e \in g}
  OBVIOUS
<1>14. d = DrawPixels(u, dots)
  <2>1. d = DrawCharacter(u, ch)
    BY <1>7, <1>8, <1>9 DEF Draws, video_clean_character
  <2>2. dots = {<<u.x + e[1], u.y + e[2]>> : e \in Glyph[ch]}
    BY <1>7, <1>11, <1>12, <1>13
  <2> QED BY <2>1, <2>2 DEF DrawCharacter
<1>15. d \in Screen
       /\ d = [fb |-> [i \in Byte |-> IF PixelOf(i) \in dots THEN c ELSE u.fb[i]],
               x |-> x, y |-> y, foreColour |-> c]
  <2>1. d \in Screen
        /\ d = [fb |-> [i \in Byte |-> IF PixelOf(i) \in dots THEN u.foreColour ELSE u.fb[i]],
                x |-> u.x, y |-> u.y, foreColour |-> u.foreColour]
    BY <1>10, <1>14, Drawn
  <2> QED BY <1>11, <2>1
<1>16. ASSUME NEW i \in Byte \ LeftBehind PROVE d.fb[i] = Printed(q, i)
  <2>1. i \in Nat /\ i \in Byte
    BY DEF Byte
  <2>2. PICK row \in Nat, col \in Nat : row = RowOf(i) /\ col = ColumnOf(i)
    BY <2>1, Place
  <2>3. PixelOf(i) \in box <=> col = k /\ row = m
    BY <1>7, <1>8, <2>1, <2>2, InCell
  <2>4. PixelOf(i) \in dots <=> col = k /\ row = m /\ DotOf(i) \in g
    <3>1. PixelOf(i) \in {<<FONT_WIDTH * k + e[1], FONT_HEIGHT * m + e[2]>> : e \in g}
            <=> ColumnOf(i) = k /\ RowOf(i) = m /\ DotOf(i) \in g
      BY ONLY <2>1, InGlyph
    <3> QED BY ONLY <1>13, <2>2, <3>1
  <2>5. d.fb[i] = IF PixelOf(i) \in dots THEN c
                  ELSE IF PixelOf(i) \in box THEN Black ELSE s.fb[i]
    BY <1>10, <1>15, <2>1
  <2>6. /\ Printed(q, i) =
             IF row + 1 > Len(q) THEN Black
             ELSE IF col + 1 > Len(q[row + 1]) THEN Black
             ELSE IF DotOf(i) \in Glyph[q[row + 1][col + 1][1]] THEN q[row + 1][col + 1][2] ELSE Black
        /\ Printed(p, i) =
             IF row + 1 > Len(p) THEN Black
             ELSE IF col + 1 > Len(p[row + 1]) THEN Black
             ELSE IF DotOf(i) \in Glyph[p[row + 1][col + 1][1]] THEN p[row + 1][col + 1][2] ELSE Black
    BY ONLY <2>2, PrintedAt
  <2>7. s.fb[i] = Printed(p, i)
    BY <1>1
  <2>8. CASE col = k /\ row = m
    <3>1. row + 1 = n /\ col + 1 = k + 1
      BY <1>4, <2>8
    <3>2. Printed(q, i) = IF DotOf(i) \in g THEN c ELSE Black
      BY <1>6, <1>12, <2>6, <3>1
    <3> QED BY <2>3, <2>4, <2>5, <2>8, <3>2
  <2>9. CASE ~ (col = k /\ row = m)
    <3>1. d.fb[i] = Printed(p, i)
      BY <2>3, <2>4, <2>5, <2>7, <2>9
    <3>2. CASE row + 1 > n
      BY <1>2, <1>6, <2>6, <3>1, <3>2
    <3>3. CASE row + 1 < n
      <4>1. q[row + 1] = p[row + 1] /\ Len(q) = Len(p)
        BY <1>2, <1>6, <3>3
      <4> QED BY <2>6, <3>1, <4>1
    <3>4. CASE row + 1 = n /\ col < k
      <4>1. q[n][col + 1] = p[n][col + 1]
        BY <1>6, <3>4
      <4> QED BY <1>2, <1>3, <1>6, <2>6, <3>1, <3>4, <4>1
    <3>5. CASE row + 1 = n /\ col > k
      BY <1>2, <1>3, <1>6, <2>6, <3>1, <3>5
    <3> QED BY <1>4, <2>9, <3>2, <3>3, <3>4, <3>5
  <2> QED BY <2>8, <2>9
<1>17. d.x = x /\ d.y = y /\ d.foreColour = c
  BY <1>15
<1>18. Page(d, q, c)
  BY <1>1, <1>2, <1>4, <1>6, <1>7, <1>15, <1>16, <1>17 DEF Page
<1> QED BY <1>1, <1>2, <1>3, <1>6, <1>7, <1>17, <1>18

(* video_putc() keeps screen and paper in agreement, whatever the character. *)
LEMMA PutcAgrees ==
  ASSUME NEW s, NEW p, NEW c, Agrees(s, p, c), NEW ch \in Char \cup {NewLine}
  PROVE  Agrees(video_putc(s, ch), Typed(p, ch, c), c)
<1>1. CASE ch = NewLine
  <2>1. Page(s, p, c)
    BY DEF Agrees
  <2>2. video_putc(s, ch) = video_new_line_fastest(s) /\ Typed(p, ch, c) = LineFeed(p)
    BY <1>1 DEF video_putc, Typed
  <2> QED BY <2>1, <2>2, NewLineAgrees
<1>2. CASE ch # NewLine
  <2>1. PICK d : Draws(s, ch, d)
    BY DEF Draws
  <2>2. PICK q : Types(p, ch, c, q)
    BY DEF Types
  <2>3. ch \in Char
    BY <1>2
  <2>4. /\ Page(d, q, c) /\ d.x = s.x /\ c \in Nat
        /\ Len(q) = Len(p) /\ Len(q[Len(q)]) = Len(p[Len(p)]) + 1
    <3>1. Agrees(s, p, c)
      OBVIOUS
    <3> QED BY ONLY <2>1, <2>2, <2>3, <3>1, CharacterPage
  <2>5. PICK k \in Nat : k = Len(p[Len(p)]) /\ k < Columns /\ s.x = FONT_WIDTH * k
    <3>1. p[Len(p)] \in Seq(Cell)
      BY ElementOfSeq, WholeRows DEF Agrees, Page
    <3> QED BY <3>1, LenProperties DEF Agrees
  <2>6. d.x + FONT_WIDTH + FONT_WIDTH > SCREEN_WIDTH <=> k + 1 = Columns
    BY <2>4, <2>5, WrapsFull
  <2>7. /\ video_putc(s, ch) = video_calculate_new_position(d)
        /\ Typed(p, ch, c) = IF Len(q[Len(q)]) = Columns THEN LineFeed(q) ELSE q
    BY <1>2, <2>1, <2>2 DEF Draws, Types, video_putc, Typed
  <2>8. CASE k + 1 = Columns
    <3>1. video_putc(s, ch) = video_new_line_fastest(d) /\ Typed(p, ch, c) = LineFeed(q)
      BY <2>4, <2>5, <2>6, <2>7, <2>8 DEF video_calculate_new_position
    <3> QED BY <2>4, <3>1, NewLineAgrees
  <2>9. CASE k + 1 # Columns
    <3>1. video_putc(s, ch) = [d EXCEPT !.x = d.x + FONT_WIDTH] /\ Typed(p, ch, c) = q
      BY <2>4, <2>5, <2>6, <2>7, <2>9 DEF video_calculate_new_position
    <3>2. PICK x \in Nat : x = d.x + FONT_WIDTH /\ x = FONT_WIDTH * (k + 1)
      BY <2>4, <2>5, Sizes
    <3>3. PICK e : e = video_putc(s, ch)
      OBVIOUS
    <3>4. d \in Screen
      BY <2>4 DEF Page
    <3>5. e = [fb |-> d.fb, x |-> x, y |-> d.y, foreColour |-> d.foreColour]
      BY <3>1, <3>2, <3>3, <3>4 DEF Screen
    <3>6. e \in Screen /\ e.fb = d.fb /\ e.x = x /\ e.y = d.y /\ e.foreColour = d.foreColour
      BY <3>4, <3>5 DEF Screen
    <3>7. Page(e, q, c)
      BY <2>4, <3>6 DEF Page
    <3>8. Len(q[Len(q)]) = k + 1 /\ k + 1 < Columns /\ e.x = FONT_WIDTH * (k + 1)
      BY <2>4, <2>5, <2>9, <3>2, <3>6, WholeRows
    <3> QED BY <3>1, <3>3, <3>7, <3>8 DEF Agrees
  <2> QED BY <2>8, <2>9
<1> QED BY <1>1, <1>2

-----------------------------------------------------------------------------
(* The loop over the characters of a message. *)
PageAfter(s, p, c, chars, k, f) ==
  IF k = 0 THEN <<s, p>>
  ELSE <<video_putc(f[k - 1][1], chars[k]), Typed(f[k - 1][2], chars[k], c)>>
IsAfter(s, p, c, chars, n, f) == f = [k \in 0 .. n |-> PageAfter(s, p, c, chars, k, f)]

LEMMA AfterExists ==
  ASSUME NEW s, NEW p, NEW c, NEW chars, NEW n \in Nat
  PROVE  \E f : IsAfter(s, p, c, chars, n, f)
<1> DEFINE Bad == {k \in Nat : ~ \E f : IsAfter(s, p, c, chars, k, f)}
<1> SUFFICES ASSUME Bad # {} PROVE FALSE
  OBVIOUS
<1>1. PICK m : m \in Bad /\ \A k \in Bad : m <= k
  <2>1. Bad \in SUBSET Nat
    OBVIOUS
  <2> HIDE DEF Bad
  <2> QED BY <2>1, LeastNatural
<1>2. m \in Nat
  BY <1>1
<1>3. CASE m = 0
  <2> DEFINE f == [k \in 0 .. 0 |-> <<s, p>>]
  <2>1. f = [k \in 0 .. 0 |-> PageAfter(s, p, c, chars, k, f)]
    <3>1. \A k \in 0 .. 0 : PageAfter(s, p, c, chars, k, f) = <<s, p>>
      BY DEF PageAfter
    <3> QED BY <3>1
  <2> QED BY <1>1, <1>3, <2>1 DEF IsAfter
<1>4. CASE m # 0
  <2>1. m - 1 \in Nat /\ m - 1 \notin Bad
    BY <1>1, <1>2, <1>4
  <2>2. PICK g : IsAfter(s, p, c, chars, m - 1, g)
    BY <2>1
  <2> DEFINE f == [k \in 0 .. m |-> IF k = m THEN PageAfter(s, p, c, chars, m, g) ELSE g[k]]
  <2>3. /\ \A k \in 0 .. m - 1 : f[k] = g[k] /\ g[k] = PageAfter(s, p, c, chars, k, g)
        /\ f[m] = PageAfter(s, p, c, chars, m, g)
        /\ f = [k \in 0 .. m |-> f[k]]
    BY <1>2, <2>2 DEF IsAfter
  <2> HIDE DEF f
  <2>4. ASSUME NEW k \in 0 .. m PROVE f[k] = PageAfter(s, p, c, chars, k, f)
    <3>1. CASE k = 0
      <4>1. 0 \in 0 .. m - 1
        BY <1>2, <1>4
      <4>2. f[0] = PageAfter(s, p, c, chars, 0, g)
        BY <2>3, <4>1
      <4> QED BY <3>1, <4>2 DEF PageAfter
    <3>2. CASE k # 0
      <4>1. f[k - 1] = g[k - 1]
        <5>1. k - 1 \in 0 .. m - 1
          BY <1>2, <3>2
        <5> QED BY <2>3, <5>1
      <4>2. f[k] = PageAfter(s, p, c, chars, k, g)
        <5>1. CASE k = m
          BY <2>3, <5>1
        <5>2. CASE k # m
          <6>1. k \in 0 .. m - 1
            BY <1>2, <5>2
          <6> QED BY <2>3, <6>1
        <5> QED BY <5>1, <5>2
      <4> QED BY <3>2, <4>1, <4>2 DEF PageAfter
    <3> QED BY <3>1, <3>2
  <2>5. IsAfter(s, p, c, chars, m, f)
    BY <2>3, <2>4 DEF IsAfter
  <2> QED BY <1>1, <2>5
<1> QED BY <1>3, <1>4

(* Printing a message keeps screen and paper in agreement. *)
LEMMA MessageAgrees ==
  ASSUME NEW s, NEW p, NEW c, Agrees(s, p, c), NEW chars \in Seq(Char \cup {NewLine})
  PROVE  Agrees(After(s, p, c, chars)[1], After(s, p, c, chars)[2], c)
<1>1. PICK n \in Nat : n = Len(chars)
  BY LenProperties
<1>2. PICK f : IsAfter(s, p, c, chars, n, f) /\ After(s, p, c, chars) = f[n]
  <2>1. IsAfter(s, p, c, chars, n, CHOOSE f : IsAfter(s, p, c, chars, n, f))
    BY AfterExists
  <2>2. After(s, p, c, chars) = (CHOOSE f : IsAfter(s, p, c, chars, n, f))[n]
    BY <1>1, Zenon DEF After, IsAfter, PageAfter
  <2> QED BY <2>1, <2>2
<1>3. \A k \in 0 .. n : f[k] = PageAfter(s, p, c, chars, k, f)
  BY <1>2 DEF IsAfter
<1> DEFINE OK(k) == Agrees(f[k][1], f[k][2], c)
           Bad == {k \in 0 .. n : ~OK(k)}
<1>4. Bad = {}
  <2> SUFFICES ASSUME Bad # {} PROVE FALSE
    OBVIOUS
  <2>1. PICK k : k \in Bad /\ \A j \in Bad : k <= j
    <3>1. Bad \in SUBSET Nat
      OBVIOUS
    <3> HIDE DEF Bad
    <3> QED BY <3>1, LeastNatural
  <2>2. k \in 0 .. n /\ ~OK(k)
    BY <2>1
  <2>3. CASE k = 0
    <3>1. f[k] = <<s, p>>
      BY <1>3, <2>2, <2>3 DEF PageAfter
    <3> QED BY <2>2, <3>1
  <2>4. CASE k # 0
    <3>1. k - 1 \in 0 .. n /\ k - 1 < k /\ k \in 1 .. n
      BY <2>2, <2>4
    <3>2. OK(k - 1)
      BY <2>1, <2>2, <3>1
    <3>3. PICK t, q : t = f[k - 1][1] /\ q = f[k - 1][2]
      OBVIOUS
    <3>4. PICK ch \in Char \cup {NewLine} : ch = chars[k]
      BY <1>1, <3>1, ElementOfSeq
    <3>5. Agrees(video_putc(t, ch), Typed(q, ch, c), c)
      <4>1. Agrees(t, q, c)
        BY <3>2, <3>3
      <4> QED BY <4>1, PutcAgrees
    <3>6. f[k] = <<video_putc(t, ch), Typed(q, ch, c)>>
      BY <1>3, <2>2, <2>4, <3>3, <3>4 DEF PageAfter
    <3> QED BY <2>2, <3>5, <3>6
  <2> QED BY <2>3, <2>4
<1>5. OK(n)
  BY <1>4
<1> QED BY <1>2, <1>5

(* SetForeColour() changes the colour of what is written next, and nothing    *)
(* that is on the screen.                                                     *)
LEMMA ColourAgrees ==
  ASSUME NEW s, NEW p, NEW c, Agrees(s, p, c), NEW colour \in Nat
  PROVE  Agrees(SetForeColour(s, colour), p, colour)
<1>1. s \in Screen
  BY DEF Agrees, Page
<1>2. PICK t : t = SetForeColour(s, colour)
  OBVIOUS
<1>3. t \in Screen /\ t = [fb |-> s.fb, x |-> s.x, y |-> s.y, foreColour |-> colour]
  BY <1>1, <1>2, Coloured
<1>4. t.fb = s.fb /\ t.x = s.x /\ t.y = s.y /\ t.foreColour = colour
  BY <1>3
<1>5. Agrees(t, p, colour)
  BY <1>3, <1>4 DEF Agrees, Page
<1> QED BY <1>2, <1>5

-----------------------------------------------------------------------------
(* The strengthening: the cursor is where the text ends, and a task that is   *)
(* inside printf() has a character left to write.                             *)
TextInv ==
  /\ Agrees(screen, paper, ink)
  /\ pc \in [Task -> {"colour", "print", "load", "store", "video"}]
  /\ rest \in [Task -> Seq(Char \cup {NewLine})]
  /\ \A t \in Task : pc[t] \in {"load", "store", "video"} => rest[t] # <<>>

LEMMA TextInit == ConsoleInit => TextInv
<1> SUFFICES ASSUME ConsoleInit PROVE TextInv
  OBVIOUS
<1>1. PICK s : s = screen /\ s = [fb |-> [i \in Byte |-> Black], x |-> 0, y |-> 0,
                                  foreColour |-> Initial]
  BY DEF ConsoleInit, video_init, Byte
<1>2. PICK p : p = paper /\ p = << <<>> >>
  BY DEF ConsoleInit
<1>3. /\ s \in Screen /\ s.foreColour = Initial /\ s.x = 0 /\ s.y = 0
      /\ \A i \in Byte : s.fb[i] = Black
  <2>1. Initial \in Nat /\ Black \in Nat
    BY ConsoleAssumption DEF Black
  <2> QED BY <1>1, <2>1 DEF Screen
<1>4. p \in Seq(Seq(Cell)) /\ Len(p) = 1 /\ p[1] = <<>> /\ Len(<<>>) = 0
  <2>1. <<>> \in Seq(Cell)
    OBVIOUS
  <2> QED BY <1>2, <2>1
<1>5. ASSUME NEW i \in Byte PROVE Printed(p, i) = Black
  <2>1. PICK row \in Nat, col \in Nat : row = RowOf(i) /\ col = ColumnOf(i)
    BY Place DEF Byte
  <2>2. CASE row = 0
    <3>1. row + 1 = 1 /\ col + 1 > Len(p[row + 1])
      BY <1>4, <2>2
    <3> QED BY <2>1, <3>1, PrintedAt
  <2>3. CASE row # 0
    <3>1. row + 1 > Len(p)
      BY <1>4, <2>3
    <3> QED BY <2>1, <3>1, PrintedAt
  <2> QED BY <2>2, <2>3
<1>6. FONT_HEIGHT * 0 = 0 /\ FONT_WIDTH * 0 = 0 /\ Rows \in Nat \ {0} /\ Columns \in Nat \ {0}
  BY Sizes, WholeRows
<1>7. Page(s, p, Initial)
  BY <1>3, <1>4, <1>5, <1>6 DEF Page
<1>8. Agrees(s, p, Initial)
  BY <1>3, <1>4, <1>6, <1>7 DEF Agrees
<1>9. Agrees(screen, paper, ink)
  BY <1>1, <1>2, <1>8 DEF ConsoleInit
<1>10. <<>> \in Seq(Char \cup {NewLine})
  OBVIOUS
<1> QED BY <1>9, <1>10 DEF ConsoleInit, TextInv

(* A message shown from a screen that agrees with the paper. *)
LEMMA ShowAgrees ==
  ASSUME NEW s, NEW colour, NEW chars \in Seq(Char \cup {NewLine}),
         Agrees(s, paper, colour), Show(s, colour, chars)
  PROVE  Agrees(screen', paper', ink')
<1>1. PICK p : p = paper
  OBVIOUS
<1>2. Agrees(After(s, p, colour, chars)[1], After(s, p, colour, chars)[2], colour)
  BY <1>1, MessageAgrees
<1>3. /\ screen' = After(s, p, colour, chars)[1]
      /\ paper' = After(s, p, colour, chars)[2]
      /\ ink' = colour
  BY <1>1 DEF Show
<1> QED BY <1>2, <1>3

LEMMA ChooseText ==
  ASSUME TextInv, NEW t \in Task, ChooseColour(t) PROVE TextInv'
<1>1. Agrees(screen', paper', ink')
  <2>1. PICK s, p, c : s = screen /\ p = paper /\ c = ink
    OBVIOUS
  <2>2. PICK colour \in Nat : colour = Colour[t]
    BY ConsoleAssumption
  <2>3. Agrees(SetForeColour(s, colour), p, colour)
    BY <2>1, ColourAgrees DEF TextInv
  <2> QED BY <2>1, <2>2, <2>3 DEF ChooseColour
<1> QED BY <1>1 DEF TextInv, ChooseColour

LEMMA VprintfText ==
  ASSUME TextInv, NEW t \in Task, NEW m \in Message, Vprintf(t, m) PROVE TextInv'
<1>1. m \in Seq(Char \cup {NewLine}) /\ m # <<>>
  BY ConsoleAssumption
<1>2. Agrees(screen', paper', ink')
  BY DEF TextInv, Vprintf
<1> QED BY <1>1, <1>2 DEF TextInv, Vprintf

LEMMA CountText ==
  ASSUME TextInv, NEW t \in Task, CountLoad(t) \/ CountStore(t) PROVE TextInv'
<1>1. Agrees(screen', paper', ink')
  BY DEF TextInv, CountLoad, CountStore
<1> QED BY <1>1 DEF TextInv, CountLoad, CountStore

LEMMA PutcText ==
  ASSUME TextInv, NEW t \in Task, VideoPutc(t) PROVE TextInv'
<1>1. PICK chars \in Seq(Char \cup {NewLine}) : chars = rest[t] /\ chars # <<>>
  BY DEF TextInv, VideoPutc
<1>2. /\ Head(chars) \in Char \cup {NewLine} /\ Tail(chars) \in Seq(Char \cup {NewLine})
      /\ Len(chars) # 1 => Tail(chars) # <<>>
  <2>1. /\ Head(chars) \in Char \cup {NewLine} /\ Tail(chars) \in Seq(Char \cup {NewLine})
        /\ Len(Tail(chars)) = Len(chars) - 1
    BY <1>1, HeadTailProperties
  <2>2. PICK n \in Nat : n = Len(chars)
    BY LenProperties
  <2>3. n # 1 => Len(Tail(chars)) # 0
    BY <2>1, <2>2
  <2> QED BY <2>1, <2>2, <2>3, EmptySeq
<1>3. Agrees(screen', paper', ink')
  <2>1. PICK one \in Seq(Char \cup {NewLine}) : one = <<Head(rest[t])>>
    <3>1. PICK ch \in Char \cup {NewLine} : ch = Head(rest[t])
      BY <1>1, <1>2
    <3>2. <<ch>> \in Seq(Char \cup {NewLine})
      OBVIOUS
    <3> QED BY <3>1, <3>2
  <2>2. PICK s, c : s = screen /\ c = ink
    OBVIOUS
  <2>3. Agrees(s, paper, c)
    BY <2>2 DEF TextInv
  <2>4. Show(s, c, one)
    BY <2>1, <2>2 DEF VideoPutc
  <2> QED BY ONLY <2>3, <2>4, ShowAgrees
<1>4. rest' = [rest EXCEPT ![t] = Tail(chars)]
      /\ pc' = [pc EXCEPT ![t] = IF Len(chars) = 1 THEN "colour" ELSE "load"]
  BY <1>1 DEF VideoPutc
<1> QED BY <1>2, <1>3, <1>4 DEF TextInv

LEMMA MaskedText ==
  ASSUME TextInv, NEW m \in IrqMessage, MaskedPrintf(m) \/ MainPrintf(m) PROVE TextInv'
<1>1. m \in Seq(Char \cup {NewLine}) /\ MainColour \in Nat
  BY ConsoleAssumption
<1>2. Agrees(screen', paper', ink')
  <2>1. PICK s, c : s = screen /\ c = ink
    OBVIOUS
  <2>2. Agrees(s, paper, c)
    BY <2>1 DEF TextInv
  <2>3. CASE MaskedPrintf(m)
    <3>1. Show(s, c, m)
      BY <2>1, <2>3 DEF MaskedPrintf, MaskedShow
    <3> QED BY <1>1, <2>2, <3>1, ShowAgrees
  <2>4. CASE MainPrintf(m)
    <3>1. PICK d \in Nat : d = MainColour
      BY <1>1
    <3>2. PICK u : u = SetForeColour(s, d)
      OBVIOUS
    <3>3. Agrees(u, paper, d)
      <4>1. PICK p : p = paper
        OBVIOUS
      <4>2. Agrees(SetForeColour(s, d), p, d)
        BY <2>2, <4>1, ColourAgrees
      <4> QED BY <3>2, <4>1, <4>2
    <3>4. Show(u, d, m)
      BY <2>1, <2>4, <3>1, <3>2 DEF MainPrintf, MaskedShow
    <3> QED BY <1>1, <3>3, <3>4, ShowAgrees
  <2> QED BY <2>3, <2>4
<1>3. UNCHANGED <<pc, rest>>
  BY DEF MaskedPrintf, MainPrintf, MaskedShow
<1> QED BY <1>2, <1>3 DEF TextInv

LEMMA TextInvariant == ConsoleSpec => []TextInv
<1>1. ASSUME TextInv, [ConsoleNext]_consoleVars PROVE TextInv'
  <2>1. CASE UNCHANGED consoleVars
    <3>1. Agrees(screen', paper', ink')
      BY <1>1, <2>1 DEF TextInv, consoleVars
    <3> QED BY <1>1, <2>1, <3>1 DEF TextInv, consoleVars
  <2>2. ASSUME NEW t \in Task, ChooseColour(t) PROVE TextInv'
    BY <1>1, <2>2, ChooseText
  <2>3. ASSUME NEW t \in Task, NEW m \in Message, Vprintf(t, m) PROVE TextInv'
    BY <1>1, <2>3, VprintfText
  <2>4. ASSUME NEW t \in Task, CountLoad(t) \/ CountStore(t) PROVE TextInv'
    BY <1>1, <2>4, CountText
  <2>5. ASSUME NEW t \in Task, VideoPutc(t) PROVE TextInv'
    BY <1>1, <2>5, PutcText
  <2>6. ASSUME NEW m \in IrqMessage, MaskedPrintf(m) \/ MainPrintf(m) PROVE TextInv'
    BY <1>1, <2>6, MaskedText
  <2> QED BY <1>1, <2>1, <2>2, <2>3, <2>4, <2>5, <2>6 DEF ConsoleNext
<1> QED BY <1>1, TextInit, PTL DEF ConsoleSpec

(* Whatever tasks and interrupt handlers write at the same time, on a screen, *)
(* a font and a glyph set of any size, video.c shows the last lines of what   *)
(* was written, in the colours it was written in, and nothing else: only the  *)
(* byte that each scroll leaves behind may be wrong.                          *)
THEOREM TextShown == ConsoleSpec => []ScreenShowsText
<1>1. TextInv => ScreenShowsText
  <2> SUFFICES ASSUME TextInv PROVE ScreenShowsText
    OBVIOUS
  <2>1. /\ screen \in Screen /\ screen.foreColour = ink
        /\ \A i \in Byte \ LeftBehind : screen.fb[i] = Printed(paper, i)
    BY DEF TextInv, Agrees, Page
  <2>2. DOMAIN screen.fb = Byte
    BY <2>1 DEF Screen
  <2> QED BY <2>1, <2>2 DEF ScreenShowsText
<1> QED BY <1>1, TextInvariant, PTL

(* The whole character that video_putc() draws next is always on the screen:  *)
(* no write of video.c needs DrawPixel() to ignore it, and none falls outside *)
(* the framebuffer.                                                           *)
CursorOnScreen ==
  /\ screen.x + FONT_WIDTH <= SCREEN_WIDTH
  /\ screen.y + FONT_HEIGHT <= SCREEN_HEIGHT
  /\ DOMAIN screen.fb = 0 .. ScreenBytes - 1

(* The cursor never leaves the screen, whatever is written in whatever order. *)
THEOREM CursorStays == ConsoleSpec => []CursorOnScreen
<1>1. TextInv => CursorOnScreen
  <2> SUFFICES ASSUME TextInv PROVE CursorOnScreen
    OBVIOUS
  <2>1. /\ screen \in Screen /\ Len(paper) \in 1 .. Rows
        /\ screen.y = FONT_HEIGHT * (Len(paper) - 1)
        /\ paper \in Seq(Seq(Cell))
        /\ Len(paper[Len(paper)]) < Columns
        /\ screen.x = FONT_WIDTH * Len(paper[Len(paper)])
    BY DEF TextInv, Agrees, Page
  <2>2. DOMAIN screen.fb = 0 .. ScreenBytes - 1
    BY <2>1 DEF Screen, Byte
  <2>3. PICK m \in Nat : m = Len(paper) - 1 /\ m < Rows
    <3>1. PICK n \in 1 .. Rows : n = Len(paper)
      BY <2>1
    <3> QED BY <3>1, WholeRows
  <2>4. PICK k \in Nat : k = Len(paper[Len(paper)]) /\ k < Columns
    <3>1. paper[Len(paper)] \in Seq(Cell)
      BY <2>1, WholeRows, ElementOfSeq
    <3> QED BY <2>1, <3>1, LenProperties
  <2>5. /\ FONT_HEIGHT * m \in Nat /\ FONT_HEIGHT * m + FONT_HEIGHT <= FONT_HEIGHT * Rows
        /\ FONT_WIDTH * k \in Nat /\ FONT_WIDTH * k + FONT_WIDTH <= FONT_WIDTH * Columns
    BY <2>3, <2>4, Sizes, WholeRows, Order
  <2>6. screen.y = FONT_HEIGHT * m /\ screen.x = FONT_WIDTH * k
    BY <2>1, <2>3, <2>4
  <2>7. FONT_HEIGHT * m + FONT_HEIGHT <= SCREEN_HEIGHT /\ FONT_WIDTH * k + FONT_WIDTH <= SCREEN_WIDTH
    BY <2>5, Sizes, WholeRows
  <2> QED BY <2>2, <2>6, <2>7 DEF CursorOnScreen
<1> QED BY <1>1, TextInvariant, PTL
==============================================================================
