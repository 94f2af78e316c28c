------------------------------- MODULE Console -------------------------------
(***************************************************************************)
(* printf() as tasks and interrupt handlers use it at the same time:       *)
(* lib/kernel/console.c over devices/video.c.  console_init() is never     *)
(* called, so use_console_lock stays false, acquire_console() and          *)
(* release_console() return at once, and the characters of several         *)
(* messages reach the screen in any order.                                 *)
(***************************************************************************)
EXTENDS Video, Sequences, FiniteSets

CONSTANTS Task, Colour,         \* tasks, and the colour each one prints in
          Initial, MainColour,  \* the colour at first, and the one of init()'s loop
          Message, IrqMessage,  \* what tasks and the kernel print
          MaxMessages,          \* bound: messages of a task
          MaxIrq                \* bound: messages with interrupts masked

ASSUME ConsoleAssumption ==
  /\ Colour \in [Task -> Nat \ {Black}] /\ {Initial, MainColour} \subseteq Nat \ {Black}
  /\ Message \cup IrqMessage \subseteq Seq(Char \cup {NewLine}) /\ <<>> \notin Message
  /\ MaxMessages \in Nat /\ MaxIrq \in Nat /\ IsFiniteSet(Task)

VARIABLES screen,
          write_cnt,    \* the count putchar_have_lock() keeps
          pc,           \* where each task is in its loop
          rest,         \* characters of its message it has yet to write
          register,     \* write_cnt as the task loaded it
          messages,     \* messages each task has begun
          irqs,
          written,      \* history: characters written
          paper,        \* history: the text on paper, its last lines
          ink           \* history: the colour a task chose last

consoleVars == <<screen, write_cnt, pc, rest, register, messages, irqs, written, paper, ink>>

ConsoleInit ==
  /\ screen = video_init(Initial)
  /\ write_cnt = 0 /\ written = 0
  /\ pc = [t \in Task |-> "colour"]
  /\ rest = [t \in Task |-> <<>>]
  /\ register = [t \in Task |-> 0]
  /\ messages = [t \in Task |-> 0]
  /\ irqs = 0
  /\ paper = << <<>> >>
  /\ ink = Initial

-----------------------------------------------------------------------------
(* The same text on paper: a new line after every new-line character and     *)
(* after every full line, of which the screen has room for the last ones.     *)
LineFeed(p) == Append(IF Len(p) = Rows THEN Tail(p) ELSE p, <<>>)
Typed(p, c, colour) ==
  LET q == [p EXCEPT ![Len(p)] = Append(@, <<c, colour>>)]
  IN  IF c = NewLine THEN LineFeed(p)
      ELSE IF Len(q[Len(q)]) = Columns THEN LineFeed(q) ELSE q

(* Screen S and paper P after CHARS, written one by one in COLOUR. *)
After(s, p, colour, chars) ==
  LET after[k \in 0 .. Len(chars)] ==
        IF k = 0 THEN <<s, p>>
        ELSE LET before == after[k - 1]
             IN  <<video_putc(before[1], chars[k]), Typed(before[2], chars[k], colour)>>
  IN  after[Len(chars)]

(* CHARS written to screen S, whose colour is COLOUR. *)
Show(s, colour, chars) ==
  LET after == After(s, paper, colour, chars)
  IN  /\ screen' = after[1] /\ paper' = after[2]
      /\ written' = written + Len(chars)
      /\ ink' = colour

(* A task's loop: SetForeColour(), then printf(). *)
ChooseColour(t) ==
  /\ pc[t] = "colour" /\ messages[t] < MaxMessages
  /\ screen' = SetForeColour(screen, Colour[t])
  /\ ink' = Colour[t]
  /\ pc' = [pc EXCEPT ![t] = "print"]
  /\ messages' = [messages EXCEPT ![t] = @ + 1]
  /\ UNCHANGED <<write_cnt, rest, register, irqs, written, paper>>

(* vprintf(): acquire_console() finds use_console_lock false. *)
Vprintf(t, m) ==
  /\ pc[t] = "print"
  /\ rest' = [rest EXCEPT ![t] = m]
  /\ pc' = [pc EXCEPT ![t] = "load"]
  /\ UNCHANGED <<screen, write_cnt, register, messages, irqs, written, paper, ink>>

(* putchar_have_lock(): write_cnt++ is a load and a store that nothing keeps  *)
(* together, then serial_putc(), which is empty, and video_putc().            *)
CountLoad(t) ==
  /\ pc[t] = "load"
  /\ register' = [register EXCEPT ![t] = write_cnt]
  /\ pc' = [pc EXCEPT ![t] = "store"]
  /\ UNCHANGED <<screen, write_cnt, rest, messages, irqs, written, paper, ink>>
CountTwice(t) ==                        \* mutant: vprintf_helper() counts as well
  /\ pc[t] = "store"
  /\ write_cnt' = register[t] + 2
  /\ register' = [register EXCEPT ![t] = 0]
  /\ pc' = [pc EXCEPT ![t] = "video"]
  /\ UNCHANGED <<screen, rest, messages, irqs, written, paper, ink>>
CountStore(t) ==
  /\ pc[t] = "store"
  /\ write_cnt' = register[t] + 1
  /\ register' = [register EXCEPT ![t] = 0]
  /\ pc' = [pc EXCEPT ![t] = "video"]
  /\ UNCHANGED <<screen, rest, messages, irqs, written, paper, ink>>
VideoPutc(t) ==
  /\ pc[t] = "video"
  /\ Show(screen, ink, <<Head(rest[t])>>)
  /\ rest' = [rest EXCEPT ![t] = Tail(@)]
  /\ pc' = [pc EXCEPT ![t] = IF Len(rest[t]) = 1 THEN "colour" ELSE "load"]
  /\ UNCHANGED <<write_cnt, register, messages, irqs>>

(* printf() with interrupts masked: no task runs before it is over.  In an    *)
(* interrupt handler and in schedule(), in the colour there is; in the loop   *)
(* of init() after SetForeColour().                                           *)
MaskedShow(s, colour, m) ==
  /\ irqs < MaxIrq /\ irqs' = irqs + 1
  /\ Show(s, colour, m)
  /\ write_cnt' = write_cnt + Len(m)
  /\ UNCHANGED <<pc, rest, register, messages>>
MaskedPrintf(m) == MaskedShow(screen, ink, m)
MainPrintf(m) == MaskedShow(SetForeColour(screen, MainColour), MainColour, m)

ConsoleNext ==
  \/ \E t \in Task : \/ ChooseColour(t)
                     \/ \E m \in Message : Vprintf(t, m)
                     \/ CountLoad(t) \/ CountStore(t) \/ VideoPutc(t)
  \/ \E m \in IrqMessage : MaskedPrintf(m) \/ MainPrintf(m)

ConsoleSpec == ConsoleInit /\ [][ConsoleNext]_consoleVars

-----------------------------------------------------------------------------
(* The byte that paper P puts at byte I of the framebuffer. *)
Printed(p, i) ==
  LET pixel == PixelOf(i)
      row == (pixel[2] \div FONT_HEIGHT) + 1
      column == (pixel[1] \div FONT_WIDTH) + 1
  IN  IF row > Len(p) THEN Black
      ELSE IF column > Len(p[row]) THEN Black
      ELSE LET cell == p[row][column]
               dot == <<pixel[1] % FONT_WIDTH, pixel[2] % FONT_HEIGHT>>
           IN  IF dot \in Glyph[cell[1]] THEN cell[2] ELSE Black

(* Scrolling leaves the last byte of the area behind, and later carries what *)
(* it left there further up: the last byte of every row but the bottom one.  *)
LeftBehind == {i \in 0 .. ScreenBytes - 1 : (i + 1) % RowSize = 0 /\ i + 1 < Rows * RowSize}

(* The screen shows the end of the text, in the colour that was last chosen  *)
(* when each character was written, and nothing else: whatever tasks and     *)
(* interrupt handlers write at the same time, wrapping, scrolling, cleaning  *)
(* and drawing keep every other character legible.                           *)
ScreenShowsText ==
  /\ screen.foreColour = ink
  /\ \A i \in DOMAIN screen.fb \ LeftBehind : screen.fb[i] = Printed(paper, i)

(* memoryCopy.s: "Copies "size" bytes from src to dest."  A scroll moves     *)
(* every byte of the rows below the first one.                               *)
ScrollCopiesAll == \A i \in DOMAIN screen.fb : screen.fb[i] = Printed(paper, i)

(* console_print_stats() may report too few characters, as increments of two *)
(* tasks and an interrupt handler are lost to each other, but never more     *)
(* than were written or are being written.                                   *)
CountNotOver == write_cnt <= written + Cardinality({t \in Task : pc[t] = "video"})
=============================================================================
