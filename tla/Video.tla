-------------------------------- MODULE Video --------------------------------
(***************************************************************************)
(* The text screen of devices/video.c over the framebuffer: what each      *)
(* function does to a screen S, byte by byte.  video_putc() masks          *)
(* interrupts, so all of it is one step of the system.                     *)
(***************************************************************************)
EXTENDS Naturals

CONSTANTS SCREEN_WIDTH, SCREEN_HEIGHT,  \* in pixels
          FONT_WIDTH, FONT_HEIGHT,
          BYTES_PER_PIXEL,
          BLOCK, WORD,                  \* bytes memory_fastest_copy() moves at a time
          Char, NewLine,
          Glyph                         \* the pixels of each character: font.bin

ASSUME GeometryAssumption ==
  /\ {SCREEN_WIDTH, SCREEN_HEIGHT, FONT_WIDTH, FONT_HEIGHT, BYTES_PER_PIXEL,
      BLOCK, WORD} \subseteq Nat \ {0}
  /\ FONT_WIDTH <= SCREEN_WIDTH /\ FONT_HEIGHT <= SCREEN_HEIGHT
  /\ NewLine \notin Char
  /\ Glyph \in [Char -> SUBSET ((0 .. FONT_WIDTH - 1) \X (0 .. FONT_HEIGHT - 1))]

Black == 0
ScreenBytes == SCREEN_WIDTH * SCREEN_HEIGHT * BYTES_PER_PIXEL
RowSize == SCREEN_WIDTH * BYTES_PER_PIXEL * FONT_HEIGHT
Rows == SCREEN_HEIGHT \div FONT_HEIGHT
Columns == SCREEN_WIDTH \div FONT_WIDTH

(* The pixel that byte I belongs to. *)
PixelOf(i) == LET p == i \div BYTES_PER_PIXEL IN <<p % SCREEN_WIDTH, p \div SCREEN_WIDTH>>

(* video_init(), the framebuffer black as the GPU hands it out. *)
video_init(colour) ==
  [fb |-> [i \in 0 .. ScreenBytes - 1 |-> Black], x |-> 0, y |-> 0, foreColour |-> colour]

-----------------------------------------------------------------------------
SetForeColour(s, colour) == [s EXCEPT !.foreColour = colour]

(* DrawPixel() for every pixel of the set; it ignores those off the screen. *)
DrawPixels(s, pixels) ==
  [s EXCEPT !.fb = [i \in DOMAIN @ |-> IF PixelOf(i) \in pixels THEN s.foreColour ELSE @[i]]]

(* Only the pixels of the glyph are drawn, not its background. *)
DrawCharacter(s, character) ==
  DrawPixels(s, {<<s.x + p[1], s.y + p[2]>> : p \in Glyph[character]})

Clean(s, pixels) ==
  SetForeColour(DrawPixels(SetForeColour(s, Black), pixels), s.foreColour)
video_clean_row(s, y) ==
  Clean(s, (0 .. SCREEN_WIDTH - 1) \X (y .. y + FONT_HEIGHT - 1))
video_clean_character(s, x, y) ==
  Clean(s, (x .. x + FONT_WIDTH - 1) \X (y .. y + FONT_HEIGHT - 1))

(* A loop of memory_fastest_copy() moves STEP bytes and goes on while more    *)
(* than STEP are left ("bls" leaves it at STEP): the bytes it leaves of N.    *)
LoopLeaves(step, n) ==
  LET rest[m \in 0 .. n] == IF m > step THEN rest[m - step] ELSE m IN rest[n]
Copied(size) == size - LoopLeaves(1, LoopLeaves(WORD, LoopLeaves(BLOCK, size)))

(* memory_fastest_copy(gpu_pointer + row_size, gpu_pointer, size): upwards,   *)
(* to lower addresses, so no block overwrites what is still to be read.       *)
memory_fastest_copy(s, size) ==
  [s EXCEPT !.fb = [i \in DOMAIN @ |-> IF i < Copied(size) THEN @[i + RowSize] ELSE @[i]]]

ScrollsEarly(new_y) == new_y + FONT_HEIGHT >= SCREEN_HEIGHT     \* mutant: off by one
Scrolls(new_y) == new_y + FONT_HEIGHT > SCREEN_HEIGHT
video_new_line_fastest(s) ==
  LET new_y == s.y + FONT_HEIGHT
  IN  IF Scrolls(new_y)
      THEN [video_clean_row(memory_fastest_copy(s, ScreenBytes - RowSize), s.y) EXCEPT !.x = 0]
      ELSE [s EXCEPT !.x = 0, !.y = new_y]

video_calculate_new_position(s) ==
  LET new_x == s.x + FONT_WIDTH
  IN  IF new_x + FONT_WIDTH > SCREEN_WIDTH THEN video_new_line_fastest(s)
      ELSE [s EXCEPT !.x = new_x]

video_putc(s, character) ==
  IF character = NewLine THEN video_new_line_fastest(s)
  ELSE video_calculate_new_position(DrawCharacter(video_clean_character(s, s.x, s.y), character))

=============================================================================
