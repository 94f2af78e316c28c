CONSTANTS
  SCREEN_WIDTH = 2
  SCREEN_HEIGHT = 6
  FONT_WIDTH = 1
  FONT_HEIGHT = 2
  BYTES_PER_PIXEL = 2
  BLOCK = 8
  WORD = 4
  t1 = t1
  t2 = t2
  NewLine = "nl"
  Char <- MCChar
  Glyph <- MCGlyph
  Task = {t1, t2}
  Colour <- MCColour
  Initial = 3
  MainColour = 3
  Message <- MCMessage
  IrqMessage <- MCIrqMessage
  MaxMessages = 2
  MaxIrq = 1
SPECIFICATION ConsoleSpec
CHECK_DEADLOCK FALSE
INVARIANTS
  ScrollCopiesAll
