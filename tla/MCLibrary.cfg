CONSTANTS
  a = a
  b = b
  c = c
  w = w
  x = x
  y = y
  z = z
  Elem <- MCElem
  Keys <- MCKeys
  List = {l1, l2}
  NULL = NULL
  HashElem <- MCHashElem
  Data <- MCData
  None = None
  MIN_BUCKETS = 1
  BEST_ELEMS_PER_BUCKET = 1
  SCREEN_WIDTH = 2
  SCREEN_HEIGHT = 6
  FONT_WIDTH = 1
  FONT_HEIGHT = 2
  BYTES_PER_PIXEL = 2
  BLOCK = 8
  WORD = 4
  t1 = t1
  t2 = t2
  NewLine = "nl"
  Char <- MCChar
  Glyph <- MCGlyph
  Task = {t1, t2}
  Colour <- MCColour
  Initial = 3
  MainColour = 3
  Message <- MCMessage
  IrqMessage <- MCIrqMessage
  MaxMessages = 2
  MaxIrq = 1
SPECIFICATION MCSpec
CHECK_DEADLOCK FALSE
INVARIANTS
  TableExact
  ScreenShowsText
  CountNotOver
PROPERTIES
  ImplementsSequences
  ImplementsDictionary
