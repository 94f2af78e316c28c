CONSTANTS
  Thread = {t1, t2}
  NULL = NULL
  PageCnt = 3
  PGSIZE = 64
  ArenaSize = 40
  MinBlock = 8
  SizeRange = 256
  ELEM_BITS = 32
  Sizes = {8, 9, 33}
  CallocArgs <- FitArgs
  MaxBlocks = 4
SPECIFICATION Spec
SYMMETRY ThreadSymmetry
CONSTRAINT NothingLost
INVARIANTS
  NoPanic
  BlocksApart
  ArenasExact
  HoldsRequest
