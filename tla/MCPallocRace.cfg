CONSTANTS
  Thread = {t1, t2}
  NULL = NULL
  FreePages = 9
  UserPageLimit = 3
  ELEM_BITS = 32
  MaxCnt = 3
  Masked = FALSE
SPECIFICATION Spec
CHECK_DEADLOCK FALSE
INVARIANTS
  NoDoubleAllocation
