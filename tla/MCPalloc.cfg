CONSTANTS
  Thread = {t1, t2}
  NULL = NULL
  FreePages = 9
  UserPageLimit = 3
  ELEM_BITS = 2
  MaxCnt = 3
  Masked = TRUE
SPECIFICATION Spec
SYMMETRY ThreadSymmetry
INVARIANTS
  NoPanic
  NoDoubleAllocation
  MapExact
  GroupsInPool
