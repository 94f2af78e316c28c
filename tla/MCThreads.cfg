CONSTANTS
  Page = {p1, p2, p3}
  Main = main
  Sema = {s1}
  IdleStarted = idle_started
  NULL = NULL
  TaskLevel = {"ON", "OFF"}
  MaxTid = 5
  MaxValue = 2
SPECIFICATION Spec
SYMMETRY PageSymmetry
INVARIANTS
  TypeOK
  IInv
  NoPanic
  StacksMatch
  ElemDiscipline
  NoThreadLost
  NoLostWakeup
  AllListExact
  SliceRespected
PROPERTIES
  ImplementsRoundRobin
