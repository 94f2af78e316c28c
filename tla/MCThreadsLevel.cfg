CONSTANTS
  Page = {p1, p2}
  Main = main
  Sema = {s1}
  IdleStarted = idle_started
  NULL = NULL
  TaskLevel = {}
  MaxTid = 4
  MaxValue = 1
SPECIFICATION Spec
INVARIANTS
  TasksPreemptible
