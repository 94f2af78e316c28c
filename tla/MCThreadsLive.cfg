CONSTANTS
  Page = {p1, p2}
  Main = main
  Sema = {s1}
  IdleStarted = idle_started
  NULL = NULL
  TaskLevel = {"ON", "OFF"}
  MaxTid = 3
  MaxValue = 1
SPECIFICATION FairSpec
PROPERTIES
  ReadyRuns
  BootCompletes
