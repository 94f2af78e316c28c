CONSTANTS
  Half = 3
  Registrable <- HighLine
  TimerLine = {0, 1}
SPECIFICATION FairSpec
INVARIANTS
  RunsRegisteredHandler
