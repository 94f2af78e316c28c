CONSTANTS
  Half = 3
  Registrable <- LowLines
  TimerLine = {0, 1}
  Wrap = 16
  TIMER_PERIODIC_INTERVAL = 4
  BootSleep = 5
  HandlerSleep = 3
  TaskSleep = 2
  MaxLag = 2
SPECIFICATION MCSpec
INVARIANTS
  EnabledHasDriver
  PendingServed
  MatchAhead
PROPERTIES
  EventsServed
  NotEarly
  TicksForever
