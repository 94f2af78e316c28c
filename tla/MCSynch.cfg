CONSTANTS
  Thread = {t1, t2, t3, t4}
  Cond = {c1}
  NULL = NULL
  Lock = lock
SPECIFICATION FairSpec
CHECK_DEADLOCK FALSE
INVARIANTS
  NoPanic
  MutualExclusion
  Bookkeeping
  NoLostWakeup
  NoLostSignal
PROPERTIES
  ImplementsMonitor
  LockTaken
  SignalledReturns
  BroadcastWakesAll
