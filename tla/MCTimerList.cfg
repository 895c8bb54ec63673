SPECIFICATION FairSpec
CONSTANTS
  Timers = {t1, t2, t3}
  NULL = null
  Timeouts = {0, 1, 3}
  Second = 2
  Milli = 2
  MaxTime = 6
INVARIANTS
  ListIsSound
  TimeoutIsLegal
PROPERTIES
  IsTimerQueue
  StartedTimerEnds
CHECK_DEADLOCK FALSE
