SPECIFICATION FairSpec
CONSTANTS
  Events = {e1, e2, e3}
  NoEvent = NoEvent
  MaxMillis = 2
  MaxTime = 3
INVARIANTS
  TypeOK
  NothingFreedIsUsed
  OneDeletes
  OnceAndInTime
PROPERTIES
  TimersFire
CHECK_DEADLOCK FALSE
