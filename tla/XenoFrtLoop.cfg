SPECIFICATION FairSpec
CONSTANTS
  SEC = 4
  cycle_time = 3
  StartTimes <- MCStartTimes
  GarbageCounts <- MCGarbageCounts
  MaxDelay = 7
  MaxClock = 12
INVARIANTS TypeOK NoDrift NoEarlyStep MissedExactly RunTimeExact
PROPERTY LoopEnds
CHECK_DEADLOCK FALSE
