SPECIFICATION FairSpec
CONSTANTS
  Waiters = {w1}
  Counters = {c1, c2}
  Target <- MCTarget
  InitCount = 1
  MaxSteps = 2
CHECK_DEADLOCK FALSE
INVARIANTS
  NoLostWakeup
PROPERTIES
  WaitersReturn
