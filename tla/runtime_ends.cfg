SPECIFICATION FairSpec
CONSTANTS
  MaxPods = 1
  MaxFaults = 0
PROPERTY JobEnds
CHECK_DEADLOCK FALSE
