SPECIFICATION Spec
CONSTANTS
  MaxPods = 2
  MaxFaults = 1
INVARIANTS
  SuccessIsEarned
  CheckHonest
PROPERTY CRNeverRegresses
CHECK_DEADLOCK FALSE
