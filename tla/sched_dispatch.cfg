SPECIFICATION FairSpec
CONSTANTS
  r1 = r1
  a = a
  b = b
  RunID = {r1}
  JobKey = {a, b}
  RunOf <- PairRunOf
  Position <- PairPosition
  MaxIntents = 2
  DependsOn <- PairDependsOn
  Condition <- PairCondition
  MaxAttempt = 1
  MaxRerequests = 0
  NoJob = NoJob
  Dispatcher = {d1, d2}
INVARIANTS
  TypeOK
  ExclusiveDispatch
  ActiveHasObject
PROPERTIES
  JobsSettle
  JobsCollected
