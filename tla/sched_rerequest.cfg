SPECIFICATION Spec
CONSTANTS
  r1 = r1
  a = a
  b = b
  RunID = {r1}
  JobKey = {a, b}
  RunOf <- PairRunOf
  Position <- PairPosition
  MaxIntents = 2
  DependsOn <- PairDependsOn
  Condition <- PairCondition
  MaxAttempt = 2
  MaxRerequests = 1
  NoJob = NoJob
  Dispatcher = {d1}
INVARIANTS
  RunClosedWithJobs
  SuccessIsUnanimous
  NeedsRespected
PROPERTIES
  TerminalSticky
  ObjectsOutliveJobs
