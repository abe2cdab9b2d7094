SPECIFICATION ServerSpec
CONSTANTS
  r1 = r1
  r2 = r2
  a = a
  b = b
  c = c
  push = push
  RunID = {r1, r2}
  JobKey = {a, c}
  RunOf <- SoloRunOf
  Position <- SoloPosition
  MaxIntents = 3
  DependsOn <- SoloDependsOn
  Condition <- SoloCondition
  MaxAttempt = 2
  MaxRerequests = 1
  NoJob = NoJob
  Dispatcher = {loop1}
  Handler = {h1}
  Delivery = {push}
  DeliveryOf <- TwoDeliveryOf
INVARIANTS
  FalseConditionNeverRuns
