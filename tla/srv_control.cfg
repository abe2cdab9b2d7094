SPECIFICATION ServerFairSpec
CONSTANTS
  r1 = r1
  r2 = r2
  a = a
  b = b
  c = c
  push = push
  RunID = {r1, r2}
  JobKey = {a, b, c}
  RunOf <- MixRunOf
  Position <- MixPosition
  MaxIntents = 3
  DependsOn <- MixDependsOn
  Condition <- MixCondition
  MaxAttempt = 1
  MaxRerequests = 0
  NoJob = NoJob
  Dispatcher = {loop1}
  Handler = {h1, h2}
  Delivery = {push}
  DeliveryOf <- TwoDeliveryOf
INVARIANTS
  OneRunPerDelivery
  RunsArePlanned
  SkipIsJustified
PROPERTIES
  ImplementsScheduler
  DeliveryBecomesRun
  DispatchOnceReturns
