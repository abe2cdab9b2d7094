SPECIFICATION FairSpec
CONSTANTS
  r1 = r1
  r2 = r2
  a = a
  b = b
  c = c
  push = push
  NoKey = NoKey
  NoRun = NoRun
  RunID = {r1, r2}
  JobKey = {a, c}
  RunOf <- TwoRunOf
  Position <- TwoPosition
  DependsOn <- TwoDependsOn
  Condition <- TwoCondition
  DeliveryOf <- TwoDeliveryOf
  Delivery = {push}
  MaxRows = 3
  MaxLapses = 0
  MaxLoad = 6
  Dispatcher = {}
  Handler = {h1, h2}
CHECK_DEADLOCK FALSE
INVARIANTS
  OneRunPerDelivery
PROPERTIES
  CallsEnd
