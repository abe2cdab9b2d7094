SPECIFICATION Spec
CONSTANTS
  r1 = r1
  r2 = r2
  a = a
  b = b
  c = c
  push = push
  NoKey = NoKey
  NoRun = NoRun
  RunID = {r1}
  JobKey = {a}
  RunOf <- SoloRunOf
  Position <- SoloPosition
  DependsOn <- SoloDependsOn
  Condition <- SoloCondition
  DeliveryOf <- PairDeliveryOf
  Delivery = {push}
  MaxRows = 1
  MaxLapses = 0
  MaxLoad = 6
  Dispatcher = {d1}
  Handler = {h1}
PROPERTY TerminalSticky
