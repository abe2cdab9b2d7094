SPECIFICATION Spec
CONSTANTS
  r1 = r1
  r2 = r2
  a = a
  b = b
  c = c
  push = push
  NoKey = NoKey
  NoRun = NoRun
  RunID = {r1}
  JobKey = {a, b}
  RunOf <- PairRunOf
  Position <- PairPosition
  DependsOn <- PairDependsOn
  Condition <- PairCondition
  DeliveryOf <- PairDeliveryOf
  Delivery = {push}
  MaxRows = 2
  MaxLapses = 1
  MaxLoad = 4
  Dispatcher = {d1, d2}
  Handler = {h1, h2}
SYMMETRY SessionSymmetry
INVARIANTS
  ClaimsWithinLease
  LockedStaysQueued
  NoLockCycle
