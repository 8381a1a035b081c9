SPECIFICATION FairSpec
CONSTANTS
  r1 = r1
  r2 = r2
  r3 = r3
  r4 = r4
  u = u
  s = s
  Reqs = {r1, r2, r3}
  Users = {u, r3, r4}
  Skus = {s}
  Slots = {u, r3, r4}
  UserOf <- MCUserOf
  SkuOf <- MCSkuOf
  InitStock <- MCStock
  SlotOf <- MCSlotOf
  Units = 1
  PoolSize = 2
  Gated = TRUE
CHECK_DEADLOCK FALSE
INVARIANTS
  NoOversell SoldOutIsHonest OkIsDurable
  InvalidationFollowsCommit GateShieldsDatabase
PROPERTIES
  ImplementsFlashSale UsesGate AcceptedRequestsFinish
