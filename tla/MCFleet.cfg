SPECIFICATION FairSpec
CONSTANTS
  w1 = w1
  w2 = w2
  s1 = s1
  s2 = s2
  Workers = {w1, w2}
  Sessions = {s1, s2}
  Hosted = {s1}
  None = None
  Capacity = 2
  ShedPerTick = 2
  ClaimBatch = 8
  Budgets <- FleetFaults
INVARIANTS HolderOwns NoLeakedClient ServedOnce
PROPERTIES ActiveHolderKept FailsOver Settles
