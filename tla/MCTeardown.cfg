SPECIFICATION Spec
CONSTANTS
  w1 = w1
  w2 = w2
  s1 = s1
  Workers = {w1, w2}
  Sessions = {s1}
  Hosted = {}
  None = None
  Capacity = 2
  ShedPerTick = 2
  ClaimBatch = 8
  Budgets <- TeardownFaults
INVARIANT ReadyIsBacked
PROPERTY HolderWins
SYMMETRY WorkerSymmetry
