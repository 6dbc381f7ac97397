SPECIFICATION Spec
CONSTANTS
  w1 = w1
  a = a
  b = b
  c = c
  u1 = u1
  u2 = u2
  u3 = u3
  None = None
  Ticker = Ticker
  Workers = {w1}
  Subs = {a}
  Updates = {u1, u2, u3}
  Filter <- Filters
  Content <- Contents
  OutboxCap = 1
  MaxAttempts = 2
  MaxInflight = 2
  PerSubBatch = 2
  MaxFaults <- SteadyFaults
INVARIANTS AttemptsBounded LossCounted PreCheckCovers
PROPERTY KeepsContract
