SPECIFICATION Spec
CONSTANTS
  w1 = w1
  w2 = w2
  a = a
  b = b
  c = c
  u1 = u1
  u2 = u2
  u3 = u3
  None = None
  Ticker = Ticker
  Workers = {w1, w2}
  Subs = {a}
  Updates = {u1}
  Filter <- Filters
  Content <- Contents
  OutboxCap = 1
  MaxAttempts = 2
  MaxInflight = 1
  PerSubBatch = 1
  MaxFaults <- MoveFaults
PROPERTY KeepsContract
