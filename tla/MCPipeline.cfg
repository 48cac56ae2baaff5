SPECIFICATION PipelineSpec
CONSTANTS
  p1 = p1
  r1 = r1
  k1 = k1
  w1 = w1
  w2 = w2
  NoKey = NoKey
  Payments = {p1}
  Refunds = {r1}
  Keys = {k1}
  Events <- MCEvents
  NoURL <- MCNoURL
  Workers = {w1, w2}
  BatchSize = 2
  PoolSize = 1
  MaxAttempts = 2
  Overrun = FALSE
  MaxFaults = 2
  MaxFails = 2
INVARIANTS
  Inv
  MerchantToldTruth
PROPERTIES
  Informed
