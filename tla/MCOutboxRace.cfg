SPECIFICATION Spec
CONSTANTS
  e1 = e1
  e2 = e2
  e3 = e3
  w1 = w1
  w2 = w2
  Events = {e1, e2}
  NoURL = {e2}
  Workers = {w1, w2}
  BatchSize = 2
  PoolSize = 2
  MaxAttempts = 3
  Overrun = TRUE
  MaxFaults = 2
  MaxFails = 4
SYMMETRY MCSymmetry
INVARIANTS
  OneOwner
  DeadMeansNoSuccess
  DeliveredMeansAcked
  DeadMeansTried
  AttemptsOvershoot
PROPERTIES
  Final
  ImplementsDelivery
