SPECIFICATION Spec
CONSTANTS
  c1 = c1
  c2 = c2
  c3 = c3
  Calls = {c1, c2, c3}
  MaxRequests = 3
  TripAfter = 5
  MaxAttempts = 3
SYMMETRY MCSymmetry
INVARIANT
  OpensForPSPErrors
