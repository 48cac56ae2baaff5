SPECIFICATION FairSpec
CONSTANTS
  c1 = c1
  c2 = c2
  c3 = c3
  Calls = {c1, c2, c3}
  MaxRequests = 2
  TripAfter = 3
  MaxAttempts = 2
INVARIANTS
  TypeOK
  ProbesAccounted
PROPERTIES
  Recovers
