SPECIFICATION FairSpec
CONSTANTS
  s1 = s1
  s2 = s2
  q1 = q1
  q2 = q2
  NoOne = NoOne
  Servers = {s1, s2}
  Requests = {q1, q2}
  Latest = 3
INVARIANTS
  Inv
  ServesFullSchema
  MigratedOnce
  DrainsRequests
  StopsInOrder
PROPERTY
  Stops
