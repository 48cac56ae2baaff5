SPECIFICATION FairSpec
CONSTANTS
  q1 = q1
  q2 = q2
  q3 = q3
  NoOne = NoOne
  Requests = {q1, q2}
  Inputs <- MCPaths
  Modes <- MCAnything
CHECK_DEADLOCK FALSE
INVARIANTS
  Inv
PROPERTIES
  CompletedStays
  Answered
