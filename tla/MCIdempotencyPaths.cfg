SPECIFICATION Spec
CONSTANTS
  q1 = q1
  q2 = q2
  q3 = q3
  NoOne = NoOne
  Requests = {q1, q2}
  Inputs <- MCPaths
  Modes <- MCAllUp
CHECK_DEADLOCK FALSE
INVARIANT
  KeyReuseRefused
