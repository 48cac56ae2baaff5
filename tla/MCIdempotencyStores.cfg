SPECIFICATION Spec
CONSTANTS
  q1 = q1
  q2 = q2
  q3 = q3
  NoOne = NoOne
  Requests = {q1, q2, q3}
  Inputs <- MCInputs
  Modes <- MCOneStore
CHECK_DEADLOCK FALSE
SYMMETRY MCSymmetry
INVARIANTS
  Serialized
  HolderHolds
  RunsOnce
  Replayable
  ReplayMatches
