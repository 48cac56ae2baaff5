SPECIFICATION GatewaySpec
CONSTANTS
  q1 = q1
  q2 = q2
  k1 = k1
  k2 = k2
  NoOne = NoOne
  NoKey = NoKey
  Requests = {q1, q2}
  Inputs <- MCInputs
  Modes <- MCModes
  Body <- MCBody
  Rules <- MCRules
  Adapters = {"stripe"}
  Currencies = {"USD"}
  MaxInt = 3
  MaxAttempts = 1
CHECK_DEADLOCK FALSE
SYMMETRY MCSymmetry
INVARIANTS
  OneStory
  ClientToldTruth
  RefusedUntouched
