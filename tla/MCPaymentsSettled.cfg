SPECIFICATION Spec
CONSTANTS
  c1 = c1
  c2 = c2
  r1 = r1
  r2 = r2
  k1 = k1
  k2 = k2
  NoKey = NoKey
  Creates = {c1}
  Refunds = {r1}
  CreateInputs <- MCCreateInputs
  RefundInputs <- MCRefundInputs
  Currencies <- MCCurrencies
  Rules <- MCRules
  Adapters <- MCAdapters
  MaxInt = 3
  MaxAttempts = 2
CHECK_DEADLOCK FALSE
INVARIANT
  SettledOnReturn
