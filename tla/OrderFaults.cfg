SPECIFICATION Spec
CONSTANTS
  Callers = {c1, c2}
  Workers = {w1}
  Keys = {k1}
  NoKey = NoKey
  Modes = {TRUE, FALSE}
  Payloads <- MarketOrSell
  Quotes <- TwoQuotes
  Equity = 3
  MaxOrders = 2
  SweepLimit = 2
  MaxAttempts = 2
  MaxFaults = 1
  MaxToggles = 1
SYMMETRY ProcSymmetry
INVARIANT TypeOK
INVARIANT OneExecutor
INVARIANT PositionMatchesOrder
INVARIANT OneOrderPerKey
INVARIANT OrdersAreAccounted
PROPERTY OutcomesAreFinal
CHECK_DEADLOCK FALSE
