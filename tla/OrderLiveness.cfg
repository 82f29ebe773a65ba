SPECIFICATION FairSpec
CONSTANTS
  Callers = {c1}
  Workers = {w1, w2}
  Keys = {k1}
  NoKey = NoKey
  Modes = {FALSE}
  Payloads <- MarketOrLimit
  Quotes <- AllStates
  Equity = 3
  MaxOrders = 2
  SweepLimit = 2
  MaxAttempts = 2
  MaxFaults = 0
  MaxToggles = 0
INVARIANT LimitPriceRespected
 
CHECK_DEADLOCK FALSE
