SPECIFICATION FairEngineSpec
CONSTANTS
  Positions = {1, 2, 3}
  Symbols = {"eur", "usd"}
  Terms <- Triple
  Quotes <- WideQuotes
  Closers = {c1, c2}
  Callers = {}
  Opening = 4
  Moves <- Nothing
  MaxMoves = 0
  MaxTicks = 1
  MaxFaults = 1
 
INVARIANT EngineKeepsResults
PROPERTY LiquidatesOnlyAtStopOut
PROPERTY StopOutIsEnforced
PROPERTY ProtectionIsHonoured
CHECK_DEADLOCK FALSE
