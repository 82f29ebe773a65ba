SPECIFICATION Spec
CONSTANTS
  Positions = {1, 2}
  Symbols = {"eur"}
  Terms <- TwoSides
  Quotes <- MarketQuotes
  Closers = {c1, c2}
  Callers = {"MANUAL", "COPY_MASTER_CLOSE"}
  Opening = 2
  Moves <- Credits
  MaxMoves = 1
  MaxTicks = 1
  MaxFaults = 1
SYMMETRY CloserSymmetry
INVARIANT TypeOK
 
 
INVARIANT EveryCloseIsCopied
CHECK_DEADLOCK FALSE
