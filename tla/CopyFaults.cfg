SPECIFICATION Spec
CONSTANTS
  w1 = w1
  r1 = r1
  t2 = t2
  t1 = t1
  Trades = {t1, t2}
  Relations = {r1}
  Workers = {w1}
  Timers = {}
  Margin <- UnitMargin
  Allocated <- OneCopy
  MaxAttempts = 2
  MaxStalls = 1
  Swallowed = TRUE
  MaxFaults = 2
  MaxChanges = 1
SYMMETRY CopySymmetry
INVARIANT CopiesAreKept
CHECK_DEADLOCK FALSE
