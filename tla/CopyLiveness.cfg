SPECIFICATION FairSpec
CONSTANTS
  cron = cron
  w2 = w2
  w1 = w1
  r1 = r1
  t1 = t1
  Trades = {t1}
  Relations = {r1}
  Workers = {w1, w2}
  Timers = {cron}
  Margin <- UnitMargin
  Allocated <- OneCopy
  MaxAttempts = 2
  MaxStalls = 1
  Swallowed = FALSE
  MaxFaults = 1
  MaxChanges = 1
 
PROPERTY CopiersAreCounted
CHECK_DEADLOCK FALSE
