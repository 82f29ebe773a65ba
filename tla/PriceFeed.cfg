SPECIFICATION FairSpec
CONSTANTS
  Values = {1, 2}
  BootValue = 1
  None = None
  MaxWire = 1
  MaxAdds = 1
  MaxAttempts = 1
  MaxFaults = 1
INVARIANT PricesAgree
PROPERTY FeedIsServed
CHECK_DEADLOCK FALSE
