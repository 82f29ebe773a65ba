SPECIFICATION Spec
CONSTANTS
  Admins = {a1}
  Amounts = {1, 2}
  Opening = 3
  Moves <- Credits
  Locked = {0, 1}
  Window = 50
  MaxRequests = 2
  MaxMoves = 1
  MaxFaults = 2
INVARIANT TypeOK
INVARIANT EntryTellsStatus
PROPERTY ImplementsLifecycle
