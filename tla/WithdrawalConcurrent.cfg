SPECIFICATION Spec
CONSTANTS
  Admins = {a1, a2}
  Amounts = {2}
  Opening = 3
  Moves <- Losses
  Locked = {0}
  Window = 1
  MaxRequests = 2
  MaxMoves = 1
  MaxFaults = 1
SYMMETRY AdminSymmetry
INVARIANT PendingIsUncharged
INVARIANT MovedOnlyIfCharged
 
