SPECIFICATION FairSpec
CONSTANTS
  Requests <- Every
  Transfers = {1}
  Arriving <- Same
  Required = 2
  Admins = {a1}
  MaxRequests = 1
  MaxFaults = 2
INVARIANT TypeOK
INVARIANT OneDetectedRow
INVARIANT OnChainBeforeCredit
PROPERTY HashIsKept
 
