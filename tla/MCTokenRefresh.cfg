SPECIFICATION FairSpec
CONSTANTS
  r1 = r1
  r2 = r2
  r3 = r3
  Requests <- MCRequests
  Copying = {}
  Grants = 3
  Restarts = 1
INVARIANTS
  NoReplay
  RenewsOnlyOld
PROPERTY
  RequestsEnd
CHECK_DEADLOCK FALSE
