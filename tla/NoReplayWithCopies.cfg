SPECIFICATION Spec
CONSTANTS
  r1 = r1
  r2 = r2
  r3 = r3
  Requests <- MCTwoRequests
  Copying <- MCTwoRequests
  Grants = 3
  Restarts = 0
INVARIANT NoReplay
CHECK_DEADLOCK FALSE
