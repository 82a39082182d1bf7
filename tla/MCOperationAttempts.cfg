SPECIFICATION FairSpec
CONSTANTS
  c1 = c1
  c2 = c2
  c3 = c3
  Calls <- MCCalls
  MaxAttempts <- MCMaxAttempts
  Lagging = TRUE
  AttemptLimit = 5
INVARIANTS
  OneRunPerAttempt
  ReceiptTellsTruth
  RunsAreRecorded
PROPERTIES
  CallsEnd
  KeepsPromise
CHECK_DEADLOCK FALSE
