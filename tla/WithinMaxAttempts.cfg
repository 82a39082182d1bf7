SPECIFICATION Spec
CONSTANTS
  c1 = c1
  c2 = c2
  c3 = c3
  Calls <- MCTwoCalls
  MaxAttempts <- MCSameMaxAttempts
  Lagging = FALSE
  AttemptLimit = 5
INVARIANT
  WithinMaxAttempts
CHECK_DEADLOCK FALSE
