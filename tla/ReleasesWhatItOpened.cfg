SPECIFICATION FairSpec
CONSTANTS
  c1 = c1
  c2 = c2
  c3 = c3
  Calls <- MCTwoCalls
  Requires = {}
  Asks = {"nothing"}
INVARIANT ReleasesWhatItOpened
CHECK_DEADLOCK FALSE
