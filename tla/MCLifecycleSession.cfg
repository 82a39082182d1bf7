SPECIFICATION FairSpec
CONSTANTS
  c1 = c1
  c2 = c2
  c3 = c3
  Calls <- MCTwoCalls
  Requires <- MCRequires
  Asks <- Ways
INVARIANTS
  FirstCallsShareOne
  NamedConversationStays
  RequiredHasContext
  CacheIsUsable
PROPERTY
  CallsEnd
CHECK_DEADLOCK FALSE
