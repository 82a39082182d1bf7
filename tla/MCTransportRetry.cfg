SPECIFICATION FairSpec
CONSTANTS
  c1 = c1
  c2 = c2
  c3 = c3
  None = None
  Calls = {c1, c2, c3}
  Kinds <- MCKinds
  Caching = {TRUE, FALSE}
  Retries = 2
INVARIANTS WriteArrivesOnce SentOnlyVerified ChecksShared SessionAnnounced
PROPERTY CallsEnd
CHECK_DEADLOCK FALSE
