SPECIFICATION FairSpec
CONSTANTS
  w1 = w1
  w2 = w2
  w3 = w3
  Workers <- MCWorkers
  Strategy <- MCStrategy
  Terminal <- MCTerminal
INVARIANTS
  OneCallPerConversation
  ReportedIsRecorded
  OneTerminalIntent
  NothingLeftOpen
PROPERTY
  CallsEnd
CHECK_DEADLOCK FALSE
