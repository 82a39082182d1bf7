SPECIFICATION Spec
CONSTANTS
  Programs <- MCPythonPrograms
  None = None
  doc1 = doc1
  doc2 = doc2
  page = page
  Resources <- MCResources
  NameOf <- MCNameOf
  BareName <- MCBareName
  KeyOf <- MCKeyOf
  CommandLines <- MCLines
  Listings <- MCListings
  PageSize = 2
  BatchSize = 2
  MaxChanges = 2
  type1 = type1
  type2 = type2
  source1 = source1
  source2 = source2
  Types <- MCTypes
  Sources <- MCSources
  Networks <- MCNetworks
  Imports <- MCImports
  MaxEdits = 1
  editor1 = editor1
  editor2 = editor2
  editor3 = editor3
  Editors <- MCEditors
  Fields = {"name", "tags"}
  Original = "original"
  BuildTimeouts = {0, 2, 3}
  PollInterval = 2
  BuildTime = 6
  MaxStarts = 1
  LoginTimeouts = {0, 2, 3, 5}
  Expires = 4
  AskInterval = 1
  Backoff = 1
  MaxSlow = 2
  LoginTime = 8
  thread1 = thread1
  thread2 = thread2
  Threads <- MCThreads
  Nobody = Nobody
  Grants = 3
  CliRuns = 0
  call1 = call1
  call2 = call2
  call3 = call3
  Calls <- MCCalls
  kn1 = kn1
  kn2 = kn2
  Kns <- MCKns
  Caller = Caller
INVARIANTS OneTurnPerNetwork
CHECK_DEADLOCK FALSE
