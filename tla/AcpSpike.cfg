SPECIFICATION FairSpec
CONSTANTS
  echo = echo
  n1 = n1
  n2 = n2
  ToolCalls = {echo}
  OptionLists <- MCOptionLists
  TestKey = TestKey
  Nonces = {n1, n2}
  Readings = {0, 2}
  Validity = 1
  Garbled = Garbled
  NoSigner = NoSigner
  NoRequest = NoRequest
  Nobody = Nobody
  MaxRequests = 2
  MaxUpdates = 1
  MaxRuns = 2
CHECK_DEADLOCK FALSE
INVARIANTS
  TypeOK
  RunsAreGranted
  RefusedByClockOnly
  AnswersAreRecorded
PROPERTIES
  SpikeEnds
