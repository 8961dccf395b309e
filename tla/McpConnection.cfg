SPECIFICATION FairSpec
CONSTANTS
  MaxCalls = 2
  MaxNotices = 1
  PipeRoom = 2
CHECK_DEADLOCK FALSE
INVARIANTS
  TypeOK
  OwnAnswers
  HandshakeIsAgreed
  OneFailurePerTear
  ConnectFailsForAReason
PROPERTIES
  AwaitedRoundtripsReturn
