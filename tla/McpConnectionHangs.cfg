SPECIFICATION FairSpec
CONSTANTS
  MaxCalls = 2
  MaxNotices = 0
  PipeRoom = 2
CHECK_DEADLOCK FALSE
PROPERTIES
  RoundtripsReturn
