SPECIFICATION FairSpec
CONSTANTS
  Base = 2
  Handshake <- Letters
  RequestLimit = 3
  ResponseLimit = 1
  Requests <- Two
  Data <- Dumps2
  Answer <- Answers
  RequestRoom = 5
  ResponseRoom = 3
  MaxBreaks = 1
  MaxKeepAlives = 1
CHECK_DEADLOCK FALSE
PROPERTIES
  EveryCallFinishes
