SPECIFICATION FairSpec
CONSTANTS
  r1 = r1
  r2 = r2
  None = None
  Requesters <- TwoRequesters
  MaxCalls <- OneAndTwo
  Parallels <- TwoSlots
  Others = 1
CHECK_DEADLOCK FALSE
INVARIANTS
  OwnAnswerOnce
  CallInOnePlace
  DtorOutlivesKicking
PROPERTIES
  EveryCallIsDone
  DtorReturns
