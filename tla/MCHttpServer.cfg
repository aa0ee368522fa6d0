SPECIFICATION FairSpec
CONSTANTS
  c1 = c1
  c2 = c2
  Conns = {c1, c2}
  Fds = {1, 2}
  Kinds = {"sync", "close", "async", "bad", "lost", "upgrade", "garbage"}
  Scripts <- MCScripts
  MaxFaults = 2
  NoConn = NoConn
CHECK_DEADLOCK FALSE
INVARIANTS
  OwnAnswersInOrder
  TableIsTrue
  LoopGoesOn
PROPERTIES
  EveryRequestAnswered
