SPECIFICATION FairSpec
CONSTANTS
  f1 = f1
  f2 = f2
  f3 = f3
  t1 = t1
  t2 = t2
  c1 = c1
  None = None
  Tasks <- ThreeTasks
  Threads <- TwoThreads
  Clients <- OneClient
  Parallels <- OneOrTwo
  MaxRelaunch <- OneRelaunched
  SizeModulus = 16
CHECK_DEADLOCK FALSE
INVARIANTS
  TaskInOnePlace
  OnFinishedOnce
  BoundedOvershoot
PROPERTIES
  OnFinishedFires
