SPECIFICATION Spec
CONSTANTS
  t1 = t1
  t2 = t2
  f1 = f1
  f2 = f2
  f3 = f3
  c1 = c1
  c2 = c2
  KillTask = KillTask
  None = None
  Threads <- TwoThreads
  Tasks <- TwoTasks
  Callers <- TwoCallers
  OwnerCalls <- AllCalls
  MaxSpurious = 1
CHECK_DEADLOCK FALSE
SYMMETRY Symmetry
INVARIANTS
  TypeOK
  NoLostWakeup
  ExclusiveHandOff
  KickFindsCondition
  
