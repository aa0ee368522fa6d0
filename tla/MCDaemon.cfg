SPECIFICATION FairSpec
CONSTANTS
  Pids <- MCPids
  MaxCommands = 3
  MaxFaults = 2
INVARIANTS OneWorker
PROPERTIES StopFindsItsDaemon RestartFindsTheLockFree ServiceComesBack
CHECK_DEADLOCK FALSE
