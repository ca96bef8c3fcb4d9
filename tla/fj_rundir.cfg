SPECIFICATION RunDirFairSpec
CONSTANTS
  Pids = {1, 2}
  StartPid = 1
  Names = {"n"}
  Addresses = {"a", "b"}
  NameChange = TRUE
  MaxLaunches = 3
  None = None
INVARIANTS
  LiveFilesKept 

  
CHECK_DEADLOCK FALSE
