CONSTANTS
  DiskNodes <- MCDisk
  Scenarios <- MCScenarios
  Unreadable <- MCUnreadable
  TOP_MAX = 2
SPECIFICATION FsSpec
INVARIANTS
  
  
  MountsLand
