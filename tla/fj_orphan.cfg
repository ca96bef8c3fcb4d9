SPECIFICATION LaunchFairSpec
CONSTANTS
  Scenarios = {"crash"}
  MaxTimeout = 2
PROPERTIES
  ParentDeathKills
CHECK_DEADLOCK FALSE
