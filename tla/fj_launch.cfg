SPECIFICATION LaunchFairSpec
CONSTANTS
  Scenarios = {"run", "signal", "shutdown", "join", "net join", "crash"}
  MaxTimeout = 2
INVARIANTS
  ProgramsConfined
PROPERTIES
  NobodyWaits
  ImplementsService
CHECK_DEADLOCK FALSE
