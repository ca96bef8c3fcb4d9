SPECIFICATION Spec
CONSTANTS
  Displays = {1, 2}
  MaxTries = 2
  StartWait = 4
  ArgRoom = 11
  W = 4
  ArpProbes = 2
  NetInputs <- NetCases
  NetMap <- TwoDevs
  OtherDevs = {"lo"}
  Rates = {1, 2}
  MaxCommands = 4
  DbusInputs <- DbusCases
  MaxName = 4
  OutMax = 4
  Lengths = {1, 3}
  MaxReads = 6
  MaxStarts = 2
  Source <- SourceTree
  Singles <- SingleEntries
  Limits = {4, 9}
  Senders = {"a", "b", "c", "lo"}
  Loopback = {"lo"}
  hash <- TwoBuckets
  Buckets = {0, 1}
  Ports = {1, 2}
  InstanceMod = 2
  Interval = 3
  Width = 3
  Owners = {"m", "n"}
  MaxAdds = 3
  Pids = {2, 3, 4}
  Tables <- AllTables
  Watched <- StartedOn
  RxBuf = 2
  MaxEvents = 3
INVARIANTS
  AddressesSound
  FileTellsRates
  
  
  FilesSound
  TrafficSound
  
PROPERTIES
  HelpersEnd
CHECK_DEADLOCK FALSE
