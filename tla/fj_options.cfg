SPECIFICATION Spec
CONSTANTS
  Family = {"filter", "rootfs", "private", "net", "dbus", "profile", "misc", "command"}
  MaxOptions = 3
  MaxNetOptions = 4
  MaxBridges = 2
  MaxIgnore = 1
  MaxDns = 1
  MaxIncludeLevel = 1
INVARIANTS
  
  BridgesAreConsistent
  

  
