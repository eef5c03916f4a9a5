SPECIFICATION DevicesSpec
CONSTANTS
  Clients = {c1, c2}
  MaxRequests = 3
  Internal = Internal
  Codes = {"R"}
  PortCap = 2
  Silent = FALSE
  Plans <- OneOrTwo
  Links = {"socket", "slcan"}
  Ids = 8
  Refuses = {"blocked", "failed"}
  Lossy = TRUE
  MaxOpens = 2
  Flavors = {"serusb", "socket", "slcan", "modbus"}
  Devices <- TwoDevices
  LineCap = 2
  MaxCmds = 1
  MaxTroubles = 1
INVARIANTS
  AllTypesOK
  NoDangling
  OwnUntilLate
  OwnFrames
  OnePerClient
  DataOwn
PROPERTIES
  Completed
  AllServed
CHECK_DEADLOCK FALSE
