SPECIFICATION LgrSpec
CONSTANTS
  BufCap = 10
  MaxRows = 3
  RowSize = 8
  FileLimit = 40
  MaxUnits = 10
  MaxSent = 6
  MaxStamps = 2
INVARIANT LoggedAsSent
CHECK_DEADLOCK FALSE
