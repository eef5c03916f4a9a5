SPECIFICATION BfrSpec
CONSTANTS
  TotalQrows = 2
  NRowMinf = 1
  CtrMod = 3
  Readers = {r1, r2}
  FastReaders = {r1}
  Blocking = TRUE
  SockCap = 1
  MaxRec = 1
  MaxArrivals = 4
  MaxTstamps = 1
  MaxMissing = 0
  MaxLeaves = 0
INVARIANT InFlightIntact
CHECK_DEADLOCK FALSE
