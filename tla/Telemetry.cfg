SPECIFICATION TelemetrySpec
CONSTANTS
  TotalQrows = 2
  NRowMinf = 1
  CtrMod = 3
  Files <- TwoFiles
  ReadCap = 5
  ObufCap = 6
  WireCap = 2
  RowPeriod = 2
  MaxPeriod = 3
  Options <- SomeOptions
  Commands = {"c", "e", "s", ">", "+", "-", "}", "q"}
  MaxCmds = 2
  Readers = {r1, r2}
  FastReaders = {r1}
  Blocking = TRUE
  SockCap = 1
  MaxRec = 1
  MaxArrivals = 3
  MaxTstamps = 2
  MaxMissing = 1
  MaxLeaves = 1
INVARIANTS
  MutexFree
  TimerRight
  NoOverflow
  EndsComplete
  NoAssertFails
  RefCounts
  StreamInOrder
  StampedRight
PROPERTIES
  AllPlayed
  WriterResumes
CHECK_DEADLOCK FALSE
