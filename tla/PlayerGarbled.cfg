SPECIFICATION Spec
CONSTANTS
  TotalQrows = 3
  NRowMinf = 1
  CtrMod = 3
  Files <- TwoFiles
  ReadCap = 5
  ObufCap = 6
  WireCap = 2
  RowPeriod = 2
  MaxPeriod = 3
  Options <- SomeOptions
  Commands = {}
  MaxCmds = 0
INVARIANT StreamWhole
CHECK_DEADLOCK FALSE
