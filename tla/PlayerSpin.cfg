SPECIFICATION Spec
CONSTANTS
  TotalQrows = 3
  NRowMinf = 1
  CtrMod = 3
  Files <- TwoFiles
  ReadCap = 5
  ObufCap = 6
  WireCap = 2
  RowPeriod = 2
  MaxPeriod = 3
  Options <- Regulated
  Commands = {}
  MaxCmds = 0
PROPERTY HandlersEnd
CHECK_DEADLOCK FALSE
