SPECIFICATION ServicesSpec
CONSTANTS
  Systems = {"names", "cmd", "parent", "datum", "logger", "algo"}
  NoFile = NoFile
  NoProc = NoProc
  NoCase = NoCase
  Procs <- ThreeProcs
  Services <- TwoServices
  Service <- TwoOfDG
  Faults <- Scenes
  NParts = 2
  StateNames = {"A", "B", "C", "I"}
  Conds = {"c", "d"}
  States <- Flight
  First <- Begin
  MaxTime = 7
  MaxEvents = 2
  Drivers = {"t1", "t2"}
  Receivers = {"c1", "c2"}
  SockCap = 1
  MaxCmds = 3
  MaxLeaves = 1
  Signals = TRUE
  Kids = {"k1", "k2"}
  Monitored = "k1"
  Conns = {"c1"}
  Options <- AllOptions
  MaxAsks = 2
  MaxInts = 1
  Size = 2
  RdCap = 3
  WireCap = 4
  MaxConns = 3
  MaxSynchs = 3
  MaxStarts = 2
  BufCap = 10
  MaxRows = 3
  RowSize = 8
  FileLimit = 40
  MaxUnits = 10
  MaxSent = 6
  MaxStamps = 2
  p1 = p1
  p2 = p2
  p3 = p3
INVARIANTS
  AllTypesOK
  OneServer
  ClaimStands
  CommandKept
  InOrder
  EndsChildless
  DataWhole
  
  FilesBounded
  OnTime
  HoldLasts
PROPERTIES
  AllStartOrEnd
  ClosedAfterAll
  Delivered
  QuitEnds
  QuitObeyed
  Reconnects
CHECK_DEADLOCK FALSE
