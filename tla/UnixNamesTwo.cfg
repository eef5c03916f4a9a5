SPECIFICATION Spec
CONSTANTS
  Procs <- ThreeProcs
  Services <- TwoServices
  Service <- AllOfDG
  NoFile = NoFile
  NoProc = NoProc
  p1 = p1
  p2 = p2
  p3 = p3
  Faults <- OneRelease
INVARIANT OneServer
CHECK_DEADLOCK FALSE
