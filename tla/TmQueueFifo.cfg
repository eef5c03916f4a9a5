SPECIFICATION Spec
CONSTANTS
  TotalQrows = 3
  NRowMinf = 2
  CtrMod = 3
  MaxRows = 6
  MaxStamps = 2
  MaxBatch = 3
  MaxGap = 1
INVARIANTS
  IInv
  RowsIntact
  AssertsHold
PROPERTIES
  AllTransmitted
  ImplementsFifo
CHECK_DEADLOCK FALSE
