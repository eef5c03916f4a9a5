SPECIFICATION TmaSpec
CONSTANTS
  NParts = 1
  StateNames = {"A"}
  Conds = {}
  NoCase = NoCase
  States <- OneSecond
  First <- Begin
  MaxTime = 5
  MaxEvents = 1
INVARIANT HoldEnds
CHECK_DEADLOCK FALSE
