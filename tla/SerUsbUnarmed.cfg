SPECIFICATION SerSpec
CONSTANTS
  Clients = {c1, c2}
  Internal = Internal
  Codes = {"R"}
  PortCap = 2
  Silent = TRUE
  MaxRequests = 3
PROPERTY SerCompleted
CHECK_DEADLOCK FALSE
