SPECIFICATION CanSpec
CONSTANTS
  Clients = {c1, c2}
  Plans <- MCPlans
  Links = {"socket"}
  Ids = 8
  Refuses = {}
  Lossy = FALSE
  MaxRequests = 3
  MaxOpens = 1
INVARIANT AckMeansAll
CHECK_DEADLOCK FALSE
