SPECIFICATION MCSpec
CONSTANTS
  c1 = c1
  c2 = c2
  none = none
  Clients = {c1}
  Requests = {1, 2}
  NoRequest = none
  Outcomes = {"completed"}
  MaxFaults = 1
INVARIANTS
  
  OneSnapshotOneResult
PROPERTIES
  
  RequestsSettle
  ResultSettles
CHECK_DEADLOCK FALSE
