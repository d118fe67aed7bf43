SPECIFICATION Spec
CONSTANTS
  Requests = {1}
  StormRequests = {}
  NoTx = NoTx
  Faults = {}
  Funds = 1
  Others = {o1}
INVARIANTS ConfirmedMeansFunded
CHECK_DEADLOCK FALSE
