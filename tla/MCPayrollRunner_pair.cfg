SPECIFICATION Spec
CONSTANTS
  Items = {i1, i2}
  Workers = {w1, w2}
  NoWorker = NoWorker
  NoJob = NoJob
  MaxAttempts = 1
  MaxDeliveries = 2
  MaxSlots = 2
  Others = {o1}
  MaxFaults = 1
  MaxRequests = 1
SYMMETRY Symmetry
INVARIANTS TypeOK ConfirmedIsPaid TerminalMeansSettled
CHECK_DEADLOCK FALSE
