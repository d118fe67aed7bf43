SPECIFICATION Spec
CONSTANTS
  Items = {i1}
  Workers = {w1, w2}
  NoWorker = NoWorker
  NoJob = NoJob
  MaxAttempts = 2
  MaxDeliveries = 4
  MaxSlots = 1
  Others = {o1}
  MaxFaults = 2
  MaxRequests = 2
INVARIANTS PaidOnce FailedIsUnpaid
PROPERTIES OnlyOperatorsResume RunSettles
CHECK_DEADLOCK FALSE
