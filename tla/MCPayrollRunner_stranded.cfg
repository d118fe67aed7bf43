SPECIFICATION Spec
CONSTANTS
  Items = {i1, i2}
  Workers = {w1, w2}
  NoWorker = NoWorker
  NoJob = NoJob
  MaxAttempts = 1
  MaxDeliveries = 2
  MaxSlots = 1
  Others = {}
  MaxFaults = 1
  MaxRequests = 1
PROPERTIES RunSettles
CHECK_DEADLOCK FALSE
