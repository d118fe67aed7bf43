SPECIFICATION Spec
CONSTANTS
  Scans = {s1, s2}
  Txs = {x}
  NoTx = NoTx
  StartBlock = 2
  BackfillBlocks = {2, 3}
  Confirmations = 1
  Window = 2
  Faults = {}
  MaxBlocks = 5
  MaxReorgs = 1
  MaxFaults = 1
INVARIANTS TypeOK IndexIsCanonical OnlyConfirmed
PROPERTIES CatchesUp
CHECK_DEADLOCK FALSE
