SPECIFICATION Spec
CONSTANTS
  Requests = {1, 2, 3}
  StormRequests = {1, 2}
  NoTx = NoTx
  Faults = {"slow", "lost"}
  Funds = 2
  Others = {o1}
INVARIANTS TypeOK NeverDoubleFunds NullHashIsUnsent ConfirmedIsSettled FailedMovedNothing FundedUnlessReplaced
PROPERTIES BroadcastRowsSettle ReconciledByItsReceipt
CHECK_DEADLOCK FALSE
