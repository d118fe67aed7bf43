SPECIFICATION Spec
CONSTANTS
  Handlers = {h1, h2}
  RetryLimit = 1
  MaxDrips = 2
  MaxFaults = 2
INVARIANTS TypeOK CompleteIsOnboarded DripsAreLimited
PROPERTIES TerminalIsFinal RegisteredEnds
CHECK_DEADLOCK FALSE
