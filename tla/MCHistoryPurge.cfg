SPECIFICATION Spec
CONSTANTS
  Indexes <- MCIndexes
  MaxLength = 4
INVARIANT PurgesExactly
CHECK_DEADLOCK FALSE
