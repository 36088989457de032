CONSTANTS
  MaxTx = 3
  MaxRowID = 2
  MaxPending = 3
  MaxDrop = 1
  Value = {1, 2}
SPECIFICATION Spec
INVARIANTS WritersExclusive NoStaleLock ContentsAtRest
PROPERTY NoResurrection
CHECK_DEADLOCK FALSE
