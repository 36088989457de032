CONSTANTS
  RowID = {r1, r2}
  MaxTx = 2
  MaxReopen = 1
SPECIFICATION RestartSpec
INVARIANT UncommittedGone
CHECK_DEADLOCK FALSE
