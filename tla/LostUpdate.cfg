CONSTANTS
  RowID = {r1, r2, r3}
  MaxTx = 4
  Session = {s1, s2}
SPECIFICATION HistorySpec
SYMMETRY Symmetry
INVARIANT NoLostUpdate
CHECK_DEADLOCK FALSE
