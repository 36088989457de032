CONSTANTS
  RowID = {r1, r2, r3}
  MaxTx = 3
  Session = {s1, s2}
SPECIFICATION SessionSpec
SYMMETRY Symmetry
INVARIANTS NoLeakedTxn
PROPERTIES FailedCallPublishesNothing ConflictsOnlyInExplicit UpdateKeepsRows
CHECK_DEADLOCK FALSE
