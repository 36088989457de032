CONSTANTS
  RowID = {r1, r2, r3}
  MaxTx = 4
SPECIFICATION Spec
SYMMETRY RowSymmetry
INVARIANTS TypeOK NoDirtyRead StampDiscipline ConflictOnlyWithLaterCommit
PROPERTIES SnapshotStable CommittedDeleteFinal ImplementsStore
CHECK_DEADLOCK FALSE
