CONSTANTS
  Key = {k0, k1}
  Null = Null
  zero = k0
  ColumnType = {"INT", "TEXT"}
  MaxRows = 2
SPECIFICATION MCSpec
INVARIANTS ResultExact FailsForAReason
PROPERTY Terminates
CHECK_DEADLOCK FALSE
