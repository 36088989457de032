CONSTANTS
  Key = {k0, k1}
  Null = Null
  zero = k0
  ColumnType = {"INT", "TEXT"}
  MaxRows = 1
SPECIFICATION MCSpec
INVARIANT SeeksMatching
CHECK_DEADLOCK FALSE
