CONSTANTS
  Key = {k0, k1}
  Null = Null
  zero = k0
  ColumnType = {"INT"}
  MaxRows = 1
SPECIFICATION MCSpec
INVARIANT QualifiedNames
CHECK_DEADLOCK FALSE
