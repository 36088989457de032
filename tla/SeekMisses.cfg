CONSTANTS
  Key = {1, 2, 3}
  MaxKeys = 3
  MaxRows = 7
  MaxBackfill = 3
SPECIFICATION Spec
INVARIANT SeekFindsAll
CHECK_DEADLOCK FALSE
