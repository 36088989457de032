CONSTANTS
  Key = {1, 2, 3}
  MaxKeys = 3
  MaxRows = 7
  MaxBackfill = 3
SPECIFICATION Spec
INVARIANTS ChainHoldsAll ChainSorted SeekExact
PROPERTY BuildCompletes
CHECK_DEADLOCK FALSE
