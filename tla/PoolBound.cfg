CONSTANTS
  PageSize = 8
  Header = 1
  SlotEntry = 1
  capacity = 1
  MaxPages = 2
  RowLen = {2, 3, 7}
  Val = {a}
SPECIFICATION Spec
INVARIANT PoolBounded
