CONSTANTS
  Key = {1, 2, 3}
  MaxKeys = 3
  MaxRows = 7
  MaxBackfill = 3
SPECIFICATION Spec
PROPERTY BuildAlwaysCompletes
CHECK_DEADLOCK FALSE
