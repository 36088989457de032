CONSTANTS
  Char <- MCChar
  Lines <- MCLines
  Files <- MCFiles
  MaxText = 7
SPECIFICATION Spec
INVARIANTS StatementsExact NeverMisread
PROPERTY Responds
CHECK_DEADLOCK FALSE
