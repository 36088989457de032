CONSTANTS
  Table = {t1}
  Column = {a, b}
  Schemas = {{a}, {a, b}}
  Torn = Torn
  MaxKeys = 3
  MaxRow = 2
  MaxPage = 6
SPECIFICATION Spec
INVARIANTS DdlDurable IndexesReadable TreesDisjoint OrphanRootsEmpty
PROPERTIES CreatedEmpty CleanRestart
CHECK_DEADLOCK FALSE
