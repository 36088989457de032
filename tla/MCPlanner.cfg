CONSTANTS
  Table <- MCTable
  Live = {"a"}
  Loaded <- MCLoaded
  Value <- MCValue
  Null = Null
  None = None
  Queries <- MCQueries
  MaxRows = 2
  MaxDrop = 1
SPECIFICATION Spec
INVARIANTS StatsDescribe Optimal
