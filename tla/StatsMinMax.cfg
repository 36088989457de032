CONSTANTS
  Table <- MCTable
  Live = {"a"}
  Loaded <- MCFresh
  Value <- MCValue
  Null = Null
  None = None
  Queries <- MCReads
  MaxRows = 1
  MaxDrop = 1
SPECIFICATION Spec
INVARIANT MinMaxExact
