CONSTANTS
  Ident = {"a", "b"}
  Literal = {"1"}
  Huge = "99999999999999999999"
  Openings <- MCOpenings
  MaxMore = 7
  Operands <- MCOperands
  MaxDepth = 2
SPECIFICATION Spec
INVARIANTS NothingIgnored TreesGrouped RoundTrip
