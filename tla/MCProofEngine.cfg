SPECIFICATION FairSpec
CONSTANTS
  a = a
  b = b
  Absent = Absent
  Path = {a, b}
  Query = {a, b}
  SetPath = {a, b}
  Uses <- MCPair
  Evictable = {a}
  KeepsHistory = FALSE
  Capacity = 1
  Reader = {r1, r2}
  MaxHash = 2
INVARIANTS TypeOK OwnValues
PROPERTIES GetReturns
CHECK_DEADLOCK FALSE
