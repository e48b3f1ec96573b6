SPECIFICATION SerialSpec
CONSTANTS
  top = top
  mid = mid
  a = a
  b = b
  Absent = Absent
  Path = {top, mid, a, b}
  Query = {top, a}
  SetPath = {a, b}
  Uses <- MCTree
  Evictable = {}
  KeepsHistory = TRUE
  Capacity = 1
  Reader = {r1}
  MaxHash = 6
INVARIANTS NoStaleReads
CHECK_DEADLOCK FALSE
