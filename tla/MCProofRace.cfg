SPECIFICATION ReadsSpec
CONSTANTS
  top = top
  mid = mid
  a = a
  b = b
  Absent = Absent
  Path = {a}
  Query = {a}
  SetPath = {a}
  Uses <- MCPlain
  Evictable = {}
  KeepsHistory = FALSE
  Capacity = 1
  Reader = {r1}
  MaxHash = 3
INVARIANTS NoStaleReads
CHECK_DEADLOCK FALSE
