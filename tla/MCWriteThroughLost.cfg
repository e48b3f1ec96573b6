SPECIFICATION Spec
CONSTANTS
  k = k
  x = x
  y = y
  c1 = c1
  Null = Null
  Absent = Absent
  NilText = NilText
  Applier = Applier
  Path = {k}
  Val = {x, y}
  Written = {x, y}
  Client = {c1}
  ChanCap = 1
  MaxWal = 2
  Adjoining = {}
  Reach <- ApartReach
  MaxFaults = 1
INVARIANTS NothingMissed
CHECK_DEADLOCK FALSE
