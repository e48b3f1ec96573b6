SPECIFICATION Spec
CONSTANTS
  p1 = p1
  p2 = p2
  p3 = p3
  x = x
  y = y
  z = z
  Absent = Absent
  Path = {p1, p2, p3}
  Val = {x, y, z}
  Const = {x, y, z}
  Ser <- MCSer
  Proc = {w1, w2}
  ShardCount = 2
  ShardOf <- MCShardOf
  Cost <- MCCost
  MaxMemory = 10
  MaxClock = 3
  MaxTime = 2
  Deadline = {0, 1}
INVARIANTS TypeOK IndexCoherent BytesExact CeilingHolds
PROPERTIES ClockNeverGoesBack RefinesLossyMap
CONSTRAINT OtherAtHome
SYMMETRY MCSymmetry
CHECK_DEADLOCK FALSE
