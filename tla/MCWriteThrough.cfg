SPECIFICATION FairSpec
CONSTANTS
  k = k
  x = x
  y = y
  c1 = c1
  Null = Null
  Absent = Absent
  NilText = NilText
  Applier = Applier
  Path = {k}
  Val = {x, y}
  Written = {x, y, Absent}
  Client = {c1}
  ChanCap = 1
  MaxWal = 3
  Adjoining = {3}
  Reach <- MCReach
  MaxFaults = 1
INVARIANTS TypeOK Published ReconnectMissesNothing
PROPERTIES Converges
CONSTRAINT Histories
ACTION_CONSTRAINT SnapshotMatters
CHECK_DEADLOCK FALSE
