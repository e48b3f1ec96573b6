SPECIFICATION FairSpec
CONSTANTS
  p1 = p1
  p2 = p2
  Proc = {p1, p2}
  Earlier = Earlier
  PidProbe = TRUE
  StaleAfter = 1
  MaxTime = 1
  None = None
  Timed = {p2}
  MaxSweeps <- MCSweeps
  MaxKeys <- MCKeys
INVARIANTS TypeOK OneOwnerUntilTakeover ReportTellsAll
PROPERTIES StopsWhenTold
CHECK_DEADLOCK FALSE
