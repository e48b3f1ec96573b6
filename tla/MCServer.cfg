SPECIFICATION FairSpec
CONSTANTS
  key = key
  field = field
  c1 = c1
  c2 = c2
  Absent = Absent
  Path = {key, field}
  Parent <- MCParent
  Fed = {field}
  Command <- MCCommand
  Conn = {c1, c2}
  MaxElem = 2
  MaxFaults = 1
  MaxConns = 1
  MaxQueue = 1
  Queueable <- MCQueueable
CONSTRAINT UntilFault
INVARIANTS TypeOK WithinLimit ClosedButOne
PROPERTIES TypeStable CloseTerminates
CHECK_DEADLOCK FALSE
