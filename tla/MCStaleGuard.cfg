SPECIFICATION FairSpec
CONSTANTS
  t1 = t1
  t2 = t2
  PageLag = 2
  MaxLsn = 4
  None = None
  MaxId <- MCMaxId
  Limit = 1
  ChanCap = 1
  MaxSilence = 1
  Never = Never
  NoTable = NoTable
INVARIANTS TypeOK NothingSkipped
PROPERTIES SentOnce GateFollowsSlot HealthyServes GateFollowsPoller RowsArrive
