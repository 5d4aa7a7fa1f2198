SPECIFICATION FairSpec
CONSTANTS
  Jobs = {j1, j2, j3}
  OtherEvents = {}
  Subscribers = 1
  MaxDlq = 1
  Redrivers = {}
  Queues = {qa, qb}
  NoJob = NoJob
  MaxAttempts = 2
CHECK_DEADLOCK FALSE
INVARIANT NoneStranded
PROPERTY OneJobAtATime
PROPERTY JobsEnd
