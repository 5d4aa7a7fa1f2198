SPECIFICATION Spec
CONSTANTS
  Jobs = {j1}
  OtherEvents = {e1}
  Subscribers = 2
  MaxDlq = 2
  Redrivers = {r1, r2}
  Queues = {qa}
  NoJob = NoJob
  MaxAttempts = 1
SYMMETRY Interchangeable
CHECK_DEADLOCK FALSE
INVARIANT TypeOK
INVARIANT FailureIsOnRecord
INVARIANT ExhaustedIsOnRecord
PROPERTY LossIsExplained
