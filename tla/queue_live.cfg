SPECIFICATION FairSpec
CONSTANTS
  MaxCmds = 2
  Requests = {"WIFI", "PASS", "SYNC"}
  Faults = {}
  Slots = {TRUE}
  Omits = FALSE
  LockAge = 1
  RecentAge = 1
  TimeoutAge = 0
  ExpireAge = 1
PROPERTY QueueDrains
PROPERTY WrittenIsJudged
