SPECIFICATION FairSpec
CONSTANTS
  MaxCmds = 1
  Requests = {"PASS"}
  Faults = {}
  Slots = {TRUE}
  Omits = FALSE
  LockAge = 1
  RecentAge = 1
  TimeoutAge = 0
  ExpireAge = 1
PROPERTY VerificationTerminates
