SPECIFICATION Spec
CONSTANTS
  MaxCmds = 2
  Requests = {"WIFI", "WAN"}
  Faults = {}
  Slots = {TRUE}
  Omits = FALSE
  LockAge = 1
  RecentAge = 1
  TimeoutAge = 0
  ExpireAge = 1
PROPERTY VerifiedWasObserved
