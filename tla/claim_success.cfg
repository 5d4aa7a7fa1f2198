SPECIFICATION Spec
CONSTANTS
  MaxCmds = 2
  Requests = {"WIFI", "REBOOT"}
  Faults = {}
  Slots = {TRUE}
  Omits = FALSE
  LockAge = 1
  RecentAge = 1
  TimeoutAge = 0
  ExpireAge = 1
INVARIANT SuccessWasDispatched
