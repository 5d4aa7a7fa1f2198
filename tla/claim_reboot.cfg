SPECIFICATION Spec
CONSTANTS
  MaxCmds = 1
  Requests = {"REBOOT"}
  Faults = {}
  Slots = {TRUE}
  Omits = FALSE
  LockAge = 1
  RecentAge = 1
  TimeoutAge = 0
  ExpireAge = 1
PROPERTY RebootSentOnce
