SPECIFICATION Spec
CONSTANTS
  MaxCmds = 2
  Requests = {"WAN", "NEW_SLOT", "WIFI", "DELETE", "NAMES", "REBOOT"}
  Faults = {"9003", "other"}
  Slots = {TRUE, FALSE}
  Omits = FALSE
  LockAge = 1
  RecentAge = 1
  TimeoutAge = 0
  ExpireAge = 0
INVARIANT StageTellsRpc
INVARIANT CpeValueWasSent
PROPERTY EndedNotResent
INVARIANT WriteIsAccounted
PROPERTY UnwrittenEndIsFinal
