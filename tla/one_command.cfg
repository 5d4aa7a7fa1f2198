SPECIFICATION FairSpec
CONSTANTS
  MaxCmds = 1
  Requests = {"WIFI", "WAN", "NEW_SLOT", "DELETE", "REBOOT", "RESET", "NAMES", "SUMMON", "DIAG", "SYNC", "CLIENTS", "BLOCK", "DIRECT", "BOT", "CANCEL", "RETRY", "PASS"}
  Faults = {"9003", "9005", "other"}
  Slots = {TRUE, FALSE}
  Omits = TRUE
  LockAge = 1
  RecentAge = 1
  TimeoutAge = 0
  ExpireAge = 1
INVARIANT WaitingCanActivate
PROPERTY QueueDrains
PROPERTY WrittenIsJudged
