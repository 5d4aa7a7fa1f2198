SPECIFICATION Spec
CONSTANTS
  MaxCmds = 2
  Requests = {"WIFI", "PASS", "RESET", "CANCEL", "RETRY"}
  Faults = {"9005", "other"}
  Slots = {TRUE}
  Omits = TRUE
  LockAge = 1
  RecentAge = 1
  TimeoutAge = 0
  ExpireAge = 1
INVARIANT TypeOK
INVARIANT WriteIsAccounted
PROPERTY ClosedStaysClosed
PROPERTY UnwrittenEndIsFinal
PROPERTY VerifiedNotOverwritten
