SPECIFICATION Spec
CONSTANTS
  Tenants = {ta, tb}
  NoTenant = NoTenant
  Root = ta
  Docs = {d1, d2}
  NoDoc = NoDoc
  Requests = {r1, r2}
  MaxCalls = 4
SYMMETRY Interchangeable
CHECK_DEADLOCK FALSE
INVARIANT TypeOK
INVARIANT AnswersAreKept
INVARIANT TwinsExplained
INVARIANT GateHolds
PROPERTY AssignedIsAdmitted
PROPERTY OwnerMovesByHand
