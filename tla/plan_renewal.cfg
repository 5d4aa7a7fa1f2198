SPECIFICATION Spec
CONSTANTS
  Txns = {t1}
  Handlers = {h1, h2}
  NoTxn = NoTxn
  Cycle = 2
  End0 = 1
  Forced = {"FAILED"}
  Retriggers = {"PLAN_EXPIRED"}
  MaxDay = 1
  MaxCalls = 3
SYMMETRY Interchangeable
CHECK_DEADLOCK FALSE
INVARIANT TypeOK
INVARIANT ClosedIsServed
INVARIANT DaysArePaidFor
INVARIANT ExpiredIsOver
INVARIANT RepeatIsExcused
PROPERTY PaidOnce
PROPERTY CreditAddsCycle
