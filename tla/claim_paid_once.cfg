SPECIFICATION Spec
CONSTANTS
  Txns = {t1}
  Handlers = {h1, h2}
  NoTxn = NoTxn
  Cycle = 2
  End0 = 1
  Forced = {}
  Retriggers = {}
  MaxDay = 1
  MaxCalls = 2
CHECK_DEADLOCK FALSE
INVARIANT RenewedOncePerPayment
