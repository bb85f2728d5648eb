\* Two decisions, two executions.
SPECIFICATION Spec
CONSTANTS
  Executor = {e1, e2}
  Gate = {g1, g2}
  NoGate = NoGate
  LastRun = 3
  MaxFails = 1
  MaxAttempts = 2
  AutoRerun = {TRUE}
SYMMETRY Symmetry
INVARIANTS ReceiptIsTrue OneEffect EffectAfterAudit DispatchIsReal
PROPERTY ImplementsLedger
CHECK_DEADLOCK FALSE
