\* One decision, one execution.
SPECIFICATION Spec
CONSTANTS
  Executor = {e1}
  Gate = {g1}
  NoGate = NoGate
  LastRun = 3
  MaxFails = 1
  MaxAttempts = 2
  AutoRerun = {TRUE}
INVARIANT WithinMaxAttempts
CHECK_DEADLOCK FALSE
