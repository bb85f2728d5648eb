\* Two executions of one decision: a job and its takeover.
SPECIFICATION FairSpec
CONSTANTS
  Executor = {e1, e2}
  Gate = {g1}
  NoGate = NoGate
  LastRun = 3
  MaxFails = 2
  MaxAttempts = 2
  AutoRerun = {TRUE}
INVARIANT LateHasNoEffect
PROPERTY Reports
CHECK_DEADLOCK FALSE
