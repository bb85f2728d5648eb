\* Four decisions on two attempts of which nothing is executed, or three decisions
\* and one execution.
SPECIFICATION Spec
CONSTANTS
  Executor = {e1}
  Gate = {g1, g2, g3, g4}
  NoGate = NoGate
  LastRun = 2
  MaxFails = 1
  MaxAttempts = 2
  AutoRerun = {TRUE, FALSE}
CONSTRAINT FewAdmitted
SYMMETRY Symmetry
INVARIANTS OneParent CreditIsDue
CHECK_DEADLOCK FALSE
