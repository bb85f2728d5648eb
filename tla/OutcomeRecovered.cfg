\* Two names, two jobs in each attempt.
SPECIFICATION Spec
CONSTANTS
  Name = {n1, n2}
  MaxPrevious = 2
  MaxCurrent = 2
INVARIANT RecoveredMeansAll
CHECK_DEADLOCK FALSE
