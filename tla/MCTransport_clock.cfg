SPECIFICATION Spec
CONSTANTS
  Calls = {c1, c2}
  RetryBudgets <- MCOneRetry
  Window = 3
  SendDelay = 1
  RecvDelay = 1
  Skews <- MCTwoSkews
  MaxAdrift = 0
  MaxClockSteps = 1
  MaxTime = 2
INVARIANTS CorrectionHolds
PROPERTIES CorrectionIsShared
VIEW Clockwork
SYMMETRY Interchangeable
CHECK_DEADLOCK FALSE
