SPECIFICATION Spec
CONSTANTS
  Calls = {c1, c2}
  RetryBudgets <- MCOneRetry
  Window = 3
  SendDelay = 1
  RecvDelay = 1
  Skews <- MCSkews
  MaxAdrift = 1
  MaxClockSteps = 0
  MaxTime = 0
INVARIANTS FreezeToggles
CHECK_DEADLOCK FALSE
