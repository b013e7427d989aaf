SPECIFICATION FairSpec
CONSTANTS
  Calls = {c1, c2}
  RetryBudgets <- MCRetryBudgets
  Window = 3
  SendDelay = 1
  RecvDelay = 1
  Skews <- MCFarSkew
  MaxAdrift = 2
  MaxClockSteps = 0
  MaxTime = 0
INVARIANTS IInv BudgetExact NoOwnReplay
PROPERTIES ImplementsContract CallsEnd StepsRunOut
CHECK_DEADLOCK FALSE
