SPECIFICATION FairSpec
CONSTANTS
  Intervals <- MCIntervals
  Timeouts <- MCTimeouts
  DefaultInterval = 2
  DefaultTimeout = 5
  FetchMax = 2
  Lag = 1
  MaxTime = 12
INVARIANTS PollInv OverrunBounded TimeoutJustified FetchesBounded
PROPERTIES WaitEnds
CHECK_DEADLOCK FALSE
