SPECIFICATION Spec
CONSTANTS
  Retries = 1
  Finals <- NativeFinals
  MaxKey = 1
  MaxBuys = 1
INVARIANTS ReportedOrderIsReturned
CHECK_DEADLOCK FALSE
