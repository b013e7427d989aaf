SPECIFICATION Spec
CONSTANTS
  swap = swap
  transfer = transfer
  Tasks = {swap, transfer}
  Calls <- MCCalls
  Retries = 1
  MaxSignatures = 3
  MaxResumes = 1
INVARIANTS TypeOK SentOnce InOrder FinalIsFinal
PROPERTIES ImplementsSequence
CHECK_DEADLOCK FALSE
