SPECIFICATION Spec
CONSTANTS
  Deliveries <- MCDeliveries
  Object <- MCObject
  Skews <- MCSkews
  Tolerances <- MCTolerances
  DefaultTolerance = 1
  MaxAttempts = 2
  MaxTime = 4
  MaxDamage = 1
INVARIANTS TypeOK HandledOnce DeliveredIsHandled AcceptedIsFresh PunctualIsAccepted
PROPERTIES ImplementsNotifications
CHECK_DEADLOCK FALSE
