SPECIFICATION Spec
CONSTANTS
  Retries = 1
  Finals <- EnergyFinals
  MaxKey = 3
  MaxBuys = 4
INVARIANTS OrdersInv DeliveredOnce TruthfulResult
PROPERTIES ImplementsPurchase
CHECK_DEADLOCK FALSE
