SPECIFICATION MCSpec
CONSTANTS
  DestructionCapacity = 2
  NoOne = nobody
  Retain = 1
  LedgerCapacity = 2
  MaxTicks = 3
  MaxErrors = 1
  MaxOutside = 1
  MaxOthers = 1
  t1 = t1 Nobody = Nobody Publisher = t1 Threads = {t1}
  AnchorCapacity = 2 MaxAttempts = 2 MaxFaults = 1
  MaxPublications = 4 MaxRestarts = 1 MaxRemovals = 1
CHECK_DEADLOCK FALSE
INVARIANTS    ReconcileSound
PROPERTIES  TickEnds
