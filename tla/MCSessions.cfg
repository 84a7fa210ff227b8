SPECIFICATION SSpec
CONSTANTS
  Callers = {k1, k2}
  Unit = 1
  Capacity = 1
  Refill = 1
  MaxTime = 2
  MaxGrants = 3
  AccessTTL = 1
  RefreshTTL = 2
  MaxRequests = 5
  MaxFaults = 1
SYMMETRY Sym
CHECK_DEADLOCK FALSE
INVARIANTS SequentialRateBound LoggedOut RegistrationExclusive
