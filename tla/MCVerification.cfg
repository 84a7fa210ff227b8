CONSTANTS tick = tick admin = admin Nobody = Nobody
  Attesters = {tick, admin} Pubs = {1} VerifyCapacity = 1 MaxReports = 4 MaxMishaps = 1
SPECIFICATION VSpec
SYMMETRY AttesterSymmetry
CHECK_DEADLOCK FALSE
INVARIANTS ReportsChained 
