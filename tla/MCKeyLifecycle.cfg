CONSTANTS w1 = w1 w2 = w2 tick = tick k1 = k1 Nobody = Nobody
  Writers = {w1, w2} Sweeper = tick Threads = {w1, w2, tick} Keys = {k1} Starts = {2} Ends = {2, 3}
  AnchorCapacity = 1 MaxAttempts = 1 MaxFaults = 1 KeyCapacity = 2
  MaxEvents = 2 MaxSweeps = 1
SPECIFICATION Spec
SYMMETRY WriterSymmetry
CHECK_DEADLOCK FALSE
INVARIANTS DomainsNeverMixed EndsEnforced NeverAccused NoForks
