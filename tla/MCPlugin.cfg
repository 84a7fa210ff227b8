CONSTANTS a = a b = b
  Ops = {a, b} Defs <- TwoDefs MaxChanges = 3 MaxCalls = 3 MaxErrors = 1 MaxCrashes = 1
SPECIFICATION PSpec
CHECK_DEADLOCK FALSE
INVARIANTS  StateRestored WatcherCurrent
