SPECIFICATION FairSpec
CONSTANTS
  Execs = {e1}
  Cancellers = {k1, k2}
  Steps = 2
  StoreErrors = TRUE
  MaxCrashes = 1
CHECK_DEADLOCK FALSE
INVARIANTS RecordHonest StopsOnlyWhenAsked
PROPERTIES EverythingSettles
