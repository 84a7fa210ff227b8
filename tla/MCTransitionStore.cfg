SPECIFICATION ASpec
CONSTANTS
  FileCap = 2
  RingCap = 1
  PageSize = 1
  MaxEdges = 5
  MaxCrashes = 1
  AcceptanceCapacity = 2
  MaxFaults = 1
  MaxLimit = 2
INVARIANTS NoSilentLoss FiringReconstructed LedgerChained
PROPERTY PagesLeaveNoGap InputVerdictSound
