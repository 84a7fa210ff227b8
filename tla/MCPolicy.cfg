SPECIFICATION Spec
CONSTANTS
  Ops = {o1, o2}
  Policies = {p1}
  Contents = {c1, c2}
  NoRules = norules
  Keys = {k1}
  NoKey = nokey
  ScanCap = 3
  TailDepth = 2
  RingCap = 1
  MaxRequests = 2
  MaxScans = 2
  MaxFaults = 1
SYMMETRY Sym
CHECK_DEADLOCK FALSE
INVARIANTS NoLostUpdate AnswersTrue VerifiedIsComplete
