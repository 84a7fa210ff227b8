SPECIFICATION FairSpec
CONSTANTS
  Requests = {r1, r2}
  Caps = {c1}
  Principals = {p1}
  AnyPrincipal = any
  DefaultCap = 1
  CapValues = {2}
  FailureThreshold = 2
  Window = 1
  Cooldown = 1
  AuditLimit = 2
  QuotaDefs <- MCQuotaDefs
  Usages <- MCUsages
  Operators = TRUE
  MaxTime = 1
  MaxRows = 2
  MaxFailures = 2
INVARIANTS SlotsBounded OpensOnlyOnExecutionFailures
PROPERTIES KillDrains
