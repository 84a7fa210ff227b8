SPECIFICATION RSpec
CONSTANTS
  Requests = {r1, r2}
  Addresses = {a1, a2}
  Capabilities = {x}
  None = none
  MaxIdle = 1
  MaxConns = 3
  MaxRuns = 2
  MaxEdits = 2
SYMMETRY Sym
CHECK_DEADLOCK FALSE
INVARIANTS ConnectionsAccounted 
