SPECIFICATION MSpec
CONSTANTS
  Ops = {o1, o2}
  Keys = {k1}
  MaxCrashes = 2
SYMMETRY Sym
INVARIANTS AckedMutationsHold NothingWithoutIntent
