SPECIFICATION Spec
CONSTANTS
  Writes = {w1, w2}
  Guarded = {w2}
  LastToken = 2
  Flushers = {f1, f2}
  Calls = {c1, c2, c3}
  Refusals = {"409", "4xx", "503"}
  None = none
SYMMETRY Symmetry
INVARIANTS NothingVanishes ReplayedIsAccounted
PROPERTIES NeverAppliedTwice
CHECK_DEADLOCK FALSE
