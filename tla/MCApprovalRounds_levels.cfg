SPECIFICATION Spec
CONSTANTS
  Calls = {c1, c2, c3}
  Levels = {1, 2}
  Effective <- MCEffective
  NoSlot = none
SYMMETRY Symmetry
INVARIANTS ApprovedByAllLevels
CHECK_DEADLOCK FALSE
