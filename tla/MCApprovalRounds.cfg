SPECIFICATION Spec
CONSTANTS
  Calls = {c1, c2, c3, c4}
  Levels = {1, 2}
  Effective <- MCEffective
  NoSlot = none
SYMMETRY Symmetry
VIEW View
INVARIANTS CalmlyApproved NeverStuck RoleRespected LevelsInOrder
PROPERTIES ApprovalSpec
CHECK_DEADLOCK FALSE
