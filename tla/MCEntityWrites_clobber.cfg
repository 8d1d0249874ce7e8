SPECIFICATION Spec
CONSTANTS
  Requests = {r1, r2}
  Columns = {"qty", "rate"}
  Metas = {"note"}
  Values = {0, 1}
  Stages <- MCStages
  StageTable <- MCStageTable
  DocStatuses <- MCDocStatuses
  DocTable <- MCDocTable
  Frozen = {"approved", "confirmed"}
  Patches <- MCPatches
  None = none
  DistinctStamps = TRUE
SYMMETRY Symmetry
PROPERTIES NoClobber
CHECK_DEADLOCK FALSE
