SPECIFICATION Spec
CONSTANTS
  Creates = {c1, c2, c3}
  Radix = 2
  Widths = {1, 2}
  First = 2
  Start = 1
  MaxRetries = 2
  MaxDigits = 3
  Mishaps = {"fail", "purge", "dberror"}
SYMMETRY Symmetry
INVARIANTS UniqueInSeries NoGaps
PROPERTIES RefusedForCause
CHECK_DEADLOCK FALSE
