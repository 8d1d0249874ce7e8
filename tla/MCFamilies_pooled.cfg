SPECIFICATION FamilySpec
CONSTANTS
  Parents = {p1}
  Children = {k1, k2}
  Amounts = {1, 2}
  Writers = {w1, w2}
  Here = {}
  Readers = {}
  NumLines = 2
  None = none
  MaxRequests = 2
  MaxMishaps = 0
INVARIANT CreatedChildIsCounted
SYMMETRY Symmetry
CHECK_DEADLOCK FALSE
