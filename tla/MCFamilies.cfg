SPECIFICATION FamilySpec
CONSTANTS
  Parents = {p1, p2}
  Children = {k1, k2}
  Amounts = {1, 2}
  Writers = {w1, w2, w3}
  Here = {w1, w2}
  Readers = {r1}
  NumLines = 2
  None = none
  MaxRequests = 3
  MaxMishaps = 1
INVARIANTS TotalsAddUp CachedReadIsCurrent CreatesAreWhole
SYMMETRY Symmetry
CHECK_DEADLOCK FALSE
