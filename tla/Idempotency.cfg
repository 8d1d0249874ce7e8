SPECIFICATION FairSpec
CONSTANTS
  Calls = {c1, c2, c3}
  Keys = {k1}
  Ttl = 1
  Keep = 2
  Modes = {TRUE, FALSE}
  None = none
  Void = {none}
INVARIANTS OneAtATime ValuesLanded
PROPERTIES LandsOnce ClaimsAreResolved
CHECK_DEADLOCK FALSE
