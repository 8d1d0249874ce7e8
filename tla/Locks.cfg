SPECIFICATION FairSpec
CONSTANTS
  Calls = {c1, c2, h1}
  Manual = {h1}
  NoOwner = none
  TTL = 3
  MinRenew = 1
  Timeout = 1
INVARIANTS MutualExclusion
PROPERTIES LiveLeaseIsKept LeaseOfTheGoneRunsOut
