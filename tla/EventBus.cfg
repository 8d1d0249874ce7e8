SPECIFICATION FairBusSpec
CONSTANTS
  Events = {e1}
  Subs = {s1, s2}
  Consumers = {c1, c2}
  None = none
  MaxBatch = 1
  MaxRetries = 1
  MaxMishaps = 2
INVARIANTS OneDeliverer TakenOnce NothingMissedInSilence
PROPERTIES EveryMessageLeaves
CHECK_DEADLOCK FALSE
