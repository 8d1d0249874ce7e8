SPECIFICATION BusSpec
CONSTANTS
  Events = {e1}
  Subs = {s1, s2}
  Consumers = {c1, c2}
  None = none
  MaxBatch = 1
  MaxRetries = 1
  MaxMishaps = 2
INVARIANT
    FailedDeliveryIsRetried
CHECK_DEADLOCK FALSE
