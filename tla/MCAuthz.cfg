SPECIFICATION AuthzSpec
CONSTANTS
  Actions = {read, write}
  None = none
  Checks = {c1, c2}
  Admins = {a1}
  Provisioners = {p1}
  StampTtl = 0
  Ttl = 1
  MaxTime = 3
  MaxWrites = 2
INVARIANTS AnswersAgeOut RaisedStampRetires OwnWriteIsSeen
SYMMETRY Symmetry
CHECK_DEADLOCK FALSE
