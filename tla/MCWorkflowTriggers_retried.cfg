SPECIFICATION FairSpec
CONSTANTS
  States <- MCStates
  Initial = "open"
  Transitions <- MCTransitions
  Keys <- MCKeys
  NoKey = noKey
  NoState = noState
  StatusMap <- MCStatusMap
  NoStatus = "none"
  StatusMoves <- MCStatusMoves
  Requests = {r1}
  Flushers = {f1, f2}
  Limit = 1
  MaxAttempts = 5
  MaxRows = 2
  MaxMoves = 1
  MaxMishaps = 1
PROPERTIES FailuresAreRetried
CHECK_DEADLOCK FALSE
