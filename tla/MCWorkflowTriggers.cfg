SPECIFICATION FairSpec
CONSTANTS
  States <- MCStates
  Initial = "open"
  Transitions <- MCTransitions
  Keys <- MCKeys
  NoKey = noKey
  NoState = noState
  StatusMap <- MCStatusMap
  NoStatus = "none"
  StatusMoves <- MCStatusMoves
  Requests = {r1, r2}
  Flushers = {f1}
  Limit = 1
  MaxAttempts = 5
  MaxRows = 2
  MaxMoves = 3
  MaxMishaps = 1
INVARIANTS MovesFormAPath EveryMoveIsRecorded MirrorsFollow EffectsFollowMoves EffectsAreQueued
PROPERTIES EveryRowIsTried
CHECK_DEADLOCK FALSE
