SPECIFICATION FairSpec
CONSTANTS
  Alarm = alarmHandler
  Watchdog = watchdog
  Manual = {m1}
  Calls = {c1}
  Budget = 2
  Base = 1
  Cap = 1
  Delays = {0, 1}
  Periods = {0, 1}
  Horizon = 1
INVARIANTS AlarmIsNextRun
PROPERTIES OneShotRunsOnce OverIsOver DueTaskRuns
CHECK_DEADLOCK FALSE
