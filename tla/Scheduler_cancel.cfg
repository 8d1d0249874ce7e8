SPECIFICATION Spec
CONSTANTS
  Alarm = alarmHandler
  Watchdog = watchdog
  Manual = {}
  Calls = {c1}
  Budget = 2
  Base = 1
  Cap = 1
  Delays = {0, 1}
  Periods = {1}
  Horizon = 1
PROPERTIES CancelIsKept
CHECK_DEADLOCK FALSE
