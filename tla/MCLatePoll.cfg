\* One timer, and nobody sets the wall clock.
SPECIFICATION Spec
CONSTANTS
  Timers = {t1}
  Durations = {1}
  TimerFds = {3}
  Steps = {}
  MaxStart = 2
  MaxTime = 4
  MaxSteps = 0
PROPERTY SleepEnds
CHECK_DEADLOCK FALSE
