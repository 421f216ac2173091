\* Two timers, with the wall clock set once; three waiters on two threads and a
\* count that reaches its limit; three calls of lock() on two threads.  Waiters and
\* calls are dropped at any time.
CONSTANTS
  Timers = {t1, t2}
  Durations = {1}
  TimerFds = {3, 4}
  Steps <- ForwardAndBack
  MaxStart = 2
  MaxTime = 5
  MaxSteps = 1
  c1 = c1
  c2 = c2
  c3 = c3
  th1 = th1
  th2 = th2
  Waiters = {c1, c2, c3}
  Threads = {th1, th2}
  ThreadOf <- ThreadOfCall
  Drops = TRUE
  MaxCount = 1
  MaxNotified = 4
  LockFds = {3, 4, 5}
SPECIFICATION MCSpec
INVARIANTS
  TypesOK
  MutualExclusion UnlockSucceeds
  NotificationsConserved
PROPERTIES
  SleepEndsUnlessAbandoned
  EnoughNotifications
  LockGrantedUnlessDropped
CHECK_DEADLOCK FALSE
