\* Calls of lock() that may be dropped while they wait.
SPECIFICATION Spec
CONSTANTS
  c1 = c1
  c2 = c2
  c3 = c3
  c4 = c4
  t1 = t1
  t2 = t2
  Waiters = {c1, c2, c3, c4}
  Threads = {t1, t2}
  ThreadOf <- MCThreadOf
  Drops = TRUE
  MaxCount = 1
  LockFds = {3, 4, 5, 6}
PROPERTIES LockGranted
