\* Two tasks, one of which has two operations: one that wakes it, and one that it
\* drops in flight and that completes later.
CONSTANTS
  t1 = t1
  t2 = t2
  o1 = o1
  o2 = o2
  o3 = o3
  m1 = m1
  k0 = k0
  k1 = k1
  k2 = k2
  Tasks = {t1, t2}
  NoTask = NoTask
  TaskKeys = {k0, k1}
  FirstKey = k0
  Oneshots = {o1, o2, o3}
  Multishots = {}
  Keys = {k0, k1, k2}
  Results = {4}
  SqEntries = 3
  RingCap = 1
  MaxShots = 1
  Owner <- Holder
  Cancels = TRUE
SPECIFICATION SlabSpec
INVARIANT ReactFillsRunQueue
