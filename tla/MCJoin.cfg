\* Two tasks, one joined by the other and both doing I/O; handles are dropped at
\* any time.
CONSTANTS
  t1 = t1
  t2 = t2
  o1 = o1
  o2 = o2
  j2 = j2
  Tasks = {t1, t2}
  NoTask = NoTask
  TaskKeys = {k0, k1}
  FirstKey = k0
  Oneshots = {o1, o2, j2}
  Multishots = {}
  Keys = {k0, k1, k2}
  Results = {8}
  SqEntries = 3
  RingCap = 1
  MaxShots = 1
  Owner <- Holder
  Joins <- Joined
  Cancels = TRUE
SPECIFICATION Spec
INVARIANTS TypeOK RecvNeverBlocks ReactFillsRunQueueUnlessDropped
PROPERTY RunReturnsUnlessDropped
