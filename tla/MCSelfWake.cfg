\* Four tasks share four indices of `waiting`; t1 also wakes itself in poll().
CONSTANTS
  t1 = t1
  t2 = t2
  t3 = t3
  t4 = t4
  k0 = k0
  k1 = k1
  k2 = k2
  k3 = k3
  Tasks = {t1, t2, t3, t4}
  NoTask = NoTask
  TaskKeys = {k0, k1, k2, k3}
  FirstKey = k0
  SelfWakers = {t1}
SPECIFICATION Spec
SYMMETRY Symmetric
INVARIANT SelfWakeKept
