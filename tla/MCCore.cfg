\* An executor with four tasks; and executor and reactor together, with two tasks
\* whose two oneshots and a multishot are dropped at any time.
CONSTANTS
  t1 = t1
  t2 = t2
  t3 = t3
  t4 = t4
  o1 = o1
  o2 = o2
  m1 = m1
  k0 = k0
  k1 = k1
  k2 = k2
  k3 = k3
  k4 = k4
  Tasks = {t1, t2, t3, t4}
  SelfWakers = {t1}
  NoTask = NoTask
  TaskKeys = {k0, k1, k2, k3}
  FirstKey = k0
  Oneshots = {o1, o2}
  Multishots = {m1}
  Keys = {k1, k2, k3}
  Results = {4}
  SqEntries = 2
  RingCap = 1
  MaxShots = 1
  Owner <- Holder
  Cancels = TRUE
SPECIFICATION MCSpec
SYMMETRY Symmetric
INVARIANTS
  TypeOK
  OnePlace WakerFindsTask NoLostWake
  NoStrandedTask
PROPERTY RunBlocksUntilDone
