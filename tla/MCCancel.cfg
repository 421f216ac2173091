\* A multishot handle dropped at any time.
CONSTANTS
  o1 = o1
  o2 = o2
  m1 = m1
  m2 = m2
  k1 = k1
  k2 = k2
  Oneshots = {o1}
  Multishots = {m1}
  Keys = {k1, k2}
  Wakers = {w}
  Results <- OkAndErr
  SqEntries = 2
  RingCap = 1
  MaxShots = 1
SPECIFICATION Spec
SYMMETRY Symmetric
INVARIANTS
  CancelFindsOperation
