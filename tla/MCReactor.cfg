\* Two oneshots and two multishots compete for two indices of each slab; a buffer
\* of two results overflows.
CONSTANTS
  o1 = o1
  o2 = o2
  m1 = m1
  m2 = m2
  k1 = k1
  k2 = k2
  Oneshots = {o1, o2}
  Multishots = {m1, m2}
  Keys = {k1, k2}
  Wakers = {w}
  Results <- OkAndErr
  SqEntries = 2
  RingCap = 2
  MaxShots = 2
SPECIFICATION Spec
SYMMETRY Symmetric
INVARIANTS
  TypeOK
  LookupsSucceed
  OwnResults
  MultishotFifo
  ResultsReclaimed
PROPERTIES
  CancelsOwnOperation
  PortSpec
