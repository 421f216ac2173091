\* A call of connect() with up to two addresses.
CONSTANTS
  Addrs = {a1, a2}
  Garbage = Garbage
  MaxAddrs = 2
  MaxConns = 2
  RingCap = 1
SPECIFICATION Spec
INVARIANT ConnectsToAddress
CHECK_DEADLOCK FALSE
