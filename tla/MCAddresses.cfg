\* A call of bind() or connect() with up to two addresses.
CONSTANTS
  Addrs = {a1, a2}
  Garbage = Garbage
  MaxAddrs = 2
  MaxConns = 2
  RingCap = 1
SPECIFICATION Spec
INVARIANT AllAddressesTried
CHECK_DEADLOCK FALSE
