\* A file, a stream, and two reads or writes; two timers, with the wall clock
\* set once; a bind or connect with up to two addresses, then three connections;
\* two datagrams from three senders, received by two futures and answered by one.
CONSTANTS
  Opens = {f1}
  Socks = {s1}
  Rws = {r1, r2}
  Fds = {3, 4}
  Lens = {2, 4, 6}
  LenMod = 4
  MaxSize = 2
  Timers = {t1, t2}
  Durations = {1}
  TimerFds = {3, 4}
  Steps <- ForwardAndBack
  MaxStart = 2
  MaxTime = 5
  MaxSteps = 1
  Addrs = {a1, a2}
  Garbage = Garbage
  MaxAddrs = 2
  MaxConns = 3
  RingCap = 2
  Recvs = {u1, u2}
  Sends = {u3}
  Peers <- Senders
  Sizes = {1, 2}
  RecvLens = {1, 2}
  MaxArrivals = 2
SYMMETRY Symmetric
SPECIFICATION MCSpec
INVARIANTS
  TypesOK
  AtLeastDuration
  OffsetAccounted LiveOpsOwnFile DescriptorsOwned ZeroMeansEof
  LoopReturns AcceptedHandedOver
  ReceivedInOrder ReceivedAsSent ReplyReachesSender
CHECK_DEADLOCK FALSE
