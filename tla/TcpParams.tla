----------------------------- MODULE TcpParams ------------------------------
(* The parameters of module Tcp. *)
EXTENDS Naturals

CONSTANTS
  Addrs,       \* socket addresses
  Garbage,     \* bytes that are no address
  MaxAddrs,    \* bound: addresses of a call
  MaxConns,    \* bound: connections that arrive
  RingCap      \* results a multishot handle keeps, 1024 in the code

ASSUME TcpAssumption ==
  MaxAddrs \in Nat /\ MaxConns \in Nat /\ RingCap \in Nat \ {0}

=============================================================================
