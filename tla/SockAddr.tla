------------------------------ MODULE SockAddr ------------------------------
(***************************************************************************)
(* The conversions between SocketAddr and the sockaddr structures of libc  *)
(* (futures/sock_addr.rs).                                                 *)
(*                                                                         *)
(* A number of several bytes is the sequence of its bytes in memory; the   *)
(* host is little-endian, the network big-endian.  An IP address and a     *)
(* port are two bytes each, most significant first.                        *)
(***************************************************************************)
EXTENDS Naturals, Sequences, SequencesExt

\* SocketAddr.
V4(ip, port) == [v |-> "V4", ip |-> ip, port |-> port]
V6(ip, port, flowinfo, scope_id) ==
  [v |-> "V6", ip |-> ip, port |-> port, flowinfo |-> flowinfo, scope_id |-> scope_id]

V4_LEN == 16
V6_LEN == 28

\* CSockAddr: the union read as v4 has the first three fields; len says which.
CSockAddr(len, family, port, addr, flowinfo, scope_id) ==
  [len |-> len, family |-> family, port |-> port, addr |-> addr,
   flowinfo |-> flowinfo, scope_id |-> scope_id]
Zeroed == CSockAddr(0, "unspec", <<0, 0>>, <<0, 0>>, 0, 0)

\* A number in memory, and htonl, htons, ntohl, ntohs on it.
Native(bytes) == Reverse(bytes)
Swap(n) == Reverse(n)

\* Mutant: the port stays in the order of the host.
from_HostPort(a) ==
  IF a.v = "V4" THEN CSockAddr(V4_LEN, "inet", Native(a.port), Swap(Native(a.ip)), 0, 0)
  ELSE CSockAddr(V6_LEN, "inet6", Native(a.port), a.ip, 0, 0)

\* From<SocketAddr> for CSockAddr: flowinfo and scope_id stay zero.
from(a) ==
  IF a.v = "V4" THEN CSockAddr(V4_LEN, "inet", Swap(Native(a.port)), Swap(Native(a.ip)), 0, 0)
  ELSE CSockAddr(V6_LEN, "inet6", Swap(Native(a.port)), a.ip, 0, 0)

\* Mutant: the port is read in the order of the host.
try_from_HostPort(c) ==
  CASE c.len = V4_LEN -> <<V4(Native(Swap(c.addr)), Native(c.port))>>
    [] c.len = V6_LEN -> <<V6(c.addr, Native(c.port), c.flowinfo, c.scope_id)>>
    [] OTHER -> <<>>

\* TryFrom<&CSockAddr> for SocketAddr: by length alone, <<>> is an error.
try_from(c) ==
  CASE c.len = V4_LEN -> <<V4(Native(Swap(c.addr)), Native(Swap(c.port)))>>
    [] c.len = V6_LEN -> <<V6(c.addr, Native(Swap(c.port)), c.flowinfo, c.scope_id)>>
    [] OTHER -> <<>>

\* The kernel's view of a socket address: what it writes for a sender and what
\* it makes of a destination.
KernelName(a) ==
  IF a.v = "V4" THEN CSockAddr(V4_LEN, "inet", a.port, a.ip, 0, 0)
  ELSE CSockAddr(V6_LEN, "inet6", a.port, a.ip, a.flowinfo, a.scope_id)
KernelReads(c) ==
  IF c.family = "inet" THEN V4(c.addr, c.port) ELSE V6(c.addr, c.port, c.flowinfo, c.scope_id)

=============================================================================
