----------------------------- MODULE UdpParams ------------------------------
(* The parameters of module Udp. *)
EXTENDS Naturals, SockAddr

CONSTANTS
  Recvs, Sends,  \* futures of recv_from() and of send_to()
  Peers,         \* addresses of the senders
  Sizes,         \* sizes of datagrams
  RecvLens,      \* lengths of receive buffers
  MaxArrivals    \* bound: datagrams that arrive

\* A sender's address; recvmsg() says nothing of its flow and leaves flowinfo 0.
IsSender(a) ==
  /\ a.ip \in Seq(0..255) /\ a.port \in Seq(0..255)
  /\ \/ a = V4(a.ip, a.port)
     \/ a.scope_id \in Nat /\ a = V6(a.ip, a.port, 0, a.scope_id)

ASSUME UdpAssumption ==
  /\ Recvs \cap Sends = {}
  /\ Sizes \subseteq Nat /\ RecvLens \subseteq Nat /\ MaxArrivals \in Nat
  /\ \A a \in Peers : IsSender(a)

=============================================================================
