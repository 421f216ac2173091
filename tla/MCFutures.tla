----------------------------- MODULE MCFutures ------------------------------
(***************************************************************************)
(* Instances of Timer, File, Tcp and Udp for TLC.  These share no state:   *)
(* each behaviour is one of one of them, named by `part`.                  *)
(***************************************************************************)
EXTENDS MCTimer, FileParams, TcpParams, UdpParams

VARIABLES
  part,
  node, size, fdtab, desc, file, told, req, f_fut, f_op, f_ans, f_out,
  kind, addrs, i, sock, last_err, result, log, seen, peer, c_fut, c_op, c_ans, c_out,
  listener, arrived, accepted, cq, ring, finished, handed, overflow, c_panicked,
  datagrams, inbox, csock, room, consumed, got, received, replies, delivered,
  u_panicked, u_fut, u_op, u_ans, u_out

F == INSTANCE File WITH fut <- f_fut, op <- f_op, ans <- f_ans, out <- f_out
C == INSTANCE Tcp WITH
       panicked <- c_panicked, fut <- c_fut, op <- c_op, ans <- c_ans, out <- c_out
U == INSTANCE Udp WITH
       panicked <- u_panicked, fut <- u_fut, op <- u_op, ans <- u_ans, out <- u_out

file_vars == <<node, size, fdtab, desc, file, told, req, f_fut, f_op, f_ans, f_out>>
tcp_vars == <<kind, addrs, i, sock, last_err, result, log, seen, peer,
              c_fut, c_op, c_ans, c_out, listener, arrived, accepted, cq, ring, finished,
              handed, overflow, c_panicked>>
udp_vars == <<datagrams, inbox, csock, room, consumed, got, received, replies, delivered,
              u_panicked, u_fut, u_op, u_ans, u_out>>
all_vars == <<part, vars, file_vars, tcp_vars, udp_vars>>

MCInit ==
  /\ part \in {"file", "timer", "tcp", "udp"}
  /\ Init /\ F!Init /\ C!Init /\ U!Init
  /\ part # "file" => node = "none"

TimerNext == part = "timer" /\ Next /\ UNCHANGED <<part, file_vars, tcp_vars, udp_vars>>
FileNext == part = "file" /\ F!Next /\ UNCHANGED <<part, vars, tcp_vars, udp_vars>>
TcpNext == part = "tcp" /\ C!Next /\ UNCHANGED <<part, vars, file_vars, udp_vars>>
UdpNext == part = "udp" /\ U!Next /\ UNCHANGED <<part, vars, file_vars, tcp_vars>>

MCNext == TimerNext \/ FileNext \/ TcpNext \/ UdpNext

MCSpec == MCInit /\ [][MCNext]_all_vars

\* Reads and writes are interchangeable.
Symmetric == Permutations(Rws)

\* Senders over IPv4, IPv6, and IPv6 with a scope.
Senders == {V4(<<1, 2>>, <<0, 7>>), V6(<<1, 2>>, <<3, 4>>, 0, 0), V6(<<9, 2>>, <<3, 4>>, 0, 5)}

-----------------------------------------------------------------------------
\* The types of the four components.
TypesOK == TypeOK /\ F!TypeOK /\ C!TypeOK /\ U!TypeOK

\* Files: a program that adds up results knows the offset (read.rs:56).
OffsetAccounted == F!OffsetAccounted

\* Files: the operation of a live future meets its own file (read.rs:52).
LiveOpsOwnFile == F!LiveOpsOwnFile

\* Files: only a dropped open leaves a descriptor behind (fs.rs:102-106).
DescriptorsOwned == F!DescriptorsOwned

\* Files and streams: Ok(0) means the end (read.rs:54).
ZeroMeansEof == F!ZeroMeansEof

\* TCP: bind() and connect() return the first address that works, or the error of
\* the last one tried (tcp.rs:91-113, 161-175).
LoopReturns == C!LoopReturns

\* TCP: a listener hands over every accepted connection in order (tcp.rs:119-136).
AcceptedHandedOver == C!AcceptedHandedOver

\* UDP: datagrams are returned in order and only a dropped future loses one
\* (udp.rs:70-79).
ReceivedInOrder == U!ReceivedInOrder

\* UDP: each with its own sender and length (udp.rs:144-152).
ReceivedAsSent == U!ReceivedAsSent

\* UDP: a reply goes to the sender it answers (udp.rs:15-20).
ReplyReachesSender == U!ReplyReachesSender
=============================================================================
