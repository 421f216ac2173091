-------------------------------- MODULE Udp ---------------------------------
(***************************************************************************)
(* UdpSocket (futures/udp.rs): one socket whose program receives datagrams *)
(* and sends replies to their senders, as the module's echo server does.   *)
(*                                                                         *)
(* recv_from borrows the socket mutably: while its future lives there is   *)
(* no other.  A dropped future leaves its entry behind; the message header *)
(* the entry points to is then gone, and the operation does to the socket  *)
(* what it would have done, or fails.                                      *)
(***************************************************************************)
EXTENDS Integers, Sequences, FiniteSetsExt, UdpParams

VARIABLES
  datagrams,          \* history: the datagrams that arrived, by number
  inbox,              \* numbers of those the socket holds
  csock, room,        \* address and buffer of each future
  consumed,           \* the number each recv_from() took from the inbox, or 0
  got,                \* what it returned: <<>>, <<"Err">> or <<n, addr>>
  received,           \* history: numbers in the order they were returned
  replies,            \* history: number that each send_to() replies to, or 0
  delivered,          \* replies that reached the network: future and address
  panicked,           \* an unwrap() has failed
  fut, op, ans, out   \* handles

port_vars == <<fut, op, ans, out>>
vars == <<datagrams, inbox, csock, room, consumed, got, received, replies, delivered,
          panicked, port_vars>>

Handles == Recvs \cup Sends
Failed == -1
Io == INSTANCE IoPort WITH Answers <- {Failed} \cup Sizes \cup RecvLens

TypeOK ==
  /\ Io!TypeOK
  /\ Len(datagrams) <= MaxArrivals
  /\ \A n \in DOMAIN datagrams : datagrams[n].src \in Peers /\ datagrams[n].size \in Sizes
  /\ ToSet(inbox) \subseteq DOMAIN datagrams
  /\ room \in [Recvs -> RecvLens \cup {0}]
  /\ consumed \in [Recvs -> 0..MaxArrivals]
  /\ replies \in [Sends -> 0..MaxArrivals]
  /\ panicked \in BOOLEAN

Init ==
  /\ datagrams = <<>> /\ inbox = <<>>
  /\ csock = [h \in Handles |-> Zeroed]
  /\ room = [h \in Recvs |-> 0]
  /\ consumed = [h \in Recvs |-> 0]
  /\ got = [h \in Recvs |-> <<>>]
  /\ received = <<>>
  /\ replies = [h \in Sends |-> 0]
  /\ delivered = {}
  /\ panicked = FALSE
  /\ Io!Init

-----------------------------------------------------------------------------
Live(hs) == \E h \in hs : fut[h] = "Submitted"

\* Mutant: recv_from() borrows the socket like send_to().
recv_from_Shared(h, len) ==
  /\ ~panicked
  /\ Io!Submit(h)
  /\ room' = [room EXCEPT ![h] = len]
  /\ UNCHANGED <<datagrams, inbox, csock, consumed, got, received, replies, delivered, panicked>>

\* UdpSocket::recv_from and its first poll.
recv_from(h, len) ==
  /\ ~panicked /\ ~Live(Handles)
  /\ Io!Submit(h)
  /\ room' = [room EXCEPT ![h] = len]
  /\ UNCHANGED <<datagrams, inbox, csock, consumed, got, received, replies, delivered, panicked>>

\* UdpSocket::send_to the sender that r returned, and its first poll.
send_to(h, r) ==
  /\ ~panicked /\ ~Live(Recvs)
  /\ Len(got[r]) = 2
  /\ Io!Submit(h)
  /\ csock' = [csock EXCEPT ![h] = from(got[r][2])]
  /\ replies' = [replies EXCEPT ![h] = consumed[r]]
  /\ UNCHANGED <<datagrams, inbox, room, consumed, got, received, delivered, panicked>>

\* The first poll of send_to() to a name that does not resolve.
SendPanics(h) ==
  /\ ~panicked /\ ~Live(Recvs) /\ fut[h] = "New"
  /\ panicked' = TRUE
  /\ UNCHANGED <<datagrams, inbox, csock, room, consumed, got, received, replies, delivered,
                 port_vars>>

\* A poll of RecvFrom is Ready.
RecvReady(h) ==
  /\ ~panicked /\ h \in Recvs
  /\ Io!Take(h)
  /\ got' = [got EXCEPT ![h] =
               IF ans[h][1] < 0 \/ try_from(csock[h]) = <<>> THEN <<"Err">>
               ELSE <<ans[h][1], try_from(csock[h])[1]>>]
  /\ received' = IF Len(got'[h]) = 2 THEN Append(received, consumed[h]) ELSE received
  /\ UNCHANGED <<datagrams, inbox, csock, room, consumed, replies, delivered, panicked>>

SendReady(h) ==
  /\ ~panicked /\ h \in Sends
  /\ Io!Take(h)
  /\ UNCHANGED <<datagrams, inbox, csock, room, consumed, got, received, replies, delivered,
                 panicked>>

DropFuture(h) ==
  /\ ~panicked /\ fut[h] = "Submitted"
  /\ Io!Drop(h)
  /\ UNCHANGED <<datagrams, inbox, csock, room, consumed, got, received, replies, delivered,
                 panicked>>

-----------------------------------------------------------------------------
Arrive(p, size) ==
  /\ Len(datagrams) < MaxArrivals
  /\ datagrams' = Append(datagrams, [src |-> p, size |-> size])
  /\ inbox' = Append(inbox, Len(datagrams'))
  /\ UNCHANGED <<csock, room, consumed, got, received, replies, delivered, panicked, port_vars>>

React ==
  /\ ~panicked /\ Io!Queued # {}
  /\ Io!Enter
  /\ UNCHANGED <<datagrams, inbox, csock, room, consumed, got, received, replies, delivered,
                 panicked>>

\* recvmsg(): the oldest datagram, cut to the buffer, and the sender's name.
KernelRecv(h) ==
  /\ inbox # <<>>
  /\ LET d == datagrams[Head(inbox)]
     IN  /\ Io!Answer(h, Min({d.size, room[h]}))
         /\ csock' = [csock EXCEPT ![h] = KernelName(d.src)]
  /\ consumed' = [consumed EXCEPT ![h] = Head(inbox)]
  /\ inbox' = Tail(inbox)
  /\ UNCHANGED <<datagrams, room, got, received, replies, delivered, panicked>>

\* A link-local destination is reached only through the interface it names.
Unreachable(a) == a.v = "V6" /\ a.scope_id = 0 /\ \E p \in Peers : p.v = "V6" /\ p.ip = a.ip /\ p.scope_id # 0

KernelSend(h) ==
  /\ LET dst == KernelReads(csock[h])
     IN  IF Unreachable(dst) THEN Io!Answer(h, Failed) /\ UNCHANGED delivered
         ELSE Io!Answer(h, Min(Sizes)) /\ delivered' = delivered \cup {<<h, dst>>}
  /\ UNCHANGED <<datagrams, inbox, csock, room, consumed, got, received, replies, panicked>>

\* Any operation may fail; that of a dropped future because its header is gone.
KernelFails(h) ==
  /\ Io!Answer(h, Failed)
  /\ UNCHANGED <<datagrams, inbox, csock, room, consumed, got, received, replies, delivered,
                 panicked>>

Next ==
  \/ \E h \in Recvs : \/ \E len \in RecvLens : recv_from(h, len)
                      \/ RecvReady(h) \/ KernelRecv(h)
  \/ \E h \in Sends : \/ \E r \in Recvs : send_to(h, r)
                      \/ SendPanics(h) \/ SendReady(h) \/ KernelSend(h)
  \/ \E h \in Handles : DropFuture(h) \/ KernelFails(h)
  \/ \E p \in Peers, size \in Sizes : Arrive(p, size)
  \/ React

Spec == Init /\ [][Next]_vars

-----------------------------------------------------------------------------
(***************************************************************************)
(* Properties.                                                             *)
(***************************************************************************)
\* Datagrams are returned in the order they arrived, none twice, and one that was
\* passed over went to a future that was dropped, or to a read that is still to
\* return it (udp.rs:70-79).
ReceivedInOrder ==
  /\ \A m, n \in DOMAIN received : m < n => received[m] < received[n]
  /\ \A d \in DOMAIN datagrams :
       \/ d \in ToSet(received) \/ d \in ToSet(inbox)
       \/ \E h \in Recvs : consumed[h] = d /\ fut[h] \in {"Submitted", "Gone"}

\* What recv_from() returns is the sender and the length, cut to the buffer, of
\* the datagram it took (udp.rs:144-152, sock_addr.rs:42-67).
ReceivedAsSent ==
  \A h \in Recvs :
    Len(got[h]) = 2 => LET d == datagrams[consumed[h]]
                       IN  got[h] = <<Min({d.size, room[h]}), d.src>>

\* A reply to the address that recv_from() returned goes to the sender of the
\* datagram and to nobody else (the echo server of udp.rs:15-20); a sender whose
\* address has a scope, which From<SocketAddr> drops, gets none (sock_addr.rs:27-36).
ReplyReachesSender ==
  /\ \A r \in delivered : r[2] = datagrams[replies[r[1]]].src
  /\ \A h \in Sends : fut[h] = "Finished" /\ ans[h] # <<Failed>> =>
       <<h, datagrams[replies[h]].src>> \in delivered

=============================================================================
