-------------------------------- MODULE Tcp ---------------------------------
(***************************************************************************)
(* TCP (futures/tcp.rs): the loops of TcpListener::bind and                *)
(* TcpStream::connect over the addresses they are given, and the stream of *)
(* connections of a listener.                                              *)
(*                                                                         *)
(* One call of bind or connect is made; a listener that it returns is then *)
(* polled.  SockConnect::poll converts the address into a local variable   *)
(* and queues a pointer to it; the kernel follows the pointer when react() *)
(* submits the entry, after poll() has returned, and reads what is there   *)
(* by then: the address, that of another connect() polled in the meantime  *)
(* from the same depth of the stack, or anything else.                     *)
(*                                                                         *)
(* Connections are numbered as they arrive.                                *)
(***************************************************************************)
EXTENDS Integers, Sequences, SequencesExt, TcpParams

VARIABLES
  kind, addrs, i,     \* the call, its addresses, and the one it is at
  sock,               \* the call holds a socket
  last_err, result,   \* what it will return, and has returned: <<>> or <<r>>
  log,                \* history: what came of each address tried
  seen, peer,         \* the address the kernel read; the one it connected to
  fut, op, ans, out,  \* SockConnect::io of each attempt
  listener,           \* "none", "bound", "queued", "armed", "ended" or "gone"
  arrived, accepted,  \* connections of the listening socket
  cq, ring, finished, \* results: on their way, and kept; the last one is kept
  handed,             \* what poll_next has returned
  overflow, panicked  \* history: ring has overwritten; a drop has panicked

port == <<fut, op, ans, out>>
call_vars == <<kind, addrs, i, sock, last_err, result, log, seen, peer, port>>
listener_vars == <<listener, arrived, accepted, cq, ring, finished, handed, overflow, panicked>>
vars == <<call_vars, listener_vars>>

Attempts == 1..MaxAddrs
Refused == -111
Io == INSTANCE IoPort WITH Handles <- Attempts, Answers <- {0, Refused}

NoAddr == "none"
Ok(a) == <<<<"Ok", a>>>>
Err(e) == <<<<"Err", e>>>>
Failure(step, a) == <<step, a>>

\* Results of the accept operation: a connection, or the error that ends it.
AcceptError == 0
None == -1   \* poll_next() returned Ready(None)

TypeOK ==
  /\ Io!TypeOK
  /\ kind \in {"none", "bind", "connect"} /\ i \in 1..(MaxAddrs + 1)
  /\ Len(addrs) <= MaxAddrs /\ sock \in BOOLEAN /\ Len(result) <= 1
  /\ seen \in [Attempts -> Addrs \cup {Garbage, NoAddr}]
  /\ peer \in Addrs \cup {NoAddr}
  /\ listener \in {"none", "bound", "queued", "armed", "ended", "gone"}
  /\ arrived \in 0..MaxConns /\ accepted \in 0..arrived
  /\ Len(ring) <= RingCap /\ finished \in BOOLEAN
  /\ overflow \in BOOLEAN /\ panicked \in BOOLEAN

Init ==
  /\ kind = "none" /\ addrs = <<>> /\ i = 1 /\ sock = FALSE
  /\ last_err = "none" /\ result = <<>> /\ log = <<>>
  /\ seen = [a \in Attempts |-> NoAddr] /\ peer = NoAddr
  /\ Io!Init
  /\ listener = "none" /\ arrived = 0 /\ accepted = 0
  /\ cq = <<>> /\ ring = <<>> /\ finished = FALSE /\ handed = <<>>
  /\ overflow = FALSE /\ panicked = FALSE

-----------------------------------------------------------------------------
(***************************************************************************)
(* TcpListener::bind and TcpStream::connect.                               *)
(***************************************************************************)
Running == kind # "none" /\ result = <<>>

\* The addresses are resolved, or cannot be.
Call(k, as) ==
  /\ kind = "none"
  /\ kind' = k
  /\ addrs' = as
  /\ last_err' = IF k = "bind" THEN "NotFound" ELSE "InvalidData"
  /\ UNCHANGED <<i, sock, result, log, seen, peer, port, listener_vars>>

Unresolved(k) ==
  /\ kind = "none"
  /\ kind' = k
  /\ result' = Err("unresolved")
  /\ UNCHANGED <<addrs, i, sock, last_err, log, seen, peer, port, listener_vars>>

\* mk_sock() on the next address; its failure ends the call.
MkSock ==
  /\ Running /\ ~sock /\ i <= Len(addrs)
  /\ sock' = TRUE
  /\ UNCHANGED <<kind, addrs, i, last_err, result, log, seen, peer, port, listener_vars>>

MkSockFails ==
  /\ Running /\ ~sock /\ i <= Len(addrs)
  /\ result' = Err(Failure("socket", addrs[i]))
  /\ log' = Append(log, Failure("socket", addrs[i]))
  /\ UNCHANGED <<kind, addrs, i, sock, last_err, seen, peer, port, listener_vars>>

\* Mutant: the error of an earlier address is kept.
TryNext_KeepsError(step) ==
  /\ last_err' = IF log = <<>> THEN Failure(step, addrs[i]) ELSE last_err
  /\ log' = Append(log, Failure(step, addrs[i]))
  /\ i' = i + 1
  /\ sock' = FALSE
  /\ UNCHANGED result

\* The socket is dropped and the loop goes on to the next address ...
TryNext(step) ==
  /\ last_err' = Failure(step, addrs[i])
  /\ log' = Append(log, Failure(step, addrs[i]))
  /\ i' = i + 1
  /\ sock' = FALSE
  /\ UNCHANGED result

\* ... or the call returns with the socket.
Return ==
  /\ result' = Ok(addrs[i])
  /\ log' = Append(log, Failure("ok", addrs[i]))
  /\ UNCHANGED <<last_err, i, sock>>

Exhausted ==
  /\ Running /\ i > Len(addrs)
  /\ result' = Err(last_err)
  /\ UNCHANGED <<kind, addrs, i, sock, last_err, log, seen, peer, port, listener_vars>>

\* bind() and listen() on the socket.
BindListen ==
  /\ Running /\ kind = "bind" /\ sock
  /\ \/ \E step \in {"bind", "listen"} : TryNext(step) /\ UNCHANGED listener
     \/ Return /\ listener' = "bound"
  /\ UNCHANGED <<kind, addrs, seen, peer, port, arrived, accepted, cq, ring, finished,
                 handed, overflow, panicked>>

\* SockConnect::poll.
ConnectPending ==
  /\ Running /\ kind = "connect" /\ sock
  /\ Io!Submit(i)
  /\ UNCHANGED <<kind, addrs, i, sock, last_err, result, log, seen, peer, listener_vars>>

ConnectReady ==
  /\ Running /\ kind = "connect" /\ sock
  /\ Io!Take(i)
  /\ IF ans[i][1] >= 0 THEN Return ELSE TryNext("connect")
  /\ UNCHANGED <<kind, addrs, seen, peer, listener_vars>>

\* The future of connect() is dropped at its await.
DropConnect ==
  /\ Running /\ kind = "connect" /\ sock
  /\ fut[i] = "Submitted" /\ Io!Drop(i)
  /\ result' = Err("dropped")
  /\ sock' = FALSE
  /\ UNCHANGED <<kind, addrs, i, last_err, log, seen, peer, listener_vars>>

\* The kernel connects to what it read.
KernelConnect(a) ==
  /\ \/ seen[a] # Garbage /\ Io!Answer(a, 0) /\ peer' = seen[a]
     \/ Io!Answer(a, Refused) /\ UNCHANGED peer
  /\ UNCHANGED <<kind, addrs, i, sock, last_err, result, log, seen, listener_vars>>

-----------------------------------------------------------------------------
(***************************************************************************)
(* TcpListener as a Stream.                                                *)
(***************************************************************************)
Listening == listener \in {"bound", "queued", "armed", "ended"} /\ ~panicked

Arrive ==
  /\ Listening /\ arrived < MaxConns
  /\ arrived' = arrived + 1
  /\ UNCHANGED <<call_vars, listener, accepted, cq, ring, finished, handed, overflow, panicked>>

\* poll_next() queues the accept operation, ...
PollFirst ==
  /\ listener = "bound"
  /\ listener' = "queued"
  /\ UNCHANGED <<call_vars, arrived, accepted, cq, ring, finished, handed, overflow, panicked>>

\* Mutant: the end is reported before what came before it.
PollNext_EndFirst ==
  /\ Listening /\ (ring # <<>> \/ finished)
  /\ IF finished THEN handed' = Append(handed, None) /\ UNCHANGED ring
     ELSE handed' = Append(handed, Head(ring)) /\ ring' = Tail(ring)
  /\ Len(handed) <= MaxConns + 1
  /\ UNCHANGED <<call_vars, listener, arrived, accepted, cq, finished, overflow, panicked>>

\* ... and later returns the oldest result kept, or None after the last.
PollNext ==
  /\ Listening /\ (ring # <<>> \/ finished)
  /\ IF ring # <<>> THEN handed' = Append(handed, Head(ring)) /\ ring' = Tail(ring)
     ELSE handed' = Append(handed, None) /\ UNCHANGED ring
  /\ Len(handed) <= MaxConns + 1
  /\ UNCHANGED <<call_vars, listener, arrived, accepted, cq, finished, overflow, panicked>>

\* Drop: the socket is closed, results that were not polled are forgotten.  The
\* operation is cancelled, which fails if it is not in the kernel.
DropListener ==
  /\ Listening
  /\ listener' = "gone"
  /\ panicked' = (listener \in {"queued", "ended"})
  /\ UNCHANGED <<call_vars, arrived, accepted, cq, ring, finished, handed, overflow>>

KernelAccept ==
  /\ listener = "armed"
  /\ \/ /\ accepted < arrived
        /\ accepted' = accepted + 1 /\ cq' = Append(cq, accepted')
        /\ UNCHANGED listener
     \/ cq' = Append(cq, AcceptError) /\ listener' = "ended" /\ UNCHANGED accepted
  /\ UNCHANGED <<call_vars, arrived, ring, finished, handed, overflow, panicked>>

\* What a ring of RingCap places keeps of s.
Newest(s) == SubSeq(s, 1 + (IF Len(s) > RingCap THEN Len(s) - RingCap ELSE 0), Len(s))

\* react(): entries are submitted, and completions put in the ring.
React ==
  /\ ~panicked
  /\ Io!Queued # {} \/ listener = "queued" \/ cq # <<>>
  /\ Io!Enter
  /\ \E bytes \in Addrs \cup {Garbage} :
       seen' = [a \in Attempts |-> IF op[a] = "queued" THEN bytes ELSE seen[a]]
  /\ listener' = IF listener = "queued" THEN "armed" ELSE listener
  /\ ring' = Newest(ring \o cq)
  /\ overflow' = (overflow \/ Len(ring \o cq) > RingCap)
  /\ finished' = (listener = "ended")
  /\ cq' = <<>>
  /\ UNCHANGED <<kind, addrs, i, sock, last_err, result, log, peer, arrived, accepted,
                 handed, panicked>>

Next ==
  \/ \E k \in {"bind", "connect"} : \/ \E as \in BoundedSeq(Addrs, MaxAddrs) : Call(k, as)
                                    \/ Unresolved(k)
  \/ MkSock \/ MkSockFails \/ BindListen \/ Exhausted
  \/ ConnectPending \/ ConnectReady \/ DropConnect
  \/ \E a \in Attempts : KernelConnect(a)
  \/ Arrive \/ PollFirst \/ PollNext \/ DropListener \/ KernelAccept \/ React

Spec == Init /\ [][Next]_vars

-----------------------------------------------------------------------------
(***************************************************************************)
(* Properties.                                                             *)
(***************************************************************************)
\* "If binding to *all* of the specified addresses fails then the reason for
\* failing to bind to the *last* address is returned" (tcp.rs:80-82; 154-156 for
\* connect()): an error comes after every address was tried, and is the last one's.
AllAddressesTried ==
  addrs # <<>> /\ result # <<>> /\ result # Err("dropped") /\ result[1][1] = "Err" =>
    Len(log) = Len(addrs) /\ result = Err(log[Len(log)])

\* What the loops of bind() and connect() return: the first address that works; or
\* the error of the last one after each in turn has failed to bind, listen or
\* connect; or that of a failing socket(), at once (tcp.rs:91-113, 161-175).
LoopReturns ==
  result # <<>> /\ log # <<>> /\ result # Err("dropped") =>
    LET tried == log[Len(log)]
    IN  /\ \A n \in 1..(Len(log) - 1) : log[n] = Failure(log[n][1], addrs[n])
        /\ \A n \in 1..(Len(log) - 1) : log[n][1] \notin {"ok", "socket"}
        /\ tried[2] = addrs[Len(log)]
        /\ result = IF tried[1] = "ok" THEN Ok(tried[2]) ELSE Err(tried)
        /\ tried[1] \notin {"ok", "socket"} => Len(log) = Len(addrs)

\* While it lives and as long as the ring has not overflowed, a listener hands
\* over every connection the kernel accepted, in order, and says that there are no
\* more only when all have been handed over (tcp.rs:85-86, 119-136).  Accepted
\* connections of a dropped listener are leaked: nobody owns their descriptors.
AcceptedHandedOver ==
  listener # "gone" /\ ~overflow =>
    LET results == handed \o ring \o cq
    IN  /\ accepted <= Len(results)
        /\ \A n \in DOMAIN results :
             IF n <= accepted THEN results[n] = n ELSE results[n] \in {AcceptError, None}
        /\ None \in ToSet(handed) => accepted < Len(handed)

\* "This function will attempt to connect to the specified addresses"
\* (tcp.rs:152): a stream that connect() returns is connected to the address it
\* returns for.
ConnectsToAddress ==
  kind = "connect" /\ result # <<>> /\ result[1][1] = "Ok" => peer = result[1][2]

=============================================================================
