---------------------------- MODULE EventProofs ----------------------------
(***************************************************************************)
(* Proofs about Event, for any waiters on any threads and any bounds: the  *)
(* count keeps to its limit, and no notification is lost or taken twice.   *)
(***************************************************************************)
EXTENDS Event, FiniteSetTheorems, TLAPS

\* The waiters whose read took a notification.
Took == {w \in Waiters : read[w] = "done"}

\* Only a poll queues a read.
NewUnread == \A w \in Waiters : waiter[w] = "new" => read[w] = "none"

\* Took starts empty and grows by one waiter at a time, so it can be counted
\* although there may be infinitely many waiters.
IInv ==
  /\ TypeOK
  /\ NewUnread
  /\ IsFiniteSet(Took)
  /\ notified = count + Cardinality(Took)

-----------------------------------------------------------------------------
\* Steps that leave the count and the completed reads alone.
LEMMA QuietIInv ==
  ASSUME IInv, UNCHANGED <<count, notified>>, TypeOK', NewUnread',
         \A w \in Waiters : read'[w] = "done" <=> read[w] = "done"
  PROVE  IInv'
<1>1. Took' = Took
  BY DEF Took
<1> QED
  BY <1>1 DEF IInv

\* A notification is counted, or the write fails and nothing happens.
LEMMA NotifyIInv == ASSUME IInv, notify_one PROVE IInv'
<1>1. Took' = Took
  BY DEF Took, notify_one
<1>2. TypeOK' /\ NewUnread'
  BY CountAssumption DEF IInv, TypeOK, NewUnread, notify_one
<1>3. Cardinality(Took) \in Nat
  BY FS_CardinalityType DEF IInv
<1> QED
  BY <1>1, <1>2, <1>3, CountAssumption DEF IInv, TypeOK, notify_one

\* A read takes one from the count and its waiter joins those that took one.
LEMMA KernelReadIInv == ASSUME IInv, NEW w \in Waiters, KernelRead(w) PROVE IInv'
<1>1. TypeOK' /\ NewUnread'
  BY CountAssumption DEF IInv, TypeOK, NewUnread, KernelRead
<1>2. w \notin Took /\ Took' = Took \cup {w}
  BY DEF IInv, TypeOK, KernelRead, Took
<1>3. Cardinality(Took) \in Nat
  BY FS_CardinalityType DEF IInv
<1>4. IsFiniteSet(Took \cup {w}) /\ Cardinality(Took \cup {w}) = Cardinality(Took) + 1
  BY <1>2, FS_AddElement DEF IInv
<1>5. notified' = count' + Cardinality(Took')
  BY <1>2, <1>3, <1>4, CountAssumption DEF IInv, TypeOK, KernelRead
<1> QED
  BY <1>1, <1>2, <1>4, <1>5 DEF IInv

\* Handing a thread's queued reads to the kernel completes none of them.
LEMMA SubmitIInv == ASSUME IInv, NEW t \in Threads, Submit(t) PROVE IInv'
<1>1. PICK failing \in SUBSET Mine(t) : Handover(t, failing)
  BY DEF Submit
<1>2. /\ UNCHANGED <<count, waiter, notified>>
      /\ read' = [w \in Waiters |-> CASE w \in failing -> "failed"
                                     [] w \in Mine(t) \ failing -> "kernel"
                                     [] OTHER -> read[w]]
  BY <1>1 DEF Handover
<1>3. \A w \in Waiters : read'[w] = IF w \in failing THEN "failed"
                                    ELSE IF w \in Mine(t) THEN "kernel" ELSE read[w]
  BY <1>2
<1>4. read' \in [Waiters -> {"none", "queued", "kernel", "done", "failed"}]
  <2>1. \A w \in Waiters : read'[w] \in {"none", "queued", "kernel", "done", "failed"}
    BY <1>3 DEF IInv, TypeOK
  <2>2. DOMAIN read' = Waiters /\ read' = [w \in DOMAIN read' |-> read'[w]]
    BY <1>2
  <2> QED
    BY <2>1, <2>2
<1>5. TypeOK' /\ NewUnread'
  BY <1>2, <1>3, <1>4 DEF IInv, TypeOK, NewUnread, Mine
<1>6. \A w \in Waiters : read'[w] = "done" <=> read[w] = "done"
  BY <1>3 DEF Mine
<1> QED
  BY <1>2, <1>5, <1>6, QuietIInv

\* Polling and dropping a waiter completes no read.
LEMMA PollIInv ==
  ASSUME IInv, NEW w \in Waiters, FirstPoll(w) \/ PollReady(w) \/ Drop(w)
  PROVE  IInv'
<1>1. TypeOK' /\ NewUnread' /\ UNCHANGED <<count, notified>>
  BY DEF IInv, TypeOK, NewUnread, FirstPoll, PollReady, Drop
<1>2. \A v \in Waiters : read'[v] = "done" <=> read[v] = "done"
  BY DEF IInv, TypeOK, NewUnread, FirstPoll, PollReady, Drop
<1> QED
  BY <1>1, <1>2, QuietIInv

\* IInv is an invariant of the event.
THEOREM Invariance == Spec => []IInv
<1>1. Init => IInv
  <2>1. Init => Took = {}
    BY DEF Init, Took
  <2> QED
    BY <2>1, FS_EmptySet, CountAssumption DEF Init, IInv, TypeOK, NewUnread
<1>2. ASSUME IInv, [Next]_event_vars PROVE IInv'
  <2>1. CASE UNCHANGED event_vars
    BY <1>2, <2>1, QuietIInv DEF IInv, TypeOK, NewUnread, event_vars
  <2> QED
    BY <1>2, <2>1, NotifyIInv, KernelReadIInv, PollIInv, SubmitIInv DEF Next, Notify
<1> QED
  BY <1>1, <1>2, PTL DEF Spec

\* The state of the event keeps its types; the count never exceeds its limit.
THEOREM TypeCorrect == Spec => []TypeOK
  BY Invariance, PTL DEF IInv

\* Each notification is in the count or was taken by exactly one read, for any
\* number of waiters, dropped or not, and whatever the limit (event.rs:34).
THEOREM NotificationsAlwaysConserved == Spec => []NotificationsConserved
<1>1. IInv => NotificationsConserved
  BY DEF IInv, NotificationsConserved, Took
<1> QED
  BY <1>1, Invariance, PTL
=============================================================================
