------------------------------- MODULE Event -------------------------------
(***************************************************************************)
(* Event and EventWaiter (futures/event.rs): an eventfd semaphore shared   *)
(* by the tasks of several threads.                                        *)
(*                                                                         *)
(* A waiter is one EventWaiter.  Its first poll puts a read of the eventfd *)
(* in its thread's submission queue and returns Pending; the thread's next *)
(* react() hands it to the kernel, which completes it when the count is    *)
(* positive.  Dropping the waiter does not cancel the read.                *)
(*                                                                         *)
(* The reactor appears as what modules Uring and Runtime show of it: a     *)
(* oneshot gets the answer to its own operation, and its task is polled    *)
(* again once the answer is there.                                         *)
(***************************************************************************)
EXTENDS Naturals, FiniteSets, EventParams

CONSTANT MaxNotified  \* bound: successful calls of notify_one

VARIABLES
  count,     \* of the eventfd
  waiter,    \* "new", "waiting" (polled), "ready" (polled Ready) or "dropped"
  read,      \* the waiter's read: "none", "queued", "kernel", "done" or "failed"
  notified   \* history: successful calls of notify_one

event_vars == <<count, waiter, read, notified>>

TypeOK ==
  /\ count \in 0..MaxCount
  /\ waiter \in [Waiters -> {"new", "waiting", "ready", "dropped"}]
  /\ read \in [Waiters -> {"none", "queued", "kernel", "done", "failed"}]
  /\ notified \in Nat

\* Event::new: the eventfd starts at 0.
Init ==
  /\ count = 0
  /\ waiter = [w \in Waiters |-> "new"]
  /\ read = [w \in Waiters |-> "none"]
  /\ notified = 0

-----------------------------------------------------------------------------
\* Mutant: notifying sets the event instead of counting.
notify_one_Latches ==
  /\ count' = 1
  /\ notified' = notified + 1
  /\ UNCHANGED <<waiter, read>>

\* Mutant: the failed write at MaxCount is taken for a success.
notify_one_Unchecked ==
  /\ count' = count + 1
  /\ notified' = notified + 1
  /\ UNCHANGED <<waiter, read>>

\* notify_one, by any task or thread; at MaxCount the write fails with EAGAIN,
\* which the caller gets as an Err.
notify_one ==
  /\ count < MaxCount
  /\ count' = count + 1
  /\ notified' = notified + 1
  /\ UNCHANGED <<waiter, read>>

Notify == notified < MaxNotified /\ notify_one

\* Mutant: the waiter returns Pending without having queued its read.
FirstPoll_Forgets(w) ==
  /\ waiter[w] = "new"
  /\ waiter' = [waiter EXCEPT ![w] = "waiting"]
  /\ UNCHANGED <<read, count, notified>>

\* EventWaiter::poll on a new handle: submits the read and returns Pending,
\* whatever the count.
FirstPoll(w) ==
  /\ waiter[w] = "new"
  /\ waiter' = [waiter EXCEPT ![w] = "waiting"]
  /\ read' = [read EXCEPT ![w] = "queued"]
  /\ UNCHANGED <<count, notified>>

\* The reads thread t has in its submission queue.
Mine(t) == {w \in Waiters : ThreadOf[w] = t /\ read[w] = "queued"}

\* Thread t enters react(): its queued reads go to the kernel, which refuses
\* those in `failing`.
Handover(t, failing) ==
  /\ Mine(t) # {}
  /\ read' = [w \in Waiters |-> CASE w \in failing -> "failed"
                                [] w \in Mine(t) \ failing -> "kernel"
                                [] OTHER -> read[w]]
  /\ UNCHANGED <<count, waiter, notified>>

\* The read of a dropped waiter is refused if the descriptor was closed with it,
\* and accepted if the Event, or a clone of it under the same number, is open.
Submit(t) ==
  \E failing \in SUBSET {w \in Mine(t) : waiter[w] = "dropped"} : Handover(t, failing)

\* The kernel completes a read: with EFD_SEMAPHORE it takes one from the count.
KernelRead(w) ==
  /\ read[w] = "kernel"
  /\ count > 0
  /\ count' = count - 1
  /\ read' = [read EXCEPT ![w] = "done"]
  /\ UNCHANGED <<waiter, notified>>

\* EventWaiter::poll with the answer there.
PollReady(w) ==
  /\ waiter[w] = "waiting"
  /\ read[w] = "done"
  /\ waiter' = [waiter EXCEPT ![w] = "ready"]
  /\ UNCHANGED <<read, count, notified>>

\* The waiter is dropped before it is Ready: the read is left alone.
Drop(w) ==
  /\ Drops
  /\ waiter[w] = "waiting"
  /\ waiter' = [waiter EXCEPT ![w] = "dropped"]
  /\ UNCHANGED <<read, count, notified>>

Next ==
  \/ Notify
  \/ \E w \in Waiters : FirstPoll(w) \/ KernelRead(w) \/ PollReady(w) \/ Drop(w)
  \/ \E t \in Threads : Submit(t)

\* No waiter of the thread was dropped with its read in flight: the completion of
\* such a read can end the thread (Runtime's ReactFillsRunQueue).
Undisturbed(t) == \A w \in Waiters : ThreadOf[w] = t => waiter[w] # "dropped"

\* An undisturbed thread with a task pending comes to react() and polls a task
\* whose answer is there; the kernel completes a read that can complete.
Fairness ==
  /\ \A t \in Threads : WF_event_vars(Undisturbed(t) /\ Submit(t))
  /\ \A w \in Waiters : /\ WF_event_vars(KernelRead(w))
                        /\ WF_event_vars(Undisturbed(ThreadOf[w]) /\ PollReady(w))

Spec == Init /\ [][Next]_event_vars /\ Fairness

-----------------------------------------------------------------------------
(***************************************************************************)
(* Properties.                                                             *)
(***************************************************************************)
\* "Events can also act as a semaphore" (event.rs:34): however notifications
\* from several threads and reads interleave, each notification is in the count
\* or was taken by one read, a dropped waiter's included.
NotificationsConserved == notified = count + Cardinality({w \in Waiters : read[w] = "done"})

\* With as many notifications as there are waiters, none of them waits for ever,
\* whatever the order (the multi_notifiers test) and whatever other threads drop
\* with a read in flight; on its own thread such a drop may cost it its wake.
EnoughNotifications ==
  \A w \in Waiters :
    (waiter[w] = "waiting" /\ notified >= Cardinality(Waiters)) ~>
      (waiter[w] # "waiting" \/ ~Undisturbed(ThreadOf[w]))

=============================================================================
