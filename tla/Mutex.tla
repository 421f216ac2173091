------------------------------- MODULE Mutex -------------------------------
(***************************************************************************)
(* Mutex (futures/mutex.rs): an Event whose count is the lock, 1 when it   *)
(* is free.  lock() waits for the event, the guard's drop notifies it.     *)
(*                                                                         *)
(* The waiters are the calls of lock(); each has an Event clone, hence a   *)
(* descriptor, of its own, which is closed when the call returns or is     *)
(* dropped.  What is queued for the kernel is the descriptor's number.     *)
(***************************************************************************)
EXTENDS Integers, FiniteSets, MutexParams

VARIABLES count, waiter, read, notified,
          fd,      \* the descriptor number of each call's Event clone, -1 for none
          guards   \* the calls of lock() whose LockGuard is alive

Evt == INSTANCE Event WITH MaxNotified <- 0

event_vars == <<count, waiter, read, notified>>
vars == <<event_vars, fd, guards>>

TypeOK ==
  /\ Evt!TypeOK
  /\ fd \in [Waiters -> LockFds \cup {-1}]
  /\ guards \in SUBSET Waiters

\* Mutex::new: a new event, notified once.
Init ==
  /\ count = 1
  /\ waiter = [c \in Waiters |-> "new"]
  /\ read = [c \in Waiters |-> "none"]
  /\ notified = 1
  /\ fd = [c \in Waiters |-> -1]
  /\ guards = {}

\* The numbers of the clones that are open.
Open == {fd[c] : c \in {d \in Waiters : waiter[d] = "waiting"}}

\* The first poll of lock(): clones the event, under the lowest number that is free,
\* and waits for it.
Lock(c) ==
  /\ Evt!FirstPoll(c)
  /\ \E n \in LockFds \ Open : /\ \A m \in LockFds \ Open : n <= m
                          /\ fd' = [fd EXCEPT ![c] = n]
  /\ UNCHANGED guards

\* Mutant: lock() does not await the event.
LockReturns_NoWait(c) ==
  /\ waiter[c] = "waiting"
  /\ waiter' = [waiter EXCEPT ![c] = "ready"]
  /\ guards' = guards \cup {c}
  /\ UNCHANGED <<read, count, notified, fd>>

\* lock() returns a guard; its clone is closed.
LockReturns(c) ==
  /\ Evt!PollReady(c)
  /\ guards' = guards \cup {c}
  /\ fd' = [fd EXCEPT ![c] = -1]

\* Mutant: the drop of a guard does not notify.
Unlock_Silent(c) ==
  /\ c \in guards
  /\ guards' = guards \ {c}
  /\ UNCHANGED <<event_vars, fd>>

\* Drop for LockGuard.
Unlock(c) ==
  /\ c \in guards
  /\ Evt!notify_one
  /\ guards' = guards \ {c}
  /\ UNCHANGED fd

\* The future of lock() is dropped while it waits.
DropLock(c) ==
  /\ Evt!Drop(c)
  /\ UNCHANGED <<fd, guards>>

\* Thread t enters react().  The number in the queued read of a dropped call names
\* nothing, and the kernel refuses the read, unless a later lock() got the number.
Submit(t) ==
  /\ Evt!Handover(t, {c \in Evt!Mine(t) : waiter[c] = "dropped" /\ fd[c] \notin Open})
  /\ UNCHANGED <<fd, guards>>

KernelRead(c) == Evt!KernelRead(c) /\ UNCHANGED <<fd, guards>>

\* Every call has returned, been dropped, or waits for a lock nobody will give back.
Quiet ==
  /\ guards = {}
  /\ \A c \in Waiters : /\ waiter[c] # "new" /\ read[c] # "queued"
                        /\ ~(waiter[c] = "waiting" /\ read[c] = "done")
                        /\ ~(count > 0 /\ read[c] = "kernel")
  /\ UNCHANGED vars

Next ==
  \/ \E c \in Waiters : Lock(c) \/ LockReturns(c) \/ Unlock(c) \/ DropLock(c) \/ KernelRead(c)
  \/ \E t \in Threads : Submit(t)
  \/ Quiet

\* As for Event; and a guard is dropped in the end.
Fairness ==
  /\ \A t \in Threads : WF_vars(Submit(t))
  /\ \A c \in Waiters : /\ WF_vars(KernelRead(c)) /\ WF_vars(LockReturns(c))
                        /\ WF_vars(Unlock(c))

Spec == Init /\ [][Next]_vars /\ Fairness

-----------------------------------------------------------------------------
(***************************************************************************)
(* Properties.                                                             *)
(***************************************************************************)
\* Two guards never exist together, over any number of threads and with calls
\* of lock() dropped at any point: LockGuard hands out &mut to the object
\* (mutex.rs:128-132).
MutualExclusion == \A c, d \in guards : c = d

\* The notify_one().unwrap() in the drop of a guard does not fail: the count is
\* never at its limit while the mutex is locked (mutex.rs:136).
UnlockSucceeds == guards # {} => count < MaxCount

\* "Once the mutex is unlocked, the waiting task will be resumed" (mutex.rs:7):
\* a call of lock() does not wait for ever.
LockGranted == \A c \in Waiters : waiter[c] = "waiting" ~> waiter[c] # "waiting"

\* The same as long as no call of lock() is dropped while it waits.
LockGrantedUnlessDropped ==
  \A c \in Waiters :
    waiter[c] = "waiting" ~> (waiter[c] # "waiting" \/ \E d \in Waiters : waiter[d] = "dropped")

=============================================================================
