------------------------------ MODULE MCWaits -------------------------------
(***************************************************************************)
(* Instances of Mutex, Event and Timer for TLC: what a task may wait for.  *)
(* These share no state: each behaviour is one of one of them, named by    *)
(* `part`.  No action with fairness is enabled where the other two start.  *)
(***************************************************************************)
EXTENDS Mutex, TLC

CONSTANTS
  c1, c2, c3, th1, th2,
  MaxNotified,                                                          \* Event
  Timers, Durations, TimerFds, Steps, MaxStart, MaxTime, MaxSteps       \* Timer

VARIABLES
  part,
  e_count, e_waiter, e_read, e_notified,
  mono, skew, steps, timer, expiration, t_fd, fire, target, slept, abandoned, panicked,
  fut, op, ans, out

ThreadOfCall == (c1 :> th1) @@ (c2 :> th1) @@ (c3 :> th2)

\* The wall clock is set forward or back.
ForwardAndBack == {2, -2}

\* The event of a mutex counts to one, another to its number of waiters.
E == INSTANCE Event WITH
       MaxCount <- Cardinality(Waiters),
       count <- e_count, waiter <- e_waiter, read <- e_read, notified <- e_notified
T == INSTANCE Timer WITH fd <- t_fd

e_vars == <<e_count, e_waiter, e_read, e_notified>>
timer_vars == <<mono, skew, steps, timer, expiration, t_fd, fire, target, slept, abandoned,
                panicked, fut, op, ans, out>>
all_vars == <<part, vars, e_vars, timer_vars>>

MCInit == part \in {"mutex", "event", "timer"} /\ Init /\ E!Init /\ T!Init

MutexNext == part = "mutex" /\ Next /\ UNCHANGED <<part, e_vars, timer_vars>>
EventNext == part = "event" /\ E!Next /\ UNCHANGED <<part, vars, timer_vars>>
TimerNext == part = "timer" /\ T!Next /\ UNCHANGED <<part, vars, e_vars>>

MCNext == MutexNext \/ EventNext \/ TimerNext

MCSpec ==
  MCInit /\ [][MCNext]_all_vars /\ Fairness /\ E!Fairness /\ T!Fairness

-----------------------------------------------------------------------------
\* The types of event and mutex.
TypesOK == TypeOK /\ E!TypeOK

\* Events: each notification is in the count or was taken by one read
\* (event.rs:34).
NotificationsConserved == E!NotificationsConserved

\* Events: as many notifications as waiters leave none waiting on a thread that
\* dropped none of its own (the multi_notifiers test).
EnoughNotifications == E!EnoughNotifications

\* Timers: a sleep that is polled in time ends as long as no future ends with its
\* read unreaped (timer.rs:57-59).
SleepEndsUnlessAbandoned == T!SleepEndsUnlessAbandoned
=============================================================================
