------------------------------- MODULE Timer -------------------------------
(***************************************************************************)
(* Timer (futures/timer.rs).  sleep(d) fixes a deadline on the wall clock  *)
(* (SystemTime); the first poll arms a timerfd, which runs on              *)
(* CLOCK_MONOTONIC, with the time left and reads it through the reactor.   *)
(*                                                                         *)
(* A first poll reads the wall clock twice, to test the deadline and to    *)
(* compute the time left, and time goes on in between.  The wall clock may *)
(* be set at any time; the monotonic one only advances.                    *)
(*                                                                         *)
(* The read that is queued names the timerfd by its number, which is free  *)
(* for another timer once the future has ended: react() may hand the       *)
(* kernel a read of a stranger.                                            *)
(*                                                                         *)
(* Time is counted in units of the clocks' resolution.                     *)
(***************************************************************************)
EXTENDS Integers, Sequences

CONSTANTS
  Timers,
  Durations,  \* arguments of sleep()
  TimerFds,   \* the descriptor numbers other files leave free
  Steps,      \* amounts by which the wall clock is set forward or back
  MaxStart,   \* bound: first polls and settings of the wall clock come by then
  MaxTime,    \* bound: readings of the monotonic clock
  MaxSteps    \* bound: times the wall clock is set

ASSUME TimeAssumption ==
  /\ Durations \subseteq Nat
  /\ TimerFds \subseteq Nat
  /\ Steps \subseteq Int
  /\ MaxStart \in Nat /\ MaxTime \in Nat /\ MaxSteps \in Nat
  /\ MaxStart <= MaxTime

VARIABLES
  mono,        \* CLOCK_MONOTONIC
  skew,        \* wall clock minus mono
  steps,       \* history: how often the wall clock was set
  timer,       \* per timer: "none", "new", "arming", "waiting", "ready", "gone"
  expiration,  \* Timer::expiration, on the wall clock
  fd,          \* the number of the timerfd, -1 before sleep()
  fire,        \* when the timerfd expires, on the monotonic clock, Never or Spent
  target,      \* the timer whose timerfd the submitted read is of, if any
  slept,       \* history: duration, mono and steps at the call of sleep()
  abandoned,   \* history: a future has ended with its completion not reaped
  panicked,    \* the unwrap() of duration_since has failed
  fut, op, ans, out   \* Timer::io

port == <<fut, op, ans, out>>
vars == <<mono, skew, steps, timer, expiration, fd, fire, target, slept, abandoned, panicked,
          port>>

EBADF == -9
Io == INSTANCE IoPort WITH Handles <- Timers, Answers <- {8, EBADF}

Never == -1   \* not armed
Spent == -2   \* expired and read
wall == mono + skew

TypeOK ==
  /\ Io!TypeOK
  /\ mono \in 0..MaxTime /\ skew \in Int /\ steps \in 0..MaxSteps
  /\ timer \in [Timers -> {"none", "new", "arming", "waiting", "ready", "gone"}]
  /\ expiration \in [Timers -> Int]
  /\ fd \in [Timers -> TimerFds \cup {-1}]
  /\ fire \in [Timers -> Nat \cup {Never, Spent}]
  /\ target \in [Timers -> SUBSET Timers]
  /\ slept \in [Timers -> [d : Nat, at : Nat, steps : Nat]]
  /\ abandoned \in BOOLEAN
  /\ panicked \in BOOLEAN

Init ==
  /\ mono = 0 /\ skew = 0 /\ steps = 0
  /\ timer = [t \in Timers |-> "none"]
  /\ expiration = [t \in Timers |-> 0]
  /\ fd = [t \in Timers |-> -1]
  /\ fire = [t \in Timers |-> Never]
  /\ target = [t \in Timers |-> {}]
  /\ slept = [t \in Timers |-> [d |-> 0, at |-> 0, steps |-> 0]]
  /\ abandoned = FALSE
  /\ panicked = FALSE
  /\ Io!Init

-----------------------------------------------------------------------------
\* The thread is between polls.
Between == ~panicked /\ \A t \in Timers : timer[t] # "arming"

\* The timer whose timerfd is open under number n, if any.  An ended future is
\* dropped and its timerfd closed.
Under(n) == {t \in Timers : timer[t] \in {"new", "arming", "waiting"} /\ fd[t] = n}

\* Timer::sleep; timerfd_create gives the lowest number that is free.
sleep(t, d) ==
  /\ Between
  /\ timer[t] = "none" /\ mono <= MaxStart
  /\ timer' = [timer EXCEPT ![t] = "new"]
  /\ expiration' = [expiration EXCEPT ![t] = wall + d]
  /\ slept' = [slept EXCEPT ![t] = [d |-> d, at |-> mono, steps |-> steps]]
  /\ LET free == {n \in TimerFds : Under(n) = {}}
     IN  \E n \in free : (\A m \in free : n <= m) /\ fd' = [fd EXCEPT ![t] = n]
  /\ UNCHANGED <<mono, skew, steps, fire, target, abandoned, panicked, port>>

\* Mutant: a deadline that is reached counts as passed before it is.
PollExpired_Early(t) ==
  /\ Between
  /\ timer[t] \in {"new", "waiting"}
  /\ wall >= expiration[t] - 1
  /\ timer' = [timer EXCEPT ![t] = "ready"]
  /\ UNCHANGED <<mono, skew, steps, expiration, fd, fire, target, slept, abandoned, panicked,
                 port>>

\* poll() after the deadline is Ready whatever the handle's state; a read that is
\* not answered, or whose answer is not reaped, is left behind.
PollExpired(t) ==
  /\ Between
  /\ timer[t] \in {"new", "waiting"}
  /\ wall > expiration[t]
  /\ timer' = [timer EXCEPT ![t] = "ready"]
  /\ \/ (timer[t] = "new" \/ op[t] = "done") /\ UNCHANGED abandoned
     \/ timer[t] = "waiting" /\ abandoned' = TRUE
  /\ UNCHANGED <<mono, skew, steps, expiration, fd, fire, target, slept, panicked, port>>

\* The first poll has found the deadline not passed ...
PollNew(t) ==
  /\ Between
  /\ timer[t] = "new"
  /\ wall <= expiration[t]
  /\ timer' = [timer EXCEPT ![t] = "arming"]
  /\ UNCHANGED <<mono, skew, steps, expiration, fd, fire, target, slept, abandoned, panicked,
                 port>>

\* Mutant: the timerfd is armed and no read of it is queued.
Arm_NoRead(t) ==
  /\ timer[t] = "arming" /\ ~panicked
  /\ wall <= expiration[t]
  /\ fire' = [fire EXCEPT ![t] = IF wall = expiration[t] THEN Never
                                 ELSE mono + (expiration[t] - wall)]
  /\ timer' = [timer EXCEPT ![t] = "waiting"]
  /\ UNCHANGED <<mono, skew, steps, expiration, fd, target, slept, abandoned, panicked, port>>

\* ... and reads the clock again for the time left.  timerfd_settime with a time
\* of zero disarms the timerfd.
Arm(t) ==
  /\ timer[t] = "arming" /\ ~panicked
  /\ wall <= expiration[t]
  /\ fire' = [fire EXCEPT ![t] = IF wall = expiration[t] THEN Never
                                 ELSE mono + (expiration[t] - wall)]
  /\ timer' = [timer EXCEPT ![t] = "waiting"]
  /\ Io!Submit(t)
  /\ UNCHANGED <<mono, skew, steps, expiration, fd, target, slept, abandoned, panicked>>

\* duration_since fails when the second reading is past the deadline.
ArmPanics(t) ==
  /\ timer[t] = "arming" /\ ~panicked
  /\ wall > expiration[t]
  /\ panicked' = TRUE
  /\ UNCHANGED <<mono, skew, steps, timer, expiration, fd, fire, target, slept, abandoned, port>>

\* A later poll: the result of the read is ignored.  The task is polled when the
\* read completes, and whenever something else wakes it.
PollWaiting(t) ==
  /\ Between
  /\ timer[t] = "waiting"
  /\ wall <= expiration[t]
  /\ Io!Take(t)
  /\ timer' = [timer EXCEPT ![t] = "ready"]
  /\ UNCHANGED <<mono, skew, steps, expiration, fd, fire, target, slept, abandoned, panicked>>

\* The future is dropped; its timerfd is closed with it.
Drop(t) ==
  /\ Between
  /\ timer[t] \in {"new", "waiting"}
  /\ timer' = [timer EXCEPT ![t] = "gone"]
  /\ Io!Drop(t)
  /\ abandoned' = (abandoned \/ timer[t] = "waiting")
  /\ UNCHANGED <<mono, skew, steps, expiration, fd, fire, target, slept, panicked>>

\* The executor has nothing to run and reacts: the kernel looks up the numbers in
\* the queued reads.
React ==
  /\ Between
  /\ Io!Queued # {}
  /\ Io!Enter
  /\ target' = [t \in Timers |-> IF op[t] = "queued" THEN Under(fd[t]) ELSE target[t]]
  /\ UNCHANGED <<mono, skew, steps, timer, expiration, fd, fire, slept, abandoned, panicked>>

\* The kernel completes a read of an expired timerfd, which takes the expiration, or
\* one whose number named nothing.
KernelRead(t) ==
  /\ \/ \E u \in target[t] : /\ fire[u] >= 0 /\ mono >= fire[u]
                             /\ Io!Answer(t, 8)
                             /\ fire' = [fire EXCEPT ![u] = Spent]
     \/ target[t] = {} /\ Io!Answer(t, EBADF) /\ UNCHANGED fire
  /\ UNCHANGED <<mono, skew, steps, timer, expiration, fd, target, slept, abandoned, panicked>>

\* Time is counted from the first sleep().
Tick ==
  /\ \E t \in Timers : timer[t] # "none"
  /\ \/ mono < MaxStart
     \/ mono < MaxTime /\ \A t \in Timers : timer[t] \notin {"new", "arming"}
  /\ mono' = mono + 1
  /\ UNCHANGED <<skew, steps, timer, expiration, fd, fire, target, slept, abandoned, panicked,
                 port>>

\* The wall clock is set.
SetClock(n) ==
  /\ steps < MaxSteps /\ mono <= MaxStart
  /\ skew' = skew + n
  /\ steps' = steps + 1
  /\ UNCHANGED <<mono, timer, expiration, fd, fire, target, slept, abandoned, panicked, port>>

Next ==
  \/ \E t \in Timers : \/ \E d \in Durations : sleep(t, d)
                       \/ PollExpired(t) \/ PollNew(t) \/ PollWaiting(t) \/ Drop(t)
                       \/ Arm(t) \/ ArmPanics(t) \/ KernelRead(t)
  \/ React \/ Tick
  \/ \E n \in Steps : SetClock(n)

\* The thread runs, time passes, expired timerfds are read, and a task whose
\* read is answered is polled.
Fairness ==
  /\ WF_vars(React) /\ WF_vars(Tick)
  /\ \A t \in Timers :
       /\ WF_vars(PollNew(t) \/ (timer[t] = "new" /\ PollExpired(t)))
       /\ WF_vars(Arm(t) \/ ArmPanics(t))
       /\ WF_vars(KernelRead(t))
       /\ WF_vars(PollWaiting(t) \/ (op[t] = "done" /\ PollExpired(t)))

Spec == Init /\ [][Next]_vars /\ Fairness

-----------------------------------------------------------------------------
(***************************************************************************)
(* Properties.                                                             *)
(***************************************************************************)
\* "It is guaranteed that the task will be suspended for *at least* the
\* specified duration" (timer.rs:59-61), on either way out of poll() and however
\* the polls fall, as long as nobody sets the wall clock.
AtLeastDuration ==
  \A t \in Timers :
    timer[t] = "ready" /\ slept[t].steps = steps => mono - slept[t].at >= slept[t].d

\* "will suspend the execution of the current task until the specified duration has
\* elapsed.  At that point the runtime will queue the task for execution"
\* (timer.rs:57-59): every sleep that is not dropped ends.
SleepEnds == \A t \in Timers : timer[t] = "new" ~> timer[t] \in {"ready", "gone"}

\* The second reading of the clock in a first poll fell on the deadline, which
\* disarms the timerfd, or after it, which panics (timer.rs:84-97).
PolledLate(t) == panicked \/ (timer[t] = "waiting" /\ fire[t] = Never)

\* The same for a first poll that is in time, as long as no future ends with its
\* read in flight, wherever the wall clock is set and however the polls fall.
SleepEndsUnlessAbandoned ==
  \A t \in Timers :
    timer[t] = "new" ~> timer[t] \in {"ready", "gone"} \/ PolledLate(t) \/ abandoned

=============================================================================
