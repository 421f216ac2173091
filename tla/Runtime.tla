------------------------------ MODULE Runtime ------------------------------
(***************************************************************************)
(* One thread of a trale program: the executor, the reactor and the        *)
(* futures between them.                                                   *)
(*                                                                         *)
(* A task owns the I/O handles its future creates.  While it is polled it  *)
(* submits them, takes their results and drops them; it returns Pending    *)
(* only after a handle it awaits has returned Pending, and Ready once its  *)
(* handles are gone.  With the run queue empty the executor calls          *)
(* Reactor::react, which wakes the task of each completion                 *)
(* (reactor/mod.rs).                                                       *)
(***************************************************************************)
EXTENDS Integers, Sequences, FiniteSets, RuntimeParams

VARIABLES
  run_q, waiting, id, current, pc, phase, notified,
  io, pending, oneshot, multishot, sq, kernel, cq, entered, batch, posted, got,
  panic,
  awaits     \* the handles each task's last poll returned Pending for

E == INSTANCE Executor WITH SelfWakers <- {}
U == INSTANCE Uring WITH Wakers <- Tasks

exec_vars == <<run_q, waiting, id, current, pc, phase, notified>>
uring_vars == <<io, pending, oneshot, multishot, sq, kernel, cq, entered, batch,
                posted, got, panic>>
vars == <<exec_vars, uring_vars, awaits>>

Handles == Oneshots \cup Multishots

TypeOK ==
  /\ E!TypeOK
  /\ U!TypeOK
  /\ awaits \in [Tasks -> SUBSET Handles]

Init ==
  /\ E!Init
  /\ U!Init
  /\ awaits = [t \in Tasks |-> {}]

-----------------------------------------------------------------------------
Alive == panic = "none"

\* Synchronous code and running tasks spawn; synchronous code calls run(), which
\* with nothing spawned would wait in the reactor for ever (task.rs:267-268).
Spawn(t) ==
  /\ Alive
  /\ E!Spawn(t)
  /\ UNCHANGED <<uring_vars, awaits>>

Run ==
  /\ run_q # <<>>
  /\ E!Run
  /\ UNCHANGED <<uring_vars, awaits>>

PopTask ==
  /\ E!PopTask
  /\ UNCHANGED <<uring_vars, awaits>>

PopPanics ==
  /\ E!PopPanics
  /\ UNCHANGED <<uring_vars, awaits>>

\* What the future of the current task does with its handle h.
Polled(h) == pc = "poll" /\ Owner[h] = current

PollOneshot(h) ==
  /\ Polled(h)
  /\ U!OneshotSubmit(h, current) \/ U!OneshotReady(h)
  /\ UNCHANGED <<exec_vars, awaits>>

PollMultishot(h) ==
  /\ Polled(h)
  /\ U!MultiSubmit(h, current) \/ U!MultiReady(h)
  /\ UNCHANGED <<exec_vars, awaits>>

PollPanics(h) ==
  /\ Polled(h)
  /\ U!SubmitPanics(h)
  /\ UNCHANGED <<exec_vars, awaits>>

\* A handle whose result has been taken is dropped.
DropFinished(h) ==
  /\ Polled(h)
  /\ io[h].st = "Finished"
  /\ U!DropQuiet(h)
  /\ UNCHANGED <<exec_vars, awaits>>

\* A handle whose operation is in flight, or answered and not looked at, is dropped.
DropOneshot(h) ==
  /\ Cancels
  /\ Polled(h)
  /\ U!OneshotDrop(h)
  /\ UNCHANGED <<exec_vars, awaits>>

DropMultishot(h) ==
  /\ Cancels
  /\ Polled(h)
  /\ U!MultiDrop(h) \/ U!MultiDropPanics(h)
  /\ UNCHANGED <<exec_vars, awaits>>

\* submit_or_get_result on h would return Ready.
HasResult(h) ==
  /\ io[h].st = "Submitted"
  /\ IF h \in Oneshots
     THEN oneshot[io[h].slot].st = "Set"
     ELSE multishot[io[h].slot].results # <<>> \/ multishot[io[h].slot].finished

\* poll() returns Pending: the future awaits handles that returned Pending.
PollPending ==
  /\ Alive
  /\ E!PollPending
  /\ \E A \in SUBSET {h \in Handles : /\ Owner[h] = current
                                     /\ io[h].st = "Submitted"
                                     /\ ~HasResult(h)} :
       A # {} /\ awaits' = [awaits EXCEPT ![current] = A]
  /\ UNCHANGED uring_vars

\* poll() returns Ready: the handles of the future are gone with it.
HandlesGone == \A h \in Handles : Owner[h] = current => io[h].st \in {"New", "Gone"}

PollReady ==
  /\ Alive
  /\ E!PollReady
  /\ HandlesGone
  /\ UNCHANGED <<uring_vars, awaits>>

-----------------------------------------------------------------------------
(***************************************************************************)
(* Reactor::react.                                                         *)
(***************************************************************************)
React ==
  /\ E!React
  /\ U!SubmitAndWait
  /\ UNCHANGED awaits

Completion ==
  /\ U!Completion
  /\ UNCHANGED <<exec_vars, awaits>>

\* Mutant: only the last completion of a batch wakes its task.
WakeNext_OnlyLast ==
  /\ U!NextOneshot \/ U!NextMulti
  /\ IF batch = 1 THEN E!Wake(U!Yielded) ELSE UNCHANGED exec_vars
  /\ UNCHANGED awaits

\* The body of `for waker in r.react()`: take a completion, wake its task.
WakeNext ==
  /\ U!NextOneshot \/ U!NextMulti
  /\ E!Wake(U!Yielded)
  /\ UNCHANGED awaits

ReactReturns ==
  /\ ~entered /\ batch = 0
  /\ E!ReactReturns
  /\ UNCHANGED <<uring_vars, awaits>>

KernelAnswers(op, v) ==
  /\ U!KernelFinish(op, v) \/ U!KernelShot(op, v)
  /\ UNCHANGED <<exec_vars, awaits>>

Kernel == \E op \in kernel, v \in Results : KernelAnswers(op, v)

\* The program is over: every task has run, or a panic ended the thread.
Over ==
  /\ ~Alive \/ pc = "panicked" \/ (pc = "sync" /\ \A t \in Tasks : phase[t] = "done")
  /\ UNCHANGED vars

Thread ==
  \/ PopTask \/ PopPanics \/ PollPending \/ PollReady
  \/ \E h \in Oneshots : PollOneshot(h) \/ DropOneshot(h)
  \/ \E h \in Multishots : PollMultishot(h) \/ DropMultishot(h)
  \/ \E h \in Handles : PollPanics(h) \/ DropFinished(h)
  \/ React \/ Completion \/ WakeNext \/ ReactReturns

Next ==
  \/ \E t \in Tasks : Spawn(t)
  \/ Run
  \/ Thread
  \/ Kernel
  \/ Over

Spec == Init /\ [][Next]_vars

-----------------------------------------------------------------------------
(***************************************************************************)
(* Properties.                                                             *)
(***************************************************************************)
\* No task sleeps on a result that is there: each handle a waiting task awaits
\* has an operation that is still to complete, and so to wake it.  Submission,
\* completion, the result stores and TaskId::wake all have a part in this.
NoStrandedTask ==
  \A t \in Tasks :
    E!Waits(t) => \A h \in awaits[t] : ~HasResult(h) /\ U!Outstanding(h)

\* When react() returns, a task it woke is on the run queue: executor_loop pops
\* it with unwrap() (task.rs:267-271).  README.md:125-127: "all I/O events that
\* have completed have their corresponding `Waker`s called which places the task
\* on the runqueue".
ReactFillsRunQueue == pc = "pop" => run_q # <<>>

=============================================================================
