-------------------------------- MODULE Join --------------------------------
(***************************************************************************)
(* TaskJoiner and block_on (task.rs): how a task's value reaches whoever   *)
(* joins it.                                                               *)
(*                                                                         *)
(* spawn() wraps the future: when it is ready the wrapper notifies an      *)
(* Event and sends the value into a channel of one place.  Awaiting the    *)
(* joiner reads the event through the reactor and then calls recv(), which *)
(* would block the whole thread if the value were not there; join() calls  *)
(* recv() alone.  The joiner holds a reactor handle and stays on its       *)
(* thread.                                                                 *)
(*                                                                         *)
(* On module Runtime, with oneshot handles only and a submission queue     *)
(* that is large enough.                                                   *)
(***************************************************************************)
EXTENDS Integers, Sequences, FiniteSets

CONSTANTS
  Tasks, NoTask, TaskKeys, FirstKey, Oneshots, Multishots, Keys, Results,
  SqEntries, RingCap, MaxShots, Owner, Cancels,   \* Runtime
  Joins   \* the task that each joiner held by a task is about

VARIABLES
  run_q, waiting, id, current, pc, phase, notified,
  io, pending, oneshot, multishot, sq, kernel, cq, entered, batch, posted, got,
  panic, awaits,
  wrapper,  \* spawn's wrapper of each task: "await", "send", "end"
  count,    \* the eventfd that the wrapper and the joiner share
  chan,     \* the channel: "empty", "full", "taken", or "closed" (no receiver)
  blocked   \* the thread sits in recv() and the sender is on this thread

R == INSTANCE Runtime

exec_vars == <<run_q, waiting, id, current, pc, phase, notified>>
runtime_vars == <<exec_vars, io, pending, oneshot, multishot, sq, kernel, cq, entered,
                  batch, posted, got, panic, awaits>>
join_vars == <<wrapper, count, chan, blocked>>
vars == <<runtime_vars, join_vars>>

Joiners == DOMAIN Joins

\* read() of an eventfd returns the size of its counter.
EightBytes == 8

\* What Runtime assumes.
ASSUME RuntimeAssumption ==
  /\ NoTask \notin Tasks /\ FirstKey \in TaskKeys
  /\ Oneshots \cap Multishots = {}
  /\ Results \subseteq Int
  /\ SqEntries \in Nat /\ RingCap \in Nat \ {0} /\ MaxShots \in Nat
  /\ Owner \in [Oneshots \cup Multishots -> Tasks]
  /\ Cancels \in BOOLEAN

\* A TaskJoiner cannot be cloned: a task has one at most.
ASSUME JoinsAssumption ==
  /\ Joiners \subseteq Oneshots /\ Joins \in [Joiners -> Tasks]
  /\ \A g, h \in Joiners : Joins[g] = Joins[h] => g = h
  /\ EightBytes \in Results

TypeOK ==
  /\ R!TypeOK
  /\ wrapper \in [Tasks -> {"await", "send", "end"}]
  /\ count \in [Tasks -> 0..1]
  /\ chan \in [Tasks -> {"empty", "full", "taken", "closed"}]
  /\ blocked \in BOOLEAN

Init ==
  /\ R!Init
  /\ wrapper = [t \in Tasks |-> "await"]
  /\ count = [t \in Tasks |-> 0]
  /\ chan = [t \in Tasks |-> "empty"]
  /\ blocked = FALSE

-----------------------------------------------------------------------------
\* A step of the thread that is not about joining.
Untouched == ~blocked /\ UNCHANGED join_vars

\* The thread polls a task and its wrapper is at s.
At(s) == ~blocked /\ panic = "none" /\ pc = "poll" /\ wrapper[current] = s

\* A joiner is held by the task that spawned its task, or by one spawned later
\* that was given it.
spawn(t) ==
  /\ pc = "sync" \/ At("await")
  /\ \A h \in Joiners : Joins[h] = t =>
       current = Owner[h] \/ (pc = "sync" /\ phase[Owner[h]] = "unspawned")
  /\ R!Spawn(t)
  /\ Untouched

\* recv() on the channel of t.
Recv(t) ==
  /\ chan' = [chan EXCEPT ![t] = IF @ = "full" THEN "taken" ELSE @]
  /\ blocked' = (chan[t] # "full")
  /\ UNCHANGED <<wrapper, count>>

\* TaskJoiner::poll: the first poll submits the read of the event ...
JoinPending(h) ==
  /\ phase[Joins[h]] # "unspawned"
  /\ R!Polled(h)
  /\ R!U!OneshotSubmit(h, current)
  /\ UNCHANGED <<exec_vars, awaits>>
  /\ Untouched

\* ... and once it is answered the value is received.
JoinReady(h) ==
  /\ ~blocked
  /\ R!Polled(h)
  /\ R!U!OneshotReady(h)
  /\ Recv(Joins[h])
  /\ UNCHANGED <<exec_vars, awaits>>

\* A joiner that was never awaited is dropped, or one with its read in flight;
\* the receiver goes with it.
DropJoiner(h) ==
  /\ ~blocked
  /\ phase[Joins[h]] # "unspawned"
  /\ R!Polled(h)
  /\ \/ io[h].st = "New" /\ R!U!DropQuiet(h)
     \/ Cancels /\ R!U!OneshotDrop(h)
  /\ chan' = [chan EXCEPT ![Joins[h]] = "closed"]
  /\ UNCHANGED <<exec_vars, awaits, wrapper, count, blocked>>

\* The wrapped future is ready: what it held is gone with it.
FutureReady ==
  /\ At("await")
  /\ R!HandlesGone
  /\ \A h \in Joiners : Owner[h] = current /\ phase[Joins[h]] # "unspawned" => io[h].st = "Gone"

\* Mutant: the event is notified twice.
Notify_Twice ==
  /\ FutureReady
  /\ wrapper' = [wrapper EXCEPT ![current] = "send"]
  /\ count' = [count EXCEPT ![current] = @ + 2]
  /\ UNCHANGED <<runtime_vars, chan, blocked>>

\* Mutant: the wrapper notifies before it awaits the future.
Notify_Early ==
  /\ At("await")
  /\ wrapper' = [wrapper EXCEPT ![current] = IF FutureReady THEN "send" ELSE @]
  /\ count' = [count EXCEPT ![current] = 1]
  /\ UNCHANGED <<runtime_vars, chan, blocked>>

\* evt2.notify_one(): the kernel may complete the joiner's read from here on.
Notify ==
  /\ FutureReady
  /\ wrapper' = [wrapper EXCEPT ![current] = "send"]
  /\ count' = [count EXCEPT ![current] = 1]
  /\ UNCHANGED <<runtime_vars, chan, blocked>>

\* tx.send(value), lost if the receiver is gone, and the wrapper is Ready.
SendAndReturn ==
  /\ At("send")
  /\ chan' = [chan EXCEPT ![current] = IF @ = "empty" THEN "full" ELSE @]
  /\ wrapper' = [wrapper EXCEPT ![current] = "end"]
  /\ R!PollReady
  /\ UNCHANGED <<count, blocked>>

\* The wrapped future is not ready.
PollPending ==
  /\ At("await")
  /\ R!PollPending
  /\ Untouched

\* What the wrapped future does with its other handles.
PollIo(h) ==
  /\ At("await")
  /\ R!PollOneshot(h) \/ R!DropOneshot(h)
  /\ Untouched

DropFinished(h) == R!DropFinished(h) /\ Untouched

\* TaskJoiner::join in synchronous code, after run() or at the end of block_on.
join(t) ==
  /\ ~blocked
  /\ pc = "sync" /\ run_q = <<>>
  /\ phase[t] # "unspawned" /\ chan[t] # "taken"
  /\ \A h \in Joiners : Joins[h] # t
  /\ Recv(t)
  /\ UNCHANGED runtime_vars

\* Executor and reactor.
Run == R!Run /\ Untouched
Loop ==
  /\ R!PopTask \/ R!PopPanics \/ R!React \/ R!Completion \/ R!WakeNext \/ R!ReactReturns
  /\ Untouched

\* The kernel completes the read of a joiner's event when it has been notified.
KernelEvent(op) ==
  /\ op.io \in Joiners
  /\ count[Joins[op.io]] = 1
  /\ R!KernelAnswers(op, EightBytes)
  /\ count' = [count EXCEPT ![Joins[op.io]] = 0]
  /\ UNCHANGED <<wrapper, chan, blocked>>

\* Other operations, and the read of a dropped joiner: its descriptor was closed
\* with it, and the read may have failed or met another file.
KernelIo(op) ==
  /\ op.io \notin Joiners \/ io[op.io].st = "Gone"
  /\ \E v \in Results : R!KernelAnswers(op, v)
  /\ UNCHANGED join_vars

\* The program is over: run() has returned, or a panic or recv() stopped it.
Over ==
  /\ blocked \/ panic # "none" \/ pc = "panicked" \/ (pc = "sync" /\ run_q = <<>>)
  /\ UNCHANGED vars

Thread ==
  \/ Notify \/ SendAndReturn \/ PollPending \/ Loop
  \/ \E h \in Joiners : JoinPending(h) \/ JoinReady(h) \/ DropJoiner(h)
  \/ \E h \in Oneshots \ Joiners : PollIo(h)
  \/ \E h \in Oneshots : DropFinished(h)

Kernel == \E op \in kernel : KernelEvent(op) \/ KernelIo(op)

Next ==
  \/ \E t \in Tasks : spawn(t) \/ join(t)
  \/ Run \/ Thread \/ Kernel \/ Over

\* The thread runs while it can, and operations complete when they can.
Fairness == WF_vars(Thread) /\ WF_vars(Kernel)

Spec == Init /\ [][Next]_vars /\ Fairness

-----------------------------------------------------------------------------
(***************************************************************************)
(* Properties.                                                             *)
(***************************************************************************)
\* recv() never blocks: the wrapper notifies before it sends (task.rs:204-205),
\* and the joiner's read may complete in between, but nobody calls recv() before
\* the value is there, neither an await of the joiner nor join() after run().
RecvNeverBlocks == ~blocked

\* Some handle was dropped with its operation in flight.
DroppedEarly ==
  \E h \in Oneshots :
    /\ io[h].st = "Gone" /\ got[h] = <<>>
    /\ R!U!Outstanding(h) \/ posted[h] # <<>>

\* As long as futures await every operation to its end, a task that react() woke
\* is on the run queue when it returns: executor_loop pops it with unwrap()
\* (task.rs:267-271).  README.md:125-127: "all I/O events that have completed
\* have their corresponding `Waker`s called which places the task on the
\* runqueue".
ReactFillsRunQueueUnlessDropped == DroppedEarly \/ R!ReactFillsRunQueue

\* As long as they do, a call of run() or block_on() with a task to run returns,
\* whoever joins whom (task.rs:248, 260-262).
RunReturnsUnlessDropped == pc = "loop" ~> (pc = "sync" \/ DroppedEarly)

=============================================================================
