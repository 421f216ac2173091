----------------------------- MODULE JoinProofs -----------------------------
(***************************************************************************)
(* Proofs about TaskJoiner and block_on, for any tasks, joiners, handles   *)
(* and indices: recv() never blocks the thread, and as long as futures     *)
(* await their operations to the end react() leaves a task to run.         *)
(***************************************************************************)
EXTENDS Join, TLAPS

RP == INSTANCE RuntimeProofs

\* The I/O handles, and the tasks that can still run.
Handles == Oneshots \cup Multishots
Live(t) == phase[t] \in {"fresh", "started"}

\* run() and block_on() return with no task asleep.
SyncIdle == pc = "sync" => \A k \in TaskKeys : waiting[k] = NoTask

\* The wrapper notifies and sends in one poll, at the end of its task.
Wrappers ==
  \A t \in Tasks :
    /\ wrapper[t] = "send" => current = t
    /\ wrapper[t] = "end" <=> phase[t] = "done"
    /\ wrapper[t] = "end" => chan[t] # "empty"
    /\ count[t] = 1 => wrapper[t] # "await"

\* A submitted handle belongs to a task whose future still runs; once the future is
\* over, the joiners it was given are gone.
HandlesHeld ==
  /\ \A h \in Handles :
       io[h].st = "Submitted" => Live(Owner[h]) /\ wrapper[Owner[h]] = "await"
  /\ \A h \in Joiners :
       wrapper[Owner[h]] = "send" /\ phase[Joins[h]] # "unspawned" => io[h].st = "Gone"
  /\ \A h \in Multishots : io[h].st = "New"

\* The read of a joiner's event is answered only after the notification.
AnsweredAfterNotify ==
  \A h \in Joiners :
    io[h].st # "Gone" /\ posted[h] # <<>> => wrapper[Joins[h]] # "await"

\* The value is taken by the one joiner, and the channel closed by its drop.
Received ==
  /\ \A h \in Joiners :
       /\ chan[Joins[h]] = "taken" => io[h].st \in {"Finished", "Gone"}
       /\ chan[Joins[h]] = "closed" => io[h].st = "Gone"
  /\ \A t \in Tasks : (\A h \in Joiners : Joins[h] # t) => chan[t] # "closed"

\* h was dropped with its operation in flight.
Early(h) ==
  /\ io[h].st = "Gone" /\ got[h] = <<>>
  /\ (\E op \in sq \cup kernel : op.io = h) \/ posted[h] # <<>>
SomeEarly == \E h \in Oneshots : Early(h)

\* react() has a completion to come, or has woken a task.
Filled ==
  /\ pc = "react" => entered \/ batch > 0 \/ run_q # <<>>
  /\ pc = "pop" => run_q # <<>>

\* Types of the joiners' own state; the thread is never blocked in recv().
JoinTyped ==
  /\ wrapper \in [Tasks -> {"await", "send", "end"}]
  /\ count \in [Tasks -> 0..1]
  /\ chan \in [Tasks -> {"empty", "full", "taken", "closed"}]
  /\ blocked = FALSE

\* What joining adds to the invariant of the runtime, and the inductive invariant.
JInv ==
  /\ JoinTyped
  /\ SyncIdle
  /\ Wrappers
  /\ HandlesHeld
  /\ AnsweredAfterNotify
  /\ Received
  /\ SomeEarly \/ Filled

IInv == RP!IInv /\ JInv

-----------------------------------------------------------------------------
(***************************************************************************)
(* The steps of Runtime that Join takes are those RuntimeProofs is about.  *)
(***************************************************************************)
\* The executor's steps.
LEMMA SameExec ==
  ASSUME NEW t
  PROVE  /\ R!Spawn(t) <=> RP!Spawn(t)
         /\ R!Run <=> RP!Run
         /\ R!PopTask <=> RP!PopTask
         /\ R!PopPanics <=> RP!PopPanics
         /\ R!PollReady <=> RP!PollReady
         /\ R!ReactReturns <=> RP!ReactReturns
<1> USE DEF R!uring_vars, RP!uring_vars
<1>1. (R!Alive <=> RP!Alive) /\ R!Handles = RP!Handles
  BY DEF R!Alive, RP!Alive, R!Handles, RP!Handles
<1>2. R!Spawn(t) <=> RP!Spawn(t)
  BY <1>1 DEF R!Spawn, RP!Spawn, R!E!Spawn, RP!E!Spawn
<1>3. (R!Run <=> RP!Run) /\ (R!PopPanics <=> RP!PopPanics) /\ (R!ReactReturns <=> RP!ReactReturns)
  BY <1>1 DEF R!Run, RP!Run, R!E!Run, RP!E!Run, R!PopPanics, RP!PopPanics, R!E!PopPanics,
              RP!E!PopPanics, R!ReactReturns, RP!ReactReturns, R!E!ReactReturns,
              RP!E!ReactReturns
<1>4. R!PopTask <=> RP!PopTask
  BY <1>1 DEF R!PopTask, RP!PopTask, R!E!PopTask, RP!E!PopTask, R!E!AtPop, RP!E!AtPop
<1>5. R!PollReady <=> RP!PollReady
  BY <1>1 DEF R!PollReady, RP!PollReady, R!E!PollReady, RP!E!PollReady, R!E!EndOfIteration,
              RP!E!EndOfIteration, R!HandlesGone, RP!HandlesGone
<1> QED
  BY <1>2, <1>3, <1>4, <1>5

\* Both instances of FiniteSets count alike.
LEMMA SameCardinality == R!U!Cardinality(sq) = RP!U!Cardinality(sq)
BY DEF R!U!Cardinality, RP!U!Cardinality

\* The calls on a oneshot handle.
LEMMA SameCalls ==
  ASSUME NEW h, NEW w
  PROVE  /\ R!Polled(h) <=> RP!Polled(h)
         /\ R!U!OneshotSubmit(h, w) <=> RP!U!OneshotSubmit(h, w)
         /\ R!U!OneshotReady(h) <=> RP!U!OneshotReady(h)
         /\ R!U!OneshotDrop(h) <=> RP!U!OneshotDrop(h)
         /\ R!U!DropQuiet(h) <=> RP!U!DropQuiet(h)
<1>1. /\ R!U!Idle <=> RP!U!Idle
      /\ R!U!New = RP!U!New /\ R!U!Vacant = RP!U!Vacant /\ R!U!Gone = RP!U!Gone
  BY DEF R!U!Idle, RP!U!Idle, R!U!New, RP!U!New, R!U!Vacant, RP!U!Vacant, R!U!Gone, RP!U!Gone
<1>2. R!U!OneshotSubmit(h, w) <=> RP!U!OneshotSubmit(h, w)
  BY <1>1, SameCardinality
  DEF R!U!OneshotSubmit, RP!U!OneshotSubmit, R!U!VacantKeys, RP!U!VacantKeys,
      R!U!ResultPending, RP!U!ResultPending, R!U!submit_io, RP!U!submit_io, R!U!PendingIo,
      RP!U!PendingIo, R!U!Op, RP!U!Op, R!U!SubmittedOneshot, RP!U!SubmittedOneshot
<1>3. R!U!OneshotReady(h) <=> RP!U!OneshotReady(h)
  BY <1>1 DEF R!U!OneshotReady, RP!U!OneshotReady, R!U!Finished, RP!U!Finished,
              R!U!reactor_value_to_result, RP!U!reactor_value_to_result
<1>4. R!U!OneshotDrop(h) <=> RP!U!OneshotDrop(h)
  BY <1>1 DEF R!U!OneshotDrop, RP!U!OneshotDrop, R!U!oneshot_drop_result,
              RP!U!oneshot_drop_result, R!U!ResultDropped, RP!U!ResultDropped
<1>5. (R!U!DropQuiet(h) <=> RP!U!DropQuiet(h)) /\ (R!Polled(h) <=> RP!Polled(h))
  BY <1>1 DEF R!U!DropQuiet, RP!U!DropQuiet, R!Polled, RP!Polled
<1> QED
  BY <1>2, <1>3, <1>4, <1>5

\* The end of a poll, react() and the kernel.
LEMMA SameReactor ==
  ASSUME NEW op, NEW v
  PROVE  /\ R!PollPending <=> RP!PollPending
         /\ R!React <=> RP!React
         /\ R!Completion <=> RP!Completion
         /\ R!WakeNext <=> RP!WakeNext
         /\ R!KernelAnswers(op, v) <=> RP!KernelAnswers(op, v)
<1> USE DEF R!uring_vars, RP!uring_vars, R!exec_vars, RP!exec_vars
<1>1. /\ R!U!Idle <=> RP!U!Idle
      /\ R!U!Vacant = RP!U!Vacant
      /\ R!U!Entry = RP!U!Entry /\ R!U!EntryIo = RP!U!EntryIo /\ R!U!Yielded = RP!U!Yielded
  BY DEF R!U!Idle, RP!U!Idle, R!U!Vacant, RP!U!Vacant, R!U!Entry, RP!U!Entry, R!U!EntryIo, RP!U!EntryIo, R!U!Yielded,
         RP!U!Yielded
<1>2. R!PollPending <=> RP!PollPending
  BY <1>1 DEF R!PollPending, RP!PollPending, R!E!PollPending, RP!E!PollPending, R!Alive,
              RP!Alive, R!Handles, RP!Handles, R!HasResult, RP!HasResult, R!E!EndOfIteration,
              RP!E!EndOfIteration
<1>3. (R!React <=> RP!React) /\ (R!Completion <=> RP!Completion)
  BY <1>1 DEF R!React, RP!React, R!E!React, RP!E!React, R!U!SubmitAndWait, RP!U!SubmitAndWait,
              R!Completion, RP!Completion, R!U!Completion, RP!U!Completion
<1>4. R!U!NextOneshot <=> RP!U!NextOneshot
  BY <1>1 DEF R!U!NextOneshot, RP!U!NextOneshot, R!U!set_result, RP!U!set_result,
              R!U!ResultDropped, RP!U!ResultDropped, R!U!ResultSet, RP!U!ResultSet
<1>5. R!U!NextMulti <=> RP!U!NextMulti
  BY <1>1 DEF R!U!NextMulti, RP!U!NextMulti, R!U!push_result, RP!U!push_result,
              R!U!RingPush, RP!U!RingPush, R!U!set_finished, RP!U!set_finished
<1>6. R!E!Wake(R!U!Yielded) <=> RP!E!Wake(RP!U!Yielded)
  BY <1>1 DEF R!E!Wake, RP!E!Wake, R!E!wake, RP!E!wake
<1>7. R!KernelAnswers(op, v) <=> RP!KernelAnswers(op, v)
  BY <1>1 DEF R!KernelAnswers, RP!KernelAnswers, R!U!KernelFinish, RP!U!KernelFinish,
              R!U!KernelShot, RP!U!KernelShot, R!U!Finish, RP!U!Finish, R!U!Cqe, RP!U!Cqe
<1> QED
  BY <1>2, <1>3, <1>4, <1>5, <1>6, <1>7 DEF R!WakeNext, RP!WakeNext

-----------------------------------------------------------------------------
\* What the invariant of the thread says of the executor.
LEMMA ExecFacts ==
  ASSUME RP!IInv
  PROVE  /\ run_q \in Seq(Tasks)
         /\ waiting \in [TaskKeys -> Tasks \cup {NoTask}]
         /\ id \in [Tasks -> TaskKeys]
         /\ current \in Tasks \cup {NoTask}
         /\ phase \in [Tasks -> {"unspawned", "fresh", "started", "done"}]
         /\ pc = "poll" <=> current # NoTask
         /\ \A t \in Tasks : Live(t) <=> \/ \E i \in DOMAIN run_q : run_q[i] = t
                                         \/ \E k \in TaskKeys : waiting[k] = t
                                         \/ current = t
         /\ \A k \in TaskKeys : waiting[k] # NoTask => id[waiting[k]] = k
BY DEF RP!IInv, RP!EP!IInv, RP!EP!TypeOK, RP!EP!PollsCurrent, RP!EP!OnePlace, RP!EP!Live, Live,
       RP!EP!Queued, RP!EP!Waits, RP!EP!WakerFindsTask

\* What it says of the reactor.
LEMMA UringFacts ==
  ASSUME RP!IInv
  PROVE  /\ io = [h \in Handles |-> io[h]]
         /\ posted = [h \in Handles |-> posted[h]]
         /\ got = [h \in Handles |-> got[h]]
         /\ \A op \in sq \cup kernel : op.io \in Handles
         /\ \A i \in DOMAIN cq : cq[i].io \in Handles
         /\ \A i \in DOMAIN cq : cq[i].io \in Oneshots => posted[cq[i].io] # <<>>
         /\ \A h \in Oneshots : io[h].st = "Submitted" /\ oneshot[io[h].slot].st = "Set" =>
                                  posted[h] # <<>>
<1>1. RP!UP!TypeOK
  BY DEF RP!IInv, RP!UP!IInv
<1>2. RP!UP!Handles = Handles
  BY DEF RP!UP!Handles, Handles
<1>3. /\ io = [h \in Handles |-> io[h]]
      /\ posted = [h \in Handles |-> posted[h]]
      /\ got = [h \in Handles |-> got[h]]
  BY <1>1, <1>2 DEF RP!UP!TypeOK
<1>4. \A op \in sq \cup kernel : op.io \in Handles
  BY <1>1, <1>2 DEF RP!UP!TypeOK, RP!UP!Ops
<1>5. \A i \in DOMAIN cq : cq[i].io \in Handles
  <2>1. cq \in Seq(RP!UP!Cqes)
    BY <1>1 DEF RP!UP!TypeOK
  <2>2. \A i \in DOMAIN cq : cq[i] \in RP!UP!Cqes
    BY <2>1
  <2> QED
    BY <1>2, <2>2 DEF RP!UP!Cqes
<1>6. \A i \in DOMAIN cq : cq[i].io \in Oneshots => posted[cq[i].io] # <<>>
  BY DEF RP!IInv, RP!UP!IInv, RP!UP!OneshotAnswers
<1>7. \A h \in Oneshots : io[h].st = "Submitted" /\ oneshot[io[h].slot].st = "Set" =>
                            posted[h] # <<>>
  <2>1. ASSUME NEW h \in Oneshots, io[h].st = "Submitted", oneshot[io[h].slot].st = "Set"
        PROVE  posted[h] = <<oneshot[io[h].slot].val>>
    BY <2>1 DEF RP!IInv, RP!UP!IInv, RP!UP!OneshotSlots
  <2> QED
    BY <2>1
<1> QED
  BY <1>3, <1>4, <1>5, <1>6, <1>7

\* A completion that react() takes belongs to a oneshot that is submitted or was
\* dropped early, and wakes the task that holds it.
LEMMA EntryFacts ==
  ASSUME RP!IInv, \A h \in Multishots : io[h].st = "New", R!WakeNext
  PROVE  \E h \in Oneshots : /\ io[h].st = "Submitted" \/ (io[h].st = "Gone" /\ got[h] = <<>>)
                             /\ posted[h] # <<>>
                             /\ R!E!Wake(Owner[h])
<1> DEFINE e == RP!UP!Entry
<1>1. RP!WakeNext
  BY SameReactor
<1>2. batch > 0
  BY DEF R!WakeNext, R!U!NextOneshot, R!U!NextMulti
<1>3. /\ e.ud \in Keys /\ e.io \in Handles /\ RP!UP!Token(e.ud, e.io)
      /\ \E i \in DOMAIN cq : cq[i] = e
  BY <1>2, RP!UP!EntryFacts, RuntimeAssumption DEF RP!IInv, Handles, RP!UP!Handles, RP!Handles
<1>4. R!E!Wake(Owner[e.io])
  <2>1. R!U!Yielded = pending[e.ud].obj
    BY DEF R!U!Yielded, R!U!EntryIo, R!U!Entry, RP!UP!Entry
  <2>2. pending[e.ud].obj = Owner[e.io]
    BY <1>3 DEF RP!IInv, RP!EntriesWakeOwner, Handles, RP!Handles
  <2> QED
    BY <2>1, <2>2 DEF R!WakeNext
<1>5. e.io \in Oneshots
  <2>1. SUFFICES ASSUME e.io \in Multishots PROVE FALSE
    BY <1>3 DEF Handles
  <2>2. io[e.io].st = "New"
    BY <2>1
  <2> QED
    BY <1>3, <2>1, <2>2 DEF RP!IInv, RP!UP!IInv, RP!UP!MultishotTokens, RP!UP!Gone
<1>6. io[e.io].st = "Submitted" \/ io[e.io].st = "Gone"
  BY <1>3, <1>5 DEF RP!IInv, RP!UP!IInv, RP!UP!OneshotTokens, RP!UP!Gone
<1>7. got[e.io] = <<>>
  BY <1>3, <1>5 DEF RP!IInv, RP!UP!IInv, RP!UP!OneshotAnswers
<1>8. posted[e.io] # <<>>
  BY <1>3, <1>5, UringFacts
<1> QED
  BY <1>4, <1>5, <1>6, <1>7, <1>8

\* Every step of Join keeps the invariant of the thread.
LEMMA RuntimeKept == ASSUME RP!IInv, [Next]_vars PROVE RP!IInv'
<1> USE RuntimeAssumption DEF RP!Handles
<1>1. ASSUME UNCHANGED runtime_vars PROVE RP!IInv'
  BY <1>1, RP!ExecOnlyIInv DEF runtime_vars, exec_vars, RP!exec_vars, RP!uring_vars
<1>2. ASSUME NEW t \in Tasks, R!Spawn(t) PROVE RP!IInv'
  BY <1>2, SameExec, RP!ExecOnlyIInv DEF RP!Spawn
<1>3. CASE R!Run \/ R!PopTask \/ R!PopPanics \/ R!PollReady \/ R!ReactReturns
  <2>1. RP!Run \/ RP!PopTask \/ RP!PopPanics \/ RP!PollReady \/ RP!ReactReturns
    BY <1>3, SameExec
  <2> QED
    BY <2>1, RP!ExecOnlyIInv DEF RP!Run, RP!PopTask, RP!PopPanics, RP!PollReady, RP!ReactReturns
<1>4. CASE R!React \/ R!Completion
  <2>1. RP!React \/ RP!Completion
    BY <1>4, SameReactor
  <2> QED
    BY <2>1, RP!ReactorIInv DEF RP!React, RP!Completion
<1>5. ASSUME NEW op \in kernel, NEW v \in Results, R!KernelAnswers(op, v) PROVE RP!IInv'
  <2>1. RP!KernelAnswers(op, v)
    BY <1>5, SameReactor
  <2> QED
    BY <2>1, RP!ReactorIInv DEF RP!KernelAnswers
<1>6. CASE R!WakeNext \/ R!PollPending
  BY <1>6, SameReactor, RP!WakeNextIInv, RP!PollPendingIInv
<1>7. ASSUME NEW h \in Oneshots, R!Polled(h), UNCHANGED <<exec_vars, awaits>>,
             R!U!OneshotSubmit(h, current) \/ R!U!OneshotReady(h) \/ R!U!OneshotDrop(h)
      PROVE  RP!IInv'
  <2>1. /\ RP!Polled(h)
        /\ RP!U!OneshotSubmit(h, current) \/ RP!U!OneshotReady(h) \/ RP!U!OneshotDrop(h)
    BY <1>7, SameCalls
  <2> QED
    BY <1>7, <2>1, RP!OneshotIInv DEF exec_vars, RP!exec_vars
<1>8. ASSUME NEW h \in Oneshots, R!Polled(h), UNCHANGED <<exec_vars, awaits>>, R!U!DropQuiet(h)
      PROVE  RP!IInv'
  <2>1. RP!Polled(h) /\ RP!U!DropQuiet(h)
    BY <1>8, SameCalls
  <2> QED
    BY <1>8, <2>1, RP!QuietCallIInv DEF exec_vars, RP!exec_vars
<1>9. ASSUME NEW h \in Oneshots, R!PollOneshot(h) \/ R!DropOneshot(h) \/ R!DropFinished(h)
      PROVE  RP!IInv'
  BY <1>7, <1>8, <1>9 DEF R!PollOneshot, R!DropOneshot, R!DropFinished, exec_vars, R!exec_vars
<1>10. ASSUME NEW t \in Tasks, spawn(t) \/ join(t) PROVE RP!IInv'
  BY <1>1, <1>2, <1>10 DEF spawn, join
<1>11. CASE Run \/ Loop \/ Notify \/ SendAndReturn \/ PollPending
  BY <1>1, <1>3, <1>4, <1>6, <1>11 DEF Run, Loop, Notify, SendAndReturn, PollPending
<1>12. ASSUME NEW h \in Joiners, JoinPending(h) \/ JoinReady(h) \/ DropJoiner(h) PROVE RP!IInv'
  <2>1. h \in Oneshots
    BY JoinsAssumption
  <2> QED
    BY <1>7, <1>8, <1>12, <2>1 DEF JoinPending, JoinReady, DropJoiner
<1>13. ASSUME NEW h \in Oneshots, PollIo(h) \/ DropFinished(h) PROVE RP!IInv'
  BY <1>9, <1>13 DEF PollIo, DropFinished
<1>14. ASSUME NEW op \in kernel, KernelEvent(op) \/ KernelIo(op) PROVE RP!IInv'
  BY <1>5, <1>14, JoinsAssumption DEF KernelEvent, KernelIo
<1>15. CASE Over \/ UNCHANGED vars
  BY <1>1, <1>15 DEF Over, vars
<1> QED
  BY <1>10, <1>11, <1>12, <1>13, <1>14, <1>15 DEF Next, Thread, Kernel

-----------------------------------------------------------------------------
\* An early drop stays one.
LEMMA EarlyKept ==
  ASSUME \A h \in Oneshots : /\ io[h].st = "Gone" => io'[h].st = "Gone" /\ got'[h] = got[h]
                             /\ posted[h] # <<>> => posted'[h] # <<>>,
         \A op \in sq \cup kernel : op.io \in Oneshots =>
                                      op \in sq' \cup kernel' \/ posted'[op.io] # <<>>
  PROVE  SomeEarly => SomeEarly'
<1>1. ASSUME NEW h \in Oneshots, Early(h) PROVE Early(h)'
  <2>1. CASE posted[h] # <<>>
    BY <1>1, <2>1 DEF Early
  <2>2. ASSUME NEW op \in sq \cup kernel, op.io = h PROVE Early(h)'
    BY <1>1, <2>2 DEF Early
  <2> QED
    BY <1>1, <2>1, <2>2 DEF Early
<1> QED
  BY <1>1 DEF SomeEarly

\* Steps of the executor that end no poll leave the handles alone.
LEMMA SpawnJInv == ASSUME IInv, NEW t \in Tasks, spawn(t) PROVE JInv'
<1> USE DEF IInv, JInv
<1>1. /\ UNCHANGED join_vars /\ UNCHANGED <<waiting, id, current, pc>> /\ R!E!Spawn(t)
      /\ UNCHANGED <<io, sq, kernel, posted, got, entered, batch>>
      /\ phase[t] = "unspawned" /\ phase' = [phase EXCEPT ![t] = "fresh"]
      /\ pc = "sync" \/ (pc = "poll" /\ wrapper[current] = "await")
  BY DEF spawn, At, R!Spawn, R!E!Spawn, R!uring_vars, Untouched
<1>2. /\ phase'[t] = "fresh" /\ \A u \in Tasks : u # t => phase'[u] = phase[u]
  BY <1>1, ExecFacts
<1>3. JoinTyped' /\ SyncIdle' /\ Received'
  BY <1>1 DEF JoinTyped, SyncIdle, Received, join_vars
<1>4. Wrappers'
  BY <1>1, <1>2 DEF Wrappers, join_vars
<1>5. AnsweredAfterNotify'
  BY <1>1 DEF AnsweredAfterNotify, join_vars
<1>6. HandlesHeld'
  <2>1. \A h \in Handles : Owner[h] \in Tasks
    BY RuntimeAssumption DEF Handles
  <2>2. \A h \in Handles : Live(Owner[h]) => Live(Owner[h])'
    BY <1>2, <2>1 DEF Live
  <2>3. \A u \in Tasks : wrapper[u] # "send"
    BY <1>1, ExecFacts, RuntimeAssumption DEF Wrappers
  <2>4. \A h \in Joiners : h \in Handles
    BY JoinsAssumption DEF Handles
  <2> QED
    BY <1>1, <2>1, <2>2, <2>3, <2>4 DEF HandlesHeld, join_vars
<1>7. Filled'
  BY <1>1 DEF Filled
<1> QED
  BY <1>3, <1>4, <1>5, <1>6, <1>7

\* join() finds the value of a task that is done.
LEMMA JoinJInv == ASSUME IInv, NEW t \in Tasks, join(t) PROVE JInv'
<1> USE DEF IInv, JInv
<1>1. /\ UNCHANGED runtime_vars /\ UNCHANGED <<wrapper, count>>
      /\ pc = "sync" /\ run_q = <<>> /\ phase[t] # "unspawned" /\ chan[t] # "taken"
      /\ \A h \in Joiners : Joins[h] # t
      /\ chan' = [chan EXCEPT ![t] = IF @ = "full" THEN "taken" ELSE @]
      /\ blocked' = (chan[t] # "full")
  BY DEF join, Recv
<1>2. UNCHANGED <<run_q, waiting, id, current, pc, phase, notified, io, sq, kernel, posted,
                  got, entered, batch>>
  BY <1>1 DEF runtime_vars, exec_vars
<1>3. ~Live(t)
  BY <1>1, ExecFacts, RuntimeAssumption DEF SyncIdle
<1>4. chan[t] = "full"
  <2>1. phase[t] = "done"
    BY <1>1, <1>3, ExecFacts DEF Live
  <2>2. chan[t] \in {"empty", "full", "taken", "closed"} /\ chan[t] # "closed" /\ chan[t] # "empty"
    BY <1>1, <2>1 DEF JoinTyped, Received, Wrappers
  <2> QED
    BY <1>1, <2>2
<1>5. /\ blocked' = FALSE /\ chan'[t] = "taken" /\ \A u \in Tasks : u # t => chan'[u] = chan[u]
      /\ chan' \in [Tasks -> {"empty", "full", "taken", "closed"}]
  BY <1>1, <1>4 DEF JoinTyped
<1>6. JoinTyped' /\ SyncIdle' /\ Wrappers' /\ AnsweredAfterNotify'
  BY <1>1, <1>2, <1>5 DEF JoinTyped, SyncIdle, Wrappers, AnsweredAfterNotify
<1>7. Received'
  BY <1>1, <1>2, <1>5, JoinsAssumption DEF Received
<1>8. HandlesHeld'
  BY <1>1, <1>2 DEF HandlesHeld, Live
<1>9. SomeEarly' \/ Filled'
  BY <1>2 DEF SomeEarly, Early, Filled
<1> QED
  BY <1>6, <1>7, <1>8, <1>9

\* Steps that touch neither the joiners nor the handles, and end no task.
LEMMA FrameJInv ==
  ASSUME IInv, UNCHANGED <<wrapper, count, chan, blocked, io, posted>>,
         \A t \in Tasks : /\ phase'[t] = "done" <=> phase[t] = "done"
                          /\ phase'[t] = "unspawned" <=> phase[t] = "unspawned"
                          /\ Live(t) => Live(t)'
                          /\ wrapper[t] = "send" => current' = t,
         SyncIdle', SomeEarly' \/ Filled'
  PROVE  JInv'
<1> USE DEF IInv, JInv
<1>1. JoinTyped' /\ Received' /\ AnsweredAfterNotify' /\ Wrappers'
  BY DEF JoinTyped, Received, AnsweredAfterNotify, Wrappers
<1>2. (\A h \in Handles : Owner[h] \in Tasks) /\ (\A h \in Joiners : Joins[h] \in Tasks)
  BY RuntimeAssumption, JoinsAssumption DEF Handles
<1>3. HandlesHeld'
  BY <1>2 DEF HandlesHeld
<1> QED
  BY <1>1, <1>3

\* The executor's loop, outside polls.
LEMMA ExecJInv ==
  ASSUME IInv, UNCHANGED join_vars, R!Run \/ R!PopTask \/ R!PopPanics \/ R!ReactReturns
  PROVE  JInv'
<1> USE DEF IInv, JInv
<1>1. /\ UNCHANGED <<wrapper, count, chan, blocked, io, posted, got, sq, kernel, waiting>>
  BY DEF join_vars, R!Run, R!PopTask, R!PopPanics, R!ReactReturns, R!uring_vars, R!E!Run,
         R!E!PopTask, R!E!PopPanics, R!E!ReactReturns
<1>2. current = NoTask
  BY ExecFacts DEF R!Run, R!PopTask, R!PopPanics, R!ReactReturns, R!E!Run, R!E!PopTask,
                   R!E!AtPop, R!E!PopPanics, R!E!ReactReturns
<1>3. \A t \in Tasks : wrapper[t] # "send"
  BY <1>2, RuntimeAssumption DEF Wrappers
<1>4. SyncIdle'
  BY <1>1 DEF SyncIdle, R!Run, R!PopTask, R!PopPanics, R!ReactReturns, R!E!Run, R!E!PopTask,
              R!E!PopPanics, R!E!ReactReturns
<1>5. Filled => Filled'
  BY DEF Filled, R!Run, R!PopTask, R!PopPanics, R!ReactReturns, R!E!Run, R!E!PopTask,
         R!E!PopPanics, R!E!ReactReturns
<1>6. SomeEarly' <=> SomeEarly
  BY <1>1 DEF SomeEarly, Early
<1>7. ASSUME NEW t \in Tasks
      PROVE  /\ phase'[t] = "done" <=> phase[t] = "done"
             /\ phase'[t] = "unspawned" <=> phase[t] = "unspawned"
             /\ Live(t) => Live(t)'
  <2>1. CASE R!PopTask
    <3> DEFINE u == run_q[Len(run_q)]
    <3>1. u \in Tasks /\ Len(run_q) \in DOMAIN run_q
      BY <2>1, ExecFacts DEF R!PopTask, R!E!PopTask
    <3>2. phase[u] \in {"fresh", "started"}
      BY <3>1, ExecFacts DEF Live
    <3>3. phase' = [phase EXCEPT ![u] = "started"]
      BY <2>1 DEF R!PopTask, R!E!PopTask
    <3> HIDE DEF u
    <3> QED
      BY <3>1, <3>2, <3>3, ExecFacts DEF Live
  <2>2. CASE phase' = phase
    BY <2>2 DEF Live
  <2> QED
    BY <2>1, <2>2 DEF R!Run, R!PopPanics, R!ReactReturns, R!E!Run, R!E!PopPanics, R!E!ReactReturns
<1> QED
  BY <1>1, <1>3, <1>4, <1>5, <1>6, <1>7, FrameJInv

\* react() hands the queue over, waits, and has a completion then.
LEMMA ReactJInv ==
  ASSUME IInv, UNCHANGED join_vars, R!React \/ R!Completion PROVE JInv'
<1> USE DEF IInv, JInv
<1>1. /\ UNCHANGED <<wrapper, count, chan, blocked, io, posted, got, waiting, phase, current, cq>>
      /\ sq' \cup kernel' = sq \cup kernel
  BY DEF join_vars, R!React, R!Completion, R!U!SubmitAndWait, R!U!Completion, R!E!React,
         R!exec_vars
<1>2. pc = "sync" <=> pc' = "sync"
  BY DEF R!React, R!Completion, R!E!React, R!exec_vars
<1>3. SyncIdle'
  BY <1>1, <1>2 DEF SyncIdle
<1>4. SomeEarly' <=> SomeEarly
  BY <1>1 DEF SomeEarly, Early
<1>5. Filled => Filled'
  <2>1. CASE R!React
    BY <2>1 DEF Filled, R!React, R!E!React, R!U!SubmitAndWait
  <2>2. CASE R!Completion
    <3>1. cq \in Seq(RP!UP!Cqes)
      BY DEF RP!IInv, RP!UP!IInv, RP!UP!TypeOK
    <3>2. UNCHANGED <<pc, run_q>> /\ batch' = Len(cq) /\ cq # <<>>
      BY <2>2 DEF R!Completion, R!U!Completion, R!exec_vars
    <3>3. batch' > 0
      BY <3>1, <3>2
    <3> QED
      BY <3>2, <3>3 DEF Filled
  <2> QED
    BY <2>1, <2>2
<1>6. \A t \in Tasks : /\ phase'[t] = phase[t] /\ (Live(t) => Live(t)')
                       /\ wrapper[t] = "send" => current' = t
  BY <1>1 DEF Live, Wrappers
<1> QED
  BY <1>1, <1>3, <1>4, <1>5, <1>6, FrameJInv

\* A completion wakes the task that holds its handle, which is live and so asleep
\* or queued; or the handle was dropped early.
LEMMA WakeNextJInv == ASSUME IInv, UNCHANGED join_vars, R!WakeNext PROVE JInv'
<1> USE DEF IInv, JInv
<1>1. PICK h \in Oneshots : /\ io[h].st = "Submitted" \/ (io[h].st = "Gone" /\ got[h] = <<>>)
                            /\ posted[h] # <<>>
                            /\ R!E!Wake(Owner[h])
  BY EntryFacts DEF HandlesHeld
<1>2. /\ UNCHANGED <<wrapper, count, chan, blocked, io, posted, got, phase, current, pc>>
      /\ UNCHANGED <<sq, kernel>>
  BY <1>1 DEF join_vars, R!WakeNext, R!U!NextOneshot, R!U!NextMulti, R!E!Wake
<1>3. io[h].st = "Gone" /\ got[h] = <<>> => SomeEarly'
  BY <1>1, <1>2 DEF SomeEarly, Early
<1>4. ASSUME io[h].st = "Submitted" PROVE Filled'
  <2> DEFINE t == Owner[h]
  <2>1. t \in Tasks /\ Live(t)
    BY <1>4, RuntimeAssumption DEF HandlesHeld, Handles
  <2> HIDE DEF t
  <2>2. current # t /\ R!E!wake(t)
    BY <1>1 DEF R!E!Wake, t
  <2>3. run_q' = IF waiting[id[t]] = NoTask THEN run_q ELSE Append(run_q, waiting[id[t]])
    BY <2>2 DEF R!E!wake
  <2>4. run_q \in Seq(Tasks) /\ id[t] \in TaskKeys /\ waiting[id[t]] \in Tasks \cup {NoTask}
    BY <2>1, ExecFacts
  <2>5. CASE \E k \in TaskKeys : waiting[k] = t
    <3>1. waiting[id[t]] = t /\ t # NoTask
      BY <2>1, <2>5, ExecFacts, RuntimeAssumption
    <3>2. run_q' = Append(run_q, t)
      BY <2>3, <3>1
    <3>3. run_q' # <<>>
      BY <2>1, <2>4, <3>2
    <3> QED
      BY <1>2, <3>3 DEF Filled
  <2>6. CASE \E i \in DOMAIN run_q : run_q[i] = t
    <3>1. run_q # <<>>
      BY <2>6
    <3>2. run_q' # <<>>
      BY <2>3, <2>4, <3>1
    <3> QED
      BY <1>2, <3>2 DEF Filled
  <2> QED
    BY <2>1, <2>2, <2>5, <2>6, ExecFacts
<1>5. SyncIdle'
  BY <1>1, <1>2 DEF SyncIdle, R!E!Wake
<1>6. \A t \in Tasks : /\ phase'[t] = phase[t] /\ (Live(t) => Live(t)')
                       /\ wrapper[t] = "send" => current' = t
  BY <1>2 DEF Live, Wrappers
<1>7. SomeEarly' \/ Filled'
  BY <1>1, <1>3, <1>4
<1> QED
  BY <1>2, <1>5, <1>6, <1>7, FrameJInv

\* A task starts to wait.
LEMMA PollPendingJInv == ASSUME IInv, PollPending PROVE JInv'
<1> USE DEF IInv, JInv
<1>1. /\ UNCHANGED <<wrapper, count, chan, blocked, io, posted, phase>>
      /\ wrapper[current] = "await" /\ pc = "poll" /\ R!E!EndOfIteration(waiting')
  BY DEF PollPending, Untouched, join_vars, At, R!PollPending, R!uring_vars, R!E!PollPending
<1>2. \A t \in Tasks : wrapper[t] # "send"
  BY <1>1 DEF Wrappers
<1>3. SyncIdle' /\ Filled'
  BY <1>1 DEF SyncIdle, Filled, R!E!EndOfIteration
<1>4. \A t \in Tasks : Live(t) => Live(t)'
  BY <1>1 DEF Live
<1> QED
  BY <1>1, <1>2, <1>3, <1>4, FrameJInv

-----------------------------------------------------------------------------
\* What a call on a oneshot handle changes.
LEMMA CallFacts ==
  ASSUME RP!IInv, NEW h \in Oneshots,
         \/ R!U!OneshotSubmit(h, current) \/ R!U!OneshotReady(h)
         \/ R!U!OneshotDrop(h) \/ R!U!DropQuiet(h)
  PROVE  /\ \A g \in Handles : g # h => io'[g] = io[g] /\ got'[g] = got[g]
         /\ posted' = posted /\ sq \cup kernel \subseteq sq' \cup kernel'
         /\ R!U!OneshotSubmit(h, current) => io[h].st = "New" /\ io'[h].st = "Submitted"
         /\ R!U!OneshotReady(h) => /\ io[h].st = "Submitted" /\ io'[h].st = "Finished"
                                   /\ posted[h] # <<>>
         /\ R!U!OneshotDrop(h) => io[h].st = "Submitted" /\ io'[h].st = "Gone"
         /\ R!U!DropQuiet(h) => io[h].st \in {"New", "Finished"} /\ io'[h].st = "Gone"
<1>1. h \in Handles
  BY DEF Handles
<1>2. ASSUME R!U!OneshotSubmit(h, current)
      PROVE  /\ \A g \in Handles : g # h => io'[g] = io[g] /\ got'[g] = got[g]
             /\ posted' = posted /\ sq \cup kernel \subseteq sq' \cup kernel'
             /\ io[h].st = "New" /\ io'[h].st = "Submitted"
  <2>1. PICK slot \in Keys, ud \in Keys : /\ io' = [io EXCEPT ![h] = R!U!SubmittedOneshot(slot)]
                                          /\ sq' = sq \cup {R!U!Op(ud, h)}
    BY <1>2 DEF R!U!OneshotSubmit, R!U!submit_io, R!U!VacantKeys
  <2>2. UNCHANGED <<kernel, posted, got>> /\ io[h].st = "New"
    BY <1>2 DEF R!U!OneshotSubmit, R!U!New
  <2> QED
    BY <1>1, <2>1, <2>2, UringFacts DEF R!U!SubmittedOneshot
<1>3. ASSUME R!U!OneshotReady(h)
      PROVE  /\ \A g \in Handles : g # h => io'[g] = io[g] /\ got'[g] = got[g]
             /\ UNCHANGED <<posted, sq, kernel>>
             /\ io[h].st = "Submitted" /\ io'[h].st = "Finished" /\ posted[h] # <<>>
  BY <1>1, <1>3, UringFacts DEF R!U!OneshotReady, R!U!Finished
<1>4. ASSUME R!U!OneshotDrop(h)
      PROVE  /\ \A g \in Handles : g # h => io'[g] = io[g] /\ got'[g] = got[g]
             /\ UNCHANGED <<posted, sq, kernel>>
             /\ io[h].st = "Submitted" /\ io'[h].st = "Gone"
  BY <1>1, <1>4, UringFacts DEF R!U!OneshotDrop, R!U!Gone
<1>5. ASSUME R!U!DropQuiet(h)
      PROVE  /\ \A g \in Handles : g # h => io'[g] = io[g] /\ got'[g] = got[g]
             /\ UNCHANGED <<posted, sq, kernel>>
             /\ io[h].st \in {"New", "Finished"} /\ io'[h].st = "Gone"
  BY <1>1, <1>5, UringFacts DEF R!U!DropQuiet, R!U!Gone
<1> QED
  BY <1>2, <1>3, <1>4, <1>5

\* The current task calls its handle h.
LEMMA CallJInv ==
  ASSUME IInv, NEW h \in Oneshots, R!Polled(h), UNCHANGED <<exec_vars, wrapper, count>>,
         \A g \in Handles : g # h => io'[g] = io[g] /\ got'[g] = got[g],
         posted' = posted, sq \cup kernel \subseteq sq' \cup kernel',
         io[h].st # "Gone",
         io'[h].st = "Submitted" => wrapper[current] = "await",
         \A t \in Tasks : chan[t] # "empty" => chan'[t] # "empty",
         JoinTyped', Received'
  PROVE  JInv'
<1> USE DEF IInv, JInv
<1>1. /\ pc = "poll" /\ Owner[h] = current
      /\ UNCHANGED <<run_q, waiting, id, current, pc, phase>>
  BY DEF R!Polled, exec_vars
<1>2. h \in Handles /\ current \in Tasks /\ Live(current)
  BY <1>1, ExecFacts, RuntimeAssumption DEF Handles
<1>3. SyncIdle' /\ Filled'
  BY <1>1 DEF SyncIdle, Filled
<1>4. Wrappers'
  BY <1>1 DEF Wrappers
<1>5. \A g \in Joiners : g \in Handles
  BY JoinsAssumption DEF Handles
<1>6. HandlesHeld'
  <2>1. \A g \in Handles :
          io'[g].st = "Submitted" => Live(Owner[g])' /\ wrapper'[Owner[g]] = "await"
    BY <1>1, <1>2 DEF HandlesHeld, Live
  <2>2. \A g \in Joiners :
          wrapper'[Owner[g]] = "send" /\ phase'[Joins[g]] # "unspawned" => io'[g].st = "Gone"
    BY <1>1, <1>5 DEF HandlesHeld
  <2>3. \A g \in Multishots : io'[g].st = "New"
    BY RuntimeAssumption DEF HandlesHeld, Handles
  <2> QED
    BY <2>1, <2>2, <2>3 DEF HandlesHeld
<1>7. AnsweredAfterNotify'
  BY <1>5 DEF AnsweredAfterNotify
<1> QED
  BY <1>3, <1>4, <1>6, <1>7

\* A joiner is polled for the first time.
LEMMA JoinPendingJInv == ASSUME IInv, NEW h \in Joiners, JoinPending(h) PROVE JInv'
<1> USE DEF IInv, JInv
<1>1. /\ phase[Joins[h]] # "unspawned" /\ R!Polled(h) /\ R!U!OneshotSubmit(h, current)
      /\ UNCHANGED <<exec_vars, wrapper, count, chan, blocked>>
  BY DEF JoinPending, Untouched, join_vars
<1>2. h \in Oneshots /\ \A g \in Joiners : g \in Handles
  BY JoinsAssumption DEF Handles
<1>3. /\ \A g \in Handles : g # h => io'[g] = io[g] /\ got'[g] = got[g]
      /\ posted' = posted /\ sq \cup kernel \subseteq sq' \cup kernel'
      /\ io[h].st = "New" /\ io'[h].st = "Submitted"
  BY <1>1, <1>2, CallFacts
<1>4. wrapper[current] = "await"
  <2>1. current = Owner[h] /\ current \in Tasks /\ Live(current)
    BY <1>1, ExecFacts DEF R!Polled
  <2>2. wrapper[current] # "end"
    BY <2>1 DEF Wrappers, Live
  <2>3. wrapper[current] # "send"
    BY <1>1, <1>3, <2>1 DEF HandlesHeld
  <2> QED
    BY <2>1, <2>2, <2>3 DEF JoinTyped
<1>5. JoinTyped' /\ Received'
  BY <1>1, <1>2, <1>3 DEF JoinTyped, Received
<1> QED
  BY <1>1, <1>2, <1>3, <1>4, <1>5, CallJInv

\* A joiner whose read is answered finds the value in the channel: the wrapper that
\* notified was polled to its end before the task that awaits it.
LEMMA JoinReadyJInv == ASSUME IInv, NEW h \in Joiners, JoinReady(h) PROVE JInv'
<1> USE DEF IInv, JInv
<1> DEFINE t == Joins[h]
<1>1. /\ R!Polled(h) /\ R!U!OneshotReady(h) /\ UNCHANGED <<exec_vars, wrapper, count>>
      /\ chan' = [chan EXCEPT ![t] = IF @ = "full" THEN "taken" ELSE @]
      /\ blocked' = (chan[t] # "full")
  BY DEF JoinReady, Recv
<1>2. h \in Oneshots /\ t \in Tasks /\ \A g \in Joiners : /\ g \in Handles
                                                          /\ Joins[g] = t => g = h
  BY JoinsAssumption DEF Handles
<1>3. /\ \A g \in Handles : g # h => io'[g] = io[g] /\ got'[g] = got[g]
      /\ posted' = posted /\ sq \cup kernel \subseteq sq' \cup kernel'
      /\ io[h].st = "Submitted" /\ io'[h].st = "Finished" /\ posted[h] # <<>>
  BY <1>1, <1>2, CallFacts
<1>4. wrapper[t] = "end"
  <2>1. wrapper[t] # "await"
    BY <1>3 DEF AnsweredAfterNotify
  <2>2. wrapper[Owner[h]] = "await" /\ Owner[h] = current
    BY <1>1, <1>2, <1>3 DEF HandlesHeld, R!Polled
  <2>3. wrapper[t] # "send"
    BY <1>2, <2>2 DEF Wrappers
  <2> QED
    BY <1>2, <2>1, <2>3 DEF JoinTyped
<1>5. chan[t] = "full"
  BY <1>2, <1>3, <1>4 DEF Wrappers, Received, JoinTyped
<1> HIDE DEF t
<1>6. /\ blocked' = FALSE /\ chan'[t] = "taken" /\ \A u \in Tasks : u # t => chan'[u] = chan[u]
      /\ chan' \in [Tasks -> {"empty", "full", "taken", "closed"}]
  BY <1>1, <1>2, <1>5 DEF JoinTyped
<1>7. JoinTyped'
  BY <1>1, <1>6 DEF JoinTyped
<1>8. Received'
  BY <1>2, <1>3, <1>6, JoinsAssumption DEF Received
<1> QED
  BY <1>1, <1>2, <1>3, <1>6, <1>7, <1>8, CallJInv

\* A joiner is dropped, and the receiver with it.
LEMMA DropJoinerJInv == ASSUME IInv, NEW h \in Joiners, DropJoiner(h) PROVE JInv'
<1> USE DEF IInv, JInv
<1> DEFINE t == Joins[h]
<1>1. /\ R!Polled(h)
      /\ R!U!DropQuiet(h) \/ R!U!OneshotDrop(h)
      /\ UNCHANGED <<exec_vars, wrapper, count, blocked>>
      /\ chan' = [chan EXCEPT ![t] = "closed"]
  BY DEF DropJoiner
<1>2. h \in Oneshots /\ t \in Tasks /\ \A g \in Joiners : /\ g \in Handles
                                                          /\ Joins[g] = t => g = h
  BY JoinsAssumption DEF Handles
<1>3. /\ \A g \in Handles : g # h => io'[g] = io[g] /\ got'[g] = got[g]
      /\ posted' = posted /\ sq \cup kernel \subseteq sq' \cup kernel'
  BY <1>1, <1>2, CallFacts
<1>4. io[h].st # "Gone" /\ io'[h].st = "Gone"
  BY <1>1, <1>2, CallFacts
<1> HIDE DEF t
<1>5. /\ chan'[t] = "closed" /\ \A u \in Tasks : u # t => chan'[u] = chan[u]
      /\ chan' \in [Tasks -> {"empty", "full", "taken", "closed"}]
  BY <1>1, <1>2 DEF JoinTyped
<1>6. JoinTyped'
  BY <1>1, <1>5 DEF JoinTyped
<1>7. Received'
  BY <1>2, <1>3, <1>4, <1>5, JoinsAssumption DEF Received, t
<1> QED
  BY <1>1, <1>2, <1>3, <1>4, <1>5, <1>6, <1>7, CallJInv

\* The wrapped future polls or drops another handle.
LEMMA PollIoJInv == ASSUME IInv, NEW h \in Oneshots \ Joiners, PollIo(h) PROVE JInv'
<1> USE DEF IInv, JInv
<1>1. /\ R!Polled(h)
      /\ R!U!OneshotSubmit(h, current) \/ R!U!OneshotReady(h) \/ R!U!OneshotDrop(h)
      /\ UNCHANGED <<exec_vars, wrapper, count, chan, blocked>>
      /\ wrapper[current] = "await"
  BY DEF PollIo, At, Untouched, join_vars, R!PollOneshot, R!DropOneshot, exec_vars, R!exec_vars
<1>2. \A g \in Joiners : g \in Handles /\ g # h
  BY JoinsAssumption DEF Handles
<1>3. /\ \A g \in Handles : g # h => io'[g] = io[g] /\ got'[g] = got[g]
      /\ posted' = posted /\ sq \cup kernel \subseteq sq' \cup kernel' /\ io[h].st # "Gone"
  BY <1>1, CallFacts
<1>4. JoinTyped' /\ Received'
  BY <1>1, <1>2, <1>3 DEF JoinTyped, Received
<1> QED
  BY <1>1, <1>3, <1>4, CallJInv

\* A handle that has its result is dropped.
LEMMA DropFinishedJInv == ASSUME IInv, NEW h \in Oneshots, DropFinished(h) PROVE JInv'
<1> USE DEF IInv, JInv
<1>1. /\ R!Polled(h) /\ R!U!DropQuiet(h) /\ io[h].st = "Finished"
      /\ UNCHANGED <<exec_vars, wrapper, count, chan, blocked>>
  BY DEF DropFinished, Untouched, join_vars, R!DropFinished, exec_vars, R!exec_vars
<1>2. h \in Handles /\ \A g \in Joiners : g \in Handles
  BY JoinsAssumption DEF Handles
<1>3. /\ \A g \in Handles : g # h => io'[g] = io[g] /\ got'[g] = got[g]
      /\ posted' = posted /\ sq \cup kernel \subseteq sq' \cup kernel'
  BY <1>1, CallFacts
<1>4. io'[h].st = "Gone"
  BY <1>1, CallFacts
<1>5. JoinTyped' /\ Received'
  BY <1>1, <1>2, <1>3, <1>4 DEF JoinTyped, Received
<1> QED
  BY <1>1, <1>3, <1>4, <1>5, CallJInv

-----------------------------------------------------------------------------
\* The wrapper notifies: its future has let go of everything.
LEMMA NotifyJInv == ASSUME IInv, Notify PROVE JInv'
<1> USE DEF IInv, JInv
<1>1. /\ UNCHANGED <<run_q, waiting, current, pc, phase, io, sq, kernel, posted, got, entered,
                     batch, chan, blocked>>
      /\ pc = "poll" /\ wrapper[current] = "await"
      /\ wrapper' = [wrapper EXCEPT ![current] = "send"]
      /\ count' = [count EXCEPT ![current] = 1]
  BY DEF Notify, FutureReady, At, runtime_vars, exec_vars
<1>2. current \in Tasks
  BY <1>1, ExecFacts
<1>3. /\ wrapper'[current] = "send" /\ \A t \in Tasks : t # current => wrapper'[t] = wrapper[t]
      /\ \A t \in Tasks : t # current => count'[t] = count[t]
      /\ JoinTyped'
  BY <1>1, <1>2 DEF JoinTyped
<1>4. phase[current] # "done"
  BY <1>1, <1>2 DEF Wrappers
<1>5. Wrappers'
  BY <1>1, <1>2, <1>3, <1>4 DEF Wrappers
<1>6. SyncIdle' /\ Received' /\ Filled'
  BY <1>1 DEF SyncIdle, Received, Filled
<1>7. \A h \in Joiners : Joins[h] \in Tasks
  BY JoinsAssumption
<1>8. AnsweredAfterNotify'
  BY <1>1, <1>3, <1>7 DEF AnsweredAfterNotify
<1>9. HandlesHeld'
  <2>1. (\A h \in Handles : Owner[h] \in Tasks) /\ (\A h \in Joiners : h \in Handles)
    BY RuntimeAssumption, JoinsAssumption DEF Handles
  <2>2. \A h \in Handles : Owner[h] = current => io[h].st \in {"New", "Gone"}
    BY DEF Notify, FutureReady, R!HandlesGone, Handles, R!Handles
  <2>3. \A h \in Joiners : Owner[h] = current /\ phase[Joins[h]] # "unspawned" => io[h].st = "Gone"
    BY DEF Notify, FutureReady
  <2>4. \A h \in Handles :
          io'[h].st = "Submitted" => Live(Owner[h])' /\ wrapper'[Owner[h]] = "await"
    BY <1>1, <1>3, <2>1, <2>2 DEF HandlesHeld, Live
  <2>5. \A h \in Joiners :
          wrapper'[Owner[h]] = "send" /\ phase'[Joins[h]] # "unspawned" => io'[h].st = "Gone"
    BY <1>1, <1>3, <2>1, <2>3 DEF HandlesHeld
  <2> QED
    BY <1>1, <2>4, <2>5 DEF HandlesHeld
<1> QED
  BY <1>3, <1>5, <1>6, <1>8, <1>9

\* The wrapper sends the value and its task is done.
LEMMA SendJInv == ASSUME IInv, SendAndReturn PROVE JInv'
<1> USE DEF IInv, JInv
<1>1. /\ pc = "poll" /\ wrapper[current] = "send"
      /\ UNCHANGED <<waiting, io, posted, count, blocked>>
      /\ chan' = [chan EXCEPT ![current] = IF @ = "empty" THEN "full" ELSE @]
      /\ wrapper' = [wrapper EXCEPT ![current] = "end"]
      /\ phase' = [phase EXCEPT ![current] = "done"]
      /\ R!E!EndOfIteration(waiting)
  BY DEF SendAndReturn, At, R!PollReady, R!E!PollReady, R!uring_vars
<1>2. current \in Tasks
  BY <1>1, ExecFacts
<1>3. /\ wrapper'[current] = "end" /\ phase'[current] = "done" /\ chan'[current] # "empty"
      /\ chan[current] # "empty" => chan'[current] = chan[current]
      /\ chan[current] = "empty" => chan'[current] = "full"
      /\ \A t \in Tasks : t # current => /\ wrapper'[t] = wrapper[t] /\ chan'[t] = chan[t]
                                         /\ phase'[t] = phase[t]
      /\ JoinTyped'
  BY <1>1, <1>2, ExecFacts DEF JoinTyped
<1>4. \A t \in Tasks : wrapper'[t] # "send"
  BY <1>2, <1>3 DEF Wrappers
<1>5. Wrappers'
  BY <1>1, <1>3, <1>4 DEF Wrappers
<1>6. SyncIdle' /\ Filled'
  BY <1>1 DEF SyncIdle, Filled, R!E!EndOfIteration
<1>7. \A h \in Joiners : Joins[h] \in Tasks /\ Owner[h] \in Tasks
  BY JoinsAssumption, RuntimeAssumption
<1>8. Received'
  BY <1>1, <1>2, <1>3, <1>7 DEF Received
<1>9. AnsweredAfterNotify'
  BY <1>1, <1>3, <1>7 DEF AnsweredAfterNotify
<1>10. HandlesHeld'
  <2>1. \A h \in Handles : Owner[h] \in Tasks
    BY RuntimeAssumption DEF Handles
  <2>2. \A h \in Handles :
          io[h].st = "Submitted" => Owner[h] # current
    BY <1>1 DEF HandlesHeld
  <2> QED
    BY <1>1, <1>3, <1>4, <1>7, <2>1, <2>2 DEF HandlesHeld, Live
<1> QED
  BY <1>3, <1>5, <1>6, <1>8, <1>9, <1>10

\* Appending gives a sequence that is not empty.
LEMMA AppendNonEmpty ==
  ASSUME NEW S, NEW s \in Seq(S), NEW v \in S PROVE Append(s, v) # <<>>
<1>1. Len(Append(s, v)) = Len(s) + 1 /\ Len(s) \in Nat
  OBVIOUS
<1>2. Len(<<>>) = 0
  OBVIOUS
<1>3. Len(s) + 1 # 0
  BY <1>1
<1> QED
  BY <1>1, <1>2, <1>3, Zenon

\* The kernel answers: the read of a live joiner only after the notification.
LEMMA KernelJInv == ASSUME IInv, NEW op \in kernel, KernelEvent(op) \/ KernelIo(op) PROVE JInv'
<1> USE DEF IInv, JInv
<1>1. PICK v \in Results : R!KernelAnswers(op, v)
  BY JoinsAssumption DEF KernelEvent, KernelIo
<1>2. UNCHANGED <<wrapper, chan, blocked, run_q, waiting, current, pc, phase, io, got, sq,
                  entered, batch>>
  BY <1>1 DEF KernelEvent, KernelIo, join_vars, R!KernelAnswers, R!exec_vars, R!U!KernelFinish,
              R!U!KernelShot
<1>3. /\ \A h \in Handles : h # op.io => posted'[h] = posted[h]
      /\ posted'[op.io] # <<>>
      /\ \A o \in kernel : o # op => o \in kernel'
  <2>1. /\ posted' = [posted EXCEPT ![op.io] = Append(posted[op.io], v)]
        /\ kernel' = kernel \/ kernel' = kernel \ {op}
    BY <1>1 DEF R!KernelAnswers, R!U!KernelFinish, R!U!KernelShot, R!U!Finish
  <2>2. op.io \in Handles
    BY UringFacts
  <2>3. posted'[op.io] = Append(posted[op.io], v)
    BY <2>1, <2>2, UringFacts
  <2>4. posted[op.io] \in Seq(RP!UP!Values) /\ v \in RP!UP!Values
    BY <2>2 DEF RP!IInv, RP!UP!IInv, RP!UP!TypeOK, RP!UP!Handles, Handles, RP!UP!Values
  <2>5. Append(posted[op.io], v) # <<>>
    BY <2>4, AppendNonEmpty
  <2> QED
    BY <2>1, <2>2, <2>3, <2>5, UringFacts
<1>4. /\ count' \in [Tasks -> 0..1] /\ \A t \in Tasks : count'[t] = 1 => count[t] = 1
      /\ op.io \in Joiners => io[op.io].st = "Gone" \/ wrapper[Joins[op.io]] # "await"
  BY JoinsAssumption DEF JoinTyped, KernelEvent, KernelIo, join_vars, Wrappers
<1>5. JoinTyped' /\ SyncIdle' /\ Received' /\ Wrappers'
  BY <1>2, <1>4 DEF JoinTyped, SyncIdle, Received, Wrappers
<1>6. HandlesHeld'
  BY <1>2 DEF HandlesHeld, Live
<1>7. AnsweredAfterNotify'
  <2>1. \A h \in Joiners : h \in Handles
    BY JoinsAssumption DEF Handles
  <2> QED
    BY <1>2, <1>3, <1>4, <2>1 DEF AnsweredAfterNotify
<1>8. Filled => Filled'
  BY <1>2 DEF Filled
<1>9. SomeEarly => SomeEarly'
  <2>1. \A h \in Oneshots : posted[h] # <<>> => posted'[h] # <<>>
    BY <1>3 DEF Handles
  <2>2. \A o \in sq \cup kernel : o \in sq' \cup kernel' \/ posted'[o.io] # <<>>
    BY <1>2, <1>3
  <2> QED
    BY <1>2, <2>1, <2>2, EarlyKept
<1> QED
  BY <1>5, <1>6, <1>7, <1>8, <1>9

\* Nothing happens.
LEMMA StutterJInv == ASSUME IInv, UNCHANGED vars PROVE JInv'
<1>1. UNCHANGED <<run_q, waiting, current, pc, phase, io, sq, kernel, posted, got, entered,
                  batch, wrapper, count, chan, blocked>>
  BY DEF vars, runtime_vars, exec_vars, join_vars
<1> QED
  BY <1>1 DEF IInv, JInv, JoinTyped, SyncIdle, Wrappers, HandlesHeld, AnsweredAfterNotify,
              Received, SomeEarly, Early, Filled, Live

-----------------------------------------------------------------------------
\* A thread that has spawned nothing satisfies the invariant.
LEMMA InitIInv == Init => IInv
<1> SUFFICES ASSUME Init PROVE IInv
  OBVIOUS
<1>1. RP!Init
  BY DEF Init, R!Init, RP!Init, R!E!Init, RP!E!Init, R!U!Init, RP!U!Init, R!U!New, RP!U!New,
         R!U!Vacant, RP!U!Vacant, R!U!Handles, RP!U!Handles
<1>2. RP!IInv
  BY <1>1, RP!InitIInv, RuntimeAssumption DEF RP!Handles
<1>3. /\ pc = "sync" /\ waiting = [k \in TaskKeys |-> NoTask]
      /\ phase = [t \in Tasks |-> "unspawned"]
      /\ \A h \in Handles : io[h].st = "New" /\ posted[h] = <<>>
  BY DEF Init, R!Init, R!E!Init, R!U!Init, R!U!New, R!U!Handles, Handles
<1>4. JoinTyped /\ SyncIdle /\ Wrappers /\ Filled
  BY <1>3 DEF Init, JoinTyped, SyncIdle, Wrappers, Filled
<1>5. HandlesHeld
  <2>1. \A h \in Joiners : Owner[h] \in Tasks
    BY JoinsAssumption, RuntimeAssumption
  <2> QED
    BY <1>3, <2>1 DEF HandlesHeld, Handles, Init
<1>6. Received /\ AnsweredAfterNotify
  BY <1>3, JoinsAssumption DEF Init, Received, AnsweredAfterNotify, Handles
<1> QED
  BY <1>2, <1>4, <1>5, <1>6 DEF IInv, JInv

\* Every step keeps the invariant.
LEMMA StepIInv == IInv /\ [Next]_vars => IInv'
<1> SUFFICES ASSUME IInv, [Next]_vars PROVE IInv'
  OBVIOUS
<1>1. SUFFICES JInv'
  BY RuntimeKept DEF IInv
<1>2. ASSUME NEW t \in Tasks, spawn(t) \/ join(t) PROVE JInv'
  BY <1>2, SpawnJInv, JoinJInv
<1>3. CASE Run \/ Loop
  BY <1>3, ExecJInv, ReactJInv, WakeNextJInv DEF Run, Loop, Untouched
<1>4. CASE Notify \/ SendAndReturn \/ PollPending
  BY <1>4, NotifyJInv, SendJInv, PollPendingJInv
<1>5. ASSUME NEW h \in Joiners, JoinPending(h) \/ JoinReady(h) \/ DropJoiner(h) PROVE JInv'
  BY <1>5, JoinPendingJInv, JoinReadyJInv, DropJoinerJInv
<1>6. ASSUME NEW h \in Oneshots \ Joiners, PollIo(h) PROVE JInv'
  BY <1>6, PollIoJInv
<1>7. ASSUME NEW h \in Oneshots, DropFinished(h) PROVE JInv'
  BY <1>7, DropFinishedJInv
<1>8. ASSUME NEW op \in kernel, KernelEvent(op) \/ KernelIo(op) PROVE JInv'
  BY <1>8, KernelJInv
<1>9. CASE Over \/ UNCHANGED vars
  BY <1>9, StutterJInv DEF Over
<1> QED
  BY <1>2, <1>3, <1>4, <1>5, <1>6, <1>7, <1>8, <1>9 DEF Next, Thread, Kernel

\* The invariant holds in every reachable state.
THEOREM Invariance == Spec => []IInv
  BY InitIInv, StepIInv, PTL DEF Spec

\* The state of the thread, its wrappers and channels keeps its types.
THEOREM TypeCorrect == Spec => []TypeOK
<1>1. IInv => TypeOK
  <2> SUFFICES ASSUME IInv PROVE TypeOK
    OBVIOUS
  <2>1. R!TypeOK
    BY DEF IInv, RP!IInv, RP!Handles, R!TypeOK, R!Handles, RP!EP!IInv, RP!EP!TypeOK, R!E!TypeOK,
           RP!UP!IInv, RP!UP!TypeOK, R!U!TypeOK, R!U!Handles, RP!UP!Handles, R!U!IoStates,
           RP!UP!IoStates, R!U!PendingIos, RP!UP!PendingIos, R!U!OneshotResults,
           RP!UP!OneshotResults, R!U!MultishotResults, RP!UP!MultishotResults, R!U!Ops,
           RP!UP!Ops, R!U!Cqes, RP!UP!Cqes, R!U!Values, RP!UP!Values, R!U!ECANCELED,
           RP!UP!ECANCELED
  <2> QED
    BY <2>1 DEF IInv, JInv, JoinTyped, TypeOK
<1> QED
  BY <1>1, Invariance, PTL

\* Whoever joins whom and whatever is dropped, recv() finds the value: the thread
\* never blocks in it (task.rs:170-182, 204-205, 250).
THEOREM RecvAlwaysReturns == Spec => []RecvNeverBlocks
<1>1. IInv => RecvNeverBlocks
  BY DEF IInv, JInv, JoinTyped, RecvNeverBlocks
<1> QED
  BY <1>1, Invariance, PTL

\* As long as futures await every operation to its end, executor_loop's
\* run_q.pop().unwrap() finds a task after react() (task.rs:267-271).
THEOREM ReactAlwaysFillsRunQueue == Spec => []ReactFillsRunQueueUnlessDropped
<1>1. IInv => ReactFillsRunQueueUnlessDropped
  <2>1. SomeEarly => DroppedEarly
    BY DEF SomeEarly, Early, DroppedEarly, R!U!Outstanding
  <2> QED
    BY <2>1 DEF IInv, JInv, Filled, ReactFillsRunQueueUnlessDropped, R!ReactFillsRunQueue
<1> QED
  BY <1>1, Invariance, PTL
=============================================================================
