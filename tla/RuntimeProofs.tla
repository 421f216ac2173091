--------------------------- MODULE RuntimeProofs ---------------------------
(***************************************************************************)
(* Proofs about a thread of trale: its state keeps its types and no task   *)
(* sleeps on a result that is there, for any tasks, handles and indices.   *)
(***************************************************************************)
EXTENDS Runtime, TLAPS

\* The results on the executor and on the reactor, for the parts of this thread.
EP == INSTANCE ExecutorProofs WITH SelfWakers <- {}
UP == INSTANCE UringProofs WITH Wakers <- Tasks

\* A token's completion wakes the task that holds the handle.
EntriesWakeOwner ==
  \A u \in Keys, h \in Handles : UP!Token(u, h) => pending[u].obj = Owner[h]

\* The handles a waiting task awaits are its own, submitted and unanswered.
AwaitedUnanswered ==
  \A t \in Tasks :
    EP!Waits(t) => \A h \in awaits[t] : /\ Owner[h] = t
                                       /\ io[h].st = "Submitted"
                                       /\ ~HasResult(h)

\* The invariants of the two halves, and what joins them.
IInv ==
  /\ EP!IInv
  /\ UP!IInv
  /\ UP!RInv
  /\ awaits \in [Tasks -> SUBSET Handles]
  /\ EntriesWakeOwner
  /\ AwaitedUnanswered

-----------------------------------------------------------------------------
\* The executor's steps, as Runtime names them, preserve the executor's invariant.
LEMMA ExecSteps ==
  ASSUME EP!IInv,
         \/ \E t \in Tasks : E!Spawn(t) \/ E!Wake(t)
         \/ E!Run \/ E!React \/ E!ReactReturns \/ E!PopTask \/ E!PopPanics
         \/ E!PollReady \/ E!PollPending \/ UNCHANGED exec_vars
  PROVE  EP!IInv'
<1> USE NoTaskAssumption, KeysAssumption
<1>1. ASSUME NEW t \in Tasks, E!Spawn(t) PROVE EP!IInv'
  BY <1>1, EP!SpawnIInv DEF E!Spawn, EP!Spawn
<1>2. ASSUME NEW t \in Tasks, E!Wake(t) PROVE EP!IInv'
  BY <1>2, EP!WakeIInv DEF E!Wake, EP!Wake, E!wake, EP!wake
<1>3. CASE E!PopTask
  BY <1>3, EP!PopTaskIInv DEF E!PopTask, EP!PopTask, E!AtPop, EP!AtPop
<1>4. CASE E!PollReady
  BY <1>4, EP!PollReadyIInv DEF E!PollReady, EP!PollReady, E!EndOfIteration, EP!EndOfIteration
<1>5. CASE E!PollPending
  BY <1>5, EP!PollPendingIInv
  DEF E!PollPending, EP!PollPending, E!EndOfIteration, EP!EndOfIteration
<1>6. CASE E!Run \/ E!React \/ E!ReactReturns \/ E!PopPanics \/ UNCHANGED exec_vars
  BY <1>6, EP!ControlIInv
  DEF E!Run, EP!Run, E!React, EP!React, E!ReactReturns, EP!ReactReturns, E!PopPanics,
      EP!PopPanics, exec_vars, EP!exec_vars
<1> QED
  BY <1>1, <1>2, <1>3, <1>4, <1>5, <1>6

\* Both instances of FiniteSets count alike.
LEMMA SameCardinality == U!Cardinality(sq) = UP!Cardinality(sq)
BY DEF U!Cardinality, UP!Cardinality

\* The reactor's actions are those that UringProofs is about.
LEMMA SameOneshot ==
  ASSUME NEW h, NEW w
  PROVE  /\ U!OneshotSubmit(h, w) <=> UP!OneshotSubmit(h, w)
         /\ U!OneshotReady(h) <=> UP!OneshotReady(h)
         /\ U!OneshotDrop(h) <=> UP!OneshotDrop(h)
         /\ U!SubmitPanics(h) <=> UP!SubmitPanics(h)
         /\ U!DropQuiet(h) <=> UP!DropQuiet(h)
<1>1. (U!Idle <=> UP!Idle) /\ U!New = UP!New /\ U!Vacant = UP!Vacant /\ U!Gone = UP!Gone
  BY DEF U!Idle, UP!Idle, U!New, UP!New, U!Vacant, UP!Vacant, U!Gone, UP!Gone
<1>2. U!OneshotSubmit(h, w) <=> UP!OneshotSubmit(h, w)
  BY <1>1, SameCardinality DEF U!OneshotSubmit, UP!OneshotSubmit, U!VacantKeys, UP!VacantKeys,
              U!ResultPending, UP!ResultPending, U!submit_io, UP!submit_io, U!PendingIo,
              UP!PendingIo, U!Op, UP!Op, U!SubmittedOneshot, UP!SubmittedOneshot
<1>3. U!OneshotReady(h) <=> UP!OneshotReady(h)
  BY <1>1 DEF U!OneshotReady, UP!OneshotReady, U!Finished, UP!Finished,
              U!reactor_value_to_result, UP!reactor_value_to_result
<1>4. U!OneshotDrop(h) <=> UP!OneshotDrop(h)
  BY <1>1 DEF U!OneshotDrop, UP!OneshotDrop, U!oneshot_drop_result, UP!oneshot_drop_result,
              U!ResultDropped, UP!ResultDropped
<1>5. /\ U!SubmitPanics(h) <=> UP!SubmitPanics(h)
      /\ U!DropQuiet(h) <=> UP!DropQuiet(h)
  BY <1>1, SameCardinality DEF U!SubmitPanics, UP!SubmitPanics, U!DropQuiet, UP!DropQuiet
<1> QED
  BY <1>2, <1>3, <1>4, <1>5

\* The same for a multishot.
LEMMA SameMulti ==
  ASSUME NEW h, NEW w
  PROVE  /\ U!MultiSubmit(h, w) <=> UP!MultiSubmit(h, w)
         /\ U!MultiReady(h) <=> UP!MultiReady(h)
         /\ U!MultiDrop(h) <=> UP!MultiDrop(h)
         /\ U!MultiDropPanics(h) <=> UP!MultiDropPanics(h)
<1>1. (U!Idle <=> UP!Idle) /\ U!New = UP!New /\ U!Vacant = UP!Vacant /\ U!Gone = UP!Gone
  BY DEF U!Idle, UP!Idle, U!New, UP!New, U!Vacant, UP!Vacant, U!Gone, UP!Gone
<1>2. U!MultiSubmit(h, w) <=> UP!MultiSubmit(h, w)
  BY <1>1, SameCardinality DEF U!MultiSubmit, UP!MultiSubmit, U!VacantKeys, UP!VacantKeys,
              U!NewShots, UP!NewShots, U!submit_io, UP!submit_io, U!PendingIo,
              UP!PendingIo, U!Op, UP!Op, U!SubmittedMulti, UP!SubmittedMulti
<1>3. U!MultiReady(h) <=> UP!MultiReady(h)
  BY <1>1 DEF U!MultiReady, UP!MultiReady,
              U!reactor_value_to_result, UP!reactor_value_to_result
<1>4. /\ U!MultiDrop(h) <=> UP!MultiDrop(h)
      /\ U!MultiDropPanics(h) <=> UP!MultiDropPanics(h)
  BY <1>1 DEF U!MultiDrop, UP!MultiDrop, U!MultiDropPanics, UP!MultiDropPanics,
              U!Cancellable, UP!Cancellable, U!multishot_drop_result, UP!multishot_drop_result,
              U!Finish, UP!Finish, U!Cqe, UP!Cqe, U!ECANCELED, UP!ECANCELED
<1> QED
  BY <1>2, <1>3, <1>4

\* The same for react() and the kernel.
LEMMA SameReact ==
  ASSUME NEW o, NEW v
  PROVE  /\ U!SubmitAndWait <=> UP!SubmitAndWait
         /\ U!Completion <=> UP!Completion
         /\ U!NextOneshot <=> UP!NextOneshot
         /\ U!NextMulti <=> UP!NextMulti
         /\ U!KernelFinish(o, v) <=> UP!KernelFinish(o, v)
         /\ U!KernelShot(o, v) <=> UP!KernelShot(o, v)
         /\ U!Entry = UP!Entry /\ U!Yielded = pending[UP!Entry.ud].obj
<1>1. (U!Idle <=> UP!Idle) /\ U!Vacant = UP!Vacant
  BY DEF U!Idle, UP!Idle, U!Vacant, UP!Vacant
<1>2. U!Entry = UP!Entry /\ U!EntryIo = UP!EntryIo /\ U!Yielded = pending[UP!Entry.ud].obj
  BY DEF U!Entry, UP!Entry, U!EntryIo, UP!EntryIo, U!Yielded
<1>3. (U!SubmitAndWait <=> UP!SubmitAndWait) /\ (U!Completion <=> UP!Completion)
  BY <1>1 DEF U!SubmitAndWait, UP!SubmitAndWait, U!Completion, UP!Completion
<1>4. U!NextOneshot <=> UP!NextOneshot
  BY <1>1, <1>2 DEF U!NextOneshot, UP!NextOneshot, U!set_result, UP!set_result,
                    U!ResultDropped, UP!ResultDropped, U!ResultSet, UP!ResultSet
<1>5. U!NextMulti <=> UP!NextMulti
  BY <1>1, <1>2 DEF U!NextMulti, UP!NextMulti, U!push_result, UP!push_result,
                    U!RingPush, UP!RingPush, U!set_finished, UP!set_finished
<1>6. /\ U!KernelFinish(o, v) <=> UP!KernelFinish(o, v)
      /\ U!KernelShot(o, v) <=> UP!KernelShot(o, v)
  BY DEF U!KernelFinish, UP!KernelFinish, U!KernelShot, UP!KernelShot, U!Finish, UP!Finish,
         U!Cqe, UP!Cqe
<1> QED
  BY <1>2, <1>3, <1>4, <1>5, <1>6

-----------------------------------------------------------------------------
\* A thread that has done nothing satisfies the invariant.
LEMMA InitIInv == Init => IInv
<1> SUFFICES ASSUME Init PROVE IInv
  OBVIOUS
<1>1. EP!Init /\ EP!IInv
  BY EP!InitIInv, NoTaskAssumption, KeysAssumption DEF Init, E!Init, EP!Init
<1>2. UP!Init
  BY DEF Init, U!Init, UP!Init, U!New, UP!New, U!Vacant, UP!Vacant, U!Handles, UP!Handles
<1>3. UP!IInv /\ UP!RInv
  BY <1>2, UP!InitIInv, UP!InitRInv, HandlesAssumption, ResultsAssumption, BoundsAssumption
<1>4. \A u, h : ~UP!Token(u, h)
  BY <1>2 DEF UP!Init, UP!Token, UP!InOps, UP!InCompletions
<1>5. \A t \in Tasks : ~EP!Waits(t)
  BY <1>1, NoTaskAssumption, KeysAssumption DEF EP!Init, EP!Waits
<1> QED
  BY <1>1, <1>3, <1>4, <1>5 DEF IInv, Init, EntriesWakeOwner, AwaitedUnanswered

\* A step of the reactor preserves its invariants.
LEMMA UringSteps ==
  ASSUME IInv, [UP!Next]_uring_vars PROVE UP!IInv' /\ UP!RInv'
<1>1. [UP!Next]_UP!uring_vars
  BY DEF uring_vars, UP!uring_vars
<1> QED
  BY <1>1, UP!StepIInv, UP!StepRInv, HandlesAssumption, ResultsAssumption, BoundsAssumption DEF IInv

\* Waking takes the task out of `waiting`; only poll() puts one there.
LEMMA WakeEndsWait ==
  ASSUME IInv, NEW t \in Tasks, E!Wake(t)
  PROVE  ~EP!Waits(t)' /\ \A u \in Tasks : EP!Waits(u)' => EP!Waits(u)
<1>1. EP!IInv'
  BY ExecSteps DEF IInv
<1>2. notified'[t]
  BY DEF IInv, EP!IInv, EP!TypeOK, E!Wake
<1>3. \A u \in Tasks : EP!Waits(u)' => EP!Waits(u)
  BY NoTaskAssumption, KeysAssumption DEF IInv, EP!IInv, EP!TypeOK, E!Wake, E!wake, EP!Waits
<1> QED
  BY <1>1, <1>2, <1>3 DEF EP!IInv, EP!NoLostWake

\* Whether a handle has its result depends on its state and its slot.
LEMMA ResultOfSlot ==
  ASSUME NEW h \in Handles, io'[h] = io[h], UP!Slot(h)' = UP!Slot(h)
  PROVE  HasResult(h)' <=> HasResult(h)
BY DEF HasResult, UP!Slot

\* Steps that end waits at most, and touch neither handles nor results.
LEMMA QuietAwaits ==
  ASSUME AwaitedUnanswered, UNCHANGED <<io, oneshot, multishot, awaits>>,
         \A t \in Tasks : EP!Waits(t)' => EP!Waits(t)
  PROVE  AwaitedUnanswered'
BY DEF AwaitedUnanswered, HasResult

\* Steps of the executor alone.
LEMMA ExecOnlyIInv ==
  ASSUME IInv, UNCHANGED <<uring_vars, awaits>>,
         \/ \E t \in Tasks : E!Spawn(t)
         \/ E!Run \/ E!ReactReturns \/ E!PopTask \/ E!PopPanics \/ E!PollReady
         \/ UNCHANGED exec_vars
  PROVE  IInv'
<1>1. EP!IInv'
  BY ExecSteps DEF IInv
<1>2. UP!IInv' /\ UP!RInv'
  BY UringSteps
<1>3. \A u, h : UP!Token(u, h)' <=> UP!Token(u, h)
  BY DEF UP!Token, UP!InOps, UP!InCompletions, uring_vars
<1>4. waiting' = waiting
  BY DEF E!Spawn, E!Run, E!ReactReturns, E!PopTask, E!PopPanics, E!PollReady, exec_vars
<1>5. AwaitedUnanswered'
  BY <1>4, QuietAwaits DEF IInv, EP!Waits, uring_vars
<1> QED
  BY <1>1, <1>2, <1>3, <1>5 DEF IInv, EntriesWakeOwner, uring_vars

\* Steps of the reactor and the kernel that route no completion.
LEMMA ReactorIInv ==
  ASSUME IInv, UNCHANGED awaits,
         \/ E!React /\ U!SubmitAndWait
         \/ UNCHANGED exec_vars /\ U!Completion
         \/ /\ UNCHANGED exec_vars
            /\ \E o \in kernel, v \in Results : U!KernelFinish(o, v) \/ U!KernelShot(o, v)
  PROVE  IInv'
<1>1. EP!IInv' /\ waiting' = waiting
  BY ExecSteps DEF IInv, E!React, exec_vars
<1>2. \/ UP!SubmitAndWait \/ UP!Completion
      \/ \E o \in kernel, v \in Results : UP!KernelFinish(o, v) \/ UP!KernelShot(o, v)
  BY SameReact
<1>3. UP!IInv' /\ UP!RInv'
  BY <1>2, UringSteps DEF UP!Next
<1>4. \A u \in Keys, g \in Handles :
        UP!Token(u, g)' => UP!Token(u, g) /\ pending'[u] = pending[u]
  BY <1>2, UP!OtherOrigin, HandlesAssumption, ResultsAssumption, BoundsAssumption DEF IInv, Handles, UP!Handles
<1>5. EntriesWakeOwner'
  BY <1>4 DEF IInv, EntriesWakeOwner
<1>6. UNCHANGED <<io, oneshot, multishot>>
  BY DEF U!SubmitAndWait, U!Completion, U!KernelFinish, U!KernelShot
<1>7. AwaitedUnanswered'
  BY <1>1, <1>6, QuietAwaits DEF IInv, EP!Waits
<1> QED
  BY <1>1, <1>3, <1>5, <1>7 DEF IInv

\* Steps of the current task on its handle h: no waiting task holds h, and a new
\* token wakes the current task.
LEMMA CallIInv ==
  ASSUME IInv, NEW h \in Handles, Polled(h), UNCHANGED <<exec_vars, awaits>>,
         UP!IInv', UP!RInv',
         \A g \in Handles :
           g # h /\ io[g].st = "Submitted" =>
             io'[g] = io[g] /\ UP!Slot(g)' = UP!Slot(g),
         \A u \in Keys, g \in Handles :
           UP!Token(u, g)' => \/ UP!Token(u, g) /\ pending'[u] = pending[u]
                              \/ g = h /\ pending'[u].obj = current
  PROVE  IInv'
<1>1. current \in Tasks /\ ~EP!Waits(current)
  BY DEF IInv, EP!IInv, EP!TypeOK, EP!PollsCurrent, EP!OnePlace, Polled
<1>2. EP!IInv' /\ waiting' = waiting
  BY ExecSteps DEF IInv, exec_vars
<1>3. EntriesWakeOwner'
  BY DEF IInv, EntriesWakeOwner, Polled
<1>4. ASSUME NEW t \in Tasks, EP!Waits(t), NEW g \in awaits[t]
      PROVE  Owner[g] = t /\ io'[g].st = "Submitted" /\ ~HasResult(g)'
  <2>1. g \in Handles /\ Owner[g] = t /\ io[g].st = "Submitted" /\ ~HasResult(g)
    BY <1>4 DEF IInv, AwaitedUnanswered
  <2>2. g # h
    BY <1>1, <1>4, <2>1 DEF Polled
  <2> QED
    BY <2>1, <2>2, ResultOfSlot
<1>5. AwaitedUnanswered'
  BY <1>2, <1>4 DEF AwaitedUnanswered, EP!Waits
<1> QED
  BY <1>2, <1>3, <1>5 DEF IInv

\* A oneshot handle is submitted, taken or dropped by its task.
LEMMA OneshotIInv ==
  ASSUME IInv, NEW h \in Oneshots, Polled(h), UNCHANGED <<exec_vars, awaits>>,
         U!OneshotSubmit(h, current) \/ U!OneshotReady(h) \/ U!OneshotDrop(h)
  PROVE  IInv'
<1>1. current \in Tasks /\ h \in Handles /\ h \in UP!Handles
  BY DEF IInv, EP!IInv, EP!TypeOK, EP!PollsCurrent, Polled, Handles, UP!Handles
<1>2. UP!OneshotSubmit(h, current) \/ UP!OneshotReady(h) \/ UP!OneshotDrop(h)
  BY SameOneshot
<1>3. UP!IInv' /\ UP!RInv'
  BY <1>1, <1>2, UringSteps DEF UP!Next
<1>4. \A g \in Handles : g # h /\ io[g].st = "Submitted" =>
                           io'[g] = io[g] /\ UP!Slot(g)' = UP!Slot(g)
  BY <1>1, <1>2, UP!OneshotCallSlots, HandlesAssumption, ResultsAssumption, BoundsAssumption
  DEF IInv, UP!OneshotCall, Handles, UP!Handles
<1>5. \A u \in Keys, g \in Handles :
        UP!Token(u, g)' => \/ UP!Token(u, g) /\ pending'[u] = pending[u]
                           \/ g = h /\ pending'[u].obj = current
  BY <1>1, <1>2, UP!SubmitOrigin, UP!OtherOrigin, HandlesAssumption, ResultsAssumption, BoundsAssumption
  DEF IInv, Handles, UP!Handles
<1> QED
  BY <1>1, <1>3, <1>4, <1>5, CallIInv

\* The same for a multishot handle.
LEMMA MultiIInv ==
  ASSUME IInv, NEW h \in Multishots, Polled(h), UNCHANGED <<exec_vars, awaits>>,
         U!MultiSubmit(h, current) \/ U!MultiReady(h) \/ U!MultiDrop(h)
  PROVE  IInv'
<1>1. current \in Tasks /\ h \in Handles /\ h \in UP!Handles
  BY DEF IInv, EP!IInv, EP!TypeOK, EP!PollsCurrent, Polled, Handles, UP!Handles
<1>2. UP!MultiSubmit(h, current) \/ UP!MultiReady(h) \/ UP!MultiDrop(h)
  BY SameMulti
<1>3. UP!IInv' /\ UP!RInv'
  BY <1>1, <1>2, UringSteps DEF UP!Next
<1>4. \A g \in Handles : g # h /\ io[g].st = "Submitted" =>
                           io'[g] = io[g] /\ UP!Slot(g)' = UP!Slot(g)
  BY <1>1, <1>2, UP!MultiCallSlots, HandlesAssumption, ResultsAssumption, BoundsAssumption
  DEF IInv, UP!MultiCall, Handles, UP!Handles
<1>5. \A u \in Keys, g \in Handles :
        UP!Token(u, g)' => \/ UP!Token(u, g) /\ pending'[u] = pending[u]
                           \/ g = h /\ pending'[u].obj = current
  BY <1>1, <1>2, UP!SubmitOrigin, UP!OtherOrigin, HandlesAssumption, ResultsAssumption, BoundsAssumption
  DEF IInv, Handles, UP!Handles
<1> QED
  BY <1>1, <1>3, <1>4, <1>5, CallIInv

\* A handle with nothing in flight is dropped, or a call on it panics.
LEMMA QuietCallIInv ==
  ASSUME IInv, NEW h \in Handles, Polled(h), UNCHANGED <<exec_vars, awaits>>,
         \/ U!SubmitPanics(h) \/ U!DropQuiet(h)
         \/ h \in Multishots /\ U!MultiDropPanics(h)
  PROVE  IInv'
<1>1. h \in UP!Handles
  BY DEF Handles, UP!Handles
<1>2. UP!SubmitPanics(h) \/ UP!DropQuiet(h) \/ (h \in Multishots /\ UP!MultiDropPanics(h))
  BY SameOneshot, SameMulti
<1>3. UP!IInv' /\ UP!RInv'
  BY <1>1, <1>2, UringSteps DEF UP!Next
<1>4. io \in [Handles -> U!IoStates]
  BY DEF IInv, UP!IInv, UP!TypeOK, Handles, UP!Handles, U!IoStates, UP!IoStates, U!Values,
         UP!Values, U!ECANCELED, UP!ECANCELED
<1>5. /\ UNCHANGED <<oneshot, multishot>>
      /\ \A g \in Handles : g # h => io'[g] = io[g]
  BY <1>4 DEF U!SubmitPanics, U!DropQuiet, U!MultiDropPanics
<1>6. \A g \in Handles : g # h /\ io[g].st = "Submitted" =>
                           io'[g] = io[g] /\ UP!Slot(g)' = UP!Slot(g)
  BY <1>5 DEF UP!Slot
<1>7. \A u \in Keys, g \in Handles :
        UP!Token(u, g)' => UP!Token(u, g) /\ pending'[u] = pending[u]
  BY <1>1, <1>2, UP!OtherOrigin, HandlesAssumption, ResultsAssumption, BoundsAssumption DEF IInv, Handles, UP!Handles
<1> QED
  BY <1>3, <1>6, <1>7, CallIInv

\* A completion is routed and its task woken: the task may be the one whose
\* handle now has a result, and it waits no longer.
LEMMA WakeNextIInv == ASSUME IInv, WakeNext PROVE IInv'
<1> DEFINE e == UP!Entry
<1>1. /\ UP!NextOneshot \/ UP!NextMulti
      /\ E!Wake(pending[UP!Entry.ud].obj) /\ awaits' = awaits
  BY SameReact DEF WakeNext
<1>2. UP!IInv' /\ UP!RInv'
  BY <1>1, UringSteps DEF UP!Next
<1>3. e.ud \in Keys /\ e.io \in Handles /\ UP!Token(e.ud, e.io)
  <2>1. batch > 0
    BY <1>1 DEF UP!NextOneshot, UP!NextMulti
  <2> QED
    BY <2>1, UP!EntryFacts, HandlesAssumption, ResultsAssumption, BoundsAssumption DEF IInv, Handles, UP!Handles
<1>4. PICK t \in Tasks : t = Owner[e.io] /\ E!Wake(t)
  BY <1>1, <1>3, OwnerAssumption DEF IInv, EntriesWakeOwner, Handles
<1>5. EP!IInv'
  BY <1>4, ExecSteps DEF IInv
<1>6. ~EP!Waits(t)' /\ \A u \in Tasks : EP!Waits(u)' => EP!Waits(u)
  BY <1>4, WakeEndsWait
<1>7. /\ io' = io
      /\ \A g \in Handles : g # e.io /\ io[g].st = "Submitted" => UP!Slot(g)' = UP!Slot(g)
  BY <1>1, UP!ReapedSlots, HandlesAssumption, ResultsAssumption, BoundsAssumption DEF IInv, Handles, UP!Handles
<1>8. \A u \in Keys, g \in Handles :
        UP!Token(u, g)' => UP!Token(u, g) /\ pending'[u] = pending[u]
  BY <1>1, UP!OtherOrigin, HandlesAssumption, ResultsAssumption, BoundsAssumption DEF IInv, Handles, UP!Handles
<1>9. EntriesWakeOwner'
  BY <1>8 DEF IInv, EntriesWakeOwner
<1>10. ASSUME NEW u \in Tasks, EP!Waits(u)', NEW g \in awaits[u]
       PROVE  Owner[g] = u /\ io'[g].st = "Submitted" /\ ~HasResult(g)'
  <2>1. EP!Waits(u)
    BY <1>6, <1>10
  <2>2. g \in Handles /\ Owner[g] = u /\ io[g].st = "Submitted" /\ ~HasResult(g)
    BY <2>1 DEF IInv, AwaitedUnanswered
  <2>3. g # e.io
    BY <1>4, <1>6, <1>10, <2>2
  <2> QED
    BY <1>7, <2>2, <2>3, ResultOfSlot
<1>11. AwaitedUnanswered'
  BY <1>1, <1>10 DEF AwaitedUnanswered
<1> QED
  BY <1>1, <1>2, <1>5, <1>9, <1>11 DEF IInv

\* A task that starts to wait awaits handles it has found unanswered.
LEMMA PollPendingIInv == ASSUME IInv, PollPending PROVE IInv'
<1>1. current \in Tasks /\ E!PollPending
  BY DEF IInv, EP!IInv, EP!TypeOK, EP!PollsCurrent, PollPending, E!PollPending
<1>2. EP!IInv'
  BY <1>1, ExecSteps DEF IInv
<1>3. UP!IInv' /\ UP!RInv' /\ UNCHANGED <<io, pending, oneshot, multishot, sq, kernel, cq>>
  BY UringSteps DEF PollPending, uring_vars
<1>4. PICK A \in SUBSET {h \in Handles : /\ Owner[h] = current
                                         /\ io[h].st = "Submitted"
                                         /\ ~HasResult(h)} :
        awaits' = [awaits EXCEPT ![current] = A]
  BY DEF PollPending
<1>5. awaits' \in [Tasks -> SUBSET Handles]
  BY <1>1, <1>4 DEF IInv
<1>6. \A u \in Tasks : EP!Waits(u)' => EP!Waits(u) \/ u = current
  BY <1>1 DEF E!PollPending, EP!Waits, IInv, EP!IInv, EP!TypeOK
<1>7. EntriesWakeOwner'
  BY <1>3 DEF IInv, EntriesWakeOwner, UP!Token, UP!InOps, UP!InCompletions
<1>8. ASSUME NEW u \in Tasks, EP!Waits(u)', NEW g \in awaits'[u]
      PROVE  Owner[g] = u /\ io[g].st = "Submitted" /\ ~HasResult(g)
  <2>1. CASE u = current
    BY <1>1, <1>4, <2>1 DEF IInv
  <2>2. CASE u # current
    BY <1>1, <1>4, <1>6, <1>8, <2>2 DEF IInv, AwaitedUnanswered
  <2> QED
    BY <2>1, <2>2
<1>9. AwaitedUnanswered'
  BY <1>3, <1>8 DEF AwaitedUnanswered, HasResult
<1> QED
  BY <1>2, <1>3, <1>5, <1>7, <1>9 DEF IInv

\* Every step of the thread and the kernel preserves the invariant.
LEMMA StepIInv == ASSUME IInv, [Next]_vars PROVE IInv'
<1>1. CASE \/ \E t \in Tasks : Spawn(t)
           \/ Run \/ PopTask \/ PopPanics \/ PollReady \/ ReactReturns
           \/ Over \/ UNCHANGED vars
  BY <1>1, ExecOnlyIInv
  DEF Spawn, Run, PopTask, PopPanics, PollReady, ReactReturns, Over, vars
<1>2. ASSUME NEW h \in Oneshots, PollOneshot(h) \/ DropOneshot(h) PROVE IInv'
  BY <1>2, OneshotIInv DEF PollOneshot, DropOneshot
<1>3. ASSUME NEW h \in Multishots, PollMultishot(h) \/ DropMultishot(h) PROVE IInv'
  BY <1>3, MultiIInv, QuietCallIInv DEF PollMultishot, DropMultishot, Handles
<1>4. ASSUME NEW h \in Handles, PollPanics(h) \/ DropFinished(h) PROVE IInv'
  BY <1>4, QuietCallIInv DEF PollPanics, DropFinished
<1>5. CASE React \/ Completion \/ Kernel
  BY <1>5, ReactorIInv DEF React, Completion, Kernel, KernelAnswers
<1> QED
  BY <1>1, <1>2, <1>3, <1>4, <1>5, WakeNextIInv, PollPendingIInv DEF Next, Thread

\* IInv is an invariant of the thread.
THEOREM Invariance == Spec => []IInv
  BY InitIInv, StepIInv, PTL DEF Spec

\* The state of the executor, the reactor and the futures keeps its types.
THEOREM TypeCorrect == Spec => []TypeOK
<1>1. IInv => TypeOK
  BY DEF IInv, TypeOK, EP!IInv, EP!TypeOK, E!TypeOK, UP!IInv, UP!TypeOK, U!TypeOK,
         U!Handles, UP!Handles, U!IoStates, UP!IoStates, U!PendingIos, UP!PendingIos,
         U!OneshotResults, UP!OneshotResults, U!MultishotResults, UP!MultishotResults,
         U!Ops, UP!Ops, U!Cqes, UP!Cqes, U!Values, UP!Values, U!ECANCELED, UP!ECANCELED
<1> QED
  BY <1>1, Invariance, PTL

\* No task sleeps on a result that is there, and what a sleeping task awaits is
\* still to complete: for any tasks, handles, indices and buffers.
THEOREM NoTaskStranded == Spec => []NoStrandedTask
<1>1. ASSUME IInv, NEW t \in Tasks, E!Waits(t), NEW h \in awaits[t]
      PROVE  ~HasResult(h) /\ U!Outstanding(h)
  <2>1. h \in Handles /\ io[h].st = "Submitted" /\ ~HasResult(h)
    BY <1>1 DEF IInv, AwaitedUnanswered, E!Waits, EP!Waits
  <2>2. \E u \in Keys : UP!Token(u, h)
    <3>1. CASE h \in Oneshots
      <4>1. oneshot[io[h].slot].st = "Pending"
        BY <1>1, <2>1, <3>1 DEF IInv, UP!IInv, UP!OneshotSlots, HasResult
      <4> QED
        BY <1>1, <2>1, <3>1, <4>1 DEF IInv, UP!RInv, UP!TokensRemain
    <3>2. CASE h \in Multishots
      <4>1. h \notin Oneshots
        BY <3>2, HandlesAssumption, ResultsAssumption, BoundsAssumption
      <4>2. ~multishot[io[h].slot].finished
        BY <2>1, <4>1 DEF HasResult
      <4> QED
        BY <1>1, <2>1, <3>2, <4>2 DEF IInv, UP!RInv, UP!TokensRemain
    <3> QED
      BY <2>1, <3>1, <3>2 DEF Handles
  <2>3. U!Outstanding(h)
    BY <2>2 DEF UP!Token, UP!InOps, UP!InCompletions, UP!Op, U!Outstanding
  <2> QED
    BY <2>1, <2>3
<1>2. IInv => NoStrandedTask
  BY <1>1 DEF NoStrandedTask
<1> QED
  BY <1>2, Invariance, PTL
=============================================================================
