-------------------------- MODULE ExecutorProofs ---------------------------
(***************************************************************************)
(* Proofs that the executor loses and duplicates no task, that wakers find *)
(* their tasks, that no wake from outside is lost and that run() returns   *)
(* only when every task is done, for any sets of tasks and indices.        *)
(***************************************************************************)
EXTENDS Executor, TLAPS

\* The loop holds a task in its hands exactly while it polls.
PollsCurrent == pc = "poll" <=> current # NoTask

\* The task being polled has not been woken by others since the poll began.
CurrentUnnotified ==
  \A t \in Tasks \ SelfWakers : current = t => ~notified[t]

\* What a step needs beyond the properties themselves.
IInv ==
  /\ TypeOK
  /\ OnePlace
  /\ WakerFindsTask
  /\ NoLostWake
  /\ PollsCurrent
  /\ CurrentUnnotified

-----------------------------------------------------------------------------
\* Appending a task that is not queued: queued afterwards are the old ones and it.
LEMMA AppendQueues ==
  ASSUME NEW q \in Seq(Tasks), NEW t \in Tasks, \A i \in DOMAIN q : q[i] # t,
         \A u, v \in DOMAIN q : q[u] = q[v] => u = v,
         NEW r, r = Append(q, t)
  PROVE  /\ r \in Seq(Tasks)
         /\ \A u : (\E i \in DOMAIN r : r[i] = u)
                     <=> u = t \/ \E i \in DOMAIN q : q[i] = u
         /\ \A u, v \in DOMAIN r : r[u] = r[v] => u = v
<1> DEFINE n == Len(q)
<1>1. /\ n \in Nat
      /\ DOMAIN q = 1..n
      /\ r \in Seq(Tasks)
      /\ DOMAIN r = 1..(n + 1)
      /\ \A i \in 1..n : r[i] = q[i]
      /\ r[n + 1] = t
  OBVIOUS
<1> HIDE DEF n
<1>2. \A i \in DOMAIN r : i = n + 1 \/ i \in DOMAIN q
  BY <1>1
<1>3. \A i \in DOMAIN q : i \in DOMAIN r /\ r[i] = q[i]
  BY <1>1
<1>4. n + 1 \in DOMAIN r
  BY <1>1
<1>5. \A u : (\E i \in DOMAIN r : r[i] = u) <=> u = t \/ \E i \in DOMAIN q : q[i] = u
  BY <1>1, <1>2, <1>3, <1>4
<1>6. \A u, v \in DOMAIN r : r[u] = r[v] => u = v
  BY <1>1, <1>2, <1>3
<1> QED
  BY <1>1, <1>5, <1>6

\* Popping the last task of a queue without duplicates: the others stay.
LEMMA PopUnqueues ==
  ASSUME NEW q \in Seq(Tasks), q # <<>>,
         \A u, v \in DOMAIN q : q[u] = q[v] => u = v,
         NEW r \in Seq(Tasks), DOMAIN r = 1..(Len(q) - 1), \A i \in DOMAIN r : r[i] = q[i]
  PROVE  /\ q[Len(q)] \in Tasks
         /\ \A u : (\E i \in DOMAIN r : r[i] = u)
                     <=> u # q[Len(q)] /\ \E i \in DOMAIN q : q[i] = u
         /\ \A u, v \in DOMAIN r : r[u] = r[v] => u = v
<1> DEFINE n == Len(q)
<1>1. /\ n \in Nat \ {0}
      /\ DOMAIN q = 1..n
      /\ q[n] \in Tasks
      /\ r \in Seq(Tasks)
      /\ DOMAIN r = 1..(n - 1)
      /\ \A i \in 1..(n - 1) : r[i] = q[i]
  OBVIOUS
<1> HIDE DEF n
<1>2. \A i \in DOMAIN r : i \in DOMAIN q /\ i # n /\ r[i] = q[i]
  BY <1>1
<1>3. \A i \in DOMAIN q : i = n \/ i \in DOMAIN r
  BY <1>1
<1>4. n \in DOMAIN q
  BY <1>1
<1>5. \A u : (\E i \in DOMAIN r : r[i] = u)
              <=> u # q[n] /\ \E i \in DOMAIN q : q[i] = u
  BY <1>2, <1>3, <1>4
<1>6. \A u, v \in DOMAIN r : r[u] = r[v] => u = v
  BY <1>2
<1> QED
  BY <1>1, <1>5, <1>6 DEF n

-----------------------------------------------------------------------------
\* A thread that has spawned nothing satisfies the invariant.
LEMMA InitIInv == Init => IInv
  BY NoTaskAssumption, KeysAssumption
  DEF Init, IInv, TypeOK, OnePlace, WakerFindsTask, NoLostWake, PollsCurrent,
      CurrentUnnotified, Queued, Waits, Live

\* Spawning puts a new task in the run queue.
LEMMA SpawnIInv == ASSUME IInv, NEW t \in Tasks, Spawn(t) PROVE IInv'
<1> USE NoTaskAssumption DEF IInv
<1>1. ~Queued(t) /\ ~Waits(t) /\ current # t
  BY DEF Spawn, OnePlace, Live
<1>2. /\ run_q' \in Seq(Tasks)
      /\ \A u \in Tasks : Queued(u)' <=> u = t \/ Queued(u)
      /\ \A i, j \in DOMAIN run_q' : run_q'[i] = run_q'[j] => i = j
  <2>1. \A i, j \in DOMAIN run_q : run_q[i] = run_q[j] => i = j
    BY DEF OnePlace, TypeOK
  <2>2. /\ run_q \in Seq(Tasks) /\ run_q' = Append(run_q, t)
        /\ \A i \in DOMAIN run_q : run_q[i] # t
    BY <1>1 DEF Spawn, TypeOK, Queued
  <2> QED
    BY <2>1, <2>2, AppendQueues DEF Queued
<1>3. TypeOK'
  BY <1>2 DEF TypeOK, Spawn
<1>4. \A u \in Tasks : (Waits(u)' <=> Waits(u)) /\ (Live(u)' <=> u = t \/ Live(u))
  BY DEF Spawn, Waits, Live, TypeOK
<1>5. OnePlace'
  BY <1>1, <1>2, <1>4 DEF OnePlace, Spawn
<1>6. WakerFindsTask' /\ NoLostWake' /\ PollsCurrent' /\ CurrentUnnotified'
  BY <1>4 DEF Spawn, WakerFindsTask, NoLostWake, PollsCurrent, CurrentUnnotified
<1> QED
  BY <1>3, <1>5, <1>6

\* Waking moves the task at the waker's index, if any, to the run queue.
LEMMA WakeIInv == ASSUME IInv, NEW t \in Tasks, Wake(t) PROVE IInv'
<1> USE NoTaskAssumption DEF IInv
<1> DEFINE k == id[t]
           w == waiting[k]
<1>1. k \in TaskKeys /\ w \in Tasks \cup {NoTask}
  BY DEF TypeOK
<1>2. \A u \in Tasks : Waits(u)' <=> Waits(u) /\ u # w
  <2>1. \A j \in TaskKeys : waiting'[j] = IF j = k THEN NoTask ELSE waiting[j]
    BY DEF Wake, wake, TypeOK
  <2>2. \A j \in TaskKeys : w # NoTask /\ waiting[j] = w => j = k
    BY <1>1 DEF WakerFindsTask
  <2> QED
    BY <1>1, <2>1, <2>2 DEF Waits
<1>3. /\ run_q' \in Seq(Tasks)
      /\ \A u \in Tasks : Queued(u)' <=> Queued(u) \/ u = w
      /\ \A i, j \in DOMAIN run_q' : run_q'[i] = run_q'[j] => i = j
  <2>1. \A i, j \in DOMAIN run_q : run_q[i] = run_q[j] => i = j
    BY DEF OnePlace, TypeOK
  <2>2. CASE w = NoTask
    BY <2>1, <2>2 DEF Wake, wake, Queued, TypeOK
  <2>3. CASE w \in Tasks
    <3>1. Waits(w) /\ ~Queued(w)
      BY <1>1, <2>3 DEF Waits, OnePlace
    <3>2. /\ run_q \in Seq(Tasks) /\ run_q' = Append(run_q, w)
          /\ \A i \in DOMAIN run_q : run_q[i] # w
      BY <2>3, <3>1 DEF Wake, wake, TypeOK, Queued
    <3> HIDE DEF w
    <3> QED
      BY <2>1, <2>3, <3>2, AppendQueues DEF Queued
  <2> QED
    BY <1>1, <2>2, <2>3
<1>4. TypeOK'
  BY <1>1, <1>3 DEF TypeOK, Wake, wake
<1>5. OnePlace'
  <2>1. \A u \in Tasks : Live(u)' <=> Live(u)
    BY DEF Wake, Live
  <2>2. w \in Tasks => Waits(w)
    BY <1>1 DEF Waits
  <2>3. \A i, j \in TaskKeys : waiting'[i] \in Tasks /\ waiting'[i] = waiting'[j] => i = j
    BY <1>1 DEF Wake, wake, TypeOK, WakerFindsTask
  <2> QED
    BY <1>2, <1>3, <2>1, <2>2, <2>3 DEF OnePlace, Wake
<1>6. WakerFindsTask'
  BY <1>1 DEF Wake, wake, WakerFindsTask, TypeOK
<1>7. NoLostWake'
  <2>1. Waits(t) => w = t
    BY <1>1 DEF Waits, WakerFindsTask
  <2>2. \A u \in Tasks : u # t => notified'[u] = notified[u]
    BY DEF Wake, TypeOK
  <2> QED
    BY <1>2, <2>1, <2>2 DEF NoLostWake
<1>8. PollsCurrent' /\ CurrentUnnotified'
  BY DEF Wake, PollsCurrent, CurrentUnnotified, TypeOK
<1> QED
  BY <1>4, <1>5, <1>6, <1>7, <1>8

\* Popping makes a task the current one.
LEMMA PopTaskIInv == ASSUME IInv, PopTask PROVE IInv'
<1> USE NoTaskAssumption DEF IInv
<1> DEFINE t == run_q[Len(run_q)]
<1>1. /\ t \in Tasks
      /\ run_q' \in Seq(Tasks)
      /\ \A u \in Tasks : Queued(u)' <=> u # t /\ Queued(u)
      /\ \A i, j \in DOMAIN run_q' : run_q'[i] = run_q'[j] => i = j
  <2>1. \A i, j \in DOMAIN run_q : run_q[i] = run_q[j] => i = j
    BY DEF OnePlace, TypeOK
  <2>2. /\ run_q \in Seq(Tasks) /\ run_q # <<>>
        /\ run_q' \in Seq(Tasks) /\ DOMAIN run_q' = 1..(Len(run_q) - 1)
        /\ \A i \in DOMAIN run_q' : run_q'[i] = run_q[i]
    <3>1. run_q \in Seq(Tasks) /\ run_q # <<>>
      BY DEF PopTask, TypeOK
    <3>2. run_q' = SubSeq(run_q, 1, Len(run_q) - 1)
      BY DEF PopTask
    <3>3. Len(run_q) \in Nat \ {0}
      BY <3>1
    <3> HIDE DEF IInv
    <3> QED
      BY <3>1, <3>2, <3>3
  <2>3. /\ t \in Tasks
        /\ \A u : (\E i \in DOMAIN run_q' : run_q'[i] = u)
                    <=> u # t /\ \E i \in DOMAIN run_q : run_q[i] = u
        /\ \A i, j \in DOMAIN run_q' : run_q'[i] = run_q'[j] => i = j
    BY <2>1, <2>2, PopUnqueues
  <2> QED
    BY <2>2, <2>3 DEF Queued
<1>2. Queued(t)
  BY DEF PopTask, TypeOK, Queued
<1>3. current = NoTask
  BY DEF PopTask, AtPop, PollsCurrent
<1>4. TypeOK'
  BY <1>1 DEF TypeOK, PopTask
<1>5. \A u \in Tasks : (Waits(u)' <=> Waits(u)) /\ (Live(u)' <=> Live(u))
  BY <1>1, <1>2 DEF PopTask, Waits, Live, OnePlace, TypeOK
<1>6. OnePlace'
  <2>1. current' = t /\ waiting' = waiting
    BY DEF PopTask
  <2> HIDE DEF t
  <2> QED
    BY <1>1, <1>2, <1>3, <1>5, <2>1 DEF OnePlace
<1>7. WakerFindsTask' /\ PollsCurrent'
  BY <1>1 DEF PopTask, WakerFindsTask, PollsCurrent
<1>8. NoLostWake' /\ CurrentUnnotified'
  BY <1>1, <1>5 DEF PopTask, NoLostWake, CurrentUnnotified, TypeOK
<1> QED
  BY <1>4, <1>6, <1>7, <1>8

\* A finished task is nowhere.
LEMMA PollReadyIInv == ASSUME IInv, PollReady PROVE IInv'
<1> USE NoTaskAssumption DEF IInv
<1>1. current \in Tasks
  BY DEF PollReady, PollsCurrent, TypeOK
<1>2. pc' \in {"sync", "loop"}
  BY DEF PollReady, EndOfIteration
<1>3. TypeOK'
  BY <1>1, <1>2 DEF TypeOK, PollReady
<1>4. \A u \in Tasks : /\ Queued(u)' <=> Queued(u)
                       /\ Waits(u)' <=> Waits(u)
                       /\ Live(u)' <=> Live(u) /\ u # current
  BY <1>1 DEF PollReady, Queued, Waits, Live, TypeOK
<1>5. OnePlace'
  BY <1>1, <1>4 DEF OnePlace, PollReady
<1>6. WakerFindsTask' /\ PollsCurrent' /\ NoLostWake' /\ CurrentUnnotified'
  BY <1>2, <1>4 DEF PollReady, WakerFindsTask, PollsCurrent, NoLostWake,
                    CurrentUnnotified
<1> QED
  BY <1>3, <1>5, <1>6

\* A pending task waits under the id its waker has.
LEMMA PollPendingIInv == ASSUME IInv, PollPending PROVE IInv'
<1> USE NoTaskAssumption DEF IInv
<1>1. current \in Tasks
  BY DEF PollPending, PollsCurrent, TypeOK
<1>2. pc' \in {"sync", "loop"}
  BY DEF PollPending, EndOfIteration
<1>3. PICK k \in TaskKeys : /\ waiting[k] = NoTask
                        /\ waiting' = [waiting EXCEPT ![k] = current]
                        /\ id' = [id EXCEPT ![current] = k]
  BY DEF PollPending
<1>4. TypeOK'
  BY <1>1, <1>2, <1>3 DEF TypeOK, PollPending
<1>5. \A u \in Tasks : /\ Queued(u)' <=> Queued(u)
                       /\ Waits(u)' <=> Waits(u) \/ u = current
                       /\ Live(u)' <=> Live(u)
  BY <1>1, <1>3 DEF PollPending, Queued, Waits, Live, TypeOK
<1>6. ~Waits(current)
  BY <1>1 DEF OnePlace
<1>7. WakerFindsTask'
  BY <1>1, <1>3, <1>6 DEF WakerFindsTask, TypeOK, Waits
<1>8. OnePlace'
  <2>1. \A i, j \in TaskKeys : waiting'[i] \in Tasks /\ waiting'[i] = waiting'[j] => i = j
    BY <1>4, <1>7 DEF WakerFindsTask, TypeOK
  <2> QED
    BY <1>1, <1>5, <1>6, <2>1 DEF OnePlace, PollPending
<1>9. NoLostWake' /\ CurrentUnnotified' /\ PollsCurrent'
  BY <1>1, <1>2, <1>5 DEF PollPending, NoLostWake, CurrentUnnotified, PollsCurrent
<1> QED
  BY <1>4, <1>7, <1>8, <1>9

\* The remaining steps move only the program counter.
LEMMA ControlIInv ==
  ASSUME IInv, Run \/ React \/ ReactReturns \/ PopPanics \/ UNCHANGED exec_vars
  PROVE  IInv'
<1>1. /\ UNCHANGED <<run_q, waiting, id, current, phase, notified>>
      /\ pc' # "poll" <=> pc # "poll"
      /\ TypeOK'
  BY DEF IInv, TypeOK, Run, React, ReactReturns, PopPanics, exec_vars
<1> QED
  BY <1>1 DEF IInv, OnePlace, WakerFindsTask, NoLostWake, PollsCurrent,
              CurrentUnnotified, Queued, Waits, Live

\* IInv is an invariant of the executor.
THEOREM Invariance == Spec => []IInv
<1>1. ASSUME IInv, [Next]_exec_vars PROVE IInv'
  BY <1>1, SpawnIInv, WakeIInv, PopTaskIInv, PollReadyIInv, PollPendingIInv, ControlIInv
  DEF Next, Panicked
<1> QED
  BY <1>1, InitIInv, PTL DEF Spec

\* Every live task is in exactly one place, for any number of tasks: the run
\* queue, `waiting` and the poll in progress partition the tasks not yet done.
THEOREM TasksHaveOnePlace == Spec => []OnePlace
  BY Invariance, PTL DEF IInv

\* The executor's state keeps its types.
THEOREM TypeCorrect == Spec => []TypeOK
  BY Invariance, PTL DEF IInv

\* The waker of a waiting task finds it, however often indices are reused
\* (task.rs:120, 284).
THEOREM WakersFindTasks == Spec => []WakerFindsTask
  BY Invariance, PTL DEF IInv

\* No wake by another is lost: a task woken since its last poll is not asleep
\* (task.rs:120-122).
THEOREM WakesReachTasks == Spec => []NoLostWake
  BY Invariance, PTL DEF IInv

\* run() returns only when no task is left.
THEOREM RunReturnsWhenDone == Spec => RunBlocksUntilDone
<1>1. ASSUME IInv, Next, pc # "sync", pc' = "sync"
      PROVE  \A t \in Tasks : ~Live(t)'
  <2>1. CASE PollReady
    <3>1. current \in Tasks /\ current' = NoTask
      BY <1>1, <2>1 DEF IInv, PollReady, PollsCurrent, TypeOK
    <3>2. run_q' = <<>> /\ \A k \in TaskKeys : waiting'[k] = NoTask
      BY <1>1, <2>1 DEF PollReady, EndOfIteration
    <3>3. OnePlace'
      BY <1>1, <2>1, PollReadyIInv DEF IInv
    <3> QED
      BY <3>1, <3>2, <3>3, NoTaskAssumption DEF OnePlace, Queued, Waits
  <2>2. CASE PollPending
    <3>1. current' = NoTask
      BY <2>2 DEF PollPending
    <3>2. run_q' = <<>> /\ \A k \in TaskKeys : waiting'[k] = NoTask
      BY <1>1, <2>2 DEF PollPending, EndOfIteration
    <3>3. OnePlace'
      BY <1>1, <2>2, PollPendingIInv DEF IInv
    <3> QED
      BY <3>1, <3>2, <3>3, NoTaskAssumption DEF OnePlace, Queued, Waits
  <2> QED
    BY <1>1, <2>1, <2>2 DEF Next, Spawn, Wake, Run, React, ReactReturns, PopTask,
                            PopPanics, Panicked, exec_vars
<1>2. ASSUME IInv, [Next]_exec_vars
      PROVE  [pc # "sync" /\ pc' = "sync" => \A t \in Tasks : ~Live(t)']_exec_vars
  BY <1>1, <1>2
<1> QED
  BY <1>2, Invariance, PTL DEF Spec, RunBlocksUntilDone
=============================================================================
