----------------------------- MODULE Executor ------------------------------
(***************************************************************************)
(* The executor of one thread: the run queue, the slab of waiting tasks,   *)
(* TaskId wakers and executor_loop (task.rs).                              *)
(*                                                                         *)
(* A task's waker is a shared TaskId: a cell that holds the index under    *)
(* which the task was last put in `waiting`.  Waking reads the cell and    *)
(* moves whatever task is at that index to the run queue, so a waker used  *)
(* while its task is not waiting finds nothing, or another task.           *)
(*                                                                         *)
(* What futures do inside poll() is left open: they spawn, wake other      *)
(* tasks of the thread, and return Ready or Pending.  react() appears as a *)
(* sequence of wakes of any tasks; module Runtime supplies the real one.   *)
(***************************************************************************)
EXTENDS Naturals, Sequences, ExecutorParams

CONSTANT SelfWakers  \* tasks whose future wakes its own waker during poll()

VARIABLES
  run_q,     \* Executor::run_q, a Vec used as a stack
  waiting,   \* Executor::waiting, Slab<Task>
  id,        \* TaskId of each task
  current,   \* the task executor_loop has taken out to poll, or NoTask
  pc,        \* where the thread is
  phase,     \* how far each task has come
  notified   \* history: the task was woken and has not been polled since

exec_vars == <<run_q, waiting, id, current, pc, phase, notified>>

TypeOK ==
  /\ run_q \in Seq(Tasks)
  /\ waiting \in [TaskKeys -> Tasks \cup {NoTask}]
  /\ id \in [Tasks -> TaskKeys]
  /\ current \in Tasks \cup {NoTask}
  /\ pc \in {"sync", "loop", "react", "pop", "poll", "panicked"}
  /\ phase \in [Tasks -> {"unspawned", "fresh", "started", "done"}]
  /\ notified \in [Tasks -> BOOLEAN]

Init ==
  /\ run_q = <<>>
  /\ waiting = [k \in TaskKeys |-> NoTask]
  /\ id = [t \in Tasks |-> FirstKey]
  /\ current = NoTask
  /\ pc = "sync"
  /\ phase = [t \in Tasks |-> "unspawned"]
  /\ notified = [t \in Tasks |-> FALSE]

-----------------------------------------------------------------------------
\* Executor::spawn, from synchronous code or from a running task.
Spawn(t) ==
  /\ pc \in {"sync", "poll"}
  /\ phase[t] = "unspawned"
  /\ run_q' = Append(run_q, t)
  /\ phase' = [phase EXCEPT ![t] = "fresh"]
  /\ UNCHANGED <<waiting, id, current, pc, notified>>

\* Executor::run and the loop of block_on.
Run ==
  /\ pc = "sync"
  /\ pc' = "loop"
  /\ UNCHANGED <<run_q, waiting, id, current, phase, notified>>

\* The head of executor_loop: with nothing to run, the reactor is entered ...
React ==
  /\ pc = "loop"
  /\ run_q = <<>>
  /\ pc' = "react"
  /\ UNCHANGED <<run_q, waiting, id, current, phase, notified>>

\* ... and comes back when its completions are used up.
ReactReturns ==
  /\ pc = "react"
  /\ pc' = "pop"
  /\ UNCHANGED <<run_q, waiting, id, current, phase, notified>>

\* Mutant: the index in the TaskId is used although the task has left it.
wake_Copies(t) ==
  LET woken == waiting[id[t]]
  IN  /\ run_q' = IF woken = NoTask THEN run_q ELSE Append(run_q, woken)
      /\ waiting' = waiting

\* Mutant: the index is taken to be occupied.
wake_Unchecked(t) ==
  /\ run_q' = Append(run_q, waiting[id[t]])
  /\ waiting' = [waiting EXCEPT ![id[t]] = NoTask]

\* Mutant: the task is taken out of `waiting` and not pushed.
wake_Drops(t) ==
  /\ run_q' = run_q
  /\ waiting' = [waiting EXCEPT ![id[t]] = NoTask]

\* TaskId::wake: try_remove and push.
wake(t) ==
  LET woken == waiting[id[t]]
  IN  /\ run_q' = IF woken = NoTask THEN run_q ELSE Append(run_q, woken)
      /\ waiting' = [waiting EXCEPT ![id[t]] = NoTask]

\* Someone uses the waker of t.  It exists once t has been polled, and may
\* outlive t.
Wake(t) ==
  /\ pc \in {"react", "poll"}
  /\ phase[t] \in {"started", "done"}
  /\ current = t => t \in SelfWakers
  /\ wake(t)
  /\ notified' = [notified EXCEPT ![t] = TRUE]
  /\ UNCHANGED <<id, current, pc, phase>>

AtPop == pc = "pop" \/ (pc = "loop" /\ run_q # <<>>)

\* run_q.pop(): the task is taken from the end of the queue and polled.
PopTask ==
  /\ AtPop
  /\ run_q # <<>>
  /\ LET t == run_q[Len(run_q)]
     IN  /\ current' = t
         /\ phase' = [phase EXCEPT ![t] = "started"]
         /\ notified' = [notified EXCEPT ![t] = FALSE]
  /\ run_q' = SubSeq(run_q, 1, Len(run_q) - 1)
  /\ pc' = "poll"
  /\ UNCHANGED <<waiting, id>>

\* run_q.pop().unwrap() when the reactor woke no task.
PopPanics ==
  /\ pc = "pop"
  /\ run_q = <<>>
  /\ pc' = "panicked"
  /\ UNCHANGED <<run_q, waiting, id, current, phase, notified>>

\* Mutant: the loop ends as soon as there is nothing to run.
EndOfIteration_IgnoresWaiting(tasks) == pc' = IF run_q = <<>> THEN "sync" ELSE "loop"

\* The last test of the loop body, on `waiting` as the iteration leaves it.
EndOfIteration(tasks) ==
  pc' = IF run_q = <<>> /\ \A k \in TaskKeys : tasks[k] = NoTask THEN "sync" ELSE "loop"

\* poll() returns Ready: the task is dropped.
PollReady ==
  /\ pc = "poll"
  /\ phase' = [phase EXCEPT ![current] = "done"]
  /\ current' = NoTask
  /\ EndOfIteration(waiting)
  /\ UNCHANGED <<run_q, waiting, id, notified>>

\* Mutant: the index is not stored in the TaskId.
PollPending_KeepsId ==
  /\ pc = "poll"
  /\ \E k \in TaskKeys :
       /\ waiting[k] = NoTask
       /\ waiting' = [waiting EXCEPT ![k] = current]
  /\ current' = NoTask
  /\ EndOfIteration(waiting')
  /\ UNCHANGED <<run_q, id, phase, notified>>

\* poll() returns Pending: the task goes to a vacant index, which its waker
\* learns.  The crate `slab` would give one particular vacant index; what is shown
\* for any of them holds for that one (MCStale has the crate's choice).
PollPending ==
  /\ pc = "poll"
  /\ \E k \in TaskKeys :
       /\ waiting[k] = NoTask
       /\ waiting' = [waiting EXCEPT ![k] = current]
       /\ id' = [id EXCEPT ![current] = k]
  /\ current' = NoTask
  /\ EndOfIteration(waiting')
  /\ UNCHANGED <<run_q, phase, notified>>

\* After a panic the thread runs nothing more.
Panicked == pc = "panicked" /\ UNCHANGED exec_vars

Next ==
  \/ \E t \in Tasks : Spawn(t) \/ Wake(t)
  \/ Run \/ React \/ ReactReturns
  \/ PopTask \/ PopPanics \/ PollReady \/ PollPending
  \/ Panicked

Spec == Init /\ [][Next]_exec_vars

-----------------------------------------------------------------------------
(***************************************************************************)
(* Properties.                                                             *)
(***************************************************************************)
Queued(t) == \E i \in DOMAIN run_q : run_q[i] = t
Waits(t) == \E k \in TaskKeys : waiting[k] = t
Live(t) == phase[t] \in {"fresh", "started"}

\* A task that has been spawned and has not finished is in exactly one place:
\* once on the run queue, once in `waiting`, or being polled.  No wake, early,
\* late or repeated, duplicates it or lets it slip (task.rs:120-122, 271-288).
OnePlace ==
  \A t \in Tasks :
    /\ Live(t) <=> Queued(t) \/ Waits(t) \/ current = t
    /\ ~(Queued(t) /\ Waits(t)) /\ ~(Queued(t) /\ current = t)
    /\ ~(Waits(t) /\ current = t)
    /\ \A i, j \in DOMAIN run_q : run_q[i] = t /\ run_q[j] = t => i = j
    /\ \A j, k \in TaskKeys : waiting[j] = t /\ waiting[k] = t => j = k

\* The waker of a waiting task finds that task: its TaskId holds the task's
\* index, however often indices have been reused (task.rs:120, 284).
WakerFindsTask == \A k \in TaskKeys : waiting[k] # NoTask => id[waiting[k]] = k

\* Executor::run returns only when every task that was spawned, by synchronous
\* code or by other tasks, has finished (task.rs:260, 290).
RunBlocksUntilDone ==
  [][pc # "sync" /\ pc' = "sync" => \A t \in Tasks : ~Live(t)']_exec_vars

\* A task that someone else has woken since it was last polled is not asleep
\* (task.rs:120-122).
NoLostWake == \A t \in Tasks \ SelfWakers : notified[t] => ~Waits(t)

\* The same for a task that wakes itself while it is polled, as a future does
\* that yields: "responsible for pushing futures through to completion"
\* (task.rs:134-135).
SelfWakeKept == \A t \in SelfWakers : notified[t] => ~Waits(t)

=============================================================================
