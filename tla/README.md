# A TLA+ model of trale

trale is a small asynchronous runtime for Linux: a single-threaded executor per
thread, an io_uring reactor behind it, and futures (timers, events, mutexes,
sockets, files) built on the reactor's I/O handles. This directory models its
core and the futures on it, model-checks them with TLC and proves with TLAPS every safety property that a run finds to hold.

## 1. Inventory

| Part | Source | State | Operations |
|---|---|---|---|
| Executor | `task.rs` | `run_q` (a stack), `waiting` (slab), a shared `TaskId` cell per task | `spawn`, `run`, `block_on`, `executor_loop`, `TaskId::wake` |
| TaskJoiner | `task.rs` | an `Event` and a channel of capacity 1 per task | `join`, `poll` |
| Reactor front end | `reactor/mod.rs` | a thread-local `ReactorUring` | `react`, `new_io`, `new_multishot_io` |
| io_uring reactor | `reactor/uring.rs` | the ring, the `pending` slab, two result stores | `submit_io`, `react`, `IoCompletionIter::next` |
| Result stores | `reactor/uring/result.rs` | a slab of oneshot results; a slab of ring buffers with `dropped` and `finished` | create, set/push, get/pop, drop, set_finished |
| I/O handles | `reactor/uring/io/*.rs` | `New`, `Submitted(indices)`, `Finished(result)` | `submit_or_get_result`, `Drop` |
| Event | `futures/event.rs` | an eventfd semaphore | `notify_one`, `wait` and poll, clone |
| Mutex | `futures/mutex.rs` | an Event whose count is the lock | `new`, `lock`, drop of the guard |
| Timer | `futures/timer.rs` | a deadline, a timerfd | `sleep`, poll |
| TCP, UDP | `futures/tcp.rs`, `udp.rs` | a socket, an accept stream | bind, connect, accept, send, recv |
| Files | `futures/fs.rs`, `read.rs`, `write.rs` | a descriptor | open, create, mkdir, read, write, seek |
| Socket addresses | `futures/sock_addr.rs` | none | `From<SocketAddr>`, `TryFrom<&CSockAddr>` |

**How they interact.** A future's poll creates a handle; the handle's first poll
allocates a result slot and a `pending` entry and pushes a submission queue entry
whose `user_data` is the index of that entry. The executor runs tasks until its run
queue is empty, then calls `react`, which submits the queue, waits for one completion
and, for every completion there is, looks up `pending` by `user_data`, stores the
result in the slot the entry names and wakes the entry's waker. The waker is the
task's `TaskId`, a cell with the index of the task in `waiting`. Other threads meet
this one only through the kernel (eventfds), never through these tables.

**What is hard.** Four tables of reusable indices, with completions that arrive after
the handle that caused them has been dropped and its index has been given away; wakers
that outlive the index they name; a kernel that completes operations at any time; ring
and queue limits met with `unwrap()`; operations that are not cancelled when their
future is dropped, and so consume an event, a lock, a datagram or a descriptor that nobody
receives; queue entries that name descriptors by number and memory by address, both looked
up later than the poll that wrote them; two clocks.

**What makes each part correct.**

* Executor: a live task is in exactly one place; a waker finds its task; `run`
  returns when, and only when, all tasks are done.
* Reactor, stores and handles: lookups succeed; a handle gets its own results, in order;
  slots are reclaimed; a drop cancels nothing else.
* Executor and reactor together: no task sleeps on a result that has arrived.
* Event: notifications are neither lost nor counted twice; enough of them free everybody.
* Mutex: one guard; unlocking cannot fail; a waiting `lock()` returns.
* TaskJoiner: `recv()` finds the value and never blocks the thread.
* Timer: a sleep lasts at least its duration, and ends.
* Files and streams: the operation of a living future meets its own file; offsets follow
  from results; descriptors have one owner; `Ok(0)` means the end.
* TCP: the address loops try every address before they fail; a stream is connected to its address;
  a listener hands over every connection in order.
* UDP: datagrams in order, with their own sender and length; a reply reaches its sender.

The hazards behind these, line by line, are listed in `PROJECT.json` under `hazards`.

## 2. Modules

| Module | Models | Notes |
|---|---|---|
| `Executor` | `task.rs` | one action per step of `executor_loop`; what futures do in `poll()` is left open |
| `Uring` | `uring.rs`, `result.rs`, `oneshot.rs`, `multishot.rs` | one action per call a future makes on a handle, per step of `react`, and for the kernel |
| `Runtime` | `reactor/mod.rs`, and the futures between the two | conjoins actions of `Executor` and `Uring`; each handle belongs to a task |
| `Event` | `event.rs` | waiters on several threads; the reactor is what `Uring` and `Runtime` show it to be |
| `Mutex` | `mutex.rs` | conjoins actions of `Event`; descriptor numbers of the clones |
| `IoPort` | what a oneshot handle promises | abstract; `Uring` implements it (`PortSpec`) |
| `Join` | `TaskJoiner`, `spawn`'s wrapper, `block_on` | on `Runtime` |
| `Timer` | `timer.rs` | on `IoPort`; two clocks, descriptor numbers |
| `File` | `fs.rs`, `read.rs`, `write.rs`, the streams of `tcp.rs` | on `IoPort`; descriptor table and file position |
| `Tcp` | `tcp.rs` | connects on `IoPort`; the accept stream as `Uring` shows a multishot to be |
| `Udp` | `udp.rs` | on `IoPort` |
| `SockAddr` | `sock_addr.rs` | operators, used by `Udp` |
| `ExecutorParams`, `UringParams`, `RuntimeParams`, `EventParams`, `MutexParams`, `FileParams`, `TcpParams`, `UdpParams` | | constants and assumptions of the module of that name, which the modules on top of it share |
| `ExecutorProofs`, `UringProofs`, `RuntimeProofs`, `JoinProofs`, `EventProofs`, `MutexProofs`, `FileProofs` | | inductive invariants and theorems of one module each |
| `FuturesProofs` | | the same for `Timer`, `Tcp` and `Udp`, and the theorems on files and on the whole of `MCFutures` |
| `MCStale` | the `slab` crate's choice of indices | an instance of `Runtime` with it |
| `MC*` | | instances for TLC |

**State.** In `Uring`, `io[h]` is the `IoState` of handle `h`; `pending`, `oneshot` and
`multishot` are the three slabs; `sq`, `kernel` and `cq` say where an operation is;
`entered` and `batch` say where `react` is (`batch` is what the completion iterator has
left, which the kernel's later completions do not extend). `posted` and `got` are history:
what the kernel answered to each handle's operation and what polling the handle returned. An
operation carries the handle it was submitted for (`io`), standing for its opcode,
descriptor and buffer; the code never reads it back, and neither does any action, only
properties do. `Executor` is the code's state with two additions: `phase` (how far a task has come)
and the history variable `notified`. `Event` has the eventfd's count, each waiter's
state and where its read is.

`IoPort` has, per handle, the future's state, where its operation is, the kernel's answer and
what polling returned. `Uring` maps onto it: `fut` is `IoState` without its indices, `op` is read off
`sq`, `kernel` and `posted`. The mapping hides slabs, `user_data` and the completion queue, which is the point: a
mistake in any of them gives a handle an answer that is not its own, twice, or too early. In
`Uring` a result can be taken only after `react` has stored it; `IoPort` lets a future take it as soon as the
kernel has answered, so the modules on top of it see the most orders a future can meet.

In `Join`, `wrapper`, `count` and `chan` are the progress of `spawn`'s async block, the joiner's eventfd and
the channel of one place. In `File`, `fdtab` is the process's descriptor table and `req` holds what the queue
entry says (`num`, `len`, `seekable`) and the open description that the number led to when `react` submitted it
(`target`); `told` is the position a program would compute from its results. In `Timer`, `timer = "arming"` is the point between
the two readings of the clock in one poll, `fd` the number in the queue entry and `target` the timer whose timerfd that number named when `react`
submitted it; `abandoned` is history: a future has ended with its completion not reaped. `Mutex` has the number of each call's clone in `fd`; a queued
read of a dropped call fails unless a later `lock()` got the number. Both take the lowest free number, as the kernel does. In `Tcp`, `seen` is what the kernel read through the
pointer of the entry; the pointed-to variable is gone, so it is any address or garbage.

**Slabs.** A slab hands out *any* vacant index. The crate gives out the lowest one at first and then the
one freed last; the models allow that and every other choice, so what holds does not depend on the crate's policy. A counterexample might, so
`MCStale`, for the run `stale_completion`, restricts `Runtime` to the crate's choice. (The counterexample of `cancel` has one
choice only at each step that matters: nothing was inserted before.)
Slabs in the models have as many indices as `Keys`; the real ones grow without bound. An
insert is not enabled when all indices are taken. In the executor's runs there are as many
indices as tasks, so this never happens; in the reactor's runs it only means that a handle
is submitted later.

**Panics.** An `unwrap()` or `expect()` that can fail is an action of its own that sets
`panic` (or `pc = "panicked"`), after which the thread takes no step.

**External code.** The kernel, the `slab` and `ringbuffer` crates, and io_uring's
synchronous cancel are modelled from how the code uses them. Cancelling by `user_data` finds
an operation the kernel holds, completes it with `ECANCELED`, and fails when there is
none. A multishot operation can end with an error of its own.

## 3. Runs

| Run | What it asks | Result |
|---|---|---|
| `core` | *executor*: four tasks that spawn, finish, and wake each other and themselves: one place, wakers, no lost wake, `run`. *Executor and reactor together*, handles dropped at any time: no task sleeps on a result that is there; no deadlock | holds |
| `reactor` | two oneshots and two multishots over two indices per slab, a buffer of two results: types, lookups, own results, a multishot's in order and all unless its buffer overflowed, reclaimed slots, a drop cancels its own operation only, and `Uring` implements `IoPort` | holds |
| `join` | a task that joins another, both doing I/O, joiners and handles dropped at any time: `recv()` never blocks; unless something was dropped in flight, `react` fills the run queue and `run` returns | holds |
| `waits` | *timers* that reuse descriptor numbers, the wall clock set meanwhile: a sleep ends unless its first poll was late or a read was abandoned in flight. *Events* on two threads, waiters dropped: conservation; nobody waits for ever on a thread that dropped none of its own waiters. *Mutexes* on two threads, calls of `lock()` dropped at any time: one guard, unlock succeeds, and each call returns unless one is dropped early | holds |
| `futures` | timers, files, TCP, UDP, one at a time: the properties of section 1, a sleep's duration among them | holds |
| `cancel` | the `expect()` of a multishot's drop | violated |
| `self_wake` | a task that wakes itself in `poll()` and returns Pending is not forgotten | violated |
| `stale_completion` | `react` fills the run queue although operations were dropped | violated |
| `late_poll` | every sleep ends | violated |
| `addresses` | an error of `bind()` or `connect()` comes after every address was tried, and is the last one's | violated |
| `lost_lock` | each `lock()` returns although others are dropped while they wait | violated |
| `connect` | the stream `connect()` returns is connected to the address it was for | violated |

The seven violated ones state what a comment, a document or an `expect()` of the
repository says; `PROJECT.json` (`findings`) quotes it and describes the behaviour TLC finds:

* `cancel`: a multishot's drop cancels an operation that is still queued or already over, and its `expect()` panics.
* `self_wake`: a wake during the poll finds nothing in `waiting`, and the task is then put there.
* `stale_completion`: a task waits at index 0 and another at 1; the second is woken, starts an operation, drops it in the same poll and finishes. The
  late completion wakes nobody, and the executor's `pop().unwrap()` fails with the first task still waiting.
* `lost_lock`: a `lock()` is polled and dropped before `react`; another `lock()` clones the event under the same number, so that both reads are accepted, and the one nobody
  waits for takes the lock. (A drop after the submission loses the lock likewise.)
* `connect`: the kernel follows the pointer to a local of `poll()` at `react`, when it is gone.
* `late_poll`: a first poll reads the clock twice; a second reading on the deadline arms the timerfd with zero, which disarms it, and the task sleeps for
  ever; one after the deadline panics (`timer.rs:92`).
  `SleepEnds` fails in a second way, which needs two timers: one is polled and dropped before `react`, the next `sleep()` gets its number, and the read left behind takes the new timer's
  only expiration (`timer.rs:108`).
* `addresses`: a failing `socket()` ends the loop at once (`tcp.rs:92`, `162`).

`core`, `waits` and `futures` run modules that share no state; `part` picks one per behaviour, so the state
spaces add up and do not multiply. In `waits`, no action with fairness is enabled in the initial states, where the parts that are not picked stay, so their fairness asks nothing. Several properties name exceptions, and each is a behaviour of the code worth knowing:

* `SleepEndsUnlessAbandoned`: the late first polls of `late_poll`, and futures that end with a read in flight, which may go to the
  timerfd of another timer or end the thread, as in `stale_completion`.
* `EnoughNotifications`: a thread that dropped a waiter in flight may likewise end, and its other waiters with it.
* `DescriptorsOwned`: a dropped `FileOpen` leaves an open descriptor that nobody owns.
* `AcceptedHandedOver`: connections accepted for a dropped listener, or overwritten in the ring, are leaked likewise.
* `OffsetAccounted`, `ReceivedInOrder`: a dropped read or `recv_from` may have moved the position, or taken a datagram.
* `LiveOpsOwnFile` says nothing of dropped futures: their entry may meet another file under the same number.
* `LoopReturns` is what is left of `AllAddressesTried`: it takes the error of a failing `socket()` for an answer.
* `ReplyReachesSender`: a sender with an IPv6 scope gets no reply, as `From<SocketAddr>` drops the scope.
* `ZeroMeansEof`: not for a buffer whose length is a multiple of 2^32.

**Bounds.** Two indices for four handles force every kind of reuse: an index freed by a
completion, by a reaped result and by a drop, while an older operation is under way.
Two results, one negative, separate `Ok` from `Err` and one handle's answer from
another's. `SqEntries = 2` makes the submission queue fill up. In `reactor`, `RingCap = 2` and
three completions of one multishot (`MaxShots = 2` before the last) let two results be read in order and an unread one be overwritten. Four tasks and four indices in the
executor let a stale waker name the index of a finished, a queued, a running and a
waiting task. `MaxShots` bounds how often two multishots fire together and only `KernelShot` looks at it.
In `waits`, `MaxNotified` exceeds both the number of waiters and the event's limit of the count, which is
reached; the mutex runs with `MaxCount = 1`, the least an eventfd could have. `join` has a submission queue that is large enough;
`reactor` and `core` cover the one that is not. In `futures`, two descriptor numbers for a file and a stream force a closed number
to be reused; `LenMod = 4` stands for 2^32, with buffers shorter than that, as long and longer (2, 4, 6). In `waits`, two timers and a clock that moves, or is set, between any two steps reach both
kinds of late polls, and two numbers a reused one; `MaxTime` lets every armed timer expire, as first polls and settings of the clock come by `MaxStart`. The mutex has as many free
descriptor numbers as calls, of which the lowest is always taken. Three connections
against `RingCap = 2` overflow the ring. Two datagrams let a dropped `recv_from` take the first while its successor waits. `Durations = {1}` is the shortest sleep that can be cut short. Symmetry is
declared only in runs without liveness properties; in `core` it is that of slab indices, in `futures` that of reads and writes, which nothing tells apart.

**Fairness.** `Join` assumes weak fairness of the thread (a thread that can run does) and of
the kernel (an operation completes in the end, and the read of an eventfd when it can; for a read of a silent peer this is an assumption on the
environment, and without it `run` rightly blocks). `Event`, `Mutex` and `Timer` assume that a thread
with a queued read reaches `react` (the executor does when its run queue is empty, and each
poll of a cooperative task ends), that the kernel completes a read that can
complete, that an answered task is polled again, that guards are dropped and that time passes. What is assumed of the executor is `NoStrandedTask` and
`RunReturnsUnlessDropped`, and the latter needs that no operation was dropped in flight: `stale_completion` shows a thread that ends otherwise. In `Event` the fairness of a
thread therefore ends when it drops a waiter (`Undisturbed`); in `Mutex` and `Timer` the properties that hold say nothing of behaviours with such drops, and the counterexamples
of `lost_lock` and `late_poll` are stronger for being found with the thread still running. No fairness is assumed of drops, notifications, spawns
or settings of the clock. The modules of `waits` and `futures` may really stop (there is nothing left to do), so they are not checked for deadlock.

## 4. Proofs

Every invariant and every action property that a run finds to hold is also a theorem, for every value of the
constants (any numbers of tasks, handles, indices, descriptors, datagrams, addresses), and so is the refinement of `IoPort`.
Each proof module has an inductive invariant, shown to hold initially and to be preserved by every action.

* **`ExecutorProofs`** (`TypeCorrect`, `TasksHaveOnePlace`, `WakersFindTasks`, `WakesReachTasks`, `RunReturnsWhenDone`). The
  run queue, the waiting slab and the task being polled partition the live tasks;
  the `TaskId` of a waiting task names its index. These are the checked invariants with two
  facts about the program counter, needed because a task is nowhere but in
  `current` during its poll.
* **`UringProofs`** (`TypeCorrect`, `LookupsAlwaysSucceed`, `OwnResultsAlways`, `ShotsAlwaysInOrder`,
  `ResultsAlwaysReclaimed`, `CancelsOnlyOwn`, `ReactorImplementsPort`). None of these is inductive: they speak of what is looked up now, and
  what makes it right happened at submission. The invariant follows an operation as a *token*
  (user_data, handle), in the submission queue, the kernel or the completion queue. Tokens
  pair user_data and handles one to one (`TokensUnique`); a completion without `more` is the last
  of its token (`LastIsLast`); a token's `pending` entry is there and names a slot of its own
  (`EntriesPending`); the slot awaits the result of a submitted handle, or is marked for
  removal for a dropped one (`OneshotTokens`, `MultishotTokens`); submitted handles own
  their slots, and a multishot its user_data even after its operation is over (`OneshotSlots`,
  `MultishotSlots`). `OneshotAnswers` ties the kernel's answers to what handles return.
  Reclaiming needs the converse, `RInv`: an operation that is not over has a token, and an occupied slot a handle or a token.
  For the order of a multishot's results, a completion is placed in the history of what the kernel posted by the number of its own
  handle's completions behind it in the queue; the `Behind` lemmas say how that number changes when a completion is posted or reaped, and
  `FifoReapOwn` that a push to a full buffer moves the window of unread results by one and sets the flag under which what was read is no longer all.
  The refinement maps each action to a step of `IoPort` or to a stutter (`PortSteps`), from the same invariant.
* **`RuntimeProofs`** (`TypeCorrect`, `NoTaskStranded`). Takes the invariants of the executor and the reactor through `INSTANCE`, with
  two facts that join them: the waker in the `pending` entry of a token is the task that owns the handle (`EntriesWakeOwner`), and the handles a
  waiting task awaits are its own, submitted, and without a result (`AwaitedUnanswered`). A stored result therefore wakes
  the task that looks for it, and `ExecutorProofs` says that the wake finds it.
* **`JoinProofs`** (`TypeCorrect`, `RecvAlwaysReturns`, `ReactAlwaysFillsRunQueue`), on `RuntimeProofs`. The wrapper notifies and sends within one
  poll (`Wrappers`), the read of a joiner's event is answered only after the notification (`AnsweredAfterNotify`), and only a
  task whose future still runs has handles in flight (`HandlesHeld`), so that a completion finds a task to wake unless its handle was dropped.
* **`EventProofs`** (`TypeCorrect`, `NotificationsAlwaysConserved`). Notifications are counted against the set of completed reads, by the
  library's theorems on cardinality; each step adds at most one element.
* **`MutexProofs`** (`TypeCorrect`, `GuardsExclude`, `UnlocksSucceed`). The lock is a token in the count or
  with one call of `lock()`, from the kernel's read to the drop of the guard.
* **`FileProofs`** (the invariant behind `OffsetAlwaysAccounted`, `LiveOpsAlwaysOwnFile`, `DescriptorsAlwaysOwned` and `ZeroAlwaysMeansEof`, which `FuturesProofs` states). A living future
  borrows its file, so the file stays open and keeps its number until the operation is over: this is what
  makes the number in the queue entry still right when the kernel looks it up. The offset is the one told plus the gains of answered
  operations nobody has looked at, of which a file has at most one. `Min` is a `CHOOSE`; that it picks a member follows from the library's theorem on
  least elements (`LessWellFounded`).
* **`FuturesProofs`** (`SleepsAtLeast`, `LoopAlwaysReturns`, `ConnectionsHandedOver`, `DatagramsInOrder`, `DatagramsAsSent`,
  `RepliesReachSenders`, `TypesCorrect`). *Timer*: while the clock has not been set since `sleep()`, the deadline is the time of the call plus the
  duration, and an armed timerfd expires no earlier (`Armed`, `Deadlines`). This is not enough, as an answer may come from a stranger's timerfd: timers that live have numbers of their own (`Numbers`), so the read of a
  living timer is of its own timerfd, and only reads of dropped ones go astray. *Tcp*: the log of attempts is one entry per address
  tried, all but the last failures (`Loop`); what was handed over, the ring and the completion queue together are the accepted
  connections in order (`Accepting`). *Udp*: the inbox is the last part of the datagrams, each taken one is held by one future
  (`Inbox`, `Consumption`), at most one receive is under way and what it took is newer than what was returned (`Order`), and a reply carries the address of the datagram it answers (`Replies`).
  `TypesCorrect` combines the four parts for the specification that TLC runs.

**Assumptions on constants.** Oneshots and multishots are disjoint, results are
integers, `RingCap` is positive, the place holder `NoTask` is no task, a new `TaskId` holds an
index, `MaxCount` is positive; every handle has an owner among the tasks; a task has at most one joiner (`TaskJoiner` cannot be cloned);
names of files and sockets are distinct, descriptors and lengths natural numbers; receives and sends are distinct; the address of a sender has bytes in its
fields and no flow label, as `recvmsg` gives it; durations and descriptor numbers are natural numbers and `MaxStart` lies before `MaxTime`. All are evaluated by TLC in the runs.

**Only model-checked:** the liveness properties (`RunReturnsUnlessDropped`, `EnoughNotifications`,
`LockGrantedUnlessDropped`, `SleepEndsUnlessAbandoned`), which need fairness and `ENABLED`.

## 5. What is not modelled, and limits

* `run()` with no task blocks in the reactor for ever, because the loop reacts before it looks whether any task waits
  (`task.rs:267`; the repository's README, lines 118-120, has it the other way round). `Runtime`'s `Run` therefore requires a task.
* More submissions between two calls of `react` than the submission queue holds end the thread (`uring.rs:96`).
  `Uring` and `Runtime` have that panic; nothing limits submissions, so no property is stated.
* Threads share nothing but eventfds in these models: a waker used on another thread than its
  task's (`task.rs:118`) is not modelled, nor is a future that moves to another task after its first
  poll.
* An `EventWaiter` always returns Pending from its first poll, whatever the count, although
  `event.rs:125-127` and `mutex.rs:109-110` read as if it could be Ready at once; `FirstPoll` follows the code.
* Memory. What the operation of a dropped future does to the buffer it points to is not modelled; that it may fail, or act on
  its descriptor all the same, is. `RecvFrom`, `SendTo` and `Timer` point into themselves and are pinned from their first poll.
* Paths (one path stands for the file system; one with a NUL byte panics), permissions, file contents.
* A wait interrupted by a signal is `Uring`'s `Interrupted`; `Runtime` leaves it out, as nothing
  says what should follow.
* The kernel's completion queue does not overflow (the kernel buffers completions).
* Examples are programs on the library, the crate root and `futures/mod.rs` keep no state.

## 6. Plan

1. The safety half of the liveness properties: invariants that leave no state in which everything waits (a waiting
   `lock()` without a token under way, a joiner whose task is gone).
2. Two executors that exchange wakers; futures that change task.
3. The properties of the violated runs under the conditions that restore them, as theorems (the cancel of a multishot that is in the kernel).
