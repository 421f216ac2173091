------------------------------- MODULE Uring -------------------------------
(***************************************************************************)
(* The io_uring reactor of one thread: reactor/uring.rs, its result stores *)
(* (uring/result.rs) and the two I/O handles futures hold                  *)
(* (uring/io/oneshot.rs, uring/io/multishot.rs).                           *)
(*                                                                         *)
(* A handle h is one OneshotUringIo or MultishotUringIo.  Polling a New    *)
(* handle allocates a result slot and a `pending` entry, whose index is    *)
(* the user_data of the submission queue entry; react() hands the queue to *)
(* the kernel, waits, and routes each completion by user_data through      *)
(* `pending` to its result slot.  All three tables are slabs, so indices   *)
(* are reused while completions of earlier operations may still be on      *)
(* their way: that routing is what this module is about.                   *)
(*                                                                         *)
(* The kernel (io_uring_enter, the completion queue, sync cancel) and the  *)
(* slab and ringbuffer crates are external: they do what the code's calls  *)
(* rely on.  A slab hands out any vacant index.                            *)
(***************************************************************************)
EXTENDS Integers, Sequences, FiniteSets, UringParams

CONSTANT Wakers  \* what `assoc_obj` ranges over: the wakers

Handles == Oneshots \cup Multishots

ECANCELED == -125
Values == Results \cup {ECANCELED}

VARIABLES
  io,         \* IoState of each handle; "Gone" once it is dropped
  pending,    \* ReactorInner::pending, Slab<PendingIo>
  oneshot,    \* OneshotStore, Slab<ResultState>
  multishot,  \* MultishotStore, Slab<MultishotResultState>
  sq,         \* submission queue: entries pushed and not yet submitted
  kernel,     \* operations the kernel has accepted and not finished
  cq,         \* completion queue
  entered,    \* the thread is inside submit_and_wait
  batch,      \* completions the current IoCompletionIter still has to yield
  posted,     \* history: what the kernel answered to each handle's operation
  got,        \* history: what polling each handle has returned as Ready
  panic       \* the panic that ended the thread, or "none"

uring_vars == <<io, pending, oneshot, multishot, sq, kernel, cq, entered, batch,
                posted, got, panic>>

-----------------------------------------------------------------------------
(***************************************************************************)
(* Slabs and the tagged values kept in them.                               *)
(***************************************************************************)
Vacant == [st |-> "Vacant"]
VacantKeys(slab) == {k \in Keys : slab[k] = Vacant}

New == [st |-> "New"]
Gone == [st |-> "Gone"]
SubmittedOneshot(slot) == [st |-> "Submitted", slot |-> slot]
SubmittedMulti(slot, ud) == [st |-> "Submitted", slot |-> slot, ud |-> ud]
Finished(v) == [st |-> "Finished", val |-> v]

PendingIo(kind, obj, slot) == [st |-> kind, obj |-> obj, slot |-> slot]

ResultPending == [st |-> "Pending"]
ResultDropped == [st |-> "Dropped"]
ResultSet(v) == [st |-> "Set", val |-> v]

\* A new MultishotResultState; `overflow` is history: a result was overwritten.
NewShots ==
  [st |-> "Live", results |-> <<>>, dropped |-> FALSE, finished |-> FALSE, overflow |-> FALSE]

\* A submission queue entry and a completion.  `io` says whose operation it is:
\* it stands for the entry's opcode, descriptor and buffer.
Op(ud, h) == [ud |-> ud, io |-> h]
Cqe(op, v, more) == [ud |-> op.ud, io |-> op.io, res |-> v, more |-> more]

IoStates ==
  [st : {"New", "Gone"}] \cup [st : {"Submitted"}, slot : Keys]
  \cup [st : {"Submitted"}, slot : Keys, ud : Keys] \cup [st : {"Finished"}, val : Values]
PendingIos == [st : {"Vacant"}] \cup [st : {"Oneshot", "Multi"}, obj : Wakers, slot : Keys]
OneshotResults == [st : {"Vacant", "Pending", "Dropped"}] \cup [st : {"Set"}, val : Values]
MultishotResults ==
  [st : {"Vacant"}]
  \cup [st : {"Live"}, results : Seq(Values), dropped : BOOLEAN, finished : BOOLEAN,
        overflow : BOOLEAN]
Ops == [ud : Keys, io : Handles]
Cqes == [ud : Keys, io : Handles, res : Values, more : BOOLEAN]

TypeOK ==
  /\ io \in [Handles -> IoStates]
  /\ pending \in [Keys -> PendingIos]
  /\ oneshot \in [Keys -> OneshotResults]
  /\ multishot \in [Keys -> MultishotResults]
  /\ sq \subseteq Ops
  /\ kernel \subseteq Ops
  /\ cq \in Seq(Cqes)
  /\ entered \in BOOLEAN
  /\ batch \in 0..Len(cq)
  /\ posted \in [Handles -> Seq(Values)]
  /\ got \in [Handles -> Seq({"Ok", "Err"} \X Int)]
  /\ panic \in {"none", "sq_full", "cancel", "submit_and_wait"}

Init ==
  /\ io = [h \in Handles |-> New]
  /\ pending = [k \in Keys |-> Vacant]
  /\ oneshot = [k \in Keys |-> Vacant]
  /\ multishot = [k \in Keys |-> Vacant]
  /\ sq = {} /\ kernel = {} /\ cq = <<>>
  /\ entered = FALSE /\ batch = 0
  /\ posted = [h \in Handles |-> <<>>]
  /\ got = [h \in Handles |-> <<>>]
  /\ panic = "none"

-----------------------------------------------------------------------------
(***************************************************************************)
(* The result stores (result.rs).                                          *)
(***************************************************************************)
\* Mutant: a dropped slot is left for nobody instead of removed.
set_result_KeepsDropped(store, v, idx) == [store EXCEPT ![idx] = ResultSet(v)]

set_result(store, v, idx) ==
  IF store[idx] = ResultDropped
  THEN [store EXCEPT ![idx] = Vacant]
  ELSE [store EXCEPT ![idx] = ResultSet(v)]

\* Mutant: the slot is removed although its operation has still to complete.
oneshot_drop_result_Removes(store, idx) == [store EXCEPT ![idx] = Vacant]

oneshot_drop_result(store, idx) ==
  IF store[idx].st = "Set"
  THEN [store EXCEPT ![idx] = Vacant]
  ELSE [store EXCEPT ![idx] = ResultDropped]

\* ConstGenericRingBuffer::push overwrites the oldest element when it is full.
RingPush(q, v) == Append(IF Len(q) < RingCap THEN q ELSE Tail(q), v)

push_result(store, v, idx) ==
  [store EXCEPT ![idx].results = RingPush(@, v),
                ![idx].overflow = @ \/ Len(store[idx].results) >= RingCap]

set_finished(store, idx) ==
  IF store[idx].dropped
  THEN [store EXCEPT ![idx] = Vacant]
  ELSE [store EXCEPT ![idx].finished = TRUE]

multishot_drop_result(store, idx) ==
  IF store[idx].finished
  THEN [store EXCEPT ![idx] = Vacant]
  ELSE [store EXCEPT ![idx].dropped = TRUE]

reactor_value_to_result(v) == IF v < 0 THEN <<"Err", -v>> ELSE <<"Ok", v>>

-----------------------------------------------------------------------------
(***************************************************************************)
(* Calls a future makes on its handle.  They run on the thread, outside    *)
(* react().                                                                *)
(***************************************************************************)
Idle == ~entered /\ batch = 0 /\ panic = "none"

\* ReactorInner::submit_io once the result slot is created: the index of the
\* new pending entry becomes the user_data.
submit_io(h, kind, obj, ud, slot) ==
  /\ pending' = [pending EXCEPT ![ud] = PendingIo(kind, obj, slot)]
  /\ sq' = sq \cup {Op(ud, h)}

\* submit_or_get_result on a New oneshot handle.
OneshotSubmit(h, obj) ==
  /\ Idle
  /\ io[h] = New
  /\ Cardinality(sq) < SqEntries
  /\ \E slot \in VacantKeys(oneshot), ud \in VacantKeys(pending) :
       /\ oneshot' = [oneshot EXCEPT ![slot] = ResultPending]
       /\ submit_io(h, "Oneshot", obj, ud, slot)
       /\ io' = [io EXCEPT ![h] = SubmittedOneshot(slot)]
  /\ UNCHANGED <<multishot, kernel, cq, entered, batch, posted, got, panic>>

\* submit_or_get_result on a New multishot handle.
MultiSubmit(h, obj) ==
  /\ Idle
  /\ io[h] = New
  /\ Cardinality(sq) < SqEntries
  /\ \E slot \in VacantKeys(multishot), ud \in VacantKeys(pending) :
       /\ multishot' = [multishot EXCEPT ![slot] = NewShots]
       /\ submit_io(h, "Multi", obj, ud, slot)
       /\ io' = [io EXCEPT ![h] = SubmittedMulti(slot, ud)]
  /\ UNCHANGED <<oneshot, kernel, cq, entered, batch, posted, got, panic>>

\* The push().unwrap() of submit_io on a full submission queue: it is emptied
\* only by react().
SubmitPanics(h) ==
  /\ Idle
  /\ io[h] = New
  /\ Cardinality(sq) >= SqEntries
  /\ panic' = "sq_full"
  /\ UNCHANGED <<io, pending, oneshot, multishot, sq, kernel, cq, entered, batch,
                 posted, got>>

\* submit_or_get_result on a submitted oneshot handle whose result is there:
\* get_result takes it out of the store.
OneshotReady(h) ==
  /\ Idle
  /\ io[h].st = "Submitted"
  /\ oneshot[io[h].slot].st = "Set"
  /\ LET v == oneshot[io[h].slot].val
     IN  /\ io' = [io EXCEPT ![h] = Finished(v)]
         /\ got' = [got EXCEPT ![h] = Append(@, reactor_value_to_result(v))]
  /\ oneshot' = [oneshot EXCEPT ![io[h].slot] = Vacant]
  /\ UNCHANGED <<pending, multishot, sq, kernel, cq, entered, batch, posted, panic>>

\* Mutant: the newest buffered result is taken.
MultiReady_Newest(h) ==
  /\ Idle
  /\ io[h].st = "Submitted"
  /\ LET slot == io[h].slot
         q == multishot[slot].results
     IN  /\ q # <<>>
         /\ multishot' = [multishot EXCEPT ![slot].results = SubSeq(q, 1, Len(q) - 1)]
         /\ got' = [got EXCEPT ![h] = Append(@, reactor_value_to_result(q[Len(q)]))]
  /\ UNCHANGED <<io, pending, oneshot, sq, kernel, cq, entered, batch, posted, panic>>

\* pop_result on a multishot handle with a buffered result.
MultiReady(h) ==
  /\ Idle
  /\ io[h].st = "Submitted"
  /\ LET slot == io[h].slot
         q == multishot[slot].results
     IN  /\ q # <<>>
         /\ multishot' = [multishot EXCEPT ![slot].results = Tail(q)]
         /\ got' = [got EXCEPT ![h] = Append(@, reactor_value_to_result(Head(q)))]
  /\ UNCHANGED <<io, pending, oneshot, sq, kernel, cq, entered, batch, posted, panic>>

\* Drop of a handle with nothing in flight: New, or a oneshot that has its result.
DropQuiet(h) ==
  /\ Idle
  /\ io[h].st \in {"New", "Finished"}
  /\ io' = [io EXCEPT ![h] = Gone]
  /\ UNCHANGED <<pending, oneshot, multishot, sq, kernel, cq, entered, batch,
                 posted, got, panic>>

\* Drop of a submitted oneshot: the operation is left to run to completion.
OneshotDrop(h) ==
  /\ Idle
  /\ io[h].st = "Submitted"
  /\ oneshot' = oneshot_drop_result(oneshot, io[h].slot)
  /\ io' = [io EXCEPT ![h] = Gone]
  /\ UNCHANGED <<pending, multishot, sq, kernel, cq, entered, batch, posted, got,
                 panic>>

\* What register_sync_cancel(user_data) can find: operations the kernel holds.
\* An entry still in the submission queue, or a finished operation, is not found.
Cancellable(ud) == {op \in kernel : op.ud = ud}

\* The kernel ends op and posts v as its last completion.
Finish(op, v) ==
  /\ kernel' = kernel \ {op}
  /\ cq' = Append(cq, Cqe(op, v, FALSE))
  /\ posted' = [posted EXCEPT ![op.io] = Append(@, v)]

\* Drop of a submitted multishot: cancel by user_data, then give up the results.
MultiDrop(h) ==
  /\ Idle
  /\ io[h].st = "Submitted"
  /\ \E op \in Cancellable(io[h].ud) : Finish(op, ECANCELED)
  /\ multishot' = multishot_drop_result(multishot, io[h].slot)
  /\ io' = [io EXCEPT ![h] = Gone]
  /\ UNCHANGED <<pending, oneshot, sq, entered, batch, got, panic>>

\* The same when the cancel finds nothing: its error meets an expect().
MultiDropPanics(h) ==
  /\ Idle
  /\ io[h].st = "Submitted"
  /\ Cancellable(io[h].ud) = {}
  /\ panic' = "cancel"
  /\ UNCHANGED <<io, pending, oneshot, multishot, sq, kernel, cq, entered, batch,
                 posted, got>>

-----------------------------------------------------------------------------
(***************************************************************************)
(* ReactorUring::react.                                                    *)
(***************************************************************************)
\* submit_and_wait(1) hands the submission queue to the kernel and blocks ...
SubmitAndWait ==
  /\ Idle
  /\ kernel' = kernel \cup sq
  /\ sq' = {}
  /\ entered' = TRUE
  /\ UNCHANGED <<io, pending, oneshot, multishot, cq, batch, posted, got, panic>>

\* Mutant: the iterator runs one past the completions that are there.
Completion_OneTooMany ==
  /\ entered /\ panic = "none"
  /\ cq # <<>>
  /\ entered' = FALSE
  /\ batch' = Len(cq) + 1
  /\ UNCHANGED <<io, pending, oneshot, multishot, sq, kernel, cq, posted, got, panic>>

\* ... until a completion is there.  completion() fixes what the iterator sees.
Completion ==
  /\ entered /\ panic = "none"
  /\ cq # <<>>
  /\ entered' = FALSE
  /\ batch' = Len(cq)
  /\ UNCHANGED <<io, pending, oneshot, multishot, sq, kernel, cq, posted, got, panic>>

\* A signal interrupts the wait: the error meets the unwrap().
Interrupted ==
  /\ entered /\ panic = "none"
  /\ cq = <<>>
  /\ panic' = "submit_and_wait"
  /\ UNCHANGED <<io, pending, oneshot, multishot, sq, kernel, cq, entered, batch,
                 posted, got>>

\* The completion IoCompletionIter::next takes, its pending entry, and the waker
\* it yields.
Entry == Head(cq)
EntryIo == pending[Entry.ud]
Yielded == EntryIo.obj

\* Mutant: user_data is taken for the index of the result slot.
NextOneshot_UserDataAsSlot ==
  /\ batch > 0 /\ panic = "none"
  /\ EntryIo.st = "Oneshot"
  /\ oneshot' = set_result(oneshot, Entry.res, Entry.ud)
  /\ pending' = [pending EXCEPT ![Entry.ud] = Vacant]
  /\ cq' = Tail(cq)
  /\ batch' = batch - 1
  /\ UNCHANGED <<io, multishot, sq, kernel, entered, posted, got, panic>>

\* IoCompletionIter::next for a oneshot: the pending entry is freed.
NextOneshot ==
  /\ batch > 0 /\ panic = "none"
  /\ EntryIo.st = "Oneshot"
  /\ oneshot' = set_result(oneshot, Entry.res, EntryIo.slot)
  /\ pending' = [pending EXCEPT ![Entry.ud] = Vacant]
  /\ cq' = Tail(cq)
  /\ batch' = batch - 1
  /\ UNCHANGED <<io, multishot, sq, kernel, entered, posted, got, panic>>

\* Mutant: the last completion frees the pending entry, as a oneshot's does,
\* while the handle keeps its user_data to cancel with.
NextMulti_FreesPending ==
  /\ batch > 0 /\ panic = "none"
  /\ EntryIo.st = "Multi"
  /\ LET store == push_result(multishot, Entry.res, EntryIo.slot)
     IN  multishot' = IF Entry.more THEN store ELSE set_finished(store, EntryIo.slot)
  /\ pending' = IF Entry.more THEN pending ELSE [pending EXCEPT ![Entry.ud] = Vacant]
  /\ cq' = Tail(cq)
  /\ batch' = batch - 1
  /\ UNCHANGED <<io, oneshot, sq, kernel, entered, posted, got, panic>>

\* IoCompletionIter::next for a multishot: the pending entry stays.
NextMulti ==
  /\ batch > 0 /\ panic = "none"
  /\ EntryIo.st = "Multi"
  /\ LET store == push_result(multishot, Entry.res, EntryIo.slot)
     IN  multishot' = IF Entry.more THEN store ELSE set_finished(store, EntryIo.slot)
  /\ cq' = Tail(cq)
  /\ batch' = batch - 1
  /\ UNCHANGED <<io, pending, oneshot, sq, kernel, entered, posted, got, panic>>

-----------------------------------------------------------------------------
(***************************************************************************)
(* The kernel, at any time.                                                *)
(***************************************************************************)
\* An operation ends.  A multishot may end by itself too (an error does that).
KernelFinish(op, v) ==
  /\ panic = "none"
  /\ Finish(op, v)
  /\ UNCHANGED <<io, pending, oneshot, multishot, sq, entered, batch, got, panic>>

\* A multishot operation produces a result and goes on.
KernelShot(op, v) ==
  /\ panic = "none"
  /\ op.io \in Multishots
  /\ Len(posted[op.io]) < MaxShots
  /\ \A m \in Multishots \ {op.io} : Len(posted[op.io]) + Len(posted[m]) < MaxShots
  /\ cq' = Append(cq, Cqe(op, v, TRUE))
  /\ posted' = [posted EXCEPT ![op.io] = Append(@, v)]
  /\ UNCHANGED <<io, pending, oneshot, multishot, sq, kernel, entered, batch, got, panic>>

\* After a panic the thread runs nothing more.
Panicked == panic # "none" /\ UNCHANGED uring_vars

Next ==
  \/ \E h \in Oneshots : \/ \E w \in Wakers : OneshotSubmit(h, w)
                         \/ OneshotReady(h)
                         \/ OneshotDrop(h)
  \/ \E h \in Multishots : \/ \E w \in Wakers : MultiSubmit(h, w)
                           \/ MultiReady(h)
                           \/ MultiDrop(h)
                           \/ MultiDropPanics(h)
  \/ \E h \in Handles : SubmitPanics(h) \/ DropQuiet(h)
  \/ SubmitAndWait \/ Completion \/ Interrupted
  \/ NextOneshot \/ NextMulti
  \/ \E op \in kernel, v \in Results : KernelFinish(op, v) \/ KernelShot(op, v)
  \/ Panicked

Spec == Init /\ [][Next]_uring_vars

-----------------------------------------------------------------------------
(***************************************************************************)
(* Properties.                                                             *)
(***************************************************************************)
\* How many completions of h are in the queue behind position i.
Behind(h, i) == Cardinality({j \in (i + 1)..Len(cq) : cq[j].io = h})

Converted(s) == [i \in DOMAIN s |-> reactor_value_to_result(s[i])]

\* The operation of h is queued, in the kernel, or has completions to be reaped.
Outstanding(h) ==
  \/ \E op \in sq \cup kernel : op.io = h
  \/ \E i \in DOMAIN cq : cq[i].io = h

\* Every index the code looks up with unwrap() is occupied, and by an entry in a
\* state the caller expects: user_data in `pending` and the result slot it names
\* for each completion, whenever it is reaped (uring.rs:115-135), and the slot
\* of each submitted handle, which is never `Dropped` (result.rs:33-40, 90).
LookupsSucceed ==
  /\ \A i \in DOMAIN cq :
       LET p == pending[cq[i].ud]
       IN  \/ p.st = "Oneshot" /\ oneshot[p.slot].st \in {"Pending", "Dropped"}
           \/ p.st = "Multi" /\ multishot[p.slot].st = "Live"
                              /\ ~multishot[p.slot].finished
  /\ \A h \in Oneshots :
       io[h].st = "Submitted" => oneshot[io[h].slot].st \in {"Pending", "Set"}
  /\ \A h \in Multishots :
       io[h].st = "Submitted" =>
         multishot[io[h].slot].st = "Live" /\ ~multishot[io[h].slot].dropped

\* A oneshot handle returns the answer to its own operation, although the
\* user_data and the result slot it travelled through may have belonged to a
\* dropped handle before, or belong to another one already.
OwnResults ==
  \A h \in Oneshots : got[h] # <<>> => got[h] = Converted(posted[h])

\* A multishot handle returns its own completions in the order the kernel posted
\* them, every one as long as its ring buffer has not overflowed; when it has, the
\* buffer still holds the newest ones (result.rs:86, 89-97).
MultishotFifo ==
  \A h \in Multishots :
    io[h].st = "Submitted" =>
      LET results == multishot[io[h].slot].results
          reaped == Len(posted[h]) - Behind(h, 0)
          read == reaped - Len(results)
      IN  /\ read >= 0
          /\ \A i \in DOMAIN cq :
               cq[i].io = h => cq[i].res = posted[h][Len(posted[h]) - Behind(h, i)]
          /\ \A i \in DOMAIN results : results[i] = posted[h][read + i]
          /\ ~multishot[io[h].slot].overflow =>
               /\ Len(got[h]) = read
               /\ \A i \in 1..read : got[h][i] = reactor_value_to_result(posted[h][i])

\* A result slot is kept only for a submitted handle that can still read it or
\* an operation that has still to complete into it: dropping a handle before or
\* after its completion frees the slot in the end (the tests' results.is_empty()).
ResultsReclaimed ==
  \A k \in Keys :
    /\ oneshot[k] # Vacant =>
         \E h \in Oneshots :
           \/ io[h].st = "Submitted" /\ io[h].slot = k
           \/ io[h] = Gone /\ Outstanding(h) /\ oneshot[k] = ResultDropped
    /\ multishot[k] # Vacant =>
         \E h \in Multishots :
           \/ io[h].st = "Submitted" /\ io[h].slot = k
           \/ io[h] = Gone /\ Outstanding(h) /\ multishot[k].dropped

\* Dropping a multishot handle cancels by user_data, an index others may reuse:
\* it never ends the operation of another handle (multishot.rs:59-62).
CancelsOwnOperation ==
  [][\A h \in Multishots :
       io[h].st = "Submitted" /\ io'[h] = Gone =>
         \A op \in kernel \ kernel' : op.io = h]_uring_vars

\* Where the operation of a oneshot handle is.
OpState(h) ==
  CASE \E op \in sq : op.io = h -> "queued"
    [] \E op \in kernel : op.io = h -> "kernel"
    [] posted[h] # <<>> -> "done"
    [] OTHER -> "none"

Port == INSTANCE IoPort WITH
          Handles <- Oneshots, Answers <- Values,
          fut <- [h \in Oneshots |-> io[h].st],
          op <- [h \in Oneshots |-> OpState(h)],
          ans <- [h \in Oneshots |-> posted[h]],
          out <- [h \in Oneshots |-> got[h]]

\* The reactor implements IoPort for its oneshot handles: slots, user_data and
\* completion queue give every future one answer to its own operation, once, and
\* only after the kernel gave it (oneshot.rs:39-64, uring.rs:112-129).
PortSpec == Port!Spec

\* What the expect() in Drop for MultishotUringIo asserts: the cancel finds an
\* operation in flight (multishot.rs:62).
CancelFindsOperation == panic # "cancel"

=============================================================================
