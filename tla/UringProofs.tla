---------------------------- MODULE UringProofs ----------------------------
(***************************************************************************)
(* Proofs about the reactor, for any handles, indices, results and bounds: *)
(* its lookups succeed, a oneshot returns the answer to its own operation, *)
(* a multishot its own in order, result slots are reclaimed, dropping a    *)
(* multishot cancels only its own operation, and the oneshots implement    *)
(* IoPort.                                                                 *)
(*                                                                         *)
(* The argument follows an operation from submission to its last           *)
(* completion.  While it is under way, (user_data, handle) is a token: in  *)
(* the submission queue, in the kernel, or on completions to be reaped.    *)
(***************************************************************************)
EXTENDS Uring, FiniteSetTheorems, FunctionTheorems, TLAPS

\* The operation of h with user_data u is queued or in the kernel; it has
\* completions to be reaped; either.
InOps(u, h) == Op(u, h) \in sq \cup kernel
InCompletions(u, h) == \E i \in DOMAIN cq : cq[i].ud = u /\ cq[i].io = h
Token(u, h) == InOps(u, h) \/ InCompletions(u, h)

\* Tokens pair user_data and handles one to one.
TokensUnique ==
  \A u, v \in Keys, g, h \in Handles : Token(u, g) /\ Token(v, h) => (u = v <=> g = h)

\* An operation is in one queue; a completion without `more` is its last sign of
\* life, and the only one of a oneshot.
LastIsLast ==
  /\ sq \cap kernel = {}
  /\ \A i \in DOMAIN cq :
       /\ cq[i].io \in Oneshots => ~cq[i].more
       /\ ~cq[i].more => /\ ~InOps(cq[i].ud, cq[i].io)
                         /\ \A j \in DOMAIN cq : j # i /\ cq[j].io = cq[i].io => j < i

\* The pending entry of a token is there and of its kind; two tokens of a kind
\* have two result slots.
EntriesPending ==
  /\ \A u \in Keys, h \in Handles :
       Token(u, h) => pending[u].st = IF h \in Oneshots THEN "Oneshot" ELSE "Multi"
  /\ \A u, v \in Keys, g, h \in Handles :
       Token(u, g) /\ Token(v, h) /\ u # v /\ pending[u].st = pending[v].st =>
         pending[u].slot # pending[v].slot

\* The result slot of a oneshot's token: pending for a submitted handle, marked
\* for removal for a dropped one.
OneshotTokens ==
  \A u \in Keys, h \in Oneshots :
    Token(u, h) =>
      \/ /\ io[h].st = "Submitted" /\ io[h].slot = pending[u].slot
         /\ oneshot[pending[u].slot] = ResultPending
      \/ io[h] = Gone /\ oneshot[pending[u].slot] = ResultDropped

\* The result slot of a multishot's token.
MultishotTokens ==
  \A u \in Keys, h \in Multishots :
    Token(u, h) =>
      /\ multishot[pending[u].slot].st = "Live"
      /\ ~multishot[pending[u].slot].finished
      /\ \/ /\ io[h].st = "Submitted" /\ io[h].slot = pending[u].slot /\ io[h].ud = u
            /\ ~multishot[pending[u].slot].dropped
         \/ io[h] = Gone /\ multishot[pending[u].slot].dropped

\* The result slot of a submitted oneshot is its own; once it is set, it holds the
\* kernel's answer to the operation, which is over.
OneshotSlots ==
  /\ \A h \in Oneshots :
       io[h].st = "Submitted" =>
         /\ io[h].slot \in Keys
         /\ oneshot[io[h].slot].st \in {"Pending", "Set"}
         /\ oneshot[io[h].slot].st = "Set" =>
              /\ posted[h] = <<oneshot[io[h].slot].val>>
              /\ \A u \in Keys : ~Token(u, h)
  /\ \A g, h \in Oneshots :
       io[g].st = "Submitted" /\ io[h].st = "Submitted" /\ g # h =>
         io[g].slot # io[h].slot

\* The result slot and the user_data of a submitted multishot are its own, the
\* latter even after the operation has finished.
MultishotSlots ==
  /\ \A h \in Multishots :
       io[h].st = "Submitted" =>
         /\ io[h].slot \in Keys /\ io[h].ud \in Keys
         /\ multishot[io[h].slot].st = "Live"
         /\ ~multishot[io[h].slot].dropped
         /\ pending[io[h].ud].st = "Multi"
         /\ \A g \in Handles : Token(io[h].ud, g) => g = h
  /\ \A g, h \in Multishots :
       io[g].st = "Submitted" /\ io[h].st = "Submitted" /\ g # h =>
         io[g].slot # io[h].slot

\* Nothing has happened for a new handle.
NewHandles ==
  \A h \in Handles :
    io[h] = New => posted[h] = <<>> /\ got[h] = <<>> /\ \A u \in Keys : ~Token(u, h)

\* What the kernel has answered to a oneshot while its operation is under way, and
\* what the handle has returned when it is over.
OneshotAnswers ==
  \A h \in Oneshots :
    /\ \A u \in Keys : InOps(u, h) => posted[h] = <<>>
    /\ \A i \in DOMAIN cq : cq[i].io = h => posted[h] = <<cq[i].res>>
    /\ io[h].st = "Submitted" => got[h] = <<>>
    /\ got[h] # <<>> => /\ io[h].st \in {"Finished", "Gone"}
                        /\ \A u \in Keys : ~Token(u, h)
                        /\ got[h] = Converted(posted[h])

\* The inductive invariant.
IInv ==
  /\ TypeOK
  /\ TokensUnique
  /\ LastIsLast
  /\ EntriesPending
  /\ OneshotTokens
  /\ MultishotTokens
  /\ OneshotSlots
  /\ MultishotSlots
  /\ NewHandles
  /\ OneshotAnswers

-----------------------------------------------------------------------------
\* An empty reactor satisfies the invariant.
LEMMA InitIInv == Init => IInv
<1> SUFFICES ASSUME Init PROVE IInv
  OBVIOUS
<1>1. TypeOK
  <2>1. /\ New \in IoStates /\ Vacant \in PendingIos
        /\ Vacant \in OneshotResults /\ Vacant \in MultishotResults
    BY DEF New, Vacant, IoStates, PendingIos, OneshotResults, MultishotResults
  <2>2. posted \in [Handles -> Seq(Values)] /\ got \in [Handles -> Seq({"Ok", "Err"} \X Int)]
    BY DEF Init
  <2>3. cq \in Seq(Cqes) /\ batch \in 0..Len(cq)
    BY DEF Init
  <2> QED
    BY <2>1, <2>2, <2>3 DEF Init, TypeOK
<1>2. \A u \in Keys, h \in Handles : ~InOps(u, h) /\ ~InCompletions(u, h) /\ ~Token(u, h)
  BY DEF Init, InOps, InCompletions, Token
<1>3. \A h \in Handles : io[h] = New /\ io[h].st = "New" /\ posted[h] = <<>> /\ got[h] = <<>>
  BY DEF Init, New
<1>4. DOMAIN cq = {} /\ sq = {} /\ kernel = {}
  BY DEF Init
<1> QED
  BY <1>1, <1>2, <1>3, <1>4
  DEF IInv, TokensUnique, LastIsLast, EntriesPending, OneshotTokens, MultishotTokens,
      OneshotSlots, MultishotSlots, NewHandles, OneshotAnswers, Handles

\* Completions in the queue name an index and a handle.
LEMMA CqTyped ==
  ASSUME TypeOK
  PROVE  \A i \in DOMAIN cq : cq[i].ud \in Keys /\ cq[i].io \in Handles
<1>1. \A i \in DOMAIN cq : cq[i] \in Cqes
  BY DEF TypeOK
<1> QED
  BY <1>1 DEF Cqes

\* An occupied pending entry names a waker and a result slot.
LEMMA PendingTyped ==
  ASSUME TypeOK
  PROVE  \A u \in Keys : pending[u].st \in {"Oneshot", "Multi"} =>
                           pending[u].slot \in Keys /\ pending[u].obj \in Wakers
<1>1. \A u \in Keys : pending[u] \in PendingIos
  BY DEF TypeOK
<1> QED
  BY <1>1 DEF PendingIos

\* A completion is appended for an operation in the kernel, which ends unless
\* there are more to come: the tokens stay the same.
LEMMA CqAppend ==
  ASSUME IInv, NEW op \in kernel, NEW v \in Values, NEW more \in BOOLEAN,
         op.io \in Oneshots => ~more,
         cq' = Append(cq, Cqe(op, v, more)), sq' = sq,
         kernel' = IF more THEN kernel ELSE kernel \ {op}
  PROVE  /\ op.ud \in Keys /\ op.io \in Handles /\ op = Op(op.ud, op.io)
         /\ cq' \in Seq(Cqes) /\ 0..Len(cq) \subseteq 0..Len(cq')
         /\ DOMAIN cq' = DOMAIN cq \cup {Len(cq) + 1} /\ Len(cq) + 1 \notin DOMAIN cq
         /\ \A i \in DOMAIN cq : cq'[i] = cq[i]
         /\ cq'[Len(cq) + 1] = Cqe(op, v, more)
         /\ \A u \in Keys, h \in Handles : /\ InOps(u, h)' => InOps(u, h)
                                           /\ Token(u, h)' <=> Token(u, h)
         /\ LastIsLast'
<1> USE DEF IInv
<1>1. op \in Ops
  BY DEF TypeOK
<1>2. op.ud \in Keys /\ op.io \in Handles /\ op = Op(op.ud, op.io)
  BY <1>1 DEF Ops, Op
<1> DEFINE e == Cqe(op, v, more)
           n == Len(cq)
<1>3. e \in Cqes /\ e.ud = op.ud /\ e.io = op.io /\ e.more = more
  BY <1>2 DEF Cqe, Cqes
<1>4. /\ cq \in Seq(Cqes) /\ n \in Nat /\ DOMAIN cq = 1..n
      /\ sq \subseteq Ops /\ kernel \subseteq Ops
  BY DEF TypeOK
<1> HIDE DEF e
<1>5. cq' = Append(cq, e)
  BY DEF e
<1>6. /\ cq' \in Seq(Cqes) /\ Len(cq') = n + 1 /\ DOMAIN cq' = 1..(n + 1)
      /\ \A i \in 1..n : cq'[i] = cq[i]
      /\ cq'[n + 1] = e
  BY <1>3, <1>4, <1>5
<1> HIDE DEF n
<1>7. /\ DOMAIN cq' = DOMAIN cq \cup {n + 1} /\ n + 1 \notin DOMAIN cq
      /\ 0..n \subseteq 0..Len(cq')
      /\ \A i \in DOMAIN cq : cq'[i] = cq[i]
      /\ \A i \in DOMAIN cq : i < n + 1
  BY <1>4, <1>6
<1>8. \A u, h : InCompletions(u, h)' <=> InCompletions(u, h) \/ (u = op.ud /\ h = op.io)
  BY <1>3, <1>6, <1>7 DEF InCompletions
<1>9. \A u, h : InOps(u, h)' <=> InOps(u, h) /\ (more \/ Op(u, h) # op \/ op \in sq)
  BY DEF InOps
<1>10. op \notin sq
  BY DEF LastIsLast
<1>11. InOps(op.ud, op.io)
  BY <1>2 DEF InOps
<1>12. \A u, h : Op(u, h) = op => u = op.ud /\ h = op.io
  BY <1>2 DEF Op
<1>13. \A u, h : Token(u, h)' <=> Token(u, h)
  BY <1>8, <1>9, <1>11, <1>12 DEF Token
<1>14. LastIsLast'
  <2>1. sq' \cap kernel' = {}
    BY DEF LastIsLast
  <2>2. \A i \in DOMAIN cq : cq[i].io = op.io => cq[i].ud = op.ud /\ cq[i].more
    <3> SUFFICES ASSUME NEW i \in DOMAIN cq, cq[i].io = op.io
                 PROVE  cq[i].ud = op.ud /\ cq[i].more
      OBVIOUS
    <3>1. Token(cq[i].ud, cq[i].io) /\ Token(op.ud, op.io) /\ cq[i].ud \in Keys
      BY <1>11, CqTyped DEF Token, InCompletions
    <3>2. cq[i].ud = op.ud
      BY <1>2, <3>1 DEF TokensUnique
    <3>3. cq[i] \in Cqes
      BY <1>4
    <3>4. cq[i].more \in BOOLEAN
      BY <3>3 DEF Cqes
    <3> QED
      BY <1>11, <3>2, <3>4 DEF LastIsLast
  <2>3. ASSUME NEW i \in DOMAIN cq, ~cq[i].more
        PROVE  /\ Op(cq[i].ud, cq[i].io) \notin sq' \cup kernel'
               /\ \A j \in DOMAIN cq' : j # i /\ cq'[j].io = cq[i].io => j < i
    BY <1>3, <1>6, <1>7, <2>2, <2>3 DEF LastIsLast, InOps
  <2>4. ~more => /\ op \notin sq' \cup kernel'
                 /\ \A j \in DOMAIN cq' : j # n + 1 => j < n + 1
    BY <1>7, <1>10
  <2>5. \A i \in DOMAIN cq : cq[i].io \in Oneshots => ~cq[i].more
    BY DEF LastIsLast
  <2>6. \A i \in DOMAIN cq' :
          /\ cq'[i].io \in Oneshots => ~cq'[i].more
          /\ ~cq'[i].more =>
               /\ Op(cq'[i].ud, cq'[i].io) \notin sq' \cup kernel'
               /\ \A j \in DOMAIN cq' : j # i /\ cq'[j].io = cq'[i].io => j < i
    BY <1>2, <1>3, <1>6, <1>7, <2>3, <2>4, <2>5
  <2> QED
    BY <2>1, <2>6 DEF LastIsLast, InOps
<1> QED
  BY <1>2, <1>6, <1>7, <1>9, <1>13, <1>14 DEF e, n

\* The first completion is taken: no token appears, and the last completion of an
\* operation takes its token with it.
LEMMA CqTail ==
  ASSUME IInv, cq # <<>>, cq' = Tail(cq), UNCHANGED <<sq, kernel>>
  PROVE  /\ Head(cq) \in Cqes /\ Head(cq) = cq[1] /\ 1 \in DOMAIN cq
         /\ cq' \in Seq(Cqes) /\ DOMAIN cq' = 1..(Len(cq) - 1) /\ Len(cq') = Len(cq) - 1
         /\ \A i \in DOMAIN cq' : i + 1 \in DOMAIN cq /\ cq'[i] = cq[i + 1]
         /\ \A u \in Keys, h \in Handles : /\ InOps(u, h)' <=> InOps(u, h)
                                           /\ Token(u, h)' => Token(u, h)
         /\ Token(Head(cq).ud, Head(cq).io)
         /\ ~Head(cq).more => \A u \in Keys, h \in Handles :
                                Token(u, h)' <=> Token(u, h) /\ h # Head(cq).io
         /\ LastIsLast'
<1> USE DEF IInv
<1> DEFINE n == Len(cq)
           e == cq[1]
<1>1. cq \in Seq(Cqes)
  BY DEF TypeOK
<1>2. /\ n \in Nat \ {0} /\ DOMAIN cq = 1..n
      /\ Head(cq) = e /\ e \in Cqes
  BY <1>1
<1>3. /\ cq' \in Seq(Cqes) /\ Len(cq') = n - 1
      /\ \A i \in 1..(n - 1) : cq'[i] = cq[i + 1]
  BY <1>1, <1>2
<1>4. DOMAIN cq' = 1..(n - 1)
  BY <1>3
<1> HIDE DEF n, e
<1>5. /\ \A i \in DOMAIN cq' : i + 1 \in DOMAIN cq /\ cq'[i] = cq[i + 1] /\ i + 1 # 1
      /\ \A i \in DOMAIN cq : i # 1 => i - 1 \in DOMAIN cq' /\ i = (i - 1) + 1
      /\ 1 \in DOMAIN cq /\ \A i \in DOMAIN cq : ~(i < 1)
      /\ \A i, j \in DOMAIN cq' : i + 1 < j + 1 <=> i < j
      /\ \A i, j \in DOMAIN cq' : i + 1 = j + 1 <=> i = j
  BY <1>2, <1>3, <1>4
<1>6. \A u, h : InOps(u, h)' <=> InOps(u, h)
  BY DEF InOps
<1>7. \A u, h : InCompletions(u, h) <=> InCompletions(u, h)' \/ (u = e.ud /\ h = e.io)
  BY <1>5 DEF InCompletions, e
<1>8. \A u, h : Token(u, h) <=> Token(u, h)' \/ (u = e.ud /\ h = e.io)
  BY <1>6, <1>7 DEF Token
<1>9. Token(e.ud, e.io)
  BY <1>8
<1>10. e.ud \in Keys /\ e.io \in Handles
  BY <1>2 DEF Cqes
<1>11. ~e.more => \A u \in Keys, h \in Handles : h = e.io => ~Token(u, h)'
  <2> SUFFICES ASSUME ~e.more, NEW u \in Keys, NEW h \in Handles, h = e.io
               PROVE  ~Token(u, h)'
    OBVIOUS
  <2>1. \A i \in DOMAIN cq' : cq'[i].io # h
    BY <1>5 DEF LastIsLast, e
  <2>2. ~InCompletions(u, h)'
    BY <2>1 DEF InCompletions
  <2>3. ~InOps(e.ud, e.io)
    BY <1>5 DEF LastIsLast, e
  <2>4. ~InOps(u, h)
    BY <1>9, <1>10, <2>3 DEF TokensUnique, Token
  <2> QED
    BY <1>6, <2>2, <2>4 DEF Token
<1>12. LastIsLast'
  <2>1. \A i \in DOMAIN cq' :
          /\ cq'[i].io \in Oneshots => ~cq'[i].more
          /\ ~cq'[i].more =>
               /\ Op(cq'[i].ud, cq'[i].io) \notin sq' \cup kernel'
               /\ \A j \in DOMAIN cq' : j # i /\ cq'[j].io = cq'[i].io => j < i
    BY <1>5 DEF LastIsLast, InOps
  <2> QED
    BY <2>1 DEF LastIsLast, InOps
<1> QED
  BY <1>2, <1>3, <1>4, <1>5, <1>6, <1>8, <1>9, <1>10, <1>11, <1>12 DEF n, e

\* Steps that leave the tables, the completions and the set of operations alone.
LEMMA FrameIInv ==
  ASSUME IInv, TypeOK', UNCHANGED <<io, pending, oneshot, multishot, cq, posted, got>>,
         sq' \cup kernel' = sq \cup kernel, sq' \cap kernel' = {}
  PROVE  IInv'
<1> USE DEF IInv
<1>1. \A u, h :
        /\ InOps(u, h)' <=> InOps(u, h)
        /\ InCompletions(u, h)' <=> InCompletions(u, h)
        /\ Token(u, h)' <=> Token(u, h)
  BY DEF InOps, InCompletions, Token
<1>2. TokensUnique' /\ EntriesPending' /\ OneshotTokens' /\ MultishotTokens'
  BY <1>1 DEF TokensUnique, EntriesPending, OneshotTokens, MultishotTokens
<1>3. LastIsLast'
  BY <1>1 DEF LastIsLast
<1>4. OneshotSlots' /\ MultishotSlots'
  BY <1>1 DEF OneshotSlots, MultishotSlots
<1>5. NewHandles' /\ OneshotAnswers'
  BY <1>1 DEF NewHandles, OneshotAnswers, Converted
<1> QED
  BY <1>2, <1>3, <1>4, <1>5

\* Entering and leaving submit_and_wait, and panicking, touch no table.
LEMMA ControlIInv ==
  ASSUME IInv,
         \/ SubmitAndWait \/ Completion \/ Interrupted \/ UNCHANGED uring_vars
         \/ \E h \in Handles : SubmitPanics(h) \/ MultiDropPanics(h)
  PROVE  IInv'
<1>1. CASE SubmitAndWait
  BY <1>1, FrameIInv DEF SubmitAndWait, IInv, TypeOK, LastIsLast
<1>2. CASE Completion
  <2>1. Len(cq) \in 0..Len(cq)
    BY DEF IInv, TypeOK
  <2> QED
    BY <1>2, <2>1, FrameIInv DEF Completion, IInv, TypeOK, LastIsLast
<1>3. CASE Interrupted \/ \E h \in Handles : SubmitPanics(h) \/ MultiDropPanics(h)
  BY <1>3, FrameIInv DEF Interrupted, SubmitPanics, MultiDropPanics, IInv, TypeOK, LastIsLast
<1>4. CASE UNCHANGED uring_vars
  BY <1>4, FrameIInv DEF uring_vars, IInv, TypeOK, LastIsLast
<1> QED
  BY <1>1, <1>2, <1>3, <1>4

\* Submitting a oneshot makes a token out of vacant indices.
LEMMA OneshotSubmitIInv ==
  ASSUME IInv, NEW h \in Oneshots, NEW w \in Wakers, OneshotSubmit(h, w) PROVE IInv'
<1> USE HandlesAssumption DEF IInv
<1>1. PICK slot \in Keys, ud \in Keys :
        /\ oneshot[slot] = Vacant /\ pending[ud] = Vacant
        /\ oneshot' = [oneshot EXCEPT ![slot] = ResultPending]
        /\ pending' = [pending EXCEPT ![ud] = PendingIo("Oneshot", w, slot)]
        /\ sq' = sq \cup {Op(ud, h)}
        /\ io' = [io EXCEPT ![h] = SubmittedOneshot(slot)]
  BY DEF OneshotSubmit, submit_io, VacantKeys
<1>2. h \in Handles /\ io[h] = New /\ io[h].st = "New"
  BY DEF OneshotSubmit, Handles, New
<1>3. UNCHANGED <<multishot, kernel, cq, entered, batch, posted, got, panic>>
  BY DEF OneshotSubmit
<1>4. /\ pending[ud].st = "Vacant" /\ oneshot[slot].st = "Vacant"
      /\ pending'[ud].st = "Oneshot" /\ pending'[ud].slot = slot
      /\ \A u \in Keys : u # ud => pending'[u] = pending[u]
      /\ oneshot'[slot] = ResultPending /\ oneshot'[slot].st = "Pending"
      /\ \A k \in Keys : k # slot => oneshot'[k] = oneshot[k]
      /\ io'[h].st = "Submitted" /\ io'[h].slot = slot
      /\ \A g \in Handles : g # h => io'[g] = io[g]
  BY <1>1, <1>2 DEF TypeOK, Vacant, ResultPending, SubmittedOneshot, PendingIo
<1>5. TypeOK'
  <2>1. /\ SubmittedOneshot(slot) \in IoStates
        /\ PendingIo("Oneshot", w, slot) \in PendingIos
        /\ ResultPending \in OneshotResults
        /\ Op(ud, h) \in Ops
    BY <1>2 DEF SubmittedOneshot, IoStates, PendingIo, PendingIos, ResultPending,
                OneshotResults, Op, Ops
  <2> QED
    BY <1>1, <1>2, <1>3, <2>1 DEF TypeOK
<1>6. \A u, g :
        /\ InOps(u, g)' <=> InOps(u, g) \/ (u = ud /\ g = h)
        /\ InCompletions(u, g)' <=> InCompletions(u, g)
        /\ Token(u, g)' <=> Token(u, g) \/ (u = ud /\ g = h)
  BY <1>1, <1>3 DEF InOps, InCompletions, Token, Op
<1>7. /\ \A g \in Handles : ~Token(ud, g)
      /\ \A u \in Keys : ~Token(u, h)
  BY <1>2, <1>4 DEF EntriesPending, NewHandles
<1>8. TokensUnique'
  BY <1>6, <1>7 DEF TokensUnique
<1>9. LastIsLast'
  <2>1. Op(ud, h) \notin kernel
    BY <1>7, <1>2 DEF Token, InOps
  <2>2. sq' \cap kernel' = {}
    BY <1>1, <1>3, <2>1 DEF LastIsLast
  <2>3. \A i \in DOMAIN cq : cq[i].ud \in Keys /\ cq[i].io \in Handles
    BY CqTyped
  <2>4. \A i \in DOMAIN cq : cq[i].io # h
    BY <1>7, <2>3 DEF Token, InCompletions
  <2> QED
    BY <1>3, <1>6, <2>2, <2>3, <2>4 DEF LastIsLast
<1>10. EntriesPending'
  <2>1. \A v \in Keys, g \in Handles :
          Token(v, g) /\ pending[v].st = "Oneshot" => pending[v].slot # slot
    BY <1>4 DEF EntriesPending, OneshotTokens, ResultPending, ResultDropped, Handles
  <2> QED
    BY <1>2, <1>4, <1>6, <1>7, <2>1 DEF EntriesPending
<1>11. OneshotTokens'
  <2>1. \A v \in Keys, g \in Oneshots : Token(v, g) => v # ud /\ g # h /\ pending[v].slot # slot
    BY <1>4, <1>7 DEF OneshotTokens, ResultPending, ResultDropped, Handles
  <2>2. \A v \in Keys, g \in Oneshots : Token(v, g) => pending[v].slot \in Keys
    BY PendingTyped DEF EntriesPending, Handles
  <2> QED
    BY <1>2, <1>4, <1>6, <2>1, <2>2 DEF OneshotTokens, Handles
<1>12. MultishotTokens'
  BY <1>2, <1>3, <1>4, <1>6, <1>7 DEF MultishotTokens, Handles
<1>13. OneshotSlots'
  BY <1>2, <1>3, <1>4, <1>6 DEF OneshotSlots, Handles
<1>14. MultishotSlots'
  BY <1>2, <1>3, <1>4, <1>6 DEF MultishotSlots, Handles
<1>15. NewHandles'
  BY <1>3, <1>4, <1>6 DEF NewHandles, New
<1>16. OneshotAnswers'
  BY <1>2, <1>3, <1>4, <1>6, <1>7 DEF OneshotAnswers, NewHandles, Handles, Token, Converted
<1> QED
  BY <1>5, <1>8, <1>9, <1>10, <1>11, <1>12, <1>13, <1>14, <1>15, <1>16

\* Submitting a multishot makes a token out of vacant indices.
LEMMA MultiSubmitIInv ==
  ASSUME IInv, NEW h \in Multishots, NEW w \in Wakers, MultiSubmit(h, w) PROVE IInv'
<1> USE HandlesAssumption DEF IInv
<1>1. PICK slot \in Keys, ud \in Keys :
        /\ multishot[slot] = Vacant /\ pending[ud] = Vacant
        /\ multishot' = [multishot EXCEPT ![slot] = NewShots]
        /\ pending' = [pending EXCEPT ![ud] = PendingIo("Multi", w, slot)]
        /\ sq' = sq \cup {Op(ud, h)}
        /\ io' = [io EXCEPT ![h] = SubmittedMulti(slot, ud)]
  BY DEF MultiSubmit, submit_io, VacantKeys
<1>2. h \in Handles /\ io[h] = New /\ io[h].st = "New" /\ h \notin Oneshots
  BY DEF MultiSubmit, Handles, New
<1>3. UNCHANGED <<oneshot, kernel, cq, entered, batch, posted, got, panic>>
  BY DEF MultiSubmit
<1>4. /\ pending[ud].st = "Vacant" /\ multishot[slot].st = "Vacant"
      /\ pending'[ud].st = "Multi" /\ pending'[ud].slot = slot
      /\ \A u \in Keys : u # ud => pending'[u] = pending[u]
      /\ multishot'[slot].st = "Live"
      /\ ~multishot'[slot].dropped /\ ~multishot'[slot].finished
      /\ \A k \in Keys : k # slot => multishot'[k] = multishot[k]
      /\ io'[h].st = "Submitted" /\ io'[h].slot = slot /\ io'[h].ud = ud
      /\ \A g \in Handles : g # h => io'[g] = io[g]
  BY <1>1, <1>2 DEF TypeOK, Vacant, NewShots, SubmittedMulti, PendingIo
<1>5. TypeOK'
  <2>1. /\ SubmittedMulti(slot, ud) \in IoStates
        /\ PendingIo("Multi", w, slot) \in PendingIos
        /\ Op(ud, h) \in Ops
    BY <1>2 DEF SubmittedMulti, IoStates, PendingIo, PendingIos, Op, Ops
  <2>2. NewShots \in MultishotResults
    BY DEF NewShots, MultishotResults
  <2> QED
    BY <1>1, <1>2, <1>3, <2>1, <2>2 DEF TypeOK
<1>6. \A u, g :
        /\ InOps(u, g)' <=> InOps(u, g) \/ (u = ud /\ g = h)
        /\ InCompletions(u, g)' <=> InCompletions(u, g)
        /\ Token(u, g)' <=> Token(u, g) \/ (u = ud /\ g = h)
  BY <1>1, <1>3 DEF InOps, InCompletions, Token, Op
<1>7. /\ \A g \in Handles : ~Token(ud, g)
      /\ \A u \in Keys : ~Token(u, h)
  BY <1>2, <1>4 DEF EntriesPending, NewHandles
<1>8. TokensUnique'
  BY <1>6, <1>7 DEF TokensUnique
<1>9. LastIsLast'
  <2>1. Op(ud, h) \notin kernel
    BY <1>7, <1>2 DEF Token, InOps
  <2>2. sq' \cap kernel' = {}
    BY <1>1, <1>3, <2>1 DEF LastIsLast
  <2>3. \A i \in DOMAIN cq : cq[i].ud \in Keys /\ cq[i].io \in Handles
    BY CqTyped
  <2>4. \A i \in DOMAIN cq : cq[i].io # h
    BY <1>7, <2>3 DEF Token, InCompletions
  <2> QED
    BY <1>3, <1>6, <2>2, <2>3, <2>4 DEF LastIsLast
<1>10. EntriesPending'
  <2>1. \A v \in Keys, g \in Handles :
          Token(v, g) /\ pending[v].st = "Multi" => pending[v].slot # slot
    BY <1>4 DEF EntriesPending, MultishotTokens, Handles
  <2> QED
    BY <1>2, <1>4, <1>6, <1>7, <2>1 DEF EntriesPending
<1>11. MultishotTokens'
  <2>1. \A v \in Keys, g \in Multishots : Token(v, g) => v # ud /\ g # h /\ pending[v].slot # slot
    BY <1>4, <1>7 DEF MultishotTokens, Handles
  <2>2. \A v \in Keys, g \in Multishots : Token(v, g) => pending[v].slot \in Keys
    BY PendingTyped DEF EntriesPending, Handles
  <2> QED
    BY <1>2, <1>4, <1>6, <2>1, <2>2 DEF MultishotTokens, Handles
<1>12. OneshotTokens'
  BY <1>2, <1>3, <1>4, <1>6, <1>7 DEF OneshotTokens, Handles
<1>13. OneshotSlots'
  BY <1>2, <1>3, <1>4, <1>6 DEF OneshotSlots, Handles
<1>14. MultishotSlots'
  BY <1>2, <1>3, <1>4, <1>6, <1>7 DEF MultishotSlots, Handles
<1>15. NewHandles'
  BY <1>3, <1>4, <1>6 DEF NewHandles, New
<1>16. OneshotAnswers'
  BY <1>2, <1>3, <1>4, <1>6 DEF OneshotAnswers, Handles, Token, Converted
<1> QED
  BY <1>5, <1>8, <1>9, <1>10, <1>11, <1>12, <1>13, <1>14, <1>15, <1>16

\* What a poll returns is an Ok or an Err with a number.
LEMMA ResultTyped ==
  ASSUME NEW v \in Values PROVE reactor_value_to_result(v) \in {"Ok", "Err"} \X Int
<1>1. v \in Int /\ -v \in Int
  BY ResultsAssumption DEF Values, ECANCELED
<1> QED
  BY <1>1 DEF reactor_value_to_result

\* One answer is not none.
LEMMA OneNotEmpty == \A x : <<x>> # <<>>
  OBVIOUS

\* A oneshot has at most one answer, and returns it converted.
LEMMA ConvertedOne ==
  ASSUME NEW v \in Values, NEW s, s = <<v>>
  PROVE  /\ Converted(s) = <<reactor_value_to_result(v)>>
         /\ <<reactor_value_to_result(v)>> \in Seq({"Ok", "Err"} \X Int)
BY ResultTyped DEF Converted

\* Taking a oneshot result empties a slot no token names any more.
LEMMA OneshotReadyIInv == ASSUME IInv, NEW h \in Oneshots, OneshotReady(h) PROVE IInv'
<1> USE HandlesAssumption DEF IInv
<1> DEFINE slot == io[h].slot
           v == oneshot[slot].val
<1>1. /\ h \in Handles /\ io[h].st = "Submitted" /\ slot \in Keys
      /\ oneshot[slot].st = "Set" /\ posted[h] = <<v>> /\ got[h] = <<>>
      /\ \A u \in Keys : ~Token(u, h)
  BY DEF OneshotReady, OneshotSlots, OneshotAnswers, Handles
<1>2. v \in Values
  <2>1. oneshot[slot] \in OneshotResults
    BY <1>1 DEF TypeOK
  <2> QED
    BY <1>1, <2>1 DEF OneshotResults
<1>3. /\ UNCHANGED <<pending, multishot, sq, kernel, cq, entered, batch, posted, panic>>
      /\ io' = [io EXCEPT ![h] = Finished(v)]
      /\ oneshot' = [oneshot EXCEPT ![slot] = Vacant]
      /\ got' = [got EXCEPT ![h] = Append(got[h], reactor_value_to_result(v))]
  BY DEF OneshotReady
<1> HIDE DEF v
<1>4. /\ io'[h].st = "Finished"
      /\ \A g \in Handles : g # h => io'[g] = io[g] /\ got'[g] = got[g]
      /\ \A k \in Keys : k # slot => oneshot'[k] = oneshot[k]
  BY <1>1, <1>3 DEF TypeOK, Finished
<1>5. got'[h] = Converted(posted[h]) /\ got'[h] \in Seq({"Ok", "Err"} \X Int)
  <2>1. got'[h] = Append(<<>>, reactor_value_to_result(v))
    BY <1>1, <1>3 DEF TypeOK
  <2>2. got'[h] = <<reactor_value_to_result(v)>>
    BY <2>1
  <2> QED
    BY <1>1, <1>2, <2>2, ConvertedOne
<1>6. TypeOK'
  <2>1. Finished(v) \in IoStates /\ Vacant \in OneshotResults
    BY <1>2 DEF Finished, IoStates, Vacant, OneshotResults
  <2>2. got' \in [Handles -> Seq({"Ok", "Err"} \X Int)]
    BY <1>1, <1>3, <1>5 DEF TypeOK
  <2> QED
    BY <1>1, <1>3, <2>1, <2>2 DEF TypeOK
<1>7. \A u, g :
        /\ InOps(u, g)' <=> InOps(u, g)
        /\ InCompletions(u, g)' <=> InCompletions(u, g)
        /\ Token(u, g)' <=> Token(u, g)
  BY <1>3 DEF InOps, InCompletions, Token
<1>8. TokensUnique' /\ EntriesPending' /\ LastIsLast'
  BY <1>3, <1>7 DEF TokensUnique, EntriesPending, LastIsLast
<1>9. OneshotTokens'
  <2>1. \A u \in Keys, g \in Oneshots : Token(u, g) => g # h /\ pending[u].slot # slot
    BY <1>1 DEF OneshotTokens, ResultPending, ResultDropped
  <2>2. \A u \in Keys, g \in Oneshots : Token(u, g) => pending[u].slot \in Keys
    BY PendingTyped DEF EntriesPending, Handles
  <2> QED
    BY <1>3, <1>4, <1>7, <2>1, <2>2 DEF OneshotTokens, Handles
<1>10. MultishotTokens' /\ MultishotSlots'
  BY <1>3, <1>4, <1>7 DEF MultishotTokens, MultishotSlots, Handles
<1>11. OneshotSlots'
  BY <1>1, <1>3, <1>4, <1>7 DEF OneshotSlots, Handles
<1>12. NewHandles'
  BY <1>3, <1>4, <1>7 DEF NewHandles, New
<1>13. OneshotAnswers'
  <2>1. \A s : Converted(s)' = Converted(s)
    BY DEF Converted, reactor_value_to_result
  <2> QED
    BY <1>1, <1>3, <1>4, <1>5, <1>7, <2>1 DEF OneshotAnswers, Handles, Token
<1> QED
  BY <1>6, <1>8, <1>9, <1>10, <1>11, <1>12, <1>13

\* Facts shared by the steps that change neither the queues nor what is in them.
LEMMA QuietTokens ==
  ASSUME IInv, UNCHANGED <<pending, sq, kernel, cq>>
  PROVE  /\ \A u, g :
              /\ InOps(u, g)' <=> InOps(u, g)
              /\ InCompletions(u, g)' <=> InCompletions(u, g)
              /\ Token(u, g)' <=> Token(u, g)
         /\ TokensUnique' /\ EntriesPending' /\ LastIsLast'
<1>1. \A u, g :
        /\ InOps(u, g)' <=> InOps(u, g)
        /\ InCompletions(u, g)' <=> InCompletions(u, g)
        /\ Token(u, g)' <=> Token(u, g)
  BY DEF InOps, InCompletions, Token
<1> QED
  BY <1>1 DEF IInv, TokensUnique, EntriesPending, LastIsLast

\* Dropping a handle with nothing in flight: it has no token.
LEMMA DropQuietIInv == ASSUME IInv, NEW h \in Handles, DropQuiet(h) PROVE IInv'
<1> USE HandlesAssumption DEF IInv
<1>1. /\ io[h].st \in {"New", "Finished"}
      /\ io' = [io EXCEPT ![h] = Gone]
      /\ UNCHANGED <<pending, oneshot, multishot, sq, kernel, cq, entered, batch,
                     posted, got, panic>>
  BY DEF DropQuiet
<1>2. /\ io'[h] = Gone /\ io'[h].st = "Gone"
      /\ \A g \in Handles : g # h => io'[g] = io[g]
  BY <1>1 DEF TypeOK, Gone
<1>3. TypeOK'
  <2>1. Gone \in IoStates
    BY DEF Gone, IoStates
  <2> QED
    BY <1>1, <2>1 DEF TypeOK
<1>4. /\ \A u, g :
           /\ InOps(u, g)' <=> InOps(u, g)
           /\ InCompletions(u, g)' <=> InCompletions(u, g)
           /\ Token(u, g)' <=> Token(u, g)
      /\ TokensUnique' /\ EntriesPending' /\ LastIsLast'
  BY <1>1, QuietTokens
<1>5. \A u \in Keys : ~Token(u, h)
  BY <1>1 DEF OneshotTokens, MultishotTokens, Handles, Gone
<1>6. OneshotTokens' /\ MultishotTokens'
  BY <1>1, <1>2, <1>4, <1>5 DEF OneshotTokens, MultishotTokens, Handles
<1>7. OneshotSlots' /\ MultishotSlots'
  BY <1>1, <1>2, <1>4 DEF OneshotSlots, MultishotSlots, Handles
<1>8. NewHandles'
  BY <1>1, <1>2, <1>4 DEF NewHandles, New
<1>9. OneshotAnswers'
  BY <1>1, <1>2, <1>4, <1>5 DEF OneshotAnswers, Handles, Converted
<1> QED
  BY <1>3, <1>4, <1>6, <1>7, <1>8, <1>9

\* Dropping a submitted oneshot marks its slot for its token, or empties it.
LEMMA OneshotDropIInv == ASSUME IInv, NEW h \in Oneshots, OneshotDrop(h) PROVE IInv'
<1> USE HandlesAssumption DEF IInv
<1> DEFINE slot == io[h].slot
<1>1. /\ h \in Handles /\ io[h].st = "Submitted" /\ slot \in Keys
      /\ oneshot[slot].st \in {"Pending", "Set"} /\ got[h] = <<>>
      /\ oneshot[slot].st = "Set" => \A u \in Keys : ~Token(u, h)
  BY DEF OneshotDrop, OneshotSlots, OneshotAnswers, Handles
<1>2. /\ io' = [io EXCEPT ![h] = Gone]
      /\ UNCHANGED <<pending, multishot, sq, kernel, cq, entered, batch, posted, got, panic>>
      /\ oneshot' = IF oneshot[slot].st = "Set" THEN [oneshot EXCEPT ![slot] = Vacant]
                    ELSE [oneshot EXCEPT ![slot] = ResultDropped]
  BY DEF OneshotDrop, oneshot_drop_result
<1>3. /\ io'[h] = Gone /\ io'[h].st = "Gone"
      /\ \A g \in Handles : g # h => io'[g] = io[g]
      /\ \A k \in Keys : k # slot => oneshot'[k] = oneshot[k]
      /\ oneshot[slot].st = "Pending" => oneshot'[slot] = ResultDropped
  BY <1>1, <1>2 DEF TypeOK, Gone
<1>4. TypeOK'
  <2>1. Gone \in IoStates /\ Vacant \in OneshotResults /\ ResultDropped \in OneshotResults
    BY DEF Gone, IoStates, Vacant, ResultDropped, OneshotResults
  <2> QED
    BY <1>1, <1>2, <2>1 DEF TypeOK
<1>5. /\ \A u, g :
           /\ InOps(u, g)' <=> InOps(u, g)
           /\ InCompletions(u, g)' <=> InCompletions(u, g)
           /\ Token(u, g)' <=> Token(u, g)
      /\ TokensUnique' /\ EntriesPending' /\ LastIsLast'
  BY <1>2, QuietTokens
<1>6. OneshotTokens'
  <2>1. \A u \in Keys, g \in Oneshots : Token(u, g) => pending[u].slot \in Keys
    BY PendingTyped DEF EntriesPending, Handles
  <2>2. \A u \in Keys : Token(u, h) => pending[u].slot = slot /\ oneshot'[slot] = ResultDropped
    BY <1>1, <1>3 DEF OneshotTokens, Gone
  <2>3. \A u \in Keys, g \in Oneshots : Token(u, g) /\ g # h => pending[u].slot # slot
    <3> SUFFICES ASSUME NEW u \in Keys, NEW g \in Oneshots, Token(u, g), g # h,
                        pending[u].slot = slot
                 PROVE  FALSE
      OBVIOUS
    <3>1. io[g].st = "Submitted" => io[g].slot # slot
      BY <1>1 DEF OneshotSlots
    <3>2. oneshot[slot] # ResultDropped
      BY <1>1 DEF ResultDropped
    <3> QED
      BY <3>1, <3>2 DEF OneshotTokens
  <2> QED
    BY <1>2, <1>3, <1>5, <2>1, <2>2, <2>3 DEF OneshotTokens, Handles
<1>7. OneshotSlots'
  BY <1>1, <1>2, <1>3, <1>5 DEF OneshotSlots, Handles
<1>8. MultishotTokens' /\ MultishotSlots'
  BY <1>2, <1>3, <1>5 DEF MultishotTokens, MultishotSlots, Handles
<1>9. NewHandles'
  BY <1>2, <1>3, <1>5 DEF NewHandles, New
<1>10. OneshotAnswers'
  BY <1>1, <1>2, <1>3, <1>5 DEF OneshotAnswers, Handles, Converted
<1> QED
  BY <1>4, <1>5, <1>6, <1>7, <1>8, <1>9, <1>10

\* Popping a multishot result changes only the buffer.
LEMMA MultiReadyIInv == ASSUME IInv, NEW h \in Multishots, MultiReady(h) PROVE IInv'
<1> USE HandlesAssumption DEF IInv
<1> DEFINE slot == io[h].slot
           q == multishot[slot].results
<1>1. /\ h \in Handles /\ h \notin Oneshots /\ io[h].st = "Submitted" /\ slot \in Keys
      /\ multishot[slot].st = "Live" /\ q # <<>>
  BY DEF MultiReady, MultishotSlots, Handles
<1>2. /\ multishot' = [multishot EXCEPT ![slot].results = Tail(q)]
      /\ got' = [got EXCEPT ![h] = Append(got[h], reactor_value_to_result(Head(q)))]
      /\ UNCHANGED <<io, pending, oneshot, sq, kernel, cq, entered, batch, posted, panic>>
  BY DEF MultiReady
<1>3. multishot[slot] \in [st : {"Live"}, results : Seq(Values), dropped : BOOLEAN,
                           finished : BOOLEAN, overflow : BOOLEAN]
  <2>1. multishot[slot] \in MultishotResults
    BY <1>1 DEF TypeOK
  <2> QED
    BY <1>1, <2>1 DEF MultishotResults
<1>4. q \in Seq(Values) /\ Tail(q) \in Seq(Values) /\ Head(q) \in Values
  BY <1>1, <1>3
<1>5. TypeOK'
  <2>1. [multishot[slot] EXCEPT !.results = Tail(q)] \in MultishotResults
    BY <1>3, <1>4 DEF MultishotResults
  <2>2. multishot' \in [Keys -> MultishotResults]
    BY <1>1, <1>2, <2>1 DEF TypeOK
  <2>3. reactor_value_to_result(Head(q)) \in {"Ok", "Err"} \X Int
    BY <1>4, ResultTyped
  <2>4. Append(got[h], reactor_value_to_result(Head(q))) \in Seq({"Ok", "Err"} \X Int)
    BY <1>1, <2>3 DEF TypeOK
  <2>5. got' \in [Handles -> Seq({"Ok", "Err"} \X Int)]
    BY <1>1, <1>2, <2>4 DEF TypeOK
  <2> QED
    BY <1>2, <2>2, <2>5 DEF TypeOK
<1>6. /\ \A g \in Handles : g # h => got'[g] = got[g]
      /\ \A k \in Keys : /\ multishot'[k].st = multishot[k].st
                         /\ multishot'[k].dropped = multishot[k].dropped
                         /\ multishot'[k].finished = multishot[k].finished
  BY <1>1, <1>2, <1>3 DEF TypeOK
<1>7. /\ \A u, g :
           /\ InOps(u, g)' <=> InOps(u, g)
           /\ InCompletions(u, g)' <=> InCompletions(u, g)
           /\ Token(u, g)' <=> Token(u, g)
      /\ TokensUnique' /\ EntriesPending' /\ LastIsLast'
  BY <1>2, QuietTokens
<1>8. OneshotTokens' /\ OneshotSlots'
  BY <1>2, <1>7 DEF OneshotTokens, OneshotSlots
<1>9. MultishotTokens'
  <2>1. \A u \in Keys, g \in Multishots : Token(u, g) => pending[u].slot \in Keys
    BY PendingTyped DEF EntriesPending, Handles
  <2> QED
    BY <1>2, <1>6, <1>7, <2>1 DEF MultishotTokens
<1>10. MultishotSlots'
  BY <1>2, <1>6, <1>7 DEF MultishotSlots
<1>11. NewHandles'
  BY <1>1, <1>2, <1>6, <1>7 DEF NewHandles, New
<1>12. OneshotAnswers'
  BY <1>1, <1>2, <1>6, <1>7 DEF OneshotAnswers, Handles, Converted
<1> QED
  BY <1>5, <1>7, <1>8, <1>9, <1>10, <1>11, <1>12

\* Dropping a multishot cancels its own operation and marks its slot.
LEMMA MultiDropIInv == ASSUME IInv, NEW h \in Multishots, MultiDrop(h) PROVE IInv'
<1> USE HandlesAssumption DEF IInv
<1> DEFINE slot == io[h].slot
<1>1. PICK op \in kernel : op.ud = io[h].ud /\ Finish(op, ECANCELED)
  BY DEF MultiDrop, Cancellable
<1>2. /\ h \in Handles /\ h \notin Oneshots /\ io[h].st = "Submitted" /\ slot \in Keys
      /\ multishot[slot].st = "Live" /\ ~multishot[slot].dropped
  BY DEF MultiDrop, MultishotSlots, Handles
<1>3. /\ multishot' = multishot_drop_result(multishot, slot)
      /\ io' = [io EXCEPT ![h] = Gone]
      /\ UNCHANGED <<pending, oneshot, sq, entered, batch, got, panic>>
  BY DEF MultiDrop
<1>4. /\ cq' = Append(cq, Cqe(op, ECANCELED, FALSE)) /\ kernel' = kernel \ {op}
      /\ posted' = [posted EXCEPT ![op.io] = Append(posted[op.io], ECANCELED)]
  BY <1>1 DEF Finish
<1>5. ECANCELED \in Values
  BY DEF Values
<1>6. /\ op.ud \in Keys /\ op.io \in Handles /\ op = Op(op.ud, op.io)
      /\ cq' \in Seq(Cqes) /\ 0..Len(cq) \subseteq 0..Len(cq')
      /\ DOMAIN cq' = DOMAIN cq \cup {Len(cq) + 1} /\ Len(cq) + 1 \notin DOMAIN cq
      /\ \A i \in DOMAIN cq : cq'[i] = cq[i]
      /\ cq'[Len(cq) + 1] = Cqe(op, ECANCELED, FALSE)
      /\ \A u \in Keys, g \in Handles : /\ InOps(u, g)' => InOps(u, g)
                                        /\ Token(u, g)' <=> Token(u, g)
      /\ LastIsLast'
  BY <1>3, <1>4, <1>5, CqAppend
<1>7. Token(op.ud, op.io)
  BY <1>6 DEF Token, InOps
<1>8. op.io = h
  BY <1>1, <1>2, <1>6, <1>7 DEF MultishotSlots
<1>9. slot = pending[op.ud].slot /\ ~multishot[slot].finished
  BY <1>2, <1>7, <1>6, <1>8 DEF MultishotTokens, Gone
<1>10. multishot[slot] \in [st : {"Live"}, results : Seq(Values), dropped : BOOLEAN,
                            finished : BOOLEAN, overflow : BOOLEAN]
  <2>1. multishot[slot] \in MultishotResults
    BY <1>2 DEF TypeOK
  <2> QED
    BY <1>2, <2>1 DEF MultishotResults
<1>11. multishot' = [multishot EXCEPT ![slot].dropped = TRUE]
  BY <1>3, <1>9 DEF multishot_drop_result
<1>12. /\ io'[h] = Gone /\ io'[h].st = "Gone"
       /\ \A g \in Handles : g # h => io'[g] = io[g] /\ posted'[g] = posted[g]
       /\ \A k \in Keys : k # slot => multishot'[k] = multishot[k]
       /\ multishot'[slot].st = "Live" /\ multishot'[slot].dropped
       /\ ~multishot'[slot].finished
  <2>1. /\ io'[h] = Gone /\ io'[h].st = "Gone"
        /\ \A g \in Handles : g # h => io'[g] = io[g]
    BY <1>2, <1>3 DEF TypeOK, Gone
  <2>2. \A g \in Handles : g # h => posted'[g] = posted[g]
    BY <1>2, <1>4, <1>8 DEF TypeOK
  <2>3. /\ multishot'[slot] = [multishot[slot] EXCEPT !.dropped = TRUE]
        /\ \A k \in Keys : k # slot => multishot'[k] = multishot[k]
    BY <1>2, <1>11 DEF TypeOK
  <2> QED
    BY <1>2, <1>9, <1>10, <2>1, <2>2, <2>3
<1>13. TypeOK'
  <2>1. [multishot[slot] EXCEPT !.dropped = TRUE] \in MultishotResults
    BY <1>10 DEF MultishotResults
  <2>2. multishot' \in [Keys -> MultishotResults]
    BY <1>2, <1>11, <2>1 DEF TypeOK
  <2>3. Append(posted[h], ECANCELED) \in Seq(Values)
    BY <1>2, <1>5 DEF TypeOK
  <2>4. posted' \in [Handles -> Seq(Values)]
    BY <1>4, <1>8, <2>3 DEF TypeOK
  <2>5. Gone \in IoStates
    BY DEF Gone, IoStates
  <2>6. batch' \in 0..Len(cq')
    BY <1>3, <1>6 DEF TypeOK
  <2> QED
    BY <1>3, <1>4, <1>6, <2>2, <2>4, <2>5, <2>6 DEF TypeOK
<1>14. TokensUnique' /\ EntriesPending'
  BY <1>3, <1>6 DEF TokensUnique, EntriesPending
<1>15. OneshotTokens' /\ OneshotSlots'
  BY <1>2, <1>3, <1>6, <1>12 DEF OneshotTokens, OneshotSlots, Handles
<1>16. MultishotTokens'
  <2>1. \A u \in Keys, g \in Multishots :
          Token(u, g) => pending[u].slot \in Keys /\ pending[u].st = "Multi"
    BY PendingTyped DEF EntriesPending, Handles
  <2>2. \A u \in Keys : Token(u, h) => u = op.ud
    BY <1>6, <1>7, <1>8 DEF TokensUnique
  <2>3. \A u \in Keys, g \in Multishots : Token(u, g) /\ g # h => u # op.ud
    BY <1>6, <1>7, <1>8 DEF TokensUnique, Handles
  <2>4. \A u \in Keys, g \in Multishots : Token(u, g) /\ g # h => pending[u].slot # slot
    BY <1>6, <1>7, <1>8, <1>9, <2>1, <2>3 DEF EntriesPending, Handles
  <2> QED
    BY <1>3, <1>6, <1>9, <1>12, <2>1, <2>2, <2>4 DEF MultishotTokens, Handles
<1>17. MultishotSlots'
  BY <1>2, <1>3, <1>6, <1>12 DEF MultishotSlots, Handles
<1>18. NewHandles'
  BY <1>3, <1>6, <1>12 DEF NewHandles, New
<1>19. OneshotAnswers'
  <2>1. cq'[Len(cq) + 1].io = h
    BY <1>6, <1>8 DEF Cqe
  <2>2. \A i \in DOMAIN cq' : cq'[i].io \in Oneshots => i \in DOMAIN cq /\ cq'[i] = cq[i]
    BY <1>2, <1>6, <2>1
  <2>3. \A g \in Oneshots : g \in Handles /\ g # h /\ posted'[g] = posted[g] /\ io'[g] = io[g]
    BY <1>2, <1>12 DEF Handles
  <2> QED
    BY <1>3, <1>6, <2>2, <2>3 DEF OneshotAnswers, Converted
<1> QED
  BY <1>6, <1>13, <1>14, <1>15, <1>16, <1>17, <1>18, <1>19

\* The kernel posts a completion, the last one of its operation or not.
LEMMA KernelIInv ==
  ASSUME IInv, NEW op \in kernel, NEW v \in Results,
         KernelFinish(op, v) \/ KernelShot(op, v)
  PROVE  IInv'
<1> USE HandlesAssumption DEF IInv
<1>1. PICK more \in BOOLEAN :
        /\ op.io \in Oneshots => ~more
        /\ cq' = Append(cq, Cqe(op, v, more))
        /\ kernel' = IF more THEN kernel ELSE kernel \ {op}
        /\ posted' = [posted EXCEPT ![op.io] = Append(posted[op.io], v)]
  <2>1. CASE KernelFinish(op, v)
    <3> WITNESS FALSE \in BOOLEAN
    <3> QED
      BY <2>1 DEF KernelFinish, Finish
  <2>2. CASE KernelShot(op, v)
    <3> WITNESS TRUE \in BOOLEAN
    <3> QED
      BY <2>2 DEF KernelShot
  <2> QED
    BY <2>1, <2>2
<1>2. UNCHANGED <<io, pending, oneshot, multishot, sq, entered, batch, got, panic>>
  BY DEF KernelFinish, KernelShot
<1>3. v \in Values
  BY DEF Values
<1>4. /\ op.ud \in Keys /\ op.io \in Handles /\ op = Op(op.ud, op.io)
      /\ cq' \in Seq(Cqes) /\ 0..Len(cq) \subseteq 0..Len(cq')
      /\ DOMAIN cq' = DOMAIN cq \cup {Len(cq) + 1} /\ Len(cq) + 1 \notin DOMAIN cq
      /\ \A i \in DOMAIN cq : cq'[i] = cq[i]
      /\ cq'[Len(cq) + 1] = Cqe(op, v, more)
      /\ \A u \in Keys, g \in Handles : /\ InOps(u, g)' => InOps(u, g)
                                        /\ Token(u, g)' <=> Token(u, g)
      /\ LastIsLast'
  BY <1>1, <1>2, <1>3, CqAppend
<1>5. InOps(op.ud, op.io) /\ Token(op.ud, op.io)
  BY <1>4 DEF Token, InOps
<1>6. /\ posted'[op.io] = Append(posted[op.io], v)
      /\ \A g \in Handles : g # op.io => posted'[g] = posted[g]
  BY <1>1, <1>4 DEF TypeOK
<1>7. TypeOK'
  <2>1. Append(posted[op.io], v) \in Seq(Values)
    BY <1>3, <1>4 DEF TypeOK
  <2>2. posted' \in [Handles -> Seq(Values)]
    BY <1>1, <2>1 DEF TypeOK
  <2>3. kernel' \subseteq Ops
    BY <1>1 DEF TypeOK
  <2> QED
    BY <1>2, <1>4, <2>2, <2>3 DEF TypeOK
<1>8. TokensUnique' /\ EntriesPending'
  BY <1>2, <1>4 DEF TokensUnique, EntriesPending
<1>9. OneshotTokens' /\ MultishotTokens'
  BY <1>2, <1>4 DEF OneshotTokens, MultishotTokens, Handles
<1>10. OneshotSlots' /\ MultishotSlots'
  BY <1>2, <1>4, <1>5, <1>6 DEF OneshotSlots, MultishotSlots, Handles
<1>11. NewHandles'
  BY <1>2, <1>4, <1>5, <1>6 DEF NewHandles
<1>12. OneshotAnswers'
  <2> SUFFICES ASSUME NEW h \in Oneshots
               PROVE  (/\ \A u \in Keys : InOps(u, h) => posted[h] = <<>>
                       /\ \A i \in DOMAIN cq : cq[i].io = h => posted[h] = <<cq[i].res>>
                       /\ io[h].st = "Submitted" => got[h] = <<>>
                       /\ got[h] # <<>> => /\ io[h].st \in {"Finished", "Gone"}
                                           /\ \A u \in Keys : ~Token(u, h)
                                           /\ got[h] = Converted(posted[h]))'
    BY DEF OneshotAnswers
  <2>0. h \in Handles
    BY DEF Handles
  <2>1. CASE h # op.io
    <3>1. posted'[h] = posted[h]
      BY <1>6, <2>0, <2>1
    <3>2. \A i \in DOMAIN cq' : cq'[i].io = h => i \in DOMAIN cq /\ cq'[i] = cq[i]
      BY <1>4, <2>1 DEF Cqe
    <3> QED
      BY <1>2, <1>4, <2>0, <3>1, <3>2 DEF OneshotAnswers, Converted
  <2>2. CASE h = op.io
    <3>1. posted[h] = <<>>
      BY <1>4, <1>5, <2>2 DEF OneshotAnswers
    <3>2. posted'[h] = <<v>>
      BY <1>6, <2>2, <3>1
    <3>3. \A i \in DOMAIN cq : cq[i].io # h
      <4> SUFFICES ASSUME NEW i \in DOMAIN cq, cq[i].io = h PROVE FALSE
        OBVIOUS
      <4>1. posted[h] = <<cq[i].res>>
        BY DEF OneshotAnswers
      <4> HIDE DEF IInv
      <4> QED
        BY <3>1, <4>1, OneNotEmpty
    <3>4. \A i \in DOMAIN cq' : cq'[i].io = h => cq'[i].res = v
      BY <1>4, <3>3 DEF Cqe
    <3>5. \A u \in Keys : ~(InOps(u, h)')
      <4> SUFFICES ASSUME NEW u \in Keys, InOps(u, h)' PROVE FALSE
        OBVIOUS
      <4>1. u = op.ud
        BY <1>4, <1>5, <2>0, <2>2 DEF TokensUnique, Token
      <4>2. op \notin kernel' /\ op \notin sq'
        BY <1>1, <1>2, <2>2 DEF LastIsLast
      <4> QED
        BY <1>4, <2>2, <4>1, <4>2 DEF InOps
    <3>6. got[h] = <<>>
      BY <1>4, <1>5, <2>2 DEF OneshotAnswers
    <3> QED
      BY <1>2, <3>2, <3>4, <3>5, <3>6
  <2> QED
    BY <2>1, <2>2
<1> QED
  BY <1>4, <1>7, <1>8, <1>9, <1>10, <1>11, <1>12

\* What both arms of IoCompletionIter::next know of the completion they take.
LEMMA EntryFacts ==
  ASSUME IInv, batch > 0
  PROVE  /\ cq # <<>> /\ Entry \in Cqes
         /\ Entry.ud \in Keys /\ Entry.io \in Handles /\ Entry.res \in Values
         /\ Token(Entry.ud, Entry.io)
         /\ EntryIo.st = (IF Entry.io \in Oneshots THEN "Oneshot" ELSE "Multi")
         /\ EntryIo.slot \in Keys
         /\ \E i \in DOMAIN cq : cq[i] = Entry
<1> USE DEF IInv
<1>1. cq \in Seq(Cqes) /\ batch \in 0..Len(cq)
  BY DEF TypeOK
<1>2. cq # <<>> /\ 1 \in DOMAIN cq /\ Entry = cq[1] /\ Entry \in Cqes
  BY <1>1 DEF Entry
<1>3. Entry.ud \in Keys /\ Entry.io \in Handles /\ Entry.res \in Values
  BY <1>2 DEF Cqes
<1>4. Token(Entry.ud, Entry.io)
  BY <1>2 DEF Token, InCompletions
<1>5. EntryIo.st = IF Entry.io \in Oneshots THEN "Oneshot" ELSE "Multi"
  BY <1>3, <1>4 DEF EntriesPending, EntryIo
<1>6. EntryIo.slot \in Keys
  BY <1>3, <1>5, PendingTyped DEF EntryIo
<1> QED
  BY <1>2, <1>3, <1>4, <1>5, <1>6

\* Reaping the completion of a oneshot ends its token.
LEMMA NextOneshotIInv == ASSUME IInv, NextOneshot PROVE IInv'
<1> USE HandlesAssumption DEF IInv
<1> DEFINE e == Entry
           ud == Entry.ud
           h == Entry.io
           slot == EntryIo.slot
<1>1. /\ oneshot' = set_result(oneshot, e.res, slot)
      /\ pending' = [pending EXCEPT ![ud] = Vacant]
      /\ cq' = Tail(cq) /\ batch' = batch - 1 /\ batch > 0
      /\ EntryIo.st = "Oneshot"
      /\ UNCHANGED <<io, multishot, sq, kernel, entered, posted, got, panic>>
  BY DEF NextOneshot
<1>2. /\ cq # <<>> /\ e \in Cqes /\ ud \in Keys /\ h \in Handles /\ e.res \in Values
      /\ Token(ud, h) /\ slot \in Keys /\ \E i \in DOMAIN cq : cq[i] = e
  BY <1>1, EntryFacts
<1>3. h \in Oneshots
  BY <1>1, EntryFacts
<1>4. ~e.more /\ posted[h] = <<e.res>>
  BY <1>2, <1>3 DEF LastIsLast, OneshotAnswers
<1>5. /\ cq' \in Seq(Cqes) /\ Len(cq') = Len(cq) - 1
      /\ \A i \in DOMAIN cq' : i + 1 \in DOMAIN cq /\ cq'[i] = cq[i + 1]
      /\ \A u \in Keys, g \in Handles : /\ InOps(u, g)' <=> InOps(u, g)
                                        /\ Token(u, g)' <=> Token(u, g) /\ g # h
      /\ LastIsLast'
  BY <1>1, <1>2, <1>4, CqTail DEF Entry
<1>6. slot = pending[ud].slot /\ pending[ud].st = "Oneshot"
  BY <1>1 DEF EntryIo
<1> HIDE DEF e, ud, h, slot
<1>7. \/ /\ io[h].st = "Submitted" /\ io[h].slot = slot
         /\ oneshot[slot] = ResultPending
         /\ oneshot' = [oneshot EXCEPT ![slot] = ResultSet(e.res)]
      \/ /\ io[h] = Gone /\ oneshot[slot] = ResultDropped
         /\ oneshot' = [oneshot EXCEPT ![slot] = Vacant]
  <2>1. ResultPending # ResultDropped
    BY DEF ResultPending, ResultDropped
  <2> QED
    BY <1>1, <1>2, <1>3, <1>6, <2>1 DEF OneshotTokens, set_result
<1>8. TypeOK'
  <2>1. /\ Vacant \in PendingIos /\ Vacant \in OneshotResults
        /\ ResultSet(e.res) \in OneshotResults
    BY <1>2 DEF Vacant, PendingIos, OneshotResults, ResultSet
  <2>2. batch' \in 0..Len(cq')
    BY <1>1, <1>5 DEF TypeOK
  <2>3. oneshot' \in [Keys -> OneshotResults]
    BY <1>2, <1>7, <2>1 DEF TypeOK
  <2> QED
    BY <1>1, <1>2, <1>5, <2>1, <2>2, <2>3 DEF TypeOK
<1>9. /\ \A u \in Keys : u # ud => pending'[u] = pending[u]
      /\ \A k \in Keys : k # slot => oneshot'[k] = oneshot[k]
  BY <1>1, <1>2, <1>7 DEF TypeOK
<1>10. \A u \in Keys, g \in Handles :
         Token(u, g)' => Token(u, g) /\ u # ud /\ pending'[u] = pending[u]
  BY <1>2, <1>5, <1>9 DEF TokensUnique
<1>11. TokensUnique'
  BY <1>10 DEF TokensUnique
<1>12. EntriesPending'
  BY <1>10 DEF EntriesPending
<1>13. OneshotTokens'
  <2>1. \A u \in Keys, g \in Oneshots :
          Token(u, g) => pending[u].slot \in Keys /\ pending[u].st = "Oneshot"
    BY PendingTyped DEF EntriesPending, Handles
  <2>2. \A u \in Keys, g \in Oneshots : Token(u, g) /\ u # ud => pending[u].slot # slot
    BY <1>2, <1>6, <2>1 DEF EntriesPending, Handles
  <2> QED
    BY <1>1, <1>9, <1>10, <2>1, <2>2 DEF OneshotTokens, Handles
<1>14. MultishotTokens'
  BY <1>1, <1>10 DEF MultishotTokens, Handles
<1>15. OneshotSlots'
  <2>1. \A g \in Oneshots : io[g].st = "Submitted" /\ g # h => io[g].slot # slot
    <3> SUFFICES ASSUME NEW g \in Oneshots, io[g].st = "Submitted", g # h, io[g].slot = slot
                 PROVE  FALSE
      OBVIOUS
    <3>1. oneshot[slot].st \in {"Pending", "Set"}
      BY DEF OneshotSlots
    <3>2. oneshot[slot] # ResultDropped
      BY <3>1 DEF ResultDropped
    <3> QED
      BY <1>3, <1>7, <3>2 DEF OneshotSlots
  <2>2. io[h].st = "Submitted" =>
          io[h].slot = slot /\ oneshot'[slot].st = "Set" /\ oneshot'[slot].val = e.res
    BY <1>2, <1>7 DEF Gone, ResultSet, TypeOK
  <2>3. \A g \in Oneshots : io[g].st = "Submitted" =>
          /\ io[g].slot \in Keys
          /\ oneshot'[io[g].slot].st \in {"Pending", "Set"}
          /\ oneshot'[io[g].slot].st = "Set" =>
               /\ posted[g] = <<oneshot'[io[g].slot].val>>
               /\ \A u \in Keys : ~Token(u, g)'
    BY <1>2, <1>3, <1>4, <1>5, <1>9, <2>1, <2>2 DEF OneshotSlots, Handles
  <2> QED
    BY <1>1, <2>3 DEF OneshotSlots
<1>16. MultishotSlots'
  <2>1. \A g \in Multishots : io[g].st = "Submitted" => io[g].ud # ud
    BY <1>6 DEF MultishotSlots
  <2> QED
    BY <1>1, <1>9, <1>10, <2>1 DEF MultishotSlots
<1>17. NewHandles'
  BY <1>1, <1>10 DEF NewHandles
<1>18. OneshotAnswers'
  BY <1>1, <1>5, <1>10 DEF OneshotAnswers, Handles, Converted
<1> QED
  BY <1>5, <1>8, <1>11, <1>12, <1>13, <1>14, <1>15, <1>16, <1>17, <1>18

\* Reaping a completion of a multishot: the last one ends its token.
LEMMA NextMultiIInv == ASSUME IInv, NextMulti PROVE IInv'
<1> USE HandlesAssumption DEF IInv
<1> DEFINE e == Entry
           ud == Entry.ud
           h == Entry.io
           slot == EntryIo.slot
           store == push_result(multishot, e.res, slot)
<1>1. /\ multishot' = IF e.more THEN store ELSE set_finished(store, slot)
      /\ cq' = Tail(cq) /\ batch' = batch - 1 /\ batch > 0
      /\ EntryIo.st = "Multi"
      /\ UNCHANGED <<io, pending, oneshot, sq, kernel, entered, posted, got, panic>>
  BY DEF NextMulti
<1>2. /\ cq # <<>> /\ e \in Cqes /\ ud \in Keys /\ h \in Handles /\ e.res \in Values
      /\ Token(ud, h) /\ slot \in Keys /\ \E i \in DOMAIN cq : cq[i] = e
  BY <1>1, EntryFacts
<1>3. h \in Multishots /\ h \notin Oneshots
  BY <1>1, EntryFacts DEF Handles
<1>4. /\ cq' \in Seq(Cqes) /\ Len(cq') = Len(cq) - 1
      /\ \A i \in DOMAIN cq' : i + 1 \in DOMAIN cq /\ cq'[i] = cq[i + 1]
      /\ \A u \in Keys, g \in Handles : /\ InOps(u, g)' <=> InOps(u, g)
                                        /\ Token(u, g)' => Token(u, g)
      /\ ~e.more => \A u \in Keys, g \in Handles : Token(u, g)' => g # h
      /\ LastIsLast'
  BY <1>1, <1>2, CqTail DEF Entry
<1>5. /\ slot = pending[ud].slot /\ pending[ud].st = "Multi"
      /\ e.more \in BOOLEAN
  BY <1>1, <1>2 DEF EntryIo, Cqes
<1> HIDE DEF e, ud, h, slot
<1>6. /\ multishot[slot].st = "Live" /\ ~multishot[slot].finished
      /\ \/ /\ io[h].st = "Submitted" /\ io[h].slot = slot
            /\ ~multishot[slot].dropped
         \/ io[h] = Gone /\ multishot[slot].dropped
  BY <1>2, <1>3, <1>5 DEF MultishotTokens
<1>7. multishot[slot] \in [st : {"Live"}, results : Seq(Values), dropped : BOOLEAN,
                           finished : BOOLEAN, overflow : BOOLEAN]
  <2>1. multishot[slot] \in MultishotResults
    BY <1>2 DEF TypeOK
  <2> QED
    BY <1>6, <2>1 DEF MultishotResults
<1> DEFINE q == RingPush(multishot[slot].results, e.res)
           pushed == [multishot[slot] EXCEPT !.results = q,
                        !.overflow = @ \/ Len(multishot[slot].results) >= RingCap]
<1>8. q \in Seq(Values)
  <2>1. multishot[slot].results \in Seq(Values)
    BY <1>7
  <2>2. Len(multishot[slot].results) >= RingCap => Tail(multishot[slot].results) \in Seq(Values)
    BY <2>1, BoundsAssumption
  <2> QED
    BY <1>2, <2>1, <2>2, BoundsAssumption DEF RingPush
<1> HIDE DEF q
<1>9. /\ pushed \in [st : {"Live"}, results : Seq(Values), dropped : BOOLEAN,
                     finished : BOOLEAN, overflow : BOOLEAN]
      /\ pushed.dropped = multishot[slot].dropped
      /\ pushed.finished = multishot[slot].finished
  BY <1>7, <1>8
<1>10. store = [multishot EXCEPT ![slot] = pushed]
  BY DEF push_result, q
<1> HIDE DEF pushed, store
<1>11. store \in [Keys -> MultishotResults] /\ store[slot] = pushed
  BY <1>2, <1>9, <1>10 DEF TypeOK, MultishotResults
<1>12. \/ /\ e.more
          /\ multishot' = [multishot EXCEPT ![slot] = pushed]
       \/ /\ ~e.more /\ ~multishot[slot].dropped
          /\ multishot' = [multishot EXCEPT ![slot] = [pushed EXCEPT !.finished = TRUE]]
       \/ /\ ~e.more /\ multishot[slot].dropped
          /\ multishot' = [multishot EXCEPT ![slot] = Vacant]
  BY <1>1, <1>5, <1>9, <1>10, <1>11 DEF set_finished, TypeOK
<1>13. \A k \in Keys : k # slot => multishot'[k] = multishot[k]
  BY <1>12 DEF TypeOK
<1>14. /\ e.more => /\ multishot'[slot].st = "Live" /\ ~multishot'[slot].finished
                    /\ multishot'[slot].dropped = multishot[slot].dropped
       /\ ~multishot[slot].dropped =>
            multishot'[slot].st = "Live" /\ ~multishot'[slot].dropped
  <2>1. e.more => multishot'[slot] = pushed
    BY <1>2, <1>12 DEF TypeOK
  <2>2. ~e.more /\ ~multishot[slot].dropped =>
          multishot'[slot] = [pushed EXCEPT !.finished = TRUE]
    BY <1>2, <1>12 DEF TypeOK
  <2> QED
    BY <1>5, <1>6, <1>9, <2>1, <2>2
<1>15. TypeOK'
  <2>1. /\ Vacant \in MultishotResults /\ pushed \in MultishotResults
        /\ [pushed EXCEPT !.finished = TRUE] \in MultishotResults
    BY <1>9 DEF Vacant, MultishotResults
  <2>2. multishot' \in [Keys -> MultishotResults]
    BY <1>2, <1>12, <2>1 DEF TypeOK
  <2>3. batch' \in 0..Len(cq')
    BY <1>1, <1>4 DEF TypeOK
  <2> QED
    BY <1>1, <1>4, <2>2, <2>3 DEF TypeOK
<1>16. TokensUnique' /\ EntriesPending'
  BY <1>1, <1>4 DEF TokensUnique, EntriesPending
<1>17. OneshotTokens' /\ OneshotSlots'
  BY <1>1, <1>4 DEF OneshotTokens, OneshotSlots, Handles
<1>18. MultishotTokens'
  <2>1. \A u \in Keys, g \in Multishots :
          Token(u, g) => pending[u].slot \in Keys /\ pending[u].st = "Multi"
    BY PendingTyped DEF EntriesPending, Handles
  <2>2. \A u \in Keys, g \in Multishots : Token(u, g) /\ g # h => pending[u].slot # slot
    BY <1>2, <1>5, <2>1 DEF EntriesPending, TokensUnique, Handles
  <2>3. \A u \in Keys, g \in Multishots :
          Token(u, g)' /\ g = h => e.more /\ pending[u].slot = slot
    BY <1>2, <1>4, <1>5 DEF TokensUnique, Handles
  <2> QED
    BY <1>1, <1>4, <1>13, <1>14, <2>1, <2>2, <2>3 DEF MultishotTokens, Handles
<1>19. MultishotSlots'
  <2>1. \A g \in Multishots : io[g].st = "Submitted" =>
          multishot'[io[g].slot].st = "Live" /\ ~multishot'[io[g].slot].dropped
    BY <1>13, <1>14 DEF MultishotSlots
  <2> QED
    BY <1>1, <1>4, <2>1 DEF MultishotSlots
<1>20. NewHandles'
  BY <1>1, <1>4 DEF NewHandles
<1>21. OneshotAnswers'
  BY <1>1, <1>4 DEF OneshotAnswers, Handles, Converted
<1> QED
  BY <1>4, <1>15, <1>16, <1>17, <1>18, <1>19, <1>20, <1>21

-----------------------------------------------------------------------------
\* Every step preserves the invariant.
LEMMA StepIInv == ASSUME IInv, [Next]_uring_vars PROVE IInv'
<1>1. ASSUME NEW h \in Oneshots,
             (\E w \in Wakers : OneshotSubmit(h, w)) \/ OneshotReady(h) \/ OneshotDrop(h)
      PROVE  IInv'
  BY <1>1, OneshotSubmitIInv, OneshotReadyIInv, OneshotDropIInv
<1>2. ASSUME NEW h \in Multishots,
             (\E w \in Wakers : MultiSubmit(h, w)) \/ MultiReady(h) \/ MultiDrop(h)
      PROVE  IInv'
  BY <1>2, MultiSubmitIInv, MultiReadyIInv, MultiDropIInv
<1>3. ASSUME NEW h \in Handles, SubmitPanics(h) \/ DropQuiet(h) PROVE IInv'
  BY <1>3, ControlIInv, DropQuietIInv
<1>4. ASSUME NEW h \in Multishots, MultiDropPanics(h) PROVE IInv'
  BY <1>4, ControlIInv DEF Handles
<1>5. CASE SubmitAndWait \/ Completion \/ Interrupted \/ Panicked \/ UNCHANGED uring_vars
  BY <1>5, ControlIInv DEF Panicked
<1>6. CASE NextOneshot \/ NextMulti
  BY <1>6, NextOneshotIInv, NextMultiIInv
<1>7. ASSUME NEW op \in kernel, NEW v \in Results, KernelFinish(op, v) \/ KernelShot(op, v)
      PROVE  IInv'
  BY <1>7, KernelIInv
<1> QED
  BY <1>1, <1>2, <1>3, <1>4, <1>5, <1>6, <1>7 DEF Next

\* IInv is an inductive invariant of the reactor.
THEOREM Invariance == Spec => []IInv
<1>1. Init => IInv
  BY InitIInv
<1>2. IInv /\ [Next]_uring_vars => IInv'
  BY StepIInv
<1> QED
  BY <1>1, <1>2, PTL DEF Spec

\* The reactor's tables and queues keep their types (uring.rs:59-70).
THEOREM TypeCorrect == Spec => []TypeOK
<1>1. IInv => TypeOK
  BY DEF IInv
<1> QED
  BY <1>1, Invariance, PTL

\* Whatever the order of polls, drops and completions, every index that react()
\* and the handles look up with unwrap() is occupied, in a state they expect.
THEOREM LookupsAlwaysSucceed == Spec => []LookupsSucceed
<1>1. ASSUME IInv PROVE LookupsSucceed
  <2> USE <1>1, HandlesAssumption DEF IInv
  <2>1. ASSUME NEW i \in DOMAIN cq
        PROVE  LET p == pending[cq[i].ud]
               IN  \/ p.st = "Oneshot" /\ oneshot[p.slot].st \in {"Pending", "Dropped"}
                   \/ p.st = "Multi" /\ multishot[p.slot].st = "Live"
                                      /\ ~multishot[p.slot].finished
    <3> DEFINE u == cq[i].ud
               h == cq[i].io
    <3>1. u \in Keys /\ h \in Handles /\ Token(u, h)
      BY CqTyped DEF Token, InCompletions
    <3> HIDE DEF u, h
    <3>2. CASE h \in Oneshots
      BY <3>1, <3>2 DEF EntriesPending, OneshotTokens, ResultPending, ResultDropped, u
    <3>3. CASE h \in Multishots
      BY <3>1, <3>3 DEF EntriesPending, MultishotTokens, u
    <3> QED
      BY <3>1, <3>2, <3>3 DEF Handles
  <2> QED
    BY <2>1 DEF LookupsSucceed, OneshotSlots, MultishotSlots
<1> QED
  BY <1>1, Invariance, PTL

\* A oneshot handle returns the answer to its own operation and to no other,
\* through reused user_data and result slots (uring.rs:115-135).
THEOREM OwnResultsAlways == Spec => []OwnResults
<1>1. IInv => OwnResults
  BY DEF IInv, OneshotAnswers, OwnResults
<1> QED
  BY <1>1, Invariance, PTL

\* Dropping a multishot handle cancels no operation but its own: as long as the
\* handle lives, its user_data is given to nobody else (multishot.rs:59-62).
THEOREM CancelsOnlyOwn == Spec => CancelsOwnOperation
<1>1. ASSUME IInv, [Next]_uring_vars
      PROVE  [\A h \in Multishots :
                io[h].st = "Submitted" /\ io'[h] = Gone =>
                  \A op \in kernel \ kernel' : op.io = h]_uring_vars
  <2> SUFFICES ASSUME Next, NEW h \in Multishots, io[h].st = "Submitted", io'[h] = Gone,
                      NEW op \in kernel \ kernel'
               PROVE  op.io = h
    BY <1>1
  <2> USE <1>1 DEF IInv
  <2>1. \A g \in Multishots : MultiDrop(g) /\ g = h => op.io = h
    <3> SUFFICES ASSUME MultiDrop(h) PROVE op.io = h
      OBVIOUS
    <3>1. op.ud = io[h].ud
      BY DEF MultiDrop, Cancellable, Finish
    <3>2. op \in Ops
      BY DEF TypeOK
    <3>3. op.ud \in Keys /\ op.io \in Handles /\ Token(op.ud, op.io)
      BY <3>2 DEF Ops, Op, Token, InOps
    <3> QED
      BY <3>1, <3>3 DEF MultishotSlots
  <2>2. \A g \in Multishots : MultiDrop(g) => g = h
    <3> SUFFICES ASSUME NEW g \in Multishots, MultiDrop(g), g # h PROVE FALSE
      OBVIOUS
    <3>1. io'[h] = io[h]
      BY DEF MultiDrop, TypeOK, Handles
    <3> QED
      BY <3>1 DEF Gone
  <2>3. \/ \E g \in Multishots : MultiDrop(g)
        \/ kernel \subseteq kernel'
        \/ \E o \in kernel, v \in Results : KernelFinish(o, v)
    BY DEF Next, OneshotSubmit, OneshotReady, OneshotDrop, MultiSubmit, MultiReady,
           MultiDropPanics, SubmitPanics, DropQuiet, SubmitAndWait, Completion, Interrupted,
           NextOneshot, NextMulti, KernelShot, Panicked, uring_vars
  <2>4. \A o \in kernel, v \in Results : KernelFinish(o, v) => io' = io
    BY DEF KernelFinish
  <2>5. io' # io
    BY DEF Gone
  <2> QED
    BY <2>1, <2>2, <2>3, <2>4, <2>5
<1> QED
  BY <1>1, Invariance, PTL DEF Spec, CancelsOwnOperation

-----------------------------------------------------------------------------
(***************************************************************************)
(* Result slots are reclaimed.  The invariant follows a token the other    *)
(* way: who still needs one has one, and who holds a slot is known.        *)
(***************************************************************************)
\* A completion with `more` is followed by another sign of life of its operation.
MoreFollows ==
  \A i \in DOMAIN cq :
    cq[i].more => \/ InOps(cq[i].ud, cq[i].io)
                  \/ \E j \in DOMAIN cq : j > i /\ cq[j].ud = cq[i].ud /\ cq[j].io = cq[i].io

\* A submitted handle that has not been given its (last) result has a token.
TokensRemain ==
  /\ \A h \in Oneshots :
       io[h].st = "Submitted" /\ oneshot[io[h].slot].st = "Pending" =>
         \E u \in Keys : Token(u, h)
  /\ \A h \in Multishots :
       io[h].st = "Submitted" /\ ~multishot[io[h].slot].finished =>
         \E u \in Keys : Token(u, h)

\* An occupied result slot is that of a submitted handle, or of a token.
SlotsOwned ==
  \A k \in Keys :
    /\ oneshot[k] # Vacant =>
         \E h \in Oneshots :
           \/ io[h].st = "Submitted" /\ io[h].slot = k
           \/ \E u \in Keys : Token(u, h) /\ pending[u].slot = k
    /\ multishot[k] # Vacant =>
         \E h \in Multishots :
           \/ io[h].st = "Submitted" /\ io[h].slot = k
           \/ \E u \in Keys : Token(u, h) /\ pending[u].slot = k

\* What reclaiming slots adds to it.
RInv == MoreFollows /\ TokensRemain /\ SlotsOwned

\* An empty reactor owns nothing.
LEMMA InitRInv == Init => RInv
<1> SUFFICES ASSUME Init PROVE RInv
  OBVIOUS
<1>1. MoreFollows
  BY DEF Init, MoreFollows
<1>2. TokensRemain
  BY DEF Init, TokensRemain, New, Handles
<1>3. SlotsOwned
  BY DEF Init, SlotsOwned
<1> QED
  BY <1>1, <1>2, <1>3 DEF RInv

\* Cancelling and the kernel's own steps post a completion.
LEMMA PostSteps ==
  ASSUME \/ \E h \in Multishots : MultiDrop(h)
         \/ \E op \in kernel, v \in Results : KernelFinish(op, v) \/ KernelShot(op, v)
  PROVE  \E op \in kernel, v \in Values, more \in BOOLEAN :
           /\ op.io \in Oneshots => ~more
           /\ cq' = Append(cq, Cqe(op, v, more)) /\ sq' = sq
           /\ kernel' = IF more THEN kernel ELSE kernel \ {op}
<1> DEFINE Posts == \E op \in kernel, v \in Values, more \in BOOLEAN :
                      /\ op.io \in Oneshots => ~more
                      /\ cq' = Append(cq, Cqe(op, v, more)) /\ sq' = sq
                      /\ kernel' = IF more THEN kernel ELSE kernel \ {op}
<1>1. ASSUME NEW op \in kernel, NEW v \in Values, Finish(op, v), sq' = sq PROVE Posts
  <2> WITNESS op \in kernel, v \in Values, FALSE \in BOOLEAN
  <2> QED
    BY <1>1 DEF Finish
<1>2. ASSUME NEW h \in Multishots, MultiDrop(h) PROVE Posts
  <2>1. PICK op \in kernel : Finish(op, ECANCELED)
    BY <1>2 DEF MultiDrop, Cancellable
  <2>2. ECANCELED \in Values /\ sq' = sq
    BY <1>2 DEF Values, MultiDrop
  <2> QED
    BY <1>1, <2>1, <2>2
<1>3. ASSUME NEW op \in kernel, NEW v \in Results, KernelFinish(op, v) PROVE Posts
  <2>1. v \in Values /\ Finish(op, v) /\ sq' = sq
    BY <1>3 DEF Values, KernelFinish
  <2> QED
    BY <1>1, <2>1
<1>4. ASSUME NEW op \in kernel, NEW v \in Results, KernelShot(op, v) PROVE Posts
  <2>1. v \in Values
    BY DEF Values
  <2> WITNESS op \in kernel, v \in Values, TRUE \in BOOLEAN
  <2> QED
    BY <1>4, HandlesAssumption DEF KernelShot
<1> HIDE DEF Posts
<1>5. Posts
  BY <1>2, <1>3, <1>4
<1> QED
  BY <1>5 DEF Posts

\* What a step does to the queues: it adds an operation or moves operations from
\* one queue to the other, it posts a completion, or it takes the first one.
LEMMA QueueSteps ==
  ASSUME IInv, [Next]_uring_vars
  PROVE  \/ cq' = cq /\ sq \cup kernel \subseteq sq' \cup kernel'
         \/ \E op \in kernel, v \in Values, more \in BOOLEAN :
              /\ op.io \in Oneshots => ~more
              /\ cq' = Append(cq, Cqe(op, v, more)) /\ sq' = sq
              /\ kernel' = IF more THEN kernel ELSE kernel \ {op}
         \/ /\ NextOneshot \/ NextMulti
            /\ cq # <<>> /\ cq' = Tail(cq) /\ UNCHANGED <<sq, kernel>>
<1>1. NextOneshot \/ NextMulti => cq # <<>> /\ cq' = Tail(cq) /\ UNCHANGED <<sq, kernel>>
  BY EntryFacts DEF NextOneshot, NextMulti
<1>2. \/ cq' = cq /\ sq \cup kernel \subseteq sq' \cup kernel'
      \/ \E h \in Multishots : MultiDrop(h)
      \/ \E op \in kernel, v \in Results : KernelFinish(op, v) \/ KernelShot(op, v)
      \/ NextOneshot \/ NextMulti
  BY DEF Next, OneshotSubmit, OneshotReady, OneshotDrop, MultiSubmit, MultiReady,
         MultiDropPanics, SubmitPanics, DropQuiet, SubmitAndWait, Completion, Interrupted,
         Panicked, submit_io, uring_vars
<1> QED
  BY <1>1, <1>2, PostSteps

\* Only reaping its last completion ends a token.
LEMMA TokensKept ==
  ASSUME IInv, MoreFollows, [Next]_uring_vars
  PROVE  /\ MoreFollows'
         /\ \A u \in Keys, h \in Handles :
              Token(u, h) =>
                \/ Token(u, h)'
                \/ /\ NextOneshot \/ NextMulti
                   /\ ~Entry.more /\ u = Entry.ud /\ h = Entry.io
<1>1. CASE cq' = cq /\ sq \cup kernel \subseteq sq' \cup kernel'
  <2>1. \A u, h : InOps(u, h) => InOps(u, h)'
    BY <1>1 DEF InOps
  <2>2. \A u, h : InCompletions(u, h)' <=> InCompletions(u, h)
    BY <1>1 DEF InCompletions
  <2> QED
    BY <1>1, <2>1, <2>2 DEF MoreFollows, Token
<1>2. ASSUME NEW op \in kernel, NEW v \in Values, NEW more \in BOOLEAN,
             op.io \in Oneshots => ~more,
             cq' = Append(cq, Cqe(op, v, more)), sq' = sq,
             kernel' = IF more THEN kernel ELSE kernel \ {op}
      PROVE  MoreFollows' /\ \A u \in Keys, h \in Handles : Token(u, h) => Token(u, h)'
  <2>1. /\ op.ud \in Keys /\ op.io \in Handles /\ op = Op(op.ud, op.io)
        /\ DOMAIN cq' = DOMAIN cq \cup {Len(cq) + 1} /\ Len(cq) + 1 \notin DOMAIN cq
        /\ \A i \in DOMAIN cq : cq'[i] = cq[i]
        /\ cq'[Len(cq) + 1] = Cqe(op, v, more)
        /\ \A u \in Keys, h \in Handles : Token(u, h)' <=> Token(u, h)
    BY <1>2, CqAppend
  <2>2. \A u, h : InOps(u, h) => InOps(u, h)' \/ (~more /\ u = op.ud /\ h = op.io)
    BY <1>2, <2>1 DEF InOps, Op
  <2>3. /\ cq'[Len(cq) + 1].ud = op.ud /\ cq'[Len(cq) + 1].io = op.io
        /\ cq'[Len(cq) + 1].more = more
    BY <2>1 DEF Cqe
  <2>4. more => InOps(op.ud, op.io)'
    BY <1>2, <2>1 DEF InOps
  <2>5. \A i \in DOMAIN cq : Len(cq) + 1 > i
    BY DEF IInv, TypeOK
  <2>6. \A i \in DOMAIN cq' :
          cq'[i].more =>
            \/ Op(cq'[i].ud, cq'[i].io) \in sq' \cup kernel'
            \/ \E j \in DOMAIN cq' : j > i /\ cq'[j].ud = cq'[i].ud /\ cq'[j].io = cq'[i].io
    <3> SUFFICES ASSUME NEW i \in DOMAIN cq', cq'[i].more
                 PROVE  \/ Op(cq'[i].ud, cq'[i].io) \in sq' \cup kernel'
                        \/ \E j \in DOMAIN cq' :
                             j > i /\ cq'[j].ud = cq'[i].ud /\ cq'[j].io = cq'[i].io
      OBVIOUS
    <3>1. CASE i = Len(cq) + 1
      BY <2>3, <2>4, <3>1 DEF InOps
    <3>2. CASE i \in DOMAIN cq
      <4>1. cq'[i] = cq[i] /\ cq[i].more /\ Len(cq) + 1 > i
        BY <2>1, <2>5, <3>2
      <4>2. \/ InOps(cq[i].ud, cq[i].io)
            \/ \E j \in DOMAIN cq : j > i /\ cq[j].ud = cq[i].ud /\ cq[j].io = cq[i].io
        BY <3>2, <4>1 DEF MoreFollows
      <4>3. \A u, h : InOps(u, h) =>
              Op(u, h) \in sq' \cup kernel' \/ (~more /\ u = op.ud /\ h = op.io)
        BY <2>2 DEF InOps
      <4> QED
        BY <2>1, <2>3, <4>1, <4>2, <4>3
    <3> QED
      BY <2>1, <3>1, <3>2
  <2>7. MoreFollows'
    BY <2>6 DEF MoreFollows, InOps
  <2> QED
    BY <2>1, <2>7
<1>3. CASE /\ NextOneshot \/ NextMulti
           /\ cq # <<>> /\ cq' = Tail(cq) /\ UNCHANGED <<sq, kernel>>
  <2>1. /\ Entry \in Cqes /\ Entry = cq[1] /\ 1 \in DOMAIN cq
        /\ DOMAIN cq' = 1..(Len(cq) - 1)
        /\ \A i \in DOMAIN cq' : i + 1 \in DOMAIN cq /\ cq'[i] = cq[i + 1]
        /\ \A u \in Keys, h \in Handles : InOps(u, h)' <=> InOps(u, h)
        /\ Token(Entry.ud, Entry.io)
        /\ ~Entry.more => \A u \in Keys, h \in Handles :
                            Token(u, h)' <=> Token(u, h) /\ h # Entry.io
    BY <1>3, CqTail DEF Entry
  <2>2. DOMAIN cq = 1..Len(cq) /\ Len(cq) \in Nat
    BY DEF IInv, TypeOK
  <2>3. \A i \in DOMAIN cq : i > 1 => i - 1 \in DOMAIN cq' /\ cq'[i - 1] = cq[i]
    BY <2>1, <2>2
  <2>4. Entry.ud \in Keys /\ Entry.io \in Handles /\ Entry.more \in BOOLEAN
    BY <2>1 DEF Cqes
  <2>5. \A u \in Keys, h \in Handles :
          Entry.more /\ u = Entry.ud /\ h = Entry.io => Token(u, h)'
    <3> SUFFICES ASSUME NEW u \in Keys, NEW h \in Handles,
                        Entry.more, u = Entry.ud, h = Entry.io
                 PROVE  Token(u, h)'
      OBVIOUS
    <3>1. \/ InOps(u, h)
          \/ \E j \in DOMAIN cq : j > 1 /\ cq[j].ud = u /\ cq[j].io = h
      BY <2>1 DEF MoreFollows
    <3>2. (\E j \in DOMAIN cq : j > 1 /\ cq[j].ud = u /\ cq[j].io = h) => InCompletions(u, h)'
      BY <2>3 DEF InCompletions
    <3> QED
      BY <2>1, <3>1, <3>2 DEF Token
  <2>6. \A u \in Keys, h \in Handles : Token(u, h) /\ h # Entry.io => Token(u, h)'
    <3> SUFFICES ASSUME NEW u \in Keys, NEW h \in Handles, Token(u, h), h # Entry.io
                 PROVE  Token(u, h)'
      OBVIOUS
    <3>1. InCompletions(u, h) => InCompletions(u, h)'
      <4> SUFFICES ASSUME NEW i \in DOMAIN cq, cq[i].ud = u, cq[i].io = h
                   PROVE  \E j \in DOMAIN cq' : cq'[j].ud = u /\ cq'[j].io = h
        BY DEF InCompletions
      <4>1. i > 1
        BY <2>1, <2>2
      <4> QED
        BY <2>3, <4>1
    <3> QED
      BY <2>1, <3>1 DEF Token
  <2>7. \A u \in Keys, h \in Handles : Token(u, h) /\ h = Entry.io => u = Entry.ud
    BY <2>1, <2>4 DEF IInv, TokensUnique
  <2>8. \A i \in DOMAIN cq' :
          cq'[i].more =>
            \/ Op(cq'[i].ud, cq'[i].io) \in sq' \cup kernel'
            \/ \E j \in DOMAIN cq' : j > i /\ cq'[j].ud = cq'[i].ud /\ cq'[j].io = cq'[i].io
    <3> SUFFICES ASSUME NEW i \in DOMAIN cq', cq'[i].more
                 PROVE  \/ Op(cq'[i].ud, cq'[i].io) \in sq' \cup kernel'
                        \/ \E j \in DOMAIN cq' :
                             j > i /\ cq'[j].ud = cq'[i].ud /\ cq'[j].io = cq'[i].io
      OBVIOUS
    <3>1. i + 1 \in DOMAIN cq /\ cq'[i] = cq[i + 1] /\ i \in Nat
      BY <2>1
    <3>2. \/ Op(cq[i + 1].ud, cq[i + 1].io) \in sq \cup kernel
          \/ \E j \in DOMAIN cq :
               j > i + 1 /\ cq[j].ud = cq[i + 1].ud /\ cq[j].io = cq[i + 1].io
      BY <3>1 DEF MoreFollows, InOps
    <3>3. \A j \in DOMAIN cq : j > i + 1 => j > 1 /\ j - 1 > i
      BY <2>2, <3>1
    <3> QED
      BY <1>3, <2>3, <3>1, <3>2, <3>3
  <2>9. MoreFollows'
    BY <2>8 DEF MoreFollows, InOps
  <2> QED
    BY <1>3, <2>4, <2>5, <2>6, <2>7, <2>9
<1> QED
  BY <1>1, <1>2, <1>3, QueueSteps

\* Steps that end no token and leave the handles and the tables alone.
LEMMA QuietOwned ==
  ASSUME TokensRemain, SlotsOwned, UNCHANGED <<io, pending, oneshot, multishot>>,
         \A u \in Keys, h \in Handles : Token(u, h) => Token(u, h)'
  PROVE  TokensRemain' /\ SlotsOwned'
BY DEF TokensRemain, SlotsOwned, Handles

\* The slot a submitted oneshot takes is its own, and its operation under way.
LEMMA OneshotSubmitOwned ==
  ASSUME IInv, TokensRemain, SlotsOwned, NEW h \in Oneshots, NEW w \in Wakers,
         OneshotSubmit(h, w),
         \A u \in Keys, g \in Handles : Token(u, g) => Token(u, g)'
  PROVE  TokensRemain' /\ SlotsOwned'
<1> USE HandlesAssumption DEF IInv
<1>1. PICK slot \in Keys, ud \in Keys :
        /\ oneshot[slot] = Vacant /\ pending[ud] = Vacant
        /\ oneshot' = [oneshot EXCEPT ![slot] = ResultPending]
        /\ pending' = [pending EXCEPT ![ud] = PendingIo("Oneshot", w, slot)]
        /\ sq' = sq \cup {Op(ud, h)}
        /\ io' = [io EXCEPT ![h] = SubmittedOneshot(slot)]
  BY DEF OneshotSubmit, submit_io, VacantKeys
<1>2. h \in Handles /\ io[h].st = "New" /\ multishot' = multishot
  BY DEF OneshotSubmit, Handles, New
<1>3. /\ \A u \in Keys : u # ud => pending'[u] = pending[u]
      /\ \A k \in Keys : k # slot => oneshot'[k] = oneshot[k]
      /\ io'[h].st = "Submitted" /\ io'[h].slot = slot
      /\ \A g \in Handles : g # h => io'[g] = io[g]
  BY <1>1, <1>2 DEF TypeOK, SubmittedOneshot
<1>4. Token(ud, h)'
  BY <1>1 DEF Token, InOps
<1>5. \A u \in Keys, g \in Handles : Token(u, g) => u # ud
  BY <1>1 DEF EntriesPending, Vacant
<1>6. TokensRemain'
  <2>1. \A g \in Oneshots : io[g].st = "Submitted" => io[g].slot \in Keys /\ io[g].slot # slot
    BY <1>1 DEF OneshotSlots, Vacant
  <2> QED
    BY <1>2, <1>3, <1>4, <2>1 DEF TokensRemain, Handles
<1>7. SlotsOwned'
  BY <1>2, <1>3, <1>5 DEF SlotsOwned, Handles
<1> QED
  BY <1>6, <1>7

\* The same for a multishot.
LEMMA MultiSubmitOwned ==
  ASSUME IInv, TokensRemain, SlotsOwned, NEW h \in Multishots, NEW w \in Wakers,
         MultiSubmit(h, w),
         \A u \in Keys, g \in Handles : Token(u, g) => Token(u, g)'
  PROVE  TokensRemain' /\ SlotsOwned'
<1> USE HandlesAssumption DEF IInv
<1>1. PICK slot \in Keys, ud \in Keys :
        /\ multishot[slot] = Vacant /\ pending[ud] = Vacant
        /\ multishot' = [multishot EXCEPT ![slot] = NewShots]
        /\ pending' = [pending EXCEPT ![ud] = PendingIo("Multi", w, slot)]
        /\ sq' = sq \cup {Op(ud, h)}
        /\ io' = [io EXCEPT ![h] = SubmittedMulti(slot, ud)]
  BY DEF MultiSubmit, submit_io, VacantKeys
<1>2. h \in Handles /\ h \notin Oneshots /\ io[h].st = "New" /\ oneshot' = oneshot
  BY DEF MultiSubmit, Handles, New
<1>3. /\ \A u \in Keys : u # ud => pending'[u] = pending[u]
      /\ \A k \in Keys : k # slot => multishot'[k] = multishot[k]
      /\ io'[h].st = "Submitted" /\ io'[h].slot = slot
      /\ \A g \in Handles : g # h => io'[g] = io[g]
  BY <1>1, <1>2 DEF TypeOK, SubmittedMulti
<1>4. Token(ud, h)'
  BY <1>1 DEF Token, InOps
<1>5. \A u \in Keys, g \in Handles : Token(u, g) => u # ud
  BY <1>1 DEF EntriesPending, Vacant
<1>6. TokensRemain'
  <2>1. \A g \in Multishots : io[g].st = "Submitted" => io[g].slot \in Keys /\ io[g].slot # slot
    BY <1>1 DEF MultishotSlots, Vacant
  <2> QED
    BY <1>2, <1>3, <1>4, <2>1 DEF TokensRemain, Handles
<1>7. SlotsOwned'
  BY <1>2, <1>3, <1>5 DEF SlotsOwned, Handles
<1> QED
  BY <1>6, <1>7

\* Giving up a oneshot, with its result or without: the slot is emptied, or left
\* to the operation, which is still under way.
LEMMA OneshotEndOwned ==
  ASSUME IInv, TokensRemain, SlotsOwned, NEW h \in Oneshots,
         OneshotReady(h) \/ OneshotDrop(h),
         \A u \in Keys, g \in Handles : Token(u, g) => Token(u, g)'
  PROVE  TokensRemain' /\ SlotsOwned'
<1> USE HandlesAssumption DEF IInv
<1> DEFINE slot == io[h].slot
<1>1. /\ h \in Handles /\ io[h].st = "Submitted" /\ slot \in Keys
      /\ oneshot[slot].st \in {"Pending", "Set"}
      /\ UNCHANGED <<pending, multishot>>
  BY DEF OneshotReady, OneshotDrop, OneshotSlots, Handles
<1>2. /\ io'[h].st # "Submitted"
      /\ \A g \in Handles : g # h => io'[g] = io[g]
  BY <1>1 DEF OneshotReady, OneshotDrop, TypeOK, Finished, Gone
<1>3. \/ oneshot' = [oneshot EXCEPT ![slot] = Vacant]
      \/ oneshot[slot].st = "Pending" /\ oneshot' = [oneshot EXCEPT ![slot] = ResultDropped]
  BY <1>1 DEF OneshotReady, OneshotDrop, oneshot_drop_result
<1>4. /\ \A k \in Keys : k # slot => oneshot'[k] = oneshot[k]
      /\ oneshot'[slot] = Vacant \/ oneshot[slot].st = "Pending"
  BY <1>1, <1>3 DEF TypeOK
<1>5. oneshot[slot].st = "Pending" => \E u \in Keys : Token(u, h) /\ pending[u].slot = slot
  BY <1>1 DEF TokensRemain, OneshotTokens, Gone
<1>6. TokensRemain'
  <2>1. \A g \in Oneshots : io[g].st = "Submitted" /\ g # h => io[g].slot \in Keys /\ io[g].slot # slot
    BY <1>1 DEF OneshotSlots
  <2> QED
    BY <1>1, <1>2, <1>4, <2>1 DEF TokensRemain, Handles
<1>7. SlotsOwned'
  BY <1>1, <1>2, <1>4, <1>5 DEF SlotsOwned, Handles
<1> QED
  BY <1>6, <1>7

\* Dropping a handle with nothing in flight gives up no slot.
LEMMA DropQuietOwned ==
  ASSUME IInv, TokensRemain, SlotsOwned, NEW h \in Handles, DropQuiet(h),
         \A u \in Keys, g \in Handles : Token(u, g) => Token(u, g)'
  PROVE  TokensRemain' /\ SlotsOwned'
<1>1. /\ io[h].st # "Submitted" /\ io'[h].st # "Submitted"
      /\ \A g \in Handles : g # h => io'[g] = io[g]
      /\ UNCHANGED <<pending, oneshot, multishot>>
  BY DEF DropQuiet, IInv, TypeOK, Gone
<1> QED
  BY <1>1 DEF TokensRemain, SlotsOwned, Handles

\* Popping a result changes only the buffer; dropping a multishot leaves its slot
\* to the operation it has just cancelled.
LEMMA MultiEndOwned ==
  ASSUME IInv, TokensRemain, SlotsOwned, NEW h \in Multishots,
         MultiReady(h) \/ MultiDrop(h),
         \A u \in Keys, g \in Handles : Token(u, g) => Token(u, g)'
  PROVE  TokensRemain' /\ SlotsOwned'
<1> USE HandlesAssumption DEF IInv
<1> DEFINE slot == io[h].slot
<1>1. /\ h \in Handles /\ h \notin Oneshots /\ io[h].st = "Submitted" /\ slot \in Keys
      /\ multishot[slot].st = "Live" /\ UNCHANGED <<pending, oneshot>>
  BY DEF MultiReady, MultiDrop, MultishotSlots, Handles
<1>2. multishot[slot] \in [st : {"Live"}, results : Seq(Values), dropped : BOOLEAN,
                           finished : BOOLEAN, overflow : BOOLEAN]
  <2>1. multishot[slot] \in MultishotResults
    BY <1>1 DEF TypeOK
  <2> QED
    BY <1>1, <2>1 DEF MultishotResults
<1>3. \A k \in Keys : k # slot => multishot'[k] = multishot[k]
  BY <1>1 DEF MultiReady, MultiDrop, multishot_drop_result, TypeOK
<1>4. \A g \in Multishots : io[g].st = "Submitted" /\ g # h => io[g].slot \in Keys /\ io[g].slot # slot
  BY <1>1 DEF MultishotSlots
<1>5. CASE MultiReady(h)
  <2>1. io' = io /\ multishot' = [multishot EXCEPT ![slot].results = Tail(multishot[slot].results)]
    BY <1>5 DEF MultiReady
  <2>2. multishot'[slot].finished = multishot[slot].finished
    BY <1>1, <1>2, <2>1 DEF TypeOK
  <2>3. TokensRemain'
    BY <1>1, <1>3, <1>4, <2>1, <2>2 DEF TokensRemain, Handles
  <2>4. SlotsOwned'
    BY <1>1, <1>3, <2>1 DEF SlotsOwned, Handles
  <2> QED
    BY <2>3, <2>4
<1>6. CASE MultiDrop(h)
  <2>1. PICK op \in kernel : op.ud = io[h].ud
    BY <1>6 DEF MultiDrop, Cancellable
  <2>2. op.ud \in Keys /\ op.io \in Handles /\ Token(op.ud, op.io)
    <3>1. op \in Ops
      BY DEF TypeOK
    <3> QED
      BY <3>1 DEF Ops, Op, Token, InOps
  <2>3. op.io = h
    BY <1>1, <2>1, <2>2 DEF MultishotSlots
  <2>4. pending[op.ud].slot = slot
    BY <1>1, <2>2, <2>3 DEF MultishotTokens, Gone
  <2>5. /\ io'[h].st # "Submitted"
        /\ \A g \in Handles : g # h => io'[g] = io[g]
    BY <1>1, <1>6 DEF MultiDrop, TypeOK, Gone
  <2>6. TokensRemain'
    BY <1>1, <1>3, <1>4, <2>5 DEF TokensRemain, Handles
  <2>7. SlotsOwned'
    BY <1>1, <1>3, <2>2, <2>3, <2>4, <2>5 DEF SlotsOwned, Handles
  <2> QED
    BY <2>6, <2>7
<1> QED
  BY <1>5, <1>6

\* Reaping the completion of a oneshot: its handle has the result, or the slot of
\* the dropped handle is emptied.
LEMMA NextOneshotOwned ==
  ASSUME IInv, TokensRemain, SlotsOwned, NextOneshot,
         \A u \in Keys, h \in Handles :
           Token(u, h) => Token(u, h)' \/ (u = Entry.ud /\ h = Entry.io)
  PROVE  TokensRemain' /\ SlotsOwned'
<1> USE HandlesAssumption DEF IInv
<1> DEFINE ud == Entry.ud
           h == Entry.io
           slot == EntryIo.slot
<1>1. /\ oneshot' = set_result(oneshot, Entry.res, slot)
      /\ pending' = [pending EXCEPT ![ud] = Vacant]
      /\ UNCHANGED <<io, multishot>>
  BY DEF NextOneshot
<1>2. /\ ud \in Keys /\ h \in Oneshots /\ h \in Handles /\ Token(ud, h) /\ slot \in Keys
      /\ slot = pending[ud].slot
  BY EntryFacts DEF NextOneshot, EntryIo
<1>3. \A u \in Keys, g \in Handles : Token(u, g) => Token(u, g)' \/ (u = ud /\ g = h)
  OBVIOUS
<1> HIDE DEF ud, h, slot
<1>4. \/ /\ io[h].st = "Submitted" /\ io[h].slot = slot
         /\ oneshot'[slot].st = "Set"
      \/ io[h] = Gone /\ oneshot'[slot] = Vacant
  <2>1. ResultPending # ResultDropped
    BY DEF ResultPending, ResultDropped
  <2> QED
    BY <1>1, <1>2, <2>1 DEF OneshotTokens, set_result, TypeOK, ResultSet
<1>5. /\ \A u \in Keys : u # ud => pending'[u] = pending[u]
      /\ \A k \in Keys : k # slot => oneshot'[k] = oneshot[k]
  BY <1>1, <1>2 DEF set_result, TypeOK
<1>6. \A u \in Keys, g \in Handles :
        Token(u, g) => (u = ud /\ g = h) \/ (Token(u, g)' /\ pending'[u] = pending[u] /\ g # h)
  BY <1>2, <1>3, <1>5 DEF TokensUnique
<1>7. TokensRemain'
  <2>1. ASSUME NEW g \in Oneshots, io[g].st = "Submitted", oneshot'[io[g].slot].st = "Pending"
        PROVE  \E u \in Keys : Token(u, g)'
    <3>1. io[g].slot \in Keys /\ oneshot[io[g].slot].st \in {"Pending", "Set"}
      BY <2>1 DEF OneshotSlots
    <3>2. oneshot'[slot].st # "Pending"
      BY <1>4 DEF Vacant
    <3>3. oneshot[io[g].slot].st = "Pending" /\ g # h
      BY <1>4, <1>5, <2>1, <3>1, <3>2 DEF Gone
    <3>4. PICK u \in Keys : Token(u, g)
      BY <2>1, <3>3 DEF TokensRemain
    <3> QED
      BY <1>6, <3>3, <3>4 DEF Handles
  <2>2. ASSUME NEW g \in Multishots, io[g].st = "Submitted", ~multishot[io[g].slot].finished
        PROVE  \E u \in Keys : Token(u, g)'
    <3>1. PICK u \in Keys : Token(u, g)
      BY <2>2 DEF TokensRemain
    <3> QED
      BY <1>2, <1>6, <3>1 DEF Handles
  <2> QED
    BY <1>1, <2>1, <2>2 DEF TokensRemain
<1>8. SlotsOwned'
  <2>1. ASSUME NEW k \in Keys, oneshot'[k] # Vacant
        PROVE  \E g \in Oneshots : \/ io[g].st = "Submitted" /\ io[g].slot = k
                                   \/ \E u \in Keys : Token(u, g)' /\ pending'[u].slot = k
    <3>1. CASE k = slot
      BY <1>2, <1>4, <2>1, <3>1
    <3>2. CASE k # slot
      <4>1. PICK g \in Oneshots : \/ io[g].st = "Submitted" /\ io[g].slot = k
                                  \/ \E u \in Keys : Token(u, g) /\ pending[u].slot = k
        BY <1>5, <2>1, <3>2 DEF SlotsOwned
      <4> QED
        BY <1>2, <1>6, <3>2, <4>1 DEF Handles
    <3> QED
      BY <3>1, <3>2
  <2>2. ASSUME NEW k \in Keys, multishot[k] # Vacant
        PROVE  \E g \in Multishots : \/ io[g].st = "Submitted" /\ io[g].slot = k
                                     \/ \E u \in Keys : Token(u, g)' /\ pending'[u].slot = k
    <3>1. PICK g \in Multishots : \/ io[g].st = "Submitted" /\ io[g].slot = k
                                  \/ \E u \in Keys : Token(u, g) /\ pending[u].slot = k
      BY <2>2 DEF SlotsOwned
    <3> QED
      BY <1>2, <1>6, <3>1 DEF Handles
  <2> QED
    BY <1>1, <2>1, <2>2 DEF SlotsOwned
<1> QED
  BY <1>7, <1>8

\* Reaping a completion of a multishot: the last one sets `finished`, or empties
\* the slot of a dropped handle.
LEMMA NextMultiOwned ==
  ASSUME IInv, TokensRemain, SlotsOwned, NextMulti,
         \A u \in Keys, h \in Handles :
           Token(u, h) => Token(u, h)' \/ (~Entry.more /\ u = Entry.ud /\ h = Entry.io)
  PROVE  TokensRemain' /\ SlotsOwned'
<1> USE HandlesAssumption DEF IInv
<1> DEFINE e == Entry
           ud == Entry.ud
           h == Entry.io
           slot == EntryIo.slot
           store == push_result(multishot, e.res, slot)
<1>1. /\ multishot' = IF e.more THEN store ELSE set_finished(store, slot)
      /\ UNCHANGED <<io, pending, oneshot>>
  BY DEF NextMulti
<1>2. /\ ud \in Keys /\ h \in Multishots /\ h \in Handles /\ h \notin Oneshots
      /\ Token(ud, h) /\ slot \in Keys /\ slot = pending[ud].slot /\ e \in Cqes
  BY EntryFacts DEF NextMulti, EntryIo, Handles
<1>3. \A u \in Keys, g \in Handles :
        Token(u, g) => Token(u, g)' \/ (~e.more /\ u = ud /\ g = h)
  OBVIOUS
<1>4. e.more \in BOOLEAN
  BY <1>2 DEF Cqes
<1> HIDE DEF e, ud, h, slot
<1>5. /\ multishot[slot].st = "Live"
      /\ \/ io[h].st = "Submitted" /\ io[h].slot = slot /\ ~multishot[slot].dropped
         \/ io[h] = Gone /\ multishot[slot].dropped
  BY <1>2 DEF MultishotTokens
<1>6. multishot[slot] \in [st : {"Live"}, results : Seq(Values), dropped : BOOLEAN,
                           finished : BOOLEAN, overflow : BOOLEAN]
  <2>1. multishot[slot] \in MultishotResults
    BY <1>2 DEF TypeOK
  <2> QED
    BY <1>5, <2>1 DEF MultishotResults
<1> DEFINE q == RingPush(multishot[slot].results, e.res)
           pushed == [multishot[slot] EXCEPT !.results = q,
                        !.overflow = @ \/ Len(multishot[slot].results) >= RingCap]
<1>7. store = [multishot EXCEPT ![slot] = pushed]
  BY DEF push_result
<1> HIDE DEF q, store
<1>8. /\ store[slot] = pushed /\ DOMAIN store = Keys
      /\ pushed.dropped = multishot[slot].dropped /\ DOMAIN pushed = DOMAIN multishot[slot]
      /\ \A k \in Keys : k # slot => store[k] = multishot[k]
  BY <1>2, <1>6, <1>7 DEF TypeOK
<1> HIDE DEF pushed
<1>9. /\ \A k \in Keys : k # slot => multishot'[k] = multishot[k]
      /\ ~e.more /\ multishot[slot].dropped => multishot'[slot] = Vacant
  BY <1>1, <1>2, <1>8 DEF set_finished
<1>10. ~e.more /\ ~multishot[slot].dropped => multishot'[slot].finished
  <2>1. ~e.more /\ ~multishot[slot].dropped =>
          multishot'[slot] = [pushed EXCEPT !.finished = TRUE]
    BY <1>1, <1>2, <1>8 DEF set_finished
  <2>2. "finished" \in DOMAIN pushed
    BY <1>6, <1>8
  <2> QED
    BY <2>1, <2>2
<1>11. TokensRemain'
  <2>1. ASSUME NEW g \in Multishots, io[g].st = "Submitted", ~multishot'[io[g].slot].finished
        PROVE  \E u \in Keys : Token(u, g)'
    <3>1. io[g].slot \in Keys
      BY <2>1 DEF MultishotSlots
    <3>2. CASE g = h
      BY <1>2, <1>3, <1>5, <1>10, <2>1, <3>2 DEF Gone
    <3>3. CASE g # h
      <4>1. io[g].slot # slot
        BY <1>2, <1>5, <2>1, <3>3 DEF MultishotSlots
      <4>2. PICK u \in Keys : Token(u, g)
        BY <1>9, <2>1, <3>1, <4>1 DEF TokensRemain
      <4> QED
        BY <1>3, <3>3, <4>2 DEF Handles
    <3> QED
      BY <3>2, <3>3
  <2>2. ASSUME NEW g \in Oneshots, io[g].st = "Submitted", oneshot[io[g].slot].st = "Pending"
        PROVE  \E u \in Keys : Token(u, g)'
    <3>1. PICK u \in Keys : Token(u, g)
      BY <2>2 DEF TokensRemain
    <3> QED
      BY <1>2, <1>3, <3>1 DEF Handles
  <2> QED
    BY <1>1, <2>1, <2>2 DEF TokensRemain
<1>12. SlotsOwned'
  <2>1. ASSUME NEW k \in Keys, multishot'[k] # Vacant
        PROVE  \E g \in Multishots : \/ io[g].st = "Submitted" /\ io[g].slot = k
                                     \/ \E u \in Keys : Token(u, g)' /\ pending[u].slot = k
    <3>1. CASE k = slot
      BY <1>2, <1>3, <1>4, <1>5, <1>9, <2>1, <3>1
    <3>2. CASE k # slot
      <4>1. PICK g \in Multishots : \/ io[g].st = "Submitted" /\ io[g].slot = k
                                    \/ \E u \in Keys : Token(u, g) /\ pending[u].slot = k
        BY <1>9, <2>1, <3>2 DEF SlotsOwned
      <4> QED
        BY <1>2, <1>3, <3>2, <4>1 DEF Handles
    <3> QED
      BY <3>1, <3>2
  <2>2. ASSUME NEW k \in Keys, oneshot[k] # Vacant
        PROVE  \E g \in Oneshots : \/ io[g].st = "Submitted" /\ io[g].slot = k
                                   \/ \E u \in Keys : Token(u, g)' /\ pending[u].slot = k
    <3>1. PICK g \in Oneshots : \/ io[g].st = "Submitted" /\ io[g].slot = k
                                \/ \E u \in Keys : Token(u, g) /\ pending[u].slot = k
      BY <2>2 DEF SlotsOwned
    <3> QED
      BY <1>2, <1>3, <3>1 DEF Handles
  <2> QED
    BY <1>1, <2>1, <2>2 DEF SlotsOwned
<1> QED
  BY <1>11, <1>12

\* Every step preserves ownership.
LEMMA StepRInv == ASSUME IInv, RInv, [Next]_uring_vars PROVE RInv'
<1> USE DEF RInv
<1>1. /\ MoreFollows'
      /\ \A u \in Keys, h \in Handles :
           Token(u, h) =>
             \/ Token(u, h)'
             \/ /\ NextOneshot \/ NextMulti
                /\ ~Entry.more /\ u = Entry.ud /\ h = Entry.io
  BY TokensKept
<1>2. CASE NextOneshot
  BY <1>1, <1>2, NextOneshotOwned
<1>3. CASE NextMulti
  BY <1>1, <1>3, NextMultiOwned
<1>4. CASE ~NextOneshot /\ ~NextMulti
  <2>1. \A u \in Keys, h \in Handles : Token(u, h) => Token(u, h)'
    BY <1>1, <1>4
  <2>2. ASSUME NEW h \in Oneshots,
               (\E w \in Wakers : OneshotSubmit(h, w)) \/ OneshotReady(h) \/ OneshotDrop(h)
        PROVE  TokensRemain' /\ SlotsOwned'
    BY <2>1, <2>2, OneshotSubmitOwned, OneshotEndOwned
  <2>3. ASSUME NEW h \in Multishots,
               (\E w \in Wakers : MultiSubmit(h, w)) \/ MultiReady(h) \/ MultiDrop(h)
        PROVE  TokensRemain' /\ SlotsOwned'
    BY <2>1, <2>3, MultiSubmitOwned, MultiEndOwned
  <2>4. ASSUME NEW h \in Handles, DropQuiet(h) PROVE TokensRemain' /\ SlotsOwned'
    BY <2>1, <2>4, DropQuietOwned
  <2>5. UNCHANGED <<io, pending, oneshot, multishot>> => TokensRemain' /\ SlotsOwned'
    BY <2>1, QuietOwned
  <2>6. \/ \E h \in Oneshots :
             (\E w \in Wakers : OneshotSubmit(h, w)) \/ OneshotReady(h) \/ OneshotDrop(h)
        \/ \E h \in Multishots :
             (\E w \in Wakers : MultiSubmit(h, w)) \/ MultiReady(h) \/ MultiDrop(h)
        \/ \E h \in Handles : DropQuiet(h)
        \/ UNCHANGED <<io, pending, oneshot, multishot>>
    BY <1>4 DEF Next, MultiDropPanics, SubmitPanics, SubmitAndWait, Completion, Interrupted,
                KernelFinish, KernelShot, Panicked, uring_vars
  <2> QED
    BY <1>1, <2>2, <2>3, <2>4, <2>5, <2>6
<1> QED
  BY <1>2, <1>3, <1>4

\* Ownership is invariant.
THEOREM OwnershipInvariance == Spec => []RInv
<1>1. IInv /\ RInv /\ [Next]_uring_vars => RInv'
  BY StepRInv
<1> QED
  BY <1>1, InitRInv, Invariance, PTL DEF Spec

\* Every result slot is given back: it is kept only for a submitted handle that
\* can still read it, or for the operation of a dropped one that has still to
\* complete into it (result.rs:22-53, 104-131).
THEOREM ResultsAlwaysReclaimed == Spec => []ResultsReclaimed
<1>1. ASSUME IInv, RInv PROVE ResultsReclaimed
  <2> USE <1>1, HandlesAssumption DEF IInv, RInv
  <2>1. \A u \in Keys, h \in Handles : Token(u, h) => Outstanding(h)
    BY DEF Token, InOps, InCompletions, Outstanding, Op
  <2>2. ASSUME NEW k \in Keys, oneshot[k] # Vacant
        PROVE  \E h \in Oneshots :
                 \/ io[h].st = "Submitted" /\ io[h].slot = k
                 \/ io[h] = Gone /\ Outstanding(h) /\ oneshot[k] = ResultDropped
    BY <2>1, <2>2 DEF SlotsOwned, OneshotTokens, Handles
  <2>3. ASSUME NEW k \in Keys, multishot[k] # Vacant
        PROVE  \E h \in Multishots :
                 \/ io[h].st = "Submitted" /\ io[h].slot = k
                 \/ io[h] = Gone /\ Outstanding(h) /\ multishot[k].dropped
    BY <2>1, <2>3 DEF SlotsOwned, MultishotTokens, Handles
  <2> QED
    BY <2>2, <2>3 DEF ResultsReclaimed
<1> QED
  BY <1>1, Invariance, OwnershipInvariance, PTL

-----------------------------------------------------------------------------
(***************************************************************************)
(* The reactor implements IoPort for its oneshot handles.                  *)
(***************************************************************************)
InSq(h) == \E op \in sq : op.io = h
InKernel(h) == \E op \in kernel : op.io = h

\* The operation of a oneshot is in one place, and unanswered while it is there.
LEMMA OpPlaces ==
  ASSUME IInv, NEW h \in Oneshots
  PROVE  /\ ~(InSq(h) /\ InKernel(h))
         /\ InSq(h) \/ InKernel(h) => posted[h] = <<>>
<1> USE DEF IInv
<1>1. \A op \in sq \cup kernel : op.ud \in Keys /\ op.io \in Handles /\ op = Op(op.ud, op.io)
  BY DEF TypeOK, Ops, Op
<1>2. \A op \in sq \cup kernel : op.io = h => posted[h] = <<>>
  BY <1>1 DEF OneshotAnswers, InOps
<1>3. ASSUME NEW p \in sq, NEW q \in kernel, p.io = h, q.io = h PROVE FALSE
  <2>1. Token(p.ud, h) /\ Token(q.ud, h) /\ h \in Handles
    BY <1>1, <1>3 DEF Token, InOps
  <2>2. p.ud = q.ud
    BY <1>1, <2>1 DEF TokensUnique
  <2>3. p = q
    BY <1>1, <1>3, <2>2
  <2> QED
    BY <2>3 DEF LastIsLast
<1> QED
  BY <1>2, <1>3 DEF InSq, InKernel

\* So the cases of OpState exclude each other.
OpCases ==
  \A h \in Oneshots :
    /\ InSq(h) => OpState(h) = "queued" /\ ~InKernel(h)
    /\ InKernel(h) => OpState(h) = "kernel" /\ ~InSq(h)
    /\ ~InSq(h) /\ ~InKernel(h) =>
         OpState(h) = IF posted[h] = <<>> THEN "none" ELSE "done"

\* In every state that satisfies the invariant ...
LEMMA OpStates == IInv => OpCases
<1> SUFFICES ASSUME IInv PROVE OpCases
  OBVIOUS
<1> QED
  BY OpPlaces DEF OpCases, OpState, InSq, InKernel

\* ... the next one included.
LEMMA OpStatesNext == IInv' => OpCases'
BY OpStates, PTL

\* Initially nothing is submitted or answered.
LEMMA InitPort == Init => Port!Init
<1> SUFFICES ASSUME Init PROVE Port!Init
  OBVIOUS
<1>1. \A h \in Oneshots : io[h].st = "New" /\ posted[h] = <<>> /\ got[h] = <<>>
  BY DEF Init, Handles, New
<1>2. \A h \in Oneshots : OpState(h) = "none"
  BY <1>1 DEF Init, OpState
<1> QED
  BY <1>1, <1>2 DEF Port!Init

\* A step that leaves the operations, answers and results of the oneshots alone,
\* and the states of their handles, is a stutter.
LEMMA PortStutters ==
  ASSUME IInv, IInv',
         \A h \in Oneshots : /\ io'[h].st = io[h].st /\ got'[h] = got[h]
                             /\ posted'[h] = posted[h]
                             /\ InSq(h)' <=> InSq(h)
                             /\ InKernel(h)' <=> InKernel(h)
  PROVE  UNCHANGED Port!port_vars
<1>1. OpCases /\ OpCases'
  BY OpStates, OpStatesNext
<1>2. \A h \in Oneshots : OpState(h)' = OpState(h)
  <2> SUFFICES ASSUME NEW h \in Oneshots PROVE OpState(h)' = OpState(h)
    OBVIOUS
  <2>1. CASE InSq(h)
    BY <1>1, <2>1 DEF OpCases
  <2>2. CASE InKernel(h)
    BY <1>1, <2>2 DEF OpCases
  <2>3. CASE ~InSq(h) /\ ~InKernel(h)
    BY <1>1, <2>3 DEF OpCases
  <2> QED
    BY <2>1, <2>2, <2>3
<1> QED
  BY <1>2 DEF Port!port_vars

\* The first poll of a oneshot queues its operation.
LEMMA PortSubmit ==
  ASSUME IInv, IInv', NEW h \in Oneshots, NEW w \in Wakers, OneshotSubmit(h, w)
  PROVE  Port!Submit(h)
<1>1. PICK ud \in Keys, slot \in Keys :
        sq' = sq \cup {Op(ud, h)} /\ io' = [io EXCEPT ![h] = SubmittedOneshot(slot)]
  BY DEF OneshotSubmit, submit_io, VacantKeys
<1>2. /\ io[h].st = "New" /\ io'[h].st = "Submitted" /\ h \in Handles
      /\ \A g \in Oneshots : g # h => io'[g] = io[g]
      /\ UNCHANGED <<kernel, posted, got>>
  BY <1>1 DEF OneshotSubmit, IInv, TypeOK, Handles, New, SubmittedOneshot
<1>3. OpCases /\ OpCases'
  BY OpStates, OpStatesNext
<1>4. InSq(h)' /\ \A g \in Oneshots : g # h => (InSq(g)' <=> InSq(g))
  <2>1. Op(ud, h).io = h /\ \A o : o \in sq' <=> o \in sq \/ o = Op(ud, h)
    BY <1>1 DEF Op
  <2> QED
    BY <2>1 DEF InSq
<1>5. \A g \in Oneshots : InKernel(g)' <=> InKernel(g)
  BY <1>2 DEF InKernel
<1>6. \A g \in Oneshots : OpState(g)' = IF g = h THEN "queued" ELSE OpState(g)
  <2> SUFFICES ASSUME NEW g \in Oneshots
               PROVE  OpState(g)' = IF g = h THEN "queued" ELSE OpState(g)
    OBVIOUS
  <2>1. CASE g = h
    BY <1>3, <1>4, <2>1 DEF OpCases
  <2>2. CASE g # h
    BY <1>2, <1>3, <1>4, <1>5, <2>2 DEF OpCases
  <2> QED
    BY <2>1, <2>2
<1> QED
  BY <1>2, <1>6 DEF Port!Submit

\* A poll that returns Ready returns the answer to the operation, which is done.
LEMMA PortTake ==
  ASSUME IInv, IInv', NEW h \in Oneshots, OneshotReady(h) PROVE Port!Take(h)
<1> DEFINE v == oneshot[io[h].slot].val
<1>1. /\ h \in Handles /\ io[h].st = "Submitted" /\ got[h] = <<>>
      /\ posted[h] = <<v>> /\ \A u \in Keys : ~Token(u, h)
  BY DEF OneshotReady, IInv, OneshotSlots, OneshotAnswers, Handles
<1>2. /\ io' = [io EXCEPT ![h] = Finished(v)]
      /\ got' = [got EXCEPT ![h] = Append(got[h], reactor_value_to_result(v))]
      /\ UNCHANGED <<sq, kernel, posted>>
  BY DEF OneshotReady
<1> HIDE DEF v
<1>3. /\ io'[h].st = "Finished" /\ got'[h] = Append(<<>>, reactor_value_to_result(v))
      /\ \A g \in Oneshots : g # h => io'[g] = io[g] /\ got'[g] = got[g]
  BY <1>1, <1>2 DEF IInv, TypeOK, Handles, Finished
<1>4. got'[h] = <<reactor_value_to_result(v)>>
  BY <1>3
<1>5. \A o \in sq \cup kernel : o.ud \in Keys /\ o = Op(o.ud, o.io)
  BY DEF IInv, TypeOK, Ops, Op
<1>6. ~InSq(h) /\ ~InKernel(h)
  BY <1>1, <1>5 DEF InSq, InKernel, Token, InOps
<1>7. OpState(h) = "done"
  <2>1. OpCases
    BY OpStates
  <2>2. posted[h] # <<>>
    BY <1>1
  <2> QED
    BY <1>6, <2>1, <2>2 DEF OpCases
<1>8. \A g \in Oneshots : OpState(g)' = OpState(g)
  BY <1>2 DEF OpState
<1> DEFINE r == <<Port!ToResult([g \in Oneshots |-> posted[g]][h][1])>>
<1>9. Port!ToResult([g \in Oneshots |-> posted[g]][h][1]) = reactor_value_to_result(v)
  BY <1>1 DEF Port!ToResult, reactor_value_to_result
<1>10. got'[h] = r
  BY <1>4, <1>9
<1> HIDE DEF r
<1>11. [g \in Oneshots |-> got[g]]' = [[g \in Oneshots |-> got[g]] EXCEPT ![h] = r]
  BY <1>3, <1>10
<1>12. /\ io[h].st = "Submitted" /\ io'[h].st = "Finished"
       /\ \A g \in Oneshots : g # h => io'[g] = io[g]
  BY <1>1, <1>3
<1>13. /\ [g \in Oneshots |-> io[g].st][h] = "Submitted"
       /\ [g \in Oneshots |-> io[g].st]' = [[g \in Oneshots |-> io[g].st] EXCEPT ![h] = "Finished"]
  BY <1>12
<1>14. /\ [g \in Oneshots |-> OpState(g)][h] = "done"
       /\ UNCHANGED [g \in Oneshots |-> OpState(g)]
  BY <1>7, <1>8
<1>15. UNCHANGED [g \in Oneshots |-> posted[g]]
  BY <1>2
<1> QED
  BY <1>11, <1>13, <1>14, <1>15, Zenon DEF Port!Take, r

\* Dropping a oneshot, in whatever state, only drops it.
LEMMA PortDrop ==
  ASSUME IInv, IInv', NEW h \in Oneshots, OneshotDrop(h) \/ DropQuiet(h)
  PROVE  Port!Drop(h)
<1>1. /\ h \in Handles /\ io[h].st # "Gone" /\ io'[h].st = "Gone"
      /\ \A g \in Oneshots : g # h => io'[g] = io[g]
      /\ UNCHANGED <<sq, kernel, posted, got>>
  BY DEF OneshotDrop, DropQuiet, IInv, TypeOK, Handles, Gone
<1>2. \A g \in Oneshots : OpState(g)' = OpState(g)
  BY <1>1 DEF OpState
<1> QED
  BY <1>1, <1>2 DEF Port!Drop

\* submit_and_wait hands every queued operation to the kernel.
LEMMA PortEnter == ASSUME IInv, IInv', SubmitAndWait PROVE Port!Enter
<1>1. /\ kernel' = kernel \cup sq /\ sq' = {} /\ UNCHANGED <<io, posted, got>>
  BY DEF SubmitAndWait
<1>2. OpCases /\ OpCases'
  BY OpStates, OpStatesNext
<1>3. \A h \in Oneshots : ~InSq(h)' /\ (InKernel(h)' <=> InKernel(h) \/ InSq(h))
  BY <1>1 DEF InSq, InKernel
<1>4. \A h \in Oneshots :
        OpState(h)' = IF OpState(h) = "queued" THEN "kernel" ELSE OpState(h)
  <2> SUFFICES ASSUME NEW h \in Oneshots
               PROVE  OpState(h)' = IF OpState(h) = "queued" THEN "kernel" ELSE OpState(h)
    OBVIOUS
  <2>1. CASE InSq(h)
    BY <1>2, <1>3, <2>1 DEF OpCases
  <2>2. CASE InKernel(h)
    BY <1>2, <1>3, <2>2 DEF OpCases
  <2>3. CASE ~InSq(h) /\ ~InKernel(h)
    BY <1>1, <1>2, <1>3, <2>3 DEF OpCases
  <2> QED
    BY <2>1, <2>2, <2>3
<1> QED
  BY <1>1, <1>4 DEF Port!Enter

\* The kernel ends an operation: that of a oneshot is answered, once.
LEMMA PortAnswer ==
  ASSUME IInv, IInv', NEW o \in kernel, NEW v \in Values, Finish(o, v), sq' = sq,
         UNCHANGED <<io, got>>
  PROVE  (\E h \in Oneshots : Port!Answer(h, v)) \/ UNCHANGED Port!port_vars
<1>1. /\ kernel' = kernel \ {o}
      /\ posted' = [posted EXCEPT ![o.io] = Append(posted[o.io], v)]
  BY DEF Finish
<1>2. o.ud \in Keys /\ o.io \in Handles /\ o = Op(o.ud, o.io)
  BY DEF IInv, TypeOK, Ops, Op
<1>3. \A g \in Handles : g # o.io => posted'[g] = posted[g]
  BY <1>1 DEF IInv, TypeOK
<1>4. \A g \in Oneshots : InSq(g)' <=> InSq(g)
  BY DEF InSq
<1>5. \A g \in Oneshots : g # o.io => (InKernel(g)' <=> InKernel(g))
  BY <1>1 DEF InKernel
<1>6. OpCases /\ OpCases'
  BY OpStates, OpStatesNext
<1>7. CASE o.io \in Oneshots
  <2> DEFINE h == o.io
  <2>1. InKernel(h) /\ posted[h] = <<>>
    BY <1>7, OpPlaces DEF InKernel
  <2>2. posted'[h] = Append(<<>>, v)
    BY <1>1, <1>2, <2>1 DEF IInv, TypeOK
  <2>3. posted'[h] = <<v>> /\ posted'[h] # <<>>
    BY <2>2
  <2>4. \A p \in kernel : p.io = h => p = o
    <3> SUFFICES ASSUME NEW p \in kernel, p.io = h PROVE p = o
      OBVIOUS
    <3>1. p.ud \in Keys /\ p = Op(p.ud, p.io)
      BY DEF IInv, TypeOK, Ops, Op
    <3>2. Token(p.ud, h) /\ Token(o.ud, h)
      BY <1>2, <3>1 DEF Token, InOps
    <3> QED
      BY <1>2, <3>1, <3>2 DEF IInv, TokensUnique
  <2>5. \A g \in Oneshots : g = h => ~InKernel(g)'
    BY <1>1, <2>4 DEF InKernel
  <2>6. \A g \in Oneshots : OpState(g)' = IF g = h THEN "done" ELSE OpState(g)
    <3> SUFFICES ASSUME NEW g \in Oneshots
                 PROVE  OpState(g)' = IF g = h THEN "done" ELSE OpState(g)
      OBVIOUS
    <3>1. CASE g = h
      BY <1>4, <1>6, <2>1, <2>3, <2>5, <3>1 DEF OpCases
    <3>2. CASE g # h
      <4>1. posted'[g] = posted[g]
        BY <1>3, <3>2 DEF Handles
      <4> QED
        BY <1>4, <1>5, <1>6, <3>2, <4>1 DEF OpCases
    <3> QED
      BY <3>1, <3>2
  <2>7. OpState(h) = "kernel"
    BY <1>6, <1>7, <2>1 DEF OpCases
  <2>8. \A g \in Oneshots : g # h => posted'[g] = posted[g]
    BY <1>3 DEF Handles
  <2>9. Port!Answer(h, v)
    BY <1>7, <2>3, <2>6, <2>7, <2>8 DEF Port!Answer
  <2> QED
    BY <1>7, <2>9
<1>8. CASE o.io \notin Oneshots
  <2>1. UNCHANGED Port!port_vars
    BY <1>3, <1>4, <1>5, <1>8, PortStutters DEF Handles
  <2> QED
    BY <2>1
<1> QED
  BY <1>7, <1>8

\* Every step of the reactor is a step of IoPort or a stutter.
LEMMA PortSteps ==
  ASSUME IInv, IInv', [Next]_uring_vars PROVE [Port!Next]_Port!port_vars
<1> USE HandlesAssumption
<1>1. ASSUME NEW h \in Oneshots,
             (\E w \in Wakers : OneshotSubmit(h, w)) \/ OneshotReady(h) \/ OneshotDrop(h)
      PROVE  Port!Next
  BY <1>1, PortSubmit, PortTake, PortDrop DEF Port!Next
<1>2. ASSUME NEW h \in Handles, DropQuiet(h) PROVE [Port!Next]_Port!port_vars
  <2>1. CASE h \in Oneshots
    BY <1>2, <2>1, PortDrop DEF Port!Next
  <2>2. CASE h \notin Oneshots
    <3>1. /\ \A g \in Oneshots : io'[g] = io[g]
          /\ UNCHANGED <<sq, kernel, posted, got>>
      BY <1>2, <2>2 DEF DropQuiet, IInv, TypeOK, Handles
    <3>2. \A g \in Oneshots : (InSq(g)' <=> InSq(g)) /\ (InKernel(g)' <=> InKernel(g))
      BY <3>1 DEF InSq, InKernel
    <3> QED
      BY <3>1, <3>2, PortStutters
  <2> QED
    BY <2>1, <2>2
<1>3. ASSUME NEW h \in Multishots, NEW w \in Wakers, MultiSubmit(h, w)
      PROVE  UNCHANGED Port!port_vars
  <2>1. PICK ud \in Keys, slot \in Keys :
          sq' = sq \cup {Op(ud, h)} /\ io' = [io EXCEPT ![h] = SubmittedMulti(slot, ud)]
    BY <1>3 DEF MultiSubmit, submit_io, VacantKeys
  <2>2. h \notin Oneshots /\ UNCHANGED <<kernel, posted, got>>
    BY <1>3 DEF MultiSubmit
  <2>3. \A g \in Oneshots : io'[g] = io[g]
    BY <2>1, <2>2 DEF IInv, TypeOK, Handles
  <2>4. Op(ud, h).io = h
    BY DEF Op
  <2>5. \A g \in Oneshots : (InSq(g)' <=> InSq(g)) /\ (InKernel(g)' <=> InKernel(g))
    BY <2>1, <2>2, <2>4 DEF InSq, InKernel
  <2> QED
    BY <2>2, <2>3, <2>5, PortStutters
<1>4. ASSUME NEW h \in Multishots, MultiReady(h) PROVE UNCHANGED Port!port_vars
  <2>1. /\ \A g \in Oneshots : got'[g] = got[g]
        /\ UNCHANGED <<io, sq, kernel, posted>>
    BY <1>4 DEF MultiReady, IInv, TypeOK, Handles
  <2>2. \A g \in Oneshots : (InSq(g)' <=> InSq(g)) /\ (InKernel(g)' <=> InKernel(g))
    BY <2>1 DEF InSq, InKernel
  <2> QED
    BY <2>1, <2>2, PortStutters
<1>5. ASSUME NEW h \in Multishots, MultiDrop(h) PROVE UNCHANGED Port!port_vars
  <2>1. PICK o \in kernel : o.ud = io[h].ud /\ Finish(o, ECANCELED)
    BY <1>5 DEF MultiDrop, Cancellable
  <2>2. o.ud \in Keys /\ o.io \in Handles /\ Token(o.ud, o.io)
    <3>1. o \in Ops
      BY DEF IInv, TypeOK
    <3> QED
      BY <3>1 DEF Ops, Op, Token, InOps
  <2>3. o.io = h
    BY <1>5, <2>1, <2>2 DEF IInv, MultishotSlots, MultiDrop
  <2>4. /\ \A g \in Oneshots : g # h /\ io'[g] = io[g] /\ posted'[g] = posted[g]
        /\ UNCHANGED <<sq, got>> /\ kernel' = kernel \ {o}
    BY <1>5, <2>1, <2>3 DEF MultiDrop, Finish, IInv, TypeOK, Handles
  <2>5. \A g \in Oneshots : (InSq(g)' <=> InSq(g)) /\ (InKernel(g)' <=> InKernel(g))
    BY <2>3, <2>4 DEF InSq, InKernel
  <2> QED
    BY <2>4, <2>5, PortStutters
<1>6. CASE SubmitAndWait
  BY <1>6, PortEnter DEF Port!Next
<1>7. ASSUME NEW o \in kernel, NEW v \in Results, KernelFinish(o, v)
      PROVE  [Port!Next]_Port!port_vars
  <2>1. v \in Values /\ Finish(o, v) /\ sq' = sq /\ UNCHANGED <<io, got>>
    BY <1>7 DEF KernelFinish, Values
  <2>2. (\E h \in Oneshots : Port!Answer(h, v)) \/ UNCHANGED Port!port_vars
    BY <2>1, PortAnswer
  <2> QED
    BY <2>1, <2>2 DEF Port!Next
<1>8. ASSUME NEW o \in kernel, NEW v \in Results, KernelShot(o, v)
      PROVE  UNCHANGED Port!port_vars
  <2>1. /\ \A g \in Oneshots : posted'[g] = posted[g]
        /\ UNCHANGED <<io, sq, kernel, got>>
    BY <1>8 DEF KernelShot, IInv, TypeOK, Handles
  <2>2. \A g \in Oneshots : (InSq(g)' <=> InSq(g)) /\ (InKernel(g)' <=> InKernel(g))
    BY <2>1 DEF InSq, InKernel
  <2> QED
    BY <2>1, <2>2, PortStutters
<1>9. CASE UNCHANGED <<io, sq, kernel, posted, got>>
  <2>1. \A g \in Oneshots : (InSq(g)' <=> InSq(g)) /\ (InKernel(g)' <=> InKernel(g))
    BY <1>9 DEF InSq, InKernel
  <2> QED
    BY <1>9, <2>1, PortStutters
<1>10. \/ \E h \in Oneshots :
            (\E w \in Wakers : OneshotSubmit(h, w)) \/ OneshotReady(h) \/ OneshotDrop(h)
       \/ \E h \in Multishots :
            (\E w \in Wakers : MultiSubmit(h, w)) \/ MultiReady(h) \/ MultiDrop(h)
       \/ \E h \in Handles : DropQuiet(h)
       \/ SubmitAndWait
       \/ \E o \in kernel, v \in Results : KernelFinish(o, v) \/ KernelShot(o, v)
       \/ UNCHANGED <<io, sq, kernel, posted, got>>
  BY DEF Next, MultiDropPanics, SubmitPanics, Completion, Interrupted, NextOneshot, NextMulti,
         Panicked, uring_vars
<1> QED
  BY <1>1, <1>2, <1>3, <1>4, <1>5, <1>6, <1>7, <1>8, <1>9, <1>10

\* The reactor implements IoPort: whatever indices its tables reuse, a future that
\* holds a oneshot handle sees one operation, answered once, and only that answer
\* (oneshot.rs:39-64, uring.rs:112-129).
THEOREM ReactorImplementsPort == Spec => PortSpec
<1>1. IInv /\ IInv' /\ [Next]_uring_vars => [Port!Next]_Port!port_vars
  BY PortSteps
<1> QED
  BY <1>1, InitPort, Invariance, PTL DEF Spec, PortSpec, Port!Spec

-----------------------------------------------------------------------------
(***************************************************************************)
(* What composing the reactor with an executor needs: whose slots and      *)
(* whose pending entries a step can touch.                                 *)
(***************************************************************************)
\* The contents of the result slot of a submitted handle.
Slot(h) == IF h \in Oneshots THEN oneshot[io[h].slot] ELSE multishot[io[h].slot]

\* The calls a future makes on its handle h.
OneshotCall(h) ==
  (\E w \in Wakers : OneshotSubmit(h, w)) \/ OneshotReady(h) \/ OneshotDrop(h)
MultiCall(h) ==
  (\E w \in Wakers : MultiSubmit(h, w)) \/ MultiReady(h) \/ MultiDrop(h)

\* A call on a oneshot leaves the other submitted handles and their slots alone.
LEMMA OneshotCallSlots ==
  ASSUME IInv, NEW h \in Oneshots, OneshotCall(h)
  PROVE  \A g \in Handles :
           g # h /\ io[g].st = "Submitted" => io'[g] = io[g] /\ Slot(g)' = Slot(g)
<1> USE HandlesAssumption DEF IInv
<1>1. /\ multishot' = multishot /\ h \in Handles
      /\ \A g \in Handles : g # h => io'[g] = io[g]
  BY DEF OneshotCall, OneshotSubmit, OneshotReady, OneshotDrop, Handles, TypeOK
<1>2. ASSUME NEW g \in Oneshots, g # h, io[g].st = "Submitted"
      PROVE  oneshot'[io[g].slot] = oneshot[io[g].slot]
  <2>1. io[g].slot \in Keys /\ oneshot[io[g].slot].st \in {"Pending", "Set"}
    BY <1>2 DEF OneshotSlots
  <2>2. ASSUME NEW w \in Wakers, OneshotSubmit(h, w)
        PROVE  oneshot'[io[g].slot] = oneshot[io[g].slot]
    <3>1. PICK slot \in Keys : /\ oneshot[slot] = Vacant
                               /\ oneshot' = [oneshot EXCEPT ![slot] = ResultPending]
      BY <2>2 DEF OneshotSubmit, VacantKeys
    <3>2. io[g].slot # slot
      BY <2>1, <3>1 DEF Vacant
    <3> QED
      BY <2>1, <3>1, <3>2 DEF TypeOK
  <2>3. CASE OneshotReady(h) \/ OneshotDrop(h)
    <3>1. io[h].slot # io[g].slot
      BY <1>2, <2>3 DEF OneshotSlots, OneshotReady, OneshotDrop
    <3> QED
      BY <2>1, <2>3, <3>1 DEF OneshotReady, OneshotDrop, oneshot_drop_result, TypeOK
  <2> QED
    BY <2>2, <2>3 DEF OneshotCall
<1> QED
  BY <1>1, <1>2 DEF Slot, Handles

\* The same for a multishot.
LEMMA MultiCallSlots ==
  ASSUME IInv, NEW h \in Multishots, MultiCall(h)
  PROVE  \A g \in Handles :
           g # h /\ io[g].st = "Submitted" => io'[g] = io[g] /\ Slot(g)' = Slot(g)
<1> USE HandlesAssumption DEF IInv
<1>1. /\ oneshot' = oneshot /\ h \in Handles
      /\ \A g \in Handles : g # h => io'[g] = io[g]
  BY DEF MultiCall, MultiSubmit, MultiReady, MultiDrop, Handles, TypeOK
<1>2. ASSUME NEW g \in Multishots, g # h, io[g].st = "Submitted"
      PROVE  multishot'[io[g].slot] = multishot[io[g].slot]
  <2>1. io[g].slot \in Keys /\ multishot[io[g].slot].st = "Live"
    BY <1>2 DEF MultishotSlots
  <2>2. ASSUME NEW w \in Wakers, MultiSubmit(h, w)
        PROVE  multishot'[io[g].slot] = multishot[io[g].slot]
    <3>1. PICK slot \in Keys :
            /\ multishot[slot] = Vacant
            /\ multishot' = [multishot EXCEPT ![slot] = NewShots]
      BY <2>2 DEF MultiSubmit, VacantKeys
    <3>2. io[g].slot # slot
      BY <2>1, <3>1 DEF Vacant
    <3> QED
      BY <2>1, <3>1, <3>2 DEF TypeOK
  <2>3. CASE MultiReady(h) \/ MultiDrop(h)
    <3>1. io[h].slot # io[g].slot
      BY <1>2, <2>3 DEF MultishotSlots, MultiReady, MultiDrop
    <3> QED
      BY <2>1, <2>3, <3>1 DEF MultiReady, MultiDrop, multishot_drop_result, TypeOK
  <2> QED
    BY <2>2, <2>3 DEF MultiCall
<1> QED
  BY <1>1, <1>2 DEF Slot, Handles

\* Reaping a completion touches the slot of its own handle at most.
LEMMA ReapedSlots ==
  ASSUME IInv, NextOneshot \/ NextMulti
  PROVE  /\ io' = io
         /\ \A g \in Handles : g # Entry.io /\ io[g].st = "Submitted" => Slot(g)' = Slot(g)
<1> USE HandlesAssumption DEF IInv
<1>1. io' = io
  BY DEF NextOneshot, NextMulti
<1>2. /\ Entry.ud \in Keys /\ Entry.io \in Handles /\ Token(Entry.ud, Entry.io)
      /\ EntryIo.st = (IF Entry.io \in Oneshots THEN "Oneshot" ELSE "Multi")
      /\ EntryIo.slot \in Keys /\ EntryIo.slot = pending[Entry.ud].slot
  BY EntryFacts DEF NextOneshot, NextMulti, EntryIo
<1> DEFINE h == Entry.io
           slot == EntryIo.slot
<1> SUFFICES ASSUME NEW g \in Handles, g # h, io[g].st = "Submitted"
             PROVE  Slot(g)' = Slot(g)
  BY <1>1
<1>3. CASE NextOneshot
  <2>1. h \in Oneshots /\ multishot' = multishot /\ oneshot' = set_result(oneshot, Entry.res, slot)
    BY <1>2, <1>3 DEF NextOneshot
  <2>2. CASE g \in Multishots
    BY <1>1, <2>1, <2>2 DEF Slot
  <2>3. CASE g \in Oneshots
    <3>1. io[g].slot \in Keys /\ oneshot[io[g].slot].st \in {"Pending", "Set"}
      BY <2>3 DEF OneshotSlots
    <3>2. io[g].slot # slot
      BY <1>2, <2>1, <2>3, <3>1 DEF OneshotTokens, OneshotSlots, ResultDropped
    <3>3. oneshot'[io[g].slot] = oneshot[io[g].slot]
      BY <2>1, <3>1, <3>2 DEF set_result, TypeOK
    <3> QED
      BY <1>1, <2>3, <3>3 DEF Slot
  <2> QED
    BY <2>2, <2>3 DEF Handles
<1>4. CASE NextMulti
  <2>1. /\ h \in Multishots /\ oneshot' = oneshot
        /\ LET store == push_result(multishot, Entry.res, slot)
           IN  multishot' = IF Entry.more THEN store ELSE set_finished(store, slot)
    BY <1>2, <1>4 DEF NextMulti, Handles
  <2>2. CASE g \in Oneshots
    BY <1>1, <2>1, <2>2 DEF Slot
  <2>3. CASE g \in Multishots
    <3>1. io[g].slot \in Keys /\ ~multishot[io[g].slot].dropped
      BY <2>3 DEF MultishotSlots
    <3>2. io[g].slot # slot
      BY <1>2, <2>1, <2>3, <3>1 DEF MultishotTokens, MultishotSlots
    <3>3. multishot'[io[g].slot] = multishot[io[g].slot]
      BY <1>2, <2>1, <3>1, <3>2 DEF push_result, set_finished, TypeOK
    <3> QED
      BY <1>1, <2>3, <3>3 DEF Slot
  <2> QED
    BY <2>2, <2>3 DEF Handles
<1> QED
  BY <1>3, <1>4

\* A submission makes one token, whose pending entry holds the waker of the poll.
LEMMA SubmitOrigin ==
  ASSUME IInv, NEW h \in Handles, NEW w \in Wakers,
         OneshotSubmit(h, w) \/ MultiSubmit(h, w)
  PROVE  \A u \in Keys, g \in Handles :
           Token(u, g)' => \/ Token(u, g) /\ pending'[u] = pending[u]
                           \/ g = h /\ pending'[u].obj = w
<1>1. PICK ud \in Keys, slot \in Keys, kind \in {"Oneshot", "Multi"} :
        /\ pending[ud] = Vacant
        /\ pending' = [pending EXCEPT ![ud] = PendingIo(kind, w, slot)]
        /\ sq' = sq \cup {Op(ud, h)}
  BY DEF OneshotSubmit, MultiSubmit, submit_io, VacantKeys
<1>2. UNCHANGED <<kernel, cq>>
  BY DEF OneshotSubmit, MultiSubmit
<1>3. \A u, g : Token(u, g)' => Token(u, g) \/ (u = ud /\ g = h)
  BY <1>1, <1>2 DEF Token, InOps, InCompletions, Op
<1>4. \A g \in Handles : ~Token(ud, g)
  BY <1>1 DEF IInv, EntriesPending, Vacant
<1>5. /\ pending'[ud].obj = w
      /\ \A u \in Keys : u # ud => pending'[u] = pending[u]
  BY <1>1 DEF IInv, TypeOK, PendingIo
<1> QED
  BY <1>3, <1>4, <1>5

\* No other step makes a token or changes the pending entry of one.
LEMMA OtherOrigin ==
  ASSUME IInv,
         \/ \E h \in Oneshots : OneshotReady(h) \/ OneshotDrop(h)
         \/ \E h \in Multishots : MultiReady(h) \/ MultiDrop(h) \/ MultiDropPanics(h)
         \/ \E h \in Handles : SubmitPanics(h) \/ DropQuiet(h)
         \/ SubmitAndWait \/ Completion \/ NextOneshot \/ NextMulti
         \/ \E op \in kernel, v \in Results : KernelFinish(op, v) \/ KernelShot(op, v)
         \/ UNCHANGED uring_vars
  PROVE  \A u \in Keys, g \in Handles :
           Token(u, g)' => Token(u, g) /\ pending'[u] = pending[u]
<1>1. CASE cq' = cq /\ sq' \cup kernel' \subseteq sq \cup kernel /\ pending' = pending
  BY <1>1 DEF Token, InOps, InCompletions
<1>2. ASSUME NEW op \in kernel, NEW v \in Values, NEW more \in BOOLEAN,
             op.io \in Oneshots => ~more,
             cq' = Append(cq, Cqe(op, v, more)), sq' = sq,
             kernel' = IF more THEN kernel ELSE kernel \ {op}
      PROVE  \A u \in Keys, g \in Handles : Token(u, g)' => Token(u, g)
  BY <1>2, CqAppend
<1>3. CASE NextOneshot \/ NextMulti
  <2>1. /\ \A u \in Keys, g \in Handles : Token(u, g)' => Token(u, g)
        /\ ~Entry.more => \A u \in Keys, g \in Handles : Token(u, g)' => g # Entry.io
    BY <1>3, CqTail, EntryFacts DEF NextOneshot, NextMulti, Entry
  <2>2. CASE NextMulti
    BY <2>1, <2>2 DEF NextMulti
  <2>3. CASE NextOneshot
    <3>1. Entry.ud \in Keys /\ Entry.io \in Handles /\ Token(Entry.ud, Entry.io) /\ ~Entry.more
      BY <2>3, EntryFacts DEF NextOneshot, IInv, LastIsLast
    <3>2. \A u \in Keys, g \in Handles : Token(u, g)' => u # Entry.ud
      BY <2>1, <3>1 DEF IInv, TokensUnique
    <3>3. \A u \in Keys : u # Entry.ud => pending'[u] = pending[u]
      BY <2>3, <3>1 DEF NextOneshot, IInv, TypeOK
    <3> QED
      BY <2>1, <3>2, <3>3
  <2> QED
    BY <1>3, <2>2, <2>3
<1>4. CASE \/ \E h \in Multishots : MultiDrop(h)
           \/ \E op \in kernel, v \in Results : KernelFinish(op, v) \/ KernelShot(op, v)
  <2>1. pending' = pending
    BY <1>4 DEF MultiDrop, KernelFinish, KernelShot
  <2> QED
    BY <1>2, <1>4, <2>1, PostSteps
<1>5. \/ cq' = cq /\ sq' \cup kernel' \subseteq sq \cup kernel /\ pending' = pending
      \/ \E h \in Multishots : MultiDrop(h)
      \/ \E op \in kernel, v \in Results : KernelFinish(op, v) \/ KernelShot(op, v)
      \/ NextOneshot \/ NextMulti
  BY DEF OneshotReady, OneshotDrop, MultiReady, MultiDropPanics, SubmitPanics,
         DropQuiet, SubmitAndWait, Completion, uring_vars
<1> QED
  BY <1>1, <1>3, <1>4, <1>5

-----------------------------------------------------------------------------
(***************************************************************************)
(* The results of a multishot, in order.  Behind(h, i) counts completions, *)
(* so the lemmas say how the count changes when one is posted or reaped.   *)
(***************************************************************************)
\* The completions of h behind position i.
BehindSet(h, i) == {j \in (i + 1)..Len(cq) : cq[j].io = h}

\* They are finitely many.
LEMMA BehindFinite ==
  ASSUME cq \in Seq(Cqes), NEW h, NEW i \in Nat
  PROVE  IsFiniteSet(BehindSet(h, i)) /\ Behind(h, i) \in Nat
<1>1. Len(cq) \in Nat
  OBVIOUS
<1>2. IsFiniteSet((i + 1)..Len(cq))
  BY <1>1, FS_Interval
<1>3. BehindSet(h, i) \in SUBSET ((i + 1)..Len(cq))
  BY DEF BehindSet
<1>4. IsFiniteSet(BehindSet(h, i))
  BY <1>2, <1>3, FS_Subset
<1> QED
  BY <1>4, FS_CardinalityType DEF Behind, BehindSet

\* A completion counts itself among those behind the one before it.
LEMMA BehindStep ==
  ASSUME cq \in Seq(Cqes), NEW h, NEW i \in DOMAIN cq
  PROVE  Behind(h, i - 1) = Behind(h, i) + (IF cq[i].io = h THEN 1 ELSE 0)
<1>1. i \in 1..Len(cq) /\ Len(cq) \in Nat
  OBVIOUS
<1>2. IsFiniteSet(BehindSet(h, i)) /\ Behind(h, i) \in Nat
  BY <1>1, BehindFinite
<1>a. i \notin BehindSet(h, i)
  BY <1>1 DEF BehindSet
<1>3. ((i - 1) + 1)..Len(cq) = ((i + 1)..Len(cq)) \cup {i}
  BY <1>1
<1>4. BehindSet(h, i - 1) = IF cq[i].io = h THEN BehindSet(h, i) \cup {i} ELSE BehindSet(h, i)
  BY <1>1, <1>3 DEF BehindSet
<1>5. Cardinality(BehindSet(h, i) \cup {i}) = Cardinality(BehindSet(h, i)) + 1
  BY <1>2, <1>a, FS_AddElement
<1>6. /\ Behind(h, i) = Cardinality(BehindSet(h, i))
      /\ Behind(h, i - 1) = Cardinality(BehindSet(h, i - 1))
  BY DEF Behind, BehindSet
<1> QED
  BY <1>2, <1>4, <1>5, <1>6

\* The same for the first one and the whole queue.
LEMMA BehindFirst ==
  ASSUME cq \in Seq(Cqes), cq # <<>>, NEW h
  PROVE  /\ Behind(h, 0) = Behind(h, 1) + (IF cq[1].io = h THEN 1 ELSE 0)
         /\ Behind(h, 1) \in Nat
<1>1. 1 \in DOMAIN cq /\ 1 - 1 = 0
  OBVIOUS
<1>2. Behind(h, 1 - 1) = Behind(h, 1) + (IF cq[1].io = h THEN 1 ELSE 0)
  BY <1>1, BehindStep
<1> QED
  BY <1>1, <1>2, BehindFinite

\* Fewer completions are behind a completion of h than in the whole queue.
LEMMA BehindLess ==
  ASSUME cq \in Seq(Cqes), NEW h, NEW i \in DOMAIN cq, cq[i].io = h
  PROVE  Behind(h, i) < Behind(h, 0)
<1>1. i \in 1..Len(cq) /\ Len(cq) \in Nat
  OBVIOUS
<1>2. /\ IsFiniteSet(BehindSet(h, 0)) /\ Behind(h, 0) \in Nat
      /\ Behind(h, i) \in Nat /\ Behind(h, i - 1) \in Nat
  BY <1>1, BehindFinite
<1>3. BehindSet(h, i - 1) \in SUBSET BehindSet(h, 0)
  BY <1>1 DEF BehindSet
<1>4. Cardinality(BehindSet(h, i - 1)) <= Cardinality(BehindSet(h, 0))
  BY <1>2, <1>3, FS_Subset
<1>5. Behind(h, i - 1) <= Behind(h, 0)
  BY <1>4 DEF Behind, BehindSet
<1> QED
  BY <1>2, <1>5, BehindStep

\* None of h's is in the queue.
LEMMA BehindNone ==
  ASSUME cq \in Seq(Cqes), NEW h, \A i \in DOMAIN cq : cq[i].io # h
  PROVE  Behind(h, 0) = 0
<1>1. Len(cq) \in Nat /\ DOMAIN cq = 1..Len(cq)
  OBVIOUS
<1>2. BehindSet(h, 0) = {}
  BY <1>1 DEF BehindSet
<1> QED
  BY <1>2, FS_EmptySet DEF Behind, BehindSet

\* A new completion is behind all the others.
LEMMA BehindAppend ==
  ASSUME cq \in Seq(Cqes), NEW e \in Cqes, cq' = Append(cq, e), NEW h
  PROVE  /\ \A i \in 0..Len(cq) :
              Behind(h, i)' = Behind(h, i) + (IF e.io = h THEN 1 ELSE 0)
         /\ \A i \in {Len(cq) + 1} : Behind(h, i)' = 0
<1> DEFINE n == Len(cq)
<1>1. n \in Nat /\ DOMAIN cq = 1..n
  OBVIOUS
<1>2. Len(cq') = n + 1 /\ cq'[n + 1] = e /\ \A j \in 1..n : cq'[j] = cq[j]
  OBVIOUS
<1> HIDE DEF n
<1>3. ASSUME NEW i \in 0..n
      PROVE  Behind(h, i)' = Behind(h, i) + (IF e.io = h THEN 1 ELSE 0)
  <2>1. IsFiniteSet(BehindSet(h, i)) /\ Behind(h, i) \in Nat /\ n + 1 \notin BehindSet(h, i)
    BY <1>1, BehindFinite DEF BehindSet, n
  <2>2. (i + 1)..(n + 1) = ((i + 1)..n) \cup {n + 1}
    BY <1>1
  <2>3. BehindSet(h, i)' = IF e.io = h THEN BehindSet(h, i) \cup {n + 1} ELSE BehindSet(h, i)
    <3>1. BehindSet(h, i)' = {j \in (i + 1)..(n + 1) : cq'[j].io = h}
      BY <1>2 DEF BehindSet
    <3>2. BehindSet(h, i) = {j \in (i + 1)..n : cq[j].io = h}
      BY DEF BehindSet, n
    <3>3. \A j \in (i + 1)..n : cq'[j] = cq[j]
      BY <1>1, <1>2
    <3> QED
      BY <1>2, <2>2, <3>1, <3>2, <3>3
  <2>4. Cardinality(BehindSet(h, i) \cup {n + 1}) = Cardinality(BehindSet(h, i)) + 1
    BY <2>1, FS_AddElement
  <2>5. /\ Behind(h, i) = Cardinality(BehindSet(h, i))
        /\ Behind(h, i)' = Cardinality(BehindSet(h, i)')
    BY DEF Behind, BehindSet
  <2> QED
    BY <2>1, <2>3, <2>4, <2>5
<1>4. ASSUME NEW i \in {n + 1} PROVE Behind(h, i)' = 0
  <2>1. BehindSet(h, i)' = {}
    BY <1>1, <1>2 DEF BehindSet
  <2> QED
    BY <2>1, FS_EmptySet DEF Behind, BehindSet
<1> QED
  BY <1>3, <1>4 DEF n

\* Taking the first completion moves the others up by one.
LEMMA BehindTail ==
  ASSUME cq \in Seq(Cqes), cq # <<>>, cq' = Tail(cq), NEW h, NEW i \in 0..(Len(cq) - 1)
  PROVE  Behind(h, i)' = Behind(h, i + 1)
<1> DEFINE n == Len(cq)
<1>1. n \in Nat \ {0} /\ DOMAIN cq = 1..n
  OBVIOUS
<1>2. Len(cq') = n - 1 /\ \A j \in 1..(n - 1) : cq'[j] = cq[j + 1]
  OBVIOUS
<1>3. /\ BehindSet(h, i + 1) = {j \in (i + 2)..n : cq[j].io = h}
      /\ BehindSet(h, i)' = {j \in (i + 1)..(n - 1) : cq'[j].io = h}
  BY <1>2 DEF BehindSet
<1> HIDE DEF n
<1> DEFINE S == BehindSet(h, i + 1)
           T == BehindSet(h, i)'
           f == [j \in S |-> j - 1]
<1>4. i \in Nat /\ i \in 0..(n - 1)
  BY <1>1 DEF n
<1>5. \A j \in S : j \in Int /\ j - 1 \in T
  BY <1>1, <1>2, <1>3, <1>4
<1>6. \A j \in T : j \in Int /\ j + 1 \in S /\ (j + 1) - 1 = j
  BY <1>1, <1>2, <1>3, <1>4
<1> HIDE DEF S, T
<1>7. f \in [S -> T]
  BY <1>5
<1>8. f \in Injection(S, T)
  BY <1>5, <1>7 DEF Injection, IsInjective
<1>9. f \in Surjection(S, T)
  BY <1>6, <1>7 DEF Surjection
<1>10. ExistsBijection(S, T)
  BY <1>8, <1>9 DEF ExistsBijection, Bijection
<1>11. IsFiniteSet(S)
  BY <1>4, BehindFinite DEF S
<1>12. Cardinality(T) = Cardinality(S)
  BY <1>10, <1>11, FS_Bijection
<1> QED
  BY <1>12 DEF S, T, Behind, BehindSet

\* MultishotFifo for one handle, with its buffer's contents and its overflow flag as
\* parameters.
InOrder(h, results, over) ==
  LET reaped == Len(posted[h]) - Behind(h, 0)
      read == reaped - Len(results)
  IN  /\ read >= 0
      /\ \A i \in DOMAIN cq :
           cq[i].io = h => cq[i].res = posted[h][Len(posted[h]) - Behind(h, i)]
      /\ \A i \in DOMAIN results : results[i] = posted[h][read + i]
      /\ ~over =>
           /\ Len(got[h]) = read
           /\ \A i \in 1..read : got[h][i] = reactor_value_to_result(posted[h][i])

\* The buffer of a submitted multishot.
Buffered(h) == multishot[io[h].slot].results

\* A result of it was pushed out unread.
Overflowed(h) == multishot[io[h].slot].overflow

\* MultishotFifo says that every submitted multishot's buffer is in order.
LEMMA FifoInOrder ==
  MultishotFifo <=>
    \A h \in Multishots :
      io[h].st = "Submitted" => InOrder(h, Buffered(h), Overflowed(h))
BY DEF MultishotFifo, InOrder, Buffered, Overflowed

\* What the type invariant says of a submitted multishot.
LEMMA BufferTyped ==
  ASSUME IInv, NEW h \in Multishots, io[h].st = "Submitted"
  PROVE  /\ io[h].slot \in Keys /\ multishot[io[h].slot].st = "Live"
         /\ Buffered(h) \in Seq(Values) /\ Overflowed(h) \in BOOLEAN
         /\ multishot[io[h].slot] \in
              [st : {"Live"}, results : Seq(Values), dropped : BOOLEAN,
               finished : BOOLEAN, overflow : BOOLEAN]
<1>1. io[h].slot \in Keys /\ multishot[io[h].slot].st = "Live"
  BY DEF IInv, MultishotSlots
<1>2. multishot[io[h].slot] \in MultishotResults
  BY <1>1 DEF IInv, TypeOK
<1> QED
  BY <1>1, <1>2 DEF MultishotResults, Buffered, Overflowed

\* What it says of the histories and the queue.
LEMMA HistoriesTyped ==
  ASSUME IInv, NEW h \in Multishots
  PROVE  /\ posted[h] \in Seq(Values) /\ Len(posted[h]) \in Nat
         /\ got[h] \in Seq({"Ok", "Err"} \X Int) /\ Len(got[h]) \in Nat
         /\ cq \in Seq(Cqes) /\ Behind(h, 0) \in Nat
         /\ \A i \in DOMAIN cq : Behind(h, i) \in Nat
<1>1. /\ posted[h] \in Seq(Values) /\ got[h] \in Seq({"Ok", "Err"} \X Int)
      /\ cq \in Seq(Cqes)
  BY DEF IInv, TypeOK, Handles
<1>2. Behind(h, 0) \in Nat /\ \A i \in DOMAIN cq : Behind(h, i) \in Nat
  BY <1>1, BehindFinite
<1> QED
  BY <1>1, <1>2

\* Nothing that InOrder speaks of changes.
LEMMA FifoFrame ==
  ASSUME NEW h \in Multishots, NEW results, NEW over, InOrder(h, results, over),
         cq' = cq, posted'[h] = posted[h], got'[h] = got[h]
  PROVE  InOrder(h, results, over)'
BY DEF InOrder, Behind

\* A new handle starts with nothing posted and nothing read.
LEMMA FifoSubmit ==
  ASSUME IInv, NEW h \in Multishots, io[h] = New
  PROVE  InOrder(h, <<>>, FALSE)
<1>1. posted[h] = <<>> /\ got[h] = <<>> /\ \A u \in Keys : ~Token(u, h)
  BY DEF IInv, NewHandles, Handles
<1>2. \A i \in DOMAIN cq : cq[i].io # h
  BY <1>1, CqTyped DEF IInv, Token, InCompletions
<1>3. Behind(h, 0) = 0
  BY <1>2, HistoriesTyped, BehindNone
<1> QED
  BY <1>1, <1>2, <1>3 DEF InOrder

\* Popping a result moves the oldest buffered one to those read.
LEMMA FifoReady ==
  ASSUME IInv, NEW h \in Multishots, NEW results \in Seq(Values), results # <<>>,
         NEW over \in BOOLEAN, InOrder(h, results, over), UNCHANGED <<cq, posted>>,
         got'[h] = Append(got[h], reactor_value_to_result(Head(results)))
  PROVE  InOrder(h, Tail(results), over)'
<1> DEFINE m == Len(posted[h])
           b == Behind(h, 0)
           q == results
           r == m - b - Len(q)
<1>1. m \in Nat /\ b \in Nat /\ got[h] \in Seq({"Ok", "Err"} \X Int) /\ Len(got[h]) \in Nat
  BY HistoriesTyped
<1>2. Len(q) \in Nat \ {0} /\ Head(q) = q[1] /\ Len(Tail(q)) = Len(q) - 1
  OBVIOUS
<1>3. DOMAIN Tail(q) = 1..(Len(q) - 1) /\ \A i \in 1..(Len(q) - 1) : Tail(q)[i] = q[i + 1]
  OBVIOUS
<1>4. DOMAIN q = 1..Len(q)
  OBVIOUS
<1>5. /\ r >= 0
      /\ \A i \in DOMAIN cq : cq[i].io = h => cq[i].res = posted[h][m - Behind(h, i)]
      /\ \A i \in DOMAIN q : q[i] = posted[h][r + i]
      /\ ~over => /\ Len(got[h]) = r
                  /\ \A i \in 1..r : got[h][i] = reactor_value_to_result(posted[h][i])
  BY DEF InOrder
<1>6. Len(posted'[h]) = m /\ Behind(h, 0)' = b /\ posted'[h] = posted[h]
      /\ \A i \in DOMAIN cq : Behind(h, i)' = Behind(h, i)
  BY DEF Behind
<1> DEFINE s == Tail(q)
           w == reactor_value_to_result(Head(q))
<1>7. Len(got'[h]) = Len(got[h]) + 1 /\ got'[h][Len(got[h]) + 1] = w
      /\ \A i \in 1..Len(got[h]) : got'[h][i] = got[h][i]
  <2>1. w \in {"Ok", "Err"} \X Int
    <3>1. Head(q) \in Values
      BY <1>2, <1>4
    <3> QED
      BY <3>1, ResultTyped
  <2> HIDE DEF w
  <2>2. got'[h] = Append(got[h], w)
    BY DEF w
  <2> QED
    BY <1>1, <2>1, <2>2
<1>8. Head(q) = posted[h][r + 1] /\ w = reactor_value_to_result(posted[h][r + 1])
  BY <1>2, <1>4, <1>5
<1> HIDE DEF w, s
<1>9. Len(s) = Len(q) - 1 /\ DOMAIN s = 1..(Len(q) - 1) /\ \A i \in DOMAIN s : s[i] = q[i + 1]
  BY <1>2, <1>3 DEF s
<1> HIDE DEF m, b, q
<1>10. m - b - Len(s) = r + 1 /\ r \in Nat
  BY <1>1, <1>2, <1>5, <1>9
<1>11. \A i \in DOMAIN s : s[i] = posted[h][(r + 1) + i]
  <2> SUFFICES ASSUME NEW i \in 1..(Len(q) - 1) PROVE s[i] = posted[h][(r + 1) + i]
    BY <1>9
  <2>1. i + 1 \in DOMAIN q /\ r + (i + 1) = (r + 1) + i
    BY <1>2, <1>4, <1>10
  <2> QED
    BY <1>5, <1>9, <2>1
<1>12. ~over =>
         /\ Len(got'[h]) = r + 1
         /\ \A i \in 1..(r + 1) : got'[h][i] = reactor_value_to_result(posted[h][i])
  <2> SUFFICES ASSUME ~over
               PROVE  /\ Len(got'[h]) = r + 1
                      /\ \A i \in 1..(r + 1) : got'[h][i] = reactor_value_to_result(posted[h][i])
    OBVIOUS
  <2>1. Len(got[h]) = r /\ 1..(r + 1) = 1..r \cup {r + 1}
    BY <1>5, <1>10
  <2> QED
    BY <1>5, <1>7, <1>8, <2>1
<1>13. InOrder(h, s, over)'
  BY <1>5, <1>6, <1>10, <1>11, <1>12 DEF InOrder, m
<1> QED
  BY <1>13 DEF s, q

\* A completion posted for another handle.
LEMMA FifoPostOther ==
  ASSUME IInv, NEW h \in Multishots, NEW results \in Seq(Values),
         NEW over \in BOOLEAN, InOrder(h, results, over),
         NEW e \in Cqes, e.io # h, cq' = Append(cq, e),
         posted'[h] = posted[h], got'[h] = got[h]
  PROVE  InOrder(h, results, over)'
<1>1. cq \in Seq(Cqes) /\ Behind(h, 0) \in Nat /\ \A i \in DOMAIN cq : Behind(h, i) \in Nat
  BY HistoriesTyped
<1>2. /\ DOMAIN cq' = 1..(Len(cq) + 1) /\ cq'[Len(cq) + 1] = e
      /\ DOMAIN cq = 1..Len(cq) /\ Len(cq) \in Nat
      /\ \A i \in 1..Len(cq) : cq'[i] = cq[i]
  BY <1>1
<1>3. \A i \in 0..Len(cq) : Behind(h, i)' = Behind(h, i) + (IF e.io = h THEN 1 ELSE 0)
  BY <1>1, BehindAppend
<1>4. Behind(h, 0)' = Behind(h, 0) /\ \A i \in DOMAIN cq : Behind(h, i)' = Behind(h, i)
  BY <1>1, <1>2, <1>3
<1>5. \A i \in DOMAIN cq' : cq'[i].io = h => i \in DOMAIN cq /\ cq'[i] = cq[i]
  BY <1>2
<1>6. \A i \in DOMAIN cq' :
        cq'[i].io = h => cq'[i].res = posted'[h][Len(posted'[h]) - Behind(h, i)']
  BY <1>4, <1>5 DEF InOrder
<1> QED
  BY <1>4, <1>6 DEF InOrder

\* A completion posted for the handle itself: every other one of its is now one
\* further from the end, in the queue and in the history.
LEMMA FifoPostOwn ==
  ASSUME IInv, NEW h \in Multishots, NEW results \in Seq(Values),
         NEW over \in BOOLEAN, InOrder(h, results, over),
         NEW e \in Cqes, e.io = h, cq' = Append(cq, e),
         posted'[h] = Append(posted[h], e.res), got'[h] = got[h]
  PROVE  InOrder(h, results, over)'
<1> DEFINE n == Len(cq)
           m == Len(posted[h])
           b == Behind(h, 0)
           r == m - b - Len(results)
<1>1. /\ cq \in Seq(Cqes) /\ b \in Nat /\ \A i \in DOMAIN cq : Behind(h, i) \in Nat
      /\ posted[h] \in Seq(Values) /\ m \in Nat
  BY HistoriesTyped
<1>2. /\ DOMAIN cq' = 1..(n + 1) /\ cq'[n + 1] = e
      /\ DOMAIN cq = 1..n /\ n \in Nat
      /\ \A i \in 1..n : cq'[i] = cq[i]
  BY <1>1
<1>3. \A i \in 0..n : Behind(h, i)' = Behind(h, i) + (IF e.io = h THEN 1 ELSE 0)
  BY <1>1, BehindAppend
<1>4. Behind(h, 0)' = b + 1 /\ \A i \in DOMAIN cq : Behind(h, i)' = Behind(h, i) + 1
  BY <1>1, <1>2, <1>3
<1>5. \A i \in {n + 1} : Behind(h, i)' = 0
  BY <1>1, BehindAppend
<1>6. e.res \in Values
  BY DEF Cqes
<1>7. /\ Len(posted'[h]) = m + 1 /\ posted'[h][m + 1] = e.res
      /\ \A i \in 1..m : posted'[h][i] = posted[h][i]
  BY <1>1, <1>6
<1>8. /\ r >= 0
      /\ \A i \in DOMAIN cq : cq[i].io = h => cq[i].res = posted[h][m - Behind(h, i)]
      /\ \A i \in DOMAIN results : results[i] = posted[h][r + i]
      /\ ~over => /\ Len(got[h]) = r
                  /\ \A i \in 1..r : got[h][i] = reactor_value_to_result(posted[h][i])
  BY DEF InOrder
<1>9. Len(results) \in Nat /\ DOMAIN results = 1..Len(results)
  OBVIOUS
<1>10. \A i \in DOMAIN cq : cq[i].io = h => Behind(h, i) < b
  BY <1>1, BehindLess
<1>11. RingCap \in Nat
  BY BoundsAssumption
<1> HIDE DEF n, m, b
<1>12. (m + 1) - (b + 1) - Len(results) = r /\ r \in Nat /\ r + Len(results) + b = m
  BY <1>1, <1>8, <1>9
<1>13. \A i \in DOMAIN cq' :
         cq'[i].io = h => cq'[i].res = posted'[h][(m + 1) - Behind(h, i)']
  <2> SUFFICES ASSUME NEW i \in DOMAIN cq', cq'[i].io = h
               PROVE  cq'[i].res = posted'[h][(m + 1) - Behind(h, i)']
    OBVIOUS
  <2>1. CASE i = n + 1
    <3>1. Behind(h, i)' = 0 /\ (m + 1) - 0 = m + 1
      BY <1>1, <1>5, <2>1
    <3> QED
      BY <1>2, <1>7, <2>1, <3>1
  <2>2. CASE i \in 1..n
    <3>1. i \in DOMAIN cq /\ cq'[i] = cq[i] /\ Behind(h, i) \in Nat /\ Behind(h, i) < b
      BY <1>1, <1>2, <1>10, <2>2
    <3>2. Behind(h, i)' = Behind(h, i) + 1
      BY <1>4, <3>1
    <3>3. (m + 1) - (Behind(h, i) + 1) = m - Behind(h, i) /\ m - Behind(h, i) \in 1..m
      BY <1>1, <1>9, <1>12, <3>1
    <3> QED
      BY <1>7, <1>8, <3>1, <3>2, <3>3
  <2>3. i \in 1..n \/ i = n + 1
    BY <1>2
  <2> QED
    BY <2>1, <2>2, <2>3
<1>14. \A i \in DOMAIN results : results[i] = posted'[h][r + i]
  <2> SUFFICES ASSUME NEW i \in 1..Len(results) PROVE results[i] = posted'[h][r + i]
    BY <1>9
  <2>1. r + i \in 1..m
    BY <1>1, <1>9, <1>12
  <2> QED
    BY <1>7, <1>8, <1>9, <2>1
<1>15. ~over =>
         /\ Len(got[h]) = r
         /\ \A i \in 1..r : got[h][i] = reactor_value_to_result(posted'[h][i])
  <2>1. \A i \in 1..r : i \in 1..m
    BY <1>1, <1>9, <1>11, <1>12
  <2> QED
    BY <1>7, <1>8, <2>1
<1>16. Len(posted'[h]) - Behind(h, 0)' - Len(results) = r
  BY <1>4, <1>7, <1>12
<1>17. r >= 0
  BY <1>12
<1> HIDE DEF r
<1> QED
  BY <1>7, <1>13, <1>14, <1>15, <1>16, <1>17, ZenonT(60) DEF InOrder

\* A completion of another handle is taken from the queue.
LEMMA FifoReapOther ==
  ASSUME IInv, NEW h \in Multishots, NEW results \in Seq(Values),
         NEW over \in BOOLEAN, InOrder(h, results, over),
         cq # <<>>, cq[1].io # h, cq' = Tail(cq), posted'[h] = posted[h], got'[h] = got[h]
  PROVE  InOrder(h, results, over)'
<1> DEFINE n == Len(cq)
<1>1. cq \in Seq(Cqes) /\ Behind(h, 0) \in Nat /\ \A i \in DOMAIN cq : Behind(h, i) \in Nat
  BY HistoriesTyped
<1>2. /\ n \in Nat \ {0} /\ DOMAIN cq = 1..n /\ DOMAIN cq' = 1..(n - 1)
      /\ \A i \in 1..(n - 1) : cq'[i] = cq[i + 1]
  BY <1>1
<1>3. \A i \in 0..(n - 1) : Behind(h, i)' = Behind(h, i + 1)
  BY <1>1, BehindTail
<1>4. Behind(h, 0) = Behind(h, 1) /\ Behind(h, 1) \in Nat
  BY <1>1, BehindFirst
<1>5. Behind(h, 0)' = Behind(h, 0)
  BY <1>2, <1>3, <1>4
<1>6. \A i \in DOMAIN cq' :
        i + 1 \in DOMAIN cq /\ cq'[i] = cq[i + 1] /\ Behind(h, i)' = Behind(h, i + 1)
  BY <1>2, <1>3
<1>7. \A i \in DOMAIN cq' :
        cq'[i].io = h => cq'[i].res = posted'[h][Len(posted'[h]) - Behind(h, i)']
  BY <1>6 DEF InOrder
<1> QED
  BY <1>5, <1>7 DEF InOrder

\* The handle's own completion is taken from the queue and pushed to the buffer.  A
\* full one loses its oldest result, and is marked.
LEMMA FifoReapOwn ==
  ASSUME IInv, NEW h \in Multishots, NEW results \in Seq(Values),
         NEW over \in BOOLEAN, InOrder(h, results, over),
         cq # <<>>, cq[1].io = h, cq' = Tail(cq), posted'[h] = posted[h], got'[h] = got[h],
         NEW q, q = RingPush(results, cq[1].res),
         NEW up, up = (over \/ Len(results) >= RingCap)
  PROVE  InOrder(h, q, up)'
<1> DEFINE n == Len(cq)
           m == Len(posted[h])
           b == Behind(h, 0)
           r == m - b - Len(results)
           v == cq[1].res
           c == IF Len(results) < RingCap THEN 0 ELSE 1
<1>1. /\ cq \in Seq(Cqes) /\ b \in Nat /\ \A i \in DOMAIN cq : Behind(h, i) \in Nat
      /\ posted[h] \in Seq(Values) /\ m \in Nat
  BY HistoriesTyped
<1>2. /\ n \in Nat \ {0} /\ DOMAIN cq = 1..n /\ DOMAIN cq' = 1..(n - 1)
      /\ \A i \in 1..(n - 1) : cq'[i] = cq[i + 1]
  BY <1>1
<1>3. \A i \in 0..(n - 1) : Behind(h, i)' = Behind(h, i + 1)
  BY <1>1, BehindTail
<1>4. b = Behind(h, 1) + 1 /\ Behind(h, 1) \in Nat
  BY <1>1, BehindFirst
<1>5. Behind(h, 1) = b - 1 /\ Behind(h, 0)' = b - 1
  <2>1. 0 \in 0..(n - 1) /\ 0 + 1 = 1
    BY <1>2
  <2>2. Behind(h, 0)' = Behind(h, 1)
    BY <1>3, <2>1
  <2> QED
    BY <1>4, <2>2
<1>6. \A i \in DOMAIN cq' :
        i + 1 \in DOMAIN cq /\ cq'[i] = cq[i + 1] /\ Behind(h, i)' = Behind(h, i + 1)
  BY <1>2, <1>3
<1>7. /\ r >= 0
      /\ \A i \in DOMAIN cq : cq[i].io = h => cq[i].res = posted[h][m - Behind(h, i)]
      /\ \A i \in DOMAIN results : results[i] = posted[h][r + i]
      /\ ~over => /\ Len(got[h]) = r
                  /\ \A i \in 1..r : got[h][i] = reactor_value_to_result(posted[h][i])
  BY DEF InOrder
<1>8. v \in Values /\ v = posted[h][m - (b - 1)]
  <2>1. 1 \in DOMAIN cq /\ cq[1] \in Cqes
    BY <1>1, <1>2
  <2> QED
    BY <1>5, <1>7, <2>1 DEF Cqes
<1>9. Len(results) \in Nat /\ DOMAIN results = 1..Len(results) /\ RingCap \in Nat \ {0}
  BY BoundsAssumption
<1> DEFINE kept == IF Len(results) < RingCap THEN results ELSE Tail(results)
<1>10. /\ kept \in Seq(Values) /\ Len(kept) = Len(results) - c
       /\ \A i \in 1..Len(kept) : kept[i] = results[i + c]
  <2>1. CASE Len(results) < RingCap
    BY <1>9, <2>1
  <2>2. CASE ~(Len(results) < RingCap)
    <3>1. results # <<>>
      BY <1>9, <2>2
    <3>2. /\ Tail(results) \in Seq(Values) /\ Len(Tail(results)) = Len(results) - 1
          /\ \A i \in 1..Len(Tail(results)) : Tail(results)[i] = results[i + 1]
      BY <3>1
    <3> QED
      BY <2>2, <3>2
  <2> QED
    BY <2>1, <2>2
<1> HIDE DEF kept, v
<1>11. q = Append(kept, v)
  BY DEF RingPush, kept, v
<1> HIDE DEF n, m, b
<1>12. /\ Len(q) = Len(kept) + 1 /\ DOMAIN q = 1..(Len(kept) + 1) /\ q[Len(kept) + 1] = v
       /\ \A i \in 1..Len(kept) : q[i] = kept[i]
  BY <1>8, <1>10, <1>11
<1>14. ~up => c = 0 /\ ~over
  <2>1. ~up => ~over /\ ~(Len(results) >= RingCap)
    BY Zenon
  <2>2. ~(Len(results) >= RingCap) => c = 0
    BY <1>9
  <2> QED
    BY <2>1, <2>2, Zenon
<1>0. c \in {0, 1} /\ r \in Nat /\ Len(kept) \in Nat
  <2>1. c \in {0, 1}
    BY <1>9
  <2>2. r \in Nat
    BY <1>1, <1>7, <1>9
  <2>3. Len(kept) \in Nat
    BY <1>10
  <2> QED
    BY <2>1, <2>2, <2>3
<1> HIDE DEF c
<1>13. /\ m - (b - 1) - Len(q) = r + c
       /\ r + c + Len(kept) + 1 = m - (b - 1)
  BY <1>0, <1>1, <1>9, <1>10, <1>12
<1> HIDE DEF r
<1>15. \A i \in DOMAIN cq' : cq'[i].io = h => cq'[i].res = posted[h][m - Behind(h, i)']
  BY <1>6, <1>7
<1>16. \A i \in DOMAIN q : q[i] = posted[h][(r + c) + i]
  <2>1. ASSUME NEW i \in 1..Len(kept) PROVE q[i] = posted[h][(r + c) + i]
    <3>1. q[i] = results[i + c]
      BY <1>10, <1>12
    <3>2. c \in Nat /\ i \in 1..(Len(results) - c) /\ Len(results) \in Nat
      BY <1>0, <1>9, <1>10
    <3>3. i + c \in 1..Len(results) /\ r + (i + c) = (r + c) + i
      BY <1>0, <3>2
    <3> QED
      BY <1>7, <1>9, <3>1, <3>3
  <2>2. q[Len(kept) + 1] = posted[h][(r + c) + (Len(kept) + 1)]
    <3>1. (r + c) + (Len(kept) + 1) = m - (b - 1)
      BY <1>0, <1>13
    <3> QED
      BY <1>8, <1>12, <3>1
  <2>3. \A i \in DOMAIN q : i \in 1..Len(kept) \/ i = Len(kept) + 1
    BY <1>0, <1>12
  <2> QED
    BY <2>1, <2>2, <2>3
<1>17. ~up =>
         /\ Len(got[h]) = r + c
         /\ \A i \in 1..(r + c) : got[h][i] = reactor_value_to_result(posted[h][i])
  <2>1. ~up => r + c = r /\ ~over
    BY <1>0, <1>14
  <2> QED
    BY <1>7, <2>1
<1>18. r + c >= 0
  BY <1>0
<1>19. Len(posted'[h]) = m /\ m - Behind(h, 0)' - Len(q) = r + c
  BY <1>5, <1>13 DEF m
<1> QED
  BY <1>15, <1>16, <1>17, <1>18, <1>19 DEF InOrder, m

\* What a step that posts a completion changes besides the queues.
LEMMA PostFrame ==
  ASSUME IInv,
         \/ \E h \in Multishots : MultiDrop(h)
         \/ \E op \in kernel, v \in Results : KernelFinish(op, v) \/ KernelShot(op, v)
  PROVE  \E e \in Cqes : /\ cq' = Append(cq, e) /\ got' = got
                         /\ posted' = [posted EXCEPT ![e.io] = Append(@, e.res)]
<1>1. ASSUME NEW op \in kernel, NEW v \in Values, NEW more \in BOOLEAN
      PROVE  Cqe(op, v, more) \in Cqes /\ Cqe(op, v, more).io = op.io /\ Cqe(op, v, more).res = v
  BY DEF IInv, TypeOK, Ops, Cqes, Cqe
<1>2. ASSUME NEW op \in kernel, NEW v \in Values, Finish(op, v), got' = got
      PROVE  \E e \in Cqes : /\ cq' = Append(cq, e) /\ got' = got
                             /\ posted' = [posted EXCEPT ![e.io] = Append(@, e.res)]
  <2>1. FALSE \in BOOLEAN
    OBVIOUS
  <2> QED
    BY <1>1, <1>2, <2>1 DEF Finish
<1>3. ASSUME NEW h \in Multishots, MultiDrop(h)
      PROVE  \E op \in kernel : Finish(op, ECANCELED) /\ got' = got
  BY <1>3 DEF MultiDrop, Cancellable
<1>4. ASSUME NEW op \in kernel, NEW v \in Results, KernelFinish(op, v)
      PROVE  Finish(op, v) /\ got' = got
  BY <1>4 DEF KernelFinish
<1>5. ASSUME NEW op \in kernel, NEW v \in Results, KernelShot(op, v)
      PROVE  \E e \in Cqes : /\ cq' = Append(cq, e) /\ got' = got
                             /\ posted' = [posted EXCEPT ![e.io] = Append(@, e.res)]
  <2>1. TRUE \in BOOLEAN /\ v \in Values
    BY DEF Values
  <2>2. PICK e \in Cqes : e = Cqe(op, v, TRUE) /\ e.io = op.io /\ e.res = v
    BY <1>1, <2>1
  <2> QED
    BY <1>5, <2>2 DEF KernelShot
<1>6. Results \subseteq Values /\ ECANCELED \in Values
  BY DEF Values
<1> QED
  BY <1>2, <1>3, <1>4, <1>5, <1>6

\* A completion is posted: the buffers of the handles that stay are untouched.
LEMMA PostFifo ==
  ASSUME IInv, MultishotFifo, NEW h \in Multishots, io[h].st = "Submitted",
         io'[h] = io[h], Buffered(h)' = Buffered(h), Overflowed(h)' = Overflowed(h),
         \/ \E g \in Multishots : MultiDrop(g)
         \/ \E op \in kernel, v \in Results : KernelFinish(op, v) \/ KernelShot(op, v)
  PROVE  InOrder(h, Buffered(h), Overflowed(h))'
<1>1. PICK q, over : q = Buffered(h) /\ over = Overflowed(h)
  OBVIOUS
<1>2. q \in Seq(Values) /\ over \in BOOLEAN /\ InOrder(h, q, over)
  BY <1>1, BufferTyped, FifoInOrder
<1>3. PICK e \in Cqes : /\ cq' = Append(cq, e) /\ got' = got
                        /\ posted' = [posted EXCEPT ![e.io] = Append(@, e.res)]
  BY PostFrame
<1>4. posted'[h] = IF e.io = h THEN Append(posted[h], e.res) ELSE posted[h]
  BY <1>3 DEF IInv, TypeOK, Handles
<1>5. InOrder(h, q, over)'
  BY <1>2, <1>3, <1>4, FifoPostOwn, FifoPostOther
<1> QED
  BY <1>1, <1>5 DEF InOrder

\* A completion is reaped.
LEMMA ReapFifo ==
  ASSUME IInv, MultishotFifo, NEW h \in Multishots, io[h].st = "Submitted",
         NextOneshot \/ NextMulti
  PROVE  InOrder(h, Buffered(h), Overflowed(h))'
<1> USE HandlesAssumption
<1>1. PICK q, over : q = Buffered(h) /\ over = Overflowed(h)
  OBVIOUS
<1>2. q \in Seq(Values) /\ over \in BOOLEAN /\ InOrder(h, q, over)
  BY <1>1, BufferTyped, FifoInOrder
<1>3. /\ cq # <<>> /\ cq' = Tail(cq) /\ Entry = cq[1] /\ io' = io
      /\ posted'[h] = posted[h] /\ got'[h] = got[h]
  BY EntryFacts, CqTail DEF NextOneshot, NextMulti, Entry
<1>4. CASE Entry.io # h
  <2>1. Slot(h)' = Slot(h)
    BY <1>4, ReapedSlots DEF Handles
  <2>2. Buffered(h)' = Buffered(h) /\ Overflowed(h)' = Overflowed(h)
    BY <1>3, <2>1 DEF Slot, Buffered, Overflowed
  <2>3. InOrder(h, q, over)'
    BY <1>2, <1>3, <1>4, FifoReapOther
  <2> QED
    BY <1>1, <2>2, <2>3 DEF InOrder
<1>5. CASE Entry.io = h
  <2>1. NextMulti /\ Entry.ud \in Keys /\ Token(Entry.ud, h) /\ EntryIo.slot = pending[Entry.ud].slot
    BY <1>5, EntryFacts DEF NextOneshot, NextMulti, EntryIo
  <2>2. io[h].slot = EntryIo.slot /\ ~multishot[io[h].slot].dropped
    BY <2>1 DEF IInv, MultishotTokens, Gone
  <2>3. PICK p, up : p = RingPush(q, cq[1].res) /\ up = (over \/ Len(q) >= RingCap)
    OBVIOUS
  <2>4. InOrder(h, p, up)'
    BY <1>2, <1>3, <1>5, <2>3, FifoReapOwn
  <2> DEFINE slot == io[h].slot
             store == push_result(multishot, Entry.res, slot)
  <2>5. slot \in Keys /\ multishot \in [Keys -> MultishotResults]
        /\ multishot[slot] \in
             [st : {"Live"}, results : Seq(Values), dropped : BOOLEAN,
               finished : BOOLEAN, overflow : BOOLEAN]
    BY BufferTyped DEF IInv, TypeOK
  <2>6. /\ store[slot].results = p /\ store[slot].overflow = up
        /\ ~store[slot].dropped /\ DOMAIN store = Keys
    BY <1>1, <1>3, <2>2, <2>3, <2>5 DEF push_result, Buffered, Overflowed
  <2>7. /\ multishot' = IF Entry.more THEN store ELSE set_finished(store, slot)
    BY <2>1, <2>2 DEF NextMulti
  <2>8. multishot'[slot].results = p /\ multishot'[slot].overflow = up
    <3>1. set_finished(store, slot) = [store EXCEPT ![slot].finished = TRUE]
      BY <2>6 DEF set_finished
    <3>2. /\ [store EXCEPT ![slot].finished = TRUE][slot].results = store[slot].results
          /\ [store EXCEPT ![slot].finished = TRUE][slot].overflow = store[slot].overflow
      BY <2>5 DEF push_result
    <3> QED
      BY <2>6, <2>7, <3>1, <3>2
  <2>9. Buffered(h)' = p /\ Overflowed(h)' = up
    BY <1>3, <2>8 DEF Buffered, Overflowed
  <2> QED
    BY <2>4, <2>9 DEF InOrder
<1> QED
  BY <1>4, <1>5

\* A step that leaves the queue, the histories of h and its buffer alone.
LEMMA QuietFifo ==
  ASSUME IInv, MultishotFifo, NEW h \in Multishots, io[h].st = "Submitted",
         Buffered(h)' = Buffered(h), Overflowed(h)' = Overflowed(h),
         cq' = cq, posted'[h] = posted[h], got'[h] = got[h]
  PROVE  InOrder(h, Buffered(h), Overflowed(h))'
<1>1. PICK q, over : q = Buffered(h) /\ over = Overflowed(h)
  OBVIOUS
<1>2. InOrder(h, q, over)
  BY <1>1, FifoInOrder
<1>3. InOrder(h, q, over)'
  BY <1>2, FifoFrame
<1> QED
  BY <1>1, <1>3 DEF InOrder

\* A call on a multishot handle keeps its own results in order.
LEMMA OwnCallFifo ==
  ASSUME IInv, MultishotFifo, NEW h \in Multishots, MultiCall(h), io'[h].st = "Submitted"
  PROVE  InOrder(h, Buffered(h), Overflowed(h))'
<1>1. h \in Handles
  BY DEF Handles
<1>2. ASSUME NEW w \in Wakers, MultiSubmit(h, w) PROVE InOrder(h, Buffered(h), Overflowed(h))'
  <2>1. PICK slot \in Keys, ud \in Keys :
          /\ multishot' = [multishot EXCEPT ![slot] = NewShots]
          /\ io' = [io EXCEPT ![h] = SubmittedMulti(slot, ud)]
    BY <1>2 DEF MultiSubmit, VacantKeys
  <2>2. Buffered(h)' = <<>> /\ Overflowed(h)' = FALSE
    BY <1>1, <2>1 DEF Buffered, Overflowed, IInv, TypeOK, SubmittedMulti, NewShots
  <2>3. InOrder(h, <<>>, FALSE) /\ cq' = cq /\ posted' = posted /\ got' = got
    BY <1>2, FifoSubmit DEF MultiSubmit
  <2>4. InOrder(h, <<>>, FALSE)'
    BY <2>3, FifoFrame
  <2> QED
    BY <2>2, <2>4 DEF InOrder
<1>3. CASE MultiReady(h)
  <2>1. PICK q, over : q = Buffered(h) /\ over = Overflowed(h)
    OBVIOUS
  <2>2. io[h].st = "Submitted" /\ io' = io /\ UNCHANGED <<cq, posted>>
    BY <1>3 DEF MultiReady
  <2>3. /\ q \in Seq(Values) /\ over \in BOOLEAN /\ InOrder(h, q, over) /\ io[h].slot \in Keys
        /\ multishot[io[h].slot] \in
             [st : {"Live"}, results : Seq(Values), dropped : BOOLEAN,
               finished : BOOLEAN, overflow : BOOLEAN]
    BY <2>1, <2>2, BufferTyped, FifoInOrder
  <2>4. /\ q # <<>>
        /\ multishot' = [multishot EXCEPT ![io[h].slot].results = Tail(q)]
        /\ got' = [got EXCEPT ![h] = Append(@, reactor_value_to_result(Head(q)))]
    BY <1>3, <2>1 DEF MultiReady, Buffered
  <2>5. got'[h] = Append(got[h], reactor_value_to_result(Head(q)))
    BY <1>1, <2>4 DEF IInv, TypeOK
  <2>6. InOrder(h, Tail(q), over)'
    BY <2>2, <2>3, <2>4, <2>5, FifoReady
  <2>7. Buffered(h)' = Tail(q) /\ Overflowed(h)' = over
    BY <2>1, <2>2, <2>3, <2>4 DEF Buffered, Overflowed, IInv, TypeOK
  <2> QED
    BY <2>6, <2>7 DEF InOrder
<1>4. CASE MultiDrop(h)
  <2>1. io'[h] = Gone
    BY <1>1, <1>4 DEF MultiDrop, IInv, TypeOK
  <2> QED
    BY <2>1 DEF Gone
<1> QED
  BY <1>2, <1>3, <1>4 DEF MultiCall

\* A call on a handle keeps the results of every other in order.
LEMMA OtherCallFifo ==
  ASSUME IInv, MultishotFifo, NEW h \in Multishots, NEW g \in Handles, g # h,
         io'[h].st = "Submitted",
         \/ g \in Oneshots /\ OneshotCall(g)
         \/ g \in Multishots /\ MultiCall(g)
  PROVE  InOrder(h, Buffered(h), Overflowed(h))'
<1> USE HandlesAssumption
<1>1. h \in Handles /\ h \notin Oneshots
  BY DEF Handles
<1>2. io'[h] = io[h]
  BY <1>1 DEF OneshotCall, MultiCall, OneshotSubmit, OneshotReady, OneshotDrop, MultiSubmit,
              MultiReady, MultiDrop, IInv, TypeOK
<1>3. Slot(h)' = Slot(h)
  BY <1>1, <1>2, OneshotCallSlots, MultiCallSlots
<1>4. Buffered(h)' = Buffered(h) /\ Overflowed(h)' = Overflowed(h)
  BY <1>1, <1>2, <1>3 DEF Slot, Buffered, Overflowed
<1>5. CASE g \in Multishots /\ MultiDrop(g)
  BY <1>2, <1>4, <1>5, PostFifo
<1>6. CASE ~(g \in Multishots /\ MultiDrop(g))
  <2>1. cq' = cq /\ posted' = posted /\ got'[h] = got[h]
    BY <1>1, <1>6 DEF OneshotCall, MultiCall, OneshotSubmit, OneshotReady, OneshotDrop,
                      MultiSubmit, MultiReady, IInv, TypeOK
  <2> QED
    BY <1>2, <1>4, <2>1, QuietFifo
<1> QED
  BY <1>5, <1>6

\* Every step keeps the results of every multishot in order.
LEMMA StepFifo == ASSUME IInv, MultishotFifo, [Next]_uring_vars PROVE MultishotFifo'
<1> SUFFICES ASSUME NEW h \in Multishots, io'[h].st = "Submitted"
             PROVE  InOrder(h, Buffered(h), Overflowed(h))'
  <2>1. \A h \in Multishots : io'[h].st = "Submitted" => InOrder(h, Buffered(h), Overflowed(h))'
    OBVIOUS
  <2> QED
    BY <2>1 DEF MultishotFifo, InOrder, Buffered, Overflowed
<1>1. ASSUME NEW g \in Oneshots, OneshotCall(g) PROVE InOrder(h, Buffered(h), Overflowed(h))'
  <2>1. g \in Handles /\ g # h
    BY HandlesAssumption DEF Handles
  <2> QED
    BY <1>1, <2>1, OtherCallFifo
<1>2. ASSUME NEW g \in Multishots, MultiCall(g) PROVE InOrder(h, Buffered(h), Overflowed(h))'
  BY <1>2, OwnCallFifo, OtherCallFifo DEF Handles
<1>3. CASE UNCHANGED <<io, multishot, cq, posted, got>>
  BY <1>3, QuietFifo DEF Buffered, Overflowed
<1>4. ASSUME NEW g \in Handles, DropQuiet(g) PROVE InOrder(h, Buffered(h), Overflowed(h))'
  <2>1. io'[h] = io[h]
    BY <1>4 DEF DropQuiet, IInv, TypeOK, Handles, Gone
  <2> QED
    BY <1>4, <2>1, QuietFifo DEF DropQuiet, Buffered, Overflowed
<1>5. CASE NextOneshot \/ NextMulti
  <2>1. io' = io
    BY <1>5 DEF NextOneshot, NextMulti
  <2> QED
    BY <1>5, <2>1, ReapFifo
<1>6. CASE \E op \in kernel, v \in Results : KernelFinish(op, v) \/ KernelShot(op, v)
  <2>1. io' = io /\ multishot' = multishot
    BY <1>6 DEF KernelFinish, KernelShot
  <2> QED
    BY <1>6, <2>1, PostFifo DEF Buffered, Overflowed
<1>7. \/ UNCHANGED <<io, multishot, cq, posted, got>>
      \/ \E g \in Oneshots : OneshotCall(g)
      \/ \E g \in Multishots : MultiCall(g)
      \/ \E g \in Handles : DropQuiet(g)
      \/ NextOneshot \/ NextMulti
      \/ \E op \in kernel, v \in Results : KernelFinish(op, v) \/ KernelShot(op, v)
  BY DEF Next, OneshotCall, MultiCall, MultiDropPanics, SubmitPanics, SubmitAndWait,
         Completion, Interrupted, Panicked, uring_vars
<1> QED
  BY <1>1, <1>2, <1>3, <1>4, <1>5, <1>6, <1>7

\* A multishot handle sees its own completions in the order the kernel posted them,
\* whatever other handles share the queue, and loses only the oldest of a full
\* buffer (result.rs:86, uring.rs:130-136).
THEOREM ShotsAlwaysInOrder == Spec => []MultishotFifo
<1>1. Init => MultishotFifo
  <2>1. Init => \A h \in Multishots : io[h].st # "Submitted"
    BY DEF Init, New, Handles
  <2> QED
    BY <2>1 DEF MultishotFifo
<1>2. IInv /\ MultishotFifo /\ [Next]_uring_vars => MultishotFifo'
  BY StepFifo
<1> QED
  BY <1>1, <1>2, Invariance, PTL DEF Spec
=============================================================================
