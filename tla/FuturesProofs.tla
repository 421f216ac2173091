--------------------------- MODULE FuturesProofs ----------------------------
(***************************************************************************)
(* Proofs about timers, files, TCP and UDP, for any futures, addresses,    *)
(* lengths and times: a sleep lasts its duration; offsets and descriptors  *)
(* are accounted for (from FileProofs); bind() and connect() return the    *)
(* first address that works or the last error, and a listener hands over   *)
(* every accepted connection in order; datagrams are returned in order     *)
(* with their senders, and replies reach them.  The variables are those of *)
(* MCFutures, where the four components have names of their own.           *)
(***************************************************************************)
EXTENDS MCFutures, TLAPS

\* The proofs about files.
FP == INSTANCE FileProofs WITH fut <- f_fut, op <- f_op, ans <- f_ans, out <- f_out

-----------------------------------------------------------------------------
(***************************************************************************)
(* Timer.                                                                  *)
(***************************************************************************)
\* A read of the timerfd gives a count of 8 bytes or an error.
TimerAnswers == {8, EBADF}

\* TypeOK with the answers and the results typed in full.
TimerTyped ==
  /\ fut \in [Timers -> {"New", "Submitted", "Finished", "Gone"}]
  /\ op \in [Timers -> {"none", "queued", "kernel", "done"}]
  /\ ans \in [Timers -> {<<>>} \cup {<<v>> : v \in TimerAnswers}]
  /\ out \in [Timers -> {<<>>} \cup {<<Io!ToResult(v)>> : v \in TimerAnswers}]
  /\ mono \in 0..MaxTime /\ skew \in Int /\ steps \in 0..MaxSteps
  /\ timer \in [Timers -> {"none", "new", "arming", "waiting", "ready", "gone"}]
  /\ expiration \in [Timers -> Int]
  /\ fd \in [Timers -> TimerFds \cup {-1}]
  /\ fire \in [Timers -> Nat \cup {Never, Spent}]
  /\ target \in [Timers -> SUBSET Timers]
  /\ slept \in [Timers -> [d : Nat, at : Nat, steps : Nat]]
  /\ abandoned \in BOOLEAN
  /\ panicked \in BOOLEAN

\* The timers whose timerfd is open have numbers of their own.
Numbers ==
  \A s, t \in Timers :
    /\ timer[s] \in {"new", "arming", "waiting"} /\ timer[t] \in {"new", "arming", "waiting"}
    /\ fd[s] = fd[t]
    => s = t

\* The read of a timer is queued when the timerfd is armed, and is submitted while
\* the timer waits as a read of its own timerfd.
Armed ==
  \A t \in Timers :
    /\ op[t] = "done" => ans[t] # <<>>
    /\ timer[t] \in {"none", "new", "arming"} => op[t] = "none" /\ fire[t] = Never
    /\ timer[t] = "waiting" /\ op[t] \in {"kernel", "done"} => target[t] = {t}

\* As long as the wall clock is not set, the deadline and the expiry of the timerfd
\* are the same instant on the two clocks, and the read of a timer that waits is
\* answered after it.
Deadlines ==
  \A t \in Timers :
    /\ slept[t].at <= mono /\ slept[t].steps <= steps
    /\ timer[t] # "none" /\ slept[t].steps = steps =>
         /\ expiration[t] - skew = slept[t].at + slept[t].d
         /\ fire[t] >= 0 => fire[t] = slept[t].at + slept[t].d
         /\ timer[t] = "waiting" /\ op[t] = "done" => mono - slept[t].at >= slept[t].d

\* The inductive invariant of timers.
TimerInv == TimerTyped /\ Numbers /\ Armed /\ Deadlines /\ AtLeastDuration

\* No timer has been made.
LEMMA TimerInit == Init => TimerInv
<1> SUFFICES ASSUME Init PROVE TimerInv
  OBVIOUS
<1> USE TimeAssumption DEF Init, Io!Init, TimerAnswers, Never, Spent
<1>1. TimerTyped
  <2>1. [d |-> 0, at |-> 0, steps |-> 0] \in [d : Nat, at : Nat, steps : Nat]
    OBVIOUS
  <2>2. slept \in [Timers -> [d : Nat, at : Nat, steps : Nat]]
    BY <2>1
  <2>3. ans \in [Timers -> {<<>>} \cup {<<v>> : v \in TimerAnswers}]
    OBVIOUS
  <2>4. out \in [Timers -> {<<>>} \cup {<<Io!ToResult(v)>> : v \in TimerAnswers}]
    OBVIOUS
  <2>5. mono \in 0..MaxTime /\ skew \in Int /\ steps \in 0..MaxSteps
    OBVIOUS
  <2>6. abandoned \in BOOLEAN /\ panicked \in BOOLEAN
    BY Zenon
  <2>7. expiration \in [Timers -> Int] /\ fire \in [Timers -> Nat \cup {Never, Spent}]
        /\ fd \in [Timers -> TimerFds \cup {-1}] /\ target \in [Timers -> SUBSET Timers]
    OBVIOUS
  <2>8. /\ fut \in [Timers -> {"New", "Submitted", "Finished", "Gone"}]
        /\ op \in [Timers -> {"none", "queued", "kernel", "done"}]
    OBVIOUS
  <2>9. timer \in [Timers -> {"none", "new", "arming", "waiting", "ready", "gone"}]
    OBVIOUS
  <2> QED
    BY <2>2, <2>3, <2>4, <2>5, <2>6, <2>7, <2>8, <2>9, Zenon DEF TimerTyped
<1>2. Numbers /\ Armed
  BY DEF Numbers, Armed
<1>3. Deadlines
  <2> SUFFICES ASSUME NEW t \in Timers
               PROVE  slept[t].at <= mono /\ slept[t].steps <= steps /\ timer[t] = "none"
    BY DEF Deadlines
  <2>1. slept[t] = [d |-> 0, at |-> 0, steps |-> 0]
    OBVIOUS
  <2> QED
    BY <2>1
<1>4. AtLeastDuration
  BY DEF AtLeastDuration
<1> QED
  BY <1>1, <1>2, <1>3, <1>4 DEF TimerInv

\* Every step keeps the invariant.
LEMMA TimerStep == TimerInv /\ [Next]_vars => TimerInv'
<1> SUFFICES ASSUME TimerInv, [Next]_vars PROVE TimerInv'
  OBVIOUS
<1> USE TimeAssumption DEF TimerInv, TimerAnswers, Never, Spent, EBADF
<1>1. ASSUME NEW t \in Timers, NEW d \in Durations, sleep(t, d) PROVE TimerInv'
  <2>a. d \in Nat /\ mono \in Nat /\ steps \in Nat
    BY DEF TimerTyped
  <2>0. [d |-> d, at |-> mono, steps |-> steps] \in [d : Nat, at : Nat, steps : Nat]
    BY <2>a
  <2>b. PICK n \in TimerFds : Under(n) = {} /\ fd' = [fd EXCEPT ![t] = n]
    BY <1>1 DEF sleep
  <2>c. Numbers'
    BY <1>1, <2>b DEF sleep, Under, TimerTyped, Numbers
  <2> USE <1>1 DEF sleep, port, wall
  <2>1. TimerTyped'
    BY <2>0, <2>b DEF TimerTyped
  <2>2. Armed'
    BY DEF TimerTyped, Armed
  <2>3. Deadlines'
    <3> SUFFICES ASSUME NEW s \in Timers PROVE Deadlines!(s)'
      BY DEF Deadlines
    <3>1. CASE s = t
      <4>1. slept'[t] = [d |-> d, at |-> mono, steps |-> steps]
        BY DEF TimerTyped
      <4>2. expiration'[t] = mono + skew + d /\ fire'[t] = Never /\ timer'[t] = "new"
        BY DEF TimerTyped, Armed
      <4>3. mono' = mono /\ skew' = skew /\ steps' = steps /\ mono \in Nat /\ skew \in Int
        BY DEF TimerTyped
      <4> HIDE <1>1 DEF sleep
      <4> QED
        BY <3>1, <2>a, <4>1, <4>2, <4>3
    <3>2. CASE s # t
      <4>1. slept'[s] = slept[s] /\ expiration'[s] = expiration[s] /\ timer'[s] = timer[s]
        BY <3>2 DEF TimerTyped
      <4>2. fire' = fire /\ op' = op /\ mono' = mono /\ skew' = skew /\ steps' = steps
        OBVIOUS
      <4>3. Deadlines!(s)
        BY DEF Deadlines
      <4> QED
        BY <4>1, <4>2, <4>3
    <3> QED
      BY <3>1, <3>2
  <2>4. AtLeastDuration'
    <3> SUFFICES ASSUME NEW s \in Timers, timer'[s] = "ready" PROVE AtLeastDuration!(s)'
      BY DEF AtLeastDuration
    <3>1. s # t /\ timer[s] = "ready" /\ slept'[s] = slept[s]
      BY DEF TimerTyped
    <3> QED
      BY <3>1 DEF AtLeastDuration
  <2> QED
    BY <2>c, <2>1, <2>2, <2>3, <2>4
<1>2. ASSUME NEW t \in Timers, PollExpired(t) PROVE TimerInv'
  <2> USE <1>2 DEF PollExpired, port, wall
  <2>1. TimerTyped'
    BY DEF TimerTyped
  <2>2. Numbers' /\ Armed'
    BY DEF TimerTyped, Numbers, Armed
  <2>3. Deadlines'
    BY DEF TimerTyped, Armed, Deadlines
  <2>4. AtLeastDuration'
    <3> SUFFICES ASSUME NEW s \in Timers, timer'[s] = "ready", slept[s].steps = steps
                 PROVE  mono - slept[s].at >= slept[s].d
      BY DEF AtLeastDuration
    <3>1. CASE s # t
      BY <3>1 DEF TimerTyped, AtLeastDuration
    <3>2. CASE s = t
      <4>1. slept[t].at \in Nat /\ slept[t].d \in Nat
        BY DEF TimerTyped
      <4>2. mono \in Int /\ skew \in Int /\ expiration[t] \in Int
        BY DEF TimerTyped
      <4>3. timer[t] # "none" /\ mono + skew > expiration[t]
        OBVIOUS
      <4>4. expiration[t] - skew = slept[t].at + slept[t].d
        BY <3>2, <4>3 DEF Deadlines
      <4> QED
        BY <3>2, <4>1, <4>2, <4>3, <4>4
    <3> QED
      BY <3>1, <3>2
  <2> QED
    BY <2>1, <2>2, <2>3, <2>4
<1>3. ASSUME NEW t \in Timers, PollNew(t) PROVE TimerInv'
  <2> USE <1>3 DEF PollNew, port
  <2>1. TimerTyped'
    BY DEF TimerTyped
  <2>2. Numbers' /\ Armed'
    BY DEF TimerTyped, Numbers, Armed
  <2>3. Deadlines'
    BY DEF TimerTyped, Armed, Deadlines
  <2>4. AtLeastDuration'
    BY DEF TimerTyped, AtLeastDuration
  <2> QED
    BY <2>1, <2>2, <2>3, <2>4
<1>4. ASSUME NEW t \in Timers, Arm(t) PROVE TimerInv'
  <2> USE <1>4 DEF Arm, Io!Submit, wall
  <2>0. fire'[t] \in Nat \cup {Never, Spent}
    BY SMTT(30) DEF TimerTyped
  <2>1. TimerTyped'
    BY <2>0 DEF TimerTyped
  <2>2. Numbers' /\ Armed'
    BY DEF TimerTyped, Numbers, Armed
  <2>3. Deadlines'
    BY SMTT(30) DEF TimerTyped, Armed, Deadlines
  <2>4. AtLeastDuration'
    BY DEF TimerTyped, AtLeastDuration
  <2> QED
    BY <2>1, <2>2, <2>3, <2>4
<1>5. ASSUME NEW t \in Timers, PollWaiting(t) PROVE TimerInv'
  <2> USE <1>5 DEF PollWaiting, Io!Take
  <2>0. PICK v \in TimerAnswers : ans[t] = <<v>>
    BY DEF TimerTyped, Armed
  <2>1. TimerTyped'
    BY <2>0 DEF TimerTyped
  <2>2. Numbers' /\ Armed'
    BY DEF TimerTyped, Numbers, Armed
  <2>3. Deadlines'
    BY DEF TimerTyped, Armed, Deadlines
  <2>4. AtLeastDuration'
    BY DEF TimerTyped, Numbers, Armed, Deadlines, AtLeastDuration
  <2> QED
    BY <2>1, <2>2, <2>3, <2>4
<1>6. ASSUME NEW t \in Timers, KernelRead(t) PROVE TimerInv'
  <2>1. UNCHANGED <<mono, skew, steps, timer, expiration, fd, target, slept, abandoned, panicked>>
    BY <1>6 DEF KernelRead
  <2>2. PICK v \in TimerAnswers : Io!Answer(t, v)
    BY <1>6 DEF KernelRead
  <2>3. \/ \E u \in target[t] : /\ fire[u] >= 0 /\ mono >= fire[u]
                              /\ fire' = [fire EXCEPT ![u] = Spent]
        \/ target[t] = {} /\ fire' = fire
    BY <1>6 DEF KernelRead
  <2>4. /\ op[t] = "kernel" /\ op' = [op EXCEPT ![t] = "done"]
        /\ ans' = [ans EXCEPT ![t] = <<v>>] /\ UNCHANGED <<fut, out>>
    BY <2>2 DEF Io!Answer
  <2>5. timer[t] = "waiting" => fire[t] >= 0 /\ mono >= fire[t]
    BY <2>3, <2>4 DEF Armed
  <2>6. \A s \in Timers : fire'[s] = fire[s] \/ (fire[s] >= 0 /\ fire'[s] = Spent)
    BY <2>3 DEF TimerTyped
  <2>7. fire' \in [Timers -> Nat \cup {Never, Spent}]
    BY <2>3 DEF TimerTyped
  <2>8. TimerTyped'
    BY <2>1, <2>4, <2>7 DEF TimerTyped
  <2>9. Numbers'
    BY <2>1 DEF Numbers
  <2>10. Armed'
    BY <2>1, <2>4, <2>6 DEF TimerTyped, Armed
  <2>11. Deadlines'
    <3> SUFFICES ASSUME NEW s \in Timers PROVE Deadlines!(s)'
      BY DEF Deadlines
    <3>1. Deadlines!(s) /\ slept'[s] = slept[s] /\ timer'[s] = timer[s]
      BY <2>1 DEF Deadlines
    <3>2. slept[s].at \in Nat /\ slept[s].d \in Nat /\ mono \in Nat /\ fire[s] \in Int
      <4>1. slept[s] \in [d : Nat, at : Nat, steps : Nat] /\ mono \in 0..MaxTime
        BY DEF TimerTyped
      <4>2. fire[s] \in Nat \cup {Never, Spent}
        BY DEF TimerTyped
      <4> QED
        BY <4>1, <4>2
    <3>3. fire'[s] >= 0 => fire'[s] = fire[s]
      BY <2>6, <3>2
    <3>4. op'[s] = "done" => op[s] = "done" \/ s = t
      BY <2>4 DEF TimerTyped
    <3> QED
      BY <2>1, <2>5, <3>1, <3>2, <3>3, <3>4
  <2>12. AtLeastDuration'
    BY <2>1 DEF AtLeastDuration
  <2> QED
    BY <2>8, <2>9, <2>10, <2>11, <2>12
<1>7. ASSUME NEW t \in Timers, Drop(t) PROVE TimerInv'
  <2> USE <1>7 DEF Drop, Io!Drop
  <2>1. TimerTyped'
    BY DEF TimerTyped
  <2>2. Numbers' /\ Armed'
    BY DEF TimerTyped, Numbers, Armed
  <2>3. Deadlines'
    BY DEF TimerTyped, Armed, Deadlines
  <2>4. AtLeastDuration'
    BY DEF TimerTyped, AtLeastDuration
  <2> QED
    BY <2>1, <2>2, <2>3, <2>4
<1>8. ASSUME NEW t \in Timers, ArmPanics(t) PROVE TimerInv'
  BY <1>8 DEF ArmPanics, port, TimerTyped, Numbers, Armed, Deadlines, AtLeastDuration
<1>9. CASE React
  <2> USE <1>9 DEF React, Io!Enter
  <2>1. TimerTyped'
    BY DEF TimerTyped, Under
  <2>2. Numbers'
    BY DEF Numbers
  <2>3. \A t \in Timers : timer[t] = "waiting" => Under(fd[t]) = {t}
    BY DEF Numbers, Under
  <2>4. Armed'
    BY <2>3 DEF TimerTyped, Armed
  <2>5. Deadlines' /\ AtLeastDuration'
    BY DEF TimerTyped, Deadlines, AtLeastDuration
  <2> QED
    BY <2>1, <2>2, <2>4, <2>5
<1>10. CASE Tick
  <2> USE <1>10 DEF Tick, port
  <2>1. TimerTyped'
    BY DEF TimerTyped
  <2>2. Numbers' /\ Armed'
    BY DEF TimerTyped, Numbers, Armed
  <2>3. Deadlines'
    BY DEF TimerTyped, Armed, Deadlines
  <2>4. AtLeastDuration'
    BY DEF TimerTyped, AtLeastDuration
  <2> QED
    BY <2>1, <2>2, <2>3, <2>4
<1>11. ASSUME NEW n \in Steps, SetClock(n) PROVE TimerInv'
  <2> USE <1>11 DEF SetClock, port
  <2>1. TimerTyped'
    BY DEF TimerTyped
  <2>2. Numbers' /\ Armed'
    BY DEF Numbers, Armed
  <2>3. Deadlines' /\ AtLeastDuration'
    BY DEF TimerTyped, Deadlines, AtLeastDuration
  <2> QED
    BY <2>1, <2>2, <2>3
<1>12. CASE UNCHANGED vars
  BY <1>12 DEF vars, port, TimerTyped, Numbers, Armed, Deadlines, AtLeastDuration
<1> QED
  BY <1>1, <1>2, <1>3, <1>4, <1>5, <1>6, <1>7, <1>8, <1>9, <1>10, <1>11, <1>12 DEF Next

\* A timer that is ready has slept its duration, whichever clock ended it, as long
\* as nobody set the wall clock (timer.rs:59-61).
THEOREM SleepsAtLeast == Spec => []AtLeastDuration
<1>1. TimerInv => AtLeastDuration
  BY DEF TimerInv
<1> QED
  BY <1>1, TimerInit, TimerStep, PTL DEF Spec

-----------------------------------------------------------------------------
(***************************************************************************)
(* UDP.                                                                    *)
(***************************************************************************)
\* Answers of a receive or a send, and socket addresses as the kernel has them.
UdpAnswers == {U!Failed} \cup Sizes \cup RecvLens
CAddrs ==
  [len : Nat, family : {"unspec", "inet", "inet6"}, port : Seq(0..255), addr : Seq(0..255),
   flowinfo : Nat, scope_id : Nat]

\* TypeOK with the addresses, the answers and the results typed in full.
UdpPortTyped ==
  /\ u_fut \in [U!Handles -> {"New", "Submitted", "Finished", "Gone"}]
  /\ u_op \in [U!Handles -> {"none", "queued", "kernel", "done"}]
  /\ u_ans \in [U!Handles -> {<<>>} \cup {<<v>> : v \in UdpAnswers}]
  /\ u_out \in [U!Handles -> {<<>>} \cup {<<U!Io!ToResult(v)>> : v \in UdpAnswers}]
UdpTyped ==
  /\ datagrams \in Seq([src : Peers, size : Sizes]) /\ Len(datagrams) <= MaxArrivals
  /\ inbox \in Seq(Nat) /\ received \in Seq(Nat)
  /\ csock \in [U!Handles -> CAddrs]
  /\ room \in [Recvs -> RecvLens \cup {0}]
  /\ consumed \in [Recvs -> 0..MaxArrivals]
  /\ got \in [Recvs -> {<<>>, <<"Err">>} \cup (Nat \X Peers)]
  /\ replies \in [Sends -> 0..MaxArrivals]
  /\ delivered \subseteq Sends \X {U!KernelReads(c) : c \in CAddrs}
  /\ u_panicked \in BOOLEAN

\* How the states of a handle and of its operation go together.
UdpPortOrder ==
  \A h \in U!Handles :
    /\ u_fut[h] = "New" <=> u_op[h] = "none"
    /\ u_op[h] = "done" <=> u_ans[h] # <<>>
    /\ u_fut[h] = "Finished" => u_op[h] = "done"

\* The inbox holds the last datagrams that arrived; the others were taken.
Taken == Len(datagrams) - Len(inbox)
Inbox ==
  /\ Taken \in Nat
  /\ \A k \in 1..Len(inbox) : inbox[k] = Taken + k
  /\ \A d \in 1..Taken : \E h \in Recvs : consumed[h] = d

\* What an answered recv_from() took, and what it has returned.
Consumption ==
  \A h \in Recvs :
    /\ u_fut[h] # "New" => room[h] \in RecvLens
    /\ consumed[h] <= Taken
    /\ consumed[h] # 0 =>
         /\ u_op[h] = "done"
         /\ u_ans[h] = <<U!Min({datagrams[consumed[h]].size, room[h]})>>
         /\ csock[h] = U!KernelName(datagrams[consumed[h]].src)
    /\ consumed[h] = 0 /\ u_op[h] = "done" => u_ans[h] = <<U!Failed>>
    /\ got[h] # <<>> <=> u_fut[h] = "Finished"
    /\ Len(got[h]) = 2 => consumed[h] # 0
    /\ u_fut[h] = "Finished" /\ consumed[h] # 0 =>
         \E k \in 1..Len(received) : received[k] = consumed[h]

\* One recv_from() lives at a time, and what it took is newer than all that has
\* been returned.
Order ==
  /\ \A k \in 1..Len(received) : received[k] <= Taken
  /\ \A k, l \in 1..Len(received) : k < l => received[k] < received[l]
  /\ \A g, h \in Recvs : u_fut[g] = "Submitted" /\ u_fut[h] = "Submitted" => g = h
  /\ \A h \in Recvs : u_fut[h] = "Submitted" /\ consumed[h] # 0 =>
       \A k \in 1..Len(received) : received[k] < consumed[h]

\* A reply carries the address of the datagram it answers, and an answer other than
\* a failure means that it was sent there.
Replies ==
  /\ \A h \in Sends :
       /\ u_fut[h] # "New" => /\ replies[h] \in 1..Len(datagrams)
                              /\ csock[h] = U!from(datagrams[replies[h]].src)
       /\ u_op[h] = "done" /\ u_ans[h] # <<U!Failed>> =>
            <<h, datagrams[replies[h]].src>> \in delivered
  /\ \A r \in delivered : u_fut[r[1]] # "New" /\ r[2] = datagrams[replies[r[1]]].src

\* The inductive invariant of UDP.
UdpInv ==
  /\ UdpPortTyped /\ UdpTyped
  /\ UdpPortOrder
  /\ Inbox /\ Consumption /\ Order
  /\ ReceivedAsSent
  /\ Replies

-----------------------------------------------------------------------------
\* Swapping the bytes of a number twice gives the number.
LEMMA ReverseTwice ==
  ASSUME NEW S, NEW s \in Seq(S)
  PROVE  U!Reverse(s) \in Seq(S) /\ U!Reverse(U!Reverse(s)) = s
<1>1. Len(s) \in Nat /\ \A k \in 1..Len(s) : s[k] \in S
  OBVIOUS
<1> DEFINE r == [k \in 1..Len(s) |-> s[(Len(s) - k) + 1]]
<1>2. r \in [1..Len(s) -> S]
  BY <1>1
<1>3. r \in Seq(S) /\ Len(r) = Len(s)
  BY <1>1, <1>2
<1>4. [k \in 1..Len(r) |-> r[(Len(r) - k) + 1]] = [k \in 1..Len(s) |-> s[k]]
  BY <1>1, <1>3
<1>5. s = [k \in 1..Len(s) |-> s[k]]
  OBVIOUS
<1> QED
  BY <1>3, <1>4, <1>5 DEF U!Reverse

\* What recv_from() makes of the name the kernel wrote is the sender's address, and
\* what the kernel makes of the name send_to() wrote is the address less its scope.
LEMMA AddressesSurvive ==
  ASSUME NEW a \in Peers
  PROVE  /\ U!KernelName(a) \in CAddrs /\ U!from(a) \in CAddrs
         /\ U!try_from(U!KernelName(a)) = <<a>>
         /\ ~U!Unreachable(U!KernelReads(U!from(a))) => U!KernelReads(U!from(a)) = a
<1>1. a.ip \in Seq(0..255) /\ a.port \in Seq(0..255)
  BY UdpAssumption DEF IsSender
<1>2. /\ U!Native(U!Swap(a.ip)) = a.ip /\ U!Swap(U!Native(a.ip)) = a.ip
      /\ U!Native(U!Swap(a.port)) = a.port /\ U!Swap(U!Native(a.port)) = a.port
  BY <1>1, ReverseTwice DEF U!Native, U!Swap
<1> USE DEF U!KernelName, U!from, U!try_from, U!KernelReads, U!CSockAddr, U!V4_LEN, U!V6_LEN
<1>3. CASE a = V4(a.ip, a.port)
  <2>1. a.v = "V4"
    BY <1>3 DEF V4
  <2>2. /\ U!KernelName(a) = U!CSockAddr(16, "inet", a.port, a.ip, 0, 0)
        /\ U!from(a) = U!CSockAddr(16, "inet", a.port, a.ip, 0, 0)
    BY <1>2, <2>1
  <2> HIDE DEF U!KernelName, U!from
  <2>3. U!try_from(U!KernelName(a)) = <<a>> /\ U!KernelReads(U!from(a)) = a
    BY <1>2, <1>3, <2>2 DEF V4, U!V4
  <2>4. U!CSockAddr(16, "inet", a.port, a.ip, 0, 0) \in CAddrs
    BY <1>1 DEF CAddrs
  <2> QED
    BY <2>2, <2>3, <2>4
<1>4. CASE a.scope_id \in Nat /\ a = V6(a.ip, a.port, 0, a.scope_id)
  <2>1. a.v = "V6" /\ a.flowinfo = 0
    BY <1>4 DEF V6
  <2>2. /\ U!KernelName(a) = U!CSockAddr(28, "inet6", a.port, a.ip, 0, a.scope_id)
        /\ U!from(a) = U!CSockAddr(28, "inet6", a.port, a.ip, 0, 0)
    BY <1>2, <2>1
  <2> HIDE DEF U!KernelName, U!from
  <2>3. U!try_from(U!KernelName(a)) = <<a>>
    BY <1>2, <1>4, <2>2 DEF V6, U!V6
  <2>4. U!KernelReads(U!from(a)) = V6(a.ip, a.port, 0, 0)
    BY <2>2 DEF V6, U!V6
  <2>5. a.scope_id # 0 => U!Unreachable(U!KernelReads(U!from(a)))
    BY <2>1, <2>4 DEF U!Unreachable, V6
  <2>6. /\ U!CSockAddr(28, "inet6", a.port, a.ip, 0, a.scope_id) \in CAddrs
        /\ U!CSockAddr(28, "inet6", a.port, a.ip, 0, 0) \in CAddrs
    BY <1>1, <1>4 DEF CAddrs
  <2> QED
    BY <1>4, <2>2, <2>3, <2>4, <2>5, <2>6
<1> QED
  BY <1>3, <1>4, UdpAssumption DEF IsSender

\* A datagram is cut to the buffer.
LEMMA CutToBuffer ==
  ASSUME NEW m \in Sizes, NEW n \in RecvLens \cup {0}
  PROVE  U!Min({m, n}) = (IF m <= n THEN m ELSE n)
<1>1. m \in Nat /\ n \in Nat
  BY UdpAssumption
<1>2. \E x \in {m, n} : \A y \in {m, n} : x <= y
  BY <1>1
<1>3. U!Min({m, n}) \in {m, n} /\ \A y \in {m, n} : U!Min({m, n}) <= y
  BY <1>2 DEF U!Min
<1> QED
  BY <1>1, <1>3

\* A sequence over S has its elements in S.
LEMMA ElementOfSeq == ASSUME NEW S, NEW s \in Seq(S), NEW k \in 1..Len(s) PROVE s[k] \in S
  OBVIOUS

\* A datagram that arrived has a sender and a size.
LEMMA DatagramTyped ==
  ASSUME UdpTyped, NEW k \in 1..Len(datagrams)
  PROVE  /\ datagrams[k] \in [src : Peers, size : Sizes]
         /\ datagrams[k].src \in Peers /\ datagrams[k].size \in Sizes
<1>1. datagrams \in Seq([src : Peers, size : Sizes])
  BY DEF UdpTyped
<1>2. datagrams[k] \in [src : Peers, size : Sizes]
  BY <1>1, ElementOfSeq
<1> QED
  BY <1>2

\* The lengths and the numbers of datagrams are numbers.
LEMMA NumbersTyped ==
  ASSUME UdpTyped, Inbox
  PROVE  /\ Len(datagrams) \in Nat /\ Len(inbox) \in Nat /\ Len(received) \in Nat
         /\ Taken \in 0..Len(datagrams)
         /\ \A h \in Recvs : consumed[h] \in Nat
<1>1. Len(datagrams) \in Nat /\ Len(inbox) \in Nat /\ Len(received) \in Nat
  BY DEF UdpTyped
<1>2. \A h \in Recvs : consumed[h] \in Nat
  BY UdpAssumption DEF UdpTyped
<1> QED
  BY <1>1, <1>2 DEF Inbox, Taken

\* Results are told apart by their length.
LEMMA ResultLengths == Len(<<>>) = 0 /\ Len(<<"Err">>) = 1 /\ \A x, y : Len(<<x, y>>) = 2
  OBVIOUS

\* A step of one handle, or react(), keeps its state and its operation in step.
LEMMA UdpPortSteps ==
  ASSUME UdpPortTyped, UdpPortOrder,
         \/ U!Io!Enter
         \/ \E h \in U!Handles : \/ U!Io!Submit(h) \/ U!Io!Take(h)
                                 \/ u_fut[h] = "Submitted" /\ U!Io!Drop(h)
                                 \/ \E v \in UdpAnswers : U!Io!Answer(h, v)
         \/ UNCHANGED <<u_fut, u_op, u_ans, u_out>>
  PROVE  UdpPortTyped' /\ UdpPortOrder'
<1> USE DEF UdpPortTyped, UdpPortOrder
<1>1. CASE U!Io!Enter
  BY <1>1 DEF U!Io!Enter
<1>2. ASSUME NEW h \in U!Handles, U!Io!Submit(h) PROVE UdpPortTyped' /\ UdpPortOrder'
  BY <1>2 DEF U!Io!Submit
<1>3. ASSUME NEW h \in U!Handles, U!Io!Take(h) PROVE UdpPortTyped' /\ UdpPortOrder'
  <2>1. PICK v \in UdpAnswers : u_ans[h] = <<v>>
    BY <1>3 DEF U!Io!Take
  <2> QED
    BY <1>3, <2>1 DEF U!Io!Take
<1>4. ASSUME NEW h \in U!Handles, u_fut[h] = "Submitted", U!Io!Drop(h)
      PROVE  UdpPortTyped' /\ UdpPortOrder'
  BY <1>4 DEF U!Io!Drop
<1>5. ASSUME NEW h \in U!Handles, NEW v \in UdpAnswers, U!Io!Answer(h, v)
      PROVE  UdpPortTyped' /\ UdpPortOrder'
  BY <1>5 DEF U!Io!Answer
<1>6. CASE UNCHANGED <<u_fut, u_op, u_ans, u_out>>
  BY <1>6
<1> QED
  BY <1>1, <1>2, <1>3, <1>4, <1>5, <1>6

\* The socket starts with nothing received and no future.
LEMMA UdpInit == U!Init => UdpInv
<1> SUFFICES ASSUME U!Init PROVE UdpInv
  OBVIOUS
<1> USE UdpAssumption DEF U!Init, U!Io!Init, U!Handles
<1>1. UdpPortTyped /\ UdpPortOrder
  BY DEF UdpPortTyped, UdpPortOrder
<1>2. UdpTyped
  <2>1. U!Zeroed \in CAddrs
    BY DEF U!Zeroed, U!CSockAddr, CAddrs
  <2>2. csock \in [U!Handles -> CAddrs]
    BY <2>1
  <2>3. datagrams \in Seq([src : Peers, size : Sizes]) /\ Len(datagrams) <= MaxArrivals
    OBVIOUS
  <2>4. got \in [Recvs -> {<<>>, <<"Err">>} \cup (Nat \X Peers)]
    OBVIOUS
  <2>5. u_panicked \in BOOLEAN
    BY Zenon
  <2>6. inbox \in Seq(Nat) /\ received \in Seq(Nat)
    OBVIOUS
  <2>7. /\ room \in [Recvs -> RecvLens \cup {0}]
        /\ consumed \in [Recvs -> 0..MaxArrivals]
        /\ replies \in [Sends -> 0..MaxArrivals]
    OBVIOUS
  <2> QED
    BY <2>2, <2>3, <2>4, <2>5, <2>6, <2>7 DEF UdpTyped
<1>3. Inbox
  BY DEF Inbox, Taken
<1>4. Consumption
  BY DEF Consumption, Taken
<1>5. Order
  BY DEF Order
<1>6. ReceivedAsSent
  BY DEF ReceivedAsSent, U!ReceivedAsSent
<1>7. Replies
  BY DEF Replies
<1> QED
  BY <1>1, <1>2, <1>3, <1>4, <1>5, <1>6, <1>7 DEF UdpInv

\* recv_from() starts: it is the only live future and has taken nothing.
LEMMA UdpRecvFrom ==
  ASSUME UdpInv, NEW h \in Recvs, NEW len \in RecvLens, U!recv_from(h, len)
  PROVE  UdpInv'
<1> USE DEF UdpInv, U!recv_from, U!Handles
<1>1. UdpPortTyped' /\ UdpPortOrder'
  BY UdpPortSteps
<1>2. UdpTyped'
  BY DEF UdpTyped
<1>3. consumed[h] = 0 /\ u_op[h] = "none"
  BY DEF U!Io!Submit, UdpPortOrder, Consumption
<1>4. Inbox'
  BY DEF Inbox, Taken
<1>5. Consumption'
  BY <1>3, UdpAssumption DEF Consumption, Taken, U!Io!Submit, UdpPortTyped, UdpTyped
<1>6. Order'
  BY <1>3 DEF Order, Taken, U!Io!Submit, UdpPortTyped, U!Live
<1>7. ReceivedAsSent'
  BY <1>3 DEF ReceivedAsSent, U!ReceivedAsSent, Consumption, UdpTyped
<1>8. Replies'
  BY UdpAssumption DEF Replies, U!Io!Submit, UdpPortTyped, UdpTyped
<1> QED
  BY <1>1, <1>2, <1>4, <1>5, <1>6, <1>7, <1>8

\* send_to() starts with the address that r returned.
LEMMA UdpSendTo ==
  ASSUME UdpInv, NEW h \in Sends, NEW r \in Recvs, U!send_to(h, r)
  PROVE  UdpInv'
<1> USE DEF UdpInv, U!send_to, U!Handles
<1>1. UdpPortTyped' /\ UdpPortOrder'
  BY UdpPortSteps
<1>2. h \notin Recvs /\ u_fut[h] = "New" /\ u_op[h] = "none"
  BY UdpAssumption DEF U!Io!Submit, UdpPortOrder
<1>3. consumed[r] \in 1..Len(datagrams) /\ got[r][2] = datagrams[consumed[r]].src
  <2>1. consumed[r] # 0 /\ consumed[r] <= Taken
    BY DEF Consumption
  <2>3. consumed[r] \in 1..Len(datagrams)
    BY <2>1, NumbersTyped
  <2>4. got[r] = <<U!Min({datagrams[consumed[r]].size, room[r]}), datagrams[consumed[r]].src>>
    BY DEF ReceivedAsSent, U!ReceivedAsSent
  <2> QED
    BY <2>3, <2>4
<1>4. U!from(got[r][2]) \in CAddrs
  BY <1>3, DatagramTyped, AddressesSurvive
<1>5. UdpTyped'
  BY <1>4 DEF UdpTyped
<1>6. Inbox'
  BY DEF Inbox, Taken
<1>7. Consumption'
  BY <1>2 DEF Consumption, Taken, U!Io!Submit, UdpPortTyped, UdpTyped
<1>8. Order'
  BY <1>2 DEF Order, Taken, U!Io!Submit, UdpPortTyped
<1>9. ReceivedAsSent'
  BY DEF ReceivedAsSent, U!ReceivedAsSent
<1>10. Replies'
  BY <1>2, <1>3 DEF Replies, U!Io!Submit, UdpPortTyped, UdpTyped
<1> QED
  BY <1>1, <1>5, <1>6, <1>7, <1>8, <1>9, <1>10

\* A poll of recv_from() returns what it took, or the failure.
LEMMA UdpRecvReady ==
  ASSUME UdpInv, NEW h \in Recvs, U!RecvReady(h)
  PROVE  UdpInv'
<1> USE DEF U!Handles
<1>0. /\ UdpPortTyped /\ UdpTyped /\ UdpPortOrder /\ Inbox /\ Consumption /\ Order
      /\ ReceivedAsSent /\ Replies
  BY DEF UdpInv
<1> USE <1>0
<1>t. U!Io!Take(h)
  BY DEF U!RecvReady
<1>u. UNCHANGED <<datagrams, inbox, csock, room, consumed, replies, delivered, u_panicked>>
  BY DEF U!RecvReady
<1>g. got' = [got EXCEPT ![h] =
                 IF u_ans[h][1] < 0 \/ U!try_from(csock[h]) = <<>> THEN <<"Err">>
                 ELSE <<u_ans[h][1], U!try_from(csock[h])[1]>>]
  BY DEF U!RecvReady
<1>r. received' = IF Len(got'[h]) = 2 THEN Append(received, consumed[h]) ELSE received
  BY DEF U!RecvReady
<1> USE <1>u
<1>1. UdpPortTyped' /\ UdpPortOrder'
  BY <1>t, UdpPortSteps
<1>2. u_fut[h] = "Submitted" /\ u_op[h] = "done" /\ got[h] = <<>>
  BY <1>t DEF U!Io!Take, Consumption
<1>3. CASE consumed[h] = 0
  <2>1. u_ans[h] = <<-1>>
    BY <1>2, <1>3 DEF Consumption, U!Failed
  <2>2. got' = [got EXCEPT ![h] = <<"Err">>]
    BY <1>g, <2>1
  <2>3. got'[h] = <<"Err">> /\ \A g \in Recvs : g # h => got'[g] = got[g]
    BY <2>2 DEF UdpTyped
  <2>4. received' = received
    BY <1>r, <2>3, ResultLengths
  <2>5. UdpTyped'
    BY <2>2, <2>4 DEF UdpTyped
  <2>6. Inbox'
    BY DEF Inbox, Taken
  <2>7. Consumption'
    <3> SUFFICES ASSUME NEW g \in Recvs PROVE Consumption!(g)'
      BY DEF Consumption
    <3>1. u_op' = u_op /\ u_ans' = u_ans /\ Taken' = Taken
      BY <1>t DEF U!Io!Take, Taken
    <3>2. CASE g = h
      <4>1. u_fut'[g] = "Finished" /\ consumed[g] = 0
        BY <1>t, <1>3, <3>2 DEF U!Io!Take, UdpPortTyped
      <4>2. got'[g] = <<"Err">>
        BY <2>3, <3>2
      <4>3. got'[g] # <<>> /\ Len(got'[g]) # 2
        BY <4>2, ResultLengths
      <4> QED
        BY <1>2, <3>1, <3>2, <4>1, <4>3 DEF Consumption
    <3>3. CASE g # h
      <4>1. u_fut'[g] = u_fut[g] /\ got'[g] = got[g]
        BY <1>t, <2>3, <3>3 DEF U!Io!Take, UdpPortTyped
      <4> QED
        BY <2>4, <3>1, <4>1 DEF Consumption
    <3> QED
      BY <3>2, <3>3
  <2>8. Order'
    BY <1>t, <2>4 DEF Order, Taken, U!Io!Take, UdpPortTyped
  <2>9. ReceivedAsSent'
    BY <2>3, ResultLengths DEF ReceivedAsSent, U!ReceivedAsSent
  <2>10. Replies'
    BY <1>t, UdpAssumption DEF Replies, U!Io!Take, UdpPortTyped, UdpTyped
  <2> QED
    BY <1>1, <2>5, <2>6, <2>7, <2>8, <2>9, <2>10 DEF UdpInv
<1>4. CASE consumed[h] # 0
  <2> DEFINE d == datagrams[consumed[h]]
             n == U!Min({d.size, room[h]})
  <2>1. consumed[h] \in 1..Len(datagrams) /\ consumed[h] <= Taken
    <3>1. consumed[h] <= Taken
      BY DEF Consumption
    <3> QED
      BY <1>4, <3>1, NumbersTyped
  <2>2. d.src \in Peers /\ d.size \in Sizes
    BY <2>1, DatagramTyped
  <2>3. n \in Nat
    <3>1. room[h] \in RecvLens \cup {0} /\ d.size \in Sizes
      BY <2>2 DEF UdpTyped
    <3>2. d.size \in Nat /\ (room[h] \in RecvLens => room[h] \in Nat)
      BY <3>1, UdpAssumption, Zenon
    <3>3. n = d.size \/ n = room[h]
      BY <3>1, CutToBuffer
    <3> QED
      BY <3>1, <3>2, <3>3
  <2>4. u_ans[h] = <<n>> /\ csock[h] = U!KernelName(d.src)
    BY <1>4 DEF Consumption
  <2>5. U!try_from(csock[h]) = <<d.src>>
    BY <2>2, <2>4, AddressesSurvive
  <2> HIDE DEF d, n
  <2>6. got' = [got EXCEPT ![h] = <<n, d.src>>]
    <3>1. u_ans[h][1] = n /\ ~(n < 0)
      BY <2>3, <2>4
    <3>2. U!try_from(csock[h]) # <<>> /\ U!try_from(csock[h])[1] = d.src
      BY <2>5
    <3> QED
      BY <1>g, <3>1, <3>2
  <2>7. got'[h] = <<n, d.src>> /\ \A g \in Recvs : g # h => got'[g] = got[g]
    BY <2>6 DEF UdpTyped
  <2>8. received' = Append(received, consumed[h])
    BY <1>r, <2>7, ResultLengths
  <2>9. UdpTyped'
    <3>1. got' \in [Recvs -> {<<>>, <<"Err">>} \cup (Nat \X Peers)]
      BY <2>2, <2>3, <2>6 DEF UdpTyped
    <3>2. received' \in Seq(Nat)
      BY <2>8, UdpAssumption DEF UdpTyped
    <3> QED
      BY <3>1, <3>2 DEF UdpTyped
  <2>10. Inbox'
    BY DEF Inbox, Taken
  <2>11. /\ Len(received) \in Nat /\ Len(received') = Len(received) + 1
         /\ received'[Len(received) + 1] = consumed[h]
         /\ \A k \in 1..Len(received) : received'[k] = received[k]
    BY <2>8 DEF UdpTyped
  <2>12. Consumption'
    <3> SUFFICES ASSUME NEW g \in Recvs PROVE Consumption!(g)'
      BY DEF Consumption
    <3>1. CASE g = h
      <4>1. u_fut'[g] = "Finished" /\ got'[g] # <<>> /\ consumed[g] # 0
        BY <1>t, <1>4, <2>7, <3>1, ResultLengths DEF U!Io!Take, UdpPortTyped
      <4>2. \E k \in 1..Len(received') : received'[k] = consumed[g]
        BY <2>11, <3>1
      <4>3. u_op' = u_op /\ u_ans' = u_ans /\ Taken' = Taken
        BY <1>t DEF U!Io!Take, Taken
      <4> QED
        BY <1>2, <3>1, <4>1, <4>2, <4>3 DEF Consumption
    <3>2. CASE g # h
      <4>1. u_fut'[g] = u_fut[g] /\ got'[g] = got[g]
        BY <1>t, <2>7, <3>2 DEF U!Io!Take, UdpPortTyped
      <4>2. (\E k \in 1..Len(received) : received[k] = consumed[g]) =>
              \E k \in 1..Len(received') : received'[k] = consumed[g]
        BY <2>11
      <4> QED
        BY <1>t, <4>1, <4>2 DEF Consumption, Taken, U!Io!Take
    <3> QED
      BY <3>1, <3>2
  <2>13. Order'
    <3>1. \A k \in 1..Len(received') : received'[k] <= Taken'
      BY <2>1, <2>11, SMTT(30) DEF Order, Taken
    <3>2. \A k, l \in 1..Len(received') : k < l => received'[k] < received'[l]
      BY <1>2, <1>4, <2>11 DEF Order
    <3>3. \A g \in Recvs : u_fut'[g] # "Submitted"
      BY <1>t, <1>2 DEF Order, U!Io!Take, UdpPortTyped
    <3> QED
      BY <3>1, <3>2, <3>3 DEF Order
  <2>14. ReceivedAsSent'
    BY <2>7 DEF ReceivedAsSent, U!ReceivedAsSent, d, n
  <2>15. Replies'
    BY <1>t, UdpAssumption DEF Replies, U!Io!Take, UdpPortTyped, UdpTyped
  <2> QED
    BY <1>1, <2>9, <2>10, <2>12, <2>13, <2>14, <2>15 DEF UdpInv
<1> QED
  BY <1>3, <1>4

\* recvmsg() takes the oldest datagram of the inbox.
LEMMA UdpKernelRecv ==
  ASSUME UdpInv, NEW h \in Recvs, U!KernelRecv(h)
  PROVE  UdpInv'
<1> USE DEF U!Handles
<1>0. /\ UdpPortTyped /\ UdpTyped /\ UdpPortOrder /\ Inbox /\ Consumption /\ Order
      /\ ReceivedAsSent /\ Replies
  BY DEF UdpInv
<1> USE <1>0
<1> DEFINE d == datagrams[Head(inbox)]
           n == U!Min({d.size, room[h]})
<1>1. /\ inbox # <<>> /\ inbox' = Tail(inbox)
      /\ consumed' = [consumed EXCEPT ![h] = Head(inbox)]
      /\ csock' = [csock EXCEPT ![h] = U!KernelName(d.src)]
      /\ UNCHANGED <<datagrams, room, got, received, replies, delivered, u_panicked>>
  BY DEF U!KernelRecv
<1>2. U!Io!Answer(h, n)
  BY DEF U!KernelRecv
<1>3. /\ Len(inbox) \in Nat \ {0} /\ Head(inbox) = inbox[1]
      /\ Len(inbox') = Len(inbox) - 1 /\ inbox' \in Seq(Nat)
      /\ \A k \in 1..Len(inbox') : inbox'[k] = inbox[k + 1]
  BY <1>1 DEF UdpTyped
<1>4. Head(inbox) = Taken + 1 /\ Taken' = Taken + 1 /\ Taken \in Nat
  BY <1>1, <1>3, NumbersTyped DEF Inbox, Taken
<1>5. Head(inbox) \in 1..Len(datagrams)
  BY <1>3, <1>4, NumbersTyped DEF Taken
<1>6. d.src \in Peers /\ d.size \in Sizes /\ room[h] \in RecvLens \cup {0}
  BY <1>5, DatagramTyped DEF UdpTyped
<1>7. n \in UdpAnswers
  <2>1. u_op[h] = "kernel"
    BY <1>2 DEF U!Io!Answer
  <2>2. room[h] \in RecvLens
    BY <2>1 DEF UdpPortOrder, Consumption
  <2>3. n = d.size \/ n = room[h]
    BY <1>6, CutToBuffer
  <2> QED
    BY <1>6, <2>2, <2>3 DEF UdpAnswers
<1> HIDE DEF n, d
<1>8. UdpPortTyped' /\ UdpPortOrder'
  BY <1>2, <1>7, UdpPortSteps
<1>9. UdpTyped'
  <2>1. U!KernelName(d.src) \in CAddrs
    BY <1>6, AddressesSurvive
  <2>2. csock' \in [U!Handles -> CAddrs]
    BY <1>1, <2>1 DEF UdpTyped
  <2>3. Len(datagrams) <= MaxArrivals
    BY DEF UdpTyped
  <2>4. Head(inbox) \in 0..MaxArrivals
    BY <1>5, <2>3, NumbersTyped, UdpAssumption
  <2>5. consumed' \in [Recvs -> 0..MaxArrivals]
    BY <1>1, <2>4 DEF UdpTyped
  <2> QED
    BY <1>1, <1>3, <2>2, <2>5 DEF UdpTyped
<1>10. /\ u_op[h] = "kernel" /\ u_op'[h] = "done" /\ u_ans'[h] = <<n>>
       /\ consumed[h] = 0 /\ consumed'[h] = Taken + 1 /\ csock'[h] = U!KernelName(d.src)
  BY <1>1, <1>2, <1>4 DEF U!Io!Answer, UdpPortTyped, UdpTyped, Consumption
<1>11. /\ u_fut' = u_fut
       /\ \A g \in U!Handles : g # h => /\ u_op'[g] = u_op[g] /\ u_ans'[g] = u_ans[g]
                                        /\ csock'[g] = csock[g]
       /\ \A g \in Recvs : g # h => consumed'[g] = consumed[g]
  BY <1>1, <1>2 DEF U!Io!Answer, UdpPortTyped, UdpTyped
<1>12. Inbox'
  <2>1. \A k \in 1..Len(inbox') : inbox'[k] = Taken' + k
    BY <1>3, <1>4 DEF Inbox
  <2>2. ASSUME NEW e \in 1..Taken' PROVE \E g \in Recvs : consumed'[g] = e
    <3>1. CASE e = Taken + 1
      BY <1>10, <3>1
    <3>2. CASE e # Taken + 1
      <4>1. e \in 1..Taken
        BY <1>4, <3>2
      <4>2. PICK g \in Recvs : consumed[g] = e
        BY <4>1 DEF Inbox
      <4>3. g # h
        BY <1>10, <4>1, <4>2
      <4> QED
        BY <1>11, <4>2, <4>3
    <3> QED
      BY <3>1, <3>2
  <2> QED
    BY <1>4, <2>1, <2>2 DEF Inbox
<1>13. Consumption'
  <2> SUFFICES ASSUME NEW g \in Recvs PROVE Consumption!(g)'
    BY DEF Consumption
  <2>1. CASE g = h
    <3>1. consumed'[g] = Taken' /\ consumed'[g] # 0 /\ u_op'[g] = "done"
      BY <1>4, <1>10, <2>1
    <3>2. u_ans'[g] = <<U!Min({datagrams'[consumed'[g]].size, room'[g]})>>
      BY <1>1, <1>4, <1>10, <2>1 DEF n, d
    <3>3. csock'[g] = U!KernelName(datagrams'[consumed'[g]].src)
      BY <1>1, <1>4, <1>10, <2>1 DEF d
    <3>4. u_fut'[g] # "Finished" /\ got'[g] = <<>>
      BY <1>1, <1>10, <1>11, <2>1 DEF UdpPortOrder, Consumption
    <3>5. Len(got'[g]) # 2
      BY <3>4, ResultLengths
    <3>6. room'[g] \in RecvLens
      BY <1>1, <1>10, <2>1 DEF UdpPortOrder, Consumption
    <3> QED
      BY <1>4, <3>1, <3>2, <3>3, <3>4, <3>5, <3>6
  <2>2. CASE g # h
    <3>1. consumed'[g] = consumed[g] /\ u_op'[g] = u_op[g] /\ u_ans'[g] = u_ans[g]
          /\ csock'[g] = csock[g] /\ u_fut'[g] = u_fut[g]
      BY <1>11, <2>2
    <3>2. consumed'[g] <= Taken'
      <4>1. consumed[g] <= Taken
        BY DEF Consumption
      <4> QED
        BY <1>4, <3>1, <4>1, NumbersTyped
    <3> QED
      BY <1>1, <3>1, <3>2 DEF Consumption
  <2> QED
    BY <2>1, <2>2
<1>14. Order'
  <2>1. \A k \in 1..Len(received) : received[k] \in Nat /\ received[k] <= Taken
    BY NumbersTyped DEF Order, UdpTyped
  <2>2. \A k \in 1..Len(received) : received[k] <= Taken + 1 /\ received[k] < Taken + 1
    BY <1>4, <2>1
  <2>3. ASSUME NEW g \in Recvs, u_fut'[g] = "Submitted", consumed'[g] # 0
        PROVE  \A k \in 1..Len(received) : received[k] < consumed'[g]
    <3>1. CASE g = h
      BY <1>10, <2>2, <3>1
    <3>2. CASE g # h
      BY <1>11, <2>3, <3>2 DEF Order
    <3> QED
      BY <3>1, <3>2
  <2> QED
    BY <1>1, <1>4, <1>11, <2>2, <2>3 DEF Order
<1>15. ReceivedAsSent'
  <2> SUFFICES ASSUME NEW g \in Recvs, Len(got[g]) = 2
               PROVE  got[g] = <<U!Min({datagrams[consumed'[g]].size, room[g]}),
                                 datagrams[consumed'[g]].src>>
    BY <1>1 DEF ReceivedAsSent, U!ReceivedAsSent
  <2>1. g # h
    BY <1>10 DEF Consumption
  <2> QED
    BY <1>11, <2>1 DEF ReceivedAsSent, U!ReceivedAsSent
<1>16. Replies'
  <2>1. \A g \in Sends : u_op'[g] = u_op[g] /\ u_ans'[g] = u_ans[g] /\ csock'[g] = csock[g]
    BY <1>11, UdpAssumption
  <2> QED
    BY <1>1, <1>11, <2>1 DEF Replies
<1> QED
  BY <1>8, <1>9, <1>12, <1>13, <1>14, <1>15, <1>16 DEF UdpInv

\* A step that gives no answer, starts no future and ends no recv_from().
LEMMA UdpFrame ==
  ASSUME UdpInv, UdpPortTyped', UdpPortOrder',
         UNCHANGED <<datagrams, inbox, csock, room, consumed, got, received, replies,
                     delivered, u_ans>>,
         u_panicked' \in BOOLEAN,
         \A h \in U!Handles : u_fut'[h] = "New" <=> u_fut[h] = "New",
         \A h \in Recvs : /\ u_fut'[h] = "Finished" <=> u_fut[h] = "Finished"
                          /\ u_fut'[h] = "Submitted" => u_fut[h] = "Submitted"
  PROVE  UdpInv'
<1> USE DEF UdpInv, U!Handles
<1>1. \A h \in U!Handles : u_op'[h] = "done" <=> u_op[h] = "done"
  BY DEF UdpPortOrder
<1>2. UdpTyped'
  BY DEF UdpTyped
<1>3. Inbox'
  BY DEF Inbox, Taken
<1>4. Consumption'
  BY <1>1 DEF Consumption, Taken
<1>5. Order'
  BY DEF Order, Taken
<1>6. ReceivedAsSent'
  BY DEF ReceivedAsSent, U!ReceivedAsSent
<1>7. Replies'
  BY <1>1 DEF Replies, UdpTyped
<1> QED
  BY <1>2, <1>3, <1>4, <1>5, <1>6, <1>7

\* The kernel fails an operation: what it returns is no datagram, and no reply is sent.
LEMMA UdpKernelFails ==
  ASSUME UdpInv, NEW h \in U!Handles, U!KernelFails(h)
  PROVE  UdpInv'
<1> USE DEF UdpInv, U!Handles
<1>1. /\ U!Io!Answer(h, U!Failed)
      /\ UNCHANGED <<datagrams, inbox, csock, room, consumed, got, received, replies,
                     delivered, u_panicked>>
  BY DEF U!KernelFails
<1> USE <1>1
<1>2. UdpPortTyped' /\ UdpPortOrder'
  BY UdpPortSteps DEF UdpAnswers
<1>3. /\ u_fut' = u_fut /\ u_op[h] = "kernel" /\ u_ans'[h] = <<U!Failed>>
      /\ \A g \in U!Handles : g # h => u_op'[g] = u_op[g] /\ u_ans'[g] = u_ans[g]
  BY DEF U!Io!Answer, UdpPortTyped
<1>4. UdpTyped' /\ Inbox' /\ Order' /\ ReceivedAsSent'
  BY <1>3 DEF UdpTyped, Inbox, Taken, Order, ReceivedAsSent, U!ReceivedAsSent
<1>5. Consumption'
  <2> SUFFICES ASSUME NEW g \in Recvs PROVE Consumption!(g)'
    BY DEF Consumption
  <2>1. CASE g = h
    BY <1>3, <2>1 DEF Consumption, Taken
  <2>2. CASE g # h
    BY <1>3, <2>2 DEF Consumption, Taken
  <2> QED
    BY <2>1, <2>2
<1>6. Replies'
  BY <1>3 DEF Replies
<1> QED
  BY <1>2, <1>4, <1>5, <1>6

\* The kernel sends a reply to the address it reads, or fails it.
LEMMA UdpKernelSend ==
  ASSUME UdpInv, NEW h \in Sends, U!KernelSend(h)
  PROVE  UdpInv'
<1> USE DEF U!Handles
<1>0. /\ UdpPortTyped /\ UdpTyped /\ UdpPortOrder /\ Inbox /\ Consumption /\ Order
      /\ ReceivedAsSent /\ Replies
  BY DEF UdpInv
<1> USE <1>0
<1> DEFINE dst == U!KernelReads(csock[h])
           src == datagrams[replies[h]].src
<1>1. CASE U!Unreachable(dst)
  <2>1. U!KernelFails(h)
    BY <1>1 DEF U!KernelSend, U!KernelFails
  <2> QED
    BY <2>1, UdpKernelFails
<1>2. CASE ~U!Unreachable(dst)
  <2>1. U!Io!Answer(h, U!Min(Sizes)) /\ delivered' = delivered \cup {<<h, dst>>}
    BY <1>2 DEF U!KernelSend
  <2>2. UNCHANGED <<datagrams, inbox, csock, room, consumed, got, received, replies, u_panicked>>
    BY DEF U!KernelSend
  <2> USE <2>2
  <2>3. u_op[h] = "kernel" /\ u_fut[h] # "New"
    BY <2>1 DEF U!Io!Answer, UdpPortOrder
  <2>4. replies[h] \in 1..Len(datagrams) /\ csock[h] = U!from(src)
    BY <2>3 DEF Replies
  <2>5. src \in Peers /\ Sizes # {}
    BY <2>4, DatagramTyped
  <2>6. dst = src
    BY <1>2, <2>4, <2>5, AddressesSurvive
  <2>7. U!Min(Sizes) \in UdpAnswers
    <3>1. FP!Min(Sizes) \in Sizes
      BY <2>5, UdpAssumption, FileAssumption, FP!MinInSet
    <3>2. U!Min(Sizes) = FP!Min(Sizes)
      BY DEF U!Min, FP!Min
    <3> QED
      BY <3>1, <3>2 DEF UdpAnswers
  <2>8. UdpPortTyped' /\ UdpPortOrder'
    BY <2>1, <2>7, UdpPortSteps
  <2>9. /\ u_fut' = u_fut
        /\ \A g \in U!Handles : g # h => u_op'[g] = u_op[g] /\ u_ans'[g] = u_ans[g]
    BY <2>1 DEF U!Io!Answer, UdpPortTyped
  <2>10. UdpTyped'
    <3>1. csock[h] \in CAddrs
      BY DEF UdpTyped
    <3>2. <<h, dst>> \in Sends \X {U!KernelReads(c) : c \in CAddrs}
      BY <3>1
    <3>3. delivered' \subseteq Sends \X {U!KernelReads(c) : c \in CAddrs}
      BY <2>1, <3>2 DEF UdpTyped
    <3> QED
      BY <3>3 DEF UdpTyped
  <2>11. Inbox' /\ Order' /\ ReceivedAsSent'
    BY <2>9 DEF Inbox, Taken, Order, ReceivedAsSent, U!ReceivedAsSent
  <2>12. Consumption'
    <3>1. \A g \in Recvs : u_op'[g] = u_op[g] /\ u_ans'[g] = u_ans[g]
      BY <2>9, UdpAssumption
    <3> QED
      BY <2>9, <3>1 DEF Consumption, Taken
  <2>13. Replies'
    <3> HIDE DEF dst
    <3>1. \A g \in Sends : u_op'[g] = "done" /\ u_ans'[g] # <<U!Failed>> =>
                             <<g, datagrams[replies[g]].src>> \in delivered'
      BY <2>1, <2>6, <2>9 DEF Replies
    <3>2. ASSUME NEW r \in delivered'
          PROVE  u_fut[r[1]] # "New" /\ r[2] = datagrams[replies[r[1]]].src
      BY <2>1, <2>3, <2>6 DEF Replies
    <3> QED
      BY <2>9, <3>1, <3>2 DEF Replies
  <2> QED
    BY <2>8, <2>10, <2>11, <2>12, <2>13 DEF UdpInv
<1> QED
  BY <1>1, <1>2

\* A datagram arrives at the end of the inbox.
LEMMA UdpArrive ==
  ASSUME UdpInv, NEW p \in Peers, NEW sz \in Sizes, U!Arrive(p, sz)
  PROVE  UdpInv'
<1> USE DEF U!Handles
<1>0. /\ UdpPortTyped /\ UdpTyped /\ UdpPortOrder /\ Inbox /\ Consumption /\ Order
      /\ ReceivedAsSent /\ Replies
  BY DEF UdpInv
<1> USE <1>0
<1>1. /\ Len(datagrams) < MaxArrivals
      /\ datagrams' = Append(datagrams, [src |-> p, size |-> sz])
      /\ inbox' = Append(inbox, Len(datagrams'))
  BY DEF U!Arrive
<1>2. UNCHANGED <<csock, room, consumed, got, received, replies, delivered, u_panicked,
                  u_fut, u_op, u_ans, u_out>>
  BY DEF U!Arrive, U!port_vars
<1> USE <1>2
<1>3. UdpPortTyped' /\ UdpPortOrder'
  BY UdpPortSteps
<1>4. /\ Len(datagrams') = Len(datagrams) + 1
      /\ \A k \in 1..Len(datagrams) : datagrams'[k] = datagrams[k]
      /\ datagrams' \in Seq([src : Peers, size : Sizes])
  <2>1. [src |-> p, size |-> sz] \in [src : Peers, size : Sizes]
    OBVIOUS
  <2>2. datagrams \in Seq([src : Peers, size : Sizes])
    BY DEF UdpTyped
  <2> QED
    BY <1>1, <2>1, <2>2
<1>5. /\ Len(inbox') = Len(inbox) + 1 /\ inbox' \in Seq(Nat)
      /\ \A k \in 1..Len(inbox) : inbox'[k] = inbox[k]
      /\ inbox'[Len(inbox) + 1] = Len(datagrams) + 1
  BY <1>1, <1>4, NumbersTyped DEF UdpTyped
<1>6. UdpTyped'
  <2>1. Len(datagrams') <= MaxArrivals
    BY <1>1, <1>4, NumbersTyped, UdpAssumption
  <2> QED
    BY <1>4, <1>5, <2>1 DEF UdpTyped
<1>7. Taken' = Taken
  BY <1>4, <1>5, NumbersTyped DEF Taken
<1>8. Inbox'
  <2>1. ASSUME NEW k \in 1..Len(inbox') PROVE inbox'[k] = Taken + k
    <3>1. CASE k = Len(inbox) + 1
      BY <1>5, <3>1, NumbersTyped DEF Taken
    <3>2. CASE k # Len(inbox) + 1
      <4>1. k \in 1..Len(inbox)
        BY <1>5, <3>2, NumbersTyped
      <4> QED
        BY <1>5, <4>1 DEF Inbox
    <3> QED
      BY <3>1, <3>2
  <2> QED
    BY <1>7, <2>1 DEF Inbox
<1>9. \A g \in Recvs : consumed[g] # 0 => datagrams'[consumed[g]] = datagrams[consumed[g]]
  <2>1. \A g \in Recvs : consumed[g] <= Taken
    BY DEF Consumption
  <2> QED
    BY <1>4, <2>1, NumbersTyped
<1>10. Consumption'
  BY <1>7, <1>9 DEF Consumption
<1>11. Order'
  BY <1>7 DEF Order
<1>12. ReceivedAsSent'
  BY <1>9 DEF ReceivedAsSent, U!ReceivedAsSent, Consumption
<1>13. Replies'
  <2>1. \A g \in Sends : u_fut[g] # "New" =>
          /\ replies[g] \in 1..Len(datagrams')
          /\ datagrams'[replies[g]] = datagrams[replies[g]]
    <3>1. \A g \in Sends : u_fut[g] # "New" => replies[g] \in 1..Len(datagrams)
      BY DEF Replies
    <3>2. 1..Len(datagrams) \subseteq 1..Len(datagrams')
      BY <1>4, NumbersTyped
    <3> QED
      BY <1>4, <3>1, <3>2
  <2>2. \A r \in delivered : r[1] \in Sends
    BY DEF UdpTyped
  <2>3. \A g \in Sends : u_op[g] = "done" => u_fut[g] # "New"
    BY DEF UdpPortOrder
  <2> QED
    BY <2>1, <2>2, <2>3 DEF Replies
<1> QED
  BY <1>3, <1>6, <1>8, <1>10, <1>11, <1>12, <1>13 DEF UdpInv

\* Every step keeps the invariant.
LEMMA UdpStep == UdpInv /\ [U!Next]_(U!vars) => UdpInv'
<1> SUFFICES ASSUME UdpInv, [U!Next]_(U!vars) PROVE UdpInv'
  OBVIOUS
<1> USE DEF U!Handles
<1>0. UdpPortTyped /\ UdpPortOrder /\ u_panicked \in BOOLEAN
  BY DEF UdpInv, UdpTyped
<1>1. ASSUME NEW h \in Recvs, NEW len \in RecvLens, U!recv_from(h, len) PROVE UdpInv'
  BY <1>1, UdpRecvFrom
<1>2. ASSUME NEW h \in Recvs, U!RecvReady(h) PROVE UdpInv'
  BY <1>2, UdpRecvReady
<1>3. ASSUME NEW h \in Recvs, U!KernelRecv(h) PROVE UdpInv'
  BY <1>3, UdpKernelRecv
<1>4. ASSUME NEW h \in Sends, NEW r \in Recvs, U!send_to(h, r) PROVE UdpInv'
  BY <1>4, UdpSendTo
<1>5. ASSUME NEW h \in Sends, U!SendPanics(h) PROVE UdpInv'
  <2>1. UdpPortTyped' /\ UdpPortOrder'
    BY <1>0, <1>5, UdpPortSteps DEF U!SendPanics, U!port_vars
  <2>2. u_panicked' \in BOOLEAN
    BY <1>5, Zenon DEF U!SendPanics
  <2> QED
    BY <1>5, <2>1, <2>2, UdpFrame DEF U!SendPanics, U!port_vars
<1>6. ASSUME NEW h \in Sends, U!SendReady(h) PROVE UdpInv'
  <2>1. UdpPortTyped' /\ UdpPortOrder'
    BY <1>0, <1>6, UdpPortSteps DEF U!SendReady
  <2> QED
    BY <1>0, <1>6, <2>1, UdpFrame, UdpAssumption DEF U!SendReady, U!Io!Take, UdpPortTyped
<1>7. ASSUME NEW h \in Sends, U!KernelSend(h) PROVE UdpInv'
  BY <1>7, UdpKernelSend
<1>8. ASSUME NEW h \in U!Handles, U!DropFuture(h) PROVE UdpInv'
  <2>1. UdpPortTyped' /\ UdpPortOrder'
    BY <1>0, <1>8, UdpPortSteps DEF U!DropFuture
  <2> QED
    BY <1>0, <1>8, <2>1, UdpFrame DEF U!DropFuture, U!Io!Drop, UdpPortTyped
<1>9. ASSUME NEW h \in U!Handles, U!KernelFails(h) PROVE UdpInv'
  BY <1>9, UdpKernelFails
<1>10. ASSUME NEW p \in Peers, NEW sz \in Sizes, U!Arrive(p, sz) PROVE UdpInv'
  BY <1>10, UdpArrive
<1>11. CASE U!React
  <2>1. UdpPortTyped' /\ UdpPortOrder'
    BY <1>0, <1>11, UdpPortSteps DEF U!React
  <2> QED
    BY <1>0, <1>11, <2>1, UdpFrame DEF U!React, U!Io!Enter
<1>12. CASE UNCHANGED U!vars
  <2>1. UdpPortTyped' /\ UdpPortOrder'
    BY <1>0, <1>12, UdpPortSteps DEF U!vars, U!port_vars
  <2> QED
    BY <1>0, <1>12, <2>1, UdpFrame DEF U!vars, U!port_vars
<1> QED
  BY <1>1, <1>2, <1>3, <1>4, <1>5, <1>6, <1>7, <1>8, <1>9, <1>10, <1>11, <1>12 DEF U!Next

\* The invariant gives the three properties.
LEMMA UdpInvImplies == UdpInv => ReceivedInOrder /\ ReceivedAsSent /\ ReplyReachesSender
<1> SUFFICES ASSUME UdpInv PROVE ReceivedInOrder /\ ReceivedAsSent /\ ReplyReachesSender
  OBVIOUS
<1> USE DEF UdpInv, U!Handles
<1>1. DOMAIN received = 1..Len(received) /\ DOMAIN datagrams = 1..Len(datagrams)
      /\ DOMAIN inbox = 1..Len(inbox)
  BY DEF UdpTyped
<1>2. \A m, n \in DOMAIN received : m < n => received[m] < received[n]
  BY <1>1 DEF Order
<1>3. ASSUME NEW d \in DOMAIN datagrams
      PROVE  \/ d \in U!ToSet(received) \/ d \in U!ToSet(inbox)
             \/ \E h \in Recvs : consumed[h] = d /\ u_fut[h] \in {"Submitted", "Gone"}
  <2>1. CASE d > Taken
    <3>1. d - Taken \in 1..Len(inbox)
      BY <1>1, <2>1, NumbersTyped DEF Taken
    <3>2. inbox[d - Taken] = d
      BY <1>1, <3>1, NumbersTyped DEF Inbox
    <3> QED
      BY <1>1, <3>1, <3>2 DEF U!ToSet
  <2>2. CASE d <= Taken
    <3>1. PICK h \in Recvs : consumed[h] = d
      BY <1>1, <2>2, NumbersTyped DEF Inbox
    <3>2. d # 0 /\ u_op[h] = "done"
      <4>1. d # 0
        BY <1>1, NumbersTyped
      <4> QED
        BY <3>1, <4>1 DEF Consumption
    <3>3. u_fut[h] \in {"Submitted", "Gone", "Finished"}
      BY <3>2 DEF UdpPortOrder, UdpPortTyped
    <3>4. u_fut[h] = "Finished" => d \in U!ToSet(received)
      BY <1>1, <3>1, <3>2 DEF Consumption, U!ToSet
    <3> QED
      BY <3>1, <3>3, <3>4
  <2> QED
    BY <1>1, <2>1, <2>2, NumbersTyped
<1>4. ReceivedInOrder
  BY <1>2, <1>3 DEF ReceivedInOrder, U!ReceivedInOrder
<1>5. ReplyReachesSender
  <2>1. \A h \in Sends : u_fut[h] = "Finished" => u_op[h] = "done"
    BY DEF UdpPortOrder
  <2> QED
    BY <2>1 DEF ReplyReachesSender, U!ReplyReachesSender, Replies
<1> QED
  BY <1>4, <1>5

\* Datagrams are returned in the order of arrival, none twice, and only a dropped
\* future loses one (udp.rs:70-79).
THEOREM DatagramsInOrder == U!Spec => []ReceivedInOrder
  BY UdpInit, UdpStep, UdpInvImplies, PTL DEF U!Spec

\* Each is returned with its own sender and length (udp.rs:144-152).
THEOREM DatagramsAsSent == U!Spec => []ReceivedAsSent
  BY UdpInit, UdpStep, UdpInvImplies, PTL DEF U!Spec

\* A reply reaches the sender it answers and nobody else (udp.rs:15-20).
THEOREM RepliesReachSenders == U!Spec => []ReplyReachesSender
  BY UdpInit, UdpStep, UdpInvImplies, PTL DEF U!Spec

-----------------------------------------------------------------------------
(***************************************************************************)
(* TCP.                                                                    *)
(***************************************************************************)
\* Answers of a connect, and what can come of an address.
TcpAnswers == {0, C!Refused}
LoopSteps == {"ok", "socket", "bind", "listen", "connect"}

\* TypeOK with the log, the results and the answers typed in full.
TcpPortTyped ==
  /\ c_fut \in [C!Attempts -> {"New", "Submitted", "Finished", "Gone"}]
  /\ c_op \in [C!Attempts -> {"none", "queued", "kernel", "done"}]
  /\ c_ans \in [C!Attempts -> {<<>>} \cup {<<v>> : v \in TcpAnswers}]
  /\ c_out \in [C!Attempts -> {<<>>} \cup {<<C!Io!ToResult(v)>> : v \in TcpAnswers}]
CallTyped ==
  /\ kind \in {"none", "bind", "connect"} /\ sock \in BOOLEAN
  /\ addrs \in Seq(Addrs) /\ Len(addrs) <= MaxAddrs
  /\ i \in 1..(MaxAddrs + 1)
  /\ log \in Seq(LoopSteps \X Addrs)
  /\ result = <<>> \/ \E r : result = <<r>>
  /\ seen \in [C!Attempts -> Addrs \cup {Garbage, C!NoAddr}]
  /\ peer \in Addrs \cup {C!NoAddr}
ListenerTyped ==
  /\ listener \in {"none", "bound", "queued", "armed", "ended", "gone"}
  /\ arrived \in 0..MaxConns /\ accepted \in 0..arrived
  /\ cq \in Seq(Int) /\ ring \in Seq(Int) /\ Len(ring) <= RingCap /\ handed \in Seq(Int)
  /\ finished \in BOOLEAN /\ overflow \in BOOLEAN /\ c_panicked \in BOOLEAN

\* An attempt whose operation is done has an answer.
TcpAnswered == \A a \in C!Attempts : c_op[a] = "done" => c_ans[a] # <<>>

\* While the loop runs, it has failed on each address before the one it is at, and
\* holds the error of the last of them.
Loop ==
  /\ kind = "none" => i = 1 /\ sock = FALSE /\ log = <<>> /\ result = <<>>
  /\ result = <<>> =>
       /\ listener = "none"
       /\ Len(log) = i - 1
       /\ kind # "none" => i <= Len(addrs) + 1
       /\ \A n \in 1..Len(log) : log[n][2] = addrs[n] /\ log[n][1] \notin {"ok", "socket"}
       /\ log # <<>> => last_err = log[Len(log)]
       /\ sock => i <= Len(addrs)

\* The result at a place of the stream: a connection up to the last one accepted,
\* and the end after it.
Place(n, x) == IF n <= accepted THEN x = n ELSE x \in {C!AcceptError, C!None}

\* The results handed over, kept and on their way are one stream.
Accepting ==
  /\ listener \in {"none", "bound", "queued"} =>
       accepted = 0 /\ handed = <<>> /\ ring = <<>> /\ cq = <<>>
  /\ finished /\ listener # "gone" => listener = "ended" /\ cq = <<>>
  /\ listener # "gone" /\ ~overflow =>
       /\ \A n \in 1..Len(handed) : Place(n, handed[n])
       /\ \A n \in 1..Len(ring) : Place(Len(handed) + n, ring[n])
       /\ \A n \in 1..Len(cq) : Place(Len(handed) + Len(ring) + n, cq[n])
       /\ IF listener = "ended" THEN accepted < Len(handed) + Len(ring) + Len(cq)
          ELSE accepted = Len(handed) + Len(ring) + Len(cq)
       /\ (\E n \in 1..Len(handed) : handed[n] = C!None) => accepted < Len(handed)

\* The inductive invariant of TCP.
TcpInv ==
  /\ TcpPortTyped /\ CallTyped /\ ListenerTyped
  /\ TcpAnswered
  /\ Loop /\ LoopReturns
  /\ Accepting

-----------------------------------------------------------------------------
\* A step of one attempt, or react(), keeps the types, and answers what is done.
LEMMA TcpPortSteps ==
  ASSUME TcpPortTyped, TcpAnswered,
         \/ C!Io!Enter
         \/ \E a \in C!Attempts : \/ C!Io!Submit(a) \/ C!Io!Take(a) \/ C!Io!Drop(a)
                                  \/ \E v \in TcpAnswers : C!Io!Answer(a, v)
         \/ UNCHANGED C!port
  PROVE  TcpPortTyped' /\ TcpAnswered'
<1> USE DEF TcpPortTyped, TcpAnswered
<1>1. CASE C!Io!Enter
  BY <1>1 DEF C!Io!Enter
<1>2. ASSUME NEW a \in C!Attempts, C!Io!Submit(a) PROVE TcpPortTyped' /\ TcpAnswered'
  BY <1>2 DEF C!Io!Submit
<1>3. ASSUME NEW a \in C!Attempts, C!Io!Take(a) PROVE TcpPortTyped' /\ TcpAnswered'
  <2>1. PICK v \in TcpAnswers : c_ans[a] = <<v>>
    BY <1>3 DEF C!Io!Take
  <2> QED
    BY <1>3, <2>1 DEF C!Io!Take
<1>4. ASSUME NEW a \in C!Attempts, C!Io!Drop(a) PROVE TcpPortTyped' /\ TcpAnswered'
  BY <1>4 DEF C!Io!Drop
<1>5. ASSUME NEW a \in C!Attempts, NEW v \in TcpAnswers, C!Io!Answer(a, v)
      PROVE  TcpPortTyped' /\ TcpAnswered'
  BY <1>5 DEF C!Io!Answer
<1>6. CASE UNCHANGED C!port
  BY <1>6 DEF C!port
<1> QED
  BY <1>1, <1>2, <1>3, <1>4, <1>5, <1>6

\* What came of the address the loop is at is added to the log.
LEMMA LogGrows ==
  ASSUME CallTyped, Loop, C!Running, i <= Len(addrs), NEW step \in LoopSteps,
         log' = Append(log, C!Failure(step, addrs[i])), addrs' = addrs
  PROVE  /\ log' \in Seq(LoopSteps \X Addrs) /\ Len(log') = i /\ i \in C!Attempts
         /\ log'[i] = <<step, addrs[i]>>
         /\ \A n \in 1..(i - 1) : log'[n] = <<log'[n][1], addrs[n]>>
                                  /\ log'[n][1] \notin {"ok", "socket"}
<1>1. i \in Nat \ {0} /\ i - 1 \in Nat /\ MaxAddrs \in Nat /\ Len(addrs) \in Nat
  BY TcpAssumption DEF CallTyped
<1>2. log \in Seq(LoopSteps \X Addrs) /\ addrs \in Seq(Addrs)
  BY DEF CallTyped
<1>3. addrs[i] \in Addrs
  BY <1>1, <1>2
<1>4. C!Failure(step, addrs[i]) = <<step, addrs[i]>> /\ <<step, addrs[i]>> \in LoopSteps \X Addrs
  BY <1>3 DEF C!Failure
<1>5. Len(log) = i - 1
  BY DEF Loop, C!Running
<1>6. /\ log' \in Seq(LoopSteps \X Addrs) /\ Len(log') = i /\ log'[i] = <<step, addrs[i]>>
      /\ \A n \in 1..(i - 1) : log'[n] = log[n]
  BY <1>1, <1>2, <1>4, <1>5
<1>7. ASSUME NEW n \in 1..(i - 1)
      PROVE  log'[n] = <<log'[n][1], addrs[n]>> /\ log'[n][1] \notin {"ok", "socket"}
  <2>1. log'[n] = log[n] /\ log[n] \in LoopSteps \X Addrs
    BY <1>2, <1>5, <1>6
  <2>2. log[n][2] = addrs[n] /\ log[n][1] \notin {"ok", "socket"}
    BY <1>5 DEF Loop, C!Running
  <2>3. log[n] = <<log[n][1], log[n][2]>>
    BY <2>1
  <2> QED
    BY <2>1, <2>2, <2>3
<1>8. i \in C!Attempts
  BY <1>1 DEF C!Attempts, CallTyped
<1> QED
  BY <1>6, <1>7, <1>8

\* The loop goes on to the next address.
LEMMA LoopTriesNext ==
  ASSUME CallTyped, Loop, C!Running, i <= Len(addrs), NEW step \in LoopSteps \ {"ok", "socket"},
         C!TryNext(step), UNCHANGED <<kind, addrs, listener, seen>>,
         peer' \in Addrs \cup {C!NoAddr}
  PROVE  CallTyped' /\ Loop' /\ LoopReturns'
<1>1. /\ last_err' = C!Failure(step, addrs[i]) /\ log' = Append(log, C!Failure(step, addrs[i]))
      /\ i' = i + 1 /\ sock' = FALSE /\ result' = result
  BY DEF C!TryNext
<1>2. /\ log' \in Seq(LoopSteps \X Addrs) /\ Len(log') = i /\ i \in C!Attempts
      /\ log'[i] = <<step, addrs[i]>>
      /\ \A n \in 1..(i - 1) : log'[n] = <<log'[n][1], addrs[n]>>
                               /\ log'[n][1] \notin {"ok", "socket"}
  BY <1>1, LogGrows
<1>3. i \in Nat \ {0} /\ Len(addrs) \in Nat /\ MaxAddrs \in Nat
  BY TcpAssumption DEF CallTyped
<1>4. CallTyped'
  <2>1. i' \in 1..(MaxAddrs + 1)
    BY <1>1, <1>2, <1>3 DEF C!Attempts
  <2>2. sock' \in BOOLEAN
    BY <1>1, Zenon
  <2> QED
    BY <1>1, <1>2, <2>1, <2>2 DEF CallTyped
<1>5. Loop'
  <2>1. \A n \in 1..Len(log') : log'[n][2] = addrs'[n] /\ log'[n][1] \notin {"ok", "socket"}
    BY <1>2, <1>3
  <2>2. last_err' = log'[Len(log')]
    BY <1>1, <1>2 DEF C!Failure
  <2>3. kind' # "none" /\ Len(log') = i' - 1 /\ i' <= Len(addrs') + 1
    BY <1>1, <1>2, <1>3 DEF C!Running
  <2>4. listener' = "none"
    BY DEF Loop, C!Running
  <2> QED
    BY <1>1, <2>1, <2>2, <2>3, <2>4 DEF Loop
<1>6. LoopReturns'
  BY <1>1 DEF LoopReturns, C!LoopReturns, C!Running
<1> QED
  BY <1>4, <1>5, <1>6

\* The loop returns with the socket, or because there is none.
LEMMA LoopReturnsNow ==
  ASSUME CallTyped, Loop, C!Running, i <= Len(addrs), NEW step \in {"ok", "socket"},
         log' = Append(log, C!Failure(step, addrs[i])),
         result' = IF step = "ok" THEN C!Ok(addrs[i]) ELSE C!Err(C!Failure(step, addrs[i])),
         UNCHANGED <<kind, addrs, i, sock, seen, peer>>
  PROVE  CallTyped' /\ Loop' /\ LoopReturns'
<1>1. /\ log' \in Seq(LoopSteps \X Addrs) /\ Len(log') = i /\ i \in C!Attempts
      /\ log'[i] = <<step, addrs[i]>>
      /\ \A n \in 1..(i - 1) : log'[n] = <<log'[n][1], addrs[n]>>
                               /\ log'[n][1] \notin {"ok", "socket"}
  BY LogGrows DEF LoopSteps
<1>2. result' # <<>> /\ \E r : result' = <<r>>
  BY DEF C!Ok, C!Err
<1>3. CallTyped'
  BY <1>1, <1>2 DEF CallTyped
<1>4. Loop'
  BY <1>2 DEF Loop, C!Running
<1>5. LoopReturns'
  <2>1. log'[Len(log')] = <<step, addrs[i]>>
    BY <1>1
  <2>2. \A n \in 1..(Len(log') - 1) : log'[n] = C!Failure(log'[n][1], addrs'[n])
                                      /\ log'[n][1] \notin {"ok", "socket"}
    BY <1>1 DEF C!Failure
  <2>3. result' = IF step = "ok" THEN C!Ok(addrs[i]) ELSE C!Err(<<step, addrs[i]>>)
    BY DEF C!Failure
  <2> QED
    BY <1>1, <2>1, <2>2, <2>3 DEF LoopReturns, C!LoopReturns
<1> QED
  BY <1>3, <1>4, <1>5

\* A step that leaves the loop alone.
LEMMA LoopFrame ==
  ASSUME CallTyped, Loop, LoopReturns,
         UNCHANGED <<kind, addrs, i, sock, last_err, result, log>>,
         seen' \in [C!Attempts -> Addrs \cup {Garbage, C!NoAddr}],
         peer' \in Addrs \cup {C!NoAddr},
         result = <<>> => listener' = "none"
  PROVE  CallTyped' /\ Loop' /\ LoopReturns'
<1>1. CallTyped'
  BY DEF CallTyped
<1>2. Loop'
  BY DEF Loop
<1>3. LoopReturns'
  BY DEF LoopReturns, C!LoopReturns
<1> QED
  BY <1>1, <1>2, <1>3

\* A step of the call leaves the listener alone.
LEMMA ListenerFrame ==
  ASSUME ListenerTyped, Accepting, UNCHANGED C!listener_vars
  PROVE  ListenerTyped' /\ Accepting'
  BY DEF C!listener_vars, ListenerTyped, Accepting, Place

\* No call has been made.
LEMMA TcpInit == C!Init => TcpInv
<1> SUFFICES ASSUME C!Init PROVE TcpInv
  OBVIOUS
<1> USE TcpAssumption DEF C!Init, C!Io!Init
<1>1. TcpPortTyped /\ TcpAnswered
  BY DEF TcpPortTyped, TcpAnswered
<1>2. CallTyped
  <2>1. sock \in BOOLEAN
    BY Zenon
  <2>2. kind \in {"none", "bind", "connect"} /\ result = <<>> /\ i \in 1..(MaxAddrs + 1)
    OBVIOUS
  <2>3. addrs \in Seq(Addrs) /\ Len(addrs) <= MaxAddrs /\ log \in Seq(LoopSteps \X Addrs)
    OBVIOUS
  <2>4. seen \in [C!Attempts -> Addrs \cup {Garbage, C!NoAddr}] /\ peer \in Addrs \cup {C!NoAddr}
    OBVIOUS
  <2> QED
    BY <2>1, <2>2, <2>3, <2>4 DEF CallTyped
<1>3. ListenerTyped
  <2>1. finished \in BOOLEAN /\ overflow \in BOOLEAN /\ c_panicked \in BOOLEAN
    BY Zenon
  <2>2. cq \in Seq(Int) /\ ring \in Seq(Int) /\ Len(ring) <= RingCap /\ handed \in Seq(Int)
    OBVIOUS
  <2> QED
    BY <2>1, <2>2 DEF ListenerTyped
<1>4. Loop
  BY DEF Loop
<1>5. LoopReturns
  BY DEF LoopReturns, C!LoopReturns
<1>6. Accepting
  BY DEF Accepting
<1> QED
  BY <1>1, <1>2, <1>3, <1>4, <1>5, <1>6 DEF TcpInv

\* A function on 1..m is a sequence.
LEMMA SeqOfFunction ==
  ASSUME NEW S, NEW m \in Nat, NEW s \in [1..m -> S] PROVE s \in Seq(S) /\ Len(s) = m
  OBVIOUS

\* The loop starts at the first address.
LEMMA LoopStarts ==
  ASSUME CallTyped', kind' # "none", listener' = "none", i' = 1, sock' = FALSE, log' = <<>>
  PROVE  Loop'
<1>1. Len(addrs') \in Nat
  BY DEF CallTyped
<1>2. Len(log') = 0
  BY ResultLengths
<1>3. i' <= Len(addrs') + 1 /\ Len(log') = i' - 1 /\ 1..Len(log') = {}
  BY <1>1, <1>2
<1> QED
  BY <1>3 DEF Loop

\* The call is made, tries its addresses and returns.
LEMMA TcpCallSteps ==
  ASSUME TcpInv,
         \/ \E k \in {"bind", "connect"} :
              \/ \E list \in C!BoundedSeq(Addrs, MaxAddrs) : C!Call(k, list)
              \/ C!Unresolved(k)
         \/ C!MkSock \/ C!MkSockFails \/ C!Exhausted
  PROVE  TcpInv'
<1>0. /\ TcpPortTyped /\ CallTyped /\ ListenerTyped /\ TcpAnswered /\ Loop /\ LoopReturns
      /\ Accepting
  BY DEF TcpInv
<1> USE <1>0
<1> SUFFICES CallTyped' /\ Loop' /\ LoopReturns'
  <2>1. UNCHANGED C!port /\ UNCHANGED C!listener_vars
    BY DEF C!Call, C!Unresolved, C!MkSock, C!MkSockFails, C!Exhausted
  <2> QED
    BY <2>1, TcpPortSteps, ListenerFrame DEF TcpInv
<1>1. ASSUME NEW k \in {"bind", "connect"}, NEW list \in C!BoundedSeq(Addrs, MaxAddrs),
             C!Call(k, list)
      PROVE  CallTyped' /\ Loop' /\ LoopReturns'
  <2>1. list \in Seq(Addrs) /\ Len(list) <= MaxAddrs /\ Len(list) \in Nat
    <3>1. PICK m \in 0..MaxAddrs : list \in [1..m -> Addrs]
      BY DEF C!BoundedSeq, C!SeqOf
    <3>2. m \in Nat /\ m <= MaxAddrs
      BY TcpAssumption
    <3>3. list \in Seq(Addrs) /\ Len(list) = m
      BY <3>1, <3>2, SeqOfFunction
    <3> QED
      BY <3>2, <3>3
  <2>2. i = 1 /\ sock = FALSE /\ log = <<>> /\ result = <<>> /\ listener = "none"
    BY <1>1 DEF C!Call, Loop
  <2>3. UNCHANGED <<i, sock, result, log, seen, peer>> /\ listener' = listener
    BY <1>1 DEF C!Call, C!listener_vars
  <2>4. kind' = k /\ addrs' = list
    BY <1>1 DEF C!Call
  <2>5. CallTyped'
    BY <2>1, <2>3, <2>4 DEF CallTyped
  <2>6. Loop'
    <3>1. kind' # "none" /\ listener' = "none" /\ i' = 1 /\ sock' = FALSE /\ log' = <<>>
      BY <2>2, <2>3, <2>4
    <3> QED
      BY <2>5, <3>1, LoopStarts
  <2>7. LoopReturns'
    BY <2>2, <2>3 DEF LoopReturns, C!LoopReturns
  <2> QED
    BY <2>5, <2>6, <2>7
<1>2. ASSUME NEW k \in {"bind", "connect"}, C!Unresolved(k)
      PROVE  CallTyped' /\ Loop' /\ LoopReturns'
  <2>1. log = <<>> /\ log' = log /\ kind' = k
    BY <1>2 DEF C!Unresolved, Loop
  <2>2. result' # <<>> /\ \E r : result' = <<r>>
    BY <1>2 DEF C!Unresolved, C!Err
  <2>3. UNCHANGED <<addrs, i, sock, log, seen, peer>>
    BY <1>2 DEF C!Unresolved
  <2>4. CallTyped'
    BY <2>1, <2>2, <2>3 DEF CallTyped
  <2>5. Loop' /\ LoopReturns'
    BY <2>1, <2>2 DEF Loop, LoopReturns, C!LoopReturns
  <2> QED
    BY <2>4, <2>5
<1>3. CASE C!MkSock
  <2>1. C!Running /\ i <= Len(addrs) /\ sock' = TRUE
    BY <1>3 DEF C!MkSock
  <2>2. UNCHANGED <<kind, addrs, i, last_err, result, log, seen, peer>> /\ listener' = listener
    BY <1>3 DEF C!MkSock, C!listener_vars
  <2>3. sock' \in BOOLEAN
    BY <2>1, Zenon
  <2>4. CallTyped'
    BY <2>2, <2>3 DEF CallTyped
  <2>5. Loop' /\ LoopReturns'
    BY <2>1, <2>2 DEF C!Running, Loop, LoopReturns, C!LoopReturns
  <2> QED
    BY <2>4, <2>5
<1>4. CASE C!MkSockFails
  <2>1. /\ C!Running /\ i <= Len(addrs)
        /\ log' = Append(log, C!Failure("socket", addrs[i]))
        /\ result' = C!Err(C!Failure("socket", addrs[i]))
        /\ UNCHANGED <<kind, addrs, i, sock, seen, peer>>
    BY <1>4 DEF C!MkSockFails
  <2> QED
    BY <2>1, LoopReturnsNow
<1>5. CASE C!Exhausted
  <2>1. C!Running /\ i > Len(addrs) /\ result' = C!Err(last_err)
    BY <1>5 DEF C!Exhausted
  <2>2. UNCHANGED <<kind, addrs, i, sock, last_err, log, seen, peer>>
    BY <1>5 DEF C!Exhausted
  <2>3. result' # <<>> /\ \E r : result' = <<r>>
    BY <2>1 DEF C!Err
  <2>4. CallTyped' /\ Loop'
    BY <2>1, <2>2, <2>3 DEF CallTyped, Loop, C!Running
  <2>5. LoopReturns'
    <3> SUFFICES ASSUME log # <<>> PROVE LoopReturns'
      BY <2>2 DEF LoopReturns, C!LoopReturns
    <3>1. i \in Nat /\ Len(addrs) \in Nat
      BY TcpAssumption DEF CallTyped
    <3>2. Len(log) = i - 1 /\ i <= Len(addrs) + 1 /\ last_err = log[Len(log)]
      BY <2>1 DEF Loop, C!Running
    <3>3. Len(log) = Len(addrs) /\ Len(log) \in Nat
      BY <2>1, <3>1, <3>2 DEF CallTyped
    <3>4. Len(log) # 0
      BY DEF CallTyped
    <3>5. ASSUME NEW n \in 1..Len(log)
          PROVE  /\ log[n] = <<log[n][1], addrs[n]>> /\ log[n][2] = addrs[n]
                 /\ log[n][1] \notin {"ok", "socket"}
      <4>1. log[n] \in LoopSteps \X Addrs
        BY DEF CallTyped
      <4>2. log[n] = <<log[n][1], log[n][2]>>
        BY <4>1
      <4> QED
        BY <2>1, <4>2 DEF Loop, C!Running
    <3>6. Len(log) \in 1..Len(log) /\ 1..(Len(log) - 1) \subseteq 1..Len(log)
      BY <3>3, <3>4
    <3> QED
      BY <2>1, <2>2, <3>2, <3>3, <3>5, <3>6 DEF LoopReturns, C!LoopReturns, C!Failure
  <2> QED
    BY <2>4, <2>5
<1> QED
  BY <1>1, <1>2, <1>3, <1>4, <1>5

\* bind() and listen() on an address.
LEMMA TcpBindListen == TcpInv /\ C!BindListen => TcpInv'
<1> SUFFICES ASSUME TcpInv, C!BindListen PROVE TcpInv'
  OBVIOUS
<1>0. /\ TcpPortTyped /\ CallTyped /\ ListenerTyped /\ TcpAnswered /\ Loop /\ LoopReturns
      /\ Accepting
  BY DEF TcpInv
<1> USE <1>0
<1>1. /\ C!Running /\ i <= Len(addrs) /\ listener = "none"
  BY DEF C!BindListen, C!Running, Loop
<1>2. UNCHANGED <<kind, addrs, seen, peer, arrived, accepted, cq, ring, finished, handed,
                  overflow, c_panicked>> /\ UNCHANGED C!port
  BY DEF C!BindListen
<1>3. TcpPortTyped' /\ TcpAnswered'
  BY <1>2, TcpPortSteps
<1>4. peer' \in Addrs \cup {C!NoAddr}
  BY <1>2 DEF CallTyped
<1>5. ASSUME NEW step \in {"bind", "listen"}, C!TryNext(step), listener' = listener PROVE TcpInv'
  <2>1. step \in LoopSteps \ {"ok", "socket"}
    BY DEF LoopSteps
  <2>2. CallTyped' /\ Loop' /\ LoopReturns'
    BY <1>1, <1>2, <1>4, <1>5, <2>1, LoopTriesNext
  <2>3. ListenerTyped' /\ Accepting'
    BY <1>2, <1>5, ListenerFrame DEF C!listener_vars
  <2> QED
    BY <1>3, <2>2, <2>3 DEF TcpInv
<1>6. CASE C!Return /\ listener' = "bound"
  <2>1. /\ log' = Append(log, C!Failure("ok", addrs[i])) /\ result' = C!Ok(addrs[i])
        /\ UNCHANGED <<i, sock>>
    BY <1>6 DEF C!Return
  <2>2. CallTyped' /\ Loop' /\ LoopReturns'
    BY <1>1, <1>2, <2>1, LoopReturnsNow
  <2>3. ListenerTyped'
    BY <1>2, <1>6 DEF ListenerTyped
  <2>4. Accepting'
    BY <1>1, <1>2, <1>6 DEF Accepting, Place
  <2> QED
    BY <1>3, <2>2, <2>3, <2>4 DEF TcpInv
<1> QED
  BY <1>5, <1>6 DEF C!BindListen

\* connect() on an address: pending, ready, or dropped.
LEMMA TcpConnectSteps ==
  ASSUME TcpInv, C!ConnectPending \/ C!ConnectReady \/ C!DropConnect
  PROVE  TcpInv'
<1>0. /\ TcpPortTyped /\ CallTyped /\ ListenerTyped /\ TcpAnswered /\ Loop /\ LoopReturns
      /\ Accepting
  BY DEF TcpInv
<1> USE <1>0
<1>1. /\ C!Running /\ i <= Len(addrs)
  BY DEF C!ConnectPending, C!ConnectReady, C!DropConnect, C!Running, Loop
<1>2. i \in C!Attempts
  BY <1>1, TcpAssumption DEF CallTyped, C!Attempts
<1>3. UNCHANGED C!listener_vars /\ UNCHANGED <<kind, addrs, seen, peer>>
  BY DEF C!ConnectPending, C!ConnectReady, C!DropConnect
<1>4. ListenerTyped' /\ Accepting'
  BY <1>3, ListenerFrame
<1>5. listener' = "none" /\ listener' = listener
  BY <1>1, <1>3 DEF Loop, C!Running, C!listener_vars
<1>6. /\ seen' \in [C!Attempts -> Addrs \cup {Garbage, C!NoAddr}]
      /\ peer' \in Addrs \cup {C!NoAddr}
  BY <1>3 DEF CallTyped
<1>7. TcpPortTyped' /\ TcpAnswered'
  <2>1. C!Io!Submit(i) \/ C!Io!Take(i) \/ C!Io!Drop(i)
    BY DEF C!ConnectPending, C!ConnectReady, C!DropConnect
  <2> QED
    BY <1>2, <2>1, TcpPortSteps
<1> SUFFICES CallTyped' /\ Loop' /\ LoopReturns'
  BY <1>4, <1>7 DEF TcpInv
<1>8. CASE C!ConnectPending
  <2>1. UNCHANGED <<kind, addrs, i, sock, last_err, result, log>>
    BY <1>8 DEF C!ConnectPending
  <2> QED
    BY <1>5, <1>6, <2>1, LoopFrame
<1>9. CASE C!ConnectReady
  <2>1. CASE C!TryNext("connect")
    <3>1. "connect" \in LoopSteps \ {"ok", "socket"}
      BY DEF LoopSteps
    <3> QED
      BY <1>1, <1>3, <1>5, <1>6, <2>1, <3>1, LoopTriesNext
  <2>2. CASE C!Return
    <3>1. /\ log' = Append(log, C!Failure("ok", addrs[i])) /\ result' = C!Ok(addrs[i])
          /\ UNCHANGED <<i, sock>>
      BY <2>2 DEF C!Return
    <3> QED
      BY <1>1, <1>3, <3>1, LoopReturnsNow
  <2> QED
    BY <1>9, <2>1, <2>2 DEF C!ConnectReady
<1>10. CASE C!DropConnect
  <2>1. result' = C!Err("dropped") /\ sock' = FALSE /\ UNCHANGED <<i, last_err, log>>
    BY <1>10 DEF C!DropConnect
  <2>2. result' # <<>> /\ \E r : result' = <<r>>
    BY <2>1 DEF C!Err
  <2>3. sock' \in BOOLEAN
    BY <2>1, Zenon
  <2>4. CallTyped' /\ Loop'
    BY <1>1, <1>3, <2>1, <2>2, <2>3 DEF CallTyped, Loop, C!Running
  <2>5. LoopReturns'
    BY <2>1 DEF LoopReturns, C!LoopReturns, C!Err
  <2> QED
    BY <2>4, <2>5
<1> QED
  BY <1>8, <1>9, <1>10

\* The kernel answers an attempt.
LEMMA TcpKernelConnect ==
  ASSUME TcpInv, NEW a \in C!Attempts, C!KernelConnect(a)
  PROVE  TcpInv'
<1>0. /\ TcpPortTyped /\ CallTyped /\ ListenerTyped /\ TcpAnswered /\ Loop /\ LoopReturns
      /\ Accepting
  BY DEF TcpInv
<1> USE <1>0
<1>1. UNCHANGED <<kind, addrs, i, sock, last_err, result, log, seen>> /\ UNCHANGED C!listener_vars
  BY DEF C!KernelConnect
<1>2. \E v \in TcpAnswers : C!Io!Answer(a, v)
  BY DEF C!KernelConnect, TcpAnswers
<1>3. TcpPortTyped' /\ TcpAnswered'
  BY <1>2, TcpPortSteps
<1>4. peer' \in Addrs \cup {C!NoAddr}
  BY DEF C!KernelConnect, CallTyped
<1>5. result = <<>> => listener' = "none"
  BY <1>1 DEF Loop, C!listener_vars
<1>6. seen' \in [C!Attempts -> Addrs \cup {Garbage, C!NoAddr}]
  BY <1>1 DEF CallTyped
<1>7. CallTyped' /\ Loop' /\ LoopReturns'
  BY <1>1, <1>4, <1>5, <1>6, LoopFrame
<1> QED
  BY <1>1, <1>3, <1>7, ListenerFrame DEF TcpInv

\* The steps of a listener leave the call that made it alone.
LEMMA TcpCallFrame ==
  ASSUME TcpInv, UNCHANGED C!call_vars, listener # "none"
  PROVE  TcpPortTyped' /\ TcpAnswered' /\ CallTyped' /\ Loop' /\ LoopReturns'
<1> USE DEF TcpInv
<1>1. UNCHANGED C!port /\ UNCHANGED <<kind, addrs, i, sock, last_err, result, log, seen, peer>>
  BY DEF C!call_vars
<1>2. TcpPortTyped' /\ TcpAnswered'
  BY <1>1, TcpPortSteps
<1>3. result # <<>>
  BY DEF Loop
<1>4. /\ seen' \in [C!Attempts -> Addrs \cup {Garbage, C!NoAddr}]
      /\ peer' \in Addrs \cup {C!NoAddr}
  BY <1>1 DEF CallTyped
<1> QED
  BY <1>1, <1>2, <1>3, <1>4, LoopFrame

\* Connections arrive, and the listener is polled first and dropped.
LEMMA TcpListenerSteps ==
  ASSUME TcpInv, C!Arrive \/ C!PollFirst \/ C!DropListener
  PROVE  TcpInv'
<1>0. /\ TcpPortTyped /\ CallTyped /\ ListenerTyped /\ TcpAnswered /\ Loop /\ LoopReturns
      /\ Accepting
  BY DEF TcpInv
<1> USE <1>0
<1>1. UNCHANGED C!call_vars
  BY DEF C!Arrive, C!PollFirst, C!DropListener
<1>2. UNCHANGED <<accepted, cq, ring, finished, handed, overflow>>
  BY DEF C!Arrive, C!PollFirst, C!DropListener
<1>3. listener # "none"
  BY DEF C!Arrive, C!PollFirst, C!DropListener, C!Listening
<1> SUFFICES ListenerTyped' /\ Accepting'
  BY <1>1, <1>3, TcpCallFrame DEF TcpInv
<1>4. CASE C!Arrive
  <2>1. /\ arrived' = arrived + 1 /\ arrived < MaxConns
        /\ UNCHANGED <<listener, c_panicked>>
    BY <1>4 DEF C!Arrive
  <2>2. arrived' \in 0..MaxConns /\ accepted' \in 0..arrived'
    BY <1>2, <2>1, TcpAssumption DEF ListenerTyped
  <2> QED
    BY <1>2, <2>1, <2>2 DEF ListenerTyped, Accepting, Place
<1>5. CASE C!PollFirst
  BY <1>2, <1>5 DEF C!PollFirst, ListenerTyped, Accepting, Place
<1>6. CASE C!DropListener
  <2>1. listener' = "gone" /\ arrived' = arrived
    BY <1>6 DEF C!DropListener
  <2>2. c_panicked' \in BOOLEAN
    <3>1. CASE listener \in {"queued", "ended"}
      BY <1>6, <3>1 DEF C!DropListener
    <3>2. CASE listener \notin {"queued", "ended"}
      BY <1>6, <3>2 DEF C!DropListener
    <3> QED
      BY <3>1, <3>2
  <2> QED
    BY <1>2, <2>1, <2>2 DEF ListenerTyped, Accepting
<1> QED
  BY <1>4, <1>5, <1>6

\* The kernel accepts the next connection, or ends the operation.
LEMMA TcpKernelAccept == TcpInv /\ C!KernelAccept => TcpInv'
<1> SUFFICES ASSUME TcpInv, C!KernelAccept PROVE TcpInv'
  OBVIOUS
<1>0. /\ TcpPortTyped /\ CallTyped /\ ListenerTyped /\ TcpAnswered /\ Loop /\ LoopReturns
      /\ Accepting
  BY DEF TcpInv
<1> USE <1>0
<1>1. listener = "armed" /\ UNCHANGED C!call_vars
      /\ UNCHANGED <<arrived, ring, finished, handed, overflow, c_panicked>>
  BY DEF C!KernelAccept
<1>2. /\ Len(handed) \in Nat /\ Len(ring) \in Nat /\ Len(cq) \in Nat
      /\ accepted \in Nat /\ arrived \in Nat /\ accepted <= arrived
  BY TcpAssumption DEF ListenerTyped
<1> SUFFICES ListenerTyped' /\ Accepting'
  BY <1>1, TcpCallFrame DEF TcpInv
<1>3. ~finished
  BY <1>1 DEF Accepting
<1>4. ~overflow => /\ accepted = Len(handed) + Len(ring) + Len(cq)
                   /\ \A n \in 1..Len(handed) : handed[n] = n
                   /\ \A n \in 1..Len(ring) : ring[n] = Len(handed) + n
                   /\ \A n \in 1..Len(cq) : cq[n] = Len(handed) + Len(ring) + n
  BY <1>1, <1>2 DEF Accepting, Place
<1>5. ASSUME NEW x \in Int, cq' = Append(cq, x)
      PROVE  /\ cq' \in Seq(Int) /\ Len(cq') = Len(cq) + 1 /\ cq'[Len(cq) + 1] = x
             /\ \A n \in 1..Len(cq) : cq'[n] = cq[n]
  BY <1>5 DEF ListenerTyped
<1>6. ~overflow => \A n \in 1..Len(handed) : handed[n] # C!None
  BY <1>2, <1>4 DEF C!None
<1>7. CASE accepted < arrived /\ accepted' = accepted + 1 /\ cq' = Append(cq, accepted')
           /\ UNCHANGED listener
  <2>1. /\ cq' \in Seq(Int) /\ Len(cq') = Len(cq) + 1 /\ cq'[Len(cq) + 1] = accepted + 1
        /\ \A n \in 1..Len(cq) : cq'[n] = cq[n]
    BY <1>2, <1>5, <1>7
  <2>2. ListenerTyped'
    BY <1>1, <1>2, <1>7, <2>1 DEF ListenerTyped
  <2>3. ~overflow => \A n \in 1..Len(cq') : cq'[n] = Len(handed) + Len(ring) + n
    <3> SUFFICES ASSUME ~overflow, NEW n \in 1..Len(cq') PROVE cq'[n] = Len(handed) + Len(ring) + n
      OBVIOUS
    <3>1. CASE n = Len(cq) + 1
      BY <1>2, <1>4, <2>1, <3>1
    <3>2. CASE n # Len(cq) + 1
      <4>1. n \in 1..Len(cq)
        BY <1>2, <2>1, <3>2
      <4> QED
        BY <1>4, <2>1, <4>1
    <3> QED
      BY <3>1, <3>2
  <2>4. Accepting'
    <3> SUFFICES ASSUME ~overflow PROVE Accepting'
      BY <1>1, <1>3, <1>7 DEF Accepting
    <3>1. accepted' = Len(handed) + Len(ring) + Len(cq')
      BY <1>2, <1>4, <1>7, <2>1
    <3>2. \A n \in 1..Len(handed) : Place(n, handed[n])'
      BY <1>1, <1>2, <1>4, <1>7 DEF Place
    <3>3. ASSUME NEW n \in 1..Len(ring) PROVE Place(Len(handed) + n, ring[n])'
      <4>1. Len(handed) + n <= accepted'
        BY <1>2, <1>4, <1>7
      <4> QED
        BY <1>1, <1>4, <4>1 DEF Place
    <3>4. ASSUME NEW n \in 1..Len(cq') PROVE Place(Len(handed) + Len(ring) + n, cq[n])'
      <4>1. Len(handed) + Len(ring) + n <= accepted'
        BY <1>2, <2>1, <3>1
      <4> QED
        BY <1>1, <2>3, <4>1 DEF Place
    <3> QED
      BY <1>1, <1>3, <1>6, <1>7, <3>1, <3>2, <3>3, <3>4 DEF Accepting
  <2> QED
    BY <2>2, <2>4
<1>8. CASE cq' = Append(cq, C!AcceptError) /\ listener' = "ended" /\ UNCHANGED accepted
  <2>1. /\ cq' \in Seq(Int) /\ Len(cq') = Len(cq) + 1 /\ cq'[Len(cq) + 1] = 0
        /\ \A n \in 1..Len(cq) : cq'[n] = cq[n]
    BY <1>5, <1>8 DEF C!AcceptError
  <2>2. ListenerTyped'
    BY <1>1, <1>8, <2>1 DEF ListenerTyped
  <2>3. Accepting'
    <3> SUFFICES ASSUME ~overflow PROVE Accepting'
      BY <1>1, <1>3, <1>8 DEF Accepting
    <3>1. accepted' < Len(handed) + Len(ring) + Len(cq')
      BY <1>2, <1>4, <1>8, <2>1
    <3>2. \A n \in 1..Len(handed) : Place(n, handed[n])'
      BY <1>1, <1>2, <1>4, <1>8 DEF Place
    <3>3. \A n \in 1..Len(ring) : Place(Len(handed) + n, ring[n])'
      BY <1>1, <1>2, <1>4, <1>8 DEF Place
    <3>4. ASSUME NEW n \in 1..Len(cq') PROVE Place(Len(handed) + Len(ring) + n, cq[n])'
      <4>1. CASE n = Len(cq) + 1
        BY <1>1, <1>2, <1>4, <1>8, <2>1, <4>1 DEF Place, C!AcceptError
      <4>2. CASE n # Len(cq) + 1
        <5>1. n \in 1..Len(cq)
          BY <1>2, <2>1, <4>2
        <5> QED
          <6>1. Len(handed) + Len(ring) + n <= accepted
            BY <1>2, <1>4, <5>1
          <6>2. cq'[n] = Len(handed) + Len(ring) + n
            BY <1>4, <2>1, <5>1
          <6> QED
            BY <1>1, <1>8, <6>1, <6>2 DEF Place
      <4> QED
        BY <4>1, <4>2
    <3> QED
      BY <1>1, <1>3, <1>6, <1>8, <3>1, <3>2, <3>3, <3>4 DEF Accepting
  <2> QED
    BY <2>2, <2>3
<1> QED
  BY <1>7, <1>8 DEF C!KernelAccept

\* poll_next() hands over the oldest result kept, or says that there are no more.
LEMMA TcpPollNext == TcpInv /\ C!PollNext => TcpInv'
<1> SUFFICES ASSUME TcpInv, C!PollNext PROVE TcpInv'
  OBVIOUS
<1>0. /\ TcpPortTyped /\ CallTyped /\ ListenerTyped /\ TcpAnswered /\ Loop /\ LoopReturns
      /\ Accepting
  BY DEF TcpInv
<1> USE <1>0
<1>1. /\ C!Listening /\ (ring # <<>> \/ finished) /\ UNCHANGED C!call_vars
      /\ UNCHANGED <<listener, arrived, accepted, cq, finished, overflow, c_panicked>>
  BY DEF C!PollNext
<1>2. /\ Len(handed) \in Nat /\ Len(ring) \in Nat /\ Len(cq) \in Nat /\ accepted \in Nat
      /\ RingCap \in Nat
  BY TcpAssumption DEF ListenerTyped
<1>3. listener \in {"armed", "ended"}
  BY <1>1 DEF C!Listening, Accepting
<1> SUFFICES ListenerTyped' /\ Accepting'
  BY <1>1, <1>3, TcpCallFrame DEF TcpInv
<1>4. ASSUME NEW x \in Int, handed' = Append(handed, x)
      PROVE  /\ handed' \in Seq(Int) /\ Len(handed') = Len(handed) + 1
             /\ handed'[Len(handed) + 1] = x
             /\ \A n \in 1..Len(handed) : handed'[n] = handed[n]
  BY <1>4 DEF ListenerTyped
<1>5. CASE ring # <<>>
  <2>1. handed' = Append(handed, ring[1]) /\ ring' = Tail(ring)
    BY <1>5 DEF C!PollNext, ListenerTyped
  <2>2. /\ Len(ring) # 0 /\ ring[1] \in Int /\ ring' \in Seq(Int) /\ Len(ring') = Len(ring) - 1
        /\ \A n \in 1..Len(ring') : ring'[n] = ring[n + 1]
    BY <1>5, <2>1 DEF ListenerTyped
  <2>3. /\ handed' \in Seq(Int) /\ Len(handed') = Len(handed) + 1
        /\ handed'[Len(handed) + 1] = ring[1]
        /\ \A n \in 1..Len(handed) : handed'[n] = handed[n]
    BY <1>4, <2>1, <2>2
  <2>4. ListenerTyped'
    <3>1. Len(ring) <= RingCap
      BY DEF ListenerTyped
    <3>2. Len(ring') <= RingCap'
      BY <1>2, <2>2, <3>1
    <3> QED
      BY <1>1, <2>2, <2>3, <3>2 DEF ListenerTyped
  <2>5. Len(handed') + Len(ring') = Len(handed) + Len(ring)
    BY <1>2, <2>2, <2>3
  <2>6. Accepting'
    <3> SUFFICES ASSUME ~overflow PROVE Accepting'
      BY <1>1, <1>3 DEF Accepting
    <3>1. /\ \A n \in 1..Len(handed) : Place(n, handed[n])
          /\ \A n \in 1..Len(ring) : Place(Len(handed) + n, ring[n])
          /\ \A n \in 1..Len(cq) : Place(Len(handed) + Len(ring) + n, cq[n])
          /\ IF listener = "ended" THEN accepted < Len(handed) + Len(ring) + Len(cq)
             ELSE accepted = Len(handed) + Len(ring) + Len(cq)
          /\ (\E n \in 1..Len(handed) : handed[n] = C!None) => accepted < Len(handed)
      BY <1>3 DEF Accepting
    <3>2. ASSUME NEW n \in 1..Len(handed') PROVE Place(n, handed'[n])
      <4>1. CASE n = Len(handed) + 1
        BY <1>2, <2>2, <2>3, <3>1, <4>1
      <4>2. CASE n # Len(handed) + 1
        <5>1. n \in 1..Len(handed)
          BY <1>2, <2>3, <4>2
        <5> QED
          BY <2>3, <3>1, <5>1
      <4> QED
        BY <4>1, <4>2
    <3>3. ASSUME NEW n \in 1..Len(ring') PROVE Place(Len(handed') + n, ring'[n])
      <4>1. n + 1 \in 1..Len(ring) /\ Len(handed) + (n + 1) = Len(handed') + n
        BY <1>2, <2>2, <2>3
      <4>2. Place(Len(handed) + (n + 1), ring[n + 1])
        BY <3>1, <4>1
      <4> QED
        BY <2>2, <4>1, <4>2
    <3>4. ASSUME NEW n \in 1..Len(cq) PROVE Place(Len(handed') + Len(ring') + n, cq[n])
      BY <2>5, <3>1
    <3>5. ASSUME NEW n \in 1..Len(handed'), handed'[n] = C!None PROVE accepted < Len(handed')
      <4>1. Place(n, handed'[n]) /\ n # C!None
        BY <1>2, <2>3, <3>2 DEF C!None
      <4>2. accepted < n
        BY <1>2, <2>3, <3>5, <4>1 DEF Place
      <4> QED
        BY <1>2, <2>3, <4>2
    <3> QED
      BY <1>1, <1>3, <2>5, <3>1, <3>2, <3>3, <3>4, <3>5 DEF Accepting, Place
  <2> QED
    BY <2>4, <2>6
<1>6. CASE ring = <<>>
  <2>1. handed' = Append(handed, C!None) /\ ring' = ring /\ finished
    BY <1>1, <1>6 DEF C!PollNext
  <2>2. listener = "ended" /\ cq = <<>> /\ Len(cq) = 0 /\ Len(ring) = 0
    BY <1>3, <1>6, <2>1, ResultLengths DEF Accepting
  <2>3. /\ handed' \in Seq(Int) /\ Len(handed') = Len(handed) + 1
        /\ handed'[Len(handed) + 1] = C!None
        /\ \A n \in 1..Len(handed) : handed'[n] = handed[n]
    BY <1>4, <2>1 DEF C!None
  <2>4. ListenerTyped'
    BY <1>1, <2>1, <2>3 DEF ListenerTyped
  <2>5. Accepting'
    <3> SUFFICES ASSUME ~overflow PROVE Accepting'
      BY <1>1, <1>3, <2>2 DEF Accepting
    <3>1. accepted < Len(handed) /\ \A n \in 1..Len(handed) : Place(n, handed[n])
      BY <1>2, <2>2 DEF Accepting
    <3>2. ASSUME NEW n \in 1..Len(handed') PROVE Place(n, handed'[n])
      <4>1. CASE n = Len(handed) + 1
        BY <1>2, <2>3, <3>1, <4>1 DEF Place
      <4>2. CASE n # Len(handed) + 1
        <5>1. n \in 1..Len(handed)
          BY <1>2, <2>3, <4>2
        <5> QED
          BY <2>3, <3>1, <5>1
      <4> QED
        BY <4>1, <4>2
    <3>3. accepted < Len(handed') /\ accepted < Len(handed') + Len(ring') + Len(cq')
      BY <1>1, <1>2, <2>1, <2>2, <2>3, <3>1
    <3>4. 1..Len(ring') = {} /\ 1..Len(cq') = {}
      BY <1>1, <2>1, <2>2
    <3> QED
      BY <1>1, <2>2, <3>2, <3>3, <3>4 DEF Accepting, Place
  <2> QED
    BY <2>4, <2>5
<1> QED
  BY <1>5, <1>6

\* react() submits what is queued and puts the results in the ring.
LEMMA TcpReact == TcpInv /\ C!React => TcpInv'
<1> SUFFICES ASSUME TcpInv, C!React PROVE TcpInv'
  OBVIOUS
<1>0. /\ TcpPortTyped /\ CallTyped /\ ListenerTyped /\ TcpAnswered /\ Loop /\ LoopReturns
      /\ Accepting
  BY DEF TcpInv
<1> USE <1>0
<1>1. /\ C!Io!Enter
      /\ UNCHANGED <<kind, addrs, i, sock, last_err, result, log, peer, arrived, accepted,
                     handed, c_panicked>>
  BY DEF C!React
<1>2. /\ listener' = IF listener = "queued" THEN "armed" ELSE listener
      /\ ring' = C!Newest(ring \o cq) /\ cq' = <<>>
  BY DEF C!React
<1>3. overflow' = (overflow \/ Len(ring \o cq) > RingCap) /\ finished' = (listener = "ended")
  BY DEF C!React
<1>4. TcpPortTyped' /\ TcpAnswered'
  BY <1>1, TcpPortSteps
<1>5. CallTyped' /\ Loop' /\ LoopReturns'
  <2>1. PICK bytes \in Addrs \cup {Garbage} :
          seen' = [a \in C!Attempts |-> IF c_op[a] = "queued" THEN bytes ELSE seen[a]]
    BY DEF C!React
  <2>2. seen' \in [C!Attempts -> Addrs \cup {Garbage, C!NoAddr}]
    BY <2>1 DEF CallTyped
  <2>3. result = <<>> => listener' = "none"
    BY <1>2 DEF Loop
  <2>4. peer' \in Addrs \cup {C!NoAddr}
    BY <1>1 DEF CallTyped
  <2> QED
    BY <1>1, <2>2, <2>3, <2>4, LoopFrame
<1>6. /\ Len(handed) \in Nat /\ Len(ring) \in Nat /\ Len(cq) \in Nat /\ RingCap \in Nat
      /\ accepted \in Nat
  BY TcpAssumption DEF ListenerTyped
<1> DEFINE s == ring \o cq
<1>7. /\ s \in Seq(Int) /\ Len(s) = Len(ring) + Len(cq)
      /\ \A n \in 1..Len(ring) : s[n] = ring[n]
      /\ \A n \in 1..Len(cq) : s[Len(ring) + n] = cq[n]
  BY DEF ListenerTyped
<1>8. ring' = C!Newest(s) /\ overflow' = (overflow \/ Len(s) > RingCap)
  BY <1>2, <1>3
<1> HIDE DEF s
<1>9. ring' \in Seq(Int) /\ Len(ring') <= RingCap /\ (Len(s) <= RingCap => ring' = s)
  <2>1. CASE Len(s) > RingCap
    <3>1. ring' = SubSeq(s, 1 + (Len(s) - RingCap), Len(s))
      BY <1>8, <2>1 DEF C!Newest
    <3>2. 1 + (Len(s) - RingCap) \in 1..(Len(s) + 1) /\ Len(s) \in Nat
      BY <1>6, <1>7, <2>1
    <3>3. /\ SubSeq(s, 1 + (Len(s) - RingCap), Len(s)) \in Seq(Int)
          /\ Len(SubSeq(s, 1 + (Len(s) - RingCap), Len(s))) = RingCap
      BY <1>6, <1>7, <2>1, <3>2
    <3> QED
      BY <1>6, <1>7, <2>1, <3>1, <3>3
  <2>2. CASE ~(Len(s) > RingCap)
    <3>1. ring' = SubSeq(s, 1, Len(s))
      BY <1>8, <2>2 DEF C!Newest
    <3>2. SubSeq(s, 1, Len(s)) = s
      BY <1>7
    <3> QED
      BY <1>6, <1>7, <2>2, <3>1, <3>2
  <2> QED
    BY <2>1, <2>2
<1>10. ListenerTyped'
  <2>1. finished' \in BOOLEAN
    <3>1. CASE listener = "ended"
      BY <1>3, <3>1
    <3>2. CASE listener # "ended"
      BY <1>3, <3>2
    <3> QED
      BY <3>1, <3>2
  <2>2. overflow' \in BOOLEAN
    <3>1. CASE overflow \/ Len(s) > RingCap
      BY <1>8, <3>1
    <3>2. CASE ~(overflow \/ Len(s) > RingCap)
      BY <1>8, <3>2
    <3> QED
      BY <3>1, <3>2
  <2>3. cq' \in Seq(Int)
    BY <1>2
  <2> QED
    BY <1>1, <1>2, <1>9, <2>1, <2>2, <2>3 DEF ListenerTyped
<1>11. Accepting'
  <2>1. CASE listener \in {"none", "bound", "queued"}
    <3>1. /\ accepted = 0 /\ handed = <<>> /\ ring = <<>> /\ cq = <<>>
          /\ Len(handed) = 0 /\ Len(ring) = 0 /\ Len(cq) = 0
      BY <2>1, ResultLengths DEF Accepting
    <3>2. Len(s) = 0 /\ s = <<>>
      BY <1>7, <3>1
    <3>3. ring' = <<>> /\ cq' = <<>> /\ accepted' = 0 /\ handed' = <<>>
      BY <1>1, <1>2, <1>6, <1>9, <3>1, <3>2
    <3>4. Len(ring') = 0 /\ Len(cq') = 0 /\ Len(handed') = 0
      BY <3>3, ResultLengths
    <3>5. ~finished' /\ listener' # "ended"
      BY <1>2, <1>3, <2>1
    <3> QED
      BY <3>3, <3>4, <3>5 DEF Accepting
  <2>2. CASE listener = "gone"
    BY <1>2, <2>2 DEF Accepting
  <2>3. CASE listener \in {"armed", "ended"}
    <3>1. listener' = listener /\ (finished' => listener' = "ended" /\ cq' = <<>>)
      BY <1>2, <1>3, <2>3
    <3> SUFFICES ASSUME ~overflow' PROVE Accepting'
      BY <2>3, <3>1 DEF Accepting
    <3>2. ~overflow /\ ring' = s
      <4>1. ~overflow /\ ~(Len(s) > RingCap)
        BY <1>8, Zenon
      <4> QED
        BY <1>6, <1>7, <1>9, <4>1
    <3>3. Len(cq') = 0 /\ 1..Len(cq') = {} /\ Len(ring') = Len(ring) + Len(cq)
      BY <1>2, <1>7, <3>2, ResultLengths
    <3>4. /\ \A n \in 1..Len(handed) : Place(n, handed[n])
          /\ \A n \in 1..Len(ring) : Place(Len(handed) + n, ring[n])
          /\ \A n \in 1..Len(cq) : Place(Len(handed) + Len(ring) + n, cq[n])
          /\ IF listener = "ended" THEN accepted < Len(handed) + Len(ring) + Len(cq)
             ELSE accepted = Len(handed) + Len(ring) + Len(cq)
          /\ (\E n \in 1..Len(handed) : handed[n] = C!None) => accepted < Len(handed)
      BY <2>3, <3>2 DEF Accepting
    <3>5. ASSUME NEW n \in 1..Len(ring') PROVE Place(Len(handed) + n, ring'[n])
      <4>1. CASE n <= Len(ring)
        <5>1. n \in 1..Len(ring)
          BY <1>6, <4>1
        <5> QED
          BY <1>7, <3>2, <3>4, <5>1
      <4>2. CASE n > Len(ring)
        <5>1. n - Len(ring) \in 1..Len(cq) /\ Len(ring) + (n - Len(ring)) = n
          BY <1>6, <3>3, <4>2
        <5>2. ring'[n] = cq[n - Len(ring)]
          BY <1>7, <3>2, <5>1
        <5>3. Place(Len(handed) + Len(ring) + (n - Len(ring)), cq[n - Len(ring)])
          BY <3>4, <5>1
        <5>4. Len(handed) + Len(ring) + (n - Len(ring)) = Len(handed) + n
          BY <1>6, <3>3
        <5> QED
          BY <5>2, <5>3, <5>4
      <4> QED
        BY <1>6, <3>3, <4>1, <4>2
    <3>6. IF listener' = "ended" THEN accepted < Len(handed) + Len(ring') + Len(cq')
          ELSE accepted = Len(handed) + Len(ring') + Len(cq')
      BY <1>6, <3>1, <3>3, <3>4
    <3> QED
      BY <1>1, <2>3, <3>1, <3>3, <3>4, <3>5, <3>6 DEF Accepting, Place
  <2> QED
    BY <2>1, <2>2, <2>3 DEF ListenerTyped
<1> QED
  BY <1>4, <1>5, <1>10, <1>11 DEF TcpInv

\* Every step keeps the invariant.
LEMMA TcpStep == TcpInv /\ [C!Next]_(C!vars) => TcpInv'
<1> SUFFICES ASSUME TcpInv, [C!Next]_(C!vars) PROVE TcpInv'
  OBVIOUS
<1>1. CASE C!MkSock \/ C!MkSockFails \/ C!Exhausted
  BY <1>1, TcpCallSteps
<1>2. CASE \E k \in {"bind", "connect"} :
             \/ \E as \in C!BoundedSeq(Addrs, MaxAddrs) : C!Call(k, as)
             \/ C!Unresolved(k)
  BY <1>2, TcpCallSteps
<1>3. CASE C!BindListen
  BY <1>3, TcpBindListen
<1>4. CASE C!ConnectPending \/ C!ConnectReady \/ C!DropConnect
  BY <1>4, TcpConnectSteps
<1>5. ASSUME NEW a \in C!Attempts, C!KernelConnect(a) PROVE TcpInv'
  BY <1>5, TcpKernelConnect
<1>6. CASE C!Arrive \/ C!PollFirst \/ C!DropListener
  BY <1>6, TcpListenerSteps
<1>7. CASE C!PollNext
  BY <1>7, TcpPollNext
<1>8. CASE C!KernelAccept
  BY <1>8, TcpKernelAccept
<1>9. CASE C!React
  BY <1>9, TcpReact
<1>10. CASE UNCHANGED C!vars
  <2>1. UNCHANGED C!port /\ UNCHANGED C!listener_vars
        /\ UNCHANGED <<kind, addrs, i, sock, last_err, result, log, seen, peer>>
    BY <1>10 DEF C!vars, C!call_vars
  <2>2. listener' = listener
    BY <2>1 DEF C!listener_vars
  <2>3. CallTyped' /\ Loop' /\ LoopReturns'
    BY <2>1, <2>2, LoopFrame DEF TcpInv, CallTyped, Loop
  <2> QED
    BY <2>1, <2>3, TcpPortSteps, ListenerFrame DEF TcpInv
<1> QED
  BY <1>1, <1>2, <1>3, <1>4, <1>5, <1>6, <1>7, <1>8, <1>9, <1>10 DEF C!Next

\* The elements of a concatenation.
LEMMA Concatenation ==
  ASSUME NEW s \in Seq(Int), NEW t \in Seq(Int)
  PROVE  /\ s \o t \in Seq(Int) /\ Len(s \o t) = Len(s) + Len(t)
         /\ \A n \in 1..Len(s) : (s \o t)[n] = s[n]
         /\ \A n \in 1..Len(t) : (s \o t)[Len(s) + n] = t[n]
  OBVIOUS

\* The invariant of the three gives that of the stream.
LEMMA TcpInvImplies == TcpInv => AcceptedHandedOver
<1> SUFFICES ASSUME TcpInv, listener # "gone", ~overflow
             PROVE  /\ accepted <= Len(handed \o ring \o cq)
                    /\ \A n \in DOMAIN (handed \o ring \o cq) :
                         IF n <= accepted THEN (handed \o ring \o cq)[n] = n
                         ELSE (handed \o ring \o cq)[n] \in {C!AcceptError, C!None}
                    /\ C!None \in C!ToSet(handed) => accepted < Len(handed)
  BY DEF AcceptedHandedOver, C!AcceptedHandedOver
<1>1. handed \in Seq(Int) /\ ring \in Seq(Int) /\ cq \in Seq(Int) /\ accepted \in Nat
  BY TcpAssumption DEF TcpInv, ListenerTyped
<1>2. Len(handed) \in Nat /\ Len(ring) \in Nat /\ Len(cq) \in Nat
  BY <1>1
<1>3. /\ \A n \in 1..Len(handed) : Place(n, handed[n])
      /\ \A n \in 1..Len(ring) : Place(Len(handed) + n, ring[n])
      /\ \A n \in 1..Len(cq) : Place(Len(handed) + Len(ring) + n, cq[n])
      /\ IF listener = "ended" THEN accepted < Len(handed) + Len(ring) + Len(cq)
         ELSE accepted = Len(handed) + Len(ring) + Len(cq)
      /\ (\E n \in 1..Len(handed) : handed[n] = C!None) => accepted < Len(handed)
  BY DEF TcpInv, Accepting
<1> DEFINE s == handed \o ring
           t == s \o cq
<1>4. /\ s \in Seq(Int) /\ Len(s) = Len(handed) + Len(ring)
      /\ \A n \in 1..Len(handed) : s[n] = handed[n]
      /\ \A n \in 1..Len(ring) : s[Len(handed) + n] = ring[n]
  BY <1>1
<1> HIDE DEF s
<1>5. /\ t \in Seq(Int) /\ Len(t) = Len(s) + Len(cq)
      /\ \A n \in 1..Len(s) : t[n] = s[n]
      /\ \A n \in 1..Len(cq) : t[Len(s) + n] = cq[n]
  BY <1>1, <1>4, Concatenation
<1> HIDE DEF t
<1>6. accepted <= Len(t)
  BY <1>1, <1>2, <1>3, <1>4, <1>5
<1>7. ASSUME NEW n \in 1..Len(t) PROVE Place(n, t[n])
  <2>1. CASE n <= Len(handed)
    <3>1. n \in 1..Len(handed) /\ n \in 1..Len(s)
      BY <1>2, <1>4, <2>1
    <3> QED
      BY <1>3, <1>4, <1>5, <3>1
  <2>2. CASE n > Len(handed) /\ n <= Len(s)
    <3> DEFINE m == n - Len(handed)
    <3>1. m \in 1..Len(ring) /\ n \in 1..Len(s) /\ Len(handed) + m = n
      BY <1>2, <1>4, <1>5, <2>2
    <3> HIDE DEF m
    <3> QED
      BY <1>3, <1>4, <1>5, <3>1
  <2>3. CASE n > Len(s)
    <3> DEFINE m == n - Len(s)
    <3>1. m \in 1..Len(cq) /\ Len(s) + m = n /\ Len(handed) + Len(ring) + m = n
      BY <1>2, <1>4, <1>5, <2>3
    <3> HIDE DEF m
    <3> QED
      BY <1>3, <1>5, <3>1
  <2> QED
    BY <1>2, <1>4, <1>5, <2>1, <2>2, <2>3
<1>8. DOMAIN t = 1..Len(t) /\ DOMAIN handed = 1..Len(handed)
  BY <1>1, <1>5
<1>9. C!None \in C!ToSet(handed) => accepted < Len(handed)
  BY <1>3, <1>8 DEF C!ToSet
<1> QED
  BY <1>6, <1>7, <1>8, <1>9 DEF Place, s, t

\* bind() and connect() return the first address that works, or the error of the
\* last one tried (tcp.rs:80-82, 154-156).
THEOREM LoopAlwaysReturns == C!Spec => []LoopReturns
<1>1. TcpInv => LoopReturns
  BY DEF TcpInv
<1> QED
  BY <1>1, TcpInit, TcpStep, PTL DEF C!Spec

\* A listener hands over every accepted connection, in order (tcp.rs:119-136).
THEOREM ConnectionsHandedOver == C!Spec => []AcceptedHandedOver
  BY TcpInit, TcpStep, TcpInvImplies, PTL DEF C!Spec

-----------------------------------------------------------------------------
(***************************************************************************)
(* Files.                                                                  *)
(***************************************************************************)
\* The instance of File that MCFutures runs is the one whose proofs FP has.
LEMMA SameFile ==
  /\ F!Init <=> FP!Init
  /\ F!Next <=> FP!Next
  /\ F!TypeOK <=> FP!TypeOK
<1>1. F!TypeOK <=> FP!TypeOK
  BY DEF F!TypeOK, FP!TypeOK, F!Io!TypeOK, FP!Io!TypeOK,
    F!Descs, FP!Descs, F!Handles, FP!Handles, F!NoDesc, FP!NoDesc, F!NoFd, FP!NoFd,
    F!Kinds, FP!Kinds, F!Failed, FP!Failed, F!Io!ToResult, FP!Io!ToResult
<1>2. F!Init <=> FP!Init
  BY DEF F!Init, FP!Init, F!Io!Init, FP!Io!Init, F!Descs, FP!Descs, F!Handles, FP!Handles,
    F!NoDesc, FP!NoDesc, F!NoFd, FP!NoFd, F!NoRequest, FP!NoRequest, F!Request, FP!Request
<1>3. F!Next <=> FP!Next
  BY DEF F!Next, FP!Next, F!StartOpen, FP!StartOpen, F!Borrowed, FP!Borrowed, F!Idle, FP!Idle,
    F!StartRw, FP!StartRw, F!TakeOpen, FP!TakeOpen, F!TakeRw, FP!TakeRw, F!DropFuture,
    FP!DropFuture, F!seek, FP!seek, F!Close, FP!Close, F!Free, FP!Free, F!Install,
    FP!Install, F!Socket, FP!Socket, F!Enter, FP!Enter, F!KernelOpen, FP!KernelOpen,
    F!KernelMkdir, FP!KernelMkdir, F!Moved, FP!Moved, F!Positioned, FP!Positioned,
    F!Start, FP!Start, F!Room, FP!Room, F!Advance, FP!Advance, F!KernelBadFd,
    FP!KernelBadFd, F!KernelRead, FP!KernelRead, F!KernelWrite, FP!KernelWrite,
    F!Io!Submit, FP!Io!Submit, F!Io!Take, FP!Io!Take, F!Io!Drop, FP!Io!Drop, F!Io!Enter,
    FP!Io!Enter, F!Io!Answer, FP!Io!Answer, F!Io!Queued, FP!Io!Queued, F!port, FP!port,
    F!Descs, FP!Descs, F!Handles, FP!Handles, F!NoDesc, FP!NoDesc, F!NoFd, FP!NoFd,
    F!Kinds, FP!Kinds, F!Failed, FP!Failed, F!Io!ToResult, FP!Io!ToResult, F!Request,
    FP!Request, F!NoRequest, FP!NoRequest, F!Min, FP!Min, F!Max, FP!Max
<1> QED
  BY <1>1, <1>2, <1>3

\* A step of the one is a step of the other.
LEMMA SameSteps == [F!Next]_(F!vars) => [FP!Next]_(FP!vars)
<1>1. F!Next => FP!Next
  BY SameFile
<1>2. F!vars' = F!vars => FP!vars' = FP!vars
  BY DEF F!vars, F!port, FP!vars, FP!port
<1> QED
  BY <1>1, <1>2

\* The invariant of FileProofs holds in every reachable state.
LEMMA FilesInvariant == F!Spec => []FP!IInv
<1>1. F!Init => FP!IInv
  BY SameFile, FileAssumption, FP!InitIInv
<1>2. FP!IInv /\ [F!Next]_(F!vars) => FP!IInv'
  BY SameSteps, FileAssumption, FP!StepIInv
<1> QED
  BY <1>1, <1>2, PTL DEF F!Spec

\* The position of a file is the one that its results add up to, unless a dropped
\* future's operation has reached it (read.rs:56, fs.rs:194-210).
THEOREM OffsetAlwaysAccounted == F!Spec => []OffsetAccounted
<1>1. FP!IInv => OffsetAccounted
  BY FileAssumption, FP!OffsetFollows
  DEF OffsetAccounted, F!OffsetAccounted, FP!OffsetAccounted, F!Descs, FP!Descs, F!NoFd, FP!NoFd
<1> QED
  BY <1>1, FilesInvariant, PTL

\* The operation of a live future meets the file it was made from (read.rs:35-40, 52).
THEOREM LiveOpsAlwaysOwnFile == F!Spec => []LiveOpsOwnFile
<1>1. FP!IInv => LiveOpsOwnFile
  BY FileAssumption, FP!LiveOpsFollow DEF LiveOpsOwnFile, F!LiveOpsOwnFile, FP!LiveOpsOwnFile
<1> QED
  BY <1>1, FilesInvariant, PTL

\* Every number in use has one owner, or is left behind by a dropped FileOpen
\* (fs.rs:102-106).
THEOREM DescriptorsAlwaysOwned == F!Spec => []DescriptorsOwned
<1>1. FP!IInv => DescriptorsOwned
  BY FileAssumption, FP!DescriptorsFollow
  DEF DescriptorsOwned, F!DescriptorsOwned, FP!DescriptorsOwned, F!Descs, FP!Descs, F!NoFd, FP!NoFd
<1> QED
  BY <1>1, FilesInvariant, PTL

\* Ok(0) from a read into a buffer that the kernel was told the length of means the
\* end of the file (read.rs:54).
THEOREM ZeroAlwaysMeansEof == F!Spec => []ZeroMeansEof
<1>1. FP!IInv => ZeroMeansEof
  BY FileAssumption, FP!ZeroFollows DEF ZeroMeansEof, F!ZeroMeansEof, FP!ZeroMeansEof
<1> QED
  BY <1>1, FilesInvariant, PTL

-----------------------------------------------------------------------------
(***************************************************************************)
(* The four components side by side, as MCFutures runs them.               *)
(***************************************************************************)
\* The invariant of timers gives their types.
LEMMA TimerTypes == TimerInv => TypeOK
  BY DEF TimerInv, TimerTyped, TypeOK, Io!TypeOK, TimerAnswers

\* Those of the call and of the listener.
LEMMA TcpTypes == TcpInv => C!TypeOK
<1> SUFFICES ASSUME TcpInv PROVE C!TypeOK
  OBVIOUS
<1>1. C!Io!TypeOK
  BY DEF TcpInv, TcpPortTyped, C!Io!TypeOK, TcpAnswers
<1>2. Len(result) <= 1
  <2>1. result = <<>> \/ \E r : result = <<r>>
    BY DEF TcpInv, CallTyped
  <2>2. Len(<<>>) = 0 /\ \A r : Len(<<r>>) = 1
    OBVIOUS
  <2>3. 0 <= 1 /\ 1 <= 1
    OBVIOUS
  <2> QED
    BY <2>1, <2>2, <2>3, Zenon
<1> QED
  BY <1>1, <1>2 DEF TcpInv, CallTyped, ListenerTyped, C!TypeOK

\* Those of the socket: the inbox holds numbers of datagrams.
LEMMA UdpTypes == UdpInv => U!TypeOK
<1> SUFFICES ASSUME UdpInv PROVE U!TypeOK
  OBVIOUS
<1>1. U!Io!TypeOK
  BY DEF UdpInv, UdpPortTyped, U!Io!TypeOK, UdpAnswers
<1>2. UdpTyped /\ Inbox
  BY DEF UdpInv
<1>3. DOMAIN datagrams = 1..Len(datagrams) /\ DOMAIN inbox = 1..Len(inbox)
  BY <1>2 DEF UdpTyped
<1>4. \A n \in DOMAIN datagrams : datagrams[n].src \in Peers /\ datagrams[n].size \in Sizes
  BY <1>2, <1>3, DatagramTyped
<1>5. U!ToSet(inbox) \subseteq DOMAIN datagrams
  <2> SUFFICES ASSUME NEW k \in 1..Len(inbox) PROVE inbox[k] \in 1..Len(datagrams)
    BY <1>3 DEF U!ToSet
  <2>1. inbox[k] = Taken + k
    BY <1>2 DEF Inbox
  <2> QED
    BY <1>2, <2>1, NumbersTyped DEF Taken
<1> QED
  BY <1>1, <1>2, <1>4, <1>5 DEF UdpTyped, U!TypeOK

\* Each step of MCFutures is a step of one component.
AllInv == TimerInv /\ FP!IInv /\ TcpInv /\ UdpInv

\* Timers, files, TCP and UDP keep their types: no position, number, index or ring
\* leaves its range (timer.rs, fs.rs, tcp.rs, udp.rs).
THEOREM TypesCorrect == MCSpec => []TypesOK
<1>1. MCInit => AllInv
  BY SameFile, FileAssumption, FP!InitIInv, TimerInit, TcpInit, UdpInit DEF MCInit, AllInv
<1>2. AllInv /\ [MCNext]_all_vars => AllInv'
  <2> SUFFICES ASSUME AllInv, [MCNext]_all_vars PROVE AllInv'
    OBVIOUS
  <2>1. [Next]_vars
    BY DEF MCNext, TimerNext, FileNext, TcpNext, UdpNext, all_vars
  <2>2. [F!Next]_(F!vars)
    BY DEF MCNext, TimerNext, FileNext, TcpNext, UdpNext, all_vars, file_vars, F!vars, F!port
  <2>3. [C!Next]_(C!vars)
    BY DEF MCNext, TimerNext, FileNext, TcpNext, UdpNext, all_vars, tcp_vars, C!vars,
           C!call_vars, C!listener_vars, C!port
  <2>4. [U!Next]_(U!vars)
    BY DEF MCNext, TimerNext, FileNext, TcpNext, UdpNext, all_vars, udp_vars, U!vars, U!port_vars
  <2>5. [FP!Next]_(FP!vars)
    BY <2>2, SameSteps
  <2> QED
    BY <2>1, <2>3, <2>4, <2>5, FileAssumption, FP!StepIInv, TimerStep, TcpStep, UdpStep
    DEF AllInv
<1>3. AllInv => TypesOK
  BY SameFile, FileAssumption, FP!TypesFollow, TimerTypes, TcpTypes, UdpTypes DEF AllInv, TypesOK
<1> QED
  BY <1>1, <1>2, <1>3, PTL DEF MCSpec

=============================================================================
