---------------------------- MODULE MutexProofs ----------------------------
(***************************************************************************)
(* Mutual exclusion of Mutex for any calls of lock() on any threads.       *)
(*                                                                         *)
(* The lock is a token: in the eventfd's count, or with one call of lock() *)
(* from the moment the kernel completes its read until its guard is        *)
(* dropped.  A call dropped with the token keeps it for ever.              *)
(***************************************************************************)
EXTENDS Mutex, TLAPS

\* The call has taken the lock from the count and not given it back.
HasToken(c) ==
  read[c] = "done" /\ (waiter[c] \in {"waiting", "dropped"} \/ c \in guards)

\* The token is in one place.
OneToken ==
  /\ count \in {0, 1}
  /\ \A c \in Waiters : HasToken(c) => count = 0
  /\ \A c, d \in Waiters : HasToken(c) /\ HasToken(d) => c = d

\* A guard belongs to a call that has returned.
GuardsHaveToken == \A c \in guards : read[c] = "done" /\ waiter[c] = "ready"

\* The inductive invariant.
IInv == TypeOK /\ OneToken /\ GuardsHaveToken

-----------------------------------------------------------------------------
\* The steps of the calls and of the reactors preserve the invariant.
LEMMA StepIInv == ASSUME IInv, [Next]_vars PROVE IInv'
<1> USE CountAssumption, DropsAssumption, FdsAssumption DEF IInv
<1>1. ASSUME NEW c \in Waiters, Lock(c) PROVE IInv'
  <2>1. TypeOK'
    BY <1>1 DEF Lock, Evt!FirstPoll, TypeOK, Evt!TypeOK
  <2>2. c \notin guards /\ count' = count /\ guards' = guards
    BY <1>1 DEF Lock, Evt!FirstPoll, GuardsHaveToken
  <2>3. /\ read'[c] = "queued"
        /\ \A d \in Waiters : d # c => read'[d] = read[d] /\ waiter'[d] = waiter[d]
    BY <1>1 DEF Lock, Evt!FirstPoll, TypeOK, Evt!TypeOK
  <2>4. \A d \in Waiters : HasToken(d)' => HasToken(d)
    BY <2>2, <2>3 DEF HasToken
  <2>5. OneToken'
    BY <2>2, <2>4 DEF OneToken
  <2>6. GuardsHaveToken'
    BY <2>2, <2>3 DEF GuardsHaveToken, TypeOK
  <2> QED
    BY <2>1, <2>5, <2>6
<1>2. ASSUME NEW c \in Waiters, LockReturns(c) PROVE IInv'
  <2>1. TypeOK'
    BY <1>2 DEF LockReturns, Evt!PollReady, TypeOK, Evt!TypeOK
  <2>2. /\ read[c] = "done" /\ waiter[c] = "waiting" /\ waiter'[c] = "ready"
        /\ read' = read /\ count' = count /\ guards' = guards \cup {c}
        /\ \A d \in Waiters : d # c => waiter'[d] = waiter[d]
    BY <1>2 DEF LockReturns, Evt!PollReady, TypeOK, Evt!TypeOK
  <2>3. \A d \in Waiters : HasToken(d)' => HasToken(d)
    BY <2>2 DEF HasToken
  <2>4. OneToken'
    BY <2>2, <2>3 DEF OneToken
  <2>5. GuardsHaveToken'
    BY <2>2 DEF GuardsHaveToken, TypeOK
  <2> QED
    BY <2>1, <2>4, <2>5
<1>3. ASSUME NEW c \in Waiters, Unlock(c) PROVE IInv'
  <2>1. HasToken(c) /\ waiter[c] = "ready"
    BY <1>3 DEF Unlock, GuardsHaveToken, HasToken
  <2>2. /\ count = 0 /\ count' = 1 /\ guards' = guards \ {c}
        /\ read' = read /\ waiter' = waiter /\ notified' = notified + 1
    BY <1>3, <2>1 DEF Unlock, Evt!notify_one, OneToken
  <2>3. TypeOK'
    BY <1>3, <2>2 DEF Unlock, TypeOK, Evt!TypeOK
  <2>4. \A d \in Waiters : ~HasToken(d)'
    BY <2>1, <2>2 DEF OneToken, HasToken
  <2>5. OneToken' /\ GuardsHaveToken'
    BY <2>2, <2>4 DEF OneToken, GuardsHaveToken
  <2> QED
    BY <2>3, <2>5
<1>4. ASSUME NEW c \in Waiters, DropLock(c) PROVE IInv'
  <2>1. TypeOK'
    BY <1>4 DEF DropLock, Evt!Drop, TypeOK, Evt!TypeOK
  <2>2. /\ waiter[c] = "waiting" /\ waiter'[c] = "dropped"
        /\ read' = read /\ count' = count /\ guards' = guards
        /\ \A d \in Waiters : d # c => waiter'[d] = waiter[d]
    BY <1>4 DEF DropLock, Evt!Drop, TypeOK, Evt!TypeOK
  <2>3. \A d \in Waiters : HasToken(d)' => HasToken(d)
    BY <2>2 DEF HasToken
  <2>4. OneToken' /\ GuardsHaveToken'
    BY <2>2, <2>3 DEF OneToken, GuardsHaveToken, TypeOK
  <2> QED
    BY <2>1, <2>4
<1>5. ASSUME NEW c \in Waiters, KernelRead(c) PROVE IInv'
  <2>1. /\ read[c] = "kernel" /\ read'[c] = "done" /\ count > 0 /\ count' = count - 1
        /\ waiter' = waiter /\ guards' = guards /\ notified' = notified
        /\ \A d \in Waiters : d # c => read'[d] = read[d]
    BY <1>5 DEF KernelRead, Evt!KernelRead, TypeOK, Evt!TypeOK
  <2>2. count = 1 /\ count' = 0
    BY <2>1 DEF OneToken
  <2>3. TypeOK'
    BY <1>5, <2>1, <2>2 DEF KernelRead, Evt!KernelRead, TypeOK, Evt!TypeOK
  <2>4. \A d \in Waiters : HasToken(d)' => d = c
    BY <2>1, <2>2 DEF OneToken, HasToken
  <2>5. OneToken' /\ GuardsHaveToken'
    BY <2>1, <2>2, <2>4 DEF OneToken, GuardsHaveToken, TypeOK
  <2> QED
    BY <2>3, <2>5
<1>6. ASSUME NEW t \in Threads, Submit(t) PROVE IInv'
  <2>1. /\ waiter' = waiter /\ count' = count /\ guards' = guards /\ notified' = notified
        /\ \A d \in Waiters : \/ read'[d] = read[d]
                              \/ read[d] = "queued" /\ read'[d] \in {"kernel", "failed"}
        /\ read' \in [Waiters -> {"none", "queued", "kernel", "done", "failed"}]
    BY <1>6 DEF Submit, Evt!Handover, Evt!Mine, TypeOK, Evt!TypeOK
  <2>2. TypeOK'
    BY <1>6, <2>1 DEF Submit, TypeOK, Evt!TypeOK
  <2>3. \A d \in Waiters : HasToken(d)' => HasToken(d)
    BY <2>1 DEF HasToken
  <2>4. OneToken' /\ GuardsHaveToken'
    BY <2>1, <2>3 DEF OneToken, GuardsHaveToken, TypeOK
  <2> QED
    BY <2>2, <2>4
<1>7. CASE UNCHANGED vars
  BY <1>7 DEF vars, event_vars, TypeOK, Evt!TypeOK, OneToken, GuardsHaveToken, HasToken
<1> QED
  BY <1>1, <1>2, <1>3, <1>4, <1>5, <1>6, <1>7 DEF Next, Quiet

\* IInv is an inductive invariant of the mutex.
THEOREM Invariance == Spec => []IInv
<1>1. Init => IInv
  BY CountAssumption, DropsAssumption
  DEF Init, IInv, TypeOK, Evt!TypeOK, OneToken, GuardsHaveToken, HasToken
<1>2. IInv /\ [Next]_vars => IInv'
  BY StepIInv
<1> QED
  BY <1>1, <1>2, PTL DEF Spec

\* The state of the mutex and of its event keeps its types.
THEOREM TypeCorrect == Spec => []TypeOK
  BY Invariance, PTL DEF IInv

\* At most one LockGuard exists, for any calls of lock() on any threads, dropped
\* or not (mutex.rs:113-138).
THEOREM GuardsExclude == Spec => []MutualExclusion
<1>1. IInv => MutualExclusion
  BY DEF IInv, TypeOK, OneToken, GuardsHaveToken, HasToken, MutualExclusion
<1> QED
  BY <1>1, Invariance, PTL

\* The unwrap() in the drop of a LockGuard never fails (mutex.rs:136).
THEOREM UnlocksSucceed == Spec => []UnlockSucceeds
<1>1. IInv => UnlockSucceeds
  BY CountAssumption, DropsAssumption
  DEF IInv, TypeOK, OneToken, GuardsHaveToken, HasToken, UnlockSucceeds
<1> QED
  BY <1>1, Invariance, PTL

=============================================================================
