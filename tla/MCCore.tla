------------------------------- MODULE MCCore -------------------------------
(***************************************************************************)
(* Instances of Executor and of Runtime, which adds the reactor, for TLC.  *)
(* Each behaviour is one of one of the two, named by `part`.               *)
(***************************************************************************)
EXTENDS Executor, RuntimeParams, TLC

CONSTANTS t1, t2, t3, t4, o1, o2, m1, k0, k1, k2, k3, k4

VARIABLES
  part,
  r_run_q, r_waiting, r_id, r_current, r_pc, r_phase, r_notified,
  io, pending, oneshot, multishot, sq, kernel, cq, entered, batch, posted, got,
  panic, awaits

\* t2 holds o2, t1 the rest.
Holder == [h \in Oneshots \cup Multishots |-> IF h = o2 THEN t2 ELSE t1]

\* Runtime has two of the tasks, and an index for each.
R == INSTANCE Runtime WITH
       Tasks <- {t1, t2}, TaskKeys <- {k0, k4},
       run_q <- r_run_q, waiting <- r_waiting, id <- r_id, current <- r_current,
       pc <- r_pc, phase <- r_phase, notified <- r_notified

runtime_vars == <<r_run_q, r_waiting, r_id, r_current, r_pc, r_phase, r_notified,
                  io, pending, oneshot, multishot, sq, kernel, cq, entered, batch,
                  posted, got, panic, awaits>>
all_vars == <<part, exec_vars, runtime_vars>>

MCInit == part \in {"executor", "runtime"} /\ Init /\ R!Init

ExecutorNext == part = "executor" /\ Next /\ UNCHANGED <<part, runtime_vars>>
RuntimeNext == part = "runtime" /\ R!Next /\ UNCHANGED <<part, exec_vars>>

MCNext == ExecutorNext \/ RuntimeNext

MCSpec == MCInit /\ [][MCNext]_all_vars

\* Three of the executor's indices are interchangeable, and those of the slabs of
\* the reactor in Runtime.
Symmetric == Permutations({k1, k2, k3})

-----------------------------------------------------------------------------
\* Runtime: no task sleeps on a result that was stored for it (task.rs:265-294,
\* reactor/mod.rs).
NoStrandedTask == R!NoStrandedTask
=============================================================================
