------------------------------ MODULE IoPort -------------------------------
(***************************************************************************)
(* What the reactor promises a future that holds a OneshotUringIo: the     *)
(* first poll queues one operation, react() hands it to the kernel, the    *)
(* kernel answers it once, and a later poll returns that answer.  A handle *)
(* that is dropped before that returns nothing, and its operation runs all *)
(* the same.                                                               *)
(*                                                                         *)
(* Module Uring implements this (Uring!PortSpec); the modules of the       *)
(* futures are written on top of it.                                       *)
(***************************************************************************)
EXTENDS Integers, Sequences

CONSTANTS Handles,
          Answers   \* i32 results of the kernel

VARIABLES
  fut,   \* IoState of each handle: "New", "Submitted", "Finished", or "Gone"
  op,    \* its operation: "none", "queued", "kernel" or "done"
  ans,   \* the kernel's answer: <<>> or <<v>>
  out    \* what polling the handle has returned: <<>> or <<result>>

port_vars == <<fut, op, ans, out>>

ToResult(v) == IF v < 0 THEN <<"Err", -v>> ELSE <<"Ok", v>>

TypeOK ==
  /\ fut \in [Handles -> {"New", "Submitted", "Finished", "Gone"}]
  /\ op \in [Handles -> {"none", "queued", "kernel", "done"}]
  /\ \A h \in Handles : ans[h] = <<>> \/ \E v \in Answers : ans[h] = <<v>>
  /\ \A h \in Handles : out[h] = <<>> \/ \E v \in Answers : out[h] = <<ToResult(v)>>

Init ==
  /\ fut = [h \in Handles |-> "New"]
  /\ op = [h \in Handles |-> "none"]
  /\ ans = [h \in Handles |-> <<>>]
  /\ out = [h \in Handles |-> <<>>]

\* The first poll.
Submit(h) ==
  /\ fut[h] = "New"
  /\ fut' = [fut EXCEPT ![h] = "Submitted"]
  /\ op' = [op EXCEPT ![h] = "queued"]
  /\ UNCHANGED <<ans, out>>

\* react() submits what is queued.
Queued == {h \in Handles : op[h] = "queued"}
Enter ==
  /\ op' = [h \in Handles |-> IF op[h] = "queued" THEN "kernel" ELSE op[h]]
  /\ UNCHANGED <<fut, ans, out>>

\* The kernel completes the operation, whether or not the handle still exists.
Answer(h, v) ==
  /\ op[h] = "kernel"
  /\ op' = [op EXCEPT ![h] = "done"]
  /\ ans' = [ans EXCEPT ![h] = <<v>>]
  /\ UNCHANGED <<fut, out>>

\* A later poll returns Ready.
Take(h) ==
  /\ fut[h] = "Submitted"
  /\ op[h] = "done"
  /\ fut' = [fut EXCEPT ![h] = "Finished"]
  /\ out' = [out EXCEPT ![h] = <<ToResult(ans[h][1])>>]
  /\ UNCHANGED <<op, ans>>

Drop(h) ==
  /\ fut[h] # "Gone"
  /\ fut' = [fut EXCEPT ![h] = "Gone"]
  /\ UNCHANGED <<op, ans, out>>

Next ==
  \/ \E h \in Handles : \/ Submit(h) \/ Take(h) \/ Drop(h)
                        \/ \E v \in Answers : Answer(h, v)
  \/ Enter

Spec == Init /\ [][Next]_port_vars

=============================================================================
