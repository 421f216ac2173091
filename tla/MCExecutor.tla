---------------------------- MODULE MCExecutor -----------------------------
(* Instances of Executor for TLC. *)
EXTENDS Executor, TLC

CONSTANTS t1, t2, t3, t4, k0, k1, k2, k3

Symmetric == Permutations(Tasks \ SelfWakers) \cup Permutations(TaskKeys \ {FirstKey})
=============================================================================
