----------------------------- MODULE MCRuntime -----------------------------
(* Instances of Runtime for TLC. *)
EXTENDS Runtime

CONSTANTS t1, t2, o1, o2, o3, m1

\* t2 holds o2, t1 the rest.
Holder == [h \in Handles |-> IF h = o2 THEN t2 ELSE t1]
=============================================================================
