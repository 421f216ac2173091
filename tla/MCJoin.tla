------------------------------- MODULE MCJoin -------------------------------
(* Instances of Join for TLC. *)
EXTENDS Join

CONSTANTS t1, t2, o1, o2, j2

\* t2 holds o2; t1 holds o1 and joins t2.
Holder == [h \in Oneshots |-> IF h = o2 THEN t2 ELSE t1]
Joined == [h \in {j2} |-> t2]
=============================================================================
