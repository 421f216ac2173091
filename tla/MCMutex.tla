------------------------------ MODULE MCMutex ------------------------------
(* Instances of Mutex for TLC. *)
EXTENDS Mutex, TLC

CONSTANTS c1, c2, c3, c4, t1, t2

MCThreadOf == (c1 :> t1) @@ (c2 :> t1) @@ (c3 :> t2) @@ (c4 :> t2)
=============================================================================
