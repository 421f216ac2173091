------------------------------ MODULE MCTimer ------------------------------
(* Instances of Timer for TLC. *)
EXTENDS Timer

\* The wall clock is set forward or back.
ForwardAndBack == {2, -2}
=============================================================================
