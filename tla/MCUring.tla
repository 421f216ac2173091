------------------------------ MODULE MCUring ------------------------------
(* Instances of Uring for TLC. *)
EXTENDS Uring, TLC

CONSTANTS o1, o2, m1, m2, k1, k2

\* A success and an error.
OkAndErr == {4, -11}

Symmetric == Permutations(Oneshots) \cup Permutations(Multishots)
             \cup Permutations(Keys)
=============================================================================
