---------------------------- MODULE UringParams -----------------------------
(* The parameters of a reactor, which modules Uring and Runtime share. *)
EXTENDS Integers

CONSTANTS
  Oneshots,    \* the OneshotUringIo handles
  Multishots,  \* the MultishotUringIo handles
  Keys,        \* indices of the slabs
  Results,     \* i32 results the kernel gives an operation it did not cancel
  SqEntries,   \* entries of the submission ring, 1024 in the code
  RingCap,     \* capacity of a multishot result buffer, 1024 in the code
  MaxShots     \* bound: completions of any two multishot operations before their last

ASSUME HandlesAssumption == Oneshots \cap Multishots = {}
ASSUME ResultsAssumption == Results \subseteq Int
ASSUME BoundsAssumption ==
  /\ SqEntries \in Nat
  /\ RingCap \in Nat \ {0}
  /\ MaxShots \in Nat

=============================================================================
