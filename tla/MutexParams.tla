---------------------------- MODULE MutexParams -----------------------------
(* The parameters of module Mutex: those of its event, and descriptor numbers. *)
EXTENDS EventParams

CONSTANT LockFds  \* the descriptor numbers other files leave free for clones

ASSUME FdsAssumption == LockFds \subseteq Nat

=============================================================================
