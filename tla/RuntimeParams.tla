--------------------------- MODULE RuntimeParams ----------------------------
(* The parameters of module Runtime. *)
EXTENDS ExecutorParams, UringParams

CONSTANTS
  Owner,     \* the task that holds each handle
  Cancels    \* futures drop handles whose operation is in flight

ASSUME OwnerAssumption == Owner \in [Oneshots \cup Multishots -> Tasks]
ASSUME CancelsAssumption == Cancels \in BOOLEAN

=============================================================================
