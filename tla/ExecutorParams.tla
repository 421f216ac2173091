--------------------------- MODULE ExecutorParams ---------------------------
(* The parameters of an executor, which modules Executor and Runtime share. *)

CONSTANTS
  Tasks,
  NoTask,     \* stands for an empty place
  TaskKeys,   \* indices of the `waiting` slab
  FirstKey    \* the index a new TaskId holds, 0 in the code

ASSUME NoTaskAssumption == NoTask \notin Tasks
ASSUME KeysAssumption == FirstKey \in TaskKeys

=============================================================================
