------------------------------ MODULE MCStale ------------------------------
(***************************************************************************)
(* An instance of Runtime whose slabs give out indices as the crate `slab` *)
(* does.  Executor and Uring let insert() take any vacant index, which     *)
(* serves for what must hold; the counterexample this instance is for has  *)
(* to be one the crate allows.                                             *)
(***************************************************************************)
EXTENDS MCRuntime

CONSTANTS k0, k1, k2

VARIABLES
  free_tasks,     \* the vacant indices of Executor::waiting, the next one first
  free_pending,   \* those of the reactor's slab of pending operations
  free_oneshot    \* those of its slab of oneshot results

slabs == <<free_tasks, free_pending, free_oneshot>>

\* insert() takes the first vacant index, remove() makes its index the first.
Slab(free, next, before, after, none) ==
  LET vacant(store) == {k \in DOMAIN store : store[k] = none}
  IN  \/ vacant(after) = vacant(before) /\ next = free
      \/ \E k \in vacant(before) \ vacant(after) : k = Head(free) /\ next = Tail(free)
      \/ \E k \in vacant(after) \ vacant(before) : next = <<k>> \o free

SlabInit ==
  /\ Init
  /\ free_tasks = <<k0, k1>>
  /\ free_pending = <<k0, k1, k2>>
  /\ free_oneshot = <<k0, k1, k2>>

SlabNext ==
  /\ Next
  /\ Slab(free_tasks, free_tasks', waiting, waiting', NoTask)
  /\ Slab(free_pending, free_pending', pending, pending', U!Vacant)
  /\ Slab(free_oneshot, free_oneshot', oneshot, oneshot', U!Vacant)

SlabSpec == SlabInit /\ [][SlabNext]_<<vars, slabs>>
=============================================================================
