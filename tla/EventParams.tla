---------------------------- MODULE EventParams -----------------------------
(* The parameters of an event, which modules Event and Mutex share. *)
EXTENDS Naturals

CONSTANTS
  Waiters,     \* the EventWaiters of the event, or calls of lock()
  Threads,
  ThreadOf,    \* the thread whose executor polls each waiter
  Drops,       \* waiters may be dropped before they are Ready
  MaxCount     \* largest count of an eventfd, 2^64 - 2

ASSUME ThreadsAssumption == ThreadOf \in [Waiters -> Threads]
ASSUME DropsAssumption == Drops \in BOOLEAN
ASSUME CountAssumption == MaxCount \in Nat \ {0}

=============================================================================
