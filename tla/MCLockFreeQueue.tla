-------------------------- MODULE MCLockFreeQueue --------------------------
(* Small instances of the lock-free queue for TLC.                         *)
EXTENDS LockFreeQueue, TLC

(* The capacity mev_queue_create allocates for a request of 2.             *)
CapacityFor2 == RoundUp(2)

Symmetry == Permutations(Producers) \cup Permutations(Consumers) \cup Permutations(Items)
=============================================================================
