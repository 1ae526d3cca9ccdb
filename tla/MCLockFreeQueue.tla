--------------------------- MODULE MCLockFreeQueue ---------------------------
(* LockFreeQueueObserver on small instances. *)
EXTENDS LockFreeQueueObserver, TLC

\* Threads and elements are interchangeable: used for the safety run only.
Symmetry == Permutations(Producers) \cup Permutations(Consumers) \cup Permutations(Items)
=============================================================================
