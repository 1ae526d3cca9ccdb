---------------------------- MODULE MCNetEngine ----------------------------
(* NetEngine on a small instance. *)
EXTENDS NetEngine, TLC

\* Event threads do the same work; connections differ only in the free list.
Symmetry == Permutations(Conns) \cup Permutations(EventThreads)
=============================================================================
