------------------------------ MODULE MCPools ------------------------------
(* The two pools everything in a server is allocated from, side by side: the *)
(* buffers of the packets and the nodes of the maps.  They share nothing, so *)
(* each behaviour moves one of them.                                         *)
EXTENDS SendPath, AVLTree, TLC

VARIABLE part

PoolsInit == part \in {"buffers", "nodes"} /\ Init /\ TreeInit

PoolsNext ==
    /\ UNCHANGED part
    /\ \/ part = "buffers" /\ Next /\ UNCHANGED nodes
       \/ part = "nodes" /\ TreeNext /\ UNCHANGED vars

PoolsSpec == PoolsInit /\ [][PoolsNext]_<<part, vars, nodes>>

Symmetry == Permutations(Buffers) \cup Permutations(Conns) \cup Permutations(Threads)
=============================================================================
