--------------------------- MODULE MC_PoolServer ---------------------------
(* Instantiation of PoolServer for TLC: two producers, one kernel each.   *)
EXTENDS PoolServer

CONSTANTS p1, p2, k1, k2

MCSender == [k \in Kernel |-> IF k = k1 THEN p1 ELSE p2]
=============================================================================
