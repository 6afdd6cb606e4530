--------------------------- MODULE MC_SocketServer ---------------------------
(* Instantiation of SocketServer for TLC: two producers sending a kernel   *)
(* each to a server with two peers, q1 first in _upstream's order; one   *)
(* kernel goes upstream, the other to q2 by its destination.             *)
EXTENDS SocketServer

CONSTANTS p1, p2, k1, k2, q1, q2

MCSender == [k \in {k1, k2} |-> IF k = k1 THEN p1 ELSE p2]
MCOrder == <<q1, q2>>
\* k1 is an upstream kernel, k2 is addressed to q2.
MCDest == [k \in {k1, k2} |-> IF k = k1 THEN None ELSE q2]
=============================================================================
