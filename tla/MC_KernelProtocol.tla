------------------------- MODULE MC_KernelProtocol -------------------------
(* Instantiation of KernelProtocol for TLC: a few nodes, two children.    *)
EXTENDS KernelProtocol

CONSTANTS A, B, C, k1, k2, p1, p2

\* Two parents on different nodes, each with one child.
MCOrigin == [k \in Kernel |-> IF k = k1 THEN A ELSE B]
MCParent == [k \in Kernel |-> IF k = k1 THEN p1 ELSE p2]
\* Two children of one parent on node A.
MCOriginSame == [k \in Kernel |-> A]
=============================================================================
