---------------------------- MODULE MC_Scheduler ----------------------------
(* Instantiation of Scheduler for TLC: two neighbours, 2-bit weights.     *)
EXTENDS Scheduler

CONSTANTS c1, c2, h

MCOrder == <<c1, c2>>
\* No file location, or a file held by c2 or by this node.
MCHint == {{}, {c2}, {h}}
=============================================================================
