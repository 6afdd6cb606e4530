------------------------- MODULE MC_ProcessPipeline -------------------------
EXTENDS ProcessPipeline

CONSTANTS k1, k2, k3

\* k1 and k2 arrive by forward() and start applications 2 and 7; k3 is a
\* native kernel for application 7.  Application 2 and pid 2 coincide, so
\* remove_client's key can name another application's entry.
MCKernel == {k1, k2, k3}
MCAppOf == [k \in MCKernel |-> IF k = k1 THEN 2 ELSE 7]
MCForeign == {k1, k2}
=============================================================================
