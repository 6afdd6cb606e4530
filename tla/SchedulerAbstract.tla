------------------------- MODULE SchedulerAbstract -------------------------
(***************************************************************************)
(* What socket_pipeline_scheduler::schedule promises its caller (spec     *)
(* 4.6), and the choice KernelProtocol's Schedule makes: an upstream      *)
(* kernel goes to a started neighbour other than the one it came from, or *)
(* stays on this node.  Which neighbour is left open.                     *)
(***************************************************************************)
CONSTANTS
    Client,     \* the neighbour addresses
    None,       \* no address
    Local       \* "execute on this node"

VARIABLES
    started,    \* the neighbours whose connection is started
    chosen      \* the last decision: the kernel's source and where it went

avars == <<started, chosen>>

AInit ==
    /\ started = {}
    /\ chosen = [src |-> None, to |-> None]

\* A connection to c reaches or leaves the started state.
AStart(c) == started' = started \cup {c} /\ UNCHANGED chosen
AStop(c) == started' = started \ {c} /\ UNCHANGED chosen

\* A kernel that came from src is placed.
AChoose(src) ==
    /\ \E d \in (started \ {src}) \cup {Local} : chosen' = [src |-> src, to |-> d]
    /\ UNCHANGED started

ANext ==
    \/ \E c \in Client : AStart(c) \/ AStop(c)
    \/ \E s \in Client \cup {None} : AChoose(s)

ASpec == AInit /\ [][ANext]_avars
=============================================================================
