----------------------------- MODULE Scheduler -----------------------------
(***************************************************************************)
(* The socket pipeline's scheduler                                        *)
(* (socket_pipeline_scheduler::schedule in                                *)
(* src/subordination/daemon/socket_pipeline.cc) over the client table it  *)
(* reads and writes: per-client weight and max_weight, the client state,  *)
(* and the scheduler's local weight, with the socket_pipeline operations  *)
(* that change them: clients added, started, stopped, deactivated and     *)
(* removed, reweighted, and charged back by downstream kernels, and the   *)
(* node's server, without which no client can be created.  Weights are    *)
(* unsigned integers of width W and wrap around.                          *)
(***************************************************************************)
EXTENDS Integers, FiniteSets, Sequences, FiniteSetsExt

CONSTANTS
    Client,         \* neighbour addresses
    Order,          \* the iteration order of the client table
    Here,           \* the address of this node's server
    W,              \* width of weight_type in bits
    InitWeight,     \* weights add_client may be given
    MaxWeight,      \* values set_client_weight may store in max_weight
    Source,         \* sources an upstream kernel may have
    Hint,           \* the node sets a file location lookup may yield
    LocalFlag,      \* the scheduler's local() flag
    None,           \* no address / no choice
    Local           \* "execute on this node" (clients.end())

Mod == 2^W
WMax == Mod - 1     \* std::numeric_limits<weight_type>::max()

ASSUME
    /\ Order \in Seq(Client) /\ Len(Order) = Cardinality(Client)
    /\ \A i, j \in 1..Len(Order) : i # j => Order[i] # Order[j]
    /\ W \in Nat \ {0}
    /\ InitWeight \subseteq 0..WMax
    /\ MaxWeight \subseteq 1..WMax
    /\ Source \subseteq Client \cup {None}
    /\ Hint \subseteq SUBSET (Client \cup {Here})
    /\ LocalFlag \in BOOLEAN

VARIABLES
    state,      \* state[c]: "absent" (not in the table), "starting", "started",
                \* "stopped" or "inactive"
    weight,     \* weight[c]: socket_pipeline_client::_weight
    maxw,       \* maxw[c]: socket_pipeline_client::_max_weight
    localw,     \* socket_pipeline_scheduler::_local_weight
    chosen,     \* the last decision: the kernel's source and its destination
    serving     \* _servers holds the server at Here, whose interface holds
                \* every neighbour

vars == <<state, weight, maxw, localw, chosen, serving>>

Weight == 0..WMax

Table == {c \in Client : state[c] # "absent"}
Started == {c \in Client : state[c] = "started"}

-----------------------------------------------------------------------------
(* schedule(), step by step.                                               *)

\* The overflow test over started clients and the local weight.
Overflow == (\E c \in Started : weight[c] = WMax) \/ localw = WMax

MinWeight == Min({weight[c] : c \in Started})

\* Mutant: weight_type signed, the rebase goes below zero.
RebasedSigned(w, m) == w - m

\* pair.second->weight(old_weight - min_weight), unsigned.
Rebased(w, m) == (w - m) % Mod

\* The weights after the reset on overflow: every client in the table is
\* rebased, started or not, and so is the local weight.
AfterReset ==
    IF Overflow
    THEN [w |-> [c \in Client |-> IF c \in Table THEN Rebased(weight[c], MinWeight)
                                                ELSE weight[c]],
          lw |-> Rebased(localw, MinWeight)]
    ELSE [w |-> weight, lw |-> localw]

\* socket_pipeline_client::modular_weight under weights w.
ModularWeight(w, c) == w[c] \div maxw[c]

\* Mutant: the loop does not skip clients that are not started.
ScanStepAnyState(r, k, acc, c) ==
    LET mw(x) == ModularWeight(r.w, x)
        fileLocal == Here \in k.hint /\ serving
        res == CASE c = k.src -> acc.res
                 [] acc.res = Local -> IF ~LocalFlag \/ k.cp \/ mw(c) < r.lw THEN c ELSE Local
                 [] OTHER -> IF mw(c) < mw(acc.res) THEN c ELSE acc.res
        resN == CASE c \notin k.hint -> acc.resN
                  [] acc.resN = Local -> IF ~fileLocal \/ mw(c) < r.lw THEN c ELSE Local
                  [] OTHER -> IF mw(c) < mw(acc.resN) THEN c ELSE acc.resN
    IN  IF c \notin Table THEN acc ELSE [res |-> res, resN |-> resN]

\* One iteration of the loop over the table for client c: the best
\* non-source client so far (res) and the best client at the file's
\* location so far (resN).  r is the rebased state, k the kernel.
ScanStep(r, k, acc, c) ==
    LET mw(x) == ModularWeight(r.w, x)
        fileLocal == Here \in k.hint /\ serving
        res == CASE c = k.src -> acc.res
                 [] acc.res = Local -> IF ~LocalFlag \/ k.cp \/ mw(c) < r.lw THEN c ELSE Local
                 [] OTHER -> IF mw(c) < mw(acc.res) THEN c ELSE acc.res
        resN == CASE c \notin k.hint -> acc.resN
                  [] acc.resN = Local -> IF ~fileLocal \/ mw(c) < r.lw THEN c ELSE Local
                  [] OTHER -> IF mw(c) < mw(acc.resN) THEN c ELSE acc.resN
    IN  IF state[c] # "started" THEN acc ELSE [res |-> res, resN |-> resN]

RECURSIVE Scan(_, _, _, _)
Scan(r, k, acc, i) ==
    IF i > Len(Order) THEN acc ELSE Scan(r, k, ScanStep(r, k, acc, Order[i]), i + 1)

\* The client schedule() returns (Local for clients.end()) for kernel k on
\* the rebased state r: the hinted choice wins, a local file forces Local.
Decision(r, k) ==
    LET acc == Scan(r, k, [res |-> Local, resN |-> Local], 1) IN
    CASE Here \in k.hint /\ serving -> Local
      [] acc.resN # Local -> acc.resN
      [] OTHER -> acc.res

-----------------------------------------------------------------------------
(* Actions.                                                                *)

\* find_or_create_client(c) succeeds: c is in the table, or do_add_client
\* finds a server whose interface holds c ("no matching server found").
CanFind(c) == state[c] # "absent" \/ serving

\* The table after find_or_create_client(c): a new client is "starting"
\* with the member defaults _weight = 0 and _max_weight = 1.
FindOrCreateClient(c) ==
    LET new == state[c] = "absent" IN
    [st |-> [state EXCEPT ![c] = IF new THEN "starting" ELSE @],
     w  |-> [weight EXCEPT ![c] = IF new THEN 0 ELSE @],
     mw |-> [maxw EXCEPT ![c] = IF new THEN 1 ELSE @]]

\* add_client(addr, weight): do_add_client, then the weight.  For an
\* address already in the table emplace leaves the table as it is.
AddClient(c, w) ==
    /\ state[c] = "absent" /\ serving
    /\ state' = [state EXCEPT ![c] = "starting"]
    /\ weight' = [weight EXCEPT ![c] = w]
    /\ maxw' = [maxw EXCEPT ![c] = 1]
    /\ UNCHANGED <<localw, chosen, serving>>

\* The client's first event without error: starting -> started.
Start(c) ==
    /\ state[c] = "starting"
    /\ state' = [state EXCEPT ![c] = "started"]
    /\ UNCHANGED <<weight, maxw, localw, chosen, serving>>

\* remove_client: the client is stopped and leaves the table.
RemoveClient(c) ==
    /\ state[c] # "absent"
    /\ state' = [state EXCEPT ![c] = "absent"]
    /\ weight' = [weight EXCEPT ![c] = 0]
    /\ maxw' = [maxw EXCEPT ![c] = 1]
    /\ UNCHANGED <<localw, chosen, serving>>

\* stop_client(addr): the client stays in the table, stopped.
StopClient(c) ==
    /\ state[c] # "absent"
    /\ state' = [state EXCEPT ![c] = "stopped"]
    /\ UNCHANGED <<weight, maxw, localw, chosen, serving>>

\* deactivate(): the socket is closed and the client is inactive;
\* activate(): it reconnects and is starting again.
Deactivate(c) ==
    /\ state[c] # "absent"
    /\ state' = [state EXCEPT ![c] = "inactive"]
    /\ UNCHANGED <<weight, maxw, localw, chosen, serving>>

Activate(c) ==
    /\ state[c] = "inactive"
    /\ state' = [state EXCEPT ![c] = "starting"]
    /\ UNCHANGED <<weight, maxw, localw, chosen, serving>>

\* set_client_weight(addr, w): find_or_create_client, then max_weight(w).
SetClientWeight(c, w) ==
    /\ CanFind(c)
    /\ LET f == FindOrCreateClient(c) IN
       /\ state' = f.st /\ weight' = f.w
       /\ maxw' = [f.mw EXCEPT ![c] = w]
    /\ UNCHANGED <<localw, chosen, serving>>

\* A downstream kernel from c passes the client: if (_weight != 0) --_weight.
Reply(c) ==
    /\ state[c] # "absent"
    /\ weight[c] # 0
    /\ weight' = [weight EXCEPT ![c] = @ - 1]
    /\ UNCHANGED <<state, maxw, localw, chosen, serving>>

\* socket_pipeline_client::forward(k) on weights w: a downstream kernel
\* takes one off a non-zero weight (routed() is never set).
ClientForward(w, c, downstream) ==
    IF downstream /\ w[c] # 0 THEN [w EXCEPT ![c] = @ - 1] ELSE w

\* forward(k) of a downstream or point-to-point kernel for c:
\* find_or_create_client, then the client's forward().
Forward(c, downstream) ==
    /\ CanFind(c)
    /\ LET f == FindOrCreateClient(c) IN
       /\ state' = f.st /\ maxw' = f.mw
       /\ weight' = ClientForward(f.w, c, downstream)
    /\ UNCHANGED <<localw, chosen, serving>>

\* add_server / remove_server of the server at Here.
AddServer ==
    /\ ~serving /\ serving' = TRUE
    /\ UNCHANGED <<state, weight, maxw, localw, chosen>>

RemoveServer ==
    /\ serving /\ serving' = FALSE
    /\ UNCHANGED <<state, weight, maxw, localw, chosen>>

\* schedule() with no started client: clients.end(), weights untouched.
ScheduleNoneStarted(k) ==
    /\ Started = {}
    /\ chosen' = [src |-> k.src, to |-> Local]
    /\ UNCHANGED <<state, weight, maxw, localw, serving>>

\* schedule() with a started client: reset on overflow, scan the table,
\* then charge the chosen client or the local weight.  forward() of an
\* upstream kernel schedules it the same way and leaves the weights to
\* schedule().
Schedule(k) ==
    /\ Started # {}
    /\ LET r == AfterReset
           d == Decision(r, k)
       IN  /\ chosen' = [src |-> k.src, to |-> d]
           /\ IF d = Local
              THEN weight' = r.w /\ localw' = (r.lw + 1) % Mod
              ELSE weight' = [r.w EXCEPT ![d] = (@ + 1) % Mod] /\ localw' = r.lw
    /\ UNCHANGED <<state, maxw, serving>>

\* The upstream kernels the scheduler may be asked to place.
Kernels == [src : Source, cp : BOOLEAN, hint : Hint]

Init ==
    /\ state = [c \in Client |-> "absent"]
    /\ weight = [c \in Client |-> 0]
    /\ maxw = [c \in Client |-> 1]
    /\ localw = 0
    /\ chosen = [src |-> None, to |-> None]
    /\ serving = FALSE

Next ==
    \/ \E c \in Client, w \in InitWeight : AddClient(c, w)
    \/ \E c \in Client : Start(c)
    \/ \E c \in Client : RemoveClient(c)
    \/ \E c \in Client, w \in MaxWeight : SetClientWeight(c, w)
    \/ \E c \in Client : Reply(c)
    \/ \E c \in Client : StopClient(c) \/ Deactivate(c) \/ Activate(c)
    \/ \E c \in Client, ds \in BOOLEAN : Forward(c, ds)
    \/ AddServer \/ RemoveServer
    \/ \E k \in Kernels : ScheduleNoneStarted(k)
    \/ \E k \in Kernels : Schedule(k)

Spec == Init /\ [][Next]_vars

-----------------------------------------------------------------------------
(* Properties.                                                             *)

TypeOK ==
    /\ state \in [Client -> {"absent", "starting", "started", "stopped", "inactive"}]
    /\ weight \in [Client -> Weight]
    /\ maxw \in [Client -> 1..WMax]
    /\ localw \in Weight
    /\ chosen \in [src : Source \cup {None}, to : Client \cup {Local, None}]
    /\ serving \in BOOLEAN

\* The scheduler implements SchedulerAbstract: every decision sends the
\* kernel to a started neighbour other than its source, or keeps it here.
Abstract == INSTANCE SchedulerAbstract WITH started <- Started, chosen <- chosen
ImplementsAbstract == Abstract!ASpec

=============================================================================
