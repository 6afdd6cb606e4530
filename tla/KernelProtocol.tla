--------------------------- MODULE KernelProtocol ---------------------------
(***************************************************************************)
(* The kernel protocol engine (src/subordination/ppl/kernel_protocol.hh)  *)
(* composed with the socket pipeline that drives it                        *)
(* (src/subordination/daemon/socket_pipeline.cc) on a small cluster.       *)
(*                                                                         *)
(* Every node owns one connection object per peer (the socket pipeline's  *)
(* client table).  A connection object carries a kernel_protocol with its *)
(* own upstream and downstream recovery buffers and its own id counter.   *)
(* A TCP link joins the two connection objects of a pair of nodes; bytes  *)
(* written while it is alive arrive in order, and a transport failure     *)
(* loses whatever was not read yet.  Each node also has the socket        *)
(* pipeline's kernel queue (processed in FIFO order by its reactor) and   *)
(* the local pipeline's queue (executed by a thread pool, in any order).  *)
(*                                                                         *)
(* A kernel in flight is a record, a copy of the C++ object: the same     *)
(* kernel is the original kept in a recovery buffer and the serialised    *)
(* copy on the wire.                                                      *)
(***************************************************************************)
EXTENDS Naturals, Sequences, SequencesExt, FiniteSets

CONSTANTS
    Node,           \* the nodes of the cluster (model values)
    Kernel,         \* the child kernels submitted for remote execution
    Origin,         \* Origin[k]: the node whose parent kernel submits k
    Parent,         \* Parent[k]: the parent kernel of k
    CarriesParent,  \* the values the carries_parent flag may take
    MaxBreaks,      \* bound on transport failures
    None,           \* an absent address, parent or destination
    Local           \* the scheduler's answer "execute on this node"

ASSUME
    /\ Origin \in [Kernel -> Node]
    /\ CarriesParent \subseteq BOOLEAN /\ CarriesParent # {}
    /\ MaxBreaks \in Nat
    /\ None \notin Node /\ Local \notin Node

Parents == {Parent[k] : k \in Kernel}

\* A connection object is named by the pair <<owner, peer>>.
Pair == {p \in Node \X Node : p[1] # p[2]}
Rev(p) == <<p[2], p[1]>>

(***************************************************************************)
(* A kernel.  ph is the phase the code derives from result, principal and *)
(* parent: "up" is moves_upstream (and moves_somewhere when "to" is set), *)
(* "down" is moves_downstream.  id 0 is "no id".  src and to are the      *)
(* kernel's from() and to() addresses; par is its parent/principal        *)
(* pointer as held in this copy (None when only the id is known).         *)
(***************************************************************************)
Phase == {"up", "down"}
ExitCode == {"undefined", "success", "endpoint_not_connected"}
\* a connection numbers at most every parent and every child once
Ids == 0..(Cardinality(Kernel) + Cardinality(Parents))

KernelRec == [k : Kernel, id : Ids, ph : Phase, to : Node \cup {None},
              src : Node \cup {None}, rc : ExitCode, cp : BOOLEAN,
              par : Parents \cup {None}]

ConnState == {"absent", "starting", "started"}
ConnRec == [st : ConnState, ok : BOOLEAN, up : Seq(KernelRec),
            down : Seq(KernelRec), ctr : Ids]

VARIABLES
    conn,       \* conn[<<n,m>>]: node n's connection object for peer m
    chan,       \* chan[<<n,m>>]: kernels written by n's side, unread by m
    rq,         \* rq[n]: the socket pipeline's kernel queue (_kernels)
    nq,         \* nq[n]: the local (native) pipeline's queue
    pid,        \* pid[p]: the id of parent kernel p (0: none yet)
    submitted,  \* the kernels the parents have submitted
    done,       \* done[k]: how many times a principal reacted to k
    breaks      \* transport failures so far

vars == <<conn, chan, rq, nq, pid, submitted, done, breaks>>

Absent == [st |-> "absent", ok |-> FALSE, up |-> <<>>, down |-> <<>>, ctr |-> 0]
Fresh(ok) == [st |-> "starting", ok |-> ok, up |-> <<>>, down |-> <<>>, ctr |-> 0]

-----------------------------------------------------------------------------
(* Kernel phase predicates, kernel.hh Principal::moves_*.                  *)

MovesUpstream(c) == c.ph = "up"
MovesDownstream(c) == c.ph = "down"

-----------------------------------------------------------------------------
(* kernel_protocol::send and its helpers.                                  *)

\* kernel_goes_in_upstream_buffer / kernel_goes_in_downstream_buffer, with
\* the socket client's flags save_upstream_kernels | save_downstream_kernels.
\* Mutant: only kernels without an explicit destination are buffered
\* (moves_somewhere forgotten).
GoesInUpstreamBufferNoSomewhere(c) == MovesUpstream(c) /\ c.to = None
GoesInUpstreamBuffer(c) == MovesUpstream(c)
GoesInDownstreamBuffer(c) == MovesDownstream(c) /\ c.cp

\* save_kernel's ensure_has_id(k->parent()); ensure_has_id(k) on
\* connection record r: generate_id is ++_counter of this connection's
\* protocol, first for the parent if it has no id, then for the kernel.
\* The result is the new counter, the parent's id and the kernel.
EnsureHasId(r, c) ==
    LET c1 == IF pid[c.par] = 0 THEN r.ctr + 1 ELSE r.ctr
        c2 == IF c.id = 0 THEN c1 + 1 ELSE c1
    IN  [ctr |-> c2,
         pid |-> IF pid[c.par] = 0 THEN c1 ELSE pid[c.par],
         k |-> IF c.id = 0 THEN [c EXCEPT !.id = c2] ELSE c]

\* save_kernel: the connection record after buffering (or not) kernel c,
\* with the ids EnsureHasId gives it, and the parent's id.
SaveKernel(r, c) ==
    LET e == EnsureHasId(r, c) IN
    CASE GoesInUpstreamBuffer(c) ->
            [r |-> [r EXCEPT !.up = Append(@, e.k), !.ctr = e.ctr], k |-> e.k, pid |-> e.pid]
      [] GoesInDownstreamBuffer(c) ->
            [r |-> [r EXCEPT !.down = Append(@, c)], k |-> c, pid |-> 0]
      [] OTHER -> [r |-> r, k |-> c, pid |-> 0]

\* write_kernel: what the packet carries.  The parent travels only when the
\* kernel carries it (kstream::operator<<); otherwise only its id does.
Wire(c) == [c EXCEPT !.par = IF c.cp THEN @ ELSE None]

\* write_kernel(k, stream) on connection p of channels ch: one packet with
\* the header and the kernel, appended to the link while it is alive.  A
\* write error is caught and logged; bytes on a failed transport are lost.
WriteKernel(cm, ch, p, c) ==
    IF cm[p].ok THEN [ch EXCEPT ![p] = Append(@, Wire(c))] ELSE ch

\* Mutant: the packet is written before save_kernel assigns the id.
SendKernelEarlyWrite(cm, ch, p, c) ==
    LET s == SaveKernel(cm[p], c) IN
    /\ conn' = [cm EXCEPT ![p] = s.r]
    /\ chan' = WriteKernel(cm, ch, p, c)
    /\ pid' = IF GoesInUpstreamBuffer(c) THEN [pid EXCEPT ![c.par] = s.pid] ELSE pid

\* send(k, stream, to) on connection p of connection map cm and channels ch.
\* Bytes written to a failed transport never arrive.
SendKernel(cm, ch, p, c) ==
    LET s == SaveKernel(cm[p], c) IN
    /\ conn' = [cm EXCEPT ![p] = s.r]
    /\ chan' = WriteKernel(cm, ch, p, s.k)
    /\ pid' = IF GoesInUpstreamBuffer(c) THEN [pid EXCEPT ![c.par] = s.pid] ELSE pid

-----------------------------------------------------------------------------
(* Receiving side: receive_kernels -> read_kernel -> receive_kernel.       *)

\* Mutant: the matched upstream entry is not erased.
PlugParentKeepEntry(r, c) ==
    LET i == SelectInSeq(r.up, LAMBDA x : x.id = c.id)
    IN  CASE c.id = 0 -> [r |-> r, out |-> <<>>]
          [] i # 0 -> [r |-> r, out |-> <<[c EXCEPT !.par = r.up[i].par]>>]
          [] c.cp -> [r |-> [r EXCEPT !.down = RemoveFirstMatch(@, LAMBDA x : x.id = c.id)],
                      out |-> <<c>>]
          [] OTHER -> [r |-> r, out |-> <<>>]

\* plug_parent on connection record r for downstream kernel c: the new
\* record and the kernels handed to the native pipeline (none when the
\* parent is not found: the kernel is deleted and the error only logged).
PlugParent(r, c) ==
    LET i == SelectInSeq(r.up, LAMBDA x : x.id = c.id)
    IN  CASE c.id = 0 -> [r |-> r, out |-> <<>>]
          [] i # 0 -> [r |-> [r EXCEPT !.up = RemoveAt(@, i)],
                       out |-> <<[c EXCEPT !.par = r.up[i].par]>>]
          [] c.cp -> [r |-> [r EXCEPT !.down = RemoveFirstMatch(@, LAMBDA x : x.id = c.id)],
                      out |-> <<c>>]
          [] OTHER -> [r |-> r, out |-> <<>>]

\* read_kernel, for the packet c that node p[2] reads from peer p[1]: the
\* header gets from() = the peer's address and the kernel takes it; the
\* socket client writes no addresses, so to() is empty.
ReadKernel(p, c) == [c EXCEPT !.src = p[1], !.to = None]

\* receive_kernel on connection record r: a downstream kernel is matched by
\* plug_parent; any other goes to the native pipeline as it is (no kernel
\* of the model names its principal by principal_id).
ReceiveKernel(r, c) ==
    IF MovesDownstream(c) THEN PlugParent(r, c) ELSE [r |-> r, out |-> <<c>>]

-----------------------------------------------------------------------------
(* Recovery: kernel_protocol::recover_kernels(true), called from the       *)
(* socket client's destructor when the client is removed.                  *)

\* recover_kernel, first branch: resubmit through the remote pipeline.
Resubmitted(c) == MovesUpstream(c) /\ c.to = None
\* second branch: destination unreachable, return to the parent.
Unreachable(c) == MovesUpstream(c) /\ c.to # None
\* third branch: restore the embedded parent locally.
Restored(c) == MovesDownstream(c) /\ c.cp

ReturnToParent(c) ==
    [c EXCEPT !.src = c.to, !.ph = "down", !.rc = "endpoint_not_connected"]

RecoverKernel(c) == IF Unreachable(c) THEN ReturnToParent(c) ELSE c

\* do_recover_kernels over one buffer: the kernels for the remote pipeline
\* and those for the native pipeline, each in buffer order.  A kernel of
\* no known shape is deleted.  recover_kernels(true) does the upstream
\* buffer, then the downstream one.
DoRecoverKernels(s) ==
    LET native == SelectSeq(s, LAMBDA c : Unreachable(c) \/ Restored(c))
    IN  [remote |-> SelectSeq(s, Resubmitted),
         native |-> [i \in 1..Len(native) |-> RecoverKernel(native[i])]]

RecoverKernels(r) ==
    LET u == DoRecoverKernels(r.up)
        d == DoRecoverKernels(r.down)
    IN  [remote |-> u.remote \o d.remote, native |-> u.native \o d.native]

-----------------------------------------------------------------------------
(* The socket pipeline.                                                    *)

\* do_add_client(addr) together with the peer's accept: a new connection in
\* the starting state.  The peer's server accepts the socket only when it
\* has no client for this address yet; otherwise the accepted socket is
\* dropped and the new connection fails.
Accepted(p) == conn[Rev(p)].st = "absent"
AddedConn(p) ==
    IF Accepted(p)
    THEN [conn EXCEPT ![p] = Fresh(TRUE), ![Rev(p)] = Fresh(TRUE)]
    ELSE [conn EXCEPT ![p] = Fresh(FALSE)]
AddedChan(p) == [chan EXCEPT ![p] = <<>>, ![Rev(p)] = <<>>]

\* The clients socket_pipeline_scheduler::schedule may pick for kernel c at
\* node n: a started neighbour that is not the kernel's source, or the
\* local node.  Which one it picks depends on weights (module Scheduler).
Schedule(n, c) ==
    {m \in Node \ {n} : conn[<<n, m>>].st = "started" /\ m # c.src} \cup {Local}

-----------------------------------------------------------------------------
(* Actions.                                                                *)

\* A parent submits child kernel k upstream, optionally to an explicit
\* destination, through the remote (socket) pipeline.
Submit(k) ==
    /\ k \notin submitted
    /\ \E to \in {None} \cup (Node \ {Origin[k]}), cp \in CarriesParent :
         rq' = [rq EXCEPT ![Origin[k]] = Append(@,
                  [k |-> k, id |-> 0, ph |-> "up", to |-> to, src |-> None,
                   rc |-> "undefined", cp |-> cp, par |-> Parent[k]])]
    /\ submitted' = submitted \cup {k}
    /\ UNCHANGED <<conn, chan, nq, pid, done, breaks>>

\* add_client(addr, weight): the node dials a peer it has no client for.
AddClient(p) ==
    /\ conn[p].st = "absent"
    /\ conn' = AddedConn(p)
    /\ chan' = AddedChan(p)
    /\ UNCHANGED <<rq, nq, pid, submitted, done, breaks>>

\* socket_pipeline_client::handle without input: starting -> started.
Start(p) ==
    /\ conn[p].st = "starting"
    /\ conn[p].ok
    /\ conn' = [conn EXCEPT ![p].st = "started"]
    /\ UNCHANGED <<chan, rq, nq, pid, submitted, done, breaks>>

\* process_kernels, an upstream kernel without destination: the scheduler
\* picks a client (client->second->send) or the local node (send_native).
ProcessUpstream(n) ==
    /\ rq[n] # <<>>
    /\ LET c == Head(rq[n]) IN
       /\ MovesUpstream(c) /\ c.to = None
       /\ rq' = [rq EXCEPT ![n] = Tail(@)]
       /\ \E d \in Schedule(n, c) :
            IF d = Local
            THEN /\ nq' = [nq EXCEPT ![n] = Append(@, c)]
                 /\ UNCHANGED <<conn, chan, pid>>
            ELSE /\ SendKernel(conn, chan, <<n, d>>, c)
                 /\ UNCHANGED nq
    /\ UNCHANGED <<submitted, done, breaks>>

\* process_kernels, a downstream kernel without source: it was executed on
\* this node because no neighbour was available, and goes to the native
\* pipeline (send_native).
ProcessNative(n) ==
    /\ rq[n] # <<>>
    /\ MovesDownstream(Head(rq[n])) /\ Head(rq[n]).src = None
    /\ rq' = [rq EXCEPT ![n] = Tail(@)]
    /\ nq' = [nq EXCEPT ![n] = Append(@, Head(rq[n]))]
    /\ UNCHANGED <<conn, chan, pid, submitted, done, breaks>>

\* process_kernels, any other kernel: destination defaults to the source,
\* find_or_create_client(destination)->send(k).
ProcessDirect(n) ==
    /\ rq[n] # <<>>
    /\ LET c == Head(rq[n])
           d == IF c.to # None THEN c.to ELSE c.src
           p == <<n, d>>
           c1 == [c EXCEPT !.to = d]
       IN  /\ ~(MovesUpstream(c) /\ c.to = None)
           /\ ~(MovesDownstream(c) /\ c.src = None)
           /\ rq' = [rq EXCEPT ![n] = Tail(@)]
           /\ IF conn[p].st = "absent"
              THEN SendKernel(AddedConn(p), AddedChan(p), p, c1)
              ELSE SendKernel(conn, chan, p, c1)
    /\ UNCHANGED <<nq, submitted, done, breaks>>

\* receive_kernels on node m's connection for peer n, one packet: the
\* first event also moves the connection to started.  An upstream kernel
\* goes to the native pipeline with from() set to the peer; a downstream
\* one is matched by plug_parent.
Receive(p) ==
    LET q == Rev(p)
        rk == ReceiveKernel([conn[q] EXCEPT !.st = "started"], ReadKernel(p, Head(chan[p])))
    IN  /\ chan[p] # <<>>
        /\ conn[q].ok
        /\ chan' = [chan EXCEPT ![p] = Tail(@)]
        /\ conn' = [conn EXCEPT ![q] = rk.r]
        /\ nq' = [nq EXCEPT ![p[2]] = @ \o rk.out]
        /\ UNCHANGED <<rq, pid, submitted, done, breaks>>

\* A transport failure: both ends see an error, unread bytes are lost.
Break(p) ==
    /\ breaks < MaxBreaks
    /\ conn[p].ok /\ conn[Rev(p)].ok
    /\ conn' = [conn EXCEPT ![p].ok = FALSE, ![Rev(p)].ok = FALSE]
    /\ chan' = [chan EXCEPT ![p] = <<>>, ![Rev(p)] = <<>>]
    /\ breaks' = breaks + 1
    /\ UNCHANGED <<rq, nq, pid, submitted, done>>

\* Mutant: remove_client marks the client stopped but leaves it in the table.
TeardownNoErase(p) ==
    /\ conn[p].st # "absent"
    /\ ~conn[p].ok
    /\ LET rk == RecoverKernels(conn[p]) IN
       /\ rq' = [rq EXCEPT ![p[1]] = @ \o rk.remote]
       /\ nq' = [nq EXCEPT ![p[1]] = @ \o rk.native]
    /\ conn' = [conn EXCEPT ![p] = [Absent EXCEPT !.st = "stopped"]]
    /\ UNCHANGED <<chan, pid, submitted, done, breaks>>

\* remove_client and the client's destructor: recover() reads what is left
\* (nothing, the transport failed) and recover_kernels(true) moves every
\* buffered kernel to the remote or the native pipeline.
Teardown(p) ==
    /\ conn[p].st # "absent"
    /\ ~conn[p].ok
    /\ LET rk == RecoverKernels(conn[p]) IN
       /\ rq' = [rq EXCEPT ![p[1]] = @ \o rk.remote]
       /\ nq' = [nq EXCEPT ![p[1]] = @ \o rk.native]
    /\ conn' = [conn EXCEPT ![p] = Absent]
    /\ UNCHANGED <<chan, pid, submitted, done, breaks>>

\* The local pipeline runs act() of an upstream kernel; commit makes it
\* downstream with its parent as principal and sends it through the remote
\* (socket) pipeline, whether it came from a peer or was kept local.
Act(n, i) ==
    LET c == nq[n][i]
        d == [c EXCEPT !.ph = "down", !.rc = "success"]
    IN  /\ MovesUpstream(c)
        /\ nq' = [nq EXCEPT ![n] = RemoveAt(@, i)]
        /\ rq' = [rq EXCEPT ![n] = Append(@, d)]
        /\ UNCHANGED <<conn, chan, pid, submitted, done, breaks>>

\* The local pipeline runs run_act() of a downstream kernel (its result is
\* defined and it has a principal): the principal's react() on success,
\* error() otherwise; the kernel is deleted when the principal is its
\* parent.
React(n, i) ==
    LET c == nq[n][i] IN
    /\ MovesDownstream(c)
    /\ nq' = [nq EXCEPT ![n] = RemoveAt(@, i)]
    /\ done' = [done EXCEPT ![c.k] = @ + 1]
    /\ UNCHANGED <<conn, chan, rq, pid, submitted, breaks>>

Init ==
    /\ conn = [p \in Pair |-> Absent]
    /\ chan = [p \in Pair |-> <<>>]
    /\ rq = [n \in Node |-> <<>>]
    /\ nq = [n \in Node |-> <<>>]
    /\ pid = [p \in Parents |-> 0]
    /\ submitted = {}
    /\ done = [k \in Kernel |-> 0]
    /\ breaks = 0

Next ==
    \/ \E k \in Kernel : Submit(k)
    \/ \E p \in Pair : AddClient(p)
    \/ \E p \in Pair : Start(p)
    \/ \E p \in Pair : Receive(p)
    \/ \E p \in Pair : Break(p)
    \/ \E p \in Pair : Teardown(p)
    \/ \E n \in Node : ProcessUpstream(n)
    \/ \E n \in Node : ProcessDirect(n)
    \/ \E n \in Node : ProcessNative(n)
    \/ \E n \in Node : \E i \in 1..Len(nq[n]) : Act(n, i)
    \/ \E n \in Node : \E i \in 1..Len(nq[n]) : React(n, i)

\* Every reactor thread and the local thread pool keep running: each
\* handles the events and queued kernels it has.  Submissions, dialling
\* and failures are the environment's and need not happen.
Fairness ==
    /\ \A p \in Pair : WF_vars(Start(p)) /\ WF_vars(Receive(p)) /\ WF_vars(Teardown(p))
    /\ \A n \in Node : WF_vars(ProcessUpstream(n)) /\ WF_vars(ProcessDirect(n))
                       /\ WF_vars(ProcessNative(n))
    /\ \A n \in Node : WF_vars(\E i \in 1..Len(nq[n]) : Act(n, i) \/ React(n, i))

Spec == Init /\ [][Next]_vars /\ Fairness

-----------------------------------------------------------------------------
(* Properties.                                                             *)

TypeOK ==
    /\ conn \in [Pair -> ConnRec]
    /\ chan \in [Pair -> Seq(KernelRec)]
    /\ rq \in [Node -> Seq(KernelRec)]
    /\ nq \in [Node -> Seq(KernelRec)]
    /\ pid \in [Parents -> Ids]
    /\ submitted \subseteq Kernel
    /\ done \in [Kernel -> Nat]
    /\ breaks \in 0..MaxBreaks

InSeq(k, s) == \E i \in 1..Len(s) : s[i].k = k

\* The submitting node never loses track of a kernel whose result has not
\* reached its parent: until then the kernel is queued in one of the
\* origin's pipelines or held in an upstream buffer of one of the origin's
\* connections (the code's only way to resend or fail it when the peer it
\* went to disappears).  About save_kernel, plug_parent and
\* recover_kernels together.
OriginRetainsKernel ==
    \A k \in submitted :
        done[k] = 0 =>
            LET o == Origin[k] IN
            \/ InSeq(k, rq[o]) \/ InSeq(k, nq[o])
            \/ \E m \in Node \ {o} : InSeq(k, conn[<<o, m>>].up)

\* A parent reacts to the result of each child at most once, however the
\* links fail: recovery resends only kernels whose reply has not been
\* matched, and restores a parent only for undelivered replies
\* (spec: recovery produces exactly one terminal action, never two).
CompletedAtMostOnce == \A k \in Kernel : done[k] <= 1

\* plug_parent gives a returning kernel the parent of the kernel it was
\* sent as: the upstream buffer entry matched by id is that kernel's own.
PluggedParentIsOwn ==
    \A n \in Node : \A i \in 1..Len(nq[n]) :
        LET c == nq[n][i] IN
        (MovesDownstream(c) /\ c.par # None) => c.par = Parent[c.k]

\* Every kernel a parent submits is eventually delivered back to a
\* principal (react or error), whatever failures occur, as long as they
\* stop: the recovery paths never strand a kernel.
AllComplete == \A k \in Kernel : k \in submitted ~> done[k] > 0

=============================================================================
