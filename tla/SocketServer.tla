---------------------------- MODULE SocketServer ----------------------------
(***************************************************************************)
(* The legacy socket server (src/factory/socket_server.hh) driven by its   *)
(* Poller (src/factory/poller.hh): the server thread's poll loop with the  *)
(* notification pipe, producers calling send() (push under the mutex, then *)
(* notify()), and the owner calling stop() (notify_stopping()) and wait()  *)
(* (join).  Peers are connected by peer() before the server starts.       *)
(* process_kernels() pops _pool in order: an upstream kernel goes to the   *)
(* first peer of _upstream, a kernel addressed to a peer (Dest) goes to    *)
(* that peer, reconnected by peer() when it was erased; either peer's      *)
(* Remote_Rserver::send keeps the kernel in _buffer; the peer's            *)
(* reply, read in handle_event, clears it (clear_kernel_buffer).  A peer's *)
(* link may fail: the hang-up makes the server erase the peer, whose       *)
(* recover_kernels() first reads what the socket still holds and then      *)
(* returns every buffered kernel to the parent server.                     *)
(*                                                                         *)
(* The notification pipe is a sequence of the symbols written to it:      *)
(* "n" (NOTIFY_SYMBOL) and "s" (STOP_SYMBOL).  A callback of the poll loop *)
(* is one step of the server thread; between two of them producers push   *)
(* and write, and the peer replies.                                        *)
(***************************************************************************)
EXTENDS Naturals, Sequences, FiniteSets

CONSTANTS
    Peer,               \* the peers' virtual addresses
    Order,              \* Order[i]: the i-th peer in _upstream's key order
    MaxFailures,        \* how many peer links may fail
    Producer,           \* threads calling send()
    Kernel,             \* the kernels they send, each sent once
    Sender,             \* Sender[k]: the producer that sends k
    Dest,               \* Dest[k]: the peer k is addressed to (to()), or None
    None,               \* no destination: an upstream kernel
    MaxStopIterations,  \* Socket_server::MAX_STOP_ITERATIONS
    QuiescentStop       \* the owner calls stop() only when no send() is in
                        \* progress, and none is started after it

ASSUME /\ Order \in [1..Cardinality(Peer) -> Peer] /\ MaxFailures \in Nat
       /\ Sender \in [Kernel -> Producer]
       /\ None \notin Peer /\ Dest \in [Kernel -> Peer \cup {None}]
       /\ MaxStopIterations \in Nat \ {0}
       /\ QuiescentStop \in BOOLEAN

VARIABLES
    pool,       \* Socket_server::_pool
    link,       \* link[q]: "up", "down" (the peer hung up) or "erased"
    buffered,   \* buffered[q]: peer q's Remote_Rserver::_buffer
    replied,    \* replied[q]: kernels whose reply is on q's socket, unread
    done,       \* kernels whose reply the server has read
    recovered,  \* kernels recover_kernel() returned to the parent server
    pipe,       \* the bytes in the notification pipe
    wopen,      \* the pipe's write end is open
    pstate,     \* Poller::_state: DEFAULT, STOPPING, STOPPED
    iter,       \* Socket_server::_stop_iterations
    wpc,        \* the server thread's program counter
    ev,         \* the revents poll() returned for the pipe, and the peers
                \* whose event the loop has not handled yet
    ppc,        \* ppc[p]: the producer's program counter
    opc,        \* the owner's program counter: run, join, done
    sent        \* kernels pushed by send()

vars == <<link, pool, buffered, replied, done, recovered, pipe, wopen,
          pstate, iter, wpc, ev, ppc, opc, sent>>

\* The peers in _upstream under links l: those not erased.
UpstreamOf(l) == {q \in Peer : l[q] # "erased"}
Upstream == UpstreamOf(link)

-----------------------------------------------------------------------------
(* Helpers of the server thread.                                           *)

\* The first peer of _upstream ups, which the upstream branch sends to.
First(ups) == LET live == {i \in DOMAIN Order : Order[i] \in ups}
              IN  Order[CHOOSE i \in live : \A j \in live : i <= j]

\* The server thread's part of the state a callback works on.
ThreadState == [pool |-> pool, link |-> link, buffered |-> buffered, abort |-> FALSE]

\* peer(addr, events) for peer q on state s: a new Remote_Rserver on a
\* freshly connected socket enters _upstream and _servers, with an empty
\* buffer, and its descriptor is added to the poller.
Connect(s, q) == [s EXCEPT !.link[q] = "up", !.buffered[q] = {}]

\* process_kernels() on s: pop the kernels of _pool in order.  A kernel
\* without destination goes to the first peer of _upstream, and with no
\* peer left "No upstream servers found." is thrown out of the callback.
\* A kernel for peer Dest[k] goes to its Remote_Rserver, which peer()
\* creates, connected anew, when the peer is not in _upstream.  Either
\* Remote_Rserver::send keeps the kernel in _buffer.
RECURSIVE ProcessKernels(_)
ProcessKernels(s) ==
    IF s.pool = <<>> \/ s.abort THEN s
    ELSE LET k == Head(s.pool)
             ups == UpstreamOf(s.link)
             to == IF Dest[k] # None THEN Dest[k] ELSE First(ups)
             rest == [s EXCEPT !.pool = Tail(@)]
             connected == IF rest.link[to] = "erased" THEN Connect(rest, to) ELSE rest
         IN  IF Dest[k] = None /\ ups = {}
             THEN [rest EXCEPT !.abort = TRUE]
             ELSE ProcessKernels([connected EXCEPT !.buffered[to] = @ \cup {k}])

\* empty(): no Remote_Rserver of _upstream buffers a kernel.
Empty(s) == \A q \in UpstreamOf(s.link) : s.buffered[q] = {}

\* The tail of every callback while the poller is STOPPING: process and
\* flush the kernels again, count the iteration, and call Poller::stop(),
\* which closes the pipe's write end, once no peer of _upstream buffers a
\* kernel (empty()) or after MAX_STOP_ITERATIONS callbacks.  pk is the
\* state the callback's own processing left; when process_kernels() throws
\* the rest of the block does not run.
StopBlock(pk) ==
    LET after == ProcessKernels(pk) IN
    IF pstate = "STOPPING" /\ ~pk.abort /\ ~after.abort
    THEN [pk |-> after, iter |-> iter + 1,
          close |-> Empty(after) \/ iter + 1 = MaxStopIterations]
    ELSE IF pstate = "STOPPING" /\ ~pk.abort
    THEN [pk |-> after, iter |-> iter, close |-> FALSE]
    ELSE [pk |-> pk, iter |-> iter, close |-> FALSE]

\* The effect of a callback: the kernels it processes (pk), then its stop
\* block.  Poller::stop() closes the write end; an exception thrown by
\* process_kernels() leaves the thread's function, and the process ends.
Callback(pk, next) ==
    LET sb == StopBlock(pk) IN
    /\ pool' = sb.pk.pool
    /\ link' = sb.pk.link
    /\ buffered' = sb.pk.buffered
    /\ iter' = sb.iter
    /\ wopen' = (wopen /\ ~sb.close)
    /\ wpc' = IF sb.pk.abort THEN "aborted" ELSE next

-----------------------------------------------------------------------------
(* The server thread: serve(), Poller::run and Poller::wait.               *)

\* serve(): process_kernels(), then run() registers the pipe.
ServeStart ==
    /\ wpc = "start"
    /\ LET pk == ProcessKernels(ThreadState)
       IN  /\ pool' = pk.pool /\ link' = pk.link /\ buffered' = pk.buffered
           /\ wpc' = IF pk.abort THEN "aborted" ELSE "loop"
    /\ UNCHANGED <<replied, done, recovered, pipe, wopen, pstate, iter, ev, ppc, opc, sent>>

\* while (!stopped()) this->wait(callback).
Loop ==
    /\ wpc = "loop"
    /\ wpc' = IF pstate = "STOPPED" THEN "exit" ELSE "poll"
    /\ UNCHANGED <<link, pool, buffered, replied, done, recovered, pipe, wopen, pstate, iter, ev, ppc, opc, sent>>

\* poll() with no timeout returns once the pipe is readable or hung up or
\* a peer's socket is readable or hung up.
Poll ==
    /\ wpc = "poll"
    /\ LET e == [in |-> pipe # <<>>, hup |-> ~wopen,
                 peers |-> {q \in Upstream : replied[q] # {} \/ link[q] = "down"}]
       IN  /\ e.in \/ e.hup \/ e.peers # {}
           /\ ev' = e
    /\ wpc' = "pipe"
    /\ UNCHANGED <<link, pool, buffered, replied, done, recovered, pipe, wopen, pstate, iter, ppc, opc, sent>>

\* Mutant: a hang-up of the pipe is not recognised.
PipeEventNoHup ==
    /\ wpc = "pipe"
    /\ wpc' = IF ev.in THEN "consume" ELSE "peer"
    /\ UNCHANGED <<link, pool, buffered, replied, done, recovered, pipe, wopen, pstate, iter, ev, ppc, opc, sent>>

\* The pipe's event: on a hang-up the poller is STOPPED; when readable,
\* consume_notify() runs, then the callback.
PipeEvent ==
    /\ wpc = "pipe"
    /\ pstate' = IF ev.hup THEN "STOPPED" ELSE pstate
    /\ wpc' = IF ev.in THEN "consume" ELSE "peer"
    /\ UNCHANGED <<link, pool, buffered, replied, done, recovered, pipe, wopen, iter, ev, ppc, opc, sent>>

\* consume_notify(): one read() that returns bytes; a STOP_SYMBOL among
\* them makes the poller STOPPING.
ConsumeRead ==
    /\ wpc = "consume"
    /\ pipe # <<>>
    /\ pstate' = IF \E i \in 1..Len(pipe) : pipe[i] = "s" THEN "STOPPING" ELSE pstate
    /\ pipe' = <<>>
    /\ UNCHANGED <<link, pool, buffered, replied, done, recovered, wopen, iter, wpc, ev, ppc, opc, sent>>

\* consume_notify() ends when read() returns -1 (EAGAIN on the empty
\* non-blocking pipe).  Once the write end is closed read() returns 0 on
\* the empty pipe instead, and the loop "!= -1" never ends: the thread has
\* no step.
ConsumeEnd ==
    /\ wpc = "consume"
    /\ pipe = <<>> /\ wopen
    /\ wpc' = "notified"
    /\ UNCHANGED <<link, pool, buffered, replied, done, recovered, pipe, wopen, pstate, iter, ev, ppc, opc, sent>>

\* The callback for the pipe: process_kernels(), then the stop block.
NotifyCallback ==
    /\ wpc = "notified"
    /\ Callback(ProcessKernels(ThreadState), "peer")
    /\ UNCHANGED <<replied, done, recovered, pipe, pstate, ev, ppc, opc, sent>>

\* clear_kernel_buffer for the replies ks read from q: each is found in
\* q's buffer by id, deleted and erased.
ClearKernelBuffer(b, q, ks) == [b EXCEPT ![q] = @ \ ks]

\* read_kernels() of peer q with buffers b: handle_event with an In event
\* of its own, so the replies still on the socket are read and cleared
\* from the buffer whatever the poller's state.
ReadKernels(b, q) == ClearKernelBuffer(b, q, replied[q])

\* recover_kernels() for peer q with buffers b: read_kernels(), then
\* recover_kernel() sends every kernel left in the buffer to the parent
\* server (from = to, ENDPOINT_NOT_CONNECTED, principal = parent) and pops
\* it.
RecoverKernels(b, q) ==
    LET r == ReadKernels(b, q) IN
    [read |-> replied[q], sent |-> r[q], buffered |-> [r EXCEPT ![q] = {}]]

\* erase(fd) of peer q with buffers b: recover_kernels(), then q leaves
\* _upstream and _servers and is deleted (its destructor finds the buffer
\* empty); the callback's stop block follows.
Erase(b, q) ==
    LET r == RecoverKernels(b, q) IN
    /\ done' = done \cup r.read
    /\ replied' = [replied EXCEPT ![q] = {}]
    /\ recovered' = recovered \cup r.sent
    /\ Callback([ThreadState EXCEPT !.link[q] = "erased", !.buffered = r.buffered], "peer")

\* The replies handle_event reads from q's socket: none while the poller
\* is STOPPING, since serve()'s callback then clears POLLIN of the event.
Read(q) == IF pstate = "STOPPING" THEN {} ELSE replied[q]

\* Mutant: handle_event reads a reply without clear_kernel_buffer.
PeerCallbackNoClear(q) ==
    /\ wpc = "peer" /\ q \in ev.peers
    /\ ev' = [ev EXCEPT !.peers = @ \ {q}]
    /\ IF link[q] = "down"
       THEN Erase(buffered, q)
       ELSE /\ done' = done \cup Read(q)
            /\ replied' = [replied EXCEPT ![q] = @ \ Read(q)]
            /\ UNCHANGED recovered
            /\ Callback(ThreadState, "peer")
    /\ UNCHANGED <<pipe, pstate, ppc, opc, sent>>

\* The callback for peer q's socket: process_event runs handle_event,
\* which reads the replies and clears each from the buffer; on a hang-up
\* erase(fd) follows, and otherwise the stop block.
PeerCallback(q) ==
    /\ wpc = "peer" /\ q \in ev.peers
    /\ ev' = [ev EXCEPT !.peers = @ \ {q}]
    /\ LET cleared == ClearKernelBuffer(buffered, q, Read(q)) IN
       IF link[q] = "down"
       THEN Erase(cleared, q)
       ELSE /\ done' = done \cup Read(q)
            /\ replied' = [replied EXCEPT ![q] = @ \ Read(q)]
            /\ UNCHANGED recovered
            /\ Callback([ThreadState EXCEPT !.buffered = cleared], "peer")
    /\ UNCHANGED <<pipe, pstate, ppc, opc, sent>>

\* Every event poll() returned has been handled: back to the loop.
PeersHandled ==
    /\ wpc = "peer" /\ ev.peers = {}
    /\ wpc' = "loop"
    /\ UNCHANGED <<link, pool, buffered, replied, done, recovered, pipe, wopen, pstate, iter, ev, ppc, opc, sent>>

-----------------------------------------------------------------------------
(* The peers, the producers and the owner.                                 *)

\* Peer q executes a buffered kernel and its reply arrives.
PeerReply(q, k) ==
    /\ link[q] = "up"
    /\ k \in buffered[q] \ replied[q]
    /\ replied' = [replied EXCEPT ![q] = @ \cup {k}]
    /\ UNCHANGED <<link, pool, buffered, done, recovered, pipe, wopen, pstate, iter, wpc, ev, ppc, opc, sent>>

\* Peer q's link fails: replies already on the socket stay readable, the
\* kernels it had not answered are lost with it.
PeerFail(q) ==
    /\ link[q] = "up"
    /\ Cardinality({r \in Peer : link[r] # "up"}) < MaxFailures
    /\ link' = [link EXCEPT ![q] = "down"]
    /\ UNCHANGED <<pool, buffered, replied, done, recovered, pipe, wopen, pstate, iter, wpc, ev, ppc, opc, sent>>

\* send(kernel): _pool.push under the mutex.
SendPush(p, k) ==
    /\ ppc[p] = "idle" /\ Sender[k] = p /\ k \notin sent
    /\ QuiescentStop => opc = "run"
    /\ pool' = Append(pool, k)
    /\ sent' = sent \cup {k}
    /\ ppc' = [ppc EXCEPT ![p] = k]
    /\ UNCHANGED <<link, buffered, replied, done, recovered, pipe, wopen, pstate, iter, wpc, ev, opc>>

\* Mutant: send() does not call notify().
SendNotifyMissing(p) ==
    /\ ppc[p] \in Kernel
    /\ ppc' = [ppc EXCEPT ![p] = "idle"]
    /\ UNCHANGED <<link, pool, buffered, replied, done, recovered, pipe, wopen, pstate, iter, wpc, ev, opc, sent>>

\* Then Poller::notify() writes NOTIFY_SYMBOL; on a closed write end
\* write() fails and check() throws out of send().
SendNotify(p) ==
    /\ ppc[p] \in Kernel
    /\ IF wopen
       THEN /\ pipe' = Append(pipe, "n")
            /\ ppc' = [ppc EXCEPT ![p] = "idle"]
       ELSE /\ ppc' = [ppc EXCEPT ![p] = "failed"]
            /\ UNCHANGED pipe
    /\ UNCHANGED <<link, pool, buffered, replied, done, recovered, wopen, pstate, iter, wpc, ev, opc, sent>>

\* Server_link::stop: Resident::stop, then stop_impl: notify_stopping()
\* writes STOP_SYMBOL.
Stop ==
    /\ opc = "run"
    /\ QuiescentStop => \A p \in Producer : ppc[p] \notin Kernel
    /\ pipe' = Append(pipe, "s")
    /\ opc' = "join"
    /\ UNCHANGED <<link, pool, buffered, replied, done, recovered, wopen, pstate, iter, wpc, ev, ppc, sent>>

\* wait_impl: _thread.join() returns once serve() has returned.
Join ==
    /\ opc = "join"
    /\ wpc = "exit"
    /\ opc' = "done"
    /\ UNCHANGED <<link, pool, buffered, replied, done, recovered, pipe, wopen, pstate, iter, wpc, ev, ppc, sent>>

\* peer(addr) has connected every peer before start().
Init ==
    /\ link = [q \in Peer |-> "up"]
    /\ pool = <<>> /\ buffered = [q \in Peer |-> {}] /\ replied = [q \in Peer |-> {}]
    /\ done = {} /\ recovered = {}
    /\ pipe = <<>> /\ wopen = TRUE
    /\ pstate = "DEFAULT" /\ iter = 0
    /\ wpc = "start"
    /\ ev = [in |-> FALSE, hup |-> FALSE, peers |-> {}]
    /\ ppc = [p \in Producer |-> "idle"]
    /\ opc = "run"
    /\ sent = {}

Next ==
    \/ ServeStart \/ Loop \/ Poll \/ PipeEvent
    \/ ConsumeRead \/ ConsumeEnd \/ NotifyCallback \/ PeersHandled
    \/ \E q \in Peer : PeerCallback(q) \/ PeerFail(q)
    \/ \E q \in Peer, k \in Kernel : PeerReply(q, k)
    \/ \E p \in Producer, k \in Kernel : SendPush(p, k)
    \/ \E p \in Producer : SendNotify(p)
    \/ Stop \/ Join

\* The server thread, a producer finishing send(), a live peer answering
\* and the owner's join all eventually take an enabled step; starting a
\* send(), a link failing and deciding to stop are the environment's.
Fairness ==
    /\ WF_vars(ServeStart) /\ WF_vars(Loop) /\ WF_vars(Poll) /\ WF_vars(PipeEvent)
    /\ WF_vars(ConsumeRead) /\ WF_vars(ConsumeEnd)
    /\ WF_vars(NotifyCallback) /\ WF_vars(PeersHandled)
    /\ \A q \in Peer : WF_vars(PeerCallback(q))
    /\ \A q \in Peer, k \in Kernel : WF_vars(PeerReply(q, k))
    /\ \A p \in Producer : WF_vars(SendNotify(p))
    /\ WF_vars(Join)

Spec == Init /\ [][Next]_vars /\ Fairness

-----------------------------------------------------------------------------
(* Properties.                                                             *)

\* A kernel pushed by send() is eventually answered by a peer or, when the
\* peer's link fails, returned to the parent server by recover_kernels(),
\* unless the owner stops the server first (replies are not read while
\* STOPPING).  About send()'s push-then-notify, the callbacks that run
\* process_kernels(), and erase(fd) recovering the buffer.
SentIsResolved ==
    \A k \in Kernel : k \in sent ~> (k \in done \cup recovered \/ opc # "run")

\* A kernel whose reply the server has read is never also returned to the
\* parent server as not connected.  About clear_kernel_buffer erasing the
\* answered kernel, and recover_kernels() reading the socket before it
\* recovers what is left in the buffer.
ResolvedOnce == done \cap recovered = {}

\* Once stop() is called, the server thread returns and wait() joins it:
\* STOP_SYMBOL makes the poller STOPPING, a callback closes the write end
\* and the hang-up makes it STOPPED.  About consume_notify() and the
\* hang-up handling of Poller::wait.
StopTerminates == opc = "join" ~> opc = "done"
=============================================================================
