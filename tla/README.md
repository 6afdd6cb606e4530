# TLA+ models of bscheduler

This directory holds TLA+ models of the bscheduler (subordination) runtime.
Each model is checked with TLC. The sources are under `src/src/` of the
repository, and the behaviour the code is meant to have is described in
`spec.md`.

## 1. The system

The system runs *kernels*. A kernel is a unit of work. It is created by a
parent kernel and sent *upstream* to be executed somewhere. Once it is
committed (`act()` done, result set), it travels *downstream* back to its
principal, which `react()`s to it. The runtime is built from pipelines, each
driven by its own thread:

| part | source | state | operations |
|---|---|---|---|
| kernel shape | `factory/kernel.hh` (`Principal`), `factory/kernel/kernel.cc` | result, parent, principal, id, from/to, `carries_parent` | `upstream()`, `commit()`; the phase predicates `moves_upstream/downstream/somewhere/everywhere` |
| protocol engine | `subordination/ppl/kernel_protocol.hh` | per connection: upstream and downstream recovery buffers and the id counter `_counter` | `send`/`save_kernel`/`ensure_has_id`, `receive_kernels`/`read_kernel`/`receive_kernel`/`plug_parent`, `recover_kernels`/`recover_kernel` |
| packet framing | `subordination/kernel/kstream.hh`, `factory/ext/kernelbuf.hh` | packet reader/writer states | `begin_packet`/`end_packet`/`read_packet`; the embedded parent when `carries_parent` is set |
| socket pipeline | `subordination/daemon/socket_pipeline.cc` | client table keyed by virtual address, client states `starting/started/stopped/inactive`, kernel queue | `process_kernels`/`process_kernel`, `find_or_create_client`/`do_add_client`, server `handle` (accept), `remove_client`, client `handle`/`recover`/`forward` |
| scheduler | `socket_pipeline.cc` (`socket_pipeline_scheduler::schedule`) | client weights, `max_weight`, local weight | `schedule`, `set_client_weight`, downstream decrements |
| process pipeline | `bscheduler/ppl/process_pipeline.cc`, `subordination/{ppl,core}/process_handler.hh`, `factory/process_server.hh` | child processes and their pipe handlers | `add`, `forward`, process exit closing a handler (its destructor recovers its kernels) |
| legacy socket server | `factory/socket_server.hh` | peers by virtual address, `Kernel_packet` reader states | accept replaces a peer, `recover_kernel` with `ENDPOINT_NOT_CONNECTED` |
| thread pool server | `factory/server.hh` (`Rserver`, `Iserver`) | a kernel queue, a mutex, a condition variable, a `volatile` stopped flag | `send`, `serve`, `stop`, `wait` |
| poller | `factory/poller.hh` | the notification pipe, `DEFAULT/STOPPING/STOPPED` | `notify`, `stop`, `run` |
| fd stream buffer | `sysx/fildesbuf.hh` | put area, get area | `overflow`, `sync` (partial writes), `fill` |
| daemon wiring | `subordination/daemon/factory.cc` | which pipeline feeds which | `remote.native = local`, `remote.remote = remote` |

These parts interact. A parent submits a child to the remote (socket)
pipeline. The scheduler then either keeps the child locally or sends it over a
client connection. That connection's protocol buffers the child in its
upstream buffer before writing it. The receiving node runs the child in its
local pipeline, which is a thread pool, so kernels run in any order. It then
returns the child downstream through its socket pipeline to the source. At
the source, `plug_parent` matches the reply to the buffered original by id and
hands it to the principal.

When a transport fails, the client is removed, and its destructor calls
`recover_kernels(true)`. This resends every buffered upstream kernel without
a fixed destination. A kernel that had a fixed destination is failed back to
its parent with `endpoint_not_connected`. Downstream kernels that carry their
parent are restored locally.

The class `sbn::connection`, from which the socket client derives, is not in
this snapshot of the repository. Its protocol operations (`send`,
`recover_kernels`, the buffers) are the engine of `kernel_protocol.hh`, which
`spec.md` describes as one protocol engine. The models take those operations
from `kernel_protocol.hh`.

### Hard behaviours
- **Link failures.** A link can fail at any point. When it does, unread
  packets are lost and both ends recover independently.
- **Duplicate connections.** Two nodes can dial each other. The accepting
  server then drops a socket for an address it already has a client for.
- **Reordering.** Replies come back out of order, because the local pipeline
  is multi-threaded.
- **Stale ids.** Ids come from a per-connection counter, but a recovered
  kernel keeps its old id.
- **Scheduler arithmetic.** The scheduler uses fixed-width weights, with
  rebase on overflow and a division by `max_weight`.
- **Thread pool shutdown.** The thread pool's stop flag is not protected by
  its mutex.
- **Partial writes** in `fildesbuf::sync`.
- **Write interest.** The legacy server arms Out after a send and sets
  the events back to `DEFAULT_EVENTS` after any event without overflow.

## 2. Modules

### KernelProtocol (`KernelProtocol.tla`, `MC_KernelProtocol.tla`)

This module covers the protocol engine, composed with the socket pipeline's
routing and client table, on a small cluster.

**State:**
- `conn[<<n,m>>]`: node n's client for peer m. It holds:
  - the client state (`absent` means not in the table);
  - whether its socket still works;
  - the `_upstream` and `_downstream` buffers;
  - the protocol's `_counter`.
- `chan[<<n,m>>]`: the packets written on that socket and not yet read.
- `rq[n]`: the socket pipeline's `_kernels` queue, which is FIFO.
- `nq[n]`: the local pipeline's queue. Any element may run next, because it
  is a thread pool.
- `pid`: the parents' ids. `ensure_has_id(k->parent())` gives a parent an id
  from the counter of the connection it is first sent on.
- `submitted`, `done` (how often a principal reacted to each child) and
  `breaks`.

A kernel is a record with these fields: child, id, phase (`up`/`down`),
`to`, `src`, return code, `carries_parent`, and the parent pointer the copy
holds.

**Actions:**

| action | code |
|---|---|
| `Submit` | `Principal::upstream` into the remote pipeline |
| `AddClient` | `add_client`/`do_add_client` together with the peer's accept |
| `Start` | client `handle` moving `starting → started` |
| `ProcessUpstream` | `process_kernel`, upstream without destination: scheduler → client `send` or `send_native` |
| `ProcessNative` | `process_kernel`, downstream without source (a kernel that ran here for want of a neighbour): `send_native` |
| `ProcessDirect` | `process_kernel`, otherwise: destination defaults to source, `find_or_create_client(dest)->send` |
| `Receive` | `receive_kernels` for one packet: `read_kernel`, `receive_kernel`/`plug_parent`, native pipeline |
| `Break` | a transport failure (environment) |
| `Teardown` | `remove_client` and the client destructor's `recover()` → `recover_kernels(true)` |
| `Act` | the local pipeline running `act()`, then `commit()`, which sends the result through the remote (socket) pipeline |
| `React` | the local pipeline delivering a downstream kernel to its principal |

`SendKernel` is the whole of `kernel_protocol::send`: `save_kernel`
(`ensure_has_id` for the parent and the kernel, the buffers), then
`write_kernel` (`WriteKernel`: one packet on the link while it is alive). `ReadKernel`, `ReceiveKernel`, `PlugParent`,
`DoRecoverKernels` and `RecoverKernels` are the engine's helpers,
translated branch by branch.

**Abstraction choices:**
- The scheduler's choice is any started client that is not the source, or
  the local node. The weights are left to a Scheduler module, which is
  planned below.
- Foreign kernels, broadcast and `principal_id` lookup are not modelled.
  No state the model reaches uses them: kernels received from a peer are
  executed locally, never forwarded. The "downstream without source →
  native" branch of `process_kernel` is modelled, by `ProcessNative`.

### SchedulerAbstract and Scheduler (`SchedulerAbstract.tla`, `Scheduler.tla`, `MC_Scheduler.tla`)

`SchedulerAbstract` states what `socket_pipeline_scheduler::schedule`
promises its caller, and what KernelProtocol's `Schedule` assumes. An
upstream kernel goes to a started neighbour other than its source, or it
stays local. Which neighbour is left open.

`Scheduler` is the scheduler over the client table it reads and writes.

**State:**
- `state[c]`: `absent`, `starting`, `started`, `stopped` or `inactive`;
- `weight[c]` and `maxw[c]`: the client's `_weight` and `_max_weight`;
- `localw`: the scheduler's `_local_weight`;
- `chosen`: the last decision, as the kernel's source and its destination;
- `serving`: `_servers` holds the server at this node, whose interface
  holds every neighbour (`do_add_client` needs it to create a client, and
  `schedule` needs it for a file to be local).

Weights are unsigned integers of width `W`. Every update is taken `% 2^W`.
`weight_type`'s header is not in this snapshot, so its unsignedness is an
assumption; the code's `numeric_limits<weight_type>::max()` and unsigned
subtraction suggest it.

**Actions:**

| action | code |
|---|---|
| `AddClient` | `add_client` (a new client, `starting`, with its weight) |
| `Start` | the client's first event: `starting → started` |
| `RemoveClient` | `remove_client` |
| `SetClientWeight` | `set_client_weight`: `find_or_create_client`, then `max_weight(w)` |
| `Reply` | `receive_downstream_foreign_kernel`: `if (_weight != 0) --_weight` |
| `StopClient` | `stop_client`: the client stays in the table, `stopped` |
| `Deactivate`, `Activate` | the client's `deactivate` (`inactive`) and `activate` (`starting` again) |
| `Forward` | `forward` of a downstream or point-to-point kernel: `find_or_create_client` (`FindOrCreateClient`, guarded by `CanFind`), then the client's `forward` (`ClientForward`, the downstream decrement) |
| `AddServer`, `RemoveServer` | `add_server` and `remove_server` of this node's server |
| `ScheduleNoneStarted` | `schedule` with no started client: `clients.end()` |
| `Schedule` | the rest of `schedule`: overflow reset (`AfterReset`), the loop over the table (`Scan`, one `ScanStep` per client in `Order`), the file-location preference (`Decision`), then the increment of the chosen weight |

`forward` of an upstream kernel calls `schedule` and is the `Schedule`
action; its broadcast branch is not modelled. A client that is `stopped`
or `inactive` stays in the table: the overflow rebase still changes its
weight, and the loop skips it.

`Scan` is a RECURSIVE operator over the table's iteration order. Each step
keeps two candidates: the least-loaded non-source client (`res`) and the
least-loaded client at the file's location (`resN`). Both are compared by
`modular_weight` (`weight / max_weight`) against the local weight.

### PoolServer (`PoolServer.tla`, `MC_PoolServer.tla`)

This module covers `Rserver` in `factory/server.hh`. It has three kinds of
thread:
- producers calling `send()`;
- one worker running `serve()` and `wait_for_a_kernel()`;
- the owner calling `start()`, `stop()`, `wait()` and then destroying the
  server.

**State:**
- `pool`: `_pool`;
- `mutex`: the holder of `_mutex`;
- `stopped`: `Resident::_stopped`;
- `sleeping`: the worker is blocked in the condition variable;
- the program counters `wpc`, `ppc` and `opc`;
- `sent`, `processed`, and `deleted` (the kernels `~Rserver` freed).

Each line of the code that reads or writes shared state is one step. Two
reads are made without the mutex: `serve()` reads `_stopped` and
`_pool.empty()`. Reading the queue while a producer is inside `push()` is a
data race, so `EmptyMayRead` lets it return either answer. `front()` on an
empty queue is undefined, so `ServePop` then processes an arbitrary kernel.
The condition variable's `wait(lock, pred)` is three steps:
- `WaitPred` tests the predicate under the lock;
- `WaitBlock` releases the lock and sleeps, atomically;
- `WaitWake` reacquires the lock after a notification.

`Spurious` is a spurious wakeup. `stop()` is two steps, as
`Server_link::stop` is:
- `StopFlag` is `Resident::stop`, which sets the flag without the mutex;
- `StopNotify` is `stop_impl`, which calls `notify_all`.

`Start` is `start()`, which creates the worker thread; the worker has no
step before it. `Destroy` is `~Rserver`: under the mutex it pops and
deletes every kernel left in `_pool`. The owner destroys the server once
`wait()` has returned and no `send()` is in progress, and no `send()`
starts on a destroyed server: calling a destroyed object is not a state of
a correct program.

### Fildesbuf (`Fildesbuf.tla`, `MC_Fildesbuf.tla`)

This module covers `sysx::basic_fildesbuf` in `sysx/fildesbuf.hh`. One
buffer writes into a pipe and another reads from it. Bytes are numbered in
the order they are put, so one sequence shows loss, duplication and
reordering.

**State:**
- `put`: the bytes handed to `sputc`;
- `pbuf` and `psize`: the put area (`pbase()..pptr()`) and `_pbuf.size()`;
- `pipe`: the bytes in the descriptor;
- `gbuf` and `gpos`: the get area and `gptr() - eback()`;
- `got`: the bytes the reader has taken.

**Actions:**

| action | code |
|---|---|
| `Put` | `sputc`; when the area is full, `overflow(c)`: `pgrow()` doubles it and keeps the offset |
| `Sync(n)` | `sync()`: `write()` returns `n`, then `pbump(-n)` |
| `Underflow(k)` | `underflow()` once the get area is consumed: reset, then `do_fill()` reads `k` bytes before `read()` stops |
| `Get` | `sbumpc` (the standard library's fast path) |

`write()` returns -1, or with `PartialWrites` any count from 1 to m.
`read()` can stop early with EAGAIN or EINTR, so `Underflow` reads any part
of the pipe.

### SocketServer (`SocketServer.tla`, `MC_SocketServer.tla`)

This module covers the legacy `Socket_server` of `factory/socket_server.hh`
and the `Poller` of `factory/poller.hh` that drives it. It has these
threads:
- the server thread, running `serve()`, `Poller::run` and `Poller::wait`;
- producers calling `send()`;
- the owner calling `stop()` and then `wait()`;
- the upstream peers (`Peer`, tried in the order `Order` of `_upstream`),
  which reply to the kernels they are sent or hang up (at most
  `MaxFailures` of them).

**State:**
- `pool`: `_pool`, a queue in push order; each kernel is either an
  upstream kernel or addressed to a peer (`Dest[k]`, `k->to()`; `None`
  means no destination);
- `link`: whether each peer is up, has hung up (`down`), or has been
  erased from `_upstream` and `_servers`;
- `buffered`: each peer's `Remote_Rserver::_buffer`;
- `recovered`: the kernels `recover_kernels` handed to the parent server;
- `replied` and `done`: replies that have arrived and not been read, and
  replies that have been read;
- `pipe` and `wopen`: the notification pipe, as the symbols written to it
  (`n` for NOTIFY, `s` for STOP), and whether its write end is open;
- `pstate`: `Poller::_state`;
- `iter`: `_stop_iterations`;
- `ev`: the revents `poll()` returned;
- the program counters `wpc`, `ppc` and `opc`.

**Actions:**

| action | code |
|---|---|
| `ServeStart` | `serve()`: `process_kernels()`, then `run()` |
| `Loop` | `while (!stopped())` |
| `Poll` | `poll()`, which returns once the pipe is readable or hung up, or a peer is readable or hung up |
| `PipeEvent` | the pipe's event: `POLLHUP` → `STOPPED`; readable → `consume_notify()` |
| `ConsumeRead` / `ConsumeEnd` | `consume_notify()`'s `read()` returning bytes (`s` → `STOPPING`) / returning -1 |
| `NotifyCallback` | the callback for the pipe: `process_kernels()` and the stop block |
| `PeerCallback` | the callback for a peer: `handle_event` reads replies and `clear_kernel_buffer` (not while `STOPPING`: the callback clears `POLLIN` first, `Read`); on a hang-up `erase(fd)` (`recover_kernels`, whose `read_kernels` reads the rest, and removal from `_upstream`); then the stop block |
| `PeersHandled` | the end of `wait()`'s loop over the returned events |
| `SendPush` / `SendNotify` | `send()`: push under the mutex / `Poller::notify()`, which throws on a closed pipe |
| `Stop` / `Join` | `stop_impl` (`notify_stopping()`) / `wait_impl` (`join`) |
| `PeerReply` / `PeerFail` | a peer's reply arriving / a peer hanging up (environment) |

`StopBlock` is the tail of every callback while `STOPPING`. It runs
`process_kernels()` again and counts the iteration. It then calls
`Poller::stop()` (which closes the write end) once the peer's buffer is
empty or after `MAX_STOP_ITERATIONS`.

`ProcessKernels` models the upstream and point-to-point branches of
`process_kernels()`, popping `_pool` in order. An upstream kernel goes to
the first peer of `_upstream` still present (`First`). An addressed kernel
goes to its peer's `Remote_Rserver` when the peer is in `_upstream` (even
if its link has hung up and the hang-up has not been handled yet), and
otherwise `peer()` (`Connect`) connects a new `Remote_Rserver` to it, with
an empty buffer. The broadcast branch is not modelled: no kernel of the
model moves everywhere. When no
upstream peer is left it throws "No upstream servers found."; the exception
leaves the callback, and the model ends the server thread in `aborted`.
`Erase` is `erase(fd)`: `RecoverKernels` first runs `read_kernels`
(`ReadKernels`, the replies still on the socket), then hands every kernel left in the
peer's buffer to the parent server (`recover_kernel` sets `from = to`,
`ENDPOINT_NOT_CONNECTED` and the principal to the parent). What the parent
does with a recovered kernel is outside this module; `recovered` records
that it was handed back. A reply that is read in the same callback as the
hang-up is read first, so `read_kernels` inside `recover_kernels` finds
nothing more.

There is deliberately no step for the server thread in `consume_notify()`
when the pipe is drained and its write end is closed: `read()` then returns
0 and the `!= -1` loop spins. `QuiescentStop` is a usage assumption: it
means `stop()` is called only when no `send()` is in progress, and none
starts after it.

### Kernelbuf (`Kernelbuf.tla`, `MC_Kernelbuf.tla`)

This module covers the legacy socket transport byte by byte. Node A is a
`Remote_Rserver` of `factory/socket_server.hh`. Its output stream's buffer
is `basic_okernelbuf` (`factory/ext/kernelbuf.hh`), which frames every
packet with a size field. Node B is the peer, which fills its input stream
from the socket and parses it with `Kernel_packet::read`.

Bytes are numbers `0..ByteBase-1`. The size field is `HdrSize` bytes in
network order, and it wraps modulo `ByteBase^HdrSize` like `uint32_t`. A
kernel's type id and body are the bytes `Payload[k]`. The base buffer under
`basic_okernelbuf` (`basic_fdbuf`, not in the tree) writes its put area
whole or fails with -1. Partial writes are the subject of `Fildesbuf`.

**State:**
- `obuf`: the okernelbuf's `_state`, `_begin` and put area;
- `armed`: the socket's Out interest;
- `inbound`: B's data waiting at A;
- `pipe` and `wcount`: the bytes in the socket and how many A has written;
- `ipkt`: B's `Kernel_packet` state, its `_packetsize` and the unread input;
- `sent` and `received`: the kernels A sent and the payloads B completed.

**Operators and actions:**

| definition | code |
|---|---|
| `BeginPacket`, `EndPacket`, `Finalise`, `KSync`, `Enc` | `begin_packet`, `end_packet` (with the `pbump` of an empty packet), `finalise`, `sync`, `putsize` |
| `WritePacket(w, k)` | `Kernel_packet::write`: insertions through `xsputn`, then `flush()`, which only frames the packet |
| `Send(k)` | `process_kernels`' upstream branch: `send(k)`, then `writing()` |
| `HandleEvent(in, out, n)` | `handle_event`: the reading part takes B's data; the writing part flushes, and the base `sync()` writes `n` bytes |
| `ProcessEvent(overflow)` | `process_event`'s `on_overflow`: re-arm Out, or `events(DEFAULT_EVENTS)` |
| `PacketRead`, `PayloadSize`, `ResetReadingState`, `ReadLoop`, `ReadEvent(m)` | B's `Kernel_packet::read`, `payloadsize()`, `reset_reading_state()`, `handle_event`'s loop after `_istream.fill()` reads `m` bytes |
| `PeerSends` | B writes to A (when `PeerTraffic`) |

`MC_Kernelbuf` sends three kernels, of one or two bytes, with a 2-byte size
field of base-4 bytes. So a read can stop inside the size field or inside a
payload, and several packets can be framed before one flush writes them all.

### ProcessPipeline (`ProcessPipeline.tla`, `MC_ProcessPipeline.tla`)

Models `bsc::process_pipeline` (`src/bscheduler/ppl/process_pipeline.cc`)
with its parent-role `sbn::process_handler`
(`src/subordination/ppl/process_handler.hh`). Each application runs in one
child process. The child's handler holds the protocol's upstream buffer, and
its destructor calls `recover_kernels(true)`.

**State:**
- `queue` is `_kernels`.
- `apps[a]` is the pid of the handler stored in `_apps` under application
  id `a`. Application ids and pids are both numbers, so they can coincide.
- `polled` is the set of handlers registered in the poller.
- `live` and `reaped` are the children that are running and the exits the
  waiting thread has seen.
- `closed` is the set of handlers whose descriptors `close()` has closed.
- `destroyed` is the set of handlers that have been destroyed.
- `hbuf[p]` is the upstream buffer of handler `p`.
- `toChild[p]` and `fromChild[p]` are the kernels in the two pipes.
- `done`, `recovered` and `failed` record each kernel's outcome: reply
  delivered, handed back by `recover_kernels`, or dropped as "bad
  application id".

**Actions:**
- `Forward`: `forward()` plus `do_add`. It creates the child when the
  application is not in `_apps` and emplaces it under `app.id()`.
- `Submit` and `ProcessKernel`: `process_kernels` and `process_kernel`.
- `Receive`: a reply matched by `plug_parent`.
- `OnProcessExit`: `on_process_exit` and `find_by_process_id`, which close
  the handler (`Close`, the handler's `close()`).
- `Remove`: the poller drops a handler, and `remove_client` erases
  `_apps[ptr->childpid()]`. Any handler that nothing holds any more is
  destroyed, and its buffer is recovered (`Destroy`, the handler's
  destructor).
- `ChildRun` and `ChildExit`: the child itself.

**Assumptions:**
- The declaration of `_apps` (in `process_pipeline.hh`) is not in the tree.
  The model takes its key to be what `do_add` emplaces, the application id.
- The poller's removal rule (closed descriptors, or hang-up with nothing
  left to read) is from unistdx, which is not in the tree either.

## 3. Runs

| run | cfg | expect | what it shows |
|---|---|---|---|
| `protocol` | `MC_KernelProtocol.cfg` | pass | see below |
| `id_reuse` | `MC_KernelProtocol_IdReuse.cfg` | violation of `PluggedParentIsOwn` | see below |
| `redelivery` | `MC_KernelProtocol_Redelivery.cfg` | violation of `CompletedAtMostOnce` | see below |
| `scheduler` | `MC_Scheduler.cfg` | pass | see below |
| `pool` | `MC_PoolServer.cfg` | pass | see below |
| `lost_wakeup` | `MC_PoolServer_Stop.cfg` | violation of `StopTerminates` | see below |
| `partial_write` | `MC_Fildesbuf_Partial.cfg` | violation of `ReceivedIsPrefix` | see below |
| `socket_server` | `MC_SocketServer.cfg` | pass | see below |
| `stop_spin` | `MC_SocketServer_Race.cfg` | violation of `StopTerminates` | see below |
| `exited_child` | `MC_ProcessPipeline.cfg` | violation of `KernelResolved` | see below |
| `framing` | `MC_Kernelbuf.cfg` | pass | see below |
| `write_stall` | `MC_Kernelbuf_Stall.cfg` | violation of `SentIsReceived` | see below |

**`protocol`.** Nodes {A,B}, two children of two parents on A and on B, one
link failure and any number of redials. It checks four properties:
- `TypeOK`;
- `OriginRetainsKernel`: until its parent reacts, a child is queued at its
  origin or sits in an upstream buffer of the origin;
- `CompletedAtMostOnce`: no parent reacts twice;
- `AllComplete`: every submitted child completes.

**`id_reuse`.** Two parents on A. After a failure, the new connection's
counter gives a second child the id that a recovered child still carries. A
late reply is then matched to the wrong buffer entry, and it reaches the
other parent.

**`redelivery`.** Children carry their parent. The executing node keeps its
delivered reply in the downstream buffer, and a later failure restores the
parent a second time.

**`scheduler`.** There are two neighbours, `c1`
and `c2`, in that table order, with 2-bit weights (0..3). Kernels come from
no source or from `c1`. `add_client` may give a weight of 0 or 2, and
`max_weight` may be 1 or 2. So the 3 → overflow → rebase path, a division
that changes the order, and a starting client holding a weight are all
reached within a few steps.
- `scheduler` checks `TypeOK` and `ImplementsAbstract`. File hints are `{}`,
  `{c2}` or this node, and no hint names the kernel's source. Under that
  assumption every decision is one SchedulerAbstract allows.
- A hint that names the source is left out on purpose. The file-location
  branch of the loop does not skip the source, and its result wins, so
  `schedule` returns `c1` for a kernel that came from `c1`. The spec says
  a candidate is never the connection the kernel arrived from. This is
  listed as a hazard in `PROJECT.json`.
- The wrap of the overflow rebase (an unsigned `weight_type` taken below
  the minimum) is reached in `scheduler`. No property states the order it
  loses, because `weight_type` is declared in a header that is not in the
  tree.

**`pool` and `lost_wakeup`.** Two producers send one kernel each. The owner
starts the server and may stop it at any time, then joins and destroys it.
- `pool` checks `NoPhantomKernel` (the worker only processes kernels that
  were sent, despite its unlocked queue test) and `SentIsProcessed` (every
  kernel sent is processed, unless the server is stopped first). Both hold:
  with one worker a stale "not empty" answer can only occur while a push is
  in progress, and that push completes before the worker can take the lock.
- `pool` also checks `NoKernelLeak`: no kernel is both processed and
  deleted by the destructor, and once destroyed, every kernel sent was
  one of the two. The worker leaves `serve()` with
  kernels still queued when it sees `_stopped`, and the destructor's drain
  is what frees them.
- `lost_wakeup` checks `StopTerminates`: once stopped, the owner's `wait()`
  returns. TLC finds the trace in which the worker tests the predicate
  (false) under the mutex, and then the owner sets `_stopped` and calls
  `notify_all` without the mutex before the worker sleeps. The worker then
  sleeps forever, and `join` never returns.

Fairness in PoolServer is weak fairness for every step of the worker, for a
producer's completion of `send()`, and for the owner's `start`,
`notify_all`, `join` and destruction. These are threads that the OS schedules. Spurious wakeups, a
producer starting a `send()`, and the owner's decision to stop get no
fairness. `Finished` is the explicit end of the program. It lets TLC tell a
legitimate end from a deadlock, so the PoolServer cfgs check deadlock.
The Scheduler runs are safety only, and the scheduler always has a step.

**`partial_write`.** Four bytes go through a put area of
size 2. The area grows once, and a write of two or more bytes can be split.
The run checks `ReceivedIsPrefix`: the reader's bytes are a prefix of those put.
- `partial_write` lets `write()` write part of the area. TLC finds this
  sequence: put 1 and 2, a `sync()` writes byte 1, and `pbump(-1)` leaves
  byte 1 in the area. The next `sync()` writes byte 1 again, and byte 2 is
  lost. `spec.md` says that partial writes stay pending until they are
  flushed.

**`socket_server` and `stop_spin`.** Two producers send one kernel each
through the server to two peers: `k1` is an upstream kernel, `k2` is
addressed to the second peer, which `peer()` reconnects when it was erased. `MAX_STOP_ITERATIONS` is 13, as
in the code.
- `socket_server` runs with `QuiescentStop` and `MaxFailures = 1`, so one
  peer may hang up at any point, with kernels in its buffer or replies
  unread. It checks three properties:
  - `SentIsResolved`: a sent kernel is eventually answered or recovered
    to the parent, unless the owner calls `stop()` first;
  - `ResolvedOnce`: no kernel is both answered and recovered;
  - `StopTerminates`: after `stop()`, `wait()` returns.
  With `MaxFailures = 2` both peers can be erased, and the next
  `process_kernels()` throws; `SentIsResolved` then fails. This is listed
  as a hazard rather than a run.
  `SentIsResolved` is stated up to `stop()` because the code loses
  kernels at shutdown: while `STOPPING` the callback clears `POLLIN`, so a
  reply that arrives after `stop()` is never read. The buffer never
  empties, and after `MAX_STOP_ITERATIONS` callbacks the thread ends with
  the kernel neither answered nor recovered. TLC shows this trace for the
  form without the `stop()` escape; it is listed as a hazard.
  With two peers the model also reaches a second `Poller::stop()` in one
  poll round: the pipe's callback closes the write end, and then the
  callback of a peer that hung up closes it again while still `STOPPING`.
  The module does not count the calls, so this too is a hazard only.
- `stop_spin` drops the usage assumption. TLC finds this trace:
  1. both producers push their kernels;
  2. the owner calls `stop()`;
  3. the server consumes `s` and drains the pool;
  4. a producer's `notify()` writes `n` after the drain;
  5. the server goes on polling while `STOPPING`; every callback counts
     one iteration, and once `MAX_STOP_ITERATIONS` callbacks have run
     (or the buffers are empty) a callback closes the write end;
  6. the next `poll()` reports the pipe readable and hung up, so
     `consume_notify()` reads end-of-file forever.

  The kernel names and the point at which `n` is written vary between
  TLC runs with two workers; every trace has this shape.

  A `send()` that began before `stop()` is enough to hang the shutdown.

The fairness is weak fairness on every step of the server thread, on a
producer's `notify()`, on the peer's reply and on `join`. Starting a
`send()` and calling `stop()` are the environment's choices. The cfgs say
`CHECK_DEADLOCK FALSE`, because a server blocked in `poll()` with nothing
ready is a legitimate idle state.

**`exited_child`.** Applications 2 and 7 are started by two forwarded
kernels, `k1` and `k2`. A native kernel `k3` for application 7 goes
through `process_kernel`. Pids are 1 to 3, so a child's pid can equal an
application id or differ from it. Children may exit at any time, with no
fairness. The run checks `KernelResolved` (spec 4.7): every kernel
eventually has its reply delivered, is recovered, or fails. TLC finds this
trace:
1. Application 7 gets pid 1.
2. Its child exits with `k2` unread.
3. `remove_client` erases `_apps[1]`, which does not exist.
4. The dead handler stays in `_apps` and is never destroyed, so `k2` is
   never recovered.

When the pid equals the other application's id, that application's entry
is erased instead. The fairness is weak fairness on the reactor's steps
(`ProcessKernel`, `Receive`, `Remove`), on the waiting thread
(`OnProcessExit`) and on a running child's work (`ChildRun`).

**`framing` and `write_stall`.** Three kernels, B sending to A at any time,
and flushes that may fail (EAGAIN).
- `framing` checks `PeerReceivesSent`: what B has completed is always a
  prefix of the payloads A sent. It also checks `WrittenIsReceived`: once
  all bytes of the i-th packet are in the socket, B eventually completes
  it, however its reads split the bytes.
- `write_stall` checks `SentIsReceived`: every kernel sent eventually
  reaches B (spec 5: partial writes leave the connection registered for
  write readiness until flushed). TLC finds this trace:
  1. B sends to A.
  2. A sends its kernels (`k1`, `k3`, `k2` in the trace). Every packet
     is framed, and Out is armed.
  3. The poller reports In only, because the socket is not writable at
     that poll.
  4. `handle_event` runs only its reading part and reports no overflow,
     and `on_overflow(false)` sets the events to `DEFAULT_EVENTS`.

  Out is now off while the packets wait in the put area. Only another
  `process_kernels` send, or the stop block's `flush_kernels`, arms it
  again.

The fairness is weak fairness on a successful flush (`FlushSucceeds`) and
on B's reading. B keeps reading, so A's socket eventually accepts data, and
both nodes' poll loops handle the events they get. Sends and B's traffic
are the environment's choices. The cfgs say `CHECK_DEADLOCK FALSE`,
because once every kernel is delivered both nodes are idle.

**Bounds of `protocol`.**
- Two nodes are enough for the protocol. A child received from a peer is
  executed locally and never forwarded, so a third node adds no new case.
  It also makes the state space too large for a quick run.
- There is one child per origin node: `k1` from A with parent `p1`, `k2`
  from B with parent `p2`. Both nodes act as origin and as executor at
  once, so ids are assigned on both sides and kernels cross on one
  connection. Two children of one origin are the `id_reuse` run
  (`MCOriginSame`), which is where an id collision can happen.
- One failure (`MaxBreaks = 1`) covers failures before or after a reply
  was written, and a redial that collides with a live accept. In
  `protocol`, children do not carry their parent (`CarriesParent =
  {FALSE}`), so the recovery branches reached are resend and return as
  unreachable. The restore branch and the downstream buffer of a child
  that carries its parent are reached only in `redelivery`
  (`CarriesParent = {TRUE}`).
- Redials are not bounded. The connection states are finite.

**Fairness of `protocol`.** Weak fairness is assumed for every reactor step (`Start`,
`Receive`, `Teardown`, `ProcessUpstream`, `ProcessNative`, `ProcessDirect`) and for the local
pipeline (`Act`/`React`). Each of these is a loop that handles the events it
has. Submissions, dials and failures are the environment's, so they get no
fairness. The cfgs say `CHECK_DEADLOCK FALSE` because the daemon legitimately
idles once every kernel is done.

**Mutants.** `PROJECT.json` lists one mutant per checked property. Each is a
plausible slip in the translated code, and TLC finds it:

| mutant | what the slip is | property that catches it |
|---|---|---|
| `TeardownNoErase` | the client is not erased from the table | `TypeOK` |
| `GoesInUpstreamBufferNoSomewhere` | `moves_somewhere` is forgotten | `OriginRetainsKernel` |
| `PlugParentKeepEntry` | the matched entry is not erased | `CompletedAtMostOnce` |
| `SendKernelEarlyWrite` | the packet is written before the id is assigned | `AllComplete` |
| `RebasedSigned` | `weight_type` signed: the rebase goes below zero | `TypeOK` (Scheduler) |
| `ScanStepAnyState` | the loop forgets to skip clients that are not started | `ImplementsAbstract` |
| `EmptyMayReadStale` | the emptiness test uses a stale value | `NoPhantomKernel` |
| `SendNotifyMissing` | `send()` pushes without notifying | `SentIsProcessed` |
| `DestroyNoDrain` | `~Rserver` does not empty `_pool` | `NoKernelLeak` |
| `SendNotifyMissing` (SocketServer) | `send()` pushes without `notify()` | `SentIsResolved` |
| `PeerCallbackNoClear` | `handle_event` reads a reply without `clear_kernel_buffer` | `ResolvedOnce` |
| `PipeEventNoHup` | the pipe's hang-up is not recognised | `StopTerminates` |
| `EndPacketPayloadSize` | `end_packet` writes the payload's size, not the packet's | `PeerReceivesSent` |
| `PacketReadSizeOnly` | `read()` returns after the size field without trying the payload | `WrittenIsReceived` |

## 4. Plan

The modules in order of construction, with what each composes or refines:

1. **KernelProtocol** (done): protocol engine × socket pipeline routing.
2. **Scheduler** (done): `socket_pipeline_scheduler::schedule` with weights of
   width W (`% 2^W`), overflow rebase over all clients and the local weight,
   `modular_weight`, file-location preference and `set_client_weight`. It
   comes with **SchedulerAbstract**, the choice KernelProtocol uses: a started
   client other than the source, or local. Scheduler is shown to implement it
   through `INSTANCE SchedulerAbstract WITH` a mapping of the chosen client.
   Properties:
   - the scheduler never chooses the kernel's source (spec §4; the
     file-location branch in the code does not skip the source, so no run
     lets a hint name the source);
   - the rebase is exact arithmetic (open: `weight_type`'s width is not in
     the tree; the wrap is modelled and reached);
   - still open: the least-loaded started client is chosen.
3. **PoolServer** (done): `Rserver` send/serve/stop, with its mutex, condition
   variable and unlocked stopped flag, `start()` and the destructor's drain.
   Properties: every queued kernel is processed unless the server is
   stopped, and freed by the destructor otherwise; the worker terminates
   after `stop()` (the lost-wakeup case). Still open: `Iserver`, which
   starts, stops and joins several `Rserver`s in turn.
4. **Framing**: `fildesbuf::sync` partial writes (done, `Fildesbuf`);
   `okernelbuf` with `Kernel_packet` and the legacy server's Out interest
   (done, `Kernelbuf`). Properties: the peer reads exactly the packets
   written, in order; a written packet is eventually completed; a sent
   kernel eventually arrives (violated, `write_stall`).
5. **ProcessPipeline** (done for the parent side): child exit, `close()`,
   `remove_client` and the destructor's recovery. Property: every kernel is
   delivered, recovered or failed (violated, `exited_child`). Still open:
   broadcast kernels and the child-role handler. The legacy
   `factory/process_server.hh` is not modelled (section 5).
6. **SocketServer** (done for the stop protocol, the notification pipe,
   upstream peers hanging up, `erase` and `recover_kernels`, and
   point-to-point routing through `peer()`). Still open:
   - peer replacement on accept. A copy of the module with an `Accept`
     action shows `SentIsResolved` failing when a peer whose link just
     failed redials in the same poll round. Its buffer moves to the new
     connection and is never resent or recovered. This is listed as a
     hazard; it is not yet a run of its own;
   - the loss of replies that arrive while `STOPPING` (hazard at
     `socket_server.hh:133`);
   - the broadcast branch;
   - the okernelbuf destructor, which never flushes.

## 5. Not modelled

The following are left out:
- discovery and topology computation. `factory/discovery.hh` is included
  only by `test_discovery.bak.hh`, a backup that no build reads;
- resource expressions;
- the Python and Guile bindings;
- tests, examples and the springy visualiser;
- address parsing and configuration utilities;
- the legacy process server (`factory/process_server.hh`). No file of
  the tree includes it. The classes that fix its threading are not in the
  tree either: `Proxy_server`, with its poller and mutex,
  `sys::process_group` and the router. So which thread runs
  `on_process_exit` against the poller's handlers, and under which lock,
  cannot be read from the code. Its key mismatch (`_apps` keyed by pid,
  searched by application id) and its erase of a handler the poller still
  holds are listed as hazards;
- `basic_ikernelbuf`. Nothing in the tree reads through it: the legacy
  server reads with `Kernel_packet`. Its `update_state` also keeps offsets
  into the get area across `underflow()`. `fildesbuf`'s `underflow()`
  resets the get area, so no base class in the tree gives it a meaning;
- `basic_okernelbuf::overflow(c)`, which calls `begin_packet` after the
  byte is stored. `packstream`, whose insertions decide between `sputc` and
  `sputn`, is not in the tree. The model takes its insertions to go
  through `xsputn`, and so through `begin_packet` first.

These are data transformations without concurrent state, or they are not
part of the runtime. Together with the code the modules abstract (logging,
formatting, the debug printers, the accessors), they are why the map
covers about a quarter of the source lines. Every run slot is taken by a
question about the runtime, and none is spent on dead code. `PROJECT.json` lists every component with its status.
