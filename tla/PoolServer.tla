---------------------------- MODULE PoolServer ----------------------------
(***************************************************************************)
(* The thread pool server Rserver (src/factory/server.hh): one worker     *)
(* thread runs serve() over a kernel queue guarded by a mutex and a       *)
(* condition variable; producer threads send() kernels; the owner stops   *)
(* the server (Server_link::stop: Resident::stop sets the volatile        *)
(* _stopped flag, then stop_impl notifies the condition variable), joins  *)
(* the worker in wait() and destroys the server, whose destructor deletes *)
(* the kernels left in the queue.  The worker thread exists from start(). *)
(*                                                                         *)
(* Every step of a thread is one atomic action; the worker's unlocked     *)
(* reads of _stopped and _pool.empty() are separate steps, and a read of  *)
(* the queue while a producer is inside push() is a data race whose       *)
(* result may be either answer.                                            *)
(***************************************************************************)
EXTENDS Naturals, Sequences

CONSTANTS
    Producer,       \* threads calling send()
    Kernel,         \* the kernels they send, each sent once
    Sender,         \* Sender[k]: the producer that sends k
    None

ASSUME Sender \in [Kernel -> Producer]

VARIABLES
    pool,       \* Rserver::_pool
    mutex,      \* the holder of Rserver::_mutex, or None
    stopped,    \* Resident::_stopped
    wpc,        \* the worker's program counter
    sleeping,   \* the worker is blocked inside _semaphore.wait
    ppc,        \* ppc[p]: the producer's program counter
    cur,        \* cur[p]: the kernel producer p is pushing
    opc,        \* the owner's program counter: run, notify, join, done
    sent,       \* kernels whose send() began
    processed,  \* kernels the worker handed to process_kernel
    deleted     \* kernels ~Rserver deleted from the queue

vars == <<pool, mutex, stopped, wpc, sleeping, ppc, cur, opc, sent, processed, deleted>>

Worker == "worker"

\* The worker's program counter, after the lines of serve() and
\* wait_for_a_kernel():
\*   "loop"  while (!this->stopped())       "peek"  if (!_pool.empty())
\*   "pop"   lock; front; pop; unlock       "lock"  unique_lock in wait_for_a_kernel
\*   "pred"  !_pool.empty() || stopped()    "block" release the lock and sleep
\*   "wake"  asleep or woken, to reacquire the lock
\*   "exit"  serve() returned                "none"  start() has not run
WorkerPC == {"none", "loop", "peek", "pop", "lock", "pred", "block", "wake", "exit"}

-----------------------------------------------------------------------------
(* Producers: send(kernel).                                                *)

\* unique_lock, then _pool.push(kernel), on a server not yet destroyed.
SendPush(p, k) ==
    /\ ppc[p] = "idle" /\ k \notin sent /\ Sender[k] = p
    /\ opc # "destroyed"
    /\ mutex = None
    /\ mutex' = p
    /\ cur' = [cur EXCEPT ![p] = k]
    /\ ppc' = [ppc EXCEPT ![p] = "push"]
    /\ sent' = sent \cup {k}
    /\ UNCHANGED <<pool, stopped, wpc, sleeping, opc, processed, deleted>>

\* Mutant: send() pushes but does not notify the condition variable.
SendNotifyMissing(p) ==
    /\ ppc[p] = "push"
    /\ pool' = Append(pool, cur[p])
    /\ mutex' = None
    /\ ppc' = [ppc EXCEPT ![p] = "idle"]
    /\ UNCHANGED <<stopped, wpc, sleeping, cur, opc, sent, processed, deleted>>

\* The push completes, _semaphore.notify_one() wakes the worker if it
\* sleeps, and the lock is released when send() returns.
SendNotify(p) ==
    /\ ppc[p] = "push"
    /\ pool' = Append(pool, cur[p])
    /\ sleeping' = FALSE
    /\ mutex' = None
    /\ ppc' = [ppc EXCEPT ![p] = "idle"]
    /\ UNCHANGED <<stopped, wpc, cur, opc, sent, processed, deleted>>

-----------------------------------------------------------------------------
(* The worker: serve() and wait_for_a_kernel().                            *)

\* Mutant: the emptiness test uses a value read earlier, not the queue.
EmptyMayReadStale(b) == TRUE

\* Whether _pool.empty() may return b when read without the mutex: the
\* true answer, or either answer while a producer is inside push().
EmptyMayRead(b) ==
    \/ b = (pool = <<>>)
    \/ \E p \in Producer : ppc[p] = "push"

\* while (!this->stopped()): read without the mutex.
ServeLoop ==
    /\ wpc = "loop"
    /\ wpc' = IF stopped THEN "exit" ELSE "peek"
    /\ UNCHANGED <<pool, mutex, stopped, sleeping, ppc, cur, opc, sent, processed, deleted>>

\* if (!_pool.empty()), read without the mutex.
ServePeek ==
    /\ wpc = "peek"
    /\ \E b \in BOOLEAN : EmptyMayRead(b) /\ wpc' = IF b THEN "lock" ELSE "pop"
    /\ UNCHANGED <<pool, mutex, stopped, sleeping, ppc, cur, opc, sent, processed, deleted>>

\* lock; front(); pop(); unlock; process_kernel.  On an empty queue
\* front() reads whatever the deque's storage holds: some kernel object.
ServePop ==
    /\ wpc = "pop"
    /\ mutex = None
    /\ IF pool # <<>>
       THEN pool' = Tail(pool) /\ processed' = processed \cup {Head(pool)}
       ELSE \E k \in Kernel : processed' = processed \cup {k} /\ UNCHANGED pool
    /\ wpc' = "loop"
    /\ UNCHANGED <<mutex, stopped, sleeping, ppc, cur, opc, sent, deleted>>

\* wait_for_a_kernel: unique_lock<std::mutex> lock(_mutex).
WaitLock ==
    /\ wpc = "lock"
    /\ mutex = None
    /\ mutex' = Worker
    /\ wpc' = "pred"
    /\ UNCHANGED <<pool, stopped, sleeping, ppc, cur, opc, sent, processed, deleted>>

\* The predicate of _semaphore.wait, under the lock: return (and unlock)
\* when it holds, otherwise go on to block.
WaitPred ==
    /\ wpc = "pred"
    /\ IF pool # <<>> \/ stopped
       THEN wpc' = "loop" /\ mutex' = None
       ELSE wpc' = "block" /\ UNCHANGED mutex
    /\ UNCHANGED <<pool, stopped, sleeping, ppc, cur, opc, sent, processed, deleted>>

\* The wait itself: atomically release the lock and sleep.
WaitBlock ==
    /\ wpc = "block"
    /\ mutex' = None
    /\ sleeping' = TRUE
    /\ wpc' = "wake"
    /\ UNCHANGED <<pool, stopped, ppc, cur, opc, sent, processed, deleted>>

\* Woken (by a notification or spuriously): reacquire the lock and test
\* the predicate again.
WaitWake ==
    /\ wpc = "wake"
    /\ ~sleeping
    /\ mutex = None
    /\ mutex' = Worker
    /\ wpc' = "pred"
    /\ UNCHANGED <<pool, stopped, sleeping, ppc, cur, opc, sent, processed, deleted>>

\* A spurious wakeup of the condition variable.
Spurious ==
    /\ sleeping
    /\ sleeping' = FALSE
    /\ UNCHANGED <<pool, mutex, stopped, wpc, ppc, cur, opc, sent, processed, deleted>>

-----------------------------------------------------------------------------
(* The owner: start(), stop(), wait(), then the destructor.               *)

\* Rserver::start: _thread = std::thread([this] { this->serve(); }).
Start ==
    /\ opc = "init"
    /\ opc' = "run"
    /\ wpc' = "loop"
    /\ UNCHANGED <<pool, mutex, stopped, sleeping, ppc, cur, sent, processed, deleted>>

\* Resident::stop: stopped(true), without the mutex.
StopFlag ==
    /\ opc = "run"
    /\ stopped' = TRUE
    /\ opc' = "notify"
    /\ UNCHANGED <<pool, mutex, wpc, sleeping, ppc, cur, sent, processed, deleted>>

\* Rserver::stop_impl: _semaphore.notify_all(), without the mutex.
StopNotify ==
    /\ opc = "notify"
    /\ sleeping' = FALSE
    /\ opc' = "join"
    /\ UNCHANGED <<pool, mutex, stopped, wpc, ppc, cur, sent, processed, deleted>>

\* Rserver::wait_impl: _thread.join() returns once serve() has returned.
Join ==
    /\ opc = "join"
    /\ wpc = "exit"
    /\ opc' = "done"
    /\ UNCHANGED <<pool, mutex, stopped, wpc, sleeping, ppc, cur, sent, processed, deleted>>

\* Mutant: the destructor frees the server without emptying the queue.
DestroyNoDrain ==
    /\ opc = "done" /\ \A p \in Producer : ppc[p] = "idle"
    /\ mutex = None
    /\ opc' = "destroyed"
    /\ UNCHANGED <<pool, mutex, stopped, wpc, sleeping, ppc, cur, sent, processed, deleted>>

\* ~Rserver, once wait() has returned and no send() is in progress: under
\* the mutex, pop and delete every kernel left in _pool.
Destroy ==
    /\ opc = "done" /\ \A p \in Producer : ppc[p] = "idle"
    /\ mutex = None
    /\ deleted' = deleted \cup {pool[i] : i \in DOMAIN pool}
    /\ pool' = <<>>
    /\ opc' = "destroyed"
    /\ UNCHANGED <<mutex, stopped, wpc, sleeping, ppc, cur, sent, processed>>

\* The program has ended: the server is destroyed.
Finished ==
    /\ opc = "destroyed"
    /\ UNCHANGED vars

Init ==
    /\ pool = <<>>
    /\ mutex = None
    /\ stopped = FALSE
    /\ wpc = "none"
    /\ sleeping = FALSE
    /\ ppc = [p \in Producer |-> "idle"]
    /\ cur = [p \in Producer |-> None]
    /\ opc = "init"
    /\ sent = {}
    /\ processed = {}
    /\ deleted = {}

Next ==
    \/ \E p \in Producer, k \in Kernel : SendPush(p, k)
    \/ \E p \in Producer : SendNotify(p)
    \/ ServeLoop \/ ServePeek \/ ServePop
    \/ WaitLock \/ WaitPred \/ WaitBlock \/ WaitWake \/ Spurious
    \/ Start \/ StopFlag \/ StopNotify \/ Join \/ Destroy
    \/ Finished

\* Every thread that can make a step eventually does; the scheduler owes
\* nothing to spurious wakeups, and the owner need not decide to stop.
Fairness ==
    /\ \A p \in Producer : WF_vars(SendNotify(p))
    /\ WF_vars(ServeLoop) /\ WF_vars(ServePeek) /\ WF_vars(ServePop)
    /\ WF_vars(WaitLock) /\ WF_vars(WaitPred) /\ WF_vars(WaitBlock) /\ WF_vars(WaitWake)
    /\ WF_vars(Start) /\ WF_vars(StopNotify) /\ WF_vars(Join) /\ WF_vars(Destroy)

Spec == Init /\ [][Next]_vars /\ Fairness

-----------------------------------------------------------------------------
(* Properties.                                                             *)

\* The worker only processes kernels that were sent: its unlocked
\* _pool.empty() test, racing send()'s push, never leads it to pop an
\* empty queue.  About serve() reading the queue outside the mutex.
NoPhantomKernel == processed \subseteq sent

\* A kernel handed to send() is processed by the worker unless the
\* server is stopped first: send()'s notify_one under the mutex cannot
\* fall between the worker's test of the predicate and its sleep.
SentIsProcessed == \A k \in Kernel : k \in sent ~> (k \in processed \/ stopped)

\* After stop() the worker's serve() returns, so wait() (the join)
\* returns: the notify_all of stop_impl reaches the worker whatever it is
\* doing.  About Resident::stop setting _stopped without the mutex.
StopTerminates == stopped ~> opc \in {"done", "destroyed"}

\* No kernel is both processed by the worker and deleted by the destructor
\* (a double free), and when the server is destroyed every kernel a
\* producer sent was one of the two: the worker leaves serve() as soon as
\* it sees _stopped, with kernels still queued, and ~Rserver must free
\* them.  About serve()'s exit, the unlocked stop and the destructor's
\* drain of _pool.
NoKernelLeak ==
    /\ processed \cap deleted = {}
    /\ opc = "destroyed" => sent \subseteq processed \cup deleted
=============================================================================
