--------------------------- MODULE ProcessPipeline ---------------------------
(***************************************************************************)
(* The process pipeline (src/bscheduler/ppl/process_pipeline.cc) with its  *)
(* handlers (src/subordination/ppl/process_handler.hh): one child process  *)
(* per application, a handler per child holding the kernel protocol's      *)
(* upstream buffer, the reactor thread that sends kernels to children and  *)
(* reads their replies, and the thread that waits for children to exit.   *)
(*                                                                         *)
(* _apps maps an application id to the handler of its child; a handler is *)
(* named by its child's pid.  Application ids and pids are both numbers.   *)
(* A handler is destroyed, and recover_kernels(true) runs in its           *)
(* destructor, when neither _apps nor the poller holds it any more.        *)
(***************************************************************************)
EXTENDS Naturals, FiniteSets

CONSTANTS
    App,        \* application ids
    Kernel,     \* the kernels submitted to the pipeline, each once
    AppOf,      \* AppOf[k]: the application kernel k is for
    Foreign,    \* the kernels that arrive by forward() with their application
    Pid         \* the pids the system hands out, in increasing order

ASSUME /\ App \subseteq Nat /\ Pid \subseteq Nat /\ Pid # {}
       /\ AppOf \in [Kernel -> App] /\ Foreign \subseteq Kernel

None == 0
ASSUME None \notin App \cup Pid

VARIABLES
    queue,      \* process_pipeline::_kernels
    apps,       \* apps[a]: the pid of a's handler in _apps, or None
    polled,     \* pids whose handler is registered in the poller
    live,       \* pids whose child process runs
    reaped,     \* pids the waiting thread has seen exit
    closed,     \* pids whose handler's descriptors close() has closed
    destroyed,  \* pids whose handler has been destroyed
    hbuf,       \* hbuf[p]: the upstream buffer of p's handler
    toChild,    \* toChild[p]: kernels written to the child, not yet run
    fromChild,  \* fromChild[p]: replies the child wrote, not yet read
    submitted,  \* kernels submitted to the pipeline
    done,       \* done[k]: how often k's reply reached its principal
    recovered,  \* kernels recover_kernels handed back to the remote pipeline
    failed      \* kernels dropped by "bad application id"

vars == <<queue, apps, polled, live, reaped, closed, destroyed, hbuf, toChild,
          fromChild, submitted, done, recovered, failed>>

\* The pids handed out so far: a new child gets the least pid not used.
Spawned == {p \in Pid : p \in polled \cup reaped \cup live \cup destroyed
                        \/ \E a \in App : apps[a] = p}

NextPid == CHOOSE p \in Pid \ Spawned : \A q \in Pid \ Spawned : p <= q

-----------------------------------------------------------------------------
(* The reactor thread.                                                     *)

\* The handler's send() or forward(): save_kernel keeps k in the protocol's
\* upstream buffer and the packet is written to the child, which is lost
\* once close() has closed the descriptors.
HandlerSend(p, k) ==
    /\ hbuf' = [hbuf EXCEPT ![p] = @ \cup {k}]
    /\ toChild' = IF p \in closed THEN toChild
                  ELSE [toChild EXCEPT ![p] = @ \cup {k}]

\* forward(hdr) of a foreign kernel k carrying its application, called by
\* another pipeline under the mutex: find the application's handler in
\* _apps, or do_add it (spawn the child, emplace the handler under the
\* application id, register its descriptors), then forward k through it.
Forward(k) ==
    /\ k \in Foreign /\ k \notin submitted
    /\ LET a == AppOf[k]
           found == apps[a] # None
           p == IF found THEN apps[a] ELSE NextPid
       IN  /\ found \/ Pid \ Spawned # {}
           /\ apps' = [apps EXCEPT ![a] = p]
           /\ polled' = IF found THEN polled ELSE polled \cup {p}
           /\ live' = IF found THEN live ELSE live \cup {p}
           /\ HandlerSend(p, k)
    /\ submitted' = submitted \cup {k}
    /\ UNCHANGED <<queue, reaped, closed, destroyed, fromChild, done,
                   recovered, failed>>

\* process_kernel(k) for a kernel process_kernels popped from _kernels:
\* find the application's handler, or throw "bad application id" (the
\* kernel is lost with the exception); then the handler's send().
ProcessKernel(k) ==
    /\ k \in queue
    /\ queue' = queue \ {k}
    /\ LET p == apps[AppOf[k]] IN
       IF p = None
       THEN /\ failed' = failed \cup {k}
            /\ UNCHANGED <<hbuf, toChild>>
       ELSE /\ HandlerSend(p, k)
            /\ UNCHANGED failed
    /\ UNCHANGED <<apps, polled, live, reaped, closed, destroyed, fromChild,
                   submitted, done, recovered>>

\* The handler reads a reply from its child: plug_parent finds the kernel
\* in the upstream buffer by id, erases it and the reply goes to its
\* principal; a reply with no buffered kernel is dropped.
Receive(p, k) ==
    /\ p \in polled /\ p \notin closed
    /\ k \in fromChild[p]
    /\ fromChild' = [fromChild EXCEPT ![p] = @ \ {k}]
    /\ hbuf' = [hbuf EXCEPT ![p] = @ \ {k}]
    /\ done' = IF k \in hbuf[p] THEN [done EXCEPT ![k] = @ + 1] ELSE done
    /\ UNCHANGED <<queue, apps, polled, live, reaped, closed, destroyed,
                   toChild, submitted, recovered, failed>>

\* ~process_handler for the handlers gone: recover_kernels(true) hands
\* each one's upstream buffer to the remote pipeline.
Destroy(gone) ==
    /\ destroyed' = destroyed \cup gone
    /\ recovered' = recovered \cup UNION {hbuf[q] : q \in gone}
    /\ hbuf' = [q \in Pid |-> IF q \in gone THEN {} ELSE hbuf[q]]

\* The poller drops a handler whose descriptors are closed, or whose
\* child has exited and left nothing to read, and calls remove_client,
\* which erases _apps' entry under the key ptr->childpid().  Every handler
\* no longer held by _apps or the poller is destroyed: its destructor's
\* recover_kernels(true) hands its upstream buffer to the remote pipeline.
Remove(p) ==
    /\ p \in polled
    /\ p \in closed \/ (p \notin live /\ fromChild[p] = {})
    /\ LET apps2 == [a \in App |-> IF a = p THEN None ELSE apps[a]]
           polled2 == polled \ {p}
           gone == {q \in Spawned \ destroyed :
                        q \notin polled2 /\ \A a \in App : apps2[a] # q}
       IN  /\ apps' = apps2
           /\ polled' = polled2
           /\ Destroy(gone)
    /\ UNCHANGED <<queue, live, reaped, closed, toChild, fromChild, submitted,
                   done, failed>>

-----------------------------------------------------------------------------
(* The waiting thread, the children and the pipeline's users.              *)

\* process_handler::close() closes the pipe to child p; replies it has
\* written and the reactor has not read are lost with the descriptors.
Close(p) ==
    /\ closed' = closed \cup {p}
    /\ fromChild' = [fromChild EXCEPT ![p] = {}]

\* wait_for_all_processes_to_finish: _procs.wait reports an exited child,
\* and on_process_exit closes the handler find_by_process_id finds in
\* _apps, if any; its unread replies are lost with the descriptors.
OnProcessExit(p) ==
    /\ p \in Spawned /\ p \notin live /\ p \notin reaped
    /\ reaped' = reaped \cup {p}
    /\ IF \E a \in App : apps[a] = p
       THEN Close(p)
       ELSE UNCHANGED <<closed, fromChild>>
    /\ UNCHANGED <<queue, apps, polled, live, destroyed, hbuf, toChild,
                   submitted, done, recovered, failed>>

\* The child runs a kernel it has read and writes the reply back.
ChildRun(p, k) ==
    /\ p \in live
    /\ k \in toChild[p]
    /\ toChild' = [toChild EXCEPT ![p] = @ \ {k}]
    /\ fromChild' = [fromChild EXCEPT ![p] = @ \cup {k}]
    /\ UNCHANGED <<queue, apps, polled, live, reaped, closed, destroyed, hbuf,
                   submitted, done, recovered, failed>>

\* The child exits (or crashes); kernels it had not read are lost with it.
ChildExit(p) ==
    /\ p \in live
    /\ live' = live \ {p}
    /\ toChild' = [toChild EXCEPT ![p] = {}]
    /\ UNCHANGED <<queue, apps, polled, reaped, closed, destroyed, hbuf,
                   fromChild, submitted, done, recovered, failed>>

\* Another pipeline sends native kernel k to this one: pushed on _kernels.
Submit(k) ==
    /\ k \notin Foreign /\ k \notin submitted
    /\ submitted' = submitted \cup {k}
    /\ queue' = queue \cup {k}
    /\ UNCHANGED <<apps, polled, live, reaped, closed, destroyed, hbuf, toChild,
                   fromChild, done, recovered, failed>>

Init ==
    /\ queue = {}
    /\ apps = [a \in App |-> None]
    /\ polled = {} /\ live = {} /\ reaped = {} /\ closed = {} /\ destroyed = {}
    /\ hbuf = [p \in Pid |-> {}]
    /\ toChild = [p \in Pid |-> {}]
    /\ fromChild = [p \in Pid |-> {}]
    /\ submitted = {}
    /\ done = [k \in Kernel |-> 0]
    /\ recovered = {} /\ failed = {}

Next ==
    \/ \E k \in Kernel : Submit(k) \/ Forward(k) \/ ProcessKernel(k)
    \/ \E p \in Pid, k \in Kernel : Receive(p, k) \/ ChildRun(p, k)
    \/ \E p \in Pid : Remove(p) \/ OnProcessExit(p) \/ ChildExit(p)

\* The reactor and the waiting thread handle every event they have, and a
\* running child works through its input; children may exit at any time,
\* and applications and kernels come when their users decide.
Fairness ==
    /\ \A k \in Kernel : WF_vars(ProcessKernel(k))
    /\ \A p \in Pid, k \in Kernel : WF_vars(Receive(p, k)) /\ WF_vars(ChildRun(p, k))
    /\ \A p \in Pid : WF_vars(Remove(p)) /\ WF_vars(OnProcessExit(p))

Spec == Init /\ [][Next]_vars /\ Fairness

-----------------------------------------------------------------------------
(* Properties.                                                             *)

\* Spec 4.7: an exited child is handled like a disconnected peer, so every
\* kernel handed to the pipeline eventually has its reply delivered, is
\* recovered by its handler's destructor, or fails with "bad application
\* id".  About remove_client erasing _apps' entry under the child's pid
\* while do_add emplaced it under the application id.
KernelResolved ==
    \A k \in Kernel :
        k \in submitted ~> (done[k] > 0 \/ k \in recovered \/ k \in failed)
=============================================================================
