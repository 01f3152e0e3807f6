---------------------------- MODULE SleepWorker ----------------------------
(***************************************************************************)
(* Emulated vkLatencySleepNV (vulkan_hooks.cpp): application threads queue  *)
(* sleep jobs, one worker paces and signals their timeline semaphores.      *)
(* The queue is the TicketQueue that FixedMpmcRing implements.  Threads     *)
(* hand over through three words: the publication of a ticket,              *)
(* g_sleep_worker_waiting and the auto-reset event g_sleep_event.           *)
(*                                                                          *)
(* Every store to the first two is a plain release store, which an x86-64   *)
(* CPU may hold in the thread's store buffer while the thread's later loads *)
(* already execute.  storeBuffers = TRUE models that; FALSE is sequential   *)
(* consistency.  A locked instruction (every CAS) waits for the buffer.     *)
(***************************************************************************)
EXTENDS Integers, Sequences

CONSTANTS
    Callers,      \* application threads calling vkLatencySleepNV
    Capacity,     \* kSleepQueueCapacity
    MaxCalls,     \* bound: number of vkLatencySleepNV calls
    StoreBuffers, \* memory models: TRUE for x86 store buffers, FALSE for none
    WaitMayFail,  \* whether WaitForSingleObject may fail
    NoJob

Jobs == 1 .. MaxCalls    \* a call's <<device, semaphore, value>>

ASSUME SleepAssumption ==
    /\ Capacity \in Nat \ {0}
    /\ MaxCalls \in Nat
    /\ StoreBuffers \subseteq BOOLEAN /\ WaitMayFail \subseteq BOOLEAN
    /\ NoJob \notin Jobs

VARIABLES
    accepted, reserved, published, claimed, delivered,  \* g_sleep_queue
    ready, stop, waiting,   \* g_sleep_worker_ready / _stop / _waiting
    event,                  \* g_sleep_event: "none", "clear" or "set"
    wpc, wjob, wret,        \* worker thread: location, job, where it returns to
    wbuf,                   \* worker's buffered stores to waiting
    cpc, cjob,              \* callers: location and job
    cticket,                \* ticket the caller reserved
    cbuf,                   \* caller's buffered publications
    spc,                    \* stop_sleep_worker (holds the init mutex when not idle)
    calls,                  \* calls made so far
    storeBuffers, waitMayFail,  \* the platform, one of StoreBuffers \X WaitMayFail
    signals                 \* how often each job's semaphore was signalled

queue == <<accepted, reserved, published, claimed, delivered>>
flags == <<ready, stop, waiting, event>>
worker == <<wpc, wjob, wret, wbuf>>
callers == <<cpc, cjob, cticket, cbuf>>
platform == <<storeBuffers, waitMayFail>>
vars == <<queue, flags, worker, callers, spc, calls, signals, platform>>

Q == INSTANCE TicketQueue WITH Values <- Jobs

WorkerPCs == {"none", "drain", "take", "process", "stop_check", "arm", "recheck",
              "unarm", "stop_check2", "wait", "disarm", "final", "exited"}
CallerPCs == {"idle", "ensure", "ensure_slow", "enqueue", "publish", "check", "cas", "set_event", "fail_open"}
StopPCs == {"idle", "request", "join", "cleanup"}

TypeOK ==
    /\ reserved \in Nat /\ claimed \in 0 .. reserved
    /\ accepted \in [0 .. reserved - 1 -> Jobs]
    /\ published \subseteq 0 .. reserved - 1
    /\ ready \in BOOLEAN /\ stop \in BOOLEAN /\ waiting \in BOOLEAN
    /\ event \in {"none", "clear", "set"}
    /\ wpc \in WorkerPCs /\ wjob \in Jobs \cup {NoJob} /\ wret \in {"drain", "unarm", "final"}
    /\ wbuf \in Seq(BOOLEAN)
    /\ cpc \in [Callers -> CallerPCs]
    /\ cjob \in [Callers -> Jobs \cup {NoJob}]
    /\ cticket \in [Callers -> Nat]
    /\ cbuf \in [Callers -> SUBSET Nat]
    /\ spc \in StopPCs
    /\ calls \in 0 .. MaxCalls
    /\ signals \in [Jobs -> Nat]
    /\ storeBuffers \in BOOLEAN /\ waitMayFail \in BOOLEAN

Init ==
    /\ Q!Init
    /\ ready = FALSE /\ stop = FALSE /\ waiting = FALSE /\ event = "none"
    /\ wpc = "none" /\ wjob = NoJob /\ wret = "drain" /\ wbuf = <<>>
    /\ cpc = [c \in Callers |-> "idle"]
    /\ cjob = [c \in Callers |-> NoJob]
    /\ cticket = [c \in Callers |-> 0]
    /\ cbuf = [c \in Callers |-> {}]
    /\ spc = "idle" /\ calls = 0
    /\ signals = [j \in Jobs |-> 0]
    /\ storeBuffers \in StoreBuffers /\ waitMayFail \in WaitMayFail

\* VulkanDeviceRegistry::signal_semaphore
Signal(j) == signals' = [signals EXCEPT ![j] = @ + 1]

\* g_sleep_queue.reset()
ResetQueue ==
    /\ accepted' = [k \in {} |-> 0]
    /\ reserved' = 0 /\ published' = {} /\ claimed' = 0 /\ delivered' = {}

CGoto(c, l) == cpc' = [cpc EXCEPT ![c] = l]
CReturn(c) ==
    /\ CGoto(c, "idle")
    /\ cjob' = [cjob EXCEPT ![c] = NoJob]
    /\ cticket' = [cticket EXCEPT ![c] = 0]

----------------------------------------------------------------------------
(* hkvkLatencySleepNV and enqueue_emulated_sleep *)

\* Emulated path.  Another frontend owns pacing, or there is no context:
\* satisfy the dependency at once.  Otherwise enqueue.
hkvkLatencySleepNV(c) ==
    /\ cpc[c] = "idle" /\ spc = "idle"
    /\ calls < MaxCalls
    /\ calls' = calls + 1
    /\ \/ Signal(calls') /\ UNCHANGED callers
       \/ /\ CGoto(c, "ensure")
          /\ cjob' = [cjob EXCEPT ![c] = calls']
          /\ UNCHANGED <<cticket, cbuf, signals>>
    /\ UNCHANGED <<queue, flags, worker, spc>>

\* ensure_sleep_worker, lock-free fast path.
EnsureFast(c) ==
    /\ cpc[c] = "ensure"
    /\ CGoto(c, IF ready THEN "enqueue" ELSE "ensure_slow")
    /\ UNCHANGED <<queue, flags, worker, cjob, cticket, cbuf, spc, calls, signals>>

\* The rest of ensure_sleep_worker, under g_sleep_worker_init_mutex.
EnsureSlow(c) ==
    /\ cpc[c] = "ensure_slow" /\ spc = "idle"
    /\ IF ready
       THEN CGoto(c, "enqueue") /\ UNCHANGED <<queue, flags, worker>>
       ELSE /\ ResetQueue
            /\ waiting' = FALSE
            /\ \/ /\ event' = "none"      \* CreateEventW or CreateThread failed
                  /\ stop' \in {stop, FALSE}
                  /\ CGoto(c, "fail_open")
                  /\ UNCHANGED <<ready, worker>>
               \/ /\ event' = "clear"
                  /\ stop' = FALSE
                  /\ wpc' = "drain"
                  /\ ready' = TRUE
                  /\ CGoto(c, "enqueue")
                  /\ UNCHANGED <<wjob, wret, wbuf>>
    /\ UNCHANGED <<cjob, cticket, cbuf, spc, calls, signals>>

\* try_enqueue: the reservation CAS, or the queue is full.
TryEnqueue(c) ==
    /\ cpc[c] = "enqueue" /\ cbuf[c] = {}
    /\ \/ /\ Q!Reserve(cjob[c])
          /\ cticket' = [cticket EXCEPT ![c] = reserved]
          /\ CGoto(c, "publish")
       \/ /\ reserved >= Capacity /\ ~Q!Released(reserved - Capacity)
          /\ CGoto(c, "fail_open")
          /\ UNCHANGED <<queue, cticket>>
    /\ UNCHANGED <<flags, worker, cjob, cbuf, spc, calls, signals>>

\* try_enqueue: the publication store.
Publish(c) ==
    /\ cpc[c] = "publish"
    /\ IF storeBuffers
       THEN cbuf' = [cbuf EXCEPT ![c] = {cticket[c]}] /\ UNCHANGED queue
       ELSE Q!Publish(cticket[c]) /\ UNCHANGED cbuf
    /\ CGoto(c, "check")
    /\ UNCHANGED <<flags, worker, cjob, cticket, spc, calls, signals>>

\* Mutant: no waiting worker is reported as a failure.
CheckWaiting_FailsOpen(c) ==
    /\ cpc[c] = "check"
    /\ CGoto(c, IF waiting THEN "cas" ELSE "fail_open")
    /\ UNCHANGED <<queue, flags, worker, cjob, cticket, cbuf, spc, calls, signals>>

\* Read waiting; only a producer that sees TRUE pays for the CAS.
CheckWaiting(c) ==
    /\ cpc[c] = "check"
    /\ IF waiting
       THEN CGoto(c, "cas") /\ UNCHANGED <<cjob, cticket>>
       ELSE CReturn(c)
    /\ UNCHANGED <<queue, flags, worker, cbuf, spc, calls, signals>>

\* compare_exchange_strong(true -> false): the winner wakes the worker.
CasWaiting(c) ==
    /\ cpc[c] = "cas" /\ cbuf[c] = {}
    /\ IF waiting
       THEN waiting' = FALSE /\ CGoto(c, "set_event") /\ UNCHANGED <<cjob, cticket>>
       ELSE CReturn(c) /\ UNCHANGED waiting
    /\ UNCHANGED <<queue, ready, stop, event, worker, cbuf, spc, calls, signals>>

CallerSetEvent(c) ==
    /\ cpc[c] = "set_event"
    /\ event' = "set"
    /\ CReturn(c)
    /\ UNCHANGED <<queue, ready, stop, waiting, worker, cbuf, spc, calls, signals>>

\* enqueue_emulated_sleep returned false: signal instead of stalling.
FailOpen(c) ==
    /\ cpc[c] = "fail_open"
    /\ Signal(cjob[c])
    /\ CReturn(c)
    /\ UNCHANGED <<queue, flags, worker, cbuf, spc, calls>>

CallerDrain(c) ==
    /\ cbuf[c] # {}
    /\ \E k \in cbuf[c] : Q!Publish(k) /\ cbuf' = [cbuf EXCEPT ![c] = @ \ {k}]
    /\ UNCHANGED <<flags, worker, cpc, cjob, cticket, spc, calls, signals>>

----------------------------------------------------------------------------
(* emulated_sleep_worker *)

\* A release store to waiting by the worker.
StoreWaiting(b) ==
    IF storeBuffers THEN wbuf' = Append(wbuf, b) /\ UNCHANGED waiting
                    ELSE waiting' = b /\ UNCHANGED wbuf

WGoto(l) == wpc' = l /\ UNCHANGED <<wjob, wret>>

\* try_dequeue_emulated_sleep from one of its three call sites.  A success
\* continues at "take", then "process", then at ret.
WorkerDequeue(here, ret, empty) ==
    /\ wpc = here
    /\ \/ /\ wbuf = <<>>        \* the claim is a CAS
          /\ Q!Claim
          /\ wpc' = "take" /\ wret' = ret /\ UNCHANGED wjob
       \/ /\ claimed \notin published
          /\ WGoto(empty) /\ UNCHANGED queue
    /\ UNCHANGED <<flags, wbuf, callers, spc, calls, signals>>

WorkerDrain == WorkerDequeue("drain", "drain", "stop_check")
WorkerRecheck == WorkerDequeue("recheck", "unarm", "stop_check2")
WorkerFinalDrain == WorkerDequeue("final", "final", "exited")

WorkerTake ==
    /\ wpc = "take"
    /\ Q!Deliver(claimed - 1)
    /\ wjob' = accepted[claimed - 1]
    /\ wpc' = IF wret = "unarm" THEN "unarm" ELSE "process"
    /\ UNCHANGED <<flags, wret, wbuf, callers, spc, calls, signals>>

\* The recheck found a job: waiting goes back to false before processing.
WorkerUnarm ==
    /\ wpc = "unarm"
    /\ StoreWaiting(FALSE)
    /\ wpc' = "process" /\ wret' = "drain"
    /\ UNCHANGED <<queue, ready, stop, event, wjob, callers, spc, calls, signals>>

\* process_emulated_sleep: pace through the selected backend, then signal.
WorkerProcess ==
    /\ wpc = "process"
    /\ Signal(wjob)
    /\ wpc' = wret /\ wjob' = NoJob
    /\ UNCHANGED <<queue, flags, wret, wbuf, callers, spc, calls>>

WorkerStopCheck ==
    /\ wpc = "stop_check"
    /\ WGoto(IF stop THEN "final" ELSE "arm")
    /\ UNCHANGED <<queue, flags, wbuf, callers, spc, calls, signals>>

\* Mutant: no recheck of the queue after arming.
WorkerArm_NoRecheck ==
    /\ wpc = "arm"
    /\ StoreWaiting(TRUE)
    /\ WGoto("stop_check2")
    /\ UNCHANGED <<queue, ready, stop, event, callers, spc, calls, signals>>

WorkerArm ==
    /\ wpc = "arm"
    /\ StoreWaiting(TRUE)
    /\ WGoto("recheck")
    /\ UNCHANGED <<queue, ready, stop, event, callers, spc, calls, signals>>

WorkerStopCheck2 ==
    /\ wpc = "stop_check2"
    /\ IF stop THEN StoreWaiting(FALSE) /\ WGoto("final")
               ELSE WGoto("wait") /\ UNCHANGED <<waiting, wbuf>>
    /\ UNCHANGED <<queue, ready, stop, event, callers, spc, calls, signals>>

\* WaitForSingleObject on the auto-reset event.
WorkerWait ==
    /\ wpc = "wait"
    /\ event = "set"
    /\ event' = "clear"
    /\ WGoto("disarm")
    /\ UNCHANGED <<queue, ready, stop, waiting, wbuf, callers, spc, calls, signals>>

WorkerWaitFails ==
    /\ wpc = "wait"
    /\ waitMayFail
    /\ StoreWaiting(FALSE)
    /\ WGoto("final")
    /\ UNCHANGED <<queue, ready, stop, event, callers, spc, calls, signals>>

WorkerDisarm ==
    /\ wpc = "disarm"
    /\ StoreWaiting(FALSE)
    /\ WGoto("drain")
    /\ UNCHANGED <<queue, ready, stop, event, callers, spc, calls, signals>>

WorkerStoreDrain ==
    /\ wbuf # <<>>
    /\ waiting' = Head(wbuf)
    /\ wbuf' = Tail(wbuf)
    /\ UNCHANGED <<queue, ready, stop, event, wpc, wjob, wret, callers, spc, calls, signals>>

----------------------------------------------------------------------------
(* stop_sleep_worker, called by VulkanHooks::shutdown from DllMain.  It runs  *)
(* with no hooked call in progress: the code of a caller would be unmapped.   *)

StopBegin ==
    /\ spc = "idle"
    /\ \A c \in Callers : cpc[c] = "idle" /\ cbuf[c] = {}
    /\ ready
    /\ ready' = FALSE
    /\ spc' = "request"
    /\ UNCHANGED <<queue, stop, waiting, event, worker, callers, calls, signals>>

\* Mutant: the sleeping worker is not woken.
StopRequest_NoWake ==
    /\ spc = "request"
    /\ stop' = TRUE
    /\ spc' = "join"
    /\ UNCHANGED <<queue, ready, waiting, event, worker, callers, calls, signals>>

StopRequest ==
    /\ spc = "request"
    /\ stop' = TRUE
    /\ event' = "set"
    /\ spc' = "join"
    /\ UNCHANGED <<queue, ready, waiting, worker, callers, calls, signals>>

StopJoin ==
    /\ spc = "join"
    /\ wpc = "exited" /\ wbuf = <<>>
    /\ wpc' = "none"
    /\ spc' = "cleanup"
    /\ UNCHANGED <<queue, flags, wjob, wret, wbuf, callers, calls, signals>>

\* Close the event, reset the queue and the flags, release the mutex.
StopCleanup ==
    /\ spc = "cleanup"
    /\ event' = "none"
    /\ ResetQueue
    /\ waiting' = FALSE /\ stop' = FALSE
    /\ spc' = "idle"
    /\ UNCHANGED <<ready, worker, callers, calls, signals>>

stop_sleep_worker == StopBegin \/ StopRequest \/ StopJoin \/ StopCleanup

----------------------------------------------------------------------------

CallerStep(c) ==
    \/ EnsureFast(c) \/ EnsureSlow(c) \/ TryEnqueue(c) \/ Publish(c)
    \/ CheckWaiting(c) \/ CasWaiting(c) \/ CallerSetEvent(c) \/ FailOpen(c)

emulated_sleep_worker ==
    \/ WorkerDrain \/ WorkerRecheck \/ WorkerFinalDrain \/ WorkerTake \/ WorkerUnarm
    \/ WorkerProcess \/ WorkerStopCheck \/ WorkerArm \/ WorkerStopCheck2
    \/ WorkerWait \/ WorkerDisarm

StoreDrain == WorkerStoreDrain \/ \E c \in Callers : CallerDrain(c)

Next ==
    /\ \/ \E c \in Callers : hkvkLatencySleepNV(c) \/ CallerStep(c)
       \/ emulated_sleep_worker
       \/ WorkerWaitFails
       \/ stop_sleep_worker
       \/ StoreDrain
    /\ UNCHANGED platform

Spec == Init /\ [][Next]_vars

\* Every thread that has something to do is scheduled, and buffered stores
\* reach memory.  Applications need not call again, nor the DLL be unloaded.
Fairness ==
    /\ \A c \in Callers : WF_vars(CallerStep(c) /\ UNCHANGED platform)
    /\ WF_vars(emulated_sleep_worker /\ UNCHANGED platform)
    /\ WF_vars((StopRequest \/ StopJoin \/ StopCleanup) /\ UNCHANGED platform)
    /\ WF_vars(WorkerStoreDrain /\ UNCHANGED platform)
    /\ \A c \in Callers : WF_vars(CallerDrain(c) /\ UNCHANGED platform)

FairSpec == Spec /\ Fairness

----------------------------------------------------------------------------
(* Correctness *)

\* No semaphore is signalled twice: fail-open and the worker never both
\* answer the same call (a second signal of a timeline value is an error).
SignalledOnce == \A j \in Jobs : signals[j] <= 1

\* Where a job that is not signalled yet may be: with its caller until it is
\* queued, in the queue until the worker has taken it, then with the worker.
Holding(c, j) ==
    cpc[c] \in {"ensure", "ensure_slow", "enqueue", "fail_open"} /\ cjob[c] = j
Pending(k) ==
    k \in 0 .. reserved - 1 /\ (k >= claimed \/ (wpc = "take" /\ k = claimed - 1))
Queued(k, j) == Pending(k) /\ accepted[k] = j
InHand(j) == wpc \in {"unarm", "process"} /\ wjob = j

Waiting(j) ==
    \/ \E c \in Callers : Holding(c, j)
    \/ \E k \in 0 .. reserved - 1 : Queued(k, j)
    \/ InHand(j)

\* Shutdown and restart forget no job: while the event wait works, a call whose
\* semaphore is not signalled is still with its caller, in the queue or with
\* the worker, although stop_sleep_worker and ensure_sleep_worker reset the queue.
NoJobDropped == ~waitMayFail => \A j \in 1 .. calls : signals[j] = 1 \/ Waiting(j)

\* A job is in one place at a time and its semaphore is not signalled there.
OnePlace ==
    \A j \in Jobs :
        /\ \A c, d \in Callers : Holding(c, j) /\ Holding(d, j) => c = d
        /\ \A k, l \in 0 .. reserved - 1 : Queued(k, j) /\ Queued(l, j) => k = l
        /\ \A c \in Callers, k \in 0 .. reserved - 1 : ~(Holding(c, j) /\ Queued(k, j))
        /\ InHand(j) => /\ \A c \in Callers : ~Holding(c, j)
                        /\ \A k \in 0 .. reserved - 1 : ~Queued(k, j)
        /\ Waiting(j) => j <= calls /\ signals[j] = 0
        /\ j > calls => signals[j] = 0

\* Who can be where: a worker that took a job has it, there is no worker
\* before the first job or after the join, and the queue is used only while
\* there is one.
WorkerPhase ==
    /\ wpc \in {"unarm", "process"} => wjob \in Jobs
    /\ wpc = "process" => wret # "unarm"
    /\ wpc = "take" => claimed > 0
    /\ \A c \in Callers :
        /\ cpc[c] \in {"ensure", "ensure_slow", "enqueue", "fail_open"} => cjob[c] \in 1 .. calls
        /\ cpc[c] \in {"enqueue", "publish", "check", "cas", "set_event"} => ready
    /\ spc = "idle" /\ ~ready => wpc = "none" /\ reserved = 0
    /\ spc = "cleanup" => wpc = "none"

\* A stop is only requested with no call in progress, and only a requested
\* stop (or a failed wait) ends the worker.  Every ticket is published or on
\* its way, so the worker that exits has drained the queue.
StopPhase ==
    /\ spc # "idle" => ~ready /\ \A c \in Callers : cpc[c] = "idle" /\ cbuf[c] = {}
    /\ stop => spc \in {"join", "cleanup"}
    /\ \A k \in 0 .. reserved - 1 :
        k \notin published =>
            \E c \in Callers : (cpc[c] = "publish" /\ cticket[c] = k) \/ k \in cbuf[c]
    /\ \A c \in Callers : cpc[c] = "publish" => cbuf[c] = {}
    /\ ~waitMayFail =>
        /\ wpc \in {"final", "exited"} \/ (wret = "final" /\ wpc \in {"take", "process"}) => stop
        /\ wpc = "exited" => claimed = reserved
        /\ spc = "cleanup" => claimed = reserved

\* The places of the jobs and the phases of worker and shutdown, the inductive
\* invariant of enqueue_emulated_sleep, emulated_sleep_worker and
\* stop_sleep_worker.
JobPlaces == OnePlace /\ WorkerPhase /\ StopPhase /\ SignalledOnce /\ NoJobDropped

\* Every claimed ticket was delivered, but for the one the worker is taking.
ClaimedDelivered ==
    \A k \in 0 .. claimed - 1 : Q!Released(k) \/ (wpc = "take" /\ k = claimed - 1)

\* The queue is used as fixed_mpmc_ring demands: tickets are published and
\* delivered by their owners, and ensure_sleep_worker and stop_sleep_worker
\* call reset() only when no enqueue or dequeue is in progress.
UsesQueueProperly == Q!Spec

\* Every call's semaphore is eventually signalled, whether the call was
\* paced, refused or caught by a shutdown: the application never hangs on it.
EverySleepSignalled == \A j \in Jobs : calls >= j ~> signals[j] = 1

\* The same where stores reach memory at once and the event wait works: then
\* the handshake of enqueue_emulated_sleep and emulated_sleep_worker loses no
\* wakeup, and a stop or a restart forgets no accepted job.
SleepSignalledInOrder ==
    \A j \in Jobs :
        calls >= j /\ ~storeBuffers /\ ~waitMayFail ~> signals[j] = 1

\* DllMain never hangs in stop_sleep_worker's join.
StopTerminates == spc # "idle" ~> spc = "idle"
=============================================================================
