------------------------------ MODULE WorkerPool ------------------------------
(***************************************************************************)
(* The fixed native worker pool of native/zig/worker_pool.zig and the      *)
(* lifecycle guard around it in native/zig/build_smoke.zig: one bounded    *)
(* FIFO of owned jobs behind a mutex and ONE condition variable, worker    *)
(* threads, the request control blocks through which a job is cancelled    *)
(* and answered, start with rollback, and stop with drain and join.        *)
(*                                                                         *)
(* A critical section of the queue mutex is one action; the mutex itself   *)
(* is a variable only because a worker keeps it from the accounting of one *)
(* job to its next look at the queue.  The atomics of the request control  *)
(* that race with cancellation (load of `cancelled', exchange on           *)
(* `terminal') are separate actions.                                       *)
(***************************************************************************)
EXTENDS Integers, Sequences, FiniteSets

CONSTANTS
  Jobs,            \* the submissions made in a behaviour (request references)
  NoJob,           \* not a job
  NumWorkers,      \* size of Runtime.threads
  QueueCapacity,   \* Runtime.queue_capacity
  Kinds,           \* the submit entry points used, a subset of AllKinds
  Events,          \* what happens to a request's process, a subset of AllEvents
  MaxStarts,       \* bound: how often the pool is created
  MaxPauses        \* bound: how often the test fixture pauses the workers

(***************************************************************************)
(* plain     submit             no request control                         *)
(* monitored submitMonitored    a fixture job with a request control       *)
(* operation submitOperation    answered to the process that submits       *)
(* direct    submitOperationDirect  answered to the consumer, the          *)
(*                              submitting coordinator is the observer     *)
(***************************************************************************)
AllKinds == {"plain", "monitored", "operation", "direct"}

(***************************************************************************)
(* cancel   an explicit cancelRequest                                      *)
(* operation   the operation record of the job is cancelled                *)
(* death    the recipient dies, its monitor fires                          *)
(* abandon  the monitor is given up                                        *)
(* collect  the request term is garbage collected                          *)
(***************************************************************************)
AllEvents == {"cancel", "operation", "death", "abandon", "collect"}

ASSUME PoolAssumption ==
  /\ NoJob \notin Jobs
  /\ NumWorkers \in 1..64
  /\ QueueCapacity \in 1..4096
  /\ Kinds \subseteq AllKinds /\ Events \subseteq AllEvents
  /\ MaxStarts \in Nat /\ MaxPauses \in Nat

Workers == 1..NumWorkers
NoOne   == 0

VARIABLES
  phase,       \* the owner of the lifecycle mutex: what start/stop is doing
  starts,      \* number of creations so far (bound)
  started,     \* threads created by createWithFailure so far
  live,        \* live_workers
  accepting, shutdownRequested, stopping,
  paused, pauses,
  mutex,       \* the worker keeping the queue mutex between two actions
  queue,       \* the intrusive FIFO; queued_jobs is its length
  count,       \* running/completed/cancelled/delivered/discarded/rejected
  admittedBy,  \* per submission: the creation of the pool that admitted it, or 0
  pc, held, outcome,  \* per worker: control point, job, DeliveryOutcome
  submitting,  \* the submission inside the lifecycle guard
  kind,        \* per submission: "none" until it is made
  request,     \* per submission: its RequestControl
  jobCancelled, opCancelled, \* Job.cancelled; OperationRecord.cancelled
  handle,      \* the BEAM still references the PoolRequestResource
  alive,       \* the process to be answered is alive
  inbox,       \* result messages sent to that process
  observed     \* outcomes the observer was notified of

poolVars   == <<phase, starts, started, live, accepting, shutdownRequested,
                stopping, paused, pauses>>
queueVars  == <<mutex, queue, count, admittedBy>>
workerVars == <<pc, held, outcome>>
clientVars == <<submitting, kind, handle, alive, inbox, observed>>
flagVars   == <<request, jobCancelled, opCancelled>>
vars == <<poolVars, queueVars, workerVars, clientVars, flagVars>>

Phases == {"absent", "starting", "live", "stopping", "joining"}

WorkerPoints ==
  {"off", "born", "entry", "waitQueue", "waitPause", "repause", "probe", "run",
   "post", "settle", "load", "exchange", "send", "destroy", "account",
   "exiting", "gone"}

TerminalStates == {"pending", "delivering", "delivered", "discarded", "cancelled"}
Outcomes       == {"delivered", "discarded", "cancelled"}
Verdicts       == Outcomes \cup {"none"}   \* "none": finished, nobody to answer
Counters       == {"running", "completed", "cancelled", "delivered",
                   "discarded", "rejected"}

Requests == [terminal  : TerminalStates,
             cancelled : BOOLEAN,
             monitored : BOOLEAN,
             refs      : 0..2]

NoCounts  == [c \in Counters |-> 0]
NoRequest == [terminal |-> "pending", cancelled |-> FALSE,
              monitored |-> FALSE, refs |-> 0]

Init ==
  /\ phase = "absent" /\ starts = 0 /\ started = 0 /\ live = 0
  /\ accepting = FALSE /\ shutdownRequested = FALSE /\ stopping = FALSE
  /\ paused = FALSE /\ pauses = 0
  /\ mutex = NoOne /\ queue = <<>> /\ count = NoCounts
  /\ admittedBy = [j \in Jobs |-> 0]
  /\ pc = [w \in Workers |-> "off"]
  /\ held = [w \in Workers |-> NoJob]
  /\ outcome = [w \in Workers |-> "none"]
  /\ submitting = NoJob
  /\ kind = [j \in Jobs |-> "none"]
  /\ request = [j \in Jobs |-> NoRequest]
  /\ jobCancelled = [j \in Jobs |-> FALSE]
  /\ opCancelled = [j \in Jobs |-> FALSE]
  /\ handle = [j \in Jobs |-> FALSE]
  /\ alive = [j \in Jobs |-> TRUE]
  /\ inbox = [j \in Jobs |-> 0]
  /\ observed = [j \in Jobs |-> {}]

-----------------------------------------------------------------------------
(* Helpers. *)

\* PoolLifecycleGuard.acquire: nobody starts, stops or submits.
LifecycleFree == phase \in {"absent", "live"} /\ submitting = NoJob

\* Nobody but w (a worker or NoOne) keeps the queue mutex.
MutexFree(w) == mutex \in {NoOne, w}

\* enif_cond_broadcast, and enif_cond_signal, which wakes one waiter of
\* either kind if there is one.
Woken(point) == CASE point = "waitQueue" -> "entry"
                  [] point = "waitPause" -> "repause"
                  [] OTHER -> point

Waiting(points) == {w \in Workers : points[w] \in {"waitQueue", "waitPause"}}

BroadcastAsSignal(points) ==   \* mutant: one waiter is woken instead of all
  IF Waiting(points) = {} THEN points
  ELSE [points EXCEPT ![CHOOSE w \in Waiting(points) : TRUE] = Woken(@)]

Broadcast(points) == [w \in Workers |-> Woken(points[w])]

NotSignalled(points) == {points}   \* mutant: enqueue without a signal

Signalled(points) ==
  IF Waiting(points) = {} THEN {points}
  ELSE {[points EXCEPT ![w] = Woken(points[w])] : w \in Waiting(points)}

HasRequest(j)   == kind[j] \in {"monitored", "operation", "direct"}
IsOperation(j)  == kind[j] \in {"operation", "direct"}
HasObserver(j)  == kind[j] = "direct"

\* Job.isCancelled.  The three flags only ever rise, so reading them one
\* after the other yields what one atomic reading could yield.
IsCancelledIgnoringRequest(j) == jobCancelled[j] \/ opCancelled[j]   \* mutant

IsCancelled(j) == jobCancelled[j] \/ opCancelled[j] \/ request[j].cancelled

\* RequestControl.cancel: the load of `terminal' and the swap of `cancelled'
\* are one step; nothing reads `cancelled' once `terminal' left pending.
Cancelled(r) == IF r.terminal = "pending" THEN [r EXCEPT !.cancelled = TRUE] ELSE r

\* RequestControl.retain and release.
NotRetained(r) == r   \* mutant: the job borrows the control
Retained(r) == [r EXCEPT !.refs = @ + 1]

Released(r) == [r EXCEPT !.refs = @ - 1]

\* The condition under which a worker with a job sleeps on the pause.
HoldBackEvenStopping == paused   \* mutant
HoldBack == paused /\ ~stopping

-----------------------------------------------------------------------------
(* native_pool_start, Runtime.createWithFailure, rollback, native_pool_stop *)

StartPool ==
  /\ phase = "absent" /\ submitting = NoJob
  /\ starts < MaxStarts
  /\ phase' = "starting" /\ starts' = starts + 1
  /\ started' = 0 /\ live' = 0
  /\ accepting' = TRUE /\ shutdownRequested' = FALSE /\ stopping' = FALSE
  /\ paused' = FALSE
  /\ mutex' = NoOne /\ queue' = <<>> /\ count' = NoCounts
  /\ pc' = [w \in Workers |-> "off"]
  /\ UNCHANGED <<pauses, admittedBy, held, outcome, clientVars, flagVars>>

SpawnWorker ==
  /\ phase = "starting" /\ started < NumWorkers
  /\ started' = started + 1
  /\ pc' = [pc EXCEPT ![started + 1] = "born"]
  /\ UNCHANGED <<phase, starts, live, accepting, shutdownRequested, stopping,
                 paused, pauses, queueVars, held, outcome, clientVars, flagVars>>

\* enif_thread_create fails (or the injected failure): errdefer rollback.
SpawnFails ==
  /\ phase = "starting" /\ started < NumWorkers
  /\ phase' = "stopping"
  /\ shutdownRequested' = TRUE
  /\ UNCHANGED <<starts, started, live, accepting, stopping, paused, pauses,
                 queueVars, workerVars, clientVars, flagVars>>

\* The spin on live_workers ends and pool_ref is published.
PublishPool ==
  /\ phase = "starting" /\ started = NumWorkers /\ live = NumWorkers
  /\ phase' = "live"
  /\ UNCHANGED <<starts, started, live, accepting, shutdownRequested, stopping,
                 paused, pauses, queueVars, workerVars, clientVars, flagVars>>

\* native_pool_stop up to the first store of rollback.
StopPool ==
  /\ phase = "live" /\ submitting = NoJob
  /\ phase' = "stopping"
  /\ accepting' = FALSE /\ shutdownRequested' = TRUE
  /\ UNCHANGED <<starts, started, live, stopping, paused, pauses, queueVars,
                 workerVars, clientVars, flagVars>>

\* rollback's critical section.
RaiseStopping ==
  /\ phase = "stopping" /\ MutexFree(NoOne)
  /\ stopping' = TRUE
  /\ pc' = Broadcast(pc)
  /\ phase' = "joining"
  /\ UNCHANGED <<starts, started, live, accepting, shutdownRequested, paused,
                 pauses, queueVars, held, outcome, clientVars, flagVars>>

JoinedAllButLast == \A w \in 1..(started - 1) : pc[w] = "gone"   \* mutant
Joined == \A w \in 1..started : pc[w] = "gone"

\* rollback joins threads[0..started]; destroy frees the runtime.
JoinWorkers ==
  /\ phase = "joining"
  /\ Joined
  /\ phase' = "absent"
  /\ UNCHANGED <<starts, started, live, accepting, shutdownRequested, stopping,
                 paused, pauses, queueVars, workerVars, clientVars, flagVars>>

\* Runtime.setPaused, reached only through native_pool_pause_workers.
PauseWorkers ==
  /\ phase = "live" /\ submitting = NoJob /\ MutexFree(NoOne)
  /\ ~paused /\ pauses < MaxPauses
  /\ paused' = TRUE /\ pauses' = pauses + 1
  /\ UNCHANGED <<phase, starts, started, live, accepting, shutdownRequested,
                 stopping, queueVars, workerVars, clientVars, flagVars>>

ResumeWorkers ==
  /\ phase = "live" /\ submitting = NoJob /\ MutexFree(NoOne)
  /\ paused
  /\ paused' = FALSE
  /\ pc' = Broadcast(pc)
  /\ UNCHANGED <<phase, starts, started, live, accepting, shutdownRequested,
                 stopping, pauses, queueVars, held, outcome, clientVars, flagVars>>

-----------------------------------------------------------------------------
(* Submission: submit, submitMonitored, submitOperationTo.  The lifecycle  *)
(* guard is held from BeginSubmit to the end of the critical section.      *)

\* Entering the guard with a published pool: the request control and its
\* monitor are made before the queue mutex is taken.  The recipient of a
\* direct job may be dead already, then enif_monitor_process fails and the
\* request is released at once.
BeginSubmit(j, k) ==
  /\ LifecycleFree /\ phase = "live"
  /\ kind[j] = "none"
  /\ alive[j]
  /\ submitting' = j
  /\ kind' = [kind EXCEPT ![j] = k]
  /\ IF k = "plain"
     THEN UNCHANGED <<request, handle>>
     ELSE /\ request' = [request EXCEPT ![j].refs = 1, ![j].monitored = TRUE]
          /\ handle' = [handle EXCEPT ![j] = TRUE]
  /\ UNCHANGED <<poolVars, queueVars, workerVars, alive, inbox, observed,
                 jobCancelled, opCancelled>>

MonitorFails(j) ==
  /\ LifecycleFree /\ phase = "live"
  /\ kind[j] = "none" /\ "direct" \in Kinds
  /\ ~alive[j]
  /\ kind' = [kind EXCEPT ![j] = "direct"]
  /\ UNCHANGED <<poolVars, queueVars, workerVars, submitting, handle, alive,
                 inbox, observed, flagVars>>

\* What the critical section answers.  The guard makes "stopped" unreachable
\* here; the test stays where the code has it.
AdmissionOffByOne ==   \* mutant
  IF stopping \/ ~accepting THEN "stopped"
  ELSE IF Len(queue) > QueueCapacity THEN "busy"
  ELSE "accepted"

Admission ==
  IF stopping \/ ~accepting THEN "stopped"
  ELSE IF Len(queue) >= QueueCapacity THEN "busy"
  ELSE "accepted"

\* The control made for a submission that is not accepted is released by
\* errdefer, through the destructor of the resource.
Abandoned(j) ==
  /\ handle' = [handle EXCEPT ![j] = FALSE]
  /\ request' = IF HasRequest(j)
                THEN [request EXCEPT ![j] = [Released(@) EXCEPT !.monitored = FALSE]]
                ELSE request

Enqueue(j) ==
  /\ submitting = j /\ MutexFree(NoOne)
  /\ Admission = "accepted"
  /\ queue' = Append(queue, j)
  /\ admittedBy' = [admittedBy EXCEPT ![j] = starts]
  /\ request' = IF HasRequest(j) THEN [request EXCEPT ![j] = Retained(@)] ELSE request
  /\ pc' \in Signalled(pc)
  /\ submitting' = NoJob
  /\ UNCHANGED <<poolVars, mutex, count, held, outcome, kind, handle, alive,
                 inbox, observed, jobCancelled, opCancelled>>

Reject(j) ==
  /\ submitting = j /\ MutexFree(NoOne)
  /\ Admission # "accepted"
  /\ count' = IF Admission = "busy" THEN [count EXCEPT !["rejected"] = @ + 1] ELSE count
  /\ Abandoned(j)
  /\ submitting' = NoJob
  /\ UNCHANGED <<poolVars, mutex, queue, admittedBy, workerVars, kind, alive,
                 inbox, observed, jobCancelled, opCancelled>>

\* Job.create or createOperation fails after the capacity test.
OutOfMemory(j) ==
  /\ submitting = j /\ MutexFree(NoOne)
  /\ Admission = "accepted"
  /\ Abandoned(j)
  /\ submitting' = NoJob
  /\ UNCHANGED <<poolVars, queueVars, workerVars, kind, alive, inbox, observed,
                 jobCancelled, opCancelled>>

-----------------------------------------------------------------------------
(* The process side: cancellation, death, garbage collection. *)

\* native_pool_cancel_fixture -> cancelRequest -> RequestControl.cancel.
CancelRequest(j) ==
  /\ "cancel" \in Events
  /\ LifecycleFree /\ phase = "live"
  /\ handle[j] /\ ~request[j].cancelled
  /\ request' = [request EXCEPT ![j] = Cancelled(@)]
  /\ UNCHANGED <<poolVars, queueVars, workerVars, clientVars, jobCancelled, opCancelled>>

\* The operation the job executes is cancelled (operation_cancel); the job
\* reads it through ops.pool_operation_cancelled until it is settled.
CancelOperation(j) ==
  /\ "operation" \in Events
  /\ \/ \E i \in 1..Len(queue) : queue[i] = j
     \/ \E w \in Workers : held[w] = j
  /\ IsOperation(j) /\ ~opCancelled[j]
  /\ opCancelled' = [opCancelled EXCEPT ![j] = TRUE]
  /\ UNCHANGED <<poolVars, queueVars, workerVars, clientVars, request, jobCancelled>>

RecipientDies(j) ==
  /\ "death" \in Events
  /\ alive[j]
  /\ submitting = j => kind[j] = "direct"
  /\ alive' = [alive EXCEPT ![j] = FALSE]
  /\ UNCHANGED <<poolVars, queueVars, workerVars, submitting, kind, handle,
                 inbox, observed, flagVars>>

\* RequestResource.resourceDown.
MonitorDown(j) ==
  /\ ~alive[j] /\ handle[j] /\ request[j].monitored
  /\ request' = [request EXCEPT ![j] = [Cancelled(@) EXCEPT !.monitored = FALSE]]
  /\ UNCHANGED <<poolVars, queueVars, workerVars, clientVars, jobCancelled, opCancelled>>

\* native_pool_abandon_monitor_fixture -> RequestControl.demonitor.
AbandonMonitor(j) ==
  /\ "abandon" \in Events
  /\ LifecycleFree /\ phase = "live"
  /\ handle[j] /\ request[j].monitored
  /\ request' = [request EXCEPT ![j].monitored = FALSE]
  /\ UNCHANGED <<poolVars, queueVars, workerVars, clientVars, jobCancelled, opCancelled>>

\* RequestResource.resourceDtor, once the request term is collected; the
\* emulator drops the monitor with the resource.
CollectRequest(j) ==
  /\ "collect" \in Events
  /\ handle[j] /\ submitting # j
  /\ handle' = [handle EXCEPT ![j] = FALSE]
  /\ request' = [request EXCEPT ![j] = [Released(@) EXCEPT !.monitored = FALSE]]
  /\ UNCHANGED <<poolVars, queueVars, workerVars, submitting, kind, alive,
                 inbox, observed, jobCancelled, opCancelled>>

-----------------------------------------------------------------------------
(* workerMain *)

Goto(w, from, to) == pc[w] = from /\ pc' = [pc EXCEPT ![w] = to]

Boot(w) ==
  /\ Goto(w, "born", "entry")
  /\ live' = live + 1
  /\ UNCHANGED <<phase, starts, started, accepting, shutdownRequested, stopping,
                 paused, pauses, queueVars, held, outcome, clientVars, flagVars>>

Idle(w) ==
  /\ MutexFree(w) /\ mutex' = NoOne
  /\ queue = <<>> /\ ~stopping
  /\ Goto(w, "entry", "waitQueue")
  /\ UNCHANGED <<poolVars, queue, count, admittedBy, held, outcome, clientVars, flagVars>>

Quit(w) ==
  /\ MutexFree(w) /\ mutex' = NoOne
  /\ queue = <<>> /\ stopping
  /\ Goto(w, "entry", "exiting")
  /\ UNCHANGED <<poolVars, queue, count, admittedBy, held, outcome, clientVars, flagVars>>

Dequeued == Tail(queue)

\* pop, then the pause test with the mutex still held.
Pop(w) ==
  /\ MutexFree(w) /\ mutex' = NoOne
  /\ queue # <<>>
  /\ Goto(w, "entry", IF HoldBack THEN "waitPause" ELSE "probe")
  /\ held' = [held EXCEPT ![w] = Head(queue)]
  /\ queue' = Dequeued
  /\ count' = [count EXCEPT !["running"] = @ + 1]
  /\ UNCHANGED <<poolVars, admittedBy, outcome, clientVars, flagVars>>

Repause(w) ==
  /\ MutexFree(NoOne)
  /\ Goto(w, "repause", IF HoldBack THEN "waitPause" ELSE "probe")
  /\ UNCHANGED <<poolVars, queueVars, held, outcome, clientVars, flagVars>>

Probe(w) ==
  /\ Goto(w, "probe", IF IsCancelled(held[w]) THEN "post" ELSE "run")
  /\ UNCHANGED <<poolVars, queueVars, held, outcome, clientVars, flagVars>>

\* The fixture loop looks at shutdown_requested at every chunk; an operation
\* does not, it returns with some result.
Run(w) ==
  /\ Goto(w, "run", "post")
  /\ jobCancelled' = [jobCancelled EXCEPT ![held[w]] =
                        @ \/ (~IsOperation(held[w]) /\ shutdownRequested)]
  /\ UNCHANGED <<poolVars, queueVars, held, outcome, clientVars, request, opCancelled>>

Post(w) ==
  /\ Goto(w, "post", "settle")
  /\ jobCancelled' = [jobCancelled EXCEPT ![held[w]] = @ \/ shutdownRequested]
  /\ UNCHANGED <<poolVars, queueVars, held, outcome, clientVars, request, opCancelled>>

\* A job without a request is only classified; one with a request goes to
\* its delivery, cancelled first if any of the three flags is up.
Settle(w) ==
  LET j == held[w] IN
  /\ Goto(w, "settle", IF HasRequest(j) THEN "load" ELSE "destroy")
  /\ outcome' = [outcome EXCEPT ![w] = IF IsCancelled(j) THEN "cancelled" ELSE "none"]
  /\ request' = IF HasRequest(j) /\ IsCancelled(j)
                THEN [request EXCEPT ![j] = Cancelled(@)] ELSE request
  /\ UNCHANGED <<poolVars, queueVars, held, clientVars, jobCancelled, opCancelled>>

\* RequestControl.notifyObserver.  That there is no memory for its environment is
\* left out: the emulator ends itself then.
Notified(j, o) ==
  observed' = IF HasObserver(j) THEN [observed EXCEPT ![j] = @ \cup {o}] ELSE observed

\* deliver/deliverTerm: the load of `cancelled'.
LoadCancelled(w) ==
  LET j == held[w] IN
  /\ Goto(w, "load", "destroy")
  /\ request[j].cancelled
  /\ request' = [request EXCEPT ![j].terminal = IF @ = "pending" THEN "cancelled" ELSE @]
  /\ outcome' = [outcome EXCEPT ![w] = "cancelled"]
  /\ Notified(j, "cancelled")
  /\ UNCHANGED <<poolVars, queueVars, held, submitting, kind, handle, alive,
                 inbox, jobCancelled, opCancelled>>

LoadNotCancelled(w) ==
  /\ Goto(w, "load", "exchange")
  /\ ~request[held[w]].cancelled
  /\ UNCHANGED <<poolVars, queueVars, held, outcome, clientVars, flagVars>>

\* The exchange pending -> delivering; a lost exchange is a cancellation.
Exchange(w) ==
  LET j   == held[w]
      won == request[j].terminal = "pending"
  IN
  /\ pc[w] = "exchange"
  /\ pc' = [pc EXCEPT ![w] = IF won THEN "send" ELSE "destroy"]
  /\ request' = [request EXCEPT ![j].terminal = IF won THEN "delivering" ELSE @]
  /\ outcome' = [outcome EXCEPT ![w] = IF won THEN @ ELSE "cancelled"]
  /\ UNCHANGED <<poolVars, queueVars, held, clientVars, jobCancelled, opCancelled>>

\* The terminal state after enif_send to a live or a dead process.
SentOrLost(j) == IF alive[j] THEN "delivered" ELSE "discarded"

\* enif_send, the final store of `terminal' and the observer's notification.
Send(w) ==
  LET j == held[w]
      o == SentOrLost(j)
  IN
  /\ Goto(w, "send", "destroy")
  /\ inbox' = [inbox EXCEPT ![j] = @ + (IF alive[j] THEN 1 ELSE 0)]
  /\ request' = [request EXCEPT ![j].terminal = o]
  /\ outcome' = [outcome EXCEPT ![w] = o]
  /\ Notified(j, o)
  /\ UNCHANGED <<poolVars, queueVars, held, submitting, kind, handle, alive,
                 jobCancelled, opCancelled>>

\* Job.destroy.
Destroy(w) ==
  /\ Goto(w, "destroy", "account")
  /\ request' = IF HasRequest(held[w])
                THEN [request EXCEPT ![held[w]] = Released(@)] ELSE request
  /\ UNCHANGED <<poolVars, queueVars, held, outcome, clientVars, jobCancelled, opCancelled>>

\* The counters after a job ended with verdict o.
TallyLostAsDelivered(o) ==   \* mutant: a discarded result counts as delivered
  [c \in Counters |->
     CASE c = "running" -> count[c] - 1
       [] c = "cancelled" /\ o = "cancelled" -> count[c] + 1
       [] c = "completed" /\ o # "cancelled" -> count[c] + 1
       [] c = "delivered" /\ o \in {"delivered", "discarded"} -> count[c] + 1
       [] OTHER -> count[c]]

Tally(o) ==
  [c \in Counters |->
     CASE c = "running" -> count[c] - 1
       [] c \in {o, IF o = "cancelled" THEN o ELSE "completed"} -> count[c] + 1
       [] OTHER -> count[c]]

\* The closing critical section; the mutex is kept into the next iteration.
Account(w) ==
  /\ MutexFree(NoOne) /\ mutex' = w
  /\ pc[w] = "account"
  /\ pc' = Broadcast([pc EXCEPT ![w] = "entry"])
  /\ held' = [held EXCEPT ![w] = NoJob]
  /\ count' = Tally(outcome[w])
  /\ UNCHANGED <<poolVars, queue, admittedBy, outcome, clientVars, flagVars>>

Exit(w) ==
  /\ Goto(w, "exiting", "gone")
  /\ live' = live - 1
  /\ UNCHANGED <<phase, starts, started, accepting, shutdownRequested, stopping,
                 paused, pauses, queueVars, held, outcome, clientVars, flagVars>>

-----------------------------------------------------------------------------
Controller ==
  \/ StartPool \/ SpawnWorker \/ SpawnFails \/ PublishPool
  \/ StopPool \/ RaiseStopping \/ JoinWorkers \/ PauseWorkers \/ ResumeWorkers

Submission(j) ==
  \/ \E k \in Kinds : BeginSubmit(j, k)
  \/ MonitorFails(j) \/ Enqueue(j) \/ Reject(j) \/ OutOfMemory(j)

Process(j) ==
  \/ CancelRequest(j) \/ CancelOperation(j) \/ RecipientDies(j)
  \/ MonitorDown(j) \/ AbandonMonitor(j) \/ CollectRequest(j)

Worker(w) ==
  \/ Boot(w) \/ Idle(w) \/ Quit(w) \/ Pop(w) \/ Repause(w) \/ Probe(w)
  \/ Run(w) \/ Post(w) \/ Settle(w) \/ LoadCancelled(w) \/ LoadNotCancelled(w)
  \/ Exchange(w) \/ Send(w) \/ Destroy(w) \/ Account(w) \/ Exit(w)

Next ==
  \/ Controller
  \/ \E j \in Jobs : Submission(j) \/ Process(j)
  \/ \E w \in Workers : Worker(w)

(***************************************************************************)
(* Threads of the pool, and the thread that starts or stops it, run until  *)
(* they block (the operating system schedules them); a submission that     *)
(* entered the guard finishes.  Nothing else has to happen: nobody need    *)
(* submit, cancel, stop or resume.                                         *)
(***************************************************************************)
Fairness ==
  /\ \A w \in Workers : WF_vars(Worker(w))
  /\ WF_vars(SpawnWorker) /\ WF_vars(PublishPool)
  /\ WF_vars(RaiseStopping) /\ WF_vars(JoinWorkers)
  /\ \A j \in Jobs : WF_vars(Enqueue(j)) /\ WF_vars(Reject(j))

Spec == Init /\ [][Next]_vars /\ Fairness

-----------------------------------------------------------------------------
(* Properties. *)

TypeOK ==
  /\ phase \in Phases
  /\ starts \in 0..MaxStarts /\ started \in 0..NumWorkers /\ live \in 0..NumWorkers
  /\ accepting \in BOOLEAN /\ shutdownRequested \in BOOLEAN /\ stopping \in BOOLEAN
  /\ paused \in BOOLEAN /\ pauses \in 0..MaxPauses
  /\ mutex \in Workers \cup {NoOne}
  /\ queue \in Seq(Jobs)
  /\ count \in [Counters -> Nat]
  /\ admittedBy \in [Jobs -> 0..MaxStarts]
  /\ pc \in [Workers -> WorkerPoints]
  /\ held \in [Workers -> Jobs \cup {NoJob}]
  /\ outcome \in [Workers -> Verdicts]
  /\ submitting \in Jobs \cup {NoJob}
  /\ kind \in [Jobs -> Kinds \cup {"none", "direct"}]
  /\ request \in [Jobs -> Requests]
  /\ jobCancelled \in [Jobs -> BOOLEAN] /\ opCancelled \in [Jobs -> BOOLEAN]
  /\ handle \in [Jobs -> BOOLEAN] /\ alive \in [Jobs -> BOOLEAN]
  /\ inbox \in [Jobs -> Nat]
  /\ observed \in [Jobs -> SUBSET Outcomes]

Queued     == {queue[i] : i \in 1..Len(queue)}
Busy       == {w \in Workers : held[w] # NoJob}
InHand     == {held[w] : w \in Busy}
Admitted   == {j \in Jobs : admittedBy[j] = starts /\ starts > 0}

\* The number of workers that reached a verdict o they have not counted yet.
Uncounted(o) ==
  Cardinality({w \in Workers : pc[w] \in {"destroy", "account"} /\ outcome[w] = o})

\* The inbox of the caller and the observer of a direct job say what the
\* terminal state of the request says.
HeardOnce(j) ==
  /\ inbox[j] = (IF request[j].terminal = "delivered" THEN 1 ELSE 0)
  /\ HasObserver(j) =>
       observed[j] = IF request[j].terminal \in Outcomes
                     THEN {request[j].terminal} ELSE {}

\* A request is answered at most once, the observer of a direct job hears one
\* outcome, the one that happened, and the counters of the pool tell the same
\* story, also when a cancellation arrives between the checks of a worker: per
\* outcome as many requests ended so as were counted or are about to be.
AnsweredOnce ==
  /\ \A j \in Jobs : HeardOnce(j)
  /\ \A o \in {"delivered", "discarded"} :
       Cardinality({j \in Admitted : request[j].terminal = o}) = count[o] + Uncounted(o)

\* The control block lives as long as the BEAM's resource or the job can
\* reach it, and is freed when neither can: no use after free, no leak.
JobReaches(j) ==
  \/ j \in Queued
  \/ \E w \in Workers : held[w] = j /\ pc[w] # "account"

ControlLifetime ==
  \A j \in Jobs : HasRequest(j) =>
    request[j].refs = (IF handle[j] THEN 1 ELSE 0) + (IF JobReaches(j) THEN 1 ELSE 0)

\* No lost wakeup although idle and paused workers share one condition:
\* when a queued job can run, some worker is not asleep; a worker asleep on
\* the pause is asleep because of it; after `stopping' nobody sleeps.
NoLostWakeup ==
  phase \in {"live", "joining"} =>
    /\ (queue # <<>> /\ ~paused) =>
         \E w \in Workers : pc[w] \notin {"waitQueue", "gone"}
    /\ ~paused \/ stopping => \A w \in Workers : pc[w] # "waitPause"
    /\ stopping => \A w \in Workers : pc[w] # "waitQueue"

\* The runtime is freed only after its last user: no thread, no submission
\* and no job is left when the lifecycle mutex is released after a stop or a
\* failed start.
NothingOutlivesPool ==
  phase = "absent" =>
    /\ submitting = NoJob /\ mutex = NoOne
    /\ \A w \in Workers : pc[w] \in {"off", "gone"}
    /\ queue = <<>> /\ Busy = {} /\ live = 0
    /\ \A j \in Admitted : HasRequest(j) => request[j].terminal \in Outcomes

Unanswerable(j) ==
  [](inbox[j] = 0 /\ ~\E w \in Workers : held[w] = j /\ pc[w] = "run")

\* A job cancelled while it still waits in the queue is never executed and
\* never answered, whoever cancelled it (the caller, its death, the
\* operation).
CancelledInQueueNeverRuns ==
  \A j \in Jobs : [](j \in Queued /\ (request[j].cancelled \/ opCancelled[j])
                          => Unanswerable(j))

Settled(j) == j \notin Queued /\ j \notin InHand

\* Unless the workers stay paused, every admitted job is dequeued, executed
\* or refused, and accounted for.
AdmittedIsSettled ==
  <>[](~paused) => \A j \in Jobs : (j \in Queued) ~> Settled(j)

\* A stop, or the rollback of a failed start, drains and joins: it ends even
\* if the workers were paused.
StopCompletes == (phase = "stopping") ~> (phase = "absent")

\* .spec/specs/native_pool.spec.md:116 "shutdown shall cancel queued work
\* before execution": a job still queued when the stop raises `stopping' is
\* never executed.
ShutdownSkipsQueuedWork ==
  \A j \in Jobs : [](stopping /\ j \in Queued => Unanswerable(j))

-----------------------------------------------------------------------------
(* The pool implements BoundedPool. *)

Contract == INSTANCE BoundedPool WITH
  waiting  <- queue,
  running  <- InHand,
  answered <- {j \in Jobs : inbox[j] > 0},
  admitted <- {j \in Jobs : admittedBy[j] > 0}

ContractSpec == Contract!Spec
=============================================================================
