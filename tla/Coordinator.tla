----------------------------- MODULE Coordinator -----------------------------
(***************************************************************************)
(* The operation coordinator: the GenServer of                             *)
(* lib/simd_json/native/operation_coordinator.ex with the callers that     *)
(* wait for it, the jobs it keeps in the native pool, the reservation of   *)
(* the one document it closes, selects from and streams, the cursor that   *)
(* keeps it, and prep_stop of the application.                             *)
(*                                                                         *)
(* A handler of the server is one action.  Its mailbox is a set: messages  *)
(* of different senders have no order, and no sender has two messages      *)
(* about one request whose order matters.  The pool is what WorkerPool     *)
(* shows it to be, a bounded queue whose jobs end once, and a job that was *)
(* cancelled ends without a message.  Which test is true when a native     *)
(* operation fails is a free choice; the answers are not told apart.       *)
(***************************************************************************)
EXTENDS Integers, FiniteSets, Sequences

CONSTANTS
  Opens, Decodes,    \* requests by kind: opens, decodes,
  Selects, Closes,   \* selects and closes of the document,
  Setups, Batches,   \* stream setups, batches (answered by the worker)
  Callers, CallerOf, \* processes, and the one that makes a request
  Mortals,           \* the callers that may die
  Broken,            \* the opens whose native function raises
  Workers, Capacity, \* of the pool
  Stoppable          \* the application may be stopped

Requests == Opens \cup Decodes \cup Selects \cup Closes \cup Setups \cup Batches
Streams  == Setups \cup Batches

ASSUME RequestsAssumption ==
  /\ IsFiniteSet(Requests)
  /\ CallerOf \in [Requests -> Callers]
  /\ Mortals \subseteq Callers /\ Broken \subseteq Opens
  /\ Opens \cap (Decodes \cup Selects \cup Closes \cup Streams) = {}
  /\ Decodes \cap (Selects \cup Closes \cup Streams) = {}
  /\ Selects \cap (Closes \cup Streams) = {} /\ Closes \cap Streams = {}
  /\ Setups \cap Batches = {}
  /\ Workers \in Nat \ {0} /\ Capacity \in Nat \ {0} /\ Stoppable \in BOOLEAN

VARIABLES
  up, accepting,      \* the server exists; its accepting?
  requests, orphaned, \* the keys of its table; those with orphaned?
  sweeping,           \* the keys whose entry is now the cleanup of an orphan
  inbox,              \* its mailbox
  generation,         \* module_generation
  alive,              \* per caller
  call,               \* per request: how far its caller is
  admittedAt, replies,\* the generation it was admitted in; its replies
  job, cancelled,     \* its job; the flag of its operation record
  queue,              \* of the pool
  lost,               \* jobs whose submitter is dead
  pool,               \* "open" or "stopping"
  lifecycle, cursor, reserved,  \* the document, and who holds its reservation
  stage               \* how far prep_stop is

serverVars == <<up, accepting, requests, orphaned, sweeping, inbox, generation>>
callVars   == <<alive, call, admittedAt, replies>>
poolVars   == <<job, queue, cancelled, lost, pool>>
docVars    == <<lifecycle, cursor, reserved>>
vars == <<serverVars, callVars, poolVars, docVars, stage>>

Submit(r)   == <<"submit", r>>    \* the GenServer.call
Result(r)   == <<"result", r>>    \* {SimdJson.Native, ref, {:ok, result}, measurements}
Raw(r)      == <<"raw", r>>       \* {SimdJson.Native, ref, {:ok, checksum}}
Complete(r) == <<"complete", r>>  \* {SimdJson.Native, ref, {:direct_complete, outcome}, _}
Down(r)     == <<"down", r>>      \* of the monitor of its caller

CallPoints == {"idle", "admitted", "waiting", "direct", "done", "exit"}
\* A job that is "closing" has begun to close the document.
JobPoints  == {"none", "queued", "running", "closing", "over"}
Stages == {"up", "asked", "draining", "advanced", "joining", "stopped",
           "terminated", "aborted"}

Init ==
  /\ up = TRUE /\ accepting = TRUE
  /\ requests = {} /\ orphaned = {} /\ sweeping = {} /\ inbox = {}
  /\ generation = 1
  /\ alive = [c \in Callers |-> TRUE]
  /\ call = [r \in Requests |-> "idle"]
  /\ admittedAt = [r \in Requests |-> 0] /\ replies = [r \in Requests |-> 0]
  /\ job = [r \in Requests |-> "none"]
  /\ cancelled = [r \in Requests |-> FALSE]
  /\ queue = <<>> /\ lost = {} /\ pool = "open"
  /\ lifecycle = "open" /\ cursor = "fresh" /\ reserved = {}
  /\ stage = "up"

Running(r) == job[r] \in {"running", "closing"}
Pending(r) == job[r] = "queued" \/ Running(r)
Live(r)    == alive[CallerOf[r]]

-----------------------------------------------------------------------------
(* Callers. *)

\* ThreadedOperation.admit: a process makes one call at a time.
Admit(r) ==
  /\ Live(r) /\ call[r] = "idle"
  /\ \A q \in Requests : CallerOf[q] = CallerOf[r] => call[q] \in {"idle", "done", "exit"}
  /\ call' = [call EXCEPT ![r] = "admitted"]
  /\ admittedAt' = [admittedAt EXCEPT ![r] = generation]
  /\ UNCHANGED <<serverVars, alive, replies, poolVars, docVars, stage>>

\* GenServer.call, which exits when there is no server.
Call(r) ==
  /\ Live(r) /\ call[r] = "admitted"
  /\ call' = [call EXCEPT ![r] = IF up THEN "waiting" ELSE "exit"]
  /\ inbox' = IF up THEN inbox \cup {Submit(r)} ELSE inbox
  /\ UNCHANGED <<up, accepting, requests, orphaned, sweeping, generation, alive,
                 admittedAt, replies, poolVars, docVars, stage>>

\* The requests with a monitor of their caller.
Monitored == requests \ (orphaned \cup sweeping)

Die(c) ==
  /\ c \in Mortals /\ alive[c]
  /\ alive' = [alive EXCEPT ![c] = FALSE]
  /\ inbox' = inbox \cup {Down(r) : r \in {q \in Monitored : CallerOf[q] = c}}
  /\ UNCHANGED <<up, accepting, requests, orphaned, sweeping, generation, call,
                 admittedAt, replies, poolVars, docVars, stage>>

-----------------------------------------------------------------------------
(* What the handlers are made of. *)

Take(m) == up /\ m \in inbox

Reply(r) ==
  /\ call' = [call EXCEPT ![r] = "done"]
  /\ replies' = [replies EXCEPT ![r] = @ + 1]

NoReply == UNCHANGED <<call, replies>>

\* projection_operation_release, rollbackStream, releaseCommittedStream: what
\* was committed stays consumed.
Release(r) ==
  /\ reserved' = reserved \ {r}
  /\ cursor' = IF r \in reserved /\ cursor # "consumed" THEN "fresh" ELSE cursor

\* remove_request; its demonitor flushes a DOWN.
Remove(r, m) ==
  /\ requests' = requests \ {r}
  /\ orphaned' = orphaned \ {r} /\ sweeping' = sweeping \ {r}
  /\ inbox' = inbox \ {m, Down(r)}

PoolTakes == pool = "open" /\ Len(queue) < Capacity

\* A submission monitors its recipient, and fails if that one is dead.
Submittable(r) == PoolTakes /\ (r \in Batches => Live(r))

Enqueue(r) ==
  /\ job' = [job EXCEPT ![r] = "queued"]
  /\ queue' = Append(queue, r)

\* The monitor of a caller that is already dead fires at once.
MonitorOf(r) == IF Live(r) THEN {} ELSE {Down(r)}

\* start_request.  A select holds its reservation by now: a refused submission
\* releases it in the same handler.  A batch is told to wait for its worker.
StartRequest(r) ==
  \/ /\ Submittable(r)
     /\ requests' = requests \cup {r}
     /\ Enqueue(r)
     /\ inbox' = (inbox \ {Submit(r)}) \cup MonitorOf(r)
     /\ IF r \in Selects
        THEN reserved' = reserved \cup {r} /\ cursor' = "selecting"
        ELSE UNCHANGED <<reserved, cursor>>
     /\ IF r \in Batches
        THEN call' = [call EXCEPT ![r] = "direct"] /\ replies' = [replies EXCEPT ![r] = @ + 1]
        ELSE NoReply
  \/ /\ ~Submittable(r)
     /\ inbox' = inbox \ {Submit(r)}
     /\ Reply(r)
     /\ UNCHANGED <<requests, job, queue, reserved, cursor>>

RefuseSilently(r) ==   \* mutant: a branch of the handler forgets to reply
  /\ inbox' = inbox \ {Submit(r)}
  /\ NoReply
  /\ UNCHANGED <<requests, job, queue, reserved, cursor>>

Refuse(r) ==
  /\ inbox' = inbox \ {Submit(r)}
  /\ Reply(r)
  /\ UNCHANGED <<requests, job, queue, reserved, cursor>>

UnchangedByCalls ==
  UNCHANGED <<up, accepting, orphaned, sweeping, generation, alive, admittedAt,
              lost, pool, stage>>

-----------------------------------------------------------------------------
(* The calls.                                                              *)

Admissible(r) == accepting /\ admittedAt[r] = generation

\* {:submit, :document_open | :decode, ...}
HandleSubmit(r) ==
  /\ r \in Opens \cup Decodes /\ Take(Submit(r))
  /\ IF Admissible(r) THEN StartRequest(r) ELSE Refuse(r)
  /\ UnchangedByCalls /\ UNCHANGED <<cancelled, lifecycle>>

\* {:submit, :document_cleanup, ...}: the document is closing, and its selects
\* are cancelled, before the pool is asked.
HandleCleanup(r) ==
  /\ r \in Closes /\ Take(Submit(r))
  /\ IF Admissible(r)
     THEN /\ lifecycle' = IF lifecycle = "open" THEN "closing" ELSE lifecycle
          /\ cancelled' = [q \in Requests |-> cancelled[q] \/ q \in Selects \cap requests]
          /\ StartRequest(r)
     ELSE Refuse(r) /\ UNCHANGED <<lifecycle, cancelled>>
  /\ UnchangedByCalls

\* reserveProjection, by admit_projection in the server, and reserveStream.
Reservable == lifecycle = "open" /\ cursor = "fresh"

\* {:project, ...}: the generation is the current one.
HandleProject(r) ==
  /\ r \in Selects /\ Take(Submit(r))
  /\ IF accepting /\ Reservable THEN StartRequest(r) ELSE Refuse(r)
  /\ UnchangedByCalls /\ UNCHANGED <<cancelled, lifecycle>>

\* {:stream_public, ...}: nothing is tested.
HandleStream(r) ==
  /\ r \in Streams /\ Take(Submit(r))
  /\ StartRequest(r)
  /\ UnchangedByCalls /\ UNCHANGED <<cancelled, lifecycle>>

-----------------------------------------------------------------------------
(* Completions, monitors and a crash.                                      *)

UnchangedByCompletion ==
  UNCHANGED <<up, accepting, generation, alive, admittedAt, poolVars, lifecycle, stage>>

\* A result nobody waits for.
HandleStale(r) ==
  /\ Take(Result(r)) /\ r \notin requests
  /\ inbox' = inbox \ {Result(r)}
  /\ UNCHANGED <<requests, orphaned, sweeping, call, replies, reserved, cursor>>
  /\ UnchangedByCompletion

\* complete_request; the entry of an orphan, and of its cleanup, has no from.
HandleResult(r) ==
  /\ Take(Result(r)) /\ r \in requests
  /\ Remove(r, Result(r))
  /\ IF r \in orphaned \cup sweeping THEN NoReply ELSE Reply(r)
  /\ IF r \in Selects THEN Release(r) ELSE UNCHANGED <<reserved, cursor>>
  /\ UnchangedByCompletion

\* maybe_cleanup_orphan: the document of an orphaned open gets a cleanup of
\* its own, whose operation nobody has cancelled.
Sweep(r) ==
  /\ Take(Result(r)) /\ r \in Opens \cap orphaned
  /\ PoolTakes
  /\ orphaned' = orphaned \ {r} /\ sweeping' = sweeping \cup {r}
  /\ inbox' = inbox \ {Result(r)}
  /\ Enqueue(r)
  /\ cancelled' = [cancelled EXCEPT ![r] = FALSE]
  /\ UNCHANGED <<up, accepting, requests, generation, callVars, lost, pool, docVars, stage>>

HandleDirect(r) ==
  /\ Take(Complete(r)) /\ r \in requests
  /\ Remove(r, Complete(r))
  /\ NoReply
  /\ UNCHANGED <<reserved, cursor>> /\ UnchangedByCompletion

\* The death of a caller, but of one that closes, cancels its operation.  Only
\* a decode is forgotten at once.
HandleDown(r) ==
  /\ Take(Down(r))
  /\ cancelled' = [cancelled EXCEPT ![r] = @ \/ r \notin Closes]
  /\ IF r \in Decodes
     THEN Remove(r, Down(r))
     ELSE /\ orphaned' = orphaned \cup {r}
          /\ inbox' = inbox \ {Down(r)}
          /\ UNCHANGED <<requests, sweeping>>
  /\ UNCHANGED <<up, accepting, generation, callVars, job, queue, lost, pool, docVars, stage>>

LostAtRestart == lost \cup {r \in Requests : Pending(r)}

\* A handler raises and the supervisor starts a new server, which finds the
\* pool running (native_pool_start says already_started) and resumes in a new
\* generation.  While the pool stops, native_pool_start waits.  The death of
\* the recipient cancels its jobs, and the calls exit, the one of prep_stop
\* if it is in it.
Crash ==
  /\ up' = (pool = "open") /\ accepting' = TRUE
  /\ requests' = {} /\ orphaned' = {} /\ sweeping' = {} /\ inbox' = {}
  /\ generation' = generation + 1
  /\ call' = [r \in Requests |-> IF call[r] = "waiting" THEN "exit" ELSE call[r]]
  /\ lost' = LostAtRestart
  /\ \/ stage' = "aborted" /\ stage \in {"asked", "draining"}
     \/ stage' = stage /\ stage # "asked"
  /\ UNCHANGED <<alive, admittedAt, replies, job, queue, cancelled, pool, docVars>>

\* The cleanup of an orphan is refused: start_request replies to nil.
SweepRaises(r) == Take(Result(r)) /\ r \in Opens \cap orphaned /\ ~PoolTakes /\ Crash

\* No clause of handle_info takes the message of an open that raised.
RawRaises(r) == Take(Raw(r)) /\ Crash

\* The owner of the document has the cursor that a setup answered with.
Kept(r) == r \in reserved \cap Setups /\ call[r] = "done" /\ Live(r)

\* The destructor of an operation, or of a cursor, nobody refers to releases its
\* reservation.
UnreferencedByServer(r) == r \notin requests   \* mutant: the job does not retain it
Unreferenced(r) ==
  r \notin requests /\ ~Pending(r) /\ Result(r) \notin inbox /\ ~Kept(r)

Collect(r) ==
  /\ r \in reserved /\ Unreferenced(r)
  /\ Release(r)
  /\ UNCHANGED <<serverVars, callVars, poolVars, lifecycle, stage>>

\* The owner closes its cursor, or drops it, when it likes.
GiveBack(r) ==
  /\ Kept(r) /\ Release(r)
  /\ UNCHANGED <<serverVars, callVars, poolVars, lifecycle, stage>>

-----------------------------------------------------------------------------
(* Jobs. *)

Begin(r) ==
  /\ queue # <<>> /\ Head(queue) = r /\ queue' = Tail(queue)
  /\ Cardinality({q \in Requests : Running(q)}) < Workers
  /\ job' = [job EXCEPT ![r] = "running"]
  /\ UNCHANGED <<serverVars, callVars, cancelled, lost, pool, docVars, stage>>

\* The worker of a select takes the cursor.
Commit(r) ==
  /\ r \in Selects /\ job[r] = "running" /\ ~cancelled[r]
  /\ lifecycle = "open" /\ cursor = "selecting"
  /\ cursor' = "consumed"
  /\ UNCHANGED <<serverVars, callVars, poolVars, lifecycle, reserved, stage>>

\* The worker of a setup reserves the document, unless it streams something
\* else, and takes the cursor.
ReserveStream(r) ==
  /\ r \in Setups \ reserved /\ job[r] = "running" /\ Reservable
  /\ reserved' = reserved \cup {r} /\ cursor' = "streaming"
  /\ UNCHANGED <<serverVars, callVars, poolVars, lifecycle, stage>>

CommitStream(r) ==
  /\ r \in Setups \cap reserved /\ job[r] = "running"
  /\ lifecycle = "open" /\ cursor = "streaming"
  /\ cursor' = "consumed"
  /\ UNCHANGED <<serverVars, callVars, poolVars, lifecycle, reserved, stage>>

\* completeThreadedDocumentCleanup begins to wait.
BeginClose(r) ==
  /\ r \in Closes /\ job[r] = "running" /\ ~cancelled[r] /\ r \notin lost
  /\ job' = [job EXCEPT ![r] = "closing"]
  /\ UNCHANGED <<serverVars, callVars, queue, cancelled, lost, pool, docVars, stage>>

\* What a worker sees after the execution.  The recipient of a batch is its
\* consumer, whom a restart of the server does not touch.
Dropped(r) == cancelled[r] \/ r \in lost \ Batches \/ pool = "stopping"

Destroyable == reserved = {}

\* The execution ends.  A close spins until the document has no admission, of a
\* select or of a cursor; a setup that made no cursor gives its own back.
Execute(r, kept) ==
  /\ IF r \in Closes THEN job[r] = "closing" /\ Destroyable /\ lifecycle' = "closed"
                      ELSE UNCHANGED lifecycle
  /\ IF r \in Setups /\ ~kept THEN Release(r) ELSE UNCHANGED <<reserved, cursor>>

PostedTo(r) == up /\ r \notin lost

ReportsNothing(r) == FALSE   \* mutant: only an executed batch is reported
ReportsCancelled(r) == r \in Batches /\ PostedTo(r)

\* A cancelled job, executed or not, tells only the observer of a batch; a
\* cursor goes with the result.
FinishSilently(r) ==
  /\ Running(r) /\ Dropped(r)
  /\ \/ Execute(r, FALSE)
     \/ /\ r \in Closes /\ job[r] = "running" /\ (cancelled[r] \/ r \in lost)
        /\ UNCHANGED docVars
  /\ job' = [job EXCEPT ![r] = "over"]
  /\ inbox' = IF ReportsCancelled(r) THEN inbox \cup {Complete(r)} ELSE inbox
  /\ UNCHANGED <<up, accepting, requests, orphaned, sweeping, generation, callVars,
                 queue, cancelled, lost, pool, stage>>

Message(r) ==
  IF r \in Batches THEN Complete(r)
  ELSE IF r \in Broken \ sweeping THEN Raw(r) ELSE Result(r)

\* The result goes to the server, or to the consumer, who gets it if it is
\* alive, and the notification to the server.
Finish(r) ==
  /\ Running(r) /\ ~Dropped(r)
  /\ \E kept \in BOOLEAN :
       (kept => r \in reserved /\ cursor = "consumed") /\ Execute(r, kept)
  /\ job' = [job EXCEPT ![r] = "over"]
  /\ inbox' = IF PostedTo(r) THEN inbox \cup {Message(r)} ELSE inbox
  /\ call' = IF r \in Batches /\ Live(r) THEN [call EXCEPT ![r] = "done"] ELSE call
  /\ UNCHANGED <<up, accepting, requests, orphaned, sweeping, generation, alive,
                 admittedAt, replies, queue, cancelled, lost, pool, stage>>

-----------------------------------------------------------------------------
(* SimdJson.Application.prep_stop and the end of the supervisor.           *)

AskShutdown ==
  /\ Stoppable /\ stage = "up" /\ up /\ stage' = "asked"
  /\ UNCHANGED <<serverVars, callVars, poolVars, docVars>>

StoppedEverything == Requests   \* mutant
StoppedByShutdown == Opens \cup Selects \cup Decodes

\* begin_shutdown.
HandleShutdown ==
  /\ stage = "asked" /\ up /\ stage' = "draining"
  /\ accepting' = FALSE
  /\ cancelled' = [r \in Requests |-> cancelled[r] \/
                     r \in StoppedByShutdown \cap (requests \ sweeping)]
  /\ UNCHANGED <<up, requests, orphaned, sweeping, inbox, generation, callVars,
                 job, queue, lost, pool, docVars>>

DrainedOfLive == Monitored = {}   \* mutant: orphans are not counted
DrainedOfRequests == requests = {}

\* await_operation_drain sees an empty table; execution_begin_shutdown.
Advance ==
  /\ stage = "draining" /\ up /\ DrainedOfRequests /\ stage' = "advanced"
  /\ generation' = generation + 1
  /\ UNCHANGED <<up, accepting, requests, orphaned, sweeping, inbox, callVars,
                 poolVars, docVars>>

\* native_pool_stop, which returns when the workers have joined.
StopPool ==
  /\ stage = "advanced" /\ stage' = "joining"
  /\ pool' = "stopping"
  /\ UNCHANGED <<serverVars, callVars, job, queue, cancelled, lost, docVars>>

Joined ==
  /\ stage = "joining" /\ \A r \in Requests : ~Pending(r)
  /\ stage' = "stopped"
  /\ UNCHANGED <<serverVars, callVars, poolVars, docVars>>

\* The supervisor ends the server; who waits for it exits.
Terminate ==
  /\ stage \in {"stopped", "aborted"} /\ stage' = "terminated"
  /\ up' = FALSE
  /\ requests' = {} /\ orphaned' = {} /\ sweeping' = {} /\ inbox' = {}
  /\ call' = [r \in Requests |-> IF call[r] = "waiting" THEN "exit" ELSE call[r]]
  /\ lost' = LostAtRestart
  /\ UNCHANGED <<accepting, generation, alive, admittedAt, replies, job, queue,
                 cancelled, pool, docVars>>

-----------------------------------------------------------------------------
Serving(r) ==
  \/ HandleSubmit(r) \/ HandleCleanup(r) \/ HandleProject(r) \/ HandleStream(r)
  \/ HandleStale(r) \/ HandleResult(r) \/ Sweep(r) \/ HandleDirect(r)
  \/ HandleDown(r) \/ SweepRaises(r) \/ RawRaises(r)

Working(r) == Begin(r) \/ BeginClose(r) \/ Finish(r) \/ FinishSilently(r)

\* What a job does to the document before it ends.
Using(r) == Commit(r) \/ ReserveStream(r) \/ CommitStream(r)

Stopping == HandleShutdown \/ Advance \/ StopPool \/ Joined \/ Terminate

Next ==
  \/ \E r \in Requests :
       \/ Admit(r) \/ Call(r) \/ Serving(r) \/ Working(r)
       \/ Using(r) \/ Collect(r) \/ GiveBack(r)
  \/ \E c \in Callers : Die(c)
  \/ AskShutdown \/ Stopping

(***************************************************************************)
(* The server goes on while it has messages, the workers while they have   *)
(* jobs, and prep_stop while it may; an admitted call is made and the      *)
(* emulator runs destructors.  Nobody owes a call, a death or a stop, and  *)
(* the owner of a cursor never has to give it back.                        *)
(***************************************************************************)
Fairness ==
  /\ WF_vars(\E r \in Requests : Call(r))
  /\ WF_vars(\E r \in Requests : Serving(r))
  /\ WF_vars(\E r \in Requests : Working(r))
  /\ WF_vars(\E r \in Requests : Collect(r))
  /\ WF_vars(Stopping)

Spec == Init /\ [][Next]_vars /\ Fairness

-----------------------------------------------------------------------------
(* Properties. *)

TypeOK ==
  /\ up \in BOOLEAN /\ accepting \in BOOLEAN
  /\ requests \subseteq Requests /\ orphaned \subseteq requests
  /\ sweeping \subseteq requests \cap Opens /\ orphaned \cap sweeping = {}
  /\ inbox \subseteq {"submit", "result", "raw", "complete", "down"} \X Requests
  /\ generation \in Nat \ {0}
  /\ alive \in [Callers -> BOOLEAN] /\ call \in [Requests -> CallPoints]
  /\ admittedAt \in [Requests -> Nat] /\ replies \in [Requests -> Nat]
  /\ job \in [Requests -> JobPoints] /\ cancelled \in [Requests -> BOOLEAN]
  /\ queue \in Seq(Requests) /\ Len(queue) <= Capacity
  /\ lost \subseteq Requests /\ pool \in {"open", "stopping"}
  /\ lifecycle \in {"open", "closing", "closed"}
  /\ cursor \in {"fresh", "selecting", "streaming", "consumed"}
  /\ reserved \subseteq Selects \cup Setups
  /\ stage \in Stages

\* A caller that waits is in the table with its address, or its call is still
\* in the mailbox: across completions, orphans, refusals and restarts nobody is
\* left in a call that no handler will ever answer.  And of the ways to answer
\* (a result, a refusal, the address of the worker) one is taken.
NobodyForgotten ==
  \A r \in Requests :
    /\ call[r] = "waiting" /\ Live(r) =>
         up /\ (Submit(r) \in inbox \/ r \in Monitored)
    /\ replies[r] <= 1

\* The reservation of a select lasts as long as its job: no handler, and no
\* destructor after a restart, takes the admission from under a worker.  The
\* document has one, of a select or of a stream, its state says so, and it is
\* closed without any.
JobHoldsReservation ==
  /\ \A r \in Selects : Pending(r) => r \in reserved
  /\ \A r, q \in reserved : r = q
  /\ cursor = "fresh" => reserved = {}
  /\ cursor \in {"selecting", "streaming"} => reserved # {}
  /\ lifecycle = "closed" => reserved = {}

\* A stop cuts nothing short: when the pool is asked to stop, every job left in
\* it was cancelled, however the table and the queue moved since shutdown began.
\* Streams are excepted, for they may slip in after the last poll, and so is a
\* server that was restarted meanwhile, which accepts again.
StopsDrained ==
  [][pool = "open" /\ pool' = "stopping" /\ ~accepting =>
       \A r \in Requests \ Streams : Pending(r) => cancelled[r] \/ r \in lost]_vars

\* A worker spins in a close because the owner keeps a cursor.
Spinning == \E r \in Closes, q \in Setups : job[r] = "closing" /\ Kept(q)

\* Every call is answered, or exits, unless a close spins for ever behind a cursor
\* that is kept: then neither the close ends nor what waits for its worker.
CallsEnd ==
  \/ <>[]Spinning
  \/ \A r \in Requests :
       call[r] \in {"waiting", "direct"} /\ Live(r) ~>
         call[r] \in {"done", "exit"} \/ ~Live(r)

\* The table forgets the requests of the dead, with the same exception.
OrphansEnd ==
  \/ <>[]Spinning
  \/ \A r \in Requests : r \in requests /\ ~Live(r) ~> r \notin requests

\* An operation was cancelled, and its job ended without a word to the server.
Stranded(r) ==
  /\ r \in requests \ Closes /\ job[r] = "over"
  /\ {Result(r), Raw(r), Complete(r)} \cap inbox = {}

\* A stop of the application ends, through the table, the queue and the workers,
\* unless it waits for a stranded operation, or for a close that spins for ever
\* behind a cursor that is kept.
ShutdownEnds ==
  \/ <>[]Spinning
  \/ stage = "asked" ~> stage = "terminated" \/ \E r \in Requests : Stranded(r)

\* .spec/specs/native_execution.spec.md:309 "New work is rejected once shutdown
\* starts".
RejectedOnceShuttingDown ==
  [][~accepting => requests' \subseteq requests]_vars

\* The server outlives what it is asked: no handler raises.
HandlersReturn == [][generation' # generation => stage' # stage]_vars
=============================================================================
