-------------------------- MODULE CleanupDispatcher --------------------------
(***************************************************************************)
(* The dispatcher of native/zig/build_smoke.zig that frees documents whose *)
(* term was collected: Runtime with its two intrusive lists, the thread    *)
(* cleanupWorkerMain, the destructors that hand documents to it, and the   *)
(* unload of the library.  A critical section of the mutex is one action.  *)
(***************************************************************************)
EXTENDS Integers, FiniteSets, Functions

CONSTANTS
  Docs,       \* the control blocks of documents
  NoDoc,      \* the null pointer
  Straying    \* whether the library may free the runtime under a destructor

ASSUME DocsAssumption ==
  /\ IsFiniteSet(Docs)
  /\ NoDoc \notin Docs
  /\ Straying \in BOOLEAN

VARIABLES
  doc,                \* where a document is
  next,               \* DocumentControl.cleanup_next
  queue, failed,      \* head and tail of Runtime's two lists
  rejecting,          \* Runtime.reject_cleanup_submission
  shutdownRequested,  \* Runtime.shutdown_requested
  workerRunning,      \* Runtime.worker_running
  thread, current,    \* control point of cleanupWorkerMain, and its document
  unload,             \* how far resource_on_unload is
  queuedGauge, activeGauge, retainedGauge   \* ExecutionAccounting

listVars   == <<next, queue, failed>>
threadVars == <<workerRunning, thread, current>>
gaugeVars  == <<queuedGauge, activeGauge, retainedGauge>>
dispatcherVars == <<doc, listVars, rejecting, shutdownRequested, threadVars, unload, gaugeVars>>

Places == {"held", "linking", "queued", "active", "retained", "stranded", "freed"}
Empty  == [head |-> NoDoc, tail |-> NoDoc]

MoveDoc(d, place) == doc' = [doc EXCEPT ![d] = place]

DispatcherInit ==
  /\ doc = [d \in Docs |-> "held"]
  /\ next = [d \in Docs |-> NoDoc]
  /\ queue = Empty /\ failed = Empty
  /\ rejecting = FALSE
  /\ shutdownRequested = FALSE
  /\ workerRunning = TRUE /\ thread = "testing" /\ current = NoDoc
  /\ unload = "no"
  /\ queuedGauge = 0 /\ activeGauge = 0 /\ retainedGauge = 0

-----------------------------------------------------------------------------
(* The destructors, on any scheduler and in pool workers.                  *)

Published == unload = "no"    \* runtime_ref

\* The destructor of a document loads runtime_ref; without a dispatcher the
\* document is only counted.
Detach(d) ==
  /\ doc[d] = "held"
  /\ IF Published
       THEN MoveDoc(d, "linking") /\ UNCHANGED retainedGauge
       ELSE MoveDoc(d, "stranded") /\ retainedGauge' = retainedGauge + 1
  /\ UNCHANGED <<listVars, rejecting, shutdownRequested, threadVars, unload,
                 queuedGauge, activeGauge>>

\* Runtime.append
Appended(list, d) == [head |-> IF list.tail = NoDoc THEN d ELSE list.head, tail |-> d]

Linked(list, d) ==
  [x \in Docs |-> IF x = d THEN NoDoc ELSE IF x = list.tail THEN d ELSE next[x]]

WokenNever == thread   \* mutant: nothing is signalled

\* Who sleeps on the condition goes on.
Woken == IF thread = "asleep" THEN "testing" ELSE thread

\* Runtime.enqueue with what it has loaded; a freed runtime is not modelled further.
Accepts == workerRunning /\ ~rejecting

Enqueue(d) ==
  /\ doc[d] = "linking"
  /\ unload # "gone"
  /\ IF Accepts
       THEN /\ MoveDoc(d, "queued")
            /\ queue' = Appended(queue, d)
            /\ next' = Linked(queue, d)
            /\ queuedGauge' = queuedGauge + 1
            /\ thread' = Woken
            /\ UNCHANGED <<failed, retainedGauge>>
       ELSE /\ MoveDoc(d, "retained")
            /\ failed' = Appended(failed, d)
            /\ next' = Linked(failed, d)
            /\ retainedGauge' = retainedGauge + 1
            /\ UNCHANGED <<queue, queuedGauge, thread>>
  /\ UNCHANGED <<rejecting, shutdownRequested, workerRunning, current, unload, activeGauge>>

-----------------------------------------------------------------------------
(* Runtime.setCleanupRejection.                                            *)

\* The list of failed documents goes behind the queue.
Spliced == [head |-> IF queue.tail = NoDoc THEN failed.head ELSE queue.head,
            tail |-> failed.tail]

SetCleanupRejection(reject) ==
  /\ rejecting' = reject
  /\ IF reject \/ failed.head = NoDoc \/ ~workerRunning
       THEN UNCHANGED <<doc, listVars, thread, queuedGauge, retainedGauge>>
       ELSE /\ doc' = [d \in Docs |-> IF doc[d] = "retained" THEN "queued" ELSE doc[d]]
            /\ next' = [d \in Docs |-> IF d = queue.tail THEN failed.head ELSE next[d]]
            /\ queue' = Spliced
            /\ failed' = Empty
            /\ queuedGauge' = queuedGauge + retainedGauge
            /\ retainedGauge' = 0
            /\ thread' = Woken
  /\ UNCHANGED <<shutdownRequested, workerRunning, current, activeGauge>>

\* execution_set_cleanup_rejection, a NIF: no unload while it runs.  A call that
\* changes nothing is left out.
Configure(reject) ==
  /\ Published
  /\ rejecting # reject
  /\ SetCleanupRejection(reject)
  /\ UNCHANGED unload

-----------------------------------------------------------------------------
(* cleanupWorkerMain                                                       *)

Idle == queue.head = NoDoc /\ ~shutdownRequested

Sleep ==
  /\ thread = "testing"
  /\ Idle
  /\ thread' = "asleep"
  /\ UNCHANGED <<doc, listVars, rejecting, shutdownRequested, workerRunning, current,
                 unload, gaugeVars>>

PoppedLeavingTail == [head |-> next[queue.head], tail |-> queue.tail]   \* mutant

\* Runtime.pop
Popped ==
  LET rest == next[queue.head] IN
  [head |-> rest, tail |-> IF rest = NoDoc THEN NoDoc ELSE queue.tail]

Pop ==
  /\ thread = "testing"
  /\ queue.head # NoDoc
  /\ current' = queue.head
  /\ MoveDoc(queue.head, "active")
  /\ queue' = Popped
  /\ next' = [next EXCEPT ![queue.head] = NoDoc]
  /\ thread' = "cleaning"
  /\ queuedGauge' = queuedGauge - 1
  /\ activeGauge' = activeGauge + 1
  /\ UNCHANGED <<failed, rejecting, shutdownRequested, workerRunning, unload, retainedGauge>>

\* cleanupDetachedDocument, outside the mutex, waits for the operations of the
\* document and frees it with its control block.
Clean ==
  /\ thread = "cleaning"
  /\ MoveDoc(current, "freed")
  /\ thread' = "counting"
  /\ UNCHANGED <<listVars, rejecting, shutdownRequested, workerRunning, current, unload,
                 gaugeVars>>

CountCleaned ==
  /\ thread = "counting"
  /\ thread' = "testing"
  /\ current' = NoDoc
  /\ activeGauge' = activeGauge - 1
  /\ UNCHANGED <<doc, listVars, rejecting, shutdownRequested, workerRunning, unload,
                 queuedGauge, retainedGauge>>

\* The thread ends only when it was asked to and the queue is empty.
Exit ==
  /\ thread = "testing"
  /\ queue.head = NoDoc
  /\ shutdownRequested
  /\ workerRunning' = FALSE
  /\ thread' = "exited"
  /\ UNCHANGED <<doc, listVars, rejecting, shutdownRequested, current, unload, gaugeVars>>

-----------------------------------------------------------------------------
(* resource_on_unload                                                      *)

UnloadTo(step) == unload' = step

Unpublish ==
  /\ unload = "no"
  /\ UnloadTo("unpublished")
  /\ UNCHANGED <<doc, listVars, rejecting, shutdownRequested, threadVars, gaugeVars>>

\* native_pool_stop joins the workers of the pool.
StopPool ==
  /\ unload = "unpublished"
  /\ UnloadTo("stopped")
  /\ UNCHANGED <<doc, listVars, rejecting, shutdownRequested, threadVars, gaugeVars>>

\* requestShutdownAndJoin
LiftRejection ==
  /\ unload = "stopped"
  /\ UnloadTo("lifted")
  /\ SetCleanupRejection(FALSE)

RequestShutdown ==
  /\ unload = "lifted"
  /\ UnloadTo("asked")
  /\ shutdownRequested' = TRUE
  /\ thread' = Woken
  /\ UNCHANGED <<doc, listVars, rejecting, workerRunning, current, gaugeVars>>

JoinAndFree ==
  /\ unload = "asked"
  /\ thread = "exited"
  /\ Straying \/ \A d \in Docs : doc[d] # "linking"
  /\ UnloadTo("gone")
  /\ UNCHANGED <<doc, listVars, rejecting, shutdownRequested, threadVars, gaugeVars>>

-----------------------------------------------------------------------------
EnqueueAny == \E d \in Docs : Enqueue(d)
ThreadStep == Sleep \/ Pop \/ Clean \/ CountCleaned \/ Exit
UnloadStep == StopPool \/ LiftRejection \/ RequestShutdown \/ JoinAndFree

DispatcherNext ==
  \/ \E d \in Docs : Detach(d)
  \/ EnqueueAny
  \/ \E reject \in BOOLEAN : Configure(reject)
  \/ ThreadStep
  \/ Unpublish
  \/ UnloadStep

DispatcherSpec ==
  /\ DispatcherInit /\ [][DispatcherNext]_dispatcherVars
  /\ WF_dispatcherVars(ThreadStep) /\ WF_dispatcherVars(UnloadStep)

-----------------------------------------------------------------------------
At(place) == {d \in Docs : doc[d] = place}

\* From head to tail the links of a list visit exactly the documents in S.
Chains(link, list, S) ==
  IF S = {} THEN list = Empty
  ELSE \E order \in Bijection(1..Cardinality(S), S) :
         /\ list = [head |-> order[1], tail |-> order[Cardinality(S)]]
         /\ link[list.tail] = NoDoc
         /\ \A i \in 1..(Cardinality(S) - 1) : link[order[i]] = order[i + 1]

\* Every document handed over is in the list its place says and in no other,
\* whatever was appended, taken or moved from one list to the other since.
ListsHoldDetached ==
  /\ Chains(next, queue, At("queued"))
  /\ Chains(next, failed, At("retained"))
  /\ At("active") # {} => At("active") = {current}
  /\ unload = "no" => queuedGauge = Cardinality(At("queued"))
                      /\ retainedGauge = Cardinality(At("retained"))

\* What the dispatcher accepted is freed, also when the library is unloaded
\* meanwhile; what it refused is freed if refusals end before its thread.
HandedOverIsFreed ==
  \A d \in Docs :
    /\ doc[d] = "queued" ~> doc[d] = "freed"
    /\ (doc[d] = "retained" /\ workerRunning) ~> (doc[d] = "freed" \/ []rejecting)

\* A destructor that loaded the runtime finds it (needs ~Straying).
RuntimeOutlivesUse == unload = "gone" => At("linking") = {}

\* A document is freed after its destructor ran (needs that no unload began).
DetachedIsFreed == \A d \in Docs : doc[d] = "stranded" ~> doc[d] = "freed"
=============================================================================
