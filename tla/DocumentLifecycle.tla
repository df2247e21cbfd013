-------------------------- MODULE DocumentLifecycle --------------------------
(***************************************************************************)
(* One native document: DocumentState of native/zig/document_resource.zig  *)
(* and the DocumentControl of native/zig/build_smoke.zig that owns it,     *)
(* from the job that opens it to the dispatcher that frees it.             *)
(*                                                                         *)
(* The state is a handful of atomics without a lock, so every load or      *)
(* read-modify-write whose place in the order matters is an action.  The   *)
(* module assumes sequentially consistent atomics; the code asks for       *)
(* acquire-release.  Loads are joined to the step before or after them     *)
(* only where lifecycle and generation, which never go back once the       *)
(* document is published, make the order invisible.                        *)
(***************************************************************************)
EXTENDS Integers, FiniteSets

CONSTANTS
  Selects,   \* projections of the document: reserve early, commit in a worker
  Streams,   \* stream setups; a cursor, once made, keeps its reservation
  Probes,    \* plain admissions (threaded_document_probe)
  Closes,    \* cleanup operations, explicit or of an orphaned result
  Cancels    \* the selects that may be cancelled while admitted

Cursors == Selects \cup Streams   \* operations on the one-shot cursor
Holders == Cursors \cup Probes    \* operations that take an admission
Ops     == Holders \cup Closes

ASSUME OpsAssumption ==
  /\ IsFiniteSet(Ops)
  /\ Selects \cap Streams = {} /\ Cursors \cap Probes = {} /\ Holders \cap Closes = {}
  /\ Cancels \subseteq Selects
  /\ {"opener", "term"} \cap Ops = {}

VARIABLES
  opener,          \* control point of the opening job
  lifecycle, generation, admitted, projection, cleanupStarted,
  owned,           \* native objects not yet freed, a subset of Fields
  accounted, live, \* DocumentControl.accounted; the gauge live_documents
  control,         \* the DocumentControl: "none", "allocated", "freed"
  refs,            \* who references the DocumentResource
  dispatched,      \* its destructor ran, the dispatcher owns the control
  pc, seen         \* per operation: control point; generation it captured

stateVars == <<lifecycle, generation, admitted, projection, cleanupStarted, owned>>
ownerVars == <<accounted, live, control, refs, dispatched>>
vars == <<opener, stateVars, ownerVars, pc, seen>>

Fields      == {"input", "parser", "document"}
Lifecycles  == {"open", "closing", "closed"}
Projections == {"fresh", "selecting", "streaming", "consumed"}

OpenerPoints ==
  {"queued", "input", "parser", "document", "publish", "deliver", "over"}

Points ==
  {"idle", "admit", "recheck", "claim", "confirm", "reserved", "verify",
   "commit", "swap", "fetch", "using", "cursor", "batch", "drop", "stranded",
   "undo", "rollback", "spoilt", "leave",
   "prepare", "bump", "submitted", "begin", "rebump", "cleaning", "seize",
   "free", "account", "release", "over"}

\* The points at which an operation is counted in admitted_operations.
AdmittedPoints ==
  {"recheck", "claim", "confirm", "reserved", "verify", "commit", "swap", "fetch",
   "using", "cursor", "batch", "drop", "stranded", "undo", "rollback", "spoilt",
   "leave"}

\* The points from its successful claim on at which an operation owns the
\* one-shot state, and those at which it holds the C document's address.
ClaimedPoints ==
  {"confirm", "reserved", "verify", "commit", "swap", "fetch", "using", "cursor",
   "batch", "drop", "stranded", "undo", "rollback"}

UsingPoints == {"using", "cursor", "batch", "drop"}

Building == {"queued", "input", "parser", "document", "publish"}

Init ==
  /\ opener = "queued"
  /\ lifecycle = "closed" /\ generation = 0 /\ admitted = 0
  /\ projection = "fresh" /\ cleanupStarted = FALSE
  /\ owned = {}
  /\ accounted = FALSE /\ live = 0
  /\ control = "none" /\ refs = {} /\ dispatched = FALSE
  /\ pc = [o \in Ops |-> "idle"]
  /\ seen = [o \in Ops |-> 0]

Goto(o, from, to) == pc[o] = from /\ pc' = [pc EXCEPT ![o] = to]

-----------------------------------------------------------------------------
(* The opening job: threaded_document_open, openOwnedWithFailure and       *)
(* openMappedCancellable.  Nobody else can reach the document yet.         *)

\* createDocumentControl and the resource around it.
CreateControl ==
  /\ opener = "queued" /\ opener' = "input"
  /\ control' = "allocated" /\ refs' = {"opener"}
  /\ UNCHANGED <<stateVars, accounted, live, dispatched, pc, seen>>

\* Cancelled or out of memory before there is a control; or the resource
\* could not be made and the control is destroyed at once.
RefuseOpen ==
  /\ opener = "queued" /\ opener' = "over"
  /\ UNCHANGED <<stateVars, ownerVars, pc, seen>>

\* The input copy (or mapping), the parser, the parsed document.
Built(from, field, to) ==
  /\ opener = from /\ opener' = to
  /\ owned' = owned \cup {field}
  /\ UNCHANGED <<lifecycle, generation, admitted, projection, cleanupStarted,
                 ownerVars, pc, seen>>

CreateInput  == Built("input", "input", "parser")
CreateParser == Built("parser", "parser", "document")
OpenDocument == Built("document", "document", "publish")

\* The last stores of a construction that was not cancelled.
Publish ==
  /\ opener = "publish" /\ opener' = "deliver"
  /\ generation' = 1 /\ lifecycle' = "open"
  /\ UNCHANGED <<admitted, projection, cleanupStarted, owned, ownerVars, pc, seen>>

\* What a failed construction leaves owned.
RolledBackInputOnly == owned \ {"input"}   \* mutant: the parser is forgotten
RolledBack == {}

\* A step of the construction fails, or sees the cancellation:
\* rollbackConstruction, and the resource is released unpublished.
FailOpen ==
  /\ opener \in {"input", "parser", "document", "publish"} /\ opener' = "over"
  /\ owned' = RolledBack
  /\ refs' = refs \ {"opener"}
  /\ UNCHANGED <<lifecycle, generation, admitted, projection, cleanupStarted,
                 accounted, live, control, dispatched, pc, seen>>

\* Cancelled after the construction: closeAndDestroy.
CancelOpened ==
  /\ opener = "deliver" /\ opener' = "over"
  /\ lifecycle' = "closed" /\ generation' = generation + 1
  /\ cleanupStarted' = TRUE /\ owned' = {}
  /\ refs' = refs \ {"opener"}
  /\ UNCHANGED <<admitted, projection, accounted, live, control, dispatched, pc, seen>>

\* markReadyForDelivery succeeds; the result term now holds the resource.
Deliver ==
  /\ opener = "deliver" /\ opener' = "over"
  /\ accounted' = TRUE /\ live' = live + 1
  /\ refs' = {"term"}
  /\ UNCHANGED <<stateVars, control, dispatched, pc, seen>>

-----------------------------------------------------------------------------
(* reserveProjection, reserveStream and tryAdmit.                          *)

Retained(o) == refs \cup {o}

\* The tests before the admission, on a resource the caller holds.
Approach(o) ==
  /\ "term" \in refs
  /\ Goto(o, "idle", "admit")
  /\ lifecycle = "open"
  /\ o \in Cursors => projection = "fresh"
  /\ refs' = Retained(o)
  /\ UNCHANGED <<opener, stateVars, accounted, live, control, dispatched, seen>>

Admit(o) ==
  /\ Goto(o, "admit", "recheck")
  /\ admitted' = admitted + 1
  /\ UNCHANGED <<opener, lifecycle, generation, projection, cleanupStarted,
                 owned, ownerVars, seen>>

\* The second test, after the admission is visible.
StillOpenAssumed == TRUE   \* mutant: the first test is thought to be enough
StillOpen == lifecycle = "open" /\ generation # 0

Recheck(o) ==
  /\ Goto(o, "recheck",
          IF ~StillOpen THEN "leave" ELSE IF o \in Cursors THEN "claim" ELSE "using")
  /\ seen' = [seen EXCEPT ![o] = generation]
  /\ UNCHANGED <<opener, stateVars, ownerVars>>

Transient(o) == IF o \in Selects THEN "selecting" ELSE "streaming"

ClaimableUnlessConsumed == projection # "consumed"   \* mutant: a store, not a CAS
Claimable == projection = "fresh"

Claim(o) ==
  /\ Goto(o, "claim", IF Claimable THEN "confirm" ELSE "leave")
  /\ projection' = IF Claimable THEN Transient(o) ELSE projection
  /\ UNCHANGED <<opener, lifecycle, generation, admitted, cleanupStarted, owned,
                 ownerVars, seen>>

Current(o) == lifecycle = "open" /\ generation = seen[o]

Confirm(o) ==
  /\ Goto(o, "confirm", IF Current(o) THEN "reserved" ELSE "undo")
  /\ UNCHANGED <<opener, stateVars, ownerVars, seen>>

Unclaimed(o) == IF projection = Transient(o) THEN "fresh" ELSE projection

\* The compensating CAS of a reservation, whose result is not looked at ...
Undo(o) ==
  /\ Goto(o, "undo", "leave")
  /\ projection' = Unclaimed(o)
  /\ UNCHANGED <<opener, lifecycle, generation, admitted, cleanupStarted, owned,
                 ownerVars, seen>>

\* ... and rollbackProjection and rollbackStream, which release the admission
\* only if their CAS succeeds.
Rollback(o) ==
  /\ Goto(o, "rollback", IF projection = Transient(o) THEN "leave" ELSE "release")
  /\ projection' = Unclaimed(o)
  /\ UNCHANGED <<opener, lifecycle, generation, admitted, cleanupStarted, owned,
                 ownerVars, seen>>

UnadmittedWhenOpen == IF lifecycle = "open" THEN admitted - 1 ELSE admitted   \* mutant
Unadmitted == admitted - 1

\* releaseAdmissionCount.
Leave(o) ==
  /\ Goto(o, "leave", "release")
  /\ admitted' = Unadmitted
  /\ UNCHANGED <<opener, lifecycle, generation, projection, cleanupStarted, owned,
                 ownerVars, seen>>

\* The operation record, the job or the cursor lets go of the resource.
ReleaseReference(o) ==
  /\ Goto(o, "release", "over")
  /\ refs' = refs \ {o}
  /\ UNCHANGED <<opener, stateVars, accounted, live, control, dispatched, seen>>

-----------------------------------------------------------------------------
(* A reserved operation: threaded_projection_execute, and                  *)
(* threaded_stream_setup_fixture with the cursor it makes.                 *)

\* verifyProjectionSource, and the end of it; a stream has no such test.
BeginVerify(o) ==
  /\ o \in Selects
  /\ Goto(o, "reserved", "verify")
  /\ UNCHANGED <<opener, stateVars, ownerVars, seen>>

BeginCommit(o) ==
  /\ Goto(o, IF o \in Selects THEN "verify" ELSE "reserved", "commit")
  /\ UNCHANGED <<opener, stateVars, ownerVars, seen>>

\* A failure before the commit: no plan, no memory, the source changed.
GiveUp(o) ==
  /\ pc[o] \in {"reserved", "verify"}
  /\ pc' = [pc EXCEPT ![o] = "rollback"]
  /\ UNCHANGED <<opener, stateVars, ownerVars, seen>>

\* commitProjection and commitStream: the tests, then the CAS.
CheckCommit(o) ==
  /\ Goto(o, "commit", IF Current(o) THEN "swap" ELSE "rollback")
  /\ UNCHANGED <<opener, stateVars, ownerVars, seen>>

Commit(o) ==
  /\ Goto(o, "swap", IF projection = Transient(o) THEN "fetch" ELSE "rollback")
  /\ projection' = IF projection = Transient(o) THEN "consumed" ELSE projection
  /\ UNCHANGED <<opener, lifecycle, generation, admitted, cleanupStarted, owned,
                 ownerVars, seen>>

\* projectionDocument and streamDocument.
Fetch(o) ==
  /\ Goto(o, "fetch", IF Current(o) /\ projection = "consumed" THEN "using" ELSE "leave")
  /\ UNCHANGED <<opener, stateVars, ownerVars, seen>>

\* The traversal, or the failed making of a cursor, ends; the admission is
\* released by releaseCommittedProjection, releaseCommittedStream or
\* releaseAdmission.
EndUse(o) ==
  /\ Goto(o, "using", "leave")
  /\ UNCHANGED <<opener, stateVars, ownerVars, seen>>

\* OwnedCursor.init succeeds: the cursor resource keeps the reservation.
KeepCursor(s) ==
  /\ s \in Streams
  /\ Goto(s, "using", "cursor")
  /\ UNCHANGED <<opener, stateVars, ownerVars, seen>>

\* executeStreamBatch looks at the demand state of the cursor, at nothing
\* of the document.
BeginBatch(s) ==
  /\ Goto(s, "cursor", "batch")
  /\ UNCHANGED <<opener, stateVars, ownerVars, seen>>

EndBatch(s) ==
  /\ Goto(s, "batch", "cursor")
  /\ UNCHANGED <<opener, stateVars, ownerVars, seen>>

\* The consumer is through with its cursor, or the term is collected:
\* destroyStreamCursorControl frees the C cursor, then releases.
CloseCursor(s) ==
  /\ Goto(s, "cursor", "drop")
  /\ UNCHANGED <<opener, stateVars, ownerVars, seen>>

DestroyCursor(s) ==
  /\ Goto(s, "drop", "leave")
  /\ UNCHANGED <<opener, stateVars, ownerVars, seen>>

\* A select cancelled while it is queued or runs ends without a message, so
\* the coordinator keeps its request and the request its reservation ...
Strand(o) ==
  /\ o \in Cancels
  /\ pc[o] \in {"reserved", "verify", "using"}
  /\ pc' = [pc EXCEPT ![o] = "stranded"]
  /\ UNCHANGED <<opener, stateVars, ownerVars, seen>>

\* ... until the coordinator goes, and the operation's destructor runs.
Unstrand(o) ==
  /\ Goto(o, "stranded", IF projection = "consumed" THEN "leave" ELSE "rollback")
  /\ UNCHANGED <<opener, stateVars, ownerVars, seen>>

-----------------------------------------------------------------------------
(* Cleanup operations.                                                     *)

\* A close by the owner, who holds the term ...
RequestClose(c) ==
  /\ "term" \in refs
  /\ Goto(c, "idle", "prepare")
  /\ refs' = Retained(c)
  /\ UNCHANGED <<opener, stateVars, accounted, live, control, dispatched, seen>>

\* ... or by the coordinator, which received a document whose caller died.
CloseOrphan(c) ==
  /\ refs = {"term"}
  /\ \A o \in Ops : pc[o] = "idle"
  /\ Goto(c, "idle", "submitted")
  /\ refs' = {c}
  /\ UNCHANGED <<opener, stateVars, accounted, live, control, dispatched, seen>>

WinsUnlessClosed == lifecycle # "closed"   \* mutant
Wins == lifecycle = "open"

\* beginClose: the CAS, then the increment of the winner.
BeginClose(c, from, won, lost) ==
  /\ Goto(c, from, IF Wins THEN won ELSE lost)
  /\ lifecycle' = IF Wins THEN "closing" ELSE lifecycle
  /\ UNCHANGED <<opener, generation, admitted, projection, cleanupStarted, owned,
                 ownerVars, seen>>

Bump(c, from, to) ==
  /\ Goto(c, from, to)
  /\ generation' = generation + 1
  /\ UNCHANGED <<opener, lifecycle, admitted, projection, cleanupStarted, owned,
                 ownerVars, seen>>

\* document_prepare_cleanup.
PrepareClose(c)  == BeginClose(c, "prepare", "bump", "submitted")
FinishPrepare(c) == Bump(c, "bump", "submitted")

\* The pool is busy or gone, or the generation moved on: nothing is freed.
RejectCleanup(c) ==
  /\ Goto(c, "submitted", "release")
  /\ UNCHANGED <<opener, stateVars, ownerVars, seen>>

StartCleanup(c) ==
  /\ Goto(c, "submitted", "begin")
  /\ UNCHANGED <<opener, stateVars, ownerVars, seen>>

\* completeThreadedDocumentCleanup.
WorkerClose(c) ==
  BeginClose(c, "begin", "rebump", IF lifecycle = "closed" THEN "account" ELSE "cleaning")
WorkerBump(c) == Bump(c, "rebump", "cleaning")

DrainedAnyhow == TRUE   \* mutant: cleanup does not wait for admissions
Drained == admitted = 0

\* completeCleanup up to the CAS; a worker that cannot go on spins.
IsClosedAndMine == lifecycle = "closed" /\ ~cleanupStarted   \* mutant
IsClosed == lifecycle = "closed"

TryCleanup(c) ==
  /\ \/ IsClosed /\ Goto(c, "cleaning", "account")
     \/ lifecycle = "closing" /\ Drained /\ Goto(c, "cleaning", "seize")
  /\ UNCHANGED <<opener, stateVars, ownerVars, seen>>

Seizable == ~cleanupStarted

Seize(c) ==
  /\ Goto(c, "seize", IF Seizable THEN "free"
                      ELSE IF lifecycle = "closed" THEN "account" ELSE "cleaning")
  /\ cleanupStarted' = TRUE
  /\ UNCHANGED <<opener, lifecycle, generation, admitted, projection, owned,
                 ownerVars, seen>>

\* releaseOwnedFields: document, parser, input, then the last store.
NextToFree == CASE "document" \in owned -> "document"
                [] "parser" \in owned   -> "parser"
                [] OTHER                -> "input"

FreeField(c) ==
  /\ pc[c] = "free" /\ owned # {}
  /\ owned' = owned \ {NextToFree}
  /\ UNCHANGED <<opener, lifecycle, generation, admitted, projection,
                 cleanupStarted, ownerVars, pc, seen>>

MarkClosed(c) ==
  /\ owned = {}
  /\ Goto(c, "free", "account")
  /\ lifecycle' = "closed"
  /\ UNCHANGED <<opener, generation, admitted, projection, cleanupStarted, owned,
                 ownerVars, seen>>

\* finishDocumentAccounting swaps the flag.
GaugeSettled == IF accounted THEN live - 1 ELSE live

FinishAccounting(c) ==
  /\ Goto(c, "account", "release")
  /\ accounted' = FALSE /\ live' = GaugeSettled
  /\ UNCHANGED <<opener, stateVars, control, refs, dispatched, seen>>

-----------------------------------------------------------------------------
(* The end of the resource.                                                *)

\* The term is collected, in its owner or in a message nobody reads.
DropTerm ==
  /\ "term" \in refs /\ refs' = refs \ {"term"}
  /\ UNCHANGED <<opener, stateVars, accounted, live, control, dispatched, pc, seen>>

\* DocumentResourceCallbacks.dtor: detachForDeferredCleanup and the queue of
\* the dispatcher.
Detach ==
  /\ control = "allocated" /\ refs = {} /\ ~dispatched
  /\ dispatched' = TRUE
  /\ lifecycle' = IF Wins THEN "closing" ELSE lifecycle
  /\ generation' = IF Wins THEN generation + 1 ELSE generation
  /\ UNCHANGED <<opener, admitted, projection, cleanupStarted, owned, accounted,
                 live, control, refs, pc, seen>>

\* cleanupDetachedDocument: nobody else can reach the control, the loop
\* around completeCleanup ends or spins.
Dispatch ==
  /\ dispatched /\ control = "allocated"
  /\ \/ IsClosed /\ UNCHANGED <<lifecycle, cleanupStarted, owned>>
     \/ /\ lifecycle = "closing" /\ Drained /\ Seizable
        /\ lifecycle' = "closed" /\ cleanupStarted' = TRUE /\ owned' = {}
  /\ accounted' = FALSE /\ live' = GaugeSettled
  /\ control' = "freed"
  /\ UNCHANGED <<opener, generation, admitted, projection, refs, dispatched, pc, seen>>

-----------------------------------------------------------------------------
Opening ==
  \/ CreateControl \/ RefuseOpen \/ CreateInput \/ CreateParser \/ OpenDocument
  \/ Publish \/ FailOpen \/ CancelOpened \/ Deliver

\* What a thread that runs the operation does of itself.
Reserving(o) ==
  \/ Admit(o) \/ Recheck(o) \/ Claim(o) \/ Confirm(o) \/ Undo(o) \/ Rollback(o)
  \/ Leave(o)
  \/ BeginVerify(o) \/ BeginCommit(o) \/ CheckCommit(o) \/ Commit(o) \/ Fetch(o)
  \/ EndUse(o) \/ EndBatch(o) \/ DestroyCursor(o) \/ ReleaseReference(o)

Cleaning(c) ==
  \/ PrepareClose(c) \/ FinishPrepare(c) \/ StartCleanup(c) \/ WorkerClose(c)
  \/ WorkerBump(c) \/ TryCleanup(c) \/ Seize(c) \/ FreeField(c) \/ MarkClosed(c)
  \/ FinishAccounting(c) \/ ReleaseReference(c)

\* What others decide: the caller, the consumer, failures, cancellation.
Chosen(o) ==
  \/ Approach(o) \/ GiveUp(o) \/ KeepCursor(o) \/ BeginBatch(o) \/ CloseCursor(o)
  \/ Strand(o) \/ Unstrand(o)

Requested(c) == RequestClose(c) \/ CloseOrphan(c) \/ RejectCleanup(c)

Next ==
  \/ Opening
  \/ \E o \in Holders : Reserving(o) \/ Chosen(o)
  \/ \E c \in Closes : Cleaning(c) \/ Requested(c)
  \/ DropTerm \/ Detach \/ Dispatch

(***************************************************************************)
(* A job a worker began is executed to its end, and the dispatcher runs.   *)
(* The emulator runs the destructor of a resource without references.      *)
(* No fairness is owed by callers, consumers and the garbage collector.    *)
(***************************************************************************)
Fairness ==
  /\ WF_vars(Opening)
  /\ \A o \in Holders : WF_vars(Reserving(o))
  /\ \A c \in Closes : WF_vars(Cleaning(c))
  /\ WF_vars(Detach) /\ WF_vars(Dispatch)

Spec == Init /\ [][Next]_vars /\ Fairness

-----------------------------------------------------------------------------
(* Properties. *)

TypeOK ==
  /\ opener \in OpenerPoints
  /\ lifecycle \in Lifecycles /\ generation \in 0..2 /\ admitted \in Nat
  /\ projection \in Projections /\ cleanupStarted \in BOOLEAN
  /\ owned \subseteq Fields
  /\ accounted \in BOOLEAN /\ live \in Int
  /\ control \in {"none", "allocated", "freed"}
  /\ refs \subseteq Ops \cup {"opener", "term"} /\ dispatched \in BOOLEAN
  /\ pc \in [Ops -> Points]
  /\ seen \in [Ops -> 0..2]

Admitted == {o \in Ops : pc[o] \in AdmittedPoints}
Claimed  == {o \in Ops : pc[o] \in ClaimedPoints /\ o \in Cursors}
Using    == {o \in Ops : pc[o] \in UsingPoints}
Freeing  == {c \in Ops : pc[c] = "free"}

\* No use after free without a lock: while an operation verifies the input,
\* traverses the document or holds a cursor into it, no native object of the
\* document is freed, whatever closes, orphan cleanups and the dispatcher do.
UsedIsOwned ==
  /\ Using # {} => owned = Fields
  /\ (\E o \in Ops : pc[o] \in {"reserved", "verify", "stranded"}) => owned = Fields

\* The admission count is neither leaked nor released twice by any path
\* through a reservation; a leak keeps cleanup spinning for ever.
AdmissionsBalance == admitted = Cardinality(Admitted)

\* The one-shot cursor has one owner, of the kind and the stage the atomic
\* says, and a close that crosses a reservation never frees it for another.
OneCursor ==
  /\ \A o, p \in Claimed : o = p
  /\ \A o \in Claimed : projection \in {Transient(o), "consumed"}
  /\ Claimed = {} => projection \in {"fresh", "consumed"}
  /\ projection = "consumed" =>
       \A o \in Claimed : pc[o] \in {"using", "fetch", "cursor", "batch", "drop", "stranded"}

\* One thread frees, once, when nobody is admitted for good any more, and the
\* gauge counts the document from delivery to the first of its cleanups,
\* however many of them meet.
OneCleaner ==
  /\ \A c, d \in Freeing : c = d
  /\ Freeing # {} => cleanupStarted /\ lifecycle = "closing"
  /\ lifecycle = "closed" /\ opener = "over" => owned = {}
  /\ live = IF accounted THEN 1 ELSE 0
  /\ accounted => control = "allocated"
  /\ opener = "over" /\ ~accounted => owned = {}

\* The control block goes last: no operation points to it any more, and nothing
\* is left behind by a failed, cancelled, closed or dropped document.
NothingLeaks ==
  control = "freed" =>
    /\ refs = {} /\ opener = "over"
    /\ \A o \in Ops : pc[o] \in {"idle", "over"}
    /\ owned = {} /\ ~accounted /\ live = 0

\* A document nothing refers to is freed.
DroppedIsFreed == (control = "allocated" /\ refs = {}) ~> (control = "freed")

\* A cleanup a worker began ends.  It holds only when no consumer keeps a
\* cursor and no admitted select is cancelled.
CloseCompletes == \A c \in Closes : (pc[c] = "cleaning") ~> (pc[c] = "over")

\* .spec/decisions/0009-stream-ownership-backpressure-and-lifetime.md:108
\* "Generation is checked before every native dereference and before each
\* batch delivery": no batch of a document that is closing begins.
BatchesAreCurrent ==
  [][\A s \in Streams : pc[s] # "batch" /\ pc'[s] = "batch" => Current(s)]_vars

-----------------------------------------------------------------------------
(* The document implements ReclaimedDocument. *)

Promise == INSTANCE ReclaimedDocument WITH
  Users <- Holders,
  using <- Using,
  spent <- projection = "consumed",
  phase <- IF lifecycle = "open" THEN "usable"
           ELSE IF lifecycle = "closing" /\ owned = Fields THEN "closing"
           ELSE IF opener \in Building THEN "absent"
           ELSE "gone"

PromiseSpec == Promise!Spec
=============================================================================
