---------------------------- MODULE StreamSession ----------------------------
(***************************************************************************)
(* One enumeration of a SimdJson.Stream: Enumerable.reduce of              *)
(* lib/simd_json/stream.ex, the StreamCursorControl of                     *)
(* native/zig/build_smoke.zig with its demand state, and the native cursor *)
(* under them.  A batch runs in a worker while the owner waits for it.  A  *)
(* continuation is a value: the owner may resume one it resumed before,    *)
(* and may forget them all.  Admission and delivery of the operations are  *)
(* the subject of Coordinator and WorkerPool.                              *)
(***************************************************************************)
EXTENDS StreamCursor

CONSTANTS
  Overlapping, \* whether another process closes the cursor while a batch runs
  MaxBatches   \* bound: the batches one continuation asks for

ASSUME SessionAssumption == Overlapping \in BOOLEAN /\ MaxBatches \in Nat \ {0}

VARIABLES
  plan,      \* who destroys the projection plan: a subset of {"setup", "cursor"}
  destroyed, \* how often a plan was destroyed
  control,   \* the StreamCursorControl: "none", "live", "freed"
  demand,    \* StreamDemandState
  next,      \* next_sequence
  job,       \* the batch operation: where it is, its sequence, its answer
  driver,    \* the reduction under way, or <<>>
  conts,     \* the continuations that exist
  ended      \* how reductions ended, and what they had delivered

sessionVars == <<plan, destroyed, control, demand, next, job, driver, conts, ended>>
vars == <<cursorVars, sessionVars>>

NoJob == [at |-> "none", number |-> 0, code |-> "none", rows |-> <<>>, done |-> FALSE]

\* A reduction: the number of its next batch, the rows it holds, whether they
\* are the last, and the rows it gave to the reducer.
Start == [number |-> 0, rows |-> <<>>, done |-> FALSE, given |-> <<>>]
Idle == driver = <<>>
Driving == Head(driver)

Reductions == [number : Nat, rows : Seq(Nat), done : BOOLEAN, given : Seq(Nat)]

StreamTypeOK ==
  /\ CursorTypeOK
  /\ plan \subseteq {"setup", "cursor"} /\ destroyed \in 0..1
  /\ control \in {"none", "live", "freed"}
  /\ demand \in {"none", "ready", "running", "done", "cancelled", "closed"}
  /\ next \in Nat
  /\ job.at \in {"none", "admitted", "reserved", "answered"}
  /\ Len(driver) <= 1
  /\ \A r \in conts \cup Range(driver) : r \in Reductions
  /\ \A e \in ended : e.how \in {"done", "halted", "raised"}

Init ==
  /\ CursorInit
  /\ plan = {} /\ destroyed = 0 /\ control = "none" /\ demand = "none" /\ next = 0
  /\ job = NoJob /\ driver = <<Start>> /\ conts = {} /\ ended = {}

\* ------------------------------------------------------------- the set-up
\* The worker of the stream_setup operation makes a plan.
MakePlan ==
  /\ control = "none" /\ state = "none" /\ plan = {} /\ destroyed = 0 /\ ~Idle
  /\ plan' = {"setup"}
  /\ UNCHANGED <<cursorVars, destroyed, control, demand, next, job, driver, conts, ended>>

Copied == {"setup", "cursor"}   \* mutant: the plan stays in the config too
\* The plan has moved into the cursor: config.projection_plan is null.
Moved == {"cursor"}

\* OwnedCursor.init or initFile, then the control and its resource.
SetUp ==
  /\ plan = {"setup"} /\ control = "none"
  /\ OpenCursor
  /\ plan' = {"cursor"} \cap Moved /\ control' = "live" /\ demand' = "ready"
  /\ destroyed' = destroyed + Cardinality({"setup"} \cap Moved)   \* plan.deinit
  /\ UNCHANGED <<next, job, driver, conts, ended>>

\* A set-up that fails ends the enumeration: the native creation refuses or
\* the plan is still the set-up's, or there is no memory for the control and
\* the new cursor goes with its plan.
End(how) ==
  /\ ~Idle /\ driver' = <<>>
  /\ ended' = ended \cup {[how |-> how, given |-> Driving.given]}
FailSetUp ==
  /\ plan = {"setup"} /\ control = "none"
  /\ plan' = {} /\ destroyed' = destroyed + 1
  /\ DestroyCursor
  /\ End("raised")
  /\ UNCHANGED <<control, demand, next, job, conts>>

\* destroyStreamCursorControl, by stream_cursor_resource_close or by the
\* destructor of the resource: the native cursor goes with its plan.
DestroyControl ==
  /\ control' = "freed" /\ demand' = "closed"
  /\ plan' = plan \ {"cursor"} /\ destroyed' = destroyed + Cardinality(plan \cap {"cursor"})
  /\ DestroyCursor
CloseResource ==
  IF control = "live" THEN DestroyControl
  ELSE UNCHANGED <<cursorVars, plan, destroyed, control, demand>>

\* -------------------------------------------------------------- one batch
\* ThreadedOperation.stream_batch: the operation is queued, and retains the
\* cursor resource.
AskBatch ==
  /\ ~Idle /\ job.at = "none" /\ control # "none"
  /\ Driving.rows = <<>> /\ ~Driving.done /\ Driving.number < MaxBatches
  /\ job' = [NoJob EXCEPT !.at = "admitted", !.number = Driving.number]
  /\ UNCHANGED <<cursorVars, plan, destroyed, control, demand, next, driver, conts, ended>>

Answer(code) == job' = [job EXCEPT !.at = "answered", !.code = code]
ReservedAnyway == demand = "ready"   \* mutant: the number is not compared
Reserved == demand = "ready" /\ next = job.number   \* stream_cursor_demand_reserve

\* executeStreamBatch.  Its operation may have been refused or cancelled; a
\* control that is gone and a demand that is not the next one are refused,
\* which leaves the demand as it is.
ReserveDemand ==
  /\ job.at = "admitted"
  /\ UNCHANGED <<cursorVars, plan, destroyed, control, next, driver, conts, ended>>
  /\ \/ Answer("cancelled") /\ UNCHANGED demand
     \/ control = "freed" /\ Answer("closed") /\ UNCHANGED demand
     \/ control = "live" /\ ~Reserved /\ Answer("cursor_state") /\ UNCHANGED demand
     \/ /\ control = "live" /\ Reserved
        /\ demand' = "running" /\ job' = [job EXCEPT !.at = "reserved"]

\* OwnedBatch.init, OwnedBatch.next: the native batch runs to its end.  The
\* code "none" says that it has not begun.
RunBatch ==
  /\ job.at = "reserved"
  /\ UNCHANGED <<plan, destroyed, control, demand, next, driver, conts, ended>>
  /\ \/ /\ job.code = "none" /\ BeginBatch
        /\ job' = [job EXCEPT !.code = "begun"]
     \/ job.code = "begun" /\ BatchStep /\ UNCHANGED job

\* demand_cancel, for whatever goes wrong after the reservation.
CancelDemand == demand' = IF demand \in {"ready", "running"} THEN "cancelled" ELSE demand
CompleteUncounted ==   \* mutant: the number stays
  /\ demand' = (IF batch.done THEN "done" ELSE "ready") /\ UNCHANGED next
\* demand_complete: the number moves on, unless the demand is not this one.  The
\* exchange of the state comes before the increment; nobody looks in between, for
\* the next batch is asked for when this one has been answered.
CompleteDemand ==
  \/ /\ control = "live" /\ next = job.number /\ demand = "running"
     /\ demand' = (IF batch.done THEN "done" ELSE "ready") /\ next' = next + 1
  \/ /\ ~(control = "live" /\ next = job.number /\ demand = "running")
     /\ UNCHANGED <<demand, next>>

\* The rows are made terms of, all or none.
FinishBatch ==
  /\ job.at = "reserved" /\ at = "idle"
  /\ UNCHANGED <<cursorVars, plan, destroyed, control, driver, conts, ended>>
  /\ \/ /\ job.code = "begun" /\ batch.code = "ok"
        /\ CompleteDemand
        /\ job' = [job EXCEPT !.at = "answered", !.code = "ok", !.rows = batch.rows,
                     !.done = batch.done]
     \/ /\ job.code = "begun" /\ batch.code # "ok"
        /\ CancelDemand /\ Answer(batch.code) /\ UNCHANGED next
     \/ /\ CancelDemand /\ Answer("out_of_memory") /\ UNCHANGED next

\* ------------------------------------------------------------- the driver
\* The answer of the batch.  The rows go to the reducer one by one; an empty
\* last batch and an error close the cursor.
Take ==
  /\ job.at = "answered" /\ job' = NoJob
  /\ UNCHANGED <<next, conts>>
  /\ \/ Idle /\ UNCHANGED <<cursorVars, plan, destroyed, control, demand, driver, ended>>
     \/ /\ ~Idle /\ job.code = "ok" /\ ~(job.rows = <<>> /\ job.done)
        /\ driver' = <<[Driving EXCEPT !.number = @ + 1, !.rows = job.rows, !.done = job.done]>>
        /\ UNCHANGED <<cursorVars, plan, destroyed, control, demand, ended>>
     \/ /\ ~Idle /\ job.code = "ok" /\ job.rows = <<>> /\ job.done
        /\ CloseResource /\ End("done")
     \/ ~Idle /\ job.code # "ok" /\ CloseResource /\ End("raised")

\* The reducer gets a row, and says how to go on.
Fed == [Driving EXCEPT !.rows = Tail(@), !.given = Append(@, Head(Driving.rows))]
Feed ==
  /\ ~Idle /\ Driving.rows # <<>>
  /\ UNCHANGED <<next, job>>
  /\ \/ /\ driver' = <<Fed>>
        /\ UNCHANGED <<cursorVars, plan, destroyed, control, demand, conts, ended>>
     \/ /\ driver' = <<>> /\ conts' = conts \cup {Fed}        \* :suspend
        /\ UNCHANGED <<cursorVars, plan, destroyed, control, demand, ended>>
     \/ /\ CloseResource /\ driver' = <<>>                    \* :halt, an exception
        /\ \E how \in {"halted", "raised"} :
             ended' = ended \cup {[how |-> how, given |-> Fed.given]}
        /\ UNCHANGED conts
     \/ /\ driver' = <<>>                                     \* a throw, an exit
        /\ UNCHANGED <<cursorVars, plan, destroyed, control, demand, conts, ended>>

\* No row is left, and no batch.
Finish ==
  /\ ~Idle /\ Driving.rows = <<>> /\ Driving.done
  /\ CloseResource /\ End("done")
  /\ UNCHANGED <<next, job, conts>>

\* A continuation is resumed, the first time or again.
Resume(c) ==
  /\ Idle /\ job.at = "none"
  /\ \/ /\ driver' = <<c>>
        /\ UNCHANGED <<cursorVars, plan, destroyed, control, demand, ended>>
     \/ /\ CloseResource /\ UNCHANGED driver
        /\ ended' = ended \cup {[how |-> "halted", given |-> c.given]}
  /\ UNCHANGED <<next, job, conts>>

\* Another process halts a continuation it was given: only reduce asks who
\* the owner is.  Nothing keeps it from doing so while a batch of the owner
\* runs; that is left out unless Overlapping.
HaltElsewhere(c) ==
  /\ job.at = "none" \/ Overlapping
  /\ CloseResource
  /\ ended' = ended \cup {[how |-> "halted", given |-> c.given]}
  /\ UNCHANGED <<next, job, driver, conts>>

\* The owner dies or is done with the stream.  An answer on its way finds
\* nobody, and the term is collected once no operation holds it.
Forget ==
  /\ control # "none" /\ (driver # <<>> \/ conts # {})
  /\ driver' = <<>> /\ conts' = {}
  /\ UNCHANGED <<cursorVars, plan, destroyed, control, demand, next, job, ended>>

Collect ==
  /\ control = "live" /\ Idle /\ conts = {} /\ job.at = "none"
  /\ DestroyControl
  /\ UNCHANGED <<next, job, driver, conts, ended>>

\* The set-up of a file maps it first.
OpenFile == plan = {"setup"} /\ MapInput /\ UNCHANGED sessionVars
Write == ChangeFile /\ UNCHANGED sessionVars

Over == Idle /\ job.at = "none" /\ conts = {} /\ control # "live" /\ UNCHANGED vars

Worker == ReserveDemand \/ RunBatch \/ FinishBatch
Owner == AskBatch \/ Take \/ Feed \/ Finish

Next ==
  \/ MakePlan \/ OpenFile \/ SetUp \/ FailSetUp
  \/ Worker \/ Owner
  \/ \E c \in conts : Resume(c) \/ HaltElsewhere(c)
  \/ Forget \/ Collect \/ Write \/ Over

\* A worker goes on, a process that runs goes on, and the runtime collects
\* what nobody refers to.  Nobody has to resume a continuation.
Fairness ==
  /\ WF_vars(Worker) /\ WF_vars(Owner) /\ WF_vars(Collect)
  /\ WF_vars(MakePlan \/ OpenFile \/ SetUp \/ FailSetUp)

Spec == Init /\ [][Next]_vars /\ Fairness

\* ------------------------------------------------------------- properties
Given(r) == r.given \o r.rows
Indices(n) == [i \in 1..n |-> i - 1]

\* Whichever continuation is resumed, and however often, what it gave and
\* still holds are the rows of the source from the first on, in order, with
\* none missing and none twice (the number of a demand, and the row kept for
\* the next batch).
DeliveredInOrder ==
  \A r \in conts \cup Range(driver) : Given(r) = Indices(Len(Given(r)))

\* An enumeration that ends with :done gave every row, and the whole source
\* was read and valid, behind the target as well as before it.
SourceValid ==
  /\ \A k \in DOMAIN source.levels :
       source.levels[k].found /\ FALSE \notin Range(source.levels[k].before)
                              /\ FALSE \notin Range(source.levels[k].after)
  /\ 0 \notin Range(source.rows) /\ source.end
DoneIsWhole ==
  \A e \in ended : e.how = "done" =>
    e.given = Indices(Len(source.rows)) /\ SourceValid

\* The reader goes forward only: a row is projected once, also when it waits
\* for the next batch.
ReadOnce == attempts <= Len(source.rows) /\ attempts \in {row, row + 1}

\* The layers tell one story: between two batches the demand state and the
\* cursor have the same count and neither has failed without the other, and
\* the reader is not asked twice for one row.
LayersAgree ==
  /\ demand \in {"ready", "done"} => state = demand /\ next = sequence
  /\ ReadOnce

\* docs/milestones/03-batched-array-streaming.md:249 "No thread may continue
\* dereferencing a resource after its destructor has run": a batch that was begun
\* has the cursor it runs on.  False when Overlapping.
BatchHoldsCursor == job.at = "reserved" => control = "live"

\* The plan is destroyed once, and is gone when nothing is left of the stream.
PlanDestroyedOnce ==
  /\ destroyed + Cardinality(plan) <= 1
  /\ control = "freed" => plan = {} /\ destroyed = 1

\* No reader of a file is told that it is through with it when the file, as the
\* last comparison finds it, is not the one it mapped.
ChangeIsNoticed == [][state' = "done" /\ state # "done" => ~(IsFile /\ changed')]_vars

\* However a stream is used, driving it comes to an end: every batch brings a
\* row, the end or an error.
DrivingEnds == ~Idle ~> Idle
=============================================================================
