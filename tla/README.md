# A formal model of simd_json

simd_json is an Elixir library that keeps JSON documents parsed by simdjson in
native memory. Elixir code owns and orders the work; Zig code runs it on a fixed
pool of native threads, so that no parse, traversal, close or free runs on a
scheduler of the BEAM; C++ engines over simdjson read the documents. This directory specifies that machinery in TLA+, checks it
with TLC on small instances and proves what matters most with TLAPS.

Paths below are relative to the repository (`lib/`, `native/`, `.spec/`); PROJECT.json
prefixes them with `src/` and maps every definition of the models to its lines.

## 1. The system

| Component | Where | State it keeps | Operations |
|---|---|---|---|
| Native worker pool | `native/zig/worker_pool.zig`; start, stop and submit NIFs in `native/zig/build_smoke.zig` | bounded FIFO of jobs, threads, counters, one mutex, one condition variable; per request a reference-counted control block with the atomics `cancelled` and `terminal` | start (with rollback), stop (drain and join), four ways to submit, cancel, deliver, pause |
| Document resource | `native/zig/document_resource.zig`; `DocumentControl` and its destructor in `build_smoke.zig` | atomics `lifecycle`, `generation`, `admitted_operations`, `projection_state`, `cleanup_started`; the input, the parser and the simdjson document | open, reserve, verify, commit, traverse, release, close, clean up, detach |
| Operation coordinator | `lib/simd_json/native/operation_coordinator.ex`, `threaded_operation.ex`, `projection_operation.ex`; `lib/simd_json/application.ex` | request table, caller and worker monitors, closing documents, accepting flag | submit to the pool or a legacy worker process, complete, orphan, cancel, shut down |
| Operation record | `OperationRecord` in `build_smoke.zig` | one state atomic, cancellation flag, gauges | begin, cancel, finish, expire |
| Cleanup dispatcher | `Runtime` in `build_smoke.zig` | queue and failed queue of detached documents, one thread | enqueue, clean up, unload |
| Stream cursor | `native/zig/stream_cursor.zig`, `native/src/simd_json_stream_cursor.cpp`, `lib/simd_json/stream.ex` | demand state, sequence number, position in the array | reserve, execute and complete a batch, halt, suspend, close |
| Projection engine | `native/zig/projection_plan.zig`, `native/src/simd_json_projection.cpp`, `lib/simd_json/projection.ex` | prefix tree of paths; the frames of a traversal, the first failure of a path | normalise, compile, traverse |
| Decode materializer | `native/zig/decode_materializer.zig`, `native/src/simd_json_decode_materializer.cpp` | the graph of a result, its bytes and edges | materialise within limits |
| C ABI shim | `native/src/simd_json_abi.cpp`, `native/include/simd_json_abi.h` | a parsed document and the claim of its cursor; a mapped file | open, validate, claim, map |
| Option validation | `stream_options.ex`, `decode_options.ex`, `pool_options.ex` | none | check ranges and keys |
| Public API | `lib/simd_json.ex`, `document.ex`, `error.ex` | none | open, select, decode, stream, close |

How they meet. A caller asks the coordinator (a call); the coordinator makes an
operation record (a NIF resource), for a select it reserves the one-shot cursor of
the document, and submits a job to the pool. A worker runs the job and sends the
result to the coordinator, or, for a stream batch, straight to the consumer and a
notification to the coordinator. The coordinator checks that the answer is the one
it waits for and replies. Cancellation is a flag in the operation record, a flag in
the request control, and the death of the monitored recipient. A document is freed
by a cleanup job in the pool, or, when its last reference is collected, by the
cleanup dispatcher; the admission counter of the document is the only thing that
keeps either from freeing what an operation uses. An enumeration of a stream sets up a
cursor, which takes over a compiled projection plan, and asks for one batch at a time; the
worker that serves a batch drives the native cursor, which projects row after row into it.
A select compiles a plan and executes it on the document; a decode materialises a text of
its own and has no document.

What is hard here: the document is governed by five atomics without a lock; a close,
an orphan cleanup and the destructor may meet on it; requests are cancelled from
three sides while a worker moves through probe, execution and delivery; idle and
paused workers share one condition variable; start can fail half way; stop drains
and joins; a callback (`dtor`, `down`) runs on another thread; liveness depends
on consumers that may keep a cursor for ever; a continuation of a stream is a value that may
be resumed twice, or halted by somebody else; a file may change while it is read; and every
engine reads its source once, forward, so that a failure that is seen early may have to wait
for one that is seen late. PROJECT.json lists every such hazard
with its line and the properties that watch it.

What makes each component correct:

- pool: a job is owned once, run at most once, answered at most once, counted once;
  no wakeup is lost; a stop ends and leaves nothing behind;
- document: nothing is freed while used, freed once, not leaked; the one-shot cursor
  has one owner; the admission count is exact; a dropped document is freed;
- coordinator: a caller gets one answer, a dead caller's result is released, the
  request table empties, shutdown ends;
- operation record: one verdict, counted once; every gauge says how many records it is
  about; a cancelled operation does not begin;
- dispatcher: its lists hold what was handed over, no more and no less, and all of it is
  freed, also across an unload;
- cursor: rows are delivered in order, once, none missing; `:done` means the whole source;
- projection: one pass finds what following each path finds, and reports the failure it should;
- materializer: the graph is the source, the limits are exact;
- shim: what a document's validation accepts, the engines can read.

## 2. The modules

| Module | Models | Status |
|---|---|---|
| `WorkerPool` | the pool and the lifecycle guard around it | checked, proved |
| `BoundedPool` | what the pool promises; `WorkerPool` implements it | checked as a property, proved |
| `WorkerPoolProofs` | the inductive invariant, the theorems and the refinement | proved |
| `DocumentLifecycle` | one document from the opening job to the dispatcher | checked, proved |
| `ReclaimedDocument` | what a document promises; `DocumentLifecycle` implements it | checked as a property, proved |
| `UnmadeCursor` | the same with cursor resources that cannot be allocated | counterexample, proved |
| `DocumentLifecycleProofs` | the inductive invariants, the theorems and the refinement | proved |
| `Coordinator` | the server, its callers, its jobs, the reservation of a document, `prep_stop` | checked, proved |
| `CoordinatorProofs` | the inductive invariant and the theorems | proved |
| `OnDemand` | a source as simdjson's forward cursor shows it (external), chosen value by value | part of the next ones |
| `ProjectionPlan` | the compilation of paths into a prefix tree | checked, proved |
| `Projection` | the traversal of a source along a plan | checked, proved |
| `DecodeMaterializer` | the pass that copies a source into a flat graph, within four limits | checked, proved |
| `NativeDocument` | composes these four: open, validate, select, project a row, decode | checked, proved |
| `NativeDocumentProofs` | the inductive invariant of the engines, the tree of a request, and the theorems | proved |
| `ProjectionProofs` | what the pass along the tree has met, filled and noted, after every value; the theorem | proved |
| `DecodeProofs` | what the decoder has built, after every value; the theorems; the types of all engines | proved |
| `StreamCursor` | the native cursor: location of the target, batches, completion | checked |
| `StreamSession` | an enumeration over it: set-up, demand, driver, continuations, halts | checked, proved |
| `StreamSessionProofs` | the inductive invariant and the theorems | proved |
| `OperationRecord` | the records of operations, their state words and gauges | part of `NifRuntime`, proved |
| `CleanupDispatcher` | the dispatcher of detached documents and the unload | part of `NifRuntime`, proved |
| `NifRuntime` | composes these two in one loaded library | checked, proved |
| `NifRuntimeProofs` | the invariants of the parts; the composition implements them; the theorems | proved |
| `MCWorkerPool`, `MCDocumentLifecycle`, `MCUnmadeCursor`, `MCCoordinator`, `MCNativeDocument`, `MCStreamSession`, `MCNifRuntime` | small instances for the runs | |

### WorkerPool

State: the fields of `Runtime` (`accepting`, `shutdownRequested`, `stopping`,
`paused`, `queue`, the counters), a control point `pc`, a job `held` and a verdict
`outcome` for every thread, and per submission its `RequestControl` (`terminal`,
`cancelled`, whether it is monitored, its reference count), the two other
cancellation flags and what the recipient and the observer received. A critical
section of the queue mutex is one action. The mutex is a variable all the same,
since a worker enters its next iteration with the mutex it took to account for the
last job. Outside the mutex every atomic that races has an action: `Probe`, `Run`,
`Post`, `Settle` are the tests of `workerMain` around an execution; `LoadCancelled`,
`LoadNotCancelled`, `Exchange` and `Send` the protocol of `deliver`. `Cancelled` is
one step because nobody reads `cancelled` once `terminal` left `pending`. The jobs
are of the four kinds the code can submit, which differ in who is answered and who
observes. `phase` is the lifecycle mutex of the NIF layer.

### DocumentLifecycle

State: the five atomics, the native objects still owned, the accounting flag and the
gauge, the set of references to the resource (the caller's term, the opening job,
every operation that retains it), and a control point for every operation. The lock-free
protocol is split at each load and read-modify-write whose order matters: an admission is
`Approach`, `Admit`, `Recheck`, `Claim`, `Confirm`, with `Undo` for a claim that came too
late; a commit is `CheckCommit`, `Commit`, `Fetch`; an operation that gives up is
`Rollback`, which releases the admission only if its exchange succeeds, as the code does;
a cleanup is `BeginClose`, `Bump`, `TryCleanup`, `Seize`, `FreeField`, `MarkClosed`,
`FinishAccounting`. Two loads are joined where the order cannot be seen: lifecycle
and generation never return to an earlier value after publication. Operations are
selects, stream setups (whose cursor keeps the admission), plain admissions, and
cleanups, explicit or of an orphaned result. Failures of a construction step, of a
plan or of memory are free choices, with one exception: a cursor whose BEAM resource
cannot be allocated releases its admission twice. `FailCursor` and `ReleaseSpoilt` are in a
module of their own, `UnmadeCursor`, which shows what that refutes and what it does not.
`Strand` stands for a fact about the coordinator
and the pool: the job of a cancelled select ends without a message, so the reservation
stays until the coordinator goes.

Native operations of one document are taken to run as concurrently as the NIF entries
permit. The owner test serialises the calls of one owner, but a caller that died
leaves its operations running beside the next ones, and so does a restarted
coordinator.

### Coordinator

State: the table (`requests`, `orphaned`, and `sweeping` for an entry that became the
cleanup of an orphan), the mailbox, `accepting` and the module generation; per caller
whether it lives, and per request how far its call is, its job and the flag of its
operation record; the pool's queue; the document as the coordinator sees it (`lifecycle`,
`cursor`, `reserved`); and `stage`, the program counter of `prep_stop`. A clause of
`handle_call` or `handle_info` is one action, since the server runs them one at a time,
with every NIF it calls inside. Each kind of request is a constant, because the clauses
differ in what they test: opens and decodes were admitted by the caller under a
generation that the server compares (`HandleSubmit`), a close prepares the document and
cancels its selects first (`HandleCleanup`), a select is admitted by the server with its
reservation (`HandleProject`), a stream is started without a test (`HandleStream`), and
a batch is answered by the worker, the server only being told (`HandleDirect`).
`StartRequest` is the function all of them end in, with both of its outcomes. `HandleDown`
cancels and, but for a decode, keeps the entry as an orphan; `Sweep` is the cleanup that
`maybe_cleanup_orphan` puts in its place. Two handlers can raise, `SweepRaises` and
`RawRaises`; then `Crash` is the restart by the supervisor on a pool that kept running.

The pool here is what `WorkerPool` shows of it to a submitter: a FIFO queue that may be
full, jobs that end once, and no message for a job that was cancelled, lost its
recipient, or was found by a stopping pool (`Dropped`). The document is what
`DocumentLifecycle` shows: a select reserves its cursor in the server and takes it in the
worker (`Commit`), a setup does both in the worker (`ReserveStream`, `CommitStream`), and a
close (`BeginClose`) occupies its worker until every admission is released (`Destroyable`). The
cursor a setup answers with keeps the admission until its owner gives it back (`Kept`,
`GiveBack`) or nobody refers to it (`Collect`); a setup that made no cursor releases what it
reserved (`Execute`). The mailbox
is a set, for its messages come from different processes and threads. A server that is
restarted after the pool was stopped, and the new pool it would start, are left out: the
supervisor is about to end it.

### OnDemand, ProjectionPlan, Projection, DecodeMaterializer, NativeDocument

The engines are sequential, but every value of a source may be of any kind and may fail, and
they must give the answer that reading the whole tree would give. `OnDemand` holds the
source: `tree` grows by one value, of any kind, whenever a reader looks at one it has not met
(`Look`), so TLC explores all sources of `MaxValues` values, and a second pass over the
same document (`Publish` rewinds it) finds what the first one found. A value is its kind
and its label, the key in an object or the index in an array; keys are told apart by their
length. The kinds are what simdjson's answers tell apart: a value it accepts, an integer
beyond 64 bits (which has an error of its own), a number beyond the doubles (which it calls
malformed), a bad number, a bad token, a token that begins no value, and a value that is not there.

`ProjectionPlan` inserts the paths of a request in the order of their slots and then
annotates the tree from its leaves. `Projection` keeps the recursion of the C++ code as the
sequence `marks`, one frame for each open container, with one action for each place the
code leaves a value: a selected or skipped container, scalar or failure, and the end of
either. `DecodeMaterializer` checks the limits in the order of the code: entries, the error
of the iterator, the text of a key, depth, and the size of the node with the edges that
containers still open hold back. `NativeDocument` puts them behind the calls: the plan, the parse, the
validation of a document that is opened, then a select from it (`select`), the select from
a binary (`binary`: a temporary document, not validated, used once), a row of a document (`row`, with
the probe), a row of a file (`streamed`, without) or a decode. The validation asks for the value of
every number and takes each error for text that is no JSON (`TokenValid`), so a document with a
number out of range is not opened; a select from the same binary and a decode call it out of range.

Worth knowing, and as the code has it: inside a container a token that begins no JSON value
decodes as `incorrect_type`, and a malformed number as `number_out_of_range`, since the
decoder does not look at the token; of the indexes beyond the end of one array only the
lowest is reported, so `LeastSlotReported` has an exception; and a row is projected in place
without the claim that makes a select the only reader.

### StreamCursor, StreamSession

`StreamCursor` has the fields of `simd_json_stream_cursor` and the batch storage of the
caller. A source is fixed: the levels on the way to the target array, each with the members
before the chosen one and behind it, the rows with the bytes each takes (0 cannot be
projected), and the end. `simd_json_stream_next_batch` is `BeginBatch`, then a turn of its
loop per action. A row is projected (`ProjectRow`) before it is known to fit
(`AppendRow`), so it may wait in `pending` for the next batch. A failure to locate the
target leaves the cursor *ready*, with the frames of the levels it entered; only the
demand state above it prevents another batch on it. A file is compared when the cursor is
made, when a batch begins and when the source ends. Bytes and copied strings have one limit.

`StreamSession` is `Enumerable.reduce`, the control with its demand state, and that cursor.
`plan` says who destroys the projection plan. A reduction is a value (the number of its next
batch, the rows it holds, those it gave); `:suspend` adds it to `conts`, from where
`Resume` takes it as often as it likes. `ReserveDemand`, `RunBatch` and `FinishBatch` are
`executeStreamBatch`, `Take` and `Feed` the driver, `CloseResource` and `Collect` the two
ways the control is destroyed. `HaltElsewhere` is a halt by a process that is not the
owner: `reduce` asks who the owner is, a halt does not. Whether it may land while a batch
runs is the constant `Overlapping`. In production no probe is passed to a batch
(`Probing = {FALSE}`); the runs try both. A `{:suspend}` or `{:halt}` before the set-up, and
a batch asked for by a process that is not the owner, are left out.

### OperationRecord, CleanupDispatcher, NifRuntime

`OperationRecord` is one state word and one flag per operation, and the gauges that all
records share. The worker's side is split where the code is: `LoadFlag` and `Enter` or
`TurnBack` are `beginRunning`, `TestFlag` and `Claim` are `markReadyForDelivery`, whose store
is no exchange and so may write `delivering` over a cancellation that came between.
`RaiseCancel` and `SwapCancelling` are `cancel`. A loop around a weak exchange ends in one
exchange that finds what it expects, so it is one step. A gauge moves with the exchange
that decides about it, an instruction later in the code: the models say nothing of a
snapshot between the two. The server finishes a record when its submission was refused or
after the message of the job, which the worker sends before it gives the job up; it
forgets a record it drops unfinished (`Forget`: a dead decode, a restart), and `Destroy` is
the destructor, when neither side refers any more.

`CleanupDispatcher` keeps the documents' links (`next`) and the two pairs of head and
tail. Every critical section of its mutex is one action; `Detach` and `Enqueue` are apart
because `runtime_ref` is loaded before the mutex is taken. The steps of the unload are those of
`resource_on_unload` and `requestShutdownAndJoin`. `Straying` lets the library free the
dispatcher under a destructor that has loaded it.

`NifRuntime` puts both into one library: admission asks for a published and accepting
runtime; the calls of the coordinator are NIFs, and the emulator runs none during an
unload; the pool's workers are joined before the dispatcher is told to end. The generation
tested at an admission is in `Coordinator`.

## 3. The runs

| Run | Instance | Question |
|---|---|---|
| `pool_races` | 1 worker, queue of 1, 2 jobs of the three answered kinds, every event | is a request answered twice, miscounted, leaked or used after free |
| `pool_live` | 2 workers, queue of 1, 2 jobs, 1 pause, 2 starts with failures | contract, wakeups, what a pool leaves behind, settlement, end of a stop |
| `document_races` | a cancellable select, a stream, a probe, 2 cleanups | memory safety, balance, leaks, one owner of the one-shot cursor; refinement of `ReclaimedDocument` |
| `document_live` | a select, a probe, 2 cleanups | a dropped document is freed, a cleanup ends |
| `coordinator_races` | an open, 2 selects, a setup, a close; 1 worker, queue of 1; deaths, restarts, a stop | is a caller forgotten, a reservation lost, doubled or freed under |
| `coordinator_live` | an open that raises, a select, a close, a setup, a batch; queue of 2; restarts; a cursor that may be kept | is every call answered; are the dead forgotten |
| `coordinator_stop` | an open, a decode, a setup, a close; queue of 1; deaths, a stop; a cursor that may be kept | does a stop end unless an operation is stranded or a close spins behind the cursor, is work cut short by it |
| `engines` | every source of 4 values of 10 kinds and 3 tails, depth 2; 12 requests; 16 limits; 5 kinds of call | do the engines answer what reading the tree says |
| `stream` | 153 sources with every failure on the way, in a row and at the end; batches of 2 rows or 4 bytes; 5 batches a reduction | order, completeness, layers in step, ownership of the plan, changed files, progress |
| `nif_runtime` | an operation, 2 documents, refusals on and off, an unload | gauges, cancellation, the lists of the dispatcher, what was handed over is freed |
| `document_stream_close` | a stream and a close | counterexample, see section 5 |
| `coordinator_dead_owner` | a select and a close | counterexample, see section 5 |

Why the bounds are enough. A wakeup needs a waiter of each kind and a job: two
workers. The queue is full, and its order matters, with one or two slots and one job
more than fits. A request races its own cancellation, death, collection and stop,
not another request, except through the counters: one worker and two jobs. `MaxStarts`
is 2 only where a second start matters, `MaxPauses` bounds a test hook. At the
document two operations of a kind compete, and the third party is a cleanup or the
destructor; the theorems below remove the bound for the most important invariants. At
the coordinator a request meets the others through three things only, the queue, the
document and the drain of a stop: the runs combine the kinds that share one of them, two
selects compete for the one cursor, and a queue of one slot is full as soon as a job waits.
Every request is made once, which bounds generations and replies; a process makes one call
at a time, as the code does. Four values are an object in an array in the root with a
member beside it, two equal keys, or a container between two others; a depth of 2, a
`MaxCalls` of 2 and limits around the size of such a source let each limit be met exactly
and passed by one. The requests share, repeat and contradict prefixes, in and against the
order of their slots. A stream's rows fill a batch, leave room in it, do not fit behind
another row, fit into none, or fail; five batches (`MaxBatches`) are more than three rows
need, the last of which may be empty. The theorems about streams have no bound on any of it.
Records share nothing but the gauges, whose theorem has no bound, and a list shows its cases
with an empty, a single and a longer one: one operation and two documents, with larger
instances of each part below.
Symmetry is used in runs of invariants only.

Most configurations have `CHECK_DEADLOCK FALSE`: the system may stop, when every submission
was made and answered, the document is gone, or the application has ended. The engines and the
stream say themselves when they are through, so there deadlock is checked.

Fairness. Threads of the pool, and the thread that starts or stops it, run until they
block; a submission inside the guard ends. A job a worker began runs to its end, the
emulator runs the destructor of a resource without references, and the dispatcher
runs. Nothing is owed by callers, consumers, cancellations, the collector or the
test that pauses workers. The close of a cursor and the step that ends a select's
stranding are not fair, for the consumer and the coordinator decide them. The coordinator handles its
messages, workers run what is queued, `prep_stop` goes on while it may, an admitted call
is made and destructors run; since there are finitely many requests, fairness of each
union is enough. Nobody owes a first call, a death or a stop, and the owner of a cursor never
has to give it back: a close that begins under a kept cursor may spin for ever, a worker with
it. `CallsEnd`, `OrphansEnd` and `ShutdownEnds` say that this is all that can go on for ever
(`<>[]Spinning`); `document_stream_close` shows that it can. In a stream the worker that
runs a batch, the owner that drives, the set-up and the collector go on (`WF` of each);
nobody has to resume a continuation, and what `DrivingEnds` promises is that driving comes
to a pause or an end. `NativeDocument` is a program that runs; nothing is claimed of its
progress. In `NifRuntime` the workers, the dispatcher's thread, the unload once begun, and a
destructor that has begun go on; nobody owes an unload, and the end of refusals is a
hypothesis of `HandedOverIsFreed`. `AdmittedIsSettled` has
the hypothesis that workers do not stay paused; `CloseCompletes` is claimed only
without kept cursors and cancelled selects, by the constants of its run. `ShutdownEnds`
excuses a stop that waits for a *stranded* operation, one whose job was cancelled and ended
without a word to the server; a close is never stranded. `StopsDrained` excepts
a server that was restarted since it was told to stop: the new one accepts again, and work
admitted by it after the last poll is cut short by the stop.
`OrphansEnd` holds in `coordinator_live` because only the consumer of a batch dies there,
and `CallsEnd` because nothing stops the application and who shares the table with a
close lives; section 5 has what happens otherwise.

## 4. The proofs

### The document

`DocumentLifecycleProofs` proves, for any finite sets of operations:

- `NoUseAfterFree == Spec => []UsedIsOwned`: while an operation verifies the input,
  traverses the document or holds a cursor, all native objects are alive;
- `CountIsExact == Spec => []AdmissionsBalance`: the admission counter is the number of
  operations between their increment and their decrement;
- `TypeCorrect == Spec => []TypeOK`: in particular the generation ends at 2, one
  publication and one close, whoever races to close;
- `CursorHasOneOwner == Spec => []OneCursor`: at most one operation owns the one-shot
  cursor between its claim and the end of its use;
- `OneThreadFrees == Spec => []OneCleaner`: of the cleanups that meet on a drained document
  one at most frees its native objects;
- `ControlGoesLast == Spec => []NothingLeaks`: when the control block goes, no reference,
  operation, native object or count on the gauge is left;
- `DocumentKeepsPromise == Spec => PromiseSpec`: the document implements `ReclaimedDocument`;
- `UnmadeCursorHasOneOwner == UnmadeSpec => []OneCursor`: the same where the resource of a
  cursor may fail to be allocated, although its admission is then released twice.

Assumption: `OpsAssumption`, the kinds of operations are disjoint and finite. All but the
last are about `Spec`: under `UnmadeSpec` the admission count is wrong, and what rests on it
with it (section 5).

The argument is the handshake of an admission with a cleanup. `UsedIsOwned` alone is
not inductive: nothing in it says why a cleanup that is about to free does not meet a
user. An operation is *sure* (`Sure`) from its successful second test until it gives
up. The invariant `IInv` says that a sure operation, like an open lifecycle, excludes
an operation at `seize` or `free` and a raised `cleanup_started` (`SureIsWhole`,
`OpenIsWhole`); that the count is exact, so that a cleanup which reads zero knows
that nobody is sure; that before delivery only the opening job touches the document
(`Unpublished`, `Constructed`). Most steps are *quiet*: they move one operation within its
class and touch nothing else; lemma `QuietStep` handles them at once. The ones that
carry the argument are `RecheckStep`, where an operation becomes sure because it sees
the document open; `TryCleanupStep`, where zero means nobody is sure; and
`FreedStep`, where the object may change because nobody is. For the types,
`Generations` says that one operation at most is between the winning exchange of
`beginClose` and its increment.

`OneCursor` is proved from an invariant of its own, `CInv`, that mentions neither the
count nor the lifecycle: the value of `projection` names the kind of its owner. While it is
`fresh` nobody owns it; while it is `selecting` or `streaming` the owner is of that kind and
still before its commit; the operations past their commit own it only as `consumed`. So a
claim, a rollback and a commit, which are exchanges on that value, find it as their
operation left it (`RollbackFinds`), and a rollback cannot give away what another claimed.

The end of the document has a third invariant, `EInv`, on top of the first. `Referenced`: an
operation that has begun and not ended has its reference, and the dispatcher gets the control
only when nobody has one. `Gauged`: the gauge counts the document from its delivery to its
first cleanup. `Emptied`: closed means that nothing is owned. `FreedOnce`: while an operation
frees, `cleanup_started` is up and no other does; it needs that a document which somebody can
still reach is closed only by a cleanup. For the refinement, the stage of the abstract document
is read off the lifecycle and the native objects still owned. A winning close is the abstract
`Close`; the abstract `Destroy` is the first object that is freed, which nobody may be using
by `UsedIsOwned`; every other step of a cleanup stutters.

### The pool

`WorkerPoolProofs` proves, for any jobs, any number of workers and any capacity within the
ranges `Pool.start` accepts:

- `EachAnsweredOnce == Spec => []AnsweredOnce`: a request is answered at most once, its caller
  and its observer hear what happened, and the counters have it once;
- `ControlOutlivesItsUsers == Spec => []ControlLifetime`: the reference count of a control is
  the number of its owners;
- `WakeupsReach == Spec => []NoLostWakeup`: no worker sleeps through work, a resume or a stop;
- `StopLeavesNothing == Spec => []NothingOutlivesPool`: nothing of a pool is left when a stop,
  or the rollback of a start, returns;
- `CancelledIsNeverRun == Spec => CancelledInQueueNeverRuns`: a job cancelled in the queue is
  neither executed nor answered;
- `TypeCorrect == Spec => []TypeOK`: in particular no counter falls below zero;
- `PoolImplementsContract == Spec => ContractSpec`: the pool implements `BoundedPool`.

Assumption: `PoolAssumption`, which gives the constants their types and ranges.

The invariant `IInv` has five layers, each proved from those before it. `Shapes` are the
types, without the bounds that only counting justifies. `Threads` relates the phase of the
pool to its threads (`Phased`, `Staffed`) and says who is awake (`Awake`): what `NoLostWakeup`
claims of a live pool has to be kept through its start and its stop. `Owned` gives
a job one place, in the queue or in the hands of one worker. `Delivery` says what the state
word of a request is at each point of the worker that has it (`Standing`), before it was taken
and after it was left (`Decided`), what its recipients heard (`Heard`) and who holds its control
(`Referenced`). `Counted` are the gauges as cardinalities: `running` counts the workers between
taking and accounting for a job, and the requests that ended in a verdict are those counted
plus those whose worker has not accounted for them (`NotCounted`). The steps that
carry the argument are the exchange of `deliver`, which always finds `pending`, since only the
worker that has a job decides its word, and the wake-ups: a submission signals one sleeper,
and the case to exclude is that it was a paused one while another waits for work.

A job cancelled in its queue is followed by an invariant of its own, `Doomed(j)`: it is
unanswered, and wherever it is one of the flags is up that the next test of it reads. Before and
after an execution a worker tests three flags (`Asking`), in `deliver` one; that nobody
lowers one (`Rises`) does the rest. In the refinement the abstract queue is the queue; a job runs
when a worker takes it, and is answered when its message is in the inbox.

### The coordinator

`CoordinatorProofs` proves, for any requests, callers, workers and capacity:

- `EveryCallIsKept == Spec => []NobodyForgotten`: a caller that waits is in the mailbox or in
  the table, and nobody gets two answers;
- `ReservationOutlivesJob == Spec => []JobHoldsReservation`: a select holds its reservation
  as long as its job may use it, the document has one reservation, of a select or of a stream
  and its cursor, and a close ends without any;
- `StopCutsNothingShort == Spec => StopsDrained`: when `prep_stop` asks the pool to stop and the
  server was not restarted meanwhile, every job left in it, but a stream's, was cancelled or
  belongs to a server that is gone;
- `TypeCorrect == Spec => []TypeOK`.

Assumption: `RequestsAssumption`, the kinds of requests are disjoint and finite and callers
make them.

`NobodyForgotten` speaks of one moment of a call; `Row(r)` says of every request what fits
together: which messages about it can be in the mailbox (`Posted`), what its entry means for
the call (`Entered`), and that the answer is outstanding (`Answered`). A submission in the mailbox
excludes an entry and a job, so the handler that removes the entry answers for the first time. A
clause of the server is about one request, so it changes one row (`LocalRows`); the exception is
the restart, which empties table and mailbox at once (`RowsCleared`). `JobHoldsReservation` is
inductive with the rows: a result that releases a reservation is sent only by a job that is over.
For the stop two facts are kept: every job is `Accounted` for by an entry, a cancellation or a
lost server, and once the poll found no request the server only adds streams (`Drained`).
The second is false with a restart between, by which the property had to be weakened: TLC gives
the run, in which `init` sets `accepting` again while `prep_stop` goes on.

### The engines

`NativeDocumentProofs` proves, for sources of any size, and any plans, limits and calls:

- `EveryVerdictIsEarned == Spec => []VerdictIsEarned`: values and path failures are answered only
  of a source read to its end and found sound, and a source is blamed only for a fault it has
  (to the open a number out of range is one);
- `WhatIsOpenedIsReadable == Spec => []OpenedIsReadable`: what the validation let through is
  never malformed for the select that follows, and no number in it out of range;
- `ReadOnce == Spec => OnePass`: what was claimed is not read again.

Assumptions: `SourceAssumption`, `PlanAssumption`, `DecodeAssumption`, `OperationAssumption`,
which give the constants their types.

What a pass found is about the values behind the cursor; what has to be shown is about the whole
source. `Placed` closes the gap: the values are in document order (`InOrder`); the open
containers are those around the cursor, from the outside to the inside (`Nested`); and what a
second pass has still before it lies inside one of them or behind the cursor too (`Ahead`). So a
value has the depth the engine counts, one more than the containers open (`DepthOfNext`), and a
pass whose last container ends has met every value (`EndReached`). `Flow` says which engine may
run at which stage of which call, `Marked` that the projection has one frame for each open container,
`Passing` what a pass accepted so far and `Validated` what an opened document keeps of its
validation: every leaf of it is one that simdjson reads without an error, so no later pass meets
a fault. A binary and a row have no such past, and each fault they answer is one the pass has just
met. The induction on
depth is avoided by counting: `Depth` is the cardinality of the set of containers around a value.

`DecodeProofs` adds what a decode answers, for the same sources and any limits:

- `TheResultIsTheSource == Spec => []GraphIsSource`: an answered graph has one node for each
  value, each text and key copied in full to a place of its own, and for each container its
  members in order;
- `TheLimitsAreExact == Spec => []DecodeVerdictIsTrue`: an answered graph is within all four
  limits, and a decode that blames one has read a source that exceeds it.

Both speak of the end of a pass, and the pass works in an order of its own: the bytes of a key
come before those of the value, the edges of a container are collected in its frame and published
when it ends, behind those of every container that ended before it. `DInv` therefore compares the graph
with the part that was read after each value. `Built` says that all of it is in the graph: each
value has its node, each text its bytes, and each container that has ended its edges at the offset
in its node. `Framed` says the same of the edges of open containers, in their frames. `Exact` says
that nothing else is in the graph: the edges are as many as the values whose container has
ended, and the bytes as many as `OutputBytes` counts. `Within` says that what was accepted keeps the
limits. The interesting steps are three. A value added at the end disturbs nothing before it
(`BuiltGrown`, `ExactGrown`), because offsets point below the length (`Extended`). The end of a container
(`FrameEnded`) moves its frame to the graph and takes it from the open ones, which leaves the two
counts in step. And a refusal (`OpeningBlamed`, `FullBlamed`) is of the value that has just been read,
so that everything but that value was within the limits and the source exceeds the one blamed. The
cardinality of all bytes grows by disjoint unions (`OutputGrows`), and the held-back edges count because
every value but the root is the edge of some container (`EdgesBounded`). With the invariants of the
other engines it gives

- `TypeCorrect == Spec => []EnginesTypeOK`: the types of all three engines; positions, slots, edges
  and offsets stay within what they index.

`NativeDocumentProofs` also proves of the compilation, for any requests:

- `ThePlanIsThePrefixTree == Spec => []PlanIsPrefixTree`: after every path that was entered the plan
  has one node for each prefix of the paths so far, with the slots that end there in order;
  its array edges ascend, its object edges have numbers of their own, and the pass over the
  finished plan counts the requests through each node and finds the least of them.

Here the steps of the specification are large: one action enters a whole path, by a fold over
its segments, and the last one annotates all nodes, by a recursive function. The argument goes inside them.
`Tree(p, w, k)` says that the nodes of p have the paths w, all different, each reached by an edge
from an earlier node (`Trie`), and that the slots of the first k requests are at their nodes (`Filled`).
A segment follows an edge or adds a node at the end (`ObjectStep`, `ArrayStep`), in the second case
with a path no node has (`NodeAdded`): a path determines the node before it and the segment, and that node has
no edge for the segment. The code inserts array edges and slots at a lower bound, and that the
sequence stays sorted is `InsertionInOrder`. A fold is defined by a choice among the functions that
satisfy its recursion; that one exists is shown by building it (`FoldSolved`), and what it
computes by induction over a set of numbers, which the prover reaches through the least element of its
complement (`Reached`). The annotation is of the same kind: the requests through a node
end there or go through exactly one child (`ThroughSplit`, `ThroughApart`), children come after their
parent (`ChildPath`), and so the counts add up from the last node to the first (`CountNoted`, `NotedExact`).
That descriptors without gaps or repetitions name a path for every slot is a counting argument
(`RequestNamed`). `PlanInv` ties this to the states in which a plan exists.

`ProjectionProofs` adds, for any sources, requests and sequences of calls:

- `TheProjectionIsTheReference == Spec => []ProjectionMatchesReference`: the answer of the single
  pass is what following every path on its own finds, in a success and in a failure.

The reference follows a path in the whole source, and the pass has the source before it value by
value. The proof speaks of the part that was read (`SoFar`): `Trace` follows a path in a part,
and a value added at the end is where at most one new path leads (`SpotGrows`). `PassOf` says what a
pass has made of a part:

- `Cursor`: each open container is where the path of its node leads (`Led`), and in an array the next edge
  wanted is the first one not behind the element (`Abreast`). A container no path leads to has
  no node, and neither has anything in it;
- `AreMet`: the edges counted as met are those whose paths lead somewhere, by which a
  repeated key is passed over;
- `InSlots`: a slot holds the value its path leads to, if that is no container;
- `Remembered`: the failure that is kept is true (`Verdict`), and no lower slot has failed save one
  whose index is beyond a lower one of the same array (`Excused`).

The last part is the delicate one. A path fails in three ways, at three moments: at a value of the wrong
kind when it is met (`Wrong`), at a missing key and at an index out of bounds when the container
ends (`Absent`). The code notes the least slot of a whole subtree each time, for a missing index
that of the first edge only, and takes the lesser of two. `Remembered` is stated by the set of all
slots that have failed so far, of which a step adds some (`Recorded`), so that the order in which
failures are found drops out; that an end never becomes untrue later is `AbsentSame`, because a
container that has ended gets no more members. At the end of the root no container is open,
every path has led somewhere or has failed for good (`VerdictFound`), and a path that failed in
a part fails so in the reference (`VerdictTrue`, `TraceStays`). `Compiled` is what the plan contributes: it is the
prefix tree, so each path is that of one node and each node's least slot is known (`LeastOfAll`). A
select over an opened document starts from `EmptySlots`, and `PassInv` carries the pass
through the calls.

### The stream

`StreamSessionProofs` proves, for any sources (their levels, rows and sizes), limits and
number of batches:

- `PlanHasOneOwner == Spec => []PlanDestroyedOnce`: the projection plan is destroyed once;
- `EndOfChangedFile == Spec => ChangeIsNoticed`: no reader of a file that changed is told
  `done`;
- `TypeCorrect == Spec => []StreamTypeOK`;
- `RowsInOrder == ASSUME ~Overlapping PROVE Spec => []DeliveredInOrder`: what any
  continuation gave and holds are the first rows of the source, in order;
- `DoneMeansWhole == ASSUME ~Overlapping PROVE Spec => []DoneIsWhole`: an enumeration that
  ended with `:done` gave every row of a source that was valid to its end;
- `LayersInStep == Spec => []LayersAgree`: demand and cursor agree between two batches, and no
  row is projected twice.

Assumptions: `LimitsAssumption`, `SourcesAssumption`, `SessionAssumption`, which give the
constants their types; and, for `RowsInOrder` and `DoneMeansWhole`, that no continuation is
halted under a running batch: a batch may then run on without its cursor
(`MCStreamOverlap.cfg`, section 5).

The plan and the file need one look at each step. The order of the rows does not: nothing in
`DeliveredInOrder` says why a continuation that is resumed a second time gets no row twice.
The invariant `IInv` has five layers, each proved from those before it. `CursorShaped` and
`SessionShaped` are the types. `Held` says who may touch the native cursor: a batch under way
belongs to a job that holds the demand, under the demand's number. `Reading` says where the
reader is: while the cursor rests or fills a batch, the rows projected are those in
batches and the pending one, and the count of batches is the demand's. `Validated` says what
was found valid at each stage of a completion. `Ordered` ties the reductions to it: a
reduction whose number is the demand's next one has exactly the rows before the reader
(`r.number = next => Count(r) = row`), and one with an older number will be refused by
`Reserved`. The steps that carry the argument are `OrderByFinish`, where the number moves on
and every other continuation becomes an old one, and the answer in `OrderStep`, where the rows
of a batch join those a reduction has (`BlocksJoined`). The layers up to `Validated` hold
whoever closes the cursor, which is why `LayersInStep` and `TypeCorrect` need no hypothesis; the
latter includes that
the levels of a source are entered once, although the cursor stays ready when it could not
locate its target.

### The runtime

`NifRuntimeProofs` proves, for any finite sets of operations and documents:

- `RecordsCountedOnce == Spec => []CountedOnce`: every record ends in one verdict, counted
  once, and the gauges are the numbers of the records they are about, so no assertion before
  a decrement can fail;
- `CancellationSticks == Spec => []CancelSticks`: once `cancel` returned, the operation neither
  waits nor counts as running;
- `DetachedStaysLinked == Spec => []ListsHoldDetached`: the links of each list visit exactly the
  documents in it, each once.

Assumptions: `OpsAssumption` (here: the set is finite) and `DocsAssumption` (finite, and the
null pointer is no document). The parts are proved by themselves (`VerdictsCountedOnce`,
`CancelledStaysOut`, `HandedOverStaysLinked`), and the composition takes only steps of either.

A worker stores into the word without looking, so that a verdict is not overwritten has to
come from elsewhere: `Shaped` says what a worker may find at each of its steps (`Found`), and
a terminal state is found only by a worker past its last store. The counts move by the record
of the step alone (`CountsMove`). A list is easier to change than to count: the proof states
it as an enumeration of free length (`Whole`), shows what an append, a removal and the joining of
two lists do to one (`AppendToList`, `TakeFromList`, `JoinLists`), and equates it with the
definition by cardinality at the end (`WholeChains`).

### What is only model-checked

All liveness: `AdmittedIsSettled` and `StopCompletes` of the pool, `DroppedIsFreed` and
`CloseCompletes` of the document, `CallsEnd`, `OrphansEnd` and `ShutdownEnds` of the
coordinator, `DrivingEnds` of a stream and `HandedOverIsFreed` of the dispatcher. They rest on
fairness, hence on `ENABLED`, which is out of the prover's reach.

## 5. Where the code and its documents differ

Checked with every run:

- A close does not reach a stream cursor of the document (`document_stream_close`). ADR 0009
  promises that a close requests the cancellation of an active cursor. The code only
  stops new work and spins in a pool worker until the consumer gives the cursor back;
  an owner that closes from inside its own reducer waits for ever.
- The open, select or setup of a dead caller is cancelled and kept for ever (`coordinator_dead_owner`).
  The pool tells nobody about a cancelled job and the table waits for a completion, so the
  entry stays, with its reservation and the admission of its document. `begin_shutdown`
  meets the same silence: it cancels the opens, selects and decodes in the table, whose
  callers are then not answered, and the poll of `prep_stop` for an empty table does not end.

Further configurations, each of a few seconds, show the rest (`tlc -config X.cfg` on
the module the name begins with):

- `MCNativeDocumentBigIntegers.cfg`: an integer beyond 64 bits is text that is no JSON to an
  open. `validate_value` asks for the value of every number, simdjson answers `BIGINT_ERROR`, and
  `status_from_simdjson` does not list it: the open is refused with `invalid_json`. CHANGELOG.md:69
  and docs/releases/support.md:64 say that integers outside 64 bits fail with
  `number_out_of_range`, as they do in a select from a binary and in `decode`.
- `MCStreamOverlap.cfg`: a continuation that another process halts while the owner's batch runs
  destroys the cursor under the worker. Milestone 03 says that an early halt waits for the job in flight
  or detaches it; `stream_cursor_resource_close` does not look at the demand state, and
  `simd_json_abi.h` leaves it to the layer above to keep the two apart.
- `MCDocumentBatch.cfg`: a batch does not look at the generation of its document, which ADR
  0009 says it does before every dereference and delivery. The admission that the
  cursor keeps makes it safe all the same, which is what `UsedIsOwned` shows.
- `MCUnmadeCursor.cfg`: a release too many. When the resource of a new cursor cannot be
  allocated, `destroyStreamCursorControl` releases the admission and the deferred release
  of `threaded_stream_setup_fixture` does so again: `releaseAdmissionCount` then fails
  its assertion that the count was positive or, with another operation admitted, takes
  that one's admission. Reachable only when the emulator is out of memory.
- `MCWorkerPoolShutdown.cfg`: a stop executes what is queued; the specification of the pool
  says that shutdown cancels queued work before execution.
- `MCCoordinatorBusySweep.cfg`: the cleanup of an orphaned document can be refused by a full
  queue; `maybe_cleanup_orphan` has nobody to answer and the refusal is replied to `nil`, which
  raises (`operation_coordinator.ex`, lines 1020 and 620). The restart that follows makes
  every waiting call exit.
- `MCCoordinatorLateStream.cfg`: a stream is admitted after shutdown started, for its clause
  tests nothing; native_execution.spec.md says that new work is rejected.
- `MCCoordinatorLateBatch.cfg`: a batch so admitted after the last poll is run by the stopping
  pool, which drops its result and notifies the coordinator only; its consumer waits in a
  `receive` without a timeout.
- `MCNativeDocumentTrailing.cfg`: text behind the root value of a decode. The decoder never asks
  whether the input ends with the root (`at_end` is the stream cursor's alone), and the
  check made when the root is opened looks at the last structural character only, so
  `[1] [2]` decodes as its first value; milestone 05 and releases/support.md say that
  trailing data is rejected.

- `MCNifRuntimeUnload.cfg`: a document dropped after the library hid its dispatcher is
  counted as a failed cleanup and never freed; ADR 0002 counts the unload among the events
  that converge on the exactly-once cleanup. `MCNifRuntimeStraying.cfg`: nothing in the code
  keeps a destructor that loaded `runtime_ref` from finding the dispatcher freed. Both need an
  unload of the shared object, which the documents call unqualified.

The other configurations are larger instances and pass: `MCDocumentCursor.cfg` (two
selects, a stream, a probe, two closes: `OneCursor` and `OneCleaner`, some minutes),
`MCWorkerPoolThreads.cfg` (3 jobs in a queue of two), `MCNifRuntimeRecords.cfg` (two operations),
`MCNifRuntimeLists.cfg` (three documents).

Two more things that no document contradicts. A close that is refused because the queue
is full has made the document closing and cancelled its selects all the same; only
another close gets it further. And a close, which occupies a worker until every
admission is released, never starts ahead of a select it waits for, only because the queue
is FIFO.

## 6. What is abstracted, and what is not modelled

- Atomics are sequentially consistent in the models. The code asks for acquire-release,
  under which a store and a later load of another variable may be exchanged; on x86-64
  the read-modify-writes of the handshake order them. The hazard is listed.
- Bytes, JSON text, timing, telemetry and error wording. simdjson is external: `OnDemand` says
  what the engines see of it, and an index or a parse may fail for want of memory at any call.
- The translation between Elixir and the engines: paths and options into descriptors, slots,
  rows and graphs into terms. The choice of keys of a decoded object is part of it.
- In a stream, how a row is projected (it has an outcome and a size; `Projection` says how it
  comes about), the set-up of a binary with its owned document, and simdjson's
  `iterate_many`. Truncation at the end is checked by the code for newline-delimited
  JSON only, which is why a `file` always ends.
- Test hooks, except the pause of workers, which changes who waits on the condition.
- The serialized fixture resource of the pool, and the legacy path of the coordinator over
  worker processes, used only by tests. Which of its answers a caller gets, and the test that
  a completion belongs to its request, whose tags the pool and the table make equal.
- Of the operation record: the gauges kept per kind, which follow those modelled, and the pause
  at a boundary (a test hook). Its reservation is in `Coordinator` and `DocumentLifecycle`.
  `CountedOnce` and the gauges of `ListsHoldDetached` are not claimed of a snapshot between an
  exchange and its gauge, the latter not after an unload began, whose `swap(0)` also takes the
  documents that were only counted.
- The in-place upgrade of the library, which the load refuses.
- Handles, NULL arguments and struct layouts of the C interface; option validation; the
  public API. They keep no state the properties could tell apart.
- Vendored code, build scripts, benchmarks and precompiled artefacts.

## 7. Plan

Done: the pool, the document, the coordinator, the engines, the stream and the runtime, in
this order. Next:

1. The set-up of a stream over a binary, and the composition of `StreamSession` with
   `DocumentLifecycle` through the admission a cursor keeps.
2. The conversion of a graph into terms, and option validation.

The set of runs is kept small enough to repeat on every change; counterexamples become
configurations outside the set, like those at the end of section 5, where a
question about a new component needs their place.
