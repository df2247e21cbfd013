-------------------------- MODULE WorkerPoolProofs --------------------------
(***************************************************************************)
(* Theorems about WorkerPool for any set of jobs, any number of workers    *)
(* and any queue capacity: its invariants, and that it implements          *)
(* BoundedPool.  A last invariant follows a job that was cancelled in the  *)
(* queue (Doomed) to the test that ends it.                                *)
(*                                                                         *)
(* The inductive invariant is built in five layers, each of which rests on *)
(* the ones before it: the types, the threads and what they wait for, the  *)
(* ownership of the jobs, the delivery of results, and the counters.       *)
(***************************************************************************)
EXTENDS WorkerPool, FiniteSetTheorems, TLAPS

-----------------------------------------------------------------------------
(* The inductive invariant. *)

\* The types, without the bounds that only the counting below justifies, in
\* parts that few actions touch at once.
PoolShape ==
  /\ phase \in Phases
  /\ starts \in 0..MaxStarts /\ started \in 0..NumWorkers /\ live \in Int
  /\ pauses \in 0..MaxPauses

GateShape ==
  /\ accepting \in BOOLEAN /\ shutdownRequested \in BOOLEAN
  /\ stopping \in BOOLEAN /\ paused \in BOOLEAN

QueueShape ==
  /\ mutex \in Workers \cup {NoOne}
  /\ queue \in Seq(Jobs)
  /\ count \in [Counters -> Int]
  /\ admittedBy \in [Jobs -> 0..MaxStarts]

WorkerShape ==
  /\ pc \in [Workers -> WorkerPoints]
  /\ held \in [Workers -> Jobs \cup {NoJob}]
  /\ outcome \in [Workers -> Verdicts]

ClientShape ==
  /\ submitting \in Jobs \cup {NoJob}
  /\ kind \in [Jobs -> Kinds \cup {"none", "direct"}]
  /\ inbox \in [Jobs -> Nat]
  /\ observed \in [Jobs -> SUBSET Outcomes]

ProcessShape == handle \in [Jobs -> BOOLEAN] /\ alive \in [Jobs -> BOOLEAN]

Controls == [terminal : TerminalStates, cancelled : BOOLEAN, monitored : BOOLEAN, refs : Int]

RequestShape == request \in [Jobs -> Controls]

CancelShape == jobCancelled \in [Jobs -> BOOLEAN] /\ opCancelled \in [Jobs -> BOOLEAN]

Shapes ==
  /\ PoolShape /\ GateShape /\ QueueShape /\ WorkerShape
  /\ ClientShape /\ ProcessShape /\ RequestShape /\ CancelShape

\* The points at which a worker has a job, those before the job's terminal
\* state is decided, and those after.
Unanswered == {"waitPause", "repause", "probe", "run", "post", "settle", "load", "exchange"}
Answered   == {"destroy", "account"}
Serving    == Unanswered \cup {"send"} \cup Answered
Leaving    == {"exiting", "gone"}

\* The phase of the pool, its threads, the mutex and the guard agree.
Phased ==
  /\ phase \in {"starting", "live", "stopping"} => ~stopping
  /\ phase = "joining" => stopping
  /\ phase = "live" => started = NumWorkers
  /\ phase # "absent" => starts > 0
  /\ submitting # NoJob => phase = "live"
  /\ mutex # NoOne => pc[mutex] = "entry"
  /\ queue # <<>> => started = NumWorkers /\ phase \in {"live", "stopping", "joining"}

\* A worker leaves only once the pool stops and the queue is empty.
Staffed ==
  \A w \in Workers :
    /\ pc[w] = "off" <=> w > started
    /\ pc[w] \in Leaving => queue = <<>> /\ phase \in {"joining", "absent"}
    /\ phase = "absent" => pc[w] \in {"off", "gone"}
    /\ held[w] # NoJob <=> pc[w] \in Serving

\* NoLostWakeup, in every phase.
Awake ==
  /\ (queue # <<>> /\ ~paused) => \E w \in Workers : pc[w] \notin {"waitQueue", "gone"}
  /\ ~paused \/ stopping => \A w \in Workers : pc[w] # "waitPause"
  /\ stopping => \A w \in Workers : pc[w] # "waitQueue"

Threads == Phased /\ Staffed /\ Awake

Entries(q)  == {q[i] : i \in 1..Len(q)}
Distinct(q) == \A i, k \in 1..Len(q) : q[i] = q[k] => i = k

\* A job is in the queue at one place, or in the hands of one worker, or in
\* neither; what is in either was admitted by this creation of the pool.
Owned ==
  /\ Distinct(queue) /\ Len(queue) <= QueueCapacity
  /\ \A j \in Entries(queue) : admittedBy[j] = starts /\ starts > 0
  /\ \A w \in Workers : held[w] # NoJob =>
       /\ admittedBy[held[w]] = starts /\ starts > 0
       /\ held[w] \notin Entries(queue)
       /\ \A v \in Workers : held[v] = held[w] => v = w
  /\ submitting # NoJob => admittedBy[submitting] = 0 /\ kind[submitting] # "none"
  /\ \A j \in Jobs : admittedBy[j] <= starts /\ (kind[j] = "none" => admittedBy[j] = 0)

\* The request of the job a worker has, by the point the worker is at.
Standing(w) ==
  /\ pc[w] \in Unanswered => request[held[w]].terminal = "pending"
  /\ pc[w] \in {"load", "exchange", "send"} => HasRequest(held[w])
  /\ pc[w] = "send" => request[held[w]].terminal = "delivering"
  /\ pc[w] \in Answered =>
       IF HasRequest(held[w])
       THEN outcome[w] = request[held[w]].terminal /\ outcome[w] \in Outcomes
       ELSE outcome[w] \in {"none", "cancelled"}

InHands(j) == \E w \in Workers : held[w] = j

\* A request is pending until its job is begun, and decided once it is over.
Decided(j) ==
  /\ ~HasRequest(j) \/ admittedBy[j] = 0 \/ j \in Entries(queue) =>
       request[j].terminal = "pending"
  /\ HasRequest(j) /\ admittedBy[j] > 0 /\ j \notin Entries(queue) /\ ~InHands(j) =>
       request[j].terminal \in Outcomes

Heard(j) == HeardOnce(j) /\ (kind[j] = "none" => observed[j] = {})

One(b) == IF b THEN 1 ELSE 0

\* ControlLifetime, and what the destructor and errdefer rest on.
Referenced(j) ==
  /\ handle[j] => HasRequest(j)
  /\ ~HasRequest(j) => request[j].refs = 0
  /\ HasRequest(j) => request[j].refs = One(handle[j]) + One(JobReaches(j))
  /\ submitting = j /\ HasRequest(j) => handle[j]

Delivery ==
  /\ \A w \in Workers : Standing(w)
  /\ \A j \in Jobs : Decided(j) /\ Heard(j) /\ Referenced(j)

Booted        == {w \in Workers : pc[w] \notin {"off", "born", "gone"}}
EverAdmitted  == {j \in Jobs : admittedBy[j] > 0}
Ended(o)      == {j \in Admitted : request[j].terminal = o}
NotCounted(o) == {w \in Workers : pc[w] \in Answered /\ outcome[w] = o}

Counted ==
  /\ IsFiniteSet(EverAdmitted)
  /\ live = Cardinality(Booted)
  /\ count["running"] = Cardinality(Busy)
  /\ \A c \in Counters \ {"running"} : count[c] >= 0
  /\ \A o \in {"delivered", "discarded"} :
       Cardinality(Ended(o)) = count[o] + Cardinality(NotCounted(o))

IInv == Shapes /\ Threads /\ Owned /\ Delivery /\ Counted

-----------------------------------------------------------------------------
(* The shapes. *)

LEMMA ShapeFrames ==
  /\ PoolShape /\ UNCHANGED poolVars => PoolShape'
  /\ GateShape /\ UNCHANGED poolVars => GateShape'
  /\ QueueShape /\ UNCHANGED queueVars => QueueShape'
  /\ WorkerShape /\ UNCHANGED workerVars => WorkerShape'
  /\ ClientShape /\ UNCHANGED clientVars => ClientShape'
  /\ ProcessShape /\ UNCHANGED clientVars => ProcessShape'
  /\ RequestShape /\ UNCHANGED flagVars => RequestShape'
  /\ CancelShape /\ UNCHANGED flagVars => CancelShape'
<1>1. PoolShape /\ UNCHANGED poolVars => PoolShape'
  BY DEF PoolShape, poolVars
<1>2. GateShape /\ UNCHANGED poolVars => GateShape'
  BY DEF GateShape, poolVars
<1>3. QueueShape /\ UNCHANGED queueVars => QueueShape'
  BY DEF QueueShape, queueVars
<1>4. WorkerShape /\ UNCHANGED workerVars => WorkerShape'
  BY DEF WorkerShape, workerVars
<1>5. ClientShape /\ UNCHANGED clientVars => ClientShape'
  BY DEF ClientShape, clientVars
<1>6. ProcessShape /\ UNCHANGED clientVars => ProcessShape'
  BY DEF ProcessShape, clientVars
<1>7. RequestShape /\ UNCHANGED flagVars => RequestShape'
  BY DEF RequestShape, flagVars
<1>8. CancelShape /\ UNCHANGED flagVars => CancelShape'
  BY DEF CancelShape, flagVars
<1> QED
  BY <1>1, <1>2, <1>3, <1>4, <1>5, <1>6, <1>7, <1>8

LEMMA Points ==
  /\ WorkerPoints =
       {"off", "born", "entry", "waitQueue", "waitPause", "repause", "probe", "run",
        "post", "settle", "load", "exchange", "send", "destroy", "account",
        "exiting", "gone"}
  /\ \A p \in WorkerPoints : Woken(p) \in WorkerPoints
<1>1. ASSUME NEW p \in WorkerPoints
      PROVE  Woken(p) \in WorkerPoints
  BY DEF Woken, WorkerPoints
<1> QED
  BY <1>1 DEF WorkerPoints

LEMMA ControlUpdates ==
  ASSUME NEW r \in Controls
  PROVE  /\ Cancelled(r) \in Controls
         /\ Retained(r) \in Controls
         /\ Released(r) \in Controls
         /\ [r EXCEPT !.monitored = FALSE] \in Controls
         /\ \A b \in BOOLEAN : [r EXCEPT !.refs = 1, !.monitored = b] \in Controls
         /\ \A t \in TerminalStates : [r EXCEPT !.terminal = t] \in Controls
<1>1. Cancelled(r) \in Controls
  BY DEF Controls, Cancelled
<1>2. Retained(r) \in Controls
  BY DEF Controls, Retained
<1>3. Released(r) \in Controls
  BY DEF Controls, Released
<1>4. [r EXCEPT !.monitored = FALSE] \in Controls
  BY DEF Controls
<1>5. ASSUME NEW b \in BOOLEAN
      PROVE  [r EXCEPT !.refs = 1, !.monitored = b] \in Controls
  <2>1. \A n \in Int : [r EXCEPT !.refs = n, !.monitored = b] \in Controls
    BY DEF Controls
  <2>2. 1 \in Int
    OBVIOUS
  <2> QED
    BY <2>1, <2>2, Zenon
<1>6. \A t \in TerminalStates : [r EXCEPT !.terminal = t] \in Controls
  BY DEF Controls
<1> QED
  BY <1>1, <1>2, <1>3, <1>4, <1>5, <1>6

LEMMA RequestAt ==
  ASSUME RequestShape, NEW j \in Jobs
  PROVE  request[j] \in Controls
BY DEF RequestShape

LEMMA RequestPut ==
  ASSUME RequestShape, NEW j, NEW r, j \in Jobs => r \in Controls,
         request' = [request EXCEPT ![j] = r]
  PROVE  RequestShape'
BY DEF RequestShape

LEMMA RequestEnds ==
  ASSUME RequestShape, NEW j, NEW t, j \in Jobs => t \in TerminalStates,
         request' = [request EXCEPT ![j].terminal = t]
  PROVE  RequestShape'
<1>1. request' = [request EXCEPT ![j] = [request[j] EXCEPT !.terminal = t]]
  OBVIOUS
<1>2. j \in Jobs => [request[j] EXCEPT !.terminal = t] \in Controls
  BY RequestAt, ControlUpdates
<1> QED
  BY <1>1, <1>2, RequestPut

\* The fields that BeginSubmit sets in one expression.
LEMMA RequestMade ==
  ASSUME RequestShape, NEW j \in Jobs
  PROVE  [request EXCEPT ![j].refs = 1, ![j].monitored = TRUE] =
           [request EXCEPT ![j] = [request[j] EXCEPT !.refs = 1, !.monitored = TRUE]]
<1>1. \A b \in BOOLEAN :
        [request EXCEPT ![j].refs = 1, ![j].monitored = b] =
          [request EXCEPT ![j] = [request[j] EXCEPT !.refs = 1, !.monitored = b]]
  BY DEF RequestShape
<1> QED
  BY <1>1, Zenon

LEMMA RequestKept ==
  ASSUME RequestShape, request' = request
  PROVE  RequestShape'
BY DEF RequestShape

LEMMA AbandonedShape ==
  ASSUME RequestShape, NEW j \in Jobs, Abandoned(j)
  PROVE  RequestShape'
<1>1. [Released(request[j]) EXCEPT !.monitored = FALSE] \in Controls
  BY RequestAt, ControlUpdates
<1>2. CASE HasRequest(j)
  BY <1>1, <1>2, RequestPut DEF Abandoned
<1>3. CASE ~HasRequest(j)
  BY <1>3, RequestKept DEF Abandoned
<1> QED
  BY <1>2, <1>3

LEMMA ShapesStep ==
  ASSUME Shapes, [Next]_vars
  PROVE  Shapes'

<1>0. PoolShape /\ GateShape /\ QueueShape /\ WorkerShape /\ ClientShape /\ ProcessShape
      /\ RequestShape /\ CancelShape
  BY DEF Shapes
<1>1. CASE StartPool
  <2>1. PoolShape'
    BY <1>0, <1>1, PoolAssumption DEF PoolShape, StartPool, Phases
  <2>2. GateShape'
    BY <1>0, <1>1, Zenon DEF GateShape, StartPool
  <2>3. QueueShape'
    BY <1>0, <1>1 DEF QueueShape, StartPool, NoCounts
  <2>4. WorkerShape'
    BY <1>0, <1>1, Points DEF WorkerShape, StartPool
  <2> QED
    BY <2>1, <2>2, <2>3, <2>4, <1>1, <1>0, ShapeFrames DEF Shapes, StartPool
<1>2. CASE SpawnWorker
  <2>1. PoolShape'
    BY <1>0, <1>2, PoolAssumption DEF PoolShape, SpawnWorker, Phases
  <2>2. WorkerShape'
    BY <1>0, <1>2, PoolAssumption, Points DEF WorkerShape, SpawnWorker, Workers, PoolShape
  <2>3. GateShape'
    BY <1>0, <1>2, PoolAssumption DEF GateShape, SpawnWorker
  <2> QED
    BY <2>1, <2>2, <2>3, <1>2, <1>0, ShapeFrames DEF Shapes, SpawnWorker
<1>3. CASE SpawnFails
  <2>1. PoolShape'
    BY <1>0, <1>3, PoolAssumption DEF PoolShape, SpawnFails, Phases
  <2>2. GateShape'
    BY <1>0, <1>3, Zenon DEF GateShape, SpawnFails
  <2> QED
    BY <2>1, <2>2, <1>3, <1>0, ShapeFrames DEF Shapes, SpawnFails
<1>4. CASE PublishPool
  <2>1. PoolShape'
    BY <1>0, <1>4, PoolAssumption DEF PoolShape, PublishPool, Phases
  <2>2. GateShape'
    BY <1>0, <1>4 DEF GateShape, PublishPool
  <2> QED
    BY <2>1, <2>2, <1>4, <1>0, ShapeFrames DEF Shapes, PublishPool
<1>5. CASE StopPool
  <2>1. PoolShape'
    BY <1>0, <1>5, PoolAssumption DEF PoolShape, StopPool, Phases
  <2>2. GateShape'
    BY <1>0, <1>5, Zenon DEF GateShape, StopPool
  <2> QED
    BY <2>1, <2>2, <1>5, <1>0, ShapeFrames DEF Shapes, StopPool
<1>6. CASE RaiseStopping
  <2>1. PoolShape'
    BY <1>0, <1>6, PoolAssumption DEF PoolShape, RaiseStopping, Phases
  <2>2. GateShape'
    BY <1>0, <1>6, Zenon DEF GateShape, RaiseStopping
  <2>3. WorkerShape'
    BY <1>0, <1>6, Points DEF WorkerShape, RaiseStopping, Broadcast
  <2> QED
    BY <2>1, <2>2, <2>3, <1>6, <1>0, ShapeFrames DEF Shapes, RaiseStopping
<1>7. CASE JoinWorkers
  <2>1. PoolShape'
    BY <1>0, <1>7, PoolAssumption DEF PoolShape, JoinWorkers, Phases
  <2>2. GateShape'
    BY <1>0, <1>7 DEF GateShape, JoinWorkers
  <2> QED
    BY <2>1, <2>2, <1>7, <1>0, ShapeFrames DEF Shapes, JoinWorkers
<1>8. CASE PauseWorkers
  <2>1. PoolShape'
    BY <1>0, <1>8, PoolAssumption DEF PoolShape, PauseWorkers
  <2>2. GateShape'
    BY <1>0, <1>8, Zenon DEF GateShape, PauseWorkers
  <2> QED
    BY <2>1, <2>2, <1>8, <1>0, ShapeFrames DEF Shapes, PauseWorkers
<1>9. CASE ResumeWorkers
  <2>1. PoolShape'
    BY <1>0, <1>9, PoolAssumption DEF PoolShape, ResumeWorkers
  <2>2. GateShape'
    BY <1>0, <1>9, Zenon DEF GateShape, ResumeWorkers
  <2>3. WorkerShape'
    BY <1>0, <1>9, Points DEF WorkerShape, ResumeWorkers, Broadcast
  <2> QED
    BY <2>1, <2>2, <2>3, <1>9, <1>0, ShapeFrames DEF Shapes, ResumeWorkers
<1>10. ASSUME NEW j \in Jobs, NEW k \in Kinds, BeginSubmit(j, k)
      PROVE  Shapes'
  <2>1. ClientShape'
    BY <1>0, <1>10 DEF ClientShape, BeginSubmit
  <2>2. ProcessShape'
    BY <1>0, <1>10, Zenon DEF ProcessShape, BeginSubmit
  <2>3. RequestShape'
    <3>1. CASE k = "plain"
      BY <1>0, <1>10, <3>1 DEF RequestShape, BeginSubmit
    <3>2. CASE k # "plain"
      <4>1. request' = [request EXCEPT ![j] = [request[j] EXCEPT !.refs = 1, !.monitored = TRUE]]
        BY <1>0, <1>10, <3>2, RequestMade, Zenon DEF BeginSubmit
      <4>2. [request[j] EXCEPT !.refs = 1, !.monitored = TRUE] \in Controls
        BY <1>0, RequestAt, ControlUpdates, Zenon
      <4> QED
        BY <1>0, <4>1, <4>2, RequestPut
    <3> QED
      BY <3>1, <3>2
  <2>4. CancelShape'
    BY <1>0, <1>10 DEF CancelShape, BeginSubmit, flagVars
  <2> QED
    BY <2>1, <2>2, <2>3, <2>4, <1>10, <1>0, ShapeFrames DEF Shapes, BeginSubmit
<1>11. ASSUME NEW j \in Jobs, MonitorFails(j)
      PROVE  Shapes'
  <2>1. ClientShape'
    BY <1>0, <1>11 DEF ClientShape, MonitorFails
  <2>2. ProcessShape'
    BY <1>0, <1>11 DEF ProcessShape, MonitorFails
  <2> QED
    BY <2>1, <2>2, <1>11, <1>0, ShapeFrames DEF Shapes, MonitorFails
<1>12. ASSUME NEW j \in Jobs, Enqueue(j)
      PROVE  Shapes'
  <2>1. QueueShape'
    BY <1>0, <1>12 DEF QueueShape, Enqueue, PoolShape
  <2>2. WorkerShape'
    BY <1>0, <1>12, Points DEF WorkerShape, Enqueue, Signalled, Waiting
  <2>3. ClientShape'
    BY <1>0, <1>12 DEF ClientShape, Enqueue
  <2>4. ProcessShape'
    BY <1>0, <1>12 DEF ProcessShape, Enqueue
  <2>5. RequestShape'
    BY <1>0, <1>12, RequestPut, ControlUpdates DEF RequestShape, Enqueue
  <2>6. CancelShape'
    BY <1>0, <1>12 DEF CancelShape, Enqueue
  <2> QED
    BY <2>1, <2>2, <2>3, <2>4, <2>5, <2>6, <1>12, <1>0, ShapeFrames DEF Shapes, Enqueue
<1>13. ASSUME NEW j \in Jobs, Reject(j)
      PROVE  Shapes'
  <2>1. QueueShape'
    BY <1>0, <1>13 DEF QueueShape, Reject, Counters
  <2>2. ClientShape'
    BY <1>0, <1>13 DEF ClientShape, Reject
  <2>3. ProcessShape'
    BY <1>0, <1>13, Zenon DEF ProcessShape, Reject, Abandoned
  <2>4. RequestShape'
    BY <1>0, <1>13, AbandonedShape DEF Reject
  <2>5. CancelShape'
    BY <1>0, <1>13 DEF CancelShape, Reject
  <2> QED
    BY <2>1, <2>2, <2>3, <2>4, <2>5, <1>13, <1>0, ShapeFrames DEF Shapes, Reject
<1>14. ASSUME NEW j \in Jobs, OutOfMemory(j)
      PROVE  Shapes'
  <2>1. ClientShape'
    BY <1>0, <1>14 DEF ClientShape, OutOfMemory
  <2>2. ProcessShape'
    BY <1>0, <1>14, Zenon DEF ProcessShape, OutOfMemory, Abandoned
  <2>3. RequestShape'
    BY <1>0, <1>14, AbandonedShape DEF OutOfMemory
  <2>4. CancelShape'
    BY <1>0, <1>14 DEF CancelShape, OutOfMemory
  <2> QED
    BY <2>1, <2>2, <2>3, <2>4, <1>14, <1>0, ShapeFrames DEF Shapes, OutOfMemory
<1>15. ASSUME NEW j \in Jobs, CancelRequest(j)
      PROVE  Shapes'
  <2>1. RequestShape'
    BY <1>0, <1>15, RequestPut, ControlUpdates DEF RequestShape, CancelRequest
  <2>2. CancelShape'
    BY <1>0, <1>15 DEF CancelShape, CancelRequest
  <2> QED
    BY <2>1, <2>2, <1>15, <1>0, ShapeFrames DEF Shapes, CancelRequest
<1>16. ASSUME NEW j \in Jobs, CancelOperation(j)
      PROVE  Shapes'
  <2>1. RequestShape'
    BY <1>0, <1>16 DEF RequestShape, CancelOperation
  <2>2. CancelShape'
    BY <1>0, <1>16, Zenon DEF CancelShape, CancelOperation
  <2> QED
    BY <2>1, <2>2, <1>16, <1>0, ShapeFrames DEF Shapes, CancelOperation
<1>17. ASSUME NEW j \in Jobs, RecipientDies(j)
      PROVE  Shapes'
  <2>1. ClientShape'
    BY <1>0, <1>17 DEF ClientShape, RecipientDies
  <2>2. ProcessShape'
    BY <1>0, <1>17, Zenon DEF ProcessShape, RecipientDies
  <2> QED
    BY <2>1, <2>2, <1>17, <1>0, ShapeFrames DEF Shapes, RecipientDies
<1>18. ASSUME NEW j \in Jobs, MonitorDown(j)
      PROVE  Shapes'
  <2>1. RequestShape'
    BY <1>0, <1>18, RequestPut, ControlUpdates DEF RequestShape, MonitorDown
  <2>2. CancelShape'
    BY <1>0, <1>18 DEF CancelShape, MonitorDown
  <2> QED
    BY <2>1, <2>2, <1>18, <1>0, ShapeFrames DEF Shapes, MonitorDown
<1>19. ASSUME NEW j \in Jobs, AbandonMonitor(j)
      PROVE  Shapes'
  <2>1. RequestShape'
    BY <1>0, <1>19, RequestPut, ControlUpdates DEF RequestShape, AbandonMonitor
  <2>2. CancelShape'
    BY <1>0, <1>19 DEF CancelShape, AbandonMonitor
  <2> QED
    BY <2>1, <2>2, <1>19, <1>0, ShapeFrames DEF Shapes, AbandonMonitor
<1>20. ASSUME NEW j \in Jobs, CollectRequest(j)
      PROVE  Shapes'
  <2>1. ClientShape'
    BY <1>0, <1>20 DEF ClientShape, CollectRequest
  <2>2. ProcessShape'
    BY <1>0, <1>20, Zenon DEF ProcessShape, CollectRequest
  <2>3. RequestShape'
    <3>1. [Released(request[j]) EXCEPT !.monitored = FALSE] \in Controls
      BY <1>0, RequestAt, ControlUpdates
    <3> QED
      BY <1>0, <1>20, <3>1, RequestPut DEF CollectRequest
  <2>4. CancelShape'
    BY <1>0, <1>20 DEF CancelShape, CollectRequest
  <2> QED
    BY <2>1, <2>2, <2>3, <2>4, <1>20, <1>0, ShapeFrames DEF Shapes, CollectRequest
<1>21. ASSUME NEW w \in Workers, Boot(w)
      PROVE  Shapes'
  <2>1. PoolShape'
    BY <1>0, <1>21, PoolAssumption DEF PoolShape, Boot, Goto
  <2>2. GateShape'
    BY <1>0, <1>21 DEF GateShape, Boot, Goto
  <2>3. WorkerShape'
    BY <1>0, <1>21, Points DEF WorkerShape, Boot, Goto
  <2> QED
    BY <2>1, <2>2, <2>3, <1>21, <1>0, ShapeFrames DEF Shapes, Boot
<1>22. ASSUME NEW w \in Workers, Idle(w)
      PROVE  Shapes'
  <2>1. QueueShape'
    BY <1>0, <1>22 DEF QueueShape, Idle, Goto
  <2>2. WorkerShape'
    BY <1>0, <1>22, Points DEF WorkerShape, Idle, Goto
  <2> QED
    BY <2>1, <2>2, <1>22, <1>0, ShapeFrames DEF Shapes, Idle
<1>23. ASSUME NEW w \in Workers, Quit(w)
      PROVE  Shapes'
  <2>1. QueueShape'
    BY <1>0, <1>23 DEF QueueShape, Quit, Goto
  <2>2. WorkerShape'
    BY <1>0, <1>23, Points DEF WorkerShape, Quit, Goto
  <2> QED
    BY <2>1, <2>2, <1>23, <1>0, ShapeFrames DEF Shapes, Quit
<1>24. ASSUME NEW w \in Workers, Pop(w)
      PROVE  Shapes'
  <2>1. QueueShape'
    BY <1>0, <1>24 DEF QueueShape, Pop, Dequeued, Counters, Goto
  <2>2. WorkerShape'
    BY <1>0, <1>24, Points DEF WorkerShape, Pop, QueueShape, Goto
  <2> QED
    BY <2>1, <2>2, <1>24, <1>0, ShapeFrames DEF Shapes, Pop
<1>25. ASSUME NEW w \in Workers, Repause(w)
      PROVE  Shapes'
  <2>1. WorkerShape'
    BY <1>0, <1>25, Points DEF WorkerShape, Repause, Goto
  <2> QED
    BY <2>1, <1>25, <1>0, ShapeFrames DEF Shapes, Repause
<1>26. ASSUME NEW w \in Workers, Probe(w)
      PROVE  Shapes'
  <2>1. WorkerShape'
    BY <1>0, <1>26, Points DEF WorkerShape, Probe, Goto
  <2> QED
    BY <2>1, <1>26, <1>0, ShapeFrames DEF Shapes, Probe
<1>27. ASSUME NEW w \in Workers, Run(w)
      PROVE  Shapes'
  <2>1. WorkerShape'
    BY <1>0, <1>27, Points DEF WorkerShape, Run, Goto
  <2>2. RequestShape'
    BY <1>0, <1>27 DEF RequestShape, Run, Goto
  <2>3. CancelShape'
    BY <1>0, <1>27, Zenon DEF CancelShape, Run, Goto
  <2> QED
    BY <2>1, <2>2, <2>3, <1>27, <1>0, ShapeFrames DEF Shapes, Run
<1>28. ASSUME NEW w \in Workers, Post(w)
      PROVE  Shapes'
  <2>1. WorkerShape'
    BY <1>0, <1>28, Points DEF WorkerShape, Post, Goto
  <2>2. RequestShape'
    BY <1>0, <1>28 DEF RequestShape, Post, Goto
  <2>3. CancelShape'
    BY <1>0, <1>28, Zenon DEF CancelShape, Post, Goto
  <2> QED
    BY <2>1, <2>2, <2>3, <1>28, <1>0, ShapeFrames DEF Shapes, Post
<1>29. ASSUME NEW w \in Workers, Settle(w)
      PROVE  Shapes'
  <2>1. WorkerShape'
    BY <1>0, <1>29, Points DEF WorkerShape, Settle, Verdicts, Outcomes, Goto
  <2>2. RequestShape'
    BY <1>0, <1>29, RequestPut, ControlUpdates DEF RequestShape, Settle
  <2>3. CancelShape'
    BY <1>0, <1>29 DEF CancelShape, Settle, Goto
  <2> QED
    BY <2>1, <2>2, <2>3, <1>29, <1>0, ShapeFrames DEF Shapes, Settle
<1>30. ASSUME NEW w \in Workers, LoadCancelled(w)
      PROVE  Shapes'
  <2>1. WorkerShape'
    BY <1>0, <1>30, Points DEF WorkerShape, LoadCancelled, Verdicts, Outcomes, Goto
  <2>2. ClientShape'
    BY <1>0, <1>30 DEF ClientShape, LoadCancelled, Notified, Outcomes, Goto
  <2>3. ProcessShape'
    BY <1>0, <1>30 DEF ProcessShape, LoadCancelled, Goto
  <2>4. RequestShape'
    <3> DEFINE t == IF request[held[w]].terminal = "pending"
                    THEN "cancelled" ELSE request[held[w]].terminal
    <3>1. held[w] \in Jobs => t \in TerminalStates
      BY <1>0, RequestAt DEF Controls, TerminalStates
    <3>2. request' = [request EXCEPT ![held[w]].terminal = t]
      BY <1>30 DEF LoadCancelled
    <3> QED
      BY <1>0, <3>1, <3>2, RequestEnds
  <2>5. CancelShape'
    BY <1>0, <1>30 DEF CancelShape, LoadCancelled, Goto
  <2> QED
    BY <2>1, <2>2, <2>3, <2>4, <2>5, <1>30, <1>0, ShapeFrames DEF Shapes, LoadCancelled
<1>31. ASSUME NEW w \in Workers, LoadNotCancelled(w)
      PROVE  Shapes'
  <2>1. WorkerShape'
    BY <1>0, <1>31, Points DEF WorkerShape, LoadNotCancelled, Goto
  <2> QED
    BY <2>1, <1>31, <1>0, ShapeFrames DEF Shapes, LoadNotCancelled
<1>32. ASSUME NEW w \in Workers, Exchange(w)
      PROVE  Shapes'
  <2>1. WorkerShape'
    BY <1>0, <1>32, Points DEF WorkerShape, Exchange, Verdicts, Outcomes, Goto
  <2>2. RequestShape'
    <3> DEFINE t == IF request[held[w]].terminal = "pending"
                    THEN "delivering" ELSE request[held[w]].terminal
    <3>1. held[w] \in Jobs => t \in TerminalStates
      BY <1>0, RequestAt DEF Controls, TerminalStates
    <3>2. request' = [request EXCEPT ![held[w]].terminal = t]
      BY <1>32 DEF Exchange
    <3> QED
      BY <1>0, <3>1, <3>2, RequestEnds
  <2>3. CancelShape'
    BY <1>0, <1>32 DEF CancelShape, Exchange, Goto
  <2> QED
    BY <2>1, <2>2, <2>3, <1>32, <1>0, ShapeFrames DEF Shapes, Exchange
<1>33. ASSUME NEW w \in Workers, Send(w)
      PROVE  Shapes'
  <2>1. WorkerShape'
    BY <1>0, <1>33, Points DEF WorkerShape, Send, Verdicts, Outcomes, SentOrLost, Goto
  <2>2. ClientShape'
    <3> DEFINE more == IF alive[held[w]] THEN 1 ELSE 0
    <3>1. inbox' \in [Jobs -> Nat]
      <4>1. more \in Nat
        OBVIOUS
      <4>2. inbox' = [inbox EXCEPT ![held[w]] = @ + more]
        BY <1>33 DEF Send
      <4>3. inbox \in [Jobs -> Nat]
        BY <1>0 DEF ClientShape
      <4> HIDE DEF more
      <4>4. CASE held[w] \in Jobs
        BY <4>1, <4>2, <4>3, <4>4
      <4>5. CASE held[w] \notin Jobs
        BY <4>2, <4>3, <4>5
      <4> QED
        BY <4>4, <4>5
    <3>2. observed' \in [Jobs -> SUBSET Outcomes]
      BY <1>0, <1>33 DEF ClientShape, Send, Notified, Outcomes, SentOrLost
    <3> QED
      BY <1>0, <1>33, <3>1, <3>2 DEF ClientShape, Send
  <2>3. ProcessShape'
    BY <1>0, <1>33 DEF ProcessShape, Send, Goto
  <2>4. RequestShape'
    <3>1. SentOrLost(held[w]) \in TerminalStates
      BY DEF SentOrLost, TerminalStates
    <3> QED
      BY <1>0, <1>33, <3>1, RequestEnds DEF Send
  <2>5. CancelShape'
    BY <1>0, <1>33 DEF CancelShape, Send, Goto
  <2> QED
    BY <2>1, <2>2, <2>3, <2>4, <2>5, <1>33, <1>0, ShapeFrames DEF Shapes, Send
<1>34. ASSUME NEW w \in Workers, Destroy(w)
      PROVE  Shapes'
  <2>1. WorkerShape'
    BY <1>0, <1>34, Points DEF WorkerShape, Destroy, Goto
  <2>2. RequestShape'
    BY <1>0, <1>34, RequestPut, ControlUpdates DEF RequestShape, Destroy
  <2>3. CancelShape'
    BY <1>0, <1>34 DEF CancelShape, Destroy, Goto
  <2> QED
    BY <2>1, <2>2, <2>3, <1>34, <1>0, ShapeFrames DEF Shapes, Destroy
<1>35. ASSUME NEW w \in Workers, Account(w)
      PROVE  Shapes'
  <2>1. QueueShape'
    BY <1>0, <1>35 DEF QueueShape, Account, Tally, Goto
  <2>2. WorkerShape'
    BY <1>0, <1>35, Points DEF WorkerShape, Account, Broadcast, Goto
  <2> QED
    BY <2>1, <2>2, <1>35, <1>0, ShapeFrames DEF Shapes, Account
<1>36. ASSUME NEW w \in Workers, Exit(w)
      PROVE  Shapes'
  <2>1. PoolShape'
    BY <1>0, <1>36, PoolAssumption DEF PoolShape, Exit, Goto
  <2>2. GateShape'
    BY <1>0, <1>36 DEF GateShape, Exit, Goto
  <2>3. WorkerShape'
    BY <1>0, <1>36, Points DEF WorkerShape, Exit, Goto
  <2> QED
    BY <2>1, <2>2, <2>3, <1>36, <1>0, ShapeFrames DEF Shapes, Exit
<1>37. CASE UNCHANGED vars
  BY <1>0, <1>37, ShapeFrames DEF vars, Shapes
<1> QED
  BY <1>1, <1>2, <1>3, <1>4, <1>5, <1>6, <1>7, <1>8, <1>9, <1>10, <1>11, <1>12, <1>13, <1>14, <1>15, <1>16, <1>17, <1>18, <1>19, <1>20, <1>21, <1>22, <1>23, <1>24, <1>25, <1>26, <1>27, <1>28, <1>29, <1>30, <1>31, <1>32, <1>33, <1>34, <1>35, <1>36, <1>37
  DEF Next, Controller, Submission, Process, Worker

-----------------------------------------------------------------------------
(* The threads. *)

\* What the later layers use of the types.
Typed ==
  /\ pc \in [Workers -> WorkerPoints] /\ held \in [Workers -> Jobs \cup {NoJob}]
  /\ outcome \in [Workers -> Verdicts]
  /\ started \in 0..NumWorkers /\ starts \in Nat
  /\ mutex \in Workers \cup {NoOne}
  /\ queue \in Seq(Jobs) /\ submitting \in Jobs \cup {NoJob}
  /\ admittedBy \in [Jobs -> Nat] /\ kind \in [Jobs -> Kinds \cup {"none", "direct"}]
  /\ inbox \in [Jobs -> Nat] /\ observed \in [Jobs -> SUBSET Outcomes]

LEMMA WorkerNumbers ==
  /\ NoOne \notin Workers /\ 1 \in Workers
  /\ \A w \in Workers : w \in Nat /\ w > 0 /\ w <= NumWorkers
BY PoolAssumption DEF NoOne, Workers

LEMMA ShapesTyped ==
  ASSUME Shapes
  PROVE  Typed
BY PoolAssumption DEF Shapes, PoolShape, QueueShape, WorkerShape, ClientShape, Typed

LEMMA ShapesTypedNext ==
  ASSUME Shapes'
  PROVE  Typed'
BY PoolAssumption DEF Shapes, PoolShape, QueueShape, WorkerShape, ClientShape, Typed

\* A broadcast leaves nobody asleep and moves nobody else.
LEMMA BroadcastPoints ==
  ASSUME NEW points \in [Workers -> WorkerPoints]
  PROVE  /\ Broadcast(points) \in [Workers -> WorkerPoints]
         /\ \A w \in Workers :
              /\ Broadcast(points)[w] \notin {"waitQueue", "waitPause"}
              /\ points[w] = "waitQueue" => Broadcast(points)[w] = "entry"
              /\ points[w] = "waitPause" => Broadcast(points)[w] = "repause"
              /\ points[w] \notin {"waitQueue", "waitPause"} =>
                   Broadcast(points)[w] = points[w]
<1>1. \A w \in Workers : Broadcast(points)[w] = Woken(points[w])
  BY DEF Broadcast
<1>2. ASSUME NEW p \in WorkerPoints
      PROVE  /\ Woken(p) \notin {"waitQueue", "waitPause"}
             /\ p = "waitQueue" => Woken(p) = "entry"
             /\ p = "waitPause" => Woken(p) = "repause"
             /\ p \notin {"waitQueue", "waitPause"} => Woken(p) = p
  BY DEF Woken
<1>3. Broadcast(points) \in [Workers -> WorkerPoints]
  BY Points DEF Broadcast
<1> QED
  BY <1>1, <1>2, <1>3

\* A signal wakes one of those asleep, if there is one.
LEMMA SignalledPoints ==
  ASSUME NEW points \in [Workers -> WorkerPoints], NEW after \in Signalled(points)
  PROVE  /\ after \in [Workers -> WorkerPoints]
         /\ \A w \in Workers :
              \/ after[w] = points[w]
              \/ points[w] = "waitQueue" /\ after[w] = "entry"
              \/ points[w] = "waitPause" /\ after[w] = "repause"
         /\ \E w \in Workers : after[w] \notin {"waitQueue", "waitPause"}
<1>1. CASE Waiting(points) = {}
  <2>1. after = points
    BY <1>1 DEF Signalled
  <2>2. points[1] \notin {"waitQueue", "waitPause"}
    BY <1>1, WorkerNumbers DEF Waiting
  <2> QED
    BY <2>1, <2>2, WorkerNumbers
<1>2. CASE Waiting(points) # {}
  <2>1. PICK v \in Waiting(points) : after = [points EXCEPT ![v] = Woken(points[v])]
    BY <1>2 DEF Signalled
  <2>2. v \in Workers /\ points[v] \in {"waitQueue", "waitPause"}
    BY DEF Waiting
  <2>3. /\ points[v] = "waitQueue" => Woken(points[v]) = "entry"
        /\ points[v] = "waitPause" => Woken(points[v]) = "repause"
    BY DEF Woken
  <2>4. Woken(points[v]) \in WorkerPoints
    BY <2>2, Points
  <2> QED
    BY <2>1, <2>2, <2>3, <2>4
<1> QED
  BY <1>1, <1>2

LEMMA ThreadsFrame ==
  ASSUME Threads,
         UNCHANGED <<phase, stopping, started, starts, submitting, mutex, pc, queue,
                     held, paused>>
  PROVE  Threads'
BY DEF Threads, Phased, Staffed, Awake

\* A worker that goes on with its job changes nothing for the others.
LEMMA ServingStep ==
  ASSUME Typed, Threads, NEW w \in Workers, NEW to \in Serving \ {"waitPause"},
         pc[w] \in Serving, pc' = [pc EXCEPT ![w] = to],
         UNCHANGED <<phase, stopping, started, starts, submitting, mutex, queue, held, paused>>
  PROVE  Threads'
<1>1. \A v \in Workers : pc'[v] = IF v = w THEN to ELSE pc[v]
  BY DEF Typed
<1>2. to \notin {"off", "waitQueue", "waitPause", "entry", "exiting", "gone"}
  BY DEF Serving, Unanswered, Answered
<1>3. pc[w] \notin {"off", "waitQueue", "entry", "exiting", "gone"}
  BY DEF Serving, Unanswered, Answered
<1>4. Phased'
  BY <1>1, <1>2, <1>3, WorkerNumbers DEF Threads, Phased, Typed
<1>5. Staffed'
  BY <1>1, <1>2, <1>3 DEF Threads, Staffed, Leaving
<1>6. Awake'
  BY <1>1, <1>2, <1>3 DEF Threads, Awake
<1> QED
  BY <1>4, <1>5, <1>6 DEF Threads

LEMMA ThreadsStep ==
  ASSUME Shapes, Shapes', Threads, [Next]_vars
  PROVE  Threads'
<1>0. Typed /\ Typed' /\ Phased /\ Staffed /\ Awake
  BY ShapesTyped, ShapesTypedNext DEF Threads
<1>1. CASE StartPool
  <2>1. Phased'
    BY <1>0, WorkerNumbers, <1>1 DEF Typed, StartPool, Phased, Staffed, poolVars, queueVars, workerVars, clientVars, flagVars, Serving, Unanswered, Answered, Leaving
  <2>2. Staffed'
    BY <1>0, WorkerNumbers, <1>1 DEF Typed, StartPool, Staffed, poolVars, queueVars, workerVars, clientVars, flagVars, Serving, Unanswered, Answered, Leaving
  <2>3. Awake'
    BY <1>0, WorkerNumbers, <1>1 DEF Typed, StartPool, Awake, poolVars, queueVars, workerVars, clientVars, flagVars
  <2> QED
    BY <2>1, <2>2, <2>3 DEF Threads
<1>2. CASE SpawnWorker
  <2>0. started + 1 \in Workers /\ pc[started + 1] = "off"
    BY <1>0, <1>2, PoolAssumption DEF SpawnWorker, Typed, Staffed, Workers
  <2>1. \A v \in Workers : pc'[v] = IF v = started + 1 THEN "born" ELSE pc[v]
    BY <1>0, <1>2, <2>0 DEF SpawnWorker, Typed
  <2>2. Phased'
    BY <1>0, <1>2, <2>0, <2>1 DEF SpawnWorker, Phased, Typed, queueVars, clientVars
  <2>5. /\ phase = "starting" /\ started' = started + 1 /\ started \in Nat
        /\ UNCHANGED <<phase, mutex, queue, held, stopping, paused>>
    BY <1>0, <1>2 DEF SpawnWorker, queueVars, Typed
  <2>6. \A v \in Workers : v \in Int /\ (v > started + 1 <=> v > started /\ v # started + 1)
    BY <2>0, <2>5, WorkerNumbers
  <2>7. "born" \notin Serving /\ "born" \notin Leaving
    BY DEF Serving, Unanswered, Answered, Leaving
  <2>8. "off" \notin Serving /\ "off" \notin Leaving
    BY DEF Serving, Unanswered, Answered, Leaving
  <2>3. Staffed'
    BY <1>0, <2>0, <2>1, <2>5, <2>6, <2>7, <2>8 DEF Staffed
  <2>4. Awake'
    BY <1>0, <1>2, <2>0, <2>1 DEF SpawnWorker, Awake, Phased, queueVars
  <2> QED
    BY <2>2, <2>3, <2>4 DEF Threads
<1>3. CASE SpawnFails
  <2>1. Phased'
    BY <1>0, WorkerNumbers, <1>3 DEF Typed, SpawnFails, Phased, poolVars, queueVars, workerVars, clientVars, flagVars
  <2>2. Staffed'
    BY <1>0, WorkerNumbers, <1>3 DEF Typed, SpawnFails, Staffed, poolVars, queueVars, workerVars, clientVars, flagVars, Serving, Unanswered, Answered, Leaving
  <2>3. Awake'
    BY <1>0, WorkerNumbers, <1>3 DEF Typed, SpawnFails, Awake, poolVars, queueVars, workerVars, clientVars, flagVars
  <2> QED
    BY <2>1, <2>2, <2>3 DEF Threads
<1>4. CASE PublishPool
  <2>1. Phased'
    BY <1>0, WorkerNumbers, <1>4 DEF Typed, PublishPool, Phased, poolVars, queueVars, workerVars, clientVars, flagVars
  <2>2. Staffed'
    BY <1>0, WorkerNumbers, <1>4 DEF Typed, PublishPool, Staffed, poolVars, queueVars, workerVars, clientVars, flagVars, Serving, Unanswered, Answered, Leaving
  <2>3. Awake'
    BY <1>0, WorkerNumbers, <1>4 DEF Typed, PublishPool, Awake, poolVars, queueVars, workerVars, clientVars, flagVars
  <2> QED
    BY <2>1, <2>2, <2>3 DEF Threads
<1>5. CASE StopPool
  <2>1. Phased'
    BY <1>0, WorkerNumbers, <1>5 DEF Typed, StopPool, Phased, poolVars, queueVars, workerVars, clientVars, flagVars
  <2>2. Staffed'
    BY <1>0, WorkerNumbers, <1>5 DEF Typed, StopPool, Staffed, poolVars, queueVars, workerVars, clientVars, flagVars, Serving, Unanswered, Answered, Leaving
  <2>3. Awake'
    BY <1>0, WorkerNumbers, <1>5 DEF Typed, StopPool, Awake, poolVars, queueVars, workerVars, clientVars, flagVars
  <2> QED
    BY <2>1, <2>2, <2>3 DEF Threads
<1>6. CASE RaiseStopping
  <2>0. \A v \in Workers :
          /\ pc'[v] \notin {"waitQueue", "waitPause"}
          /\ pc[v] = "waitQueue" => pc'[v] = "entry"
          /\ pc[v] = "waitPause" => pc'[v] = "repause"
          /\ pc[v] \notin {"waitQueue", "waitPause"} => pc'[v] = pc[v]
    BY <1>0, <1>6, BroadcastPoints DEF RaiseStopping, Typed
  <2>1. Phased'
    BY <1>0, <1>6, <2>0 DEF RaiseStopping, MutexFree, Phased, Typed, queueVars, clientVars
  <2>2. Staffed'
    BY <1>0, <1>6, <2>0 DEF RaiseStopping, Staffed, queueVars, Serving, Unanswered, Answered, Leaving
  <2>3. Awake'
    <3>1. queue # <<>> => pc[1] # "gone"
      BY <1>0, WorkerNumbers DEF Staffed, Leaving
    <3> QED
      BY <1>6, <2>0, <3>1, WorkerNumbers DEF RaiseStopping, Awake, queueVars
  <2> QED
    BY <2>1, <2>2, <2>3 DEF Threads
<1>7. CASE JoinWorkers
  <2>1. Phased'
    BY <1>0, WorkerNumbers, <1>7 DEF Typed, JoinWorkers, Phased, Staffed, Joined, poolVars, queueVars, workerVars, clientVars, flagVars, Serving, Unanswered, Answered, Leaving
  <2>2. Staffed'
    BY <1>0, WorkerNumbers, <1>7 DEF Typed, JoinWorkers, Staffed, Joined, poolVars, queueVars, workerVars, clientVars, flagVars, Serving, Unanswered, Answered, Leaving
  <2>3. Awake'
    BY <1>0, WorkerNumbers, <1>7 DEF Typed, JoinWorkers, Awake, poolVars, queueVars, workerVars, clientVars, flagVars
  <2> QED
    BY <2>1, <2>2, <2>3 DEF Threads
<1>8. CASE PauseWorkers
  <2>1. Phased'
    BY <1>0, WorkerNumbers, <1>8 DEF Typed, PauseWorkers, Phased, poolVars, queueVars, workerVars, clientVars, flagVars
  <2>2. Staffed'
    BY <1>0, WorkerNumbers, <1>8 DEF Typed, PauseWorkers, Staffed, poolVars, queueVars, workerVars, clientVars, flagVars, Serving, Unanswered, Answered, Leaving
  <2>3. Awake'
    BY <1>0, WorkerNumbers, <1>8 DEF Typed, PauseWorkers, Awake, poolVars, queueVars, workerVars, clientVars, flagVars
  <2> QED
    BY <2>1, <2>2, <2>3 DEF Threads
<1>9. CASE ResumeWorkers
  <2>0. \A v \in Workers :
          /\ pc'[v] \notin {"waitQueue", "waitPause"}
          /\ pc[v] = "waitQueue" => pc'[v] = "entry"
          /\ pc[v] = "waitPause" => pc'[v] = "repause"
          /\ pc[v] \notin {"waitQueue", "waitPause"} => pc'[v] = pc[v]
    BY <1>0, <1>9, BroadcastPoints DEF ResumeWorkers, Typed
  <2>1. Phased'
    BY <1>0, <1>9, <2>0 DEF ResumeWorkers, MutexFree, Phased, Typed, queueVars, clientVars
  <2>2. Staffed'
    BY <1>0, <1>9, <2>0 DEF ResumeWorkers, Staffed, queueVars, Serving, Unanswered, Answered, Leaving
  <2>3. Awake'
    <3>1. ~stopping /\ started = NumWorkers
      BY <1>0, <1>9 DEF ResumeWorkers, Phased
    <3>2. pc[1] # "gone"
      BY <1>0, <1>9, WorkerNumbers DEF ResumeWorkers, Staffed, Leaving
    <3>3. pc'[1] \notin {"waitQueue", "gone"}
      BY <2>0, <3>2, WorkerNumbers
    <3> QED
      BY <1>9, <2>0, <3>1, <3>3, WorkerNumbers DEF ResumeWorkers, Awake
  <2> QED
    BY <2>1, <2>2, <2>3 DEF Threads
<1>10. ASSUME NEW j \in Jobs, NEW k \in Kinds, BeginSubmit(j, k)
      PROVE  Threads'
  <2>1. Phased'
    BY <1>0, WorkerNumbers, <1>10 DEF Typed, BeginSubmit, Phased, LifecycleFree, poolVars, queueVars, workerVars, clientVars, flagVars
  <2>2. Staffed'
    BY <1>0, WorkerNumbers, <1>10 DEF Typed, BeginSubmit, Staffed, poolVars, queueVars, workerVars, clientVars, flagVars, Serving, Unanswered, Answered, Leaving
  <2>3. Awake'
    BY <1>0, WorkerNumbers, <1>10 DEF Typed, BeginSubmit, Awake, poolVars, queueVars, workerVars, clientVars, flagVars
  <2> QED
    BY <2>1, <2>2, <2>3 DEF Threads
<1>11. ASSUME NEW j \in Jobs, MonitorFails(j)
      PROVE  Threads'
  BY <1>0, <1>11, ThreadsFrame DEF Threads, MonitorFails, poolVars, queueVars, workerVars, clientVars, flagVars
<1>12. ASSUME NEW j \in Jobs, Enqueue(j)
      PROVE  Threads'
  <2>0. /\ phase = "live" /\ started = NumWorkers
        /\ queue' = Append(queue, j) /\ mutex = NoOne /\ mutex' = NoOne
        /\ UNCHANGED <<phase, stopping, started, starts, held, paused>>
        /\ submitting' = NoJob
    BY <1>0, <1>12, PoolAssumption DEF Enqueue, Phased, MutexFree, poolVars
  <2>1. /\ \A v \in Workers :
             \/ pc'[v] = pc[v]
             \/ pc[v] = "waitQueue" /\ pc'[v] = "entry"
             \/ pc[v] = "waitPause" /\ pc'[v] = "repause"
        /\ \E v \in Workers : pc'[v] \notin {"waitQueue", "waitPause"}
    BY <1>0, <1>12, SignalledPoints DEF Enqueue, Typed
  <2>2. \A v \in Workers : pc[v] \notin Leaving
    BY <1>0, <2>0 DEF Staffed
  <2>3. Phased'
    BY <1>0, <2>0 DEF Phased, Typed
  <2>4. Staffed'
    BY <1>0, <2>0, <2>1, <2>2 DEF Staffed, Serving, Unanswered, Answered, Leaving
  <2>5. Awake'
    BY <1>0, <2>0, <2>1, <2>2 DEF Awake, Leaving
  <2> QED
    BY <2>3, <2>4, <2>5 DEF Threads
<1>13. ASSUME NEW j \in Jobs, Reject(j)
      PROVE  Threads'
  <2>1. Phased'
    BY <1>0, WorkerNumbers, <1>13 DEF Typed, Reject, Phased, poolVars, queueVars, workerVars, clientVars, flagVars
  <2>2. Staffed'
    BY <1>0, WorkerNumbers, <1>13 DEF Typed, Reject, Staffed, poolVars, queueVars, workerVars, clientVars, flagVars, Serving, Unanswered, Answered, Leaving
  <2>3. Awake'
    BY <1>0, WorkerNumbers, <1>13 DEF Typed, Reject, Awake, poolVars, queueVars, workerVars, clientVars, flagVars
  <2> QED
    BY <2>1, <2>2, <2>3 DEF Threads
<1>14. ASSUME NEW j \in Jobs, OutOfMemory(j)
      PROVE  Threads'
  <2>1. Phased'
    BY <1>0, WorkerNumbers, <1>14 DEF Typed, OutOfMemory, Phased, poolVars, queueVars, workerVars, clientVars, flagVars
  <2>2. Staffed'
    BY <1>0, WorkerNumbers, <1>14 DEF Typed, OutOfMemory, Staffed, poolVars, queueVars, workerVars, clientVars, flagVars, Serving, Unanswered, Answered, Leaving
  <2>3. Awake'
    BY <1>0, WorkerNumbers, <1>14 DEF Typed, OutOfMemory, Awake, poolVars, queueVars, workerVars, clientVars, flagVars
  <2> QED
    BY <2>1, <2>2, <2>3 DEF Threads
<1>15. ASSUME NEW j \in Jobs, CancelRequest(j)
      PROVE  Threads'
  BY <1>0, <1>15, ThreadsFrame DEF Threads, CancelRequest, poolVars, queueVars, workerVars, clientVars, flagVars
<1>16. ASSUME NEW j \in Jobs, CancelOperation(j)
      PROVE  Threads'
  BY <1>0, <1>16, ThreadsFrame DEF Threads, CancelOperation, poolVars, queueVars, workerVars, clientVars, flagVars
<1>17. ASSUME NEW j \in Jobs, RecipientDies(j)
      PROVE  Threads'
  BY <1>0, <1>17, ThreadsFrame DEF Threads, RecipientDies, poolVars, queueVars, workerVars, clientVars, flagVars
<1>18. ASSUME NEW j \in Jobs, MonitorDown(j)
      PROVE  Threads'
  BY <1>0, <1>18, ThreadsFrame DEF Threads, MonitorDown, poolVars, queueVars, workerVars, clientVars, flagVars
<1>19. ASSUME NEW j \in Jobs, AbandonMonitor(j)
      PROVE  Threads'
  BY <1>0, <1>19, ThreadsFrame DEF Threads, AbandonMonitor, poolVars, queueVars, workerVars, clientVars, flagVars
<1>20. ASSUME NEW j \in Jobs, CollectRequest(j)
      PROVE  Threads'
  BY <1>0, <1>20, ThreadsFrame DEF Threads, CollectRequest, poolVars, queueVars, workerVars, clientVars, flagVars
<1>21. ASSUME NEW w \in Workers, Boot(w)
      PROVE  Threads'
  <2>1. Phased'
    BY <1>0, WorkerNumbers, <1>21 DEF Typed, Boot, Phased, Goto, poolVars, queueVars, workerVars, clientVars, flagVars
  <2>2. Staffed'
    BY <1>0, WorkerNumbers, <1>21 DEF Typed, Boot, Staffed, Goto, poolVars, queueVars, workerVars, clientVars, flagVars, Serving, Unanswered, Answered, Leaving
  <2>3. Awake'
    BY <1>0, WorkerNumbers, <1>21 DEF Typed, Boot, Awake, Goto, poolVars, queueVars, workerVars, clientVars, flagVars
  <2> QED
    BY <2>1, <2>2, <2>3 DEF Threads
<1>22. ASSUME NEW w \in Workers, Idle(w)
      PROVE  Threads'
  <2>1. Phased'
    BY <1>0, WorkerNumbers, <1>22 DEF Typed, Idle, Phased, MutexFree, Goto, poolVars, queueVars, workerVars, clientVars, flagVars
  <2>2. Staffed'
    BY <1>0, WorkerNumbers, <1>22 DEF Typed, Idle, Staffed, Goto, poolVars, queueVars, workerVars, clientVars, flagVars, Serving, Unanswered, Answered, Leaving
  <2>3. Awake'
    BY <1>0, WorkerNumbers, <1>22 DEF Typed, Idle, Awake, Goto, poolVars, queueVars, workerVars, clientVars, flagVars
  <2> QED
    BY <2>1, <2>2, <2>3 DEF Threads
<1>23. ASSUME NEW w \in Workers, Quit(w)
      PROVE  Threads'
  <2>0. /\ queue = <<>> /\ stopping /\ mutex' = NoOne
        /\ UNCHANGED <<phase, stopping, started, starts, submitting, queue, held, paused>>
    BY <1>23 DEF Quit, poolVars, clientVars
  <2>1. phase \in {"joining", "absent"}
    BY <1>0, <2>0 DEF Phased, Shapes, PoolShape, Phases
  <2>2. pc[w] = "entry" /\ \A v \in Workers : pc'[v] = IF v = w THEN "exiting" ELSE pc[v]
    BY <1>0, <1>23 DEF Quit, Goto, Typed
  <2>3. Phased'
    BY <1>0, <2>0 DEF Phased, Typed
  <2>4. Staffed'
    BY <1>0, <2>0, <2>1, <2>2 DEF Staffed, Serving, Unanswered, Answered, Leaving
  <2>5. Awake'
    BY <1>0, <2>0, <2>2 DEF Awake
  <2> QED
    BY <2>3, <2>4, <2>5 DEF Threads
<1>24. ASSUME NEW w \in Workers, Pop(w)
      PROVE  Threads'
  <2>0. /\ queue # <<>> /\ queue' = Tail(queue) /\ mutex' = NoOne
        /\ held' = [held EXCEPT ![w] = Head(queue)]
        /\ UNCHANGED <<phase, stopping, started, starts, submitting, paused>>
    BY <1>24 DEF Pop, Dequeued, poolVars, clientVars
  <2>1. /\ pc[w] = "entry"
        /\ \A v \in Workers : pc'[v] = IF v # w THEN pc[v]
                                       ELSE IF HoldBack THEN "waitPause" ELSE "probe"
    BY <1>0, <1>24 DEF Pop, Goto, Typed
  <2>2. Head(queue) \in Jobs /\ Head(queue) # NoJob
    <3>1. NoJob \notin Jobs
      BY PoolAssumption
    <3>2. Head(queue) \in Jobs
      BY <1>0, <2>0 DEF Typed
    <3> QED
      BY <3>1, <3>2
  <2>3. \A v \in Workers : held'[v] = IF v = w THEN Head(queue) ELSE held[v]
    BY <1>0, <2>0 DEF Typed
  <2>4. Phased'
    BY <1>0, <2>0 DEF Phased, Threads
  <2>5. Staffed'
    BY <1>0, <2>0, <2>1, <2>2, <2>3 DEF Staffed, Serving, Unanswered, Answered, Leaving
  <2>6. Awake'
    BY <1>0, <2>0, <2>1 DEF Awake, HoldBack
  <2> QED
    BY <2>4, <2>5, <2>6 DEF Threads
<1>25. ASSUME NEW w \in Workers, Repause(w)
      PROVE  Threads'
  <2>1. Phased'
    BY <1>0, WorkerNumbers, <1>25 DEF Typed, Repause, Phased, MutexFree, Goto, poolVars, queueVars, workerVars, clientVars, flagVars
  <2>2. Staffed'
    BY <1>0, WorkerNumbers, <1>25 DEF Typed, Repause, Staffed, Goto, poolVars, queueVars, workerVars, clientVars, flagVars, Serving, Unanswered, Answered, Leaving
  <2>3. Awake'
    BY <1>0, WorkerNumbers, <1>25 DEF Typed, Repause, Awake, Goto, poolVars, queueVars, workerVars, clientVars, flagVars, HoldBack
  <2> QED
    BY <2>1, <2>2, <2>3 DEF Threads
<1>26. ASSUME NEW w \in Workers, Probe(w)
      PROVE  Threads'
  <2>1. pc[w] = "probe" /\ \E to \in {"post", "run"} : pc' = [pc EXCEPT ![w] = to]
    BY <1>26 DEF Probe, Goto
  <2> QED
    BY <1>0, <1>26, <2>1, ServingStep DEF Threads, Serving, Unanswered, Answered, Probe, poolVars, queueVars, workerVars, clientVars, flagVars
<1>27. ASSUME NEW w \in Workers, Run(w)
      PROVE  Threads'
  <2>1. pc[w] = "run" /\ \E to \in {"post"} : pc' = [pc EXCEPT ![w] = to]
    BY <1>27 DEF Run, Goto
  <2> QED
    BY <1>0, <1>27, <2>1, ServingStep DEF Threads, Serving, Unanswered, Answered, Run, poolVars, queueVars, workerVars, clientVars, flagVars
<1>28. ASSUME NEW w \in Workers, Post(w)
      PROVE  Threads'
  <2>1. pc[w] = "post" /\ \E to \in {"settle"} : pc' = [pc EXCEPT ![w] = to]
    BY <1>28 DEF Post, Goto
  <2> QED
    BY <1>0, <1>28, <2>1, ServingStep DEF Threads, Serving, Unanswered, Answered, Post, poolVars, queueVars, workerVars, clientVars, flagVars
<1>29. ASSUME NEW w \in Workers, Settle(w)
      PROVE  Threads'
  <2>1. pc[w] = "settle" /\ \E to \in {"load", "destroy"} : pc' = [pc EXCEPT ![w] = to]
    BY <1>29 DEF Settle, Goto
  <2> QED
    BY <1>0, <1>29, <2>1, ServingStep DEF Threads, Serving, Unanswered, Answered, Settle, poolVars, queueVars, workerVars, clientVars, flagVars
<1>30. ASSUME NEW w \in Workers, LoadCancelled(w)
      PROVE  Threads'
  <2>1. pc[w] = "load" /\ \E to \in {"destroy"} : pc' = [pc EXCEPT ![w] = to]
    BY <1>30 DEF LoadCancelled, Goto
  <2> QED
    BY <1>0, <1>30, <2>1, ServingStep DEF Threads, Serving, Unanswered, Answered, LoadCancelled, poolVars, queueVars, workerVars, clientVars, flagVars
<1>31. ASSUME NEW w \in Workers, LoadNotCancelled(w)
      PROVE  Threads'
  <2>1. pc[w] = "load" /\ \E to \in {"exchange"} : pc' = [pc EXCEPT ![w] = to]
    BY <1>31 DEF LoadNotCancelled, Goto
  <2> QED
    BY <1>0, <1>31, <2>1, ServingStep DEF Threads, Serving, Unanswered, Answered, LoadNotCancelled, poolVars, queueVars, workerVars, clientVars, flagVars
<1>32. ASSUME NEW w \in Workers, Exchange(w)
      PROVE  Threads'
  <2>1. pc[w] = "exchange" /\ \E to \in {"send", "destroy"} : pc' = [pc EXCEPT ![w] = to]
    BY <1>32 DEF Exchange
  <2> QED
    BY <1>0, <1>32, <2>1, ServingStep DEF Threads, Serving, Unanswered, Answered, Exchange, poolVars, queueVars, workerVars, clientVars, flagVars
<1>33. ASSUME NEW w \in Workers, Send(w)
      PROVE  Threads'
  <2>1. pc[w] = "send" /\ \E to \in {"destroy"} : pc' = [pc EXCEPT ![w] = to]
    BY <1>33 DEF Send, Goto
  <2> QED
    BY <1>0, <1>33, <2>1, ServingStep DEF Threads, Serving, Unanswered, Answered, Send, poolVars, queueVars, workerVars, clientVars, flagVars
<1>34. ASSUME NEW w \in Workers, Destroy(w)
      PROVE  Threads'
  <2>1. pc[w] = "destroy" /\ \E to \in {"account"} : pc' = [pc EXCEPT ![w] = to]
    BY <1>34 DEF Destroy, Goto
  <2> QED
    BY <1>0, <1>34, <2>1, ServingStep DEF Threads, Serving, Unanswered, Answered, Destroy, poolVars, queueVars, workerVars, clientVars, flagVars
<1>35. ASSUME NEW w \in Workers, Account(w)
      PROVE  Threads'
  <2> DEFINE parked == [pc EXCEPT ![w] = "entry"]
  <2>0. /\ pc[w] = "account" /\ mutex' = w /\ pc' = Broadcast(parked)
        /\ held' = [held EXCEPT ![w] = NoJob]
        /\ UNCHANGED <<phase, stopping, started, starts, submitting, queue, paused>>
    BY <1>35 DEF Account, poolVars, clientVars
  <2>1. parked \in [Workers -> WorkerPoints]
    BY <1>0, Points DEF Typed
  <2>2. \A v \in Workers :
          /\ pc'[v] \notin {"waitQueue", "waitPause"}
          /\ parked[v] = "waitQueue" => pc'[v] = "entry"
          /\ parked[v] = "waitPause" => pc'[v] = "repause"
          /\ parked[v] \notin {"waitQueue", "waitPause"} => pc'[v] = parked[v]
    BY <2>0, <2>1, BroadcastPoints
  <2>3. \A v \in Workers : parked[v] = IF v = w THEN "entry" ELSE pc[v]
    BY <1>0 DEF Typed
  <2>4. \A v \in Workers : held'[v] = IF v = w THEN NoJob ELSE held[v]
    BY <1>0, <2>0 DEF Typed
  <2> HIDE DEF parked
  <2>5. Phased'
    BY <1>0, <2>0, <2>2, <2>3, WorkerNumbers DEF Phased
  <2>6. Staffed'
    BY <1>0, <2>0, <2>2, <2>3, <2>4 DEF Staffed, Serving, Unanswered, Answered, Leaving
  <2>7. Awake'
    BY <1>0, <2>0, <2>2, <2>3 DEF Awake
  <2> QED
    BY <2>5, <2>6, <2>7 DEF Threads
<1>36. ASSUME NEW w \in Workers, Exit(w)
      PROVE  Threads'
  <2>1. Phased'
    BY <1>0, WorkerNumbers, <1>36 DEF Typed, Exit, Phased, Goto, poolVars, queueVars, workerVars, clientVars, flagVars
  <2>2. Staffed'
    BY <1>0, WorkerNumbers, <1>36 DEF Typed, Exit, Staffed, Goto, poolVars, queueVars, workerVars, clientVars, flagVars, Serving, Unanswered, Answered, Leaving
  <2>3. Awake'
    BY <1>0, WorkerNumbers, <1>36 DEF Typed, Exit, Awake, Staffed, Leaving, Goto, queueVars
  <2> QED
    BY <2>1, <2>2, <2>3 DEF Threads
<1>37. CASE UNCHANGED vars
  BY <1>0, <1>37, ThreadsFrame DEF Threads, vars, poolVars, queueVars, workerVars, clientVars, flagVars
<1> QED
  BY <1>1, <1>2, <1>3, <1>4, <1>5, <1>6, <1>7, <1>8, <1>9, <1>10, <1>11, <1>12, <1>13, <1>14, <1>15, <1>16, <1>17, <1>18, <1>19, <1>20, <1>21, <1>22, <1>23, <1>24, <1>25, <1>26, <1>27, <1>28, <1>29, <1>30, <1>31, <1>32, <1>33, <1>34, <1>35, <1>36, <1>37
  DEF Next, Controller, Submission, Process, Worker


-----------------------------------------------------------------------------
(* Who has a job. *)

LEMMA EntriesSubset ==
  ASSUME NEW q \in Seq(Jobs)
  PROVE  Entries(q) \subseteq Jobs
BY DEF Entries

LEMMA EntriesAppend ==
  ASSUME NEW q \in Seq(Jobs), NEW j \in Jobs
  PROVE  /\ Entries(Append(q, j)) = Entries(q) \cup {j}
         /\ Len(Append(q, j)) = Len(q) + 1
         /\ Distinct(q) /\ j \notin Entries(q) => Distinct(Append(q, j))
<1> DEFINE a == Append(q, j)
<1>1. Len(a) = Len(q) + 1 /\ Len(q) \in Nat
  OBVIOUS
<1>2. \A i \in 1..Len(a) : a[i] = IF i = Len(q) + 1 THEN j ELSE q[i]
  OBVIOUS
<1> HIDE DEF a
<1>3. Entries(a) = Entries(q) \cup {j}
  BY <1>1, <1>2 DEF Entries
<1>4. Distinct(q) /\ j \notin Entries(q) => Distinct(a)
  BY <1>1, <1>2 DEF Distinct, Entries
<1> QED
  BY <1>1, <1>3, <1>4 DEF a

LEMMA EntriesTail ==
  ASSUME NEW q \in Seq(Jobs), q # <<>>, Distinct(q)
  PROVE  /\ Head(q) \in Entries(q) /\ Distinct(Tail(q))
         /\ Entries(Tail(q)) = Entries(q) \ {Head(q)}
         /\ Len(Tail(q)) = Len(q) - 1
<1> DEFINE t == Tail(q)
<1>1. Len(t) = Len(q) - 1 /\ Len(q) \in Nat /\ Len(q) > 0 /\ Head(q) = q[1]
  OBVIOUS
<1>2. \A i \in 1..Len(t) : t[i] = q[i + 1]
  OBVIOUS
<1> HIDE DEF t
<1>3. \A i \in 2..Len(q) : q[i] = t[i - 1] /\ i - 1 \in 1..Len(t)
  BY <1>1, <1>2
<1>4. Distinct(t)
  BY <1>1, <1>2 DEF Distinct
<1>5. Head(q) \in Entries(q)
  BY <1>1 DEF Entries
<1>6. Entries(t) \subseteq Entries(q) \ {Head(q)}
  BY <1>1, <1>2 DEF Entries, Distinct
<1>7. Entries(q) \ {Head(q)} \subseteq Entries(t)
  <2>1. ASSUME NEW i \in 1..Len(q), q[i] # Head(q)
        PROVE  q[i] \in Entries(t)
    <3>1. i \in 2..Len(q)
      BY <1>1, <2>1
    <3> QED
      BY <3>1, <1>3 DEF Entries
  <2> QED
    BY <2>1 DEF Entries
<1> QED
  BY <1>1, <1>4, <1>5, <1>6, <1>7 DEF t

LEMMA CapacityNumber == QueueCapacity \in Nat /\ QueueCapacity > 0
BY PoolAssumption

LEMMA OwnedFrame ==
  ASSUME Owned, UNCHANGED <<queue, held, admittedBy, starts, submitting, kind>>
  PROVE  Owned'
BY DEF Owned

LEMMA OwnedStep ==
  ASSUME Shapes, Shapes', Threads, Threads', Owned, [Next]_vars
  PROVE  Owned'
<1>0. Typed /\ Typed'
  BY ShapesTyped, ShapesTypedNext
<1>1. CASE StartPool
  <2>0. /\ phase = "absent" /\ queue' = <<>> /\ starts' = starts + 1 /\ submitting = NoJob
        /\ UNCHANGED <<admittedBy, held, submitting, kind>>
    BY <1>1 DEF StartPool, clientVars
  <2>1. \A v \in Workers : held[v] = NoJob
    BY <1>0, <2>0 DEF Threads, Staffed, Serving, Unanswered, Answered
  <2>2. Entries(queue') = {} /\ Distinct(queue') /\ Len(queue') = 0
    BY <2>0 DEF Entries, Distinct
  <2>3. \A i \in Jobs : admittedBy[i] \in Nat
    BY <1>0 DEF Typed
  <2> QED
    BY <1>0, <2>0, <2>1, <2>2, <2>3, CapacityNumber DEF Owned, Typed
<1>2. CASE SpawnWorker
  BY <1>0, <1>2, OwnedFrame DEF SpawnWorker, poolVars, queueVars, workerVars, clientVars, flagVars
<1>3. CASE SpawnFails
  BY <1>0, <1>3, OwnedFrame DEF SpawnFails, poolVars, queueVars, workerVars, clientVars, flagVars
<1>4. CASE PublishPool
  BY <1>0, <1>4, OwnedFrame DEF PublishPool, poolVars, queueVars, workerVars, clientVars, flagVars
<1>5. CASE StopPool
  BY <1>0, <1>5, OwnedFrame DEF StopPool, poolVars, queueVars, workerVars, clientVars, flagVars
<1>6. CASE RaiseStopping
  BY <1>0, <1>6, OwnedFrame DEF RaiseStopping, poolVars, queueVars, workerVars, clientVars, flagVars
<1>7. CASE JoinWorkers
  BY <1>0, <1>7, OwnedFrame DEF JoinWorkers, poolVars, queueVars, workerVars, clientVars, flagVars
<1>8. CASE PauseWorkers
  BY <1>0, <1>8, OwnedFrame DEF PauseWorkers, poolVars, queueVars, workerVars, clientVars, flagVars
<1>9. CASE ResumeWorkers
  BY <1>0, <1>9, OwnedFrame DEF ResumeWorkers, poolVars, queueVars, workerVars, clientVars, flagVars
<1>10. ASSUME NEW j \in Jobs, NEW k \in Kinds, BeginSubmit(j, k)
      PROVE  Owned'
  <2>1. j # NoJob /\ kind[j] = "none" /\ admittedBy[j] = 0 /\ submitting' = j
    BY <1>0, <1>10, PoolAssumption DEF BeginSubmit, Owned
  <2>2. k # "none"
    BY PoolAssumption DEF AllKinds
  <2>3. \A i \in Jobs : kind'[i] = IF i = j THEN k ELSE kind[i]
    BY <1>0, <1>10 DEF BeginSubmit, Typed
  <2> QED
    BY <1>0, <1>10, <2>1, <2>2, <2>3 DEF BeginSubmit, Owned, poolVars, queueVars, workerVars
<1>11. ASSUME NEW j \in Jobs, MonitorFails(j)
      PROVE  Owned'
  <2>1. \A i \in Jobs : kind'[i] = IF i = j THEN "direct" ELSE kind[i]
    BY <1>0, <1>11 DEF MonitorFails, Typed
  <2> QED
    BY <1>0, <1>11, <2>1 DEF MonitorFails, Owned, Typed, poolVars, queueVars, workerVars
<1>12. ASSUME NEW j \in Jobs, Enqueue(j)
      PROVE  Owned'
  <2>0. /\ submitting = j /\ j # NoJob /\ submitting' = NoJob
        /\ queue' = Append(queue, j) /\ Len(queue) < QueueCapacity
        /\ admittedBy' = [admittedBy EXCEPT ![j] = starts]
        /\ UNCHANGED <<starts, held, kind>>
    BY <1>0, <1>12, PoolAssumption DEF Enqueue, Admission, poolVars, Typed
  <2>1. admittedBy[j] = 0 /\ kind[j] # "none" /\ starts > 0
    BY <1>0, <2>0 DEF Owned, Threads, Phased
  <2>2. j \notin Entries(queue) /\ \A v \in Workers : held[v] # j
    BY <1>0, <2>0, <2>1 DEF Owned
  <2>3. /\ Entries(queue') = Entries(queue) \cup {j} /\ Distinct(queue')
        /\ Len(queue') = Len(queue) + 1
    BY <1>0, <2>0, <2>2, EntriesAppend DEF Typed, Owned
  <2>4. \A i \in Jobs : admittedBy'[i] = IF i = j THEN starts ELSE admittedBy[i]
    BY <1>0, <2>0 DEF Typed
  <2>5. Entries(queue) \subseteq Jobs
    BY <1>0, EntriesSubset DEF Typed
  <2>6. Len(queue') <= QueueCapacity
    BY <1>0, <2>0, <2>3, CapacityNumber DEF Typed
  <2> QED
    BY <1>0, <2>0, <2>1, <2>2, <2>3, <2>4, <2>5, <2>6 DEF Owned, Typed
<1>13. ASSUME NEW j \in Jobs, Reject(j)
      PROVE  Owned'
  <2>1. submitting' = NoJob /\ UNCHANGED <<queue, held, admittedBy, starts, kind>>
    BY <1>13 DEF Reject, poolVars, queueVars, workerVars
  <2> QED
    BY <1>0, <2>1 DEF Owned
<1>14. ASSUME NEW j \in Jobs, OutOfMemory(j)
      PROVE  Owned'
  <2>1. submitting' = NoJob /\ UNCHANGED <<queue, held, admittedBy, starts, kind>>
    BY <1>14 DEF OutOfMemory, poolVars, queueVars, workerVars
  <2> QED
    BY <1>0, <2>1 DEF Owned
<1>15. ASSUME NEW j \in Jobs, CancelRequest(j)
      PROVE  Owned'
  BY <1>0, <1>15, OwnedFrame DEF CancelRequest, poolVars, queueVars, workerVars, clientVars, flagVars
<1>16. ASSUME NEW j \in Jobs, CancelOperation(j)
      PROVE  Owned'
  BY <1>0, <1>16, OwnedFrame DEF CancelOperation, poolVars, queueVars, workerVars, clientVars, flagVars
<1>17. ASSUME NEW j \in Jobs, RecipientDies(j)
      PROVE  Owned'
  BY <1>0, <1>17, OwnedFrame DEF RecipientDies, poolVars, queueVars, workerVars, clientVars, flagVars
<1>18. ASSUME NEW j \in Jobs, MonitorDown(j)
      PROVE  Owned'
  BY <1>0, <1>18, OwnedFrame DEF MonitorDown, poolVars, queueVars, workerVars, clientVars, flagVars
<1>19. ASSUME NEW j \in Jobs, AbandonMonitor(j)
      PROVE  Owned'
  BY <1>0, <1>19, OwnedFrame DEF AbandonMonitor, poolVars, queueVars, workerVars, clientVars, flagVars
<1>20. ASSUME NEW j \in Jobs, CollectRequest(j)
      PROVE  Owned'
  BY <1>0, <1>20, OwnedFrame DEF CollectRequest, poolVars, queueVars, workerVars, clientVars, flagVars
<1>21. ASSUME NEW w \in Workers, Boot(w)
      PROVE  Owned'
  BY <1>0, <1>21, OwnedFrame DEF Boot, poolVars, queueVars, workerVars, clientVars, flagVars
<1>22. ASSUME NEW w \in Workers, Idle(w)
      PROVE  Owned'
  BY <1>0, <1>22, OwnedFrame DEF Idle, poolVars, queueVars, workerVars, clientVars, flagVars
<1>23. ASSUME NEW w \in Workers, Quit(w)
      PROVE  Owned'
  BY <1>0, <1>23, OwnedFrame DEF Quit, poolVars, queueVars, workerVars, clientVars, flagVars
<1>24. ASSUME NEW w \in Workers, Pop(w)
      PROVE  Owned'
  <2>0. /\ queue # <<>> /\ queue' = Tail(queue) /\ pc[w] = "entry"
        /\ held' = [held EXCEPT ![w] = Head(queue)]
        /\ UNCHANGED <<admittedBy, starts, submitting, kind>>
    BY <1>24 DEF Pop, Dequeued, Goto, poolVars, clientVars
  <2>1. /\ Head(queue) \in Entries(queue) /\ Distinct(queue')
        /\ Entries(queue') = Entries(queue) \ {Head(queue)}
        /\ Len(queue') = Len(queue) - 1
    BY <1>0, <2>0, EntriesTail DEF Typed, Owned
  <2>2. held[w] = NoJob /\ \A v \in Workers : held'[v] = IF v = w THEN Head(queue) ELSE held[v]
    BY <1>0, <2>0 DEF Typed, Threads, Staffed, Serving, Unanswered, Answered
  <2>3. \A v \in Workers : held[v] # Head(queue)
    BY <1>0, <2>1, EntriesSubset, PoolAssumption DEF Typed, Owned
  <2>4. Len(queue') <= QueueCapacity
    BY <1>0, <2>1, CapacityNumber DEF Typed, Owned
  <2> QED
    BY <1>0, <2>0, <2>1, <2>2, <2>3, <2>4 DEF Owned
<1>25. ASSUME NEW w \in Workers, Repause(w)
      PROVE  Owned'
  BY <1>0, <1>25, OwnedFrame DEF Repause, poolVars, queueVars, workerVars, clientVars, flagVars
<1>26. ASSUME NEW w \in Workers, Probe(w)
      PROVE  Owned'
  BY <1>0, <1>26, OwnedFrame DEF Probe, poolVars, queueVars, workerVars, clientVars, flagVars
<1>27. ASSUME NEW w \in Workers, Run(w)
      PROVE  Owned'
  BY <1>0, <1>27, OwnedFrame DEF Run, poolVars, queueVars, workerVars, clientVars, flagVars
<1>28. ASSUME NEW w \in Workers, Post(w)
      PROVE  Owned'
  BY <1>0, <1>28, OwnedFrame DEF Post, poolVars, queueVars, workerVars, clientVars, flagVars
<1>29. ASSUME NEW w \in Workers, Settle(w)
      PROVE  Owned'
  BY <1>0, <1>29, OwnedFrame DEF Settle, poolVars, queueVars, workerVars, clientVars, flagVars
<1>30. ASSUME NEW w \in Workers, LoadCancelled(w)
      PROVE  Owned'
  BY <1>0, <1>30, OwnedFrame DEF LoadCancelled, poolVars, queueVars, workerVars, clientVars, flagVars
<1>31. ASSUME NEW w \in Workers, LoadNotCancelled(w)
      PROVE  Owned'
  BY <1>0, <1>31, OwnedFrame DEF LoadNotCancelled, poolVars, queueVars, workerVars, clientVars, flagVars
<1>32. ASSUME NEW w \in Workers, Exchange(w)
      PROVE  Owned'
  BY <1>0, <1>32, OwnedFrame DEF Exchange, poolVars, queueVars, workerVars, clientVars, flagVars
<1>33. ASSUME NEW w \in Workers, Send(w)
      PROVE  Owned'
  BY <1>0, <1>33, OwnedFrame DEF Send, poolVars, queueVars, workerVars, clientVars, flagVars
<1>34. ASSUME NEW w \in Workers, Destroy(w)
      PROVE  Owned'
  BY <1>0, <1>34, OwnedFrame DEF Destroy, poolVars, queueVars, workerVars, clientVars, flagVars
<1>35. ASSUME NEW w \in Workers, Account(w)
      PROVE  Owned'
  <2>0. held' = [held EXCEPT ![w] = NoJob] /\ UNCHANGED <<queue, admittedBy, starts, submitting, kind>>
    BY <1>35 DEF Account, poolVars, clientVars
  <2>1. \A v \in Workers : held'[v] = IF v = w THEN NoJob ELSE held[v]
    BY <1>0, <2>0 DEF Typed
  <2> QED
    BY <1>0, <2>0, <2>1 DEF Owned
<1>36. ASSUME NEW w \in Workers, Exit(w)
      PROVE  Owned'
  BY <1>0, <1>36, OwnedFrame DEF Exit, poolVars, queueVars, workerVars, clientVars, flagVars
<1>37. CASE UNCHANGED vars
  BY <1>0, <1>37, OwnedFrame DEF vars, poolVars, queueVars, workerVars, clientVars, flagVars
<1> QED
  BY <1>1, <1>2, <1>3, <1>4, <1>5, <1>6, <1>7, <1>8, <1>9, <1>10, <1>11, <1>12, <1>13, <1>14, <1>15, <1>16, <1>17, <1>18, <1>19, <1>20, <1>21, <1>22, <1>23, <1>24, <1>25, <1>26, <1>27, <1>28, <1>29, <1>30, <1>31, <1>32, <1>33, <1>34, <1>35, <1>36, <1>37
  DEF Next, Controller, Submission, Process, Worker

-----------------------------------------------------------------------------
(* The delivery of results. *)

LEMMA FieldUpdates ==
  ASSUME NEW r \in Controls
  PROVE  /\ Cancelled(r).terminal = r.terminal /\ Cancelled(r).refs = r.refs
         /\ Retained(r).terminal = r.terminal /\ Retained(r).refs = r.refs + 1
         /\ Released(r).terminal = r.terminal /\ Released(r).refs = r.refs - 1
         /\ [r EXCEPT !.monitored = FALSE].terminal = r.terminal
         /\ [r EXCEPT !.monitored = FALSE].refs = r.refs
         /\ [Cancelled(r) EXCEPT !.monitored = FALSE].terminal = r.terminal
         /\ [Cancelled(r) EXCEPT !.monitored = FALSE].refs = r.refs
         /\ [Released(r) EXCEPT !.monitored = FALSE].terminal = r.terminal
         /\ [Released(r) EXCEPT !.monitored = FALSE].refs = r.refs - 1
<1>1. Cancelled(r).terminal = r.terminal /\ Cancelled(r).refs = r.refs
  BY DEF Controls, Cancelled
<1>2. Retained(r).terminal = r.terminal /\ Retained(r).refs = r.refs + 1
  BY DEF Controls, Retained
<1>3. Released(r).terminal = r.terminal /\ Released(r).refs = r.refs - 1
  BY DEF Controls, Released
<1>4. \A s \in Controls : [s EXCEPT !.monitored = FALSE].terminal = s.terminal
                          /\ [s EXCEPT !.monitored = FALSE].refs = s.refs
  BY DEF Controls
<1> QED
  BY <1>1, <1>2, <1>3, <1>4, ControlUpdates

LEMMA RequestFields ==
  ASSUME RequestShape, NEW j \in Jobs, NEW r, request' = [request EXCEPT ![j] = r]
  PROVE  \A i \in Jobs : request'[i] = IF i = j THEN r ELSE request[i]
BY DEF RequestShape

LEMMA SameFields ==
  ASSUME request' = request
  PROVE  \A i \in Jobs : /\ request'[i].terminal = request[i].terminal
                         /\ request'[i].refs = request[i].refs
OBVIOUS

\* Moves of a worker that say nothing about an answer.
Quiet(p, q) ==
  \/ p = q
  \/ p \in Unanswered \ {"load", "exchange"} /\ q \in Unanswered \ {"load", "exchange"}
  \/ p \notin Serving /\ q \notin Serving

\* Those a wake-up moves were asleep, and go back to what they waited for.
LEMMA WakingQuiet ==
  ASSUME NEW p, NEW q,
         \/ q = p
         \/ p = "waitQueue" /\ q = "entry"
         \/ p = "waitPause" /\ q = "repause"
  PROVE  Quiet(p, q)
BY DEF Quiet, Serving, Unanswered, Answered

LEMMA StayPut ==
  ASSUME pc' = pc
  PROVE  \A v \in Workers : Quiet(pc[v], pc'[v])
BY DEF Quiet

\* The worker that has a job has it in Jobs.
LEMMA HeldJob ==
  ASSUME Typed, Threads, NEW w \in Workers, pc[w] \in Serving
  PROVE  held[w] \in Jobs /\ held[w] # NoJob
BY DEF Typed, Threads, Staffed

\* What an action leaves alone, for one worker and for one job.
LEMMA StandingFrame ==
  ASSUME Typed, Threads, NEW w \in Workers, Standing(w),
         Quiet(pc[w], pc'[w]), held'[w] = held[w], outcome'[w] = outcome[w],
         held[w] \in Jobs => /\ kind'[held[w]] = kind[held[w]]
                             /\ request'[held[w]].terminal = request[held[w]].terminal
  PROVE  Standing(w)'
<1>1. CASE pc'[w] = pc[w] /\ pc[w] \in Serving
  BY <1>1, HeldJob DEF Standing, HasRequest
<1>2. CASE pc[w] \in Unanswered \ {"load", "exchange"} /\ pc'[w] \in Unanswered \ {"load", "exchange"}
  <2>1. held[w] \in Jobs
    BY <1>2, HeldJob DEF Serving
  <2> QED
    BY <1>2, <2>1 DEF Standing, Unanswered, Answered
<1>3. CASE pc'[w] \notin Serving
  BY <1>3 DEF Standing, Serving, Unanswered, Answered
<1> QED
  BY <1>1, <1>2, <1>3 DEF Quiet

LEMMA JobFrame ==
  ASSUME NEW j \in Jobs, Decided(j), Heard(j), Referenced(j),
         kind'[j] = kind[j] /\ admittedBy'[j] = admittedBy[j] /\ inbox'[j] = inbox[j],
         observed'[j] = observed[j] /\ handle'[j] = handle[j],
         request'[j].terminal = request[j].terminal /\ request'[j].refs = request[j].refs,
         j \in Entries(queue)' <=> j \in Entries(queue),
         InHands(j)' <=> InHands(j), JobReaches(j)' <=> JobReaches(j),
         submitting' = j => submitting = j
  PROVE  Decided(j)' /\ Heard(j)' /\ Referenced(j)'
<1>1. HasRequest(j)' <=> HasRequest(j)
  BY DEF HasRequest
<1>2. Decided(j)'
  BY <1>1 DEF Decided
<1>3. Heard(j)'
  BY DEF Heard, HeardOnce, HasObserver
<1>4. Referenced(j)'
  BY <1>1 DEF Referenced, One
<1> QED
  BY <1>2, <1>3, <1>4

\* Who has j, and who reaches its control, read off the two tables.
LEMMA ReachesFrame ==
  ASSUME Typed, Threads, NEW j \in Jobs,
         j \in Entries(queue)' <=> j \in Entries(queue),
         \A v \in Workers : held'[v] = held[v] \/ (held[v] # j /\ held'[v] # j),
         \A v \in Workers : held[v] = j => (pc'[v] = "account" <=> pc[v] = "account")
  PROVE  /\ InHands(j)' <=> InHands(j)
         /\ JobReaches(j)' <=> JobReaches(j)
BY DEF InHands, JobReaches, Queued, Entries

LEMMA QuietAccountAt ==
  ASSUME Typed, Threads, NEW j \in Jobs, NEW v \in Workers, held[v] = j, Quiet(pc[v], pc'[v])
  PROVE  pc'[v] = "account" <=> pc[v] = "account"
<1>1. pc[v] \in Serving
  BY PoolAssumption DEF Threads, Staffed
<1> QED
  BY <1>1 DEF Quiet, Serving, Unanswered, Answered

LEMMA DeliveryQuiet ==
  ASSUME Typed, Typed', Threads, Delivery,
         UNCHANGED <<held, outcome, kind, admittedBy, queue, inbox, observed, handle, submitting>>,
         \A i \in Jobs : /\ request'[i].terminal = request[i].terminal
                         /\ request'[i].refs = request[i].refs,
         \A v \in Workers : Quiet(pc[v], pc'[v])
  PROVE  Delivery'
<1>1. ASSUME NEW w \in Workers
      PROVE  Standing(w)'
  <2>1. Standing(w)
    BY DEF Delivery
  <2> QED
    BY <2>1, StandingFrame
<1>2. ASSUME NEW j \in Jobs
      PROVE  Decided(j)' /\ Heard(j)' /\ Referenced(j)'
  <2>1. j \in Entries(queue)' <=> j \in Entries(queue)
    BY DEF Entries
  <2>2. \A v \in Workers : held'[v] = held[v] \/ (held[v] # j /\ held'[v] # j)
    OBVIOUS
  <2>3. \A v \in Workers : held[v] = j => (pc'[v] = "account" <=> pc[v] = "account")
    BY QuietAccountAt
  <2>4. (InHands(j)' <=> InHands(j)) /\ (JobReaches(j)' <=> JobReaches(j))
    BY <2>1, <2>2, <2>3, ReachesFrame
  <2>5. Decided(j) /\ Heard(j) /\ Referenced(j)
    BY DEF Delivery
  <2> QED
    BY <2>1, <2>4, <2>5, JobFrame
<1> QED
  BY <1>1, <1>2 DEF Delivery

\* What an action that concerns one job, or one job and one worker, leaves
\* for the others.
SameJob(i) ==
  /\ kind'[i] = kind[i] /\ admittedBy'[i] = admittedBy[i] /\ inbox'[i] = inbox[i]
  /\ observed'[i] = observed[i] /\ handle'[i] = handle[i]
  /\ request'[i].terminal = request[i].terminal /\ request'[i].refs = request[i].refs
  /\ i \in Entries(queue)' <=> i \in Entries(queue)
  /\ submitting' = i => submitting = i

SameWorker(v, j) ==
  /\ Quiet(pc[v], pc'[v]) /\ held'[v] = held[v] /\ outcome'[v] = outcome[v]
  /\ held[v] = j => /\ kind'[j] = kind[j]
                    /\ request'[j].terminal = request[j].terminal

LEMMA OthersKeep ==
  ASSUME Typed, Threads, Delivery, NEW w, NEW j \in Jobs,
         \A v \in Workers \ {w} : SameWorker(v, j),
         w \in Workers => held[w] \in {j, NoJob} /\ held'[w] \in {j, NoJob},
         \A i \in Jobs \ {j} : SameJob(i),
         w \in Workers => Standing(w)',
         Decided(j)' /\ Heard(j)' /\ Referenced(j)'
  PROVE  Delivery'
<1>1. ASSUME NEW v \in Workers, v # w
      PROVE  Standing(v)'
  <2>1. Standing(v) /\ SameWorker(v, j)
    BY <1>1 DEF Delivery
  <2>2. held[v] \in Jobs => /\ kind'[held[v]] = kind[held[v]]
                            /\ request'[held[v]].terminal = request[held[v]].terminal
    <3>1. CASE held[v] = j
      BY <2>1, <3>1 DEF SameWorker
    <3>2. CASE held[v] # j
      BY <3>2 DEF SameJob
    <3> QED
      BY <3>1, <3>2
  <2> QED
    BY <2>1, <2>2, StandingFrame DEF SameWorker
<1>2. ASSUME NEW i \in Jobs, i # j
      PROVE  Decided(i)' /\ Heard(i)' /\ Referenced(i)'
  <2>1. SameJob(i) /\ i # NoJob
    BY <1>2, PoolAssumption
  <2>2. \A v \in Workers : held'[v] = held[v] \/ (held[v] # i /\ held'[v] # i)
    BY <1>2, <2>1 DEF SameWorker
  <2>3. \A v \in Workers : held[v] = i => (pc'[v] = "account" <=> pc[v] = "account")
    <3>1. \A v \in Workers : held[v] = i => Quiet(pc[v], pc'[v])
      BY <1>2, <2>1 DEF SameWorker
    <3> QED
      BY <3>1, QuietAccountAt
  <2>4. (InHands(i)' <=> InHands(i)) /\ (JobReaches(i)' <=> JobReaches(i))
    BY <2>1, <2>2, <2>3, ReachesFrame DEF SameJob
  <2>5. Decided(i) /\ Heard(i) /\ Referenced(i)
    BY DEF Delivery
  <2> QED
    BY <2>1, <2>4, <2>5, JobFrame DEF SameJob
<1> QED
  BY <1>1, <1>2 DEF Delivery



\* A submission that is not in the pool yet is in nobody's hands.
LEMMA Outside ==
  ASSUME Typed, Owned, NEW j \in Jobs, admittedBy[j] = 0
  PROVE  /\ j \notin Entries(queue) /\ \A v \in Workers : held[v] # j
         /\ ~InHands(j) /\ ~JobReaches(j)
<1>1. j \notin Entries(queue) /\ \A v \in Workers : held[v] # j
  BY PoolAssumption DEF Owned, Typed
<1> QED
  BY <1>1 DEF InHands, JobReaches, Queued, Entries

LEMMA BeginSubmitDelivery ==
  ASSUME Typed, Typed', RequestShape, ProcessShape, Threads, Owned, Delivery,
         NEW j \in Jobs, NEW k \in Kinds, BeginSubmit(j, k)
  PROVE  Delivery'
<1>0. /\ kind[j] = "none" /\ kind' = [kind EXCEPT ![j] = k] /\ submitting' = j
      /\ UNCHANGED <<pc, held, outcome, queue, admittedBy, inbox, observed>>
  BY DEF BeginSubmit, queueVars, workerVars
<1>1. admittedBy[j] = 0
  BY <1>0 DEF Owned
<1>2. /\ j \notin Entries(queue) /\ \A v \in Workers : held[v] # j
      /\ ~InHands(j) /\ ~JobReaches(j)
  BY <1>1, Outside
<1>3. Decided(j) /\ Heard(j) /\ Referenced(j)
  BY DEF Delivery
<1>4. /\ request[j].terminal = "pending" /\ request[j].refs = 0 /\ ~handle[j]
      /\ inbox[j] = 0 /\ observed[j] = {}
  BY <1>0, <1>1, <1>3 DEF Decided, Heard, HeardOnce, Referenced, HasRequest
<1>5. \A i \in Jobs : i # j => kind'[i] = kind[i]
  BY <1>0 DEF Typed
<1>6. kind'[j] = k
  BY <1>0 DEF Typed
<1>7. \A i \in Jobs : i # j => request'[i] = request[i] /\ handle'[i] = handle[i]
  <2>1. CASE k = "plain"
    BY <2>1, Zenon DEF BeginSubmit
  <2>2. CASE k # "plain"
    <3>1. request' = [request EXCEPT ![j].refs = 1, ![j].monitored = TRUE]
      BY <2>2, Zenon DEF BeginSubmit
    <3>2. handle' = [handle EXCEPT ![j] = TRUE]
      BY <2>2, Zenon DEF BeginSubmit
    <3> QED
      BY <3>1, <3>2, RequestMade DEF RequestShape, ProcessShape
  <2> QED
    BY <2>1, <2>2
<1>8. /\ request'[j].terminal = "pending"
      /\ k = "plain" => request'[j].refs = 0 /\ ~handle'[j]
      /\ k # "plain" => request'[j].refs = 1 /\ handle'[j]
  <2>1. CASE k = "plain"
    BY <1>4, <2>1, Zenon DEF BeginSubmit
  <2>2. CASE k # "plain"
    <3>1. request' = [request EXCEPT ![j].refs = 1, ![j].monitored = TRUE]
      BY <2>2, Zenon DEF BeginSubmit
    <3>2. request' = [request EXCEPT ![j] = [request[j] EXCEPT !.refs = 1, !.monitored = TRUE]]
      BY <3>1, RequestMade
    <3>3. request'[j] = [request[j] EXCEPT !.refs = 1, !.monitored = TRUE]
      BY <3>2 DEF RequestShape
    <3>4. \A r \in Controls : [r EXCEPT !.refs = 1, !.monitored = TRUE].terminal = r.terminal
                              /\ [r EXCEPT !.refs = 1, !.monitored = TRUE].refs = 1
      BY DEF Controls
    <3>5. handle'[j]
      BY <2>2, Zenon DEF BeginSubmit, ProcessShape
    <3> QED
      BY <1>4, <2>2, <3>3, <3>4, <3>5, RequestAt
  <2> QED
    BY <2>1, <2>2
<1>9. \A v \in Workers : SameWorker(v, j)
  BY <1>0, <1>2 DEF SameWorker, Quiet
<1>10. \A i \in Jobs \ {j} : SameJob(i)
  BY <1>0, <1>5, <1>7 DEF SameJob, Entries
<1>11. Decided(j)' /\ Heard(j)' /\ Referenced(j)'
  <2>1. ~JobReaches(j)'
    BY <1>0, <1>2 DEF JobReaches, Queued, Entries
  <2>2. k # "none" /\ (HasRequest(j)' <=> k # "plain")
    BY <1>6, PoolAssumption DEF HasRequest, AllKinds
  <2>3. Decided(j)'
    BY <1>0, <1>1, <1>8 DEF Decided
  <2>4. Heard(j)'
    BY <1>0, <1>4, <1>6, <1>8, <2>2 DEF Heard, HeardOnce, HasObserver, Outcomes
  <2>5. Referenced(j)'
    BY <1>6, <1>8, <2>1, <2>2 DEF Referenced, One
  <2> QED
    BY <2>3, <2>4, <2>5
<1> QED
  BY <1>9, <1>10, <1>11, WorkerNumbers, OthersKeep


LEMMA MonitorFailsDelivery ==
  ASSUME Typed, Typed', RequestShape, ProcessShape, Threads, Owned, Delivery,
         NEW j \in Jobs, MonitorFails(j)
  PROVE  Delivery'
<1>0. /\ kind[j] = "none" /\ kind' = [kind EXCEPT ![j] = "direct"]
      /\ UNCHANGED <<pc, held, outcome, queue, admittedBy, inbox, observed, handle,
                     submitting, request>>
  BY DEF MonitorFails, queueVars, workerVars, flagVars
<1>1. admittedBy[j] = 0
  BY <1>0 DEF Owned
<1>2. /\ j \notin Entries(queue) /\ \A v \in Workers : held[v] # j
      /\ ~InHands(j) /\ ~JobReaches(j)
  BY <1>1, Outside
<1>3. Decided(j) /\ Heard(j) /\ Referenced(j)
  BY DEF Delivery
<1>4. /\ request[j].terminal = "pending" /\ request[j].refs = 0 /\ ~handle[j]
      /\ inbox[j] = 0 /\ observed[j] = {}
  BY <1>0, <1>1, <1>3 DEF Decided, Heard, HeardOnce, Referenced, HasRequest
<1>5. \A i \in Jobs : kind'[i] = IF i = j THEN "direct" ELSE kind[i]
  BY <1>0 DEF Typed
<1>6. \A v \in Workers : SameWorker(v, j)
  BY <1>0, <1>2 DEF SameWorker, Quiet
<1>7. \A i \in Jobs \ {j} : SameJob(i)
  BY <1>0, <1>5 DEF SameJob, Entries
<1>8. ~JobReaches(j)'
  BY <1>0, <1>2 DEF JobReaches, Queued, Entries
<1>9. submitting # j
  BY <1>0, PoolAssumption DEF Owned
<1>10. Decided(j)' /\ Heard(j)' /\ Referenced(j)'
  <2>1. Decided(j)'
    BY <1>0, <1>1, <1>4 DEF Decided
  <2>2. Heard(j)'
    BY <1>0, <1>4, <1>5 DEF Heard, HeardOnce, HasObserver, Outcomes
  <2>3. Referenced(j)'
    BY <1>0, <1>4, <1>5, <1>8, <1>9 DEF Referenced, One
  <2> QED
    BY <2>1, <2>2, <2>3
<1> QED
  BY <1>6, <1>7, <1>10, WorkerNumbers, OthersKeep

LEMMA EnqueueDelivery ==
  ASSUME Typed, Typed', RequestShape, ProcessShape, Threads, Owned, Delivery,
         NEW j \in Jobs, Enqueue(j)
  PROVE  Delivery'
<1>0. /\ submitting = j /\ submitting' = NoJob /\ j # NoJob
      /\ queue' = Append(queue, j) /\ admittedBy' = [admittedBy EXCEPT ![j] = starts]
      /\ pc' \in Signalled(pc)
      /\ UNCHANGED <<held, outcome, kind, inbox, observed, handle>>
  BY PoolAssumption DEF Enqueue
<1>1. admittedBy[j] = 0 /\ kind[j] # "none" /\ starts > 0
  BY <1>0 DEF Owned, Threads, Phased
<1>2. /\ j \notin Entries(queue) /\ \A v \in Workers : held[v] # j
      /\ ~InHands(j) /\ ~JobReaches(j)
  BY <1>1, Outside
<1>3. Decided(j) /\ Heard(j) /\ Referenced(j)
  BY DEF Delivery
<1>4. Entries(queue') = Entries(queue) \cup {j}
  BY <1>0, EntriesAppend DEF Typed
<1>5. /\ \A i \in Jobs : i # j => request'[i] = request[i]
      /\ request'[j].terminal = request[j].terminal
      /\ HasRequest(j) => request'[j].refs = request[j].refs + 1
      /\ ~HasRequest(j) => request'[j].refs = request[j].refs
  <2>1. CASE HasRequest(j)
    <3>1. request' = [request EXCEPT ![j] = Retained(request[j])]
      BY <2>1 DEF Enqueue
    <3> QED
      BY <2>1, <3>1, RequestAt, FieldUpdates DEF RequestShape
  <2>2. CASE ~HasRequest(j)
    BY <2>2 DEF Enqueue
  <2> QED
    BY <2>1, <2>2
<1>6. \A i \in Jobs : admittedBy'[i] = IF i = j THEN starts ELSE admittedBy[i]
  BY <1>0 DEF Typed
<1>7. \A v \in Workers : Quiet(pc[v], pc'[v])
  <2>1. \A v \in Workers :
          \/ pc'[v] = pc[v]
          \/ pc[v] = "waitQueue" /\ pc'[v] = "entry"
          \/ pc[v] = "waitPause" /\ pc'[v] = "repause"
    BY <1>0, SignalledPoints DEF Typed
  <2> QED
    BY <2>1 DEF Quiet, Serving, Unanswered, Answered
<1>8. \A v \in Workers : SameWorker(v, j)
  BY <1>0, <1>2, <1>7 DEF SameWorker
<1>9. \A i \in Jobs \ {j} : SameJob(i)
  <2>1. ASSUME NEW i \in Jobs, i # j
        PROVE  i \in Entries(queue)' <=> i \in Entries(queue)
    BY <1>4, <2>1 DEF Entries
  <2> QED
    BY <1>0, <1>5, <1>6, <2>1, PoolAssumption DEF SameJob
<1>10. j \in Entries(queue)' /\ JobReaches(j)'
  BY <1>4 DEF JobReaches, Queued, Entries
<1>11. Decided(j)' /\ Heard(j)' /\ Referenced(j)'
  <2>0. HasRequest(j)' <=> HasRequest(j)
    BY <1>0 DEF HasRequest
  <2>1. Decided(j)'
    BY <1>1, <1>3, <1>5, <1>10 DEF Decided
  <2>2. Heard(j)'
    BY <1>0, <1>3, <1>5 DEF Heard, HeardOnce, HasObserver
  <2>3. Referenced(j)'
    BY <1>0, <1>1, <1>2, <1>3, <1>5, <1>10, <2>0 DEF Referenced, One
  <2> QED
    BY <2>1, <2>2, <2>3
<1> QED
  BY <1>8, <1>9, <1>11, WorkerNumbers, OthersKeep

\* Reject and OutOfMemory: the control of a submission that stays outside.
LEMMA AbandonedDelivery ==
  ASSUME Typed, RequestShape, ProcessShape, Threads, Owned, Delivery,
         NEW j \in Jobs, submitting = j, submitting' = NoJob, Abandoned(j),
         UNCHANGED <<pc, held, outcome, queue, admittedBy, kind, inbox, observed>>
  PROVE  Delivery'
<1>0. j # NoJob
  BY PoolAssumption
<1>1. admittedBy[j] = 0 /\ kind[j] # "none"
  BY <1>0 DEF Owned
<1>2. /\ j \notin Entries(queue) /\ \A v \in Workers : held[v] # j
      /\ ~InHands(j) /\ ~JobReaches(j)
  BY <1>1, Outside
<1>3. Decided(j) /\ Heard(j) /\ Referenced(j)
  BY DEF Delivery
<1>4. /\ \A i \in Jobs : i # j => request'[i] = request[i] /\ handle'[i] = handle[i]
      /\ ~handle'[j]
      /\ request'[j].terminal = request[j].terminal
      /\ HasRequest(j) => request'[j].refs = request[j].refs - 1
      /\ ~HasRequest(j) => request'[j].refs = request[j].refs
  <2>1. handle' = [handle EXCEPT ![j] = FALSE]
    BY DEF Abandoned
  <2>2. CASE HasRequest(j)
    <3>1. request' = [request EXCEPT ![j] = [Released(request[j]) EXCEPT !.monitored = FALSE]]
      BY <2>2 DEF Abandoned
    <3> QED
      BY <2>1, <2>2, <3>1, RequestAt, FieldUpdates DEF RequestShape, ProcessShape
  <2>3. CASE ~HasRequest(j)
    BY <2>1, <2>3 DEF Abandoned, ProcessShape
  <2> QED
    BY <2>2, <2>3
<1>5. \A v \in Workers : SameWorker(v, j)
  BY <1>2 DEF SameWorker, Quiet
<1>6. \A i \in Jobs \ {j} : SameJob(i)
  BY <1>0, <1>4, PoolAssumption DEF SameJob, Entries
<1>7. ~JobReaches(j)'
  BY <1>2 DEF JobReaches, Queued, Entries
<1>8. Decided(j)' /\ Heard(j)' /\ Referenced(j)'
  <2>0. HasRequest(j)' <=> HasRequest(j)
    BY DEF HasRequest
  <2>1. Decided(j)'
    BY <1>1, <1>3, <1>4 DEF Decided
  <2>2. Heard(j)'
    BY <1>3, <1>4 DEF Heard, HeardOnce, HasObserver
  <2>3. Referenced(j)'
    BY <1>0, <1>1, <1>2, <1>3, <1>4, <1>7, <2>0 DEF Referenced, One
  <2> QED
    BY <2>1, <2>2, <2>3
<1> QED
  BY <1>5, <1>6, <1>8, WorkerNumbers, OthersKeep

LEMMA CollectRequestDelivery ==
  ASSUME Typed, RequestShape, ProcessShape, Threads, Owned, Delivery,
         NEW j \in Jobs, CollectRequest(j)
  PROVE  Delivery'
<1>0. /\ handle[j] /\ submitting # j
      /\ handle' = [handle EXCEPT ![j] = FALSE]
      /\ request' = [request EXCEPT ![j] = [Released(request[j]) EXCEPT !.monitored = FALSE]]
      /\ UNCHANGED <<pc, held, outcome, queue, admittedBy, kind, inbox, observed, submitting>>
  BY DEF CollectRequest, queueVars, workerVars
<1>1. Decided(j) /\ Heard(j) /\ Referenced(j)
  BY DEF Delivery
<1>2. HasRequest(j) /\ HasRequest(j)' /\ kind[j] # "none"
  BY <1>0, <1>1 DEF Referenced, HasRequest
<1>3. /\ \A i \in Jobs : i # j => request'[i] = request[i] /\ handle'[i] = handle[i]
      /\ ~handle'[j]
      /\ request'[j].terminal = request[j].terminal
      /\ request'[j].refs = request[j].refs - 1
  BY <1>0, RequestAt, FieldUpdates DEF RequestShape, ProcessShape
<1>4. \A v \in Workers : SameWorker(v, j)
  BY <1>0, <1>3 DEF SameWorker, Quiet
<1>5. \A i \in Jobs \ {j} : SameJob(i)
  BY <1>0, <1>3 DEF SameJob, Entries
<1>6. (InHands(j)' <=> InHands(j)) /\ (JobReaches(j)' <=> JobReaches(j))
  BY <1>0 DEF InHands, JobReaches, Queued, Entries
<1>7. Decided(j)' /\ Heard(j)' /\ Referenced(j)'
  <2>1. Decided(j)'
    BY <1>0, <1>1, <1>2, <1>3, <1>6 DEF Decided, Entries
  <2>2. Heard(j)'
    BY <1>0, <1>1, <1>3 DEF Heard, HeardOnce, HasObserver
  <2>3. Referenced(j)'
    BY <1>0, <1>1, <1>2, <1>3, <1>6, RequestAt DEF Referenced, One, Controls
  <2> QED
    BY <2>1, <2>2, <2>3
<1> QED
  BY <1>4, <1>5, <1>7, WorkerNumbers, OthersKeep


\* The steps of a worker with a job.  Nobody else has the job, and it is not
\* in the queue.
LEMMA AtWork ==
  ASSUME Typed, Threads, Owned, Delivery, NEW w \in Workers, pc[w] \in Serving
  PROVE  /\ held[w] \in Jobs /\ held[w] # NoJob
         /\ held[w] \notin Entries(queue) /\ admittedBy[held[w]] > 0
         /\ kind[held[w]] # "none"
         /\ \A v \in Workers : held[v] = held[w] => v = w
         /\ Standing(w)
         /\ Decided(held[w]) /\ Heard(held[w]) /\ Referenced(held[w])
         /\ InHands(held[w])
         /\ JobReaches(held[w]) <=> pc[w] # "account"
<1>1. held[w] \in Jobs /\ held[w] # NoJob
  BY HeldJob
<1>2. /\ held[w] \notin Entries(queue) /\ admittedBy[held[w]] > 0
      /\ kind[held[w]] # "none"
      /\ \A v \in Workers : held[v] = held[w] => v = w
  BY <1>1 DEF Owned, Typed
<1>3. InHands(held[w])
  BY DEF InHands
<1>4. JobReaches(held[w]) <=> pc[w] # "account"
  BY <1>2 DEF JobReaches, Queued, Entries
<1> QED
  BY <1>1, <1>2, <1>3, <1>4 DEF Delivery

\* A worker goes from one point to another with its job in its hands; its
\* request may change.
LEMMA WorkDelivery ==
  ASSUME Typed, RequestShape, Threads, Owned, Delivery,
         NEW w \in Workers, pc[w] \in Serving,
         pc'[w] \in Serving,
         \A v \in Workers : v # w => pc'[v] = pc[v] /\ outcome'[v] = outcome[v],
         UNCHANGED <<held, queue, admittedBy, kind, handle, submitting>>,
         \A i \in Jobs : i # held[w] =>
           /\ request'[i] = request[i] /\ inbox'[i] = inbox[i] /\ observed'[i] = observed[i],
         HasRequest(held[w]) => request'[held[w]].refs = One(handle[held[w]]) + One(pc'[w] # "account"),
         ~HasRequest(held[w]) => request'[held[w]].refs = 0,
         ~HasRequest(held[w]) => request'[held[w]].terminal = "pending",
         Standing(w)', HeardOnce(held[w])'
  PROVE  Delivery'
<1> DEFINE j == held[w]
<1>0. /\ held[w] \in Jobs /\ held[w] # NoJob
      /\ held[w] \notin Entries(queue) /\ admittedBy[held[w]] > 0
      /\ kind[held[w]] # "none"
      /\ \A v \in Workers : held[v] = held[w] => v = w
      /\ Decided(held[w]) /\ Heard(held[w]) /\ Referenced(held[w])
      /\ InHands(held[w])
  BY AtWork
<1>2. \A v \in Workers \ {w} : SameWorker(v, j)
  BY <1>0 DEF SameWorker, Quiet
<1>3. \A i \in Jobs \ {j} : SameJob(i)
  BY DEF SameJob, Entries
<1>4. (JobReaches(j)' <=> pc'[w] # "account") /\ InHands(j)'
  BY <1>0 DEF JobReaches, InHands, Queued, Entries
<1>5. (HasRequest(j)' <=> HasRequest(j)) /\ j \notin Entries(queue)'
  BY <1>0 DEF HasRequest, Entries
<1>6. Decided(j)'
  BY <1>0, <1>4, <1>5 DEF Decided
<1>7. Heard(j)'
  BY <1>0 DEF Heard
<1>8. Referenced(j)'
  BY <1>0, <1>4, <1>5 DEF Referenced, One
<1> QED
  BY <1>0, <1>2, <1>3, <1>6, <1>7, <1>8, OthersKeep


LEMMA SettleDelivery ==
  ASSUME Typed, Typed', RequestShape, ProcessShape, Threads, Owned, Delivery,
         NEW w \in Workers, Settle(w)
  PROVE  Delivery'
<1> DEFINE j == held[w]
<1>0. /\ pc[w] = "settle"
      /\ pc' = [pc EXCEPT ![w] = IF HasRequest(j) THEN "load" ELSE "destroy"]
      /\ outcome' = [outcome EXCEPT ![w] = IF IsCancelled(j) THEN "cancelled" ELSE "none"]
      /\ request' = IF HasRequest(j) /\ IsCancelled(j)
                    THEN [request EXCEPT ![j] = Cancelled(request[j])] ELSE request
      /\ UNCHANGED <<held, queue, admittedBy, kind, handle, submitting, inbox, observed>>
  BY DEF Settle, Goto, queueVars, clientVars
<1>1. /\ j \in Jobs /\ j # NoJob /\ kind[j] # "none"
      /\ Standing(w) /\ Heard(j) /\ Referenced(j)
      /\ JobReaches(j) <=> pc[w] # "account"
  BY <1>0, AtWork DEF Serving, Unanswered, Answered
<1>2. /\ \A i \in Jobs : i # j => request'[i] = request[i]
      /\ request'[j].terminal = request[j].terminal /\ request'[j].refs = request[j].refs
  BY <1>0, <1>1, RequestAt, FieldUpdates DEF RequestShape
<1>3. \A v \in Workers : outcome'[v] = IF v # w THEN outcome[v]
                                        ELSE IF IsCancelled(j) THEN "cancelled" ELSE "none"
  BY <1>0 DEF Typed
<1>4. pc'[w] = IF HasRequest(j) THEN "load" ELSE "destroy"
  BY <1>0 DEF Typed
<1>5. request[j].terminal = "pending"
  BY <1>0, <1>1 DEF Standing, Unanswered
<1>6. (HasRequest(j)' <=> HasRequest(j)) /\ held'[w] = j
  BY <1>0 DEF HasRequest
<1>7. Standing(w)'
  BY <1>2, <1>3, <1>4, <1>5, <1>6 DEF Standing, Unanswered, Answered
<1>8. HeardOnce(j)'
  BY <1>0, <1>1, <1>2 DEF Heard, HeardOnce, HasObserver
<1>9. /\ HasRequest(j) => request'[j].refs = One(handle[j]) + One(pc'[w] # "account")
      /\ ~HasRequest(j) => request'[j].refs = 0
  BY <1>0, <1>1, <1>2, <1>4 DEF Referenced, One
<1>10. \A v \in Workers : v # w => pc'[v] = pc[v] /\ outcome'[v] = outcome[v]
  BY <1>0, <1>3 DEF Typed
<1>11. pc[w] \in Serving /\ pc'[w] \in Serving
  BY <1>0, <1>4 DEF Serving, Unanswered, Answered
<1> QED
  BY <1>0, <1>2, <1>5, <1>7, <1>8, <1>9, <1>10, <1>11, WorkDelivery

LEMMA LoadCancelledDelivery ==
  ASSUME Typed, Typed', RequestShape, ProcessShape, Threads, Owned, Delivery,
         NEW w \in Workers, LoadCancelled(w)
  PROVE  Delivery'
<1> DEFINE j == held[w]
<1>0. /\ pc[w] = "load" /\ pc' = [pc EXCEPT ![w] = "destroy"]
      /\ outcome' = [outcome EXCEPT ![w] = "cancelled"]
      /\ request' = [request EXCEPT ![j].terminal =
                       IF request[j].terminal = "pending" THEN "cancelled" ELSE request[j].terminal]
      /\ observed' = IF HasObserver(j) THEN [observed EXCEPT ![j] = observed[j] \cup {"cancelled"}]
                     ELSE observed
      /\ UNCHANGED <<held, queue, admittedBy, kind, handle, submitting, inbox>>
  BY DEF LoadCancelled, Goto, Notified, queueVars
<1>1. /\ j \in Jobs /\ j # NoJob /\ kind[j] # "none"
      /\ Standing(w) /\ Heard(j) /\ Referenced(j)
      /\ JobReaches(j) <=> pc[w] # "account"
  BY <1>0, AtWork DEF Serving, Unanswered, Answered
<1>5. request[j].terminal = "pending" /\ HasRequest(j)
  BY <1>0, <1>1 DEF Standing, Unanswered
<1>2. /\ \A i \in Jobs : i # j => request'[i] = request[i]
      /\ request'[j].terminal = "cancelled" /\ request'[j].refs = request[j].refs
  BY <1>0, <1>1, <1>5, RequestAt DEF RequestShape, Controls
<1>3. \A i \in Jobs : i # j => observed'[i] = observed[i]
  BY <1>0
<1>4. pc'[w] = "destroy" /\ outcome'[w] = "cancelled"
  BY <1>0 DEF Typed
<1>6. (HasRequest(j)' <=> HasRequest(j)) /\ held'[w] = j
  BY <1>0 DEF HasRequest
<1>7. Standing(w)'
  BY <1>2, <1>4, <1>5, <1>6 DEF Standing, Unanswered, Answered, Outcomes
<1>8. HeardOnce(j)'
  <2>1. inbox'[j] = 0 /\ observed[j] \in SUBSET Outcomes
    BY <1>0, <1>1, <1>5 DEF Heard, HeardOnce, Typed
  <2>2. HasObserver(j) => observed'[j] = {"cancelled"}
    BY <1>0, <1>1, <1>5 DEF Heard, HeardOnce, Outcomes, Typed
  <2> QED
    BY <1>0, <1>2, <2>1, <2>2 DEF HeardOnce, HasObserver, Outcomes
<1>9. /\ HasRequest(j) => request'[j].refs = One(handle[j]) + One(pc'[w] # "account")
      /\ ~HasRequest(j) => request'[j].refs = 0
  BY <1>0, <1>1, <1>2, <1>4 DEF Referenced, One
<1>10. \A v \in Workers : v # w => pc'[v] = pc[v] /\ outcome'[v] = outcome[v]
  BY <1>0 DEF Typed
<1>11. pc[w] \in Serving /\ pc'[w] \in Serving
  BY <1>0, <1>4 DEF Serving, Unanswered, Answered
<1> QED
  BY <1>0, <1>2, <1>3, <1>5, <1>7, <1>8, <1>9, <1>10, <1>11, WorkDelivery

LEMMA LoadNotCancelledDelivery ==
  ASSUME Typed, Typed', RequestShape, ProcessShape, Threads, Owned, Delivery,
         NEW w \in Workers, LoadNotCancelled(w)
  PROVE  Delivery'
<1> DEFINE j == held[w]
<1>0. /\ pc[w] = "load" /\ pc' = [pc EXCEPT ![w] = "exchange"]
      /\ UNCHANGED <<held, queue, admittedBy, kind, handle, submitting, inbox, observed,
                     request, outcome>>
  BY DEF LoadNotCancelled, Goto, queueVars, clientVars, flagVars
<1>1. /\ j \in Jobs /\ j # NoJob /\ kind[j] # "none"
      /\ Standing(w) /\ Heard(j) /\ Referenced(j)
      /\ JobReaches(j) <=> pc[w] # "account"
  BY <1>0, AtWork DEF Serving, Unanswered, Answered
<1>5. request[j].terminal = "pending" /\ HasRequest(j)
  BY <1>0, <1>1 DEF Standing, Unanswered
<1>4. pc'[w] = "exchange"
  BY <1>0 DEF Typed
<1>6. (HasRequest(j)' <=> HasRequest(j)) /\ held'[w] = j
  BY <1>0 DEF HasRequest
<1>7. Standing(w)'
  BY <1>0, <1>4, <1>5, <1>6 DEF Standing, Unanswered, Answered
<1>8. HeardOnce(j)'
  BY <1>0, <1>1 DEF Heard, HeardOnce, HasObserver
<1>9. /\ HasRequest(j) => request'[j].refs = One(handle[j]) + One(pc'[w] # "account")
      /\ ~HasRequest(j) => request'[j].refs = 0
  BY <1>0, <1>1, <1>4 DEF Referenced, One
<1>10. \A v \in Workers : v # w => pc'[v] = pc[v] /\ outcome'[v] = outcome[v]
  BY <1>0 DEF Typed
<1>11. pc[w] \in Serving /\ pc'[w] \in Serving
  BY <1>0, <1>4 DEF Serving, Unanswered, Answered
<1> QED
  BY <1>0, <1>5, <1>7, <1>8, <1>9, <1>10, <1>11, WorkDelivery

LEMMA ExchangeDelivery ==
  ASSUME Typed, Typed', RequestShape, ProcessShape, Threads, Owned, Delivery,
         NEW w \in Workers, Exchange(w)
  PROVE  Delivery'
<1> DEFINE j == held[w]
<1> DEFINE won == request[j].terminal = "pending"
<1>0. /\ pc[w] = "exchange"
      /\ pc' = [pc EXCEPT ![w] = IF won THEN "send" ELSE "destroy"]
      /\ request' = [request EXCEPT ![j].terminal =
                       IF won THEN "delivering" ELSE request[j].terminal]
      /\ outcome' = [outcome EXCEPT ![w] = IF won THEN outcome[w] ELSE "cancelled"]
      /\ UNCHANGED <<held, queue, admittedBy, kind, handle, submitting, inbox, observed>>
  BY DEF Exchange, queueVars, clientVars
<1>1. /\ j \in Jobs /\ j # NoJob /\ kind[j] # "none"
      /\ Standing(w) /\ Heard(j) /\ Referenced(j)
      /\ JobReaches(j) <=> pc[w] # "account"
  BY <1>0, AtWork DEF Serving, Unanswered, Answered
<1>5. won /\ HasRequest(j)
  BY <1>0, <1>1 DEF Standing, Unanswered
<1>2. /\ \A i \in Jobs : i # j => request'[i] = request[i]
      /\ request'[j].terminal = "delivering" /\ request'[j].refs = request[j].refs
  BY <1>0, <1>1, <1>5, RequestAt DEF RequestShape, Controls
<1>4. pc'[w] = "send"
  BY <1>0, <1>5 DEF Typed
<1>6. (HasRequest(j)' <=> HasRequest(j)) /\ held'[w] = j
  BY <1>0 DEF HasRequest
<1>7. Standing(w)'
  BY <1>2, <1>4, <1>5, <1>6 DEF Standing, Unanswered, Answered
<1>8. HeardOnce(j)'
  BY <1>0, <1>1, <1>2, <1>5 DEF Heard, HeardOnce, HasObserver, Outcomes
<1>9. /\ HasRequest(j) => request'[j].refs = One(handle[j]) + One(pc'[w] # "account")
      /\ ~HasRequest(j) => request'[j].refs = 0
  BY <1>0, <1>1, <1>2, <1>4 DEF Referenced, One
<1>10. \A v \in Workers : v # w => pc'[v] = pc[v] /\ outcome'[v] = outcome[v]
  BY <1>0 DEF Typed
<1>11. pc[w] \in Serving /\ pc'[w] \in Serving
  BY <1>0, <1>4 DEF Serving, Unanswered, Answered
<1> QED
  BY <1>0, <1>2, <1>5, <1>7, <1>8, <1>9, <1>10, <1>11, WorkDelivery

LEMMA SendDelivery ==
  ASSUME Typed, Typed', RequestShape, ProcessShape, Threads, Owned, Delivery,
         NEW w \in Workers, Send(w)
  PROVE  Delivery'
<1> DEFINE j == held[w]
<1> DEFINE o == SentOrLost(j)
<1>0. /\ pc[w] = "send" /\ pc' = [pc EXCEPT ![w] = "destroy"]
      /\ outcome' = [outcome EXCEPT ![w] = o]
      /\ request' = [request EXCEPT ![j].terminal = o]
      /\ inbox' = [inbox EXCEPT ![j] = inbox[j] + (IF alive[j] THEN 1 ELSE 0)]
      /\ observed' = IF HasObserver(j) THEN [observed EXCEPT ![j] = observed[j] \cup {o}]
                     ELSE observed
      /\ UNCHANGED <<held, queue, admittedBy, kind, handle, submitting>>
  BY DEF Send, Goto, Notified, queueVars
<1>1. /\ j \in Jobs /\ j # NoJob /\ kind[j] # "none"
      /\ Standing(w) /\ Heard(j) /\ Referenced(j)
      /\ JobReaches(j) <=> pc[w] # "account"
  BY <1>0, AtWork DEF Serving, Unanswered, Answered
<1>5. request[j].terminal = "delivering" /\ HasRequest(j)
  BY <1>0, <1>1 DEF Standing
<1>2. /\ \A i \in Jobs : i # j => request'[i] = request[i]
      /\ request'[j].terminal = o /\ request'[j].refs = request[j].refs
  BY <1>0, <1>1, <1>5, RequestAt DEF RequestShape, Controls
<1>3. \A i \in Jobs : i # j => observed'[i] = observed[i] /\ inbox'[i] = inbox[i]
  BY <1>0 DEF Typed
<1>4. pc'[w] = "destroy" /\ outcome'[w] = o
  BY <1>0 DEF Typed
<1>6. (HasRequest(j)' <=> HasRequest(j)) /\ held'[w] = j
  BY <1>0 DEF HasRequest
<1>12. o \in {"delivered", "discarded"} /\ (o = "delivered" <=> alive[j])
  BY DEF SentOrLost
<1>7. Standing(w)'
  BY <1>2, <1>4, <1>5, <1>6, <1>12 DEF Standing, Unanswered, Answered, Outcomes
<1>8. HeardOnce(j)'
  <2>1. inbox[j] = 0 /\ (HasObserver(j) => observed[j] = {})
    BY <1>1, <1>5 DEF Heard, HeardOnce, Outcomes
  <2>2. inbox'[j] = IF alive[j] THEN 1 ELSE 0
    BY <1>0, <1>1, <2>1 DEF Typed
  <2>3. HasObserver(j) => observed'[j] = {o}
    BY <1>0, <1>1, <2>1 DEF Typed
  <2> QED
    BY <1>0, <1>2, <1>12, <2>2, <2>3 DEF HeardOnce, HasObserver, Outcomes
<1>9. /\ HasRequest(j) => request'[j].refs = One(handle[j]) + One(pc'[w] # "account")
      /\ ~HasRequest(j) => request'[j].refs = 0
  BY <1>0, <1>1, <1>2, <1>4 DEF Referenced, One
<1>10. \A v \in Workers : v # w => pc'[v] = pc[v] /\ outcome'[v] = outcome[v]
  BY <1>0 DEF Typed
<1>11. pc[w] \in Serving /\ pc'[w] \in Serving
  BY <1>0, <1>4 DEF Serving, Unanswered, Answered
<1> QED
  BY <1>0, <1>2, <1>3, <1>5, <1>7, <1>8, <1>9, <1>10, <1>11, WorkDelivery

LEMMA DestroyDelivery ==
  ASSUME Typed, Typed', RequestShape, ProcessShape, Threads, Owned, Delivery,
         NEW w \in Workers, Destroy(w)
  PROVE  Delivery'
<1> DEFINE j == held[w]
<1>0. /\ pc[w] = "destroy" /\ pc' = [pc EXCEPT ![w] = "account"]
      /\ request' = IF HasRequest(j) THEN [request EXCEPT ![j] = Released(request[j])]
                    ELSE request
      /\ UNCHANGED <<held, queue, admittedBy, kind, handle, submitting, inbox, observed,
                     outcome>>
  BY DEF Destroy, Goto, queueVars, clientVars
<1>1. /\ j \in Jobs /\ j # NoJob /\ kind[j] # "none"
      /\ Standing(w) /\ Heard(j) /\ Referenced(j)
      /\ JobReaches(j) <=> pc[w] # "account"
  BY <1>0, AtWork DEF Serving, Unanswered, Answered
<1>2. /\ \A i \in Jobs : i # j => request'[i] = request[i]
      /\ request'[j].terminal = request[j].terminal
      /\ HasRequest(j) => request'[j].refs = request[j].refs - 1
  BY <1>0, <1>1, RequestAt, FieldUpdates DEF RequestShape
<1>4. pc'[w] = "account"
  BY <1>0 DEF Typed
<1>5. ~HasRequest(j) => request[j].terminal = "pending"
  BY <1>0, AtWork DEF Decided, Serving, Answered
<1>6. (HasRequest(j)' <=> HasRequest(j)) /\ held'[w] = j
  BY <1>0 DEF HasRequest
<1>7. Standing(w)'
  BY <1>0, <1>1, <1>2, <1>4, <1>6 DEF Standing, Unanswered, Answered
<1>8. HeardOnce(j)'
  BY <1>0, <1>1, <1>2 DEF Heard, HeardOnce, HasObserver
<1>9. /\ HasRequest(j) => request'[j].refs = One(handle[j]) + One(pc'[w] # "account")
      /\ ~HasRequest(j) => request'[j].refs = 0
  BY <1>0, <1>1, <1>2, <1>4 DEF Referenced, One
<1>10. \A v \in Workers : v # w => pc'[v] = pc[v] /\ outcome'[v] = outcome[v]
  BY <1>0 DEF Typed
<1>11. pc[w] \in Serving /\ pc'[w] \in Serving
  BY <1>0, <1>4 DEF Serving, Unanswered, Answered
<1> QED
  BY <1>0, <1>2, <1>5, <1>7, <1>8, <1>9, <1>10, <1>11, WorkDelivery

LEMMA PopDelivery ==
  ASSUME Typed, Typed', RequestShape, ProcessShape, Threads, Owned, Delivery,
         NEW w \in Workers, Pop(w)
  PROVE  Delivery'
<1>a. queue # <<>> => Head(queue) \in Jobs
  BY DEF Typed
<1>b. PICK j \in Jobs : j = Head(queue)
  BY <1>a DEF Pop
<1>0. /\ pc[w] = "entry" /\ queue # <<>> /\ queue' = Tail(queue)
      /\ pc' = [pc EXCEPT ![w] = IF HoldBack THEN "waitPause" ELSE "probe"]
      /\ held' = [held EXCEPT ![w] = j]
      /\ UNCHANGED <<outcome, admittedBy, kind, handle, submitting, inbox, observed, request>>
  BY <1>b DEF Pop, Goto, Dequeued, clientVars, flagVars
<1>1. j \in Entries(queue) /\ Entries(queue') = Entries(queue) \ {j} /\ j \in Jobs
  BY <1>0, <1>b, EntriesTail, EntriesSubset DEF Typed, Owned
<1>2. /\ \A v \in Workers : held[v] # j
      /\ held[w] = NoJob /\ j # NoJob /\ admittedBy[j] > 0
  BY <1>0, <1>1, PoolAssumption DEF Owned, Threads, Staffed, Serving, Unanswered, Answered
<1>3. /\ \A v \in Workers : held'[v] = IF v = w THEN j ELSE held[v]
      /\ \A v \in Workers : v # w => pc'[v] = pc[v]
      /\ pc'[w] \in {"waitPause", "probe"}
  BY <1>0 DEF Typed
<1>4. Decided(j) /\ Heard(j) /\ Referenced(j) /\ JobReaches(j)
  BY <1>1 DEF Delivery, JobReaches, Queued, Entries
<1>5. request[j].terminal = "pending"
  BY <1>1, <1>4 DEF Decided
<1>6. \A v \in Workers \ {w} : SameWorker(v, j)
  BY <1>0, <1>2, <1>3 DEF SameWorker, Quiet
<1>7. \A i \in Jobs \ {j} : SameJob(i)
  <2>1. ASSUME NEW i \in Jobs, i # j
        PROVE  i \in Entries(queue)' <=> i \in Entries(queue)
    BY <1>1, <2>1 DEF Entries
  <2> QED
    BY <1>0, <2>1 DEF SameJob
<1>8. Standing(w)'
  BY <1>0, <1>3, <1>5 DEF Standing, Answered
<1>9. InHands(j)' /\ JobReaches(j)' /\ j \notin Entries(queue)'
  BY <1>1, <1>3 DEF InHands, JobReaches, Entries
<1>10. Decided(j)' /\ Heard(j)' /\ Referenced(j)'
  <2>0. HasRequest(j)' <=> HasRequest(j)
    BY <1>0 DEF HasRequest
  <2>1. Decided(j)'
    BY <1>0, <1>5, <1>9 DEF Decided
  <2>2. Heard(j)'
    BY <1>0, <1>4 DEF Heard, HeardOnce, HasObserver
  <2>3. Referenced(j)'
    BY <1>0, <1>4, <1>9, <2>0 DEF Referenced, One
  <2> QED
    BY <2>1, <2>2, <2>3
<1> QED
  BY <1>1, <1>2, <1>3, <1>6, <1>7, <1>8, <1>10, OthersKeep

LEMMA AccountDelivery ==
  ASSUME Typed, Typed', RequestShape, ProcessShape, Threads, Owned, Delivery,
         NEW w \in Workers, Account(w)
  PROVE  Delivery'
<1>a. held[w] \in Jobs
  BY HeldJob DEF Account, Serving, Answered
<1>b. PICK j \in Jobs : j = held[w]
  BY <1>a
<1> DEFINE parked == [pc EXCEPT ![w] = "entry"]
<1>0. /\ pc[w] = "account" /\ pc' = Broadcast(parked)
      /\ held' = [held EXCEPT ![w] = NoJob]
      /\ UNCHANGED <<queue, admittedBy, kind, handle, submitting, inbox, observed, request, outcome>>
  BY DEF Account, clientVars, flagVars
<1>1. /\ j \in Jobs /\ j # NoJob /\ kind[j] # "none"
      /\ j \notin Entries(queue) /\ admittedBy[j] > 0
      /\ \A v \in Workers : held[v] = j => v = w
      /\ Standing(w) /\ Decided(j) /\ Heard(j) /\ Referenced(j)
      /\ ~JobReaches(j)
  BY <1>0, <1>b, AtWork DEF Serving, Answered
<1>2. parked \in [Workers -> WorkerPoints]
  BY Points DEF Typed
<1>3. \A v \in Workers : parked[v] = IF v = w THEN "entry" ELSE pc[v]
  BY DEF Typed
<1> HIDE DEF parked
<1>4. /\ \A v \in Workers : v # w => Quiet(pc[v], pc'[v])
      /\ pc'[w] = "entry"
  BY <1>0, <1>2, <1>3, BroadcastPoints DEF Quiet, Serving, Unanswered, Answered
<1>5. \A v \in Workers : held'[v] = IF v = w THEN NoJob ELSE held[v]
  BY <1>0 DEF Typed
<1>6. \A v \in Workers \ {w} : SameWorker(v, j)
  BY <1>0, <1>1, <1>4, <1>5, <1>b DEF SameWorker
<1>7. \A i \in Jobs \ {j} : SameJob(i)
  BY <1>0 DEF SameJob, Entries
<1>8. Standing(w)'
  BY <1>4 DEF Standing, Unanswered, Answered
<1>9. ~InHands(j)' /\ ~JobReaches(j)' /\ j \notin Entries(queue)'
  BY <1>0, <1>1, <1>5 DEF InHands, JobReaches, Queued, Entries
<1>10. Decided(j)' /\ Heard(j)' /\ Referenced(j)'
  <2>0. HasRequest(j)' <=> HasRequest(j)
    BY <1>0 DEF HasRequest
  <2>1. HasRequest(j) => request[j].terminal \in Outcomes
    BY <1>0, <1>1, <1>b DEF Standing, Answered
  <2>2. ~HasRequest(j) => request[j].terminal = "pending"
    BY <1>1 DEF Decided
  <2>3. Decided(j)'
    BY <1>0, <1>1, <1>9, <2>0, <2>1, <2>2 DEF Decided
  <2>4. Heard(j)'
    BY <1>0, <1>1 DEF Heard, HeardOnce, HasObserver
  <2>5. Referenced(j)'
    BY <1>0, <1>1, <1>9, <2>0 DEF Referenced, One
  <2> QED
    BY <2>3, <2>4, <2>5
<1> QED
  BY <1>1, <1>5, <1>6, <1>7, <1>8, <1>10, <1>b, OthersKeep

LEMMA DeliveryStep ==
  ASSUME Shapes, Shapes', Threads, Threads', Owned, Owned', Delivery, [Next]_vars
  PROVE  Delivery'
<1>0. Typed /\ Typed' /\ RequestShape /\ ProcessShape
  BY ShapesTyped, ShapesTypedNext DEF Shapes
<1>1. CASE StartPool
  <2>0. /\ phase = "absent" /\ queue = <<>> /\ queue' = <<>>
        /\ \A v \in Workers : pc'[v] = "off"
        /\ UNCHANGED <<held, outcome, kind, admittedBy, inbox, observed, handle, submitting, request>>
    BY <1>0, <1>1 DEF StartPool, Threads, Phased, workerVars, clientVars, flagVars
  <2>1. \A v \in Workers : pc[v] \in {"off", "gone"}
    BY <1>0, <2>0 DEF Threads, Staffed
  <2>2. \A v \in Workers : Quiet(pc[v], pc'[v])
    BY <2>0, <2>1 DEF Quiet, Serving, Unanswered, Answered
  <2> QED
    BY <1>0, <2>0, <2>2, DeliveryQuiet, SameFields
<1>2. CASE SpawnWorker
  <2>1. \A v \in Workers : Quiet(pc[v], pc'[v])
    <3>1. pc[started + 1] = "off"
      BY <1>0, <1>2, PoolAssumption DEF SpawnWorker, Typed, Threads, Staffed, Workers
    <3> QED
      BY <1>0, <1>2, <3>1 DEF SpawnWorker, Typed, Quiet, Serving, Unanswered, Answered
  <2> QED
    BY <1>0, <1>2, <2>1, DeliveryQuiet, SameFields DEF SpawnWorker, poolVars, queueVars, workerVars, clientVars, flagVars
<1>3. CASE SpawnFails
  BY <1>0, <1>3, DeliveryQuiet, StayPut, SameFields DEF SpawnFails, poolVars, queueVars, workerVars, clientVars, flagVars
<1>4. CASE PublishPool
  BY <1>0, <1>4, DeliveryQuiet, StayPut, SameFields DEF PublishPool, poolVars, queueVars, workerVars, clientVars, flagVars
<1>5. CASE StopPool
  BY <1>0, <1>5, DeliveryQuiet, StayPut, SameFields DEF StopPool, poolVars, queueVars, workerVars, clientVars, flagVars
<1>6. CASE RaiseStopping
  <2>1. \A v \in Workers : Quiet(pc[v], pc'[v])
    <3>1. pc \in [Workers -> WorkerPoints] /\ pc' = Broadcast(pc)
      BY <1>0, <1>6 DEF RaiseStopping, Typed
    <3>2. \A v \in Workers : \/ pc'[v] = pc[v]
                             \/ pc[v] = "waitQueue" /\ pc'[v] = "entry"
                             \/ pc[v] = "waitPause" /\ pc'[v] = "repause"
      <4> TAKE v \in Workers
      <4> QED
        BY <3>1, BroadcastPoints
    <3> QED
      BY <3>2, WakingQuiet
  <2> QED
    BY <1>0, <1>6, <2>1, DeliveryQuiet, SameFields DEF RaiseStopping, poolVars, queueVars, workerVars, clientVars, flagVars
<1>7. CASE JoinWorkers
  BY <1>0, <1>7, DeliveryQuiet, StayPut, SameFields DEF JoinWorkers, poolVars, queueVars, workerVars, clientVars, flagVars
<1>8. CASE PauseWorkers
  BY <1>0, <1>8, DeliveryQuiet, StayPut, SameFields DEF PauseWorkers, poolVars, queueVars, workerVars, clientVars, flagVars
<1>9. CASE ResumeWorkers
  <2>1. \A v \in Workers : Quiet(pc[v], pc'[v])
    <3>1. pc \in [Workers -> WorkerPoints] /\ pc' = Broadcast(pc)
      BY <1>0, <1>9 DEF ResumeWorkers, Typed
    <3>2. \A v \in Workers : \/ pc'[v] = pc[v]
                             \/ pc[v] = "waitQueue" /\ pc'[v] = "entry"
                             \/ pc[v] = "waitPause" /\ pc'[v] = "repause"
      <4> TAKE v \in Workers
      <4> QED
        BY <3>1, BroadcastPoints
    <3> QED
      BY <3>2, WakingQuiet
  <2> QED
    BY <1>0, <1>9, <2>1, DeliveryQuiet, SameFields DEF ResumeWorkers, poolVars, queueVars, workerVars, clientVars, flagVars
<1>10. ASSUME NEW j \in Jobs, NEW k \in Kinds, BeginSubmit(j, k)
      PROVE  Delivery'
  BY <1>0, <1>10, BeginSubmitDelivery
<1>11. ASSUME NEW j \in Jobs, MonitorFails(j)
      PROVE  Delivery'
  BY <1>0, <1>11, MonitorFailsDelivery
<1>12. ASSUME NEW j \in Jobs, Enqueue(j)
      PROVE  Delivery'
  BY <1>0, <1>12, EnqueueDelivery
<1>13. ASSUME NEW j \in Jobs, Reject(j)
      PROVE  Delivery'
  BY <1>0, <1>13, AbandonedDelivery DEF Reject, poolVars, queueVars, workerVars
<1>14. ASSUME NEW j \in Jobs, OutOfMemory(j)
      PROVE  Delivery'
  BY <1>0, <1>14, AbandonedDelivery DEF OutOfMemory, poolVars, queueVars, workerVars
<1>15. ASSUME NEW j \in Jobs, CancelRequest(j)
      PROVE  Delivery'
  <2>1. request' = [request EXCEPT ![j] = Cancelled(request[j])]
    BY <1>0, <1>15 DEF CancelRequest, RequestShape
  <2>2. \A i \in Jobs : /\ request'[i].terminal = request[i].terminal
                        /\ request'[i].refs = request[i].refs
    BY <1>0, <2>1, RequestAt, FieldUpdates DEF RequestShape
  <2> QED
    BY <1>0, <1>15, <2>2, DeliveryQuiet, StayPut DEF CancelRequest, poolVars, queueVars, workerVars, clientVars, flagVars
<1>16. ASSUME NEW j \in Jobs, CancelOperation(j)
      PROVE  Delivery'
  BY <1>0, <1>16, DeliveryQuiet, StayPut, SameFields DEF CancelOperation, poolVars, queueVars, workerVars, clientVars, flagVars
<1>17. ASSUME NEW j \in Jobs, RecipientDies(j)
      PROVE  Delivery'
  BY <1>0, <1>17, DeliveryQuiet, StayPut, SameFields DEF RecipientDies, poolVars, queueVars, workerVars, clientVars, flagVars
<1>18. ASSUME NEW j \in Jobs, MonitorDown(j)
      PROVE  Delivery'
  <2>1. request' = [request EXCEPT ![j] = [Cancelled(request[j]) EXCEPT !.monitored = FALSE]]
    BY <1>0, <1>18 DEF MonitorDown, RequestShape
  <2>2. \A i \in Jobs : /\ request'[i].terminal = request[i].terminal
                        /\ request'[i].refs = request[i].refs
    BY <1>0, <2>1, RequestAt, FieldUpdates DEF RequestShape
  <2> QED
    BY <1>0, <1>18, <2>2, DeliveryQuiet, StayPut DEF MonitorDown, poolVars, queueVars, workerVars, clientVars, flagVars
<1>19. ASSUME NEW j \in Jobs, AbandonMonitor(j)
      PROVE  Delivery'
  <2>1. request' = [request EXCEPT ![j] = [request[j] EXCEPT !.monitored = FALSE]]
    BY <1>0, <1>19 DEF AbandonMonitor, RequestShape
  <2>2. \A i \in Jobs : /\ request'[i].terminal = request[i].terminal
                        /\ request'[i].refs = request[i].refs
    BY <1>0, <2>1, RequestAt, FieldUpdates DEF RequestShape
  <2> QED
    BY <1>0, <1>19, <2>2, DeliveryQuiet, StayPut DEF AbandonMonitor, poolVars, queueVars, workerVars, clientVars, flagVars
<1>20. ASSUME NEW j \in Jobs, CollectRequest(j)
      PROVE  Delivery'
  BY <1>0, <1>20, CollectRequestDelivery
<1>21. ASSUME NEW w \in Workers, Boot(w)
      PROVE  Delivery'
  <2>1. \A v \in Workers : Quiet(pc[v], pc'[v])
    BY <1>0, <1>21 DEF Boot, Goto, Typed, Quiet, Serving, Unanswered, Answered
  <2> QED
    BY <1>0, <1>21, <2>1, DeliveryQuiet, SameFields DEF Boot, poolVars, queueVars, workerVars, clientVars, flagVars
<1>22. ASSUME NEW w \in Workers, Idle(w)
      PROVE  Delivery'
  <2>1. \A v \in Workers : Quiet(pc[v], pc'[v])
    BY <1>0, <1>22 DEF Idle, Goto, Typed, Quiet, Serving, Unanswered, Answered
  <2> QED
    BY <1>0, <1>22, <2>1, DeliveryQuiet, SameFields DEF Idle, poolVars, queueVars, workerVars, clientVars, flagVars
<1>23. ASSUME NEW w \in Workers, Quit(w)
      PROVE  Delivery'
  <2>1. \A v \in Workers : Quiet(pc[v], pc'[v])
    BY <1>0, <1>23 DEF Quit, Goto, Typed, Quiet, Serving, Unanswered, Answered
  <2> QED
    BY <1>0, <1>23, <2>1, DeliveryQuiet, SameFields DEF Quit, poolVars, queueVars, workerVars, clientVars, flagVars
<1>24. ASSUME NEW w \in Workers, Pop(w)
      PROVE  Delivery'
  BY <1>0, <1>24, PopDelivery
<1>25. ASSUME NEW w \in Workers, Repause(w)
      PROVE  Delivery'
  <2>1. \A v \in Workers : Quiet(pc[v], pc'[v])
    BY <1>0, <1>25 DEF Repause, Goto, Typed, Quiet, Serving, Unanswered, Answered
  <2> QED
    BY <1>0, <1>25, <2>1, DeliveryQuiet, SameFields DEF Repause, poolVars, queueVars, workerVars, clientVars, flagVars
<1>26. ASSUME NEW w \in Workers, Probe(w)
      PROVE  Delivery'
  <2>1. \A v \in Workers : Quiet(pc[v], pc'[v])
    BY <1>0, <1>26 DEF Probe, Goto, Typed, Quiet, Serving, Unanswered, Answered
  <2> QED
    BY <1>0, <1>26, <2>1, DeliveryQuiet, SameFields DEF Probe, poolVars, queueVars, workerVars, clientVars, flagVars
<1>27. ASSUME NEW w \in Workers, Run(w)
      PROVE  Delivery'
  <2>1. \A v \in Workers : Quiet(pc[v], pc'[v])
    BY <1>0, <1>27 DEF Run, Goto, Typed, Quiet, Serving, Unanswered, Answered
  <2> QED
    BY <1>0, <1>27, <2>1, DeliveryQuiet, SameFields DEF Run, poolVars, queueVars, workerVars, clientVars, flagVars
<1>28. ASSUME NEW w \in Workers, Post(w)
      PROVE  Delivery'
  <2>1. \A v \in Workers : Quiet(pc[v], pc'[v])
    BY <1>0, <1>28 DEF Post, Goto, Typed, Quiet, Serving, Unanswered, Answered
  <2> QED
    BY <1>0, <1>28, <2>1, DeliveryQuiet, SameFields DEF Post, poolVars, queueVars, workerVars, clientVars, flagVars
<1>29. ASSUME NEW w \in Workers, Settle(w)
      PROVE  Delivery'
  BY <1>0, <1>29, SettleDelivery
<1>30. ASSUME NEW w \in Workers, LoadCancelled(w)
      PROVE  Delivery'
  BY <1>0, <1>30, LoadCancelledDelivery
<1>31. ASSUME NEW w \in Workers, LoadNotCancelled(w)
      PROVE  Delivery'
  BY <1>0, <1>31, LoadNotCancelledDelivery
<1>32. ASSUME NEW w \in Workers, Exchange(w)
      PROVE  Delivery'
  BY <1>0, <1>32, ExchangeDelivery
<1>33. ASSUME NEW w \in Workers, Send(w)
      PROVE  Delivery'
  BY <1>0, <1>33, SendDelivery
<1>34. ASSUME NEW w \in Workers, Destroy(w)
      PROVE  Delivery'
  BY <1>0, <1>34, DestroyDelivery
<1>35. ASSUME NEW w \in Workers, Account(w)
      PROVE  Delivery'
  BY <1>0, <1>35, AccountDelivery
<1>36. ASSUME NEW w \in Workers, Exit(w)
      PROVE  Delivery'
  <2>1. \A v \in Workers : Quiet(pc[v], pc'[v])
    BY <1>0, <1>36 DEF Exit, Goto, Typed, Quiet, Serving, Unanswered, Answered
  <2> QED
    BY <1>0, <1>36, <2>1, DeliveryQuiet, SameFields DEF Exit, poolVars, queueVars, workerVars, clientVars, flagVars
<1>37. CASE UNCHANGED vars
  BY <1>0, <1>37, DeliveryQuiet, StayPut, SameFields DEF vars, poolVars, queueVars, workerVars, clientVars, flagVars
<1> QED
  BY <1>1, <1>2, <1>3, <1>4, <1>5, <1>6, <1>7, <1>8, <1>9, <1>10, <1>11, <1>12, <1>13, <1>14, <1>15, <1>16, <1>17, <1>18, <1>19, <1>20, <1>21, <1>22, <1>23, <1>24, <1>25, <1>26, <1>27, <1>28, <1>29, <1>30, <1>31, <1>32, <1>33, <1>34, <1>35, <1>36, <1>37
  DEF Next, Controller, Submission, Process, Worker

-----------------------------------------------------------------------------
(* The counters. *)

LEMMA SubsetsOfWorkers ==
  ASSUME NEW S \in SUBSET Workers
  PROVE  IsFiniteSet(S) /\ Cardinality(S) \in Nat /\ Cardinality(S) <= NumWorkers
<1>0. NumWorkers \in Nat
  BY PoolAssumption
<1>1. IsFiniteSet(Workers) /\ Cardinality(Workers) = NumWorkers
  BY <1>0, FS_Interval DEF Workers
<1>2. IsFiniteSet(S) /\ Cardinality(S) <= NumWorkers
  BY <1>1, FS_Subset
<1> QED
  BY <1>2, FS_CardinalityType

\* One more or one less in a finite set.
LEMMA OneMore ==
  ASSUME NEW S, NEW T, NEW x, IsFiniteSet(S), x \notin S, T = S \cup {x}
  PROVE  IsFiniteSet(T) /\ Cardinality(T) = Cardinality(S) + 1
BY FS_AddElement

LEMMA OneLess ==
  ASSUME NEW S, NEW T, NEW x, IsFiniteSet(S), x \in S, T = S \ {x}
  PROVE  IsFiniteSet(T) /\ Cardinality(T) = Cardinality(S) - 1
BY FS_RemoveElement

Sent == {"delivered", "discarded"}

LEMMA CountedSame ==
  ASSUME Counted, live' = live, count' = count,
         EverAdmitted' = EverAdmitted, Booted' = Booted, Busy' = Busy,
         \A o \in Sent : Ended(o)' = Ended(o) /\ NotCounted(o)' = NotCounted(o)
  PROVE  Counted'
BY DEF Counted, Sent

\* Moves of a worker that no counter follows.
Uncountable(p, q) ==
  /\ p \in {"off", "born", "gone"} <=> q \in {"off", "born", "gone"}
  /\ p \in Answered <=> q \in Answered

LEMMA WakingUncountable ==
  ASSUME NEW p, NEW q,
         \/ q = p
         \/ p = "waitQueue" /\ q = "entry"
         \/ p = "waitPause" /\ q = "repause"
  PROVE  Uncountable(p, q)
BY DEF Uncountable, Answered

LEMMA UncountableStay ==
  ASSUME pc' = pc
  PROVE  \A v \in Workers : Uncountable(pc[v], pc'[v])
BY DEF Uncountable

LEMMA SameEnded ==
  ASSUME UNCHANGED <<admittedBy, starts>>, NEW o,
         \A i \in Jobs : request[i].terminal = o <=> request'[i].terminal = o
  PROVE  Ended(o)' = Ended(o)
BY DEF Ended, Admitted

LEMMA SameBooted ==
  ASSUME \A v \in Workers : pc[v] \in {"off", "born", "gone"} <=> pc'[v] \in {"off", "born", "gone"}
  PROVE  Booted' = Booted
BY DEF Booted

LEMMA CountedQuiet ==
  ASSUME Counted, UNCHANGED <<live, count, held, outcome, admittedBy, starts>>,
         \A i \in Jobs : request'[i].terminal = request[i].terminal,
         \A v \in Workers : Uncountable(pc[v], pc'[v])
  PROVE  Counted'
<1>1. Booted' = Booted
  BY SameBooted DEF Uncountable
<1>2. Busy' = Busy /\ EverAdmitted' = EverAdmitted
  BY DEF Busy, EverAdmitted
<1>3. ASSUME NEW o \in Sent
      PROVE  Ended(o)' = Ended(o) /\ NotCounted(o)' = NotCounted(o)
  BY SameEnded DEF NotCounted, Uncountable
<1> QED
  BY <1>1, <1>2, <1>3, CountedSame

\* A worker reaches a verdict that is neither of the two.
LEMMA CountedVerdict ==
  ASSUME Counted, UNCHANGED <<live, count, held, admittedBy, starts>>,
         NEW w \in Workers, NEW j \in Jobs,
         \A i \in Jobs : i # j => request'[i].terminal = request[i].terminal,
         \A v \in Workers : v # w => pc'[v] = pc[v] /\ outcome'[v] = outcome[v],
         request[j].terminal \notin Sent /\ request'[j].terminal \notin Sent,
         pc[w] \in Serving \ Answered, pc'[w] \in Serving,
         pc'[w] \in Answered => outcome'[w] \notin Sent
  PROVE  Counted'
<1>1. Booted' = Booted
  BY SameBooted DEF Serving, Unanswered, Answered
<1>2. Busy' = Busy /\ EverAdmitted' = EverAdmitted
  BY DEF Busy, EverAdmitted
<1>3. ASSUME NEW o \in Sent
      PROVE  Ended(o)' = Ended(o) /\ NotCounted(o)' = NotCounted(o)
  BY SameEnded DEF NotCounted
<1> QED
  BY <1>1, <1>2, <1>3, CountedSame

LEMMA StartPoolCounted ==
  ASSUME Typed, Threads, Owned, Counted, StartPool
  PROVE  Counted'
<1>1. /\ \A v \in Workers : pc'[v] = "off"
      /\ phase = "absent" /\ live' = 0 /\ count' = NoCounts /\ starts' = starts + 1
      /\ UNCHANGED <<held, admittedBy>>
  BY DEF StartPool, queueVars, workerVars
<1>2. Booted' = {} /\ \A o \in Sent : NotCounted(o)' = {}
  BY <1>1 DEF Booted, NotCounted, Answered
<1>3. Busy' = {}
  BY <1>1 DEF Busy, Threads, Staffed, Serving, Unanswered, Answered
<1>4. \A o \in Sent : Ended(o)' = {}
  BY <1>1 DEF Ended, Admitted, Owned, Typed
<1>5. EverAdmitted' = EverAdmitted
  BY <1>1 DEF EverAdmitted
<1>6. \A c \in Counters : count'[c] = 0
  BY <1>1 DEF NoCounts
<1>7. Cardinality({}) = 0
  BY FS_EmptySet
<1> QED
  BY <1>1, <1>2, <1>3, <1>4, <1>5, <1>6, <1>7 DEF Counted, Counters, Sent

LEMMA EnqueueCounted ==
  ASSUME Typed, Typed', RequestShape, Threads, Owned, Delivery, Counted, NEW j \in Jobs, Enqueue(j)
  PROVE  Counted'
<1>0. /\ admittedBy' = [admittedBy EXCEPT ![j] = starts]
      /\ UNCHANGED <<live, count, held, outcome, starts>>
      /\ submitting = j /\ pc' \in Signalled(pc)
  BY DEF Enqueue, poolVars
<1>1. admittedBy[j] = 0 /\ starts > 0
  <2>1. j # NoJob
    BY PoolAssumption
  <2>2. phase = "live"
    BY <1>0, <2>1 DEF Threads, Phased
  <2> QED
    BY <1>0, <2>1, <2>2 DEF Owned, Threads, Phased
<1>2. \A i \in Jobs : request'[i].terminal = request[i].terminal
  <2>1. request[j] \in Controls
    BY RequestAt
  <2>2. CASE HasRequest(j)
    <3>1. request' = [request EXCEPT ![j] = Retained(request[j])]
      BY <2>2 DEF Enqueue, RequestShape
    <3> QED
      BY <2>1, <3>1, RequestFields, FieldUpdates
  <2>3. CASE ~HasRequest(j)
    BY <2>3 DEF Enqueue
  <2> QED
    BY <2>2, <2>3
<1>3. request[j].terminal = "pending"
  BY <1>1 DEF Delivery, Decided
<1>4. \A i \in Jobs : admittedBy'[i] = IF i = j THEN starts ELSE admittedBy[i]
  BY <1>0 DEF Typed
<1>5. IsFiniteSet(EverAdmitted)'
  <2>1. EverAdmitted' = EverAdmitted \cup {j}
    BY <1>1, <1>4 DEF EverAdmitted
  <2> QED
    BY <1>1, <2>1, OneMore DEF Counted, EverAdmitted
<1>6. \A v \in Workers : Uncountable(pc[v], pc'[v])
  <2>1. pc \in [Workers -> WorkerPoints]
    BY DEF Typed
  <2>2. \A v \in Workers : \/ pc'[v] = pc[v]
                           \/ pc[v] = "waitQueue" /\ pc'[v] = "entry"
                           \/ pc[v] = "waitPause" /\ pc'[v] = "repause"
    <3> TAKE v \in Workers
    <3> QED
      BY <1>0, <2>1, SignalledPoints
  <2> QED
    BY <2>2, WakingUncountable
<1>7. Booted' = Booted /\ Busy' = Busy
  BY <1>0, <1>6, SameBooted DEF Uncountable, Busy
<1>8. ASSUME NEW o \in Sent
      PROVE  Ended(o)' = Ended(o) /\ NotCounted(o)' = NotCounted(o)
  <2>1. Ended(o)' = Ended(o)
    BY <1>0, <1>2, <1>3, <1>4 DEF Ended, Admitted, Sent
  <2>2. NotCounted(o)' = NotCounted(o)
    BY <1>0, <1>6 DEF NotCounted, Uncountable
  <2> QED
    BY <2>1, <2>2
<1> QED
  BY <1>0, <1>5, <1>7, <1>8 DEF Counted, Sent

LEMMA RejectCounted ==
  ASSUME Typed, RequestShape, Shapes, Counted, NEW j \in Jobs,
         \A i \in Jobs : request'[i].terminal = request[i].terminal, Reject(j)
  PROVE  Counted'
<1>0. /\ UNCHANGED <<live, pc, held, outcome, admittedBy, starts>>
      /\ \/ count' = count
         \/ count' = [count EXCEPT !["rejected"] = @ + 1]
  BY DEF Reject, poolVars, workerVars
<1>1. Booted' = Booted /\ Busy' = Busy /\ EverAdmitted' = EverAdmitted
  BY <1>0 DEF Booted, Busy, EverAdmitted
<1>2. \A o \in Sent : Ended(o)' = Ended(o) /\ NotCounted(o)' = NotCounted(o)
  BY <1>0, SameEnded DEF NotCounted
<1>3. /\ \A c \in Counters \ {"rejected"} : count'[c] = count[c]
      /\ count'["rejected"] \in {count["rejected"], count["rejected"] + 1}
  BY <1>0 DEF Shapes, QueueShape, Counters
<1>4. count["rejected"] \in Int /\ count["rejected"] >= 0
  BY DEF Counted, Counters, Shapes, QueueShape
<1>5. \A c \in Counters \ {"running"} : count'[c] >= 0
  BY <1>3, <1>4 DEF Counted
<1> QED
  BY <1>0, <1>1, <1>2, <1>3, <1>5 DEF Counted, Counters, Sent

LEMMA BootCounted ==
  ASSUME Typed, Counted, NEW w \in Workers, Boot(w)
  PROVE  Counted'
<1>0. /\ live' = live + 1 /\ pc[w] = "born"
      /\ \A v \in Workers : pc'[v] = IF v = w THEN "entry" ELSE pc[v]
      /\ UNCHANGED <<count, held, outcome, admittedBy, starts, request>>
  BY DEF Boot, Goto, Typed, queueVars, flagVars
<1>1. Booted' = Booted \cup {w} /\ w \notin Booted
  BY <1>0 DEF Booted
<1>2. IsFiniteSet(Booted)
  BY SubsetsOfWorkers DEF Booted
<1>3. live' = Cardinality(Booted)'
  BY <1>0, <1>1, <1>2, OneMore DEF Counted
<1>4. Busy' = Busy /\ EverAdmitted' = EverAdmitted
  BY <1>0 DEF Busy, EverAdmitted
<1>5. \A o \in Sent : Ended(o)' = Ended(o) /\ NotCounted(o)' = NotCounted(o)
  BY <1>0, SameEnded DEF NotCounted, Answered
<1> QED
  BY <1>0, <1>3, <1>4, <1>5 DEF Counted, Sent

LEMMA ExitCounted ==
  ASSUME Typed, Counted, NEW w \in Workers, Exit(w)
  PROVE  Counted'
<1>0. /\ live' = live - 1 /\ pc[w] = "exiting"
      /\ \A v \in Workers : pc'[v] = IF v = w THEN "gone" ELSE pc[v]
      /\ UNCHANGED <<count, held, outcome, admittedBy, starts, request>>
  BY DEF Exit, Goto, Typed, queueVars, flagVars
<1>1. Booted' = Booted \ {w} /\ w \in Booted
  BY <1>0 DEF Booted
<1>2. IsFiniteSet(Booted)
  BY SubsetsOfWorkers DEF Booted
<1>3. live' = Cardinality(Booted)'
  BY <1>0, <1>1, <1>2, OneLess DEF Counted
<1>4. Busy' = Busy /\ EverAdmitted' = EverAdmitted
  BY <1>0 DEF Busy, EverAdmitted
<1>5. \A o \in Sent : Ended(o)' = Ended(o) /\ NotCounted(o)' = NotCounted(o)
  BY <1>0, SameEnded DEF NotCounted, Answered
<1> QED
  BY <1>0, <1>3, <1>4, <1>5 DEF Counted, Sent

LEMMA PopCounted ==
  ASSUME Typed, Shapes, Threads, Counted, NEW w \in Workers, Pop(w)
  PROVE  Counted'
<1>0. /\ pc[w] = "entry" /\ queue # <<>>
      /\ held' = [held EXCEPT ![w] = Head(queue)]
      /\ pc' = [pc EXCEPT ![w] = IF HoldBack THEN "waitPause" ELSE "probe"]
      /\ count' = [count EXCEPT !["running"] = @ + 1]
      /\ UNCHANGED <<live, outcome, admittedBy, starts, request>>
  BY DEF Pop, Goto, poolVars, flagVars
<1>1. /\ Head(queue) \in Jobs /\ Head(queue) # NoJob
      /\ held[w] = NoJob
  <2>1. Head(queue) \in Jobs
    BY <1>0 DEF Typed
  <2>2. NoJob \notin Jobs
    BY PoolAssumption
  <2>3. held[w] = NoJob
    BY <1>0 DEF Threads, Staffed, Serving, Unanswered, Answered
  <2> QED
    BY <2>1, <2>2, <2>3
<1>2. \A v \in Workers : held'[v] = IF v = w THEN Head(queue) ELSE held[v]
  BY <1>0 DEF Typed
<1>3. Busy' = Busy \cup {w} /\ w \notin Busy
  BY <1>1, <1>2 DEF Busy
<1>4. IsFiniteSet(Busy)
  BY SubsetsOfWorkers DEF Busy
<1>5. /\ count'["running"] = count["running"] + 1
      /\ \A c \in Counters \ {"running"} : count'[c] = count[c]
  BY <1>0 DEF Shapes, QueueShape, Counters
<1>6. count'["running"] = Cardinality(Busy)'
  <2>1. Cardinality(Busy') = Cardinality(Busy) + 1
    BY <1>3, <1>4, OneMore
  <2> QED
    BY <1>5, <2>1 DEF Counted
<1>7. \A v \in Workers : Uncountable(pc[v], pc'[v])
  BY <1>0 DEF Typed, Uncountable, Answered
<1>8. Booted' = Booted /\ EverAdmitted' = EverAdmitted
  BY <1>0, <1>7, SameBooted DEF Uncountable, EverAdmitted
<1>9. \A o \in Sent : Ended(o)' = Ended(o) /\ NotCounted(o)' = NotCounted(o)
  BY <1>0, <1>7, SameEnded DEF NotCounted, Uncountable
<1> QED
  BY <1>0, <1>5, <1>6, <1>8, <1>9 DEF Counted, Counters, Sent

LEMMA SendCounted ==
  ASSUME Typed, RequestShape, Shapes, Threads, Owned, Delivery, Counted,
         NEW w \in Workers, Send(w)
  PROVE  Counted'
<1>a. held[w] \in Jobs
  BY HeldJob DEF Send, Goto, Serving
<1>b. PICK j \in Jobs : j = held[w]
  BY <1>a
<1>c. PICK s \in Sent : s = SentOrLost(j)
  BY DEF SentOrLost, Sent
<1>0. /\ pc[w] = "send"
      /\ \A v \in Workers : pc'[v] = IF v = w THEN "destroy" ELSE pc[v]
      /\ \A v \in Workers : outcome'[v] = IF v = w THEN s ELSE outcome[v]
      /\ UNCHANGED <<live, count, held, admittedBy, starts>>
  BY <1>b, <1>c DEF Send, Goto, Typed, poolVars, queueVars
<1>1. \A i \in Jobs : request'[i].terminal = IF i = j THEN s ELSE request[i].terminal
  <2>1. request' = [request EXCEPT ![j].terminal = s]
    BY <1>b, <1>c DEF Send
  <2>2. request[j] \in Controls
    BY RequestAt
  <2>3. [request[j] EXCEPT !.terminal = s].terminal = s
    BY <2>2 DEF Controls
  <2> QED
    BY <2>1, <2>3 DEF RequestShape
<1>2. admittedBy[j] = starts /\ starts > 0
  BY <1>b, HeldJob, <1>0 DEF Owned, Serving
<1>3. request[j].terminal = "delivering"
  BY <1>0, <1>b DEF Delivery, Standing
<1>4. Booted' = Booted /\ Busy' = Busy /\ EverAdmitted' = EverAdmitted
  BY <1>0 DEF Booted, Busy, EverAdmitted
<1>5. ASSUME NEW o \in Sent, o # s
      PROVE  Ended(o)' = Ended(o) /\ NotCounted(o)' = NotCounted(o)
  <2>1. Ended(o)' = Ended(o)
    BY <1>0, <1>1, <1>3, <1>5, SameEnded DEF Sent
  <2>2. NotCounted(o)' = NotCounted(o)
    BY <1>0, <1>5 DEF NotCounted, Answered
  <2> QED
    BY <2>1, <2>2
<1>6. Ended(s)' = Ended(s) \cup {j} /\ j \notin Ended(s)
  BY <1>0, <1>1, <1>2, <1>3 DEF Ended, Admitted, Sent
<1>7. NotCounted(s)' = NotCounted(s) \cup {w} /\ w \notin NotCounted(s)
  BY <1>0 DEF NotCounted, Answered
<1>8. /\ IsFiniteSet(NotCounted(s)) /\ IsFiniteSet(Ended(s))
      /\ Cardinality(NotCounted(s)) \in Nat
  <2>1. IsFiniteSet(NotCounted(s)) /\ Cardinality(NotCounted(s)) \in Nat
    BY SubsetsOfWorkers DEF NotCounted
  <2>2. Ended(s) \subseteq EverAdmitted
    BY DEF Ended, Admitted, EverAdmitted
  <2> QED
    BY <2>1, <2>2, FS_Subset DEF Counted
<1>9. /\ Cardinality(Ended(s))' = Cardinality(Ended(s)) + 1
      /\ Cardinality(NotCounted(s))' = Cardinality(NotCounted(s)) + 1
  BY <1>6, <1>7, <1>8, OneMore
<1>10. /\ count[s] \in Int
       /\ Cardinality(Ended(s)) = count[s] + Cardinality(NotCounted(s))
  BY DEF Counted, Sent, Counters, Shapes, QueueShape
<1>11. Cardinality(Ended(s))' = count'[s] + Cardinality(NotCounted(s))'
  BY <1>0, <1>8, <1>9, <1>10
<1>12. \A o \in Sent : Cardinality(Ended(o))' = count'[o] + Cardinality(NotCounted(o))'
  BY <1>0, <1>5, <1>11 DEF Counted, Sent
<1> QED
  BY <1>0, <1>4, <1>12 DEF Counted, Sent

LEMMA AccountCounted ==
  ASSUME Typed, Shapes, Threads, Delivery, Counted, NEW w \in Workers, Account(w)
  PROVE  Counted'
<1> DEFINE parked == [pc EXCEPT ![w] = "entry"]
<1>0. /\ pc[w] = "account" /\ pc' = Broadcast(parked)
      /\ held' = [held EXCEPT ![w] = NoJob] /\ count' = Tally(outcome[w])
      /\ UNCHANGED <<live, admittedBy, starts, request, outcome>>
  BY DEF Account, poolVars, flagVars
<1>1. parked \in [Workers -> WorkerPoints]
  BY Points DEF Typed
<1>2. \A v \in Workers : parked[v] = IF v = w THEN "entry" ELSE pc[v]
  BY DEF Typed
<1> HIDE DEF parked
<1>3. /\ \A v \in Workers : v # w => Uncountable(pc[v], pc'[v])
      /\ pc'[w] = "entry"
  BY <1>0, <1>1, <1>2, BroadcastPoints DEF Uncountable, Answered
<1>4. Booted' = Booted
  BY <1>0, <1>3 DEF Booted, Uncountable
<1>5. held[w] # NoJob
  BY <1>0, HeldJob DEF Serving, Answered
<1>6. \A v \in Workers : held'[v] = IF v = w THEN NoJob ELSE held[v]
  BY <1>0 DEF Typed
<1>7. Busy' = Busy \ {w} /\ w \in Busy
  BY <1>5, <1>6 DEF Busy
<1>8. IsFiniteSet(Busy)
  BY SubsetsOfWorkers DEF Busy
<1>9. Cardinality(Busy)' = Cardinality(Busy) - 1
  BY <1>7, <1>8, OneLess
<1>b. PICK o \in Verdicts : o = outcome[w]
  BY DEF Typed
<1>10. /\ count'["running"] = count["running"] - 1
       /\ \A c \in Counters \ {"running"} : count'[c] \in {count[c], count[c] + 1}
       /\ \A c \in Sent : count'[c] = IF c = o THEN count[c] + 1 ELSE count[c]
  BY <1>0, <1>b DEF Tally, Counters, Sent, Verdicts, Outcomes
<1>11. \A c \in Counters : count[c] \in Int
  BY DEF Shapes, QueueShape
<1>12. \A c \in Counters \ {"running"} : count'[c] >= 0
  BY <1>10, <1>11 DEF Counted
<1>13. EverAdmitted' = EverAdmitted /\ \A s \in Sent : Ended(s)' = Ended(s)
  BY <1>0, SameEnded DEF EverAdmitted
<1>14. ASSUME NEW s \in Sent
       PROVE  Cardinality(Ended(s))' = count'[s] + Cardinality(NotCounted(s))'
  <2>0. IsFiniteSet(NotCounted(s)) /\ Cardinality(NotCounted(s)) \in Nat
    BY SubsetsOfWorkers DEF NotCounted
  <2>1. count[s] \in Int /\ Cardinality(Ended(s)) = count[s] + Cardinality(NotCounted(s))
    BY <1>11 DEF Counted, Sent, Counters
  <2>2. CASE s = o
    <3>1. NotCounted(s)' = NotCounted(s) \ {w} /\ w \in NotCounted(s)
      BY <1>0, <1>3, <1>b, <2>2 DEF NotCounted, Uncountable, Answered
    <3>2. Cardinality(NotCounted(s))' = Cardinality(NotCounted(s)) - 1
      BY <2>0, <3>1, OneLess
    <3> QED
      BY <1>10, <1>13, <2>0, <2>1, <2>2, <3>2
  <2>3. CASE s # o
    <3>1. NotCounted(s)' = NotCounted(s)
      BY <1>0, <1>3, <1>b, <2>3 DEF NotCounted, Uncountable, Answered
    <3> QED
      BY <1>10, <1>13, <2>1, <2>3, <3>1
  <2> QED
    BY <2>2, <2>3
<1> QED
  BY <1>0, <1>4, <1>9, <1>10, <1>12, <1>13, <1>14 DEF Counted, Sent, Counters

LEMMA AbandonedTerminal ==
  ASSUME RequestShape, NEW j \in Jobs, Abandoned(j)
  PROVE  \A i \in Jobs : request'[i].terminal = request[i].terminal
<1>1. CASE HasRequest(j)
  <2>1. request' = [request EXCEPT ![j] = [Released(request[j]) EXCEPT !.monitored = FALSE]]
    BY <1>1 DEF Abandoned, RequestShape
  <2> QED
    BY <2>1, RequestAt, RequestFields, FieldUpdates
<1>2. CASE ~HasRequest(j)
  BY <1>2 DEF Abandoned
<1> QED
  BY <1>1, <1>2

LEMMA BeginSubmitTerminal ==
  ASSUME RequestShape, NEW j \in Jobs, NEW k, BeginSubmit(j, k)
  PROVE  \A i \in Jobs : request'[i].terminal = request[i].terminal
<1>1. CASE k = "plain"
  BY <1>1 DEF BeginSubmit
<1>2. CASE k # "plain"
  <2>1. request' = [request EXCEPT ![j] = [request[j] EXCEPT !.refs = 1, !.monitored = TRUE]]
    BY <1>2, RequestMade DEF BeginSubmit
  <2>2. request[j] \in Controls
    BY RequestAt
  <2>3. \A b \in BOOLEAN : [request[j] EXCEPT !.refs = 1, !.monitored = b].terminal = request[j].terminal
    BY <2>2 DEF Controls
  <2>4. [request[j] EXCEPT !.refs = 1, !.monitored = TRUE].terminal = request[j].terminal
    BY <2>3, Zenon
  <2> QED
    BY <2>1, <2>4, RequestFields
<1> QED
  BY <1>1, <1>2

LEMMA CountedStep ==
  ASSUME Shapes, Shapes', Threads, Threads', Owned, Delivery, Counted, [Next]_vars
  PROVE  Counted'
<1>0. Typed /\ Typed' /\ RequestShape
  BY ShapesTyped, ShapesTypedNext DEF Shapes
<1>1. CASE StartPool
  BY <1>0, <1>1, StartPoolCounted
<1>2. CASE SpawnWorker
  <2>1. pc[started + 1] = "off"
    BY <1>0, <1>2, PoolAssumption DEF SpawnWorker, Typed, Threads, Staffed, Workers
  <2>2. \A v \in Workers : Uncountable(pc[v], pc'[v])
    BY <1>0, <1>2, <2>1 DEF SpawnWorker, Typed, Uncountable, Answered
  <2> QED
    BY <1>0, <1>2, <2>2, CountedQuiet, SameFields DEF SpawnWorker, poolVars, queueVars, workerVars, clientVars, flagVars
<1>3. CASE SpawnFails
  BY <1>0, <1>3, CountedQuiet, UncountableStay, SameFields DEF SpawnFails, poolVars, queueVars, workerVars, clientVars, flagVars
<1>4. CASE PublishPool
  BY <1>0, <1>4, CountedQuiet, UncountableStay, SameFields DEF PublishPool, poolVars, queueVars, workerVars, clientVars, flagVars
<1>5. CASE StopPool
  BY <1>0, <1>5, CountedQuiet, UncountableStay, SameFields DEF StopPool, poolVars, queueVars, workerVars, clientVars, flagVars
<1>6. CASE RaiseStopping
  <2>1. \A v \in Workers : Uncountable(pc[v], pc'[v])
    BY <1>0, <1>6, BroadcastPoints DEF RaiseStopping, Goto, Typed, Uncountable, Answered
  <2> QED
    BY <1>0, <1>6, <2>1, CountedQuiet, SameFields DEF RaiseStopping, poolVars, queueVars, workerVars, clientVars, flagVars
<1>7. CASE JoinWorkers
  BY <1>0, <1>7, CountedQuiet, UncountableStay, SameFields DEF JoinWorkers, poolVars, queueVars, workerVars, clientVars, flagVars
<1>8. CASE PauseWorkers
  BY <1>0, <1>8, CountedQuiet, UncountableStay, SameFields DEF PauseWorkers, poolVars, queueVars, workerVars, clientVars, flagVars
<1>9. CASE ResumeWorkers
  <2>1. \A v \in Workers : Uncountable(pc[v], pc'[v])
    BY <1>0, <1>9, BroadcastPoints DEF ResumeWorkers, Goto, Typed, Uncountable, Answered
  <2> QED
    BY <1>0, <1>9, <2>1, CountedQuiet, SameFields DEF ResumeWorkers, poolVars, queueVars, workerVars, clientVars, flagVars
<1>10. ASSUME NEW j \in Jobs, NEW k \in Kinds, BeginSubmit(j, k)
      PROVE  Counted'
  BY <1>0, <1>10, CountedQuiet, UncountableStay, BeginSubmitTerminal DEF BeginSubmit, poolVars, queueVars, workerVars, clientVars, flagVars
<1>11. ASSUME NEW j \in Jobs, MonitorFails(j)
      PROVE  Counted'
  BY <1>0, <1>11, CountedQuiet, UncountableStay, SameFields DEF MonitorFails, poolVars, queueVars, workerVars, clientVars, flagVars
<1>12. ASSUME NEW j \in Jobs, Enqueue(j)
      PROVE  Counted'
  BY <1>0, <1>12, EnqueueCounted
<1>13. ASSUME NEW j \in Jobs, Reject(j)
      PROVE  Counted'
  <2>1. Abandoned(j)
    BY <1>13 DEF Reject
  <2> QED
    BY <1>0, <1>13, <2>1, AbandonedTerminal, RejectCounted
<1>14. ASSUME NEW j \in Jobs, OutOfMemory(j)
      PROVE  Counted'
  <2>1. \A i \in Jobs : request'[i].terminal = request[i].terminal
    BY <1>0, <1>14, AbandonedTerminal DEF OutOfMemory
  <2> QED
    BY <1>0, <1>14, <2>1, CountedQuiet, UncountableStay DEF OutOfMemory, poolVars, queueVars, workerVars, clientVars, flagVars
<1>15. ASSUME NEW j \in Jobs, CancelRequest(j)
      PROVE  Counted'
  <2>1. request' = [request EXCEPT ![j] = Cancelled(request[j])]
    BY <1>0, <1>15 DEF CancelRequest, RequestShape
  <2>2. \A i \in Jobs : request'[i].terminal = request[i].terminal
    BY <1>0, <2>1, RequestAt, RequestFields, FieldUpdates
  <2> QED
    BY <1>0, <1>15, <2>2, CountedQuiet, UncountableStay DEF CancelRequest, poolVars, queueVars, workerVars, clientVars, flagVars
<1>16. ASSUME NEW j \in Jobs, CancelOperation(j)
      PROVE  Counted'
  BY <1>0, <1>16, CountedQuiet, UncountableStay, SameFields DEF CancelOperation, poolVars, queueVars, workerVars, clientVars, flagVars
<1>17. ASSUME NEW j \in Jobs, RecipientDies(j)
      PROVE  Counted'
  BY <1>0, <1>17, CountedQuiet, UncountableStay, SameFields DEF RecipientDies, poolVars, queueVars, workerVars, clientVars, flagVars
<1>18. ASSUME NEW j \in Jobs, MonitorDown(j)
      PROVE  Counted'
  <2>1. request' = [request EXCEPT ![j] = [Cancelled(request[j]) EXCEPT !.monitored = FALSE]]
    BY <1>0, <1>18 DEF MonitorDown, RequestShape
  <2>2. \A i \in Jobs : request'[i].terminal = request[i].terminal
    BY <1>0, <2>1, RequestAt, RequestFields, FieldUpdates
  <2> QED
    BY <1>0, <1>18, <2>2, CountedQuiet, UncountableStay DEF MonitorDown, poolVars, queueVars, workerVars, clientVars, flagVars
<1>19. ASSUME NEW j \in Jobs, AbandonMonitor(j)
      PROVE  Counted'
  <2>1. request' = [request EXCEPT ![j] = [request[j] EXCEPT !.monitored = FALSE]]
    BY <1>0, <1>19 DEF AbandonMonitor, RequestShape
  <2>2. \A i \in Jobs : request'[i].terminal = request[i].terminal
    BY <1>0, <2>1, RequestAt, RequestFields, FieldUpdates
  <2> QED
    BY <1>0, <1>19, <2>2, CountedQuiet, UncountableStay DEF AbandonMonitor, poolVars, queueVars, workerVars, clientVars, flagVars
<1>20. ASSUME NEW j \in Jobs, CollectRequest(j)
      PROVE  Counted'
  <2>1. request' = [request EXCEPT ![j] = [Released(request[j]) EXCEPT !.monitored = FALSE]]
    BY <1>0, <1>20 DEF CollectRequest, RequestShape
  <2>2. \A i \in Jobs : request'[i].terminal = request[i].terminal
    BY <1>0, <2>1, RequestAt, RequestFields, FieldUpdates
  <2> QED
    BY <1>0, <1>20, <2>2, CountedQuiet, UncountableStay DEF CollectRequest, poolVars, queueVars, workerVars, clientVars, flagVars
<1>21. ASSUME NEW w \in Workers, Boot(w)
      PROVE  Counted'
  BY <1>0, <1>21, BootCounted
<1>22. ASSUME NEW w \in Workers, Idle(w)
      PROVE  Counted'
  <2>1. \A v \in Workers : Uncountable(pc[v], pc'[v])
    BY <1>0, <1>22 DEF Idle, Goto, Typed, Uncountable, Answered
  <2> QED
    BY <1>0, <1>22, <2>1, CountedQuiet, SameFields DEF Idle, poolVars, queueVars, workerVars, clientVars, flagVars
<1>23. ASSUME NEW w \in Workers, Quit(w)
      PROVE  Counted'
  <2>1. \A v \in Workers : Uncountable(pc[v], pc'[v])
    BY <1>0, <1>23 DEF Quit, Goto, Typed, Uncountable, Answered
  <2> QED
    BY <1>0, <1>23, <2>1, CountedQuiet, SameFields DEF Quit, poolVars, queueVars, workerVars, clientVars, flagVars
<1>24. ASSUME NEW w \in Workers, Pop(w)
      PROVE  Counted'
  BY <1>0, <1>24, PopCounted
<1>25. ASSUME NEW w \in Workers, Repause(w)
      PROVE  Counted'
  <2>1. \A v \in Workers : Uncountable(pc[v], pc'[v])
    BY <1>0, <1>25 DEF Repause, Goto, Typed, Uncountable, Answered
  <2> QED
    BY <1>0, <1>25, <2>1, CountedQuiet, SameFields DEF Repause, poolVars, queueVars, workerVars, clientVars, flagVars
<1>26. ASSUME NEW w \in Workers, Probe(w)
      PROVE  Counted'
  <2>1. \A v \in Workers : Uncountable(pc[v], pc'[v])
    BY <1>0, <1>26 DEF Probe, Goto, Typed, Uncountable, Answered
  <2> QED
    BY <1>0, <1>26, <2>1, CountedQuiet, SameFields DEF Probe, poolVars, queueVars, workerVars, clientVars, flagVars
<1>27. ASSUME NEW w \in Workers, Run(w)
      PROVE  Counted'
  <2>1. \A v \in Workers : Uncountable(pc[v], pc'[v])
    BY <1>0, <1>27 DEF Run, Goto, Typed, Uncountable, Answered
  <2> QED
    BY <1>0, <1>27, <2>1, CountedQuiet, SameFields DEF Run, poolVars, queueVars, workerVars, clientVars, flagVars
<1>28. ASSUME NEW w \in Workers, Post(w)
      PROVE  Counted'
  <2>1. \A v \in Workers : Uncountable(pc[v], pc'[v])
    BY <1>0, <1>28 DEF Post, Goto, Typed, Uncountable, Answered
  <2> QED
    BY <1>0, <1>28, <2>1, CountedQuiet, SameFields DEF Post, poolVars, queueVars, workerVars, clientVars, flagVars
<1>29. ASSUME NEW w \in Workers, Settle(w)
      PROVE  Counted'
  <2>1. held[w] \in Jobs /\ request[held[w]] \in Controls
    BY <1>0, <1>29, HeldJob, RequestAt DEF Settle, Goto, Serving, Unanswered
  <2>2. request[held[w]].terminal = "pending"
    BY <1>29 DEF Settle, Goto, Delivery, Standing, Unanswered
  <2>3. \A i \in Jobs : request'[i].terminal = request[i].terminal
    <3>1. CASE HasRequest(held[w]) /\ IsCancelled(held[w])
      <4>1. request' = [request EXCEPT ![held[w]] = Cancelled(request[held[w]])]
        BY <1>0, <1>29, <3>1 DEF Settle, RequestShape
      <4> QED
        BY <1>0, <2>1, <4>1, RequestFields, FieldUpdates
    <3>2. CASE ~(HasRequest(held[w]) /\ IsCancelled(held[w]))
      BY <1>29, <3>2 DEF Settle
    <3> QED
      BY <3>1, <3>2
  <2>4. /\ pc[w] = "settle" /\ pc'[w] \in {"load", "destroy"}
        /\ outcome'[w] \in {"cancelled", "none"}
        /\ \A v \in Workers : v # w => pc'[v] = pc[v] /\ outcome'[v] = outcome[v]
        /\ UNCHANGED <<live, count, held, admittedBy, starts>>
    BY <1>0, <1>29 DEF Settle, Goto, Typed, poolVars, queueVars
  <2> QED
    BY <2>1, <2>2, <2>3, <2>4, CountedVerdict DEF Sent, Serving, Unanswered, Answered
<1>30. ASSUME NEW w \in Workers, LoadCancelled(w)
      PROVE  Counted'
  <2>1. held[w] \in Jobs /\ request[held[w]] \in Controls
    BY <1>0, <1>30, HeldJob, RequestAt DEF LoadCancelled, Goto, Serving, Unanswered
  <2>2. request[held[w]].terminal = "pending"
    BY <1>30 DEF LoadCancelled, Goto, Delivery, Standing, Unanswered
  <2>3. request' = [request EXCEPT ![held[w]] = [request[held[w]] EXCEPT !.terminal = "cancelled"]]
    BY <1>0, <1>30, <2>2 DEF LoadCancelled, RequestShape
  <2>4. [request[held[w]] EXCEPT !.terminal = "cancelled"].terminal = "cancelled"
    BY <2>1 DEF Controls
  <2>5. \A i \in Jobs : request'[i].terminal = IF i = held[w] THEN "cancelled" ELSE request[i].terminal
    <3>1. \A i \in Jobs : request'[i] = IF i = held[w] THEN [request[held[w]] EXCEPT !.terminal = "cancelled"]
                                                       ELSE request[i]
      BY <1>0, <2>3 DEF RequestShape
    <3> QED
      BY <2>4, <3>1
  <2>6. /\ pc[w] = "load" /\ pc'[w] = "destroy" /\ outcome'[w] = "cancelled"
        /\ \A v \in Workers : v # w => pc'[v] = pc[v] /\ outcome'[v] = outcome[v]
        /\ UNCHANGED <<live, count, held, admittedBy, starts>>
    BY <1>0, <1>30 DEF LoadCancelled, Goto, Typed, poolVars, queueVars
  <2> QED
    BY <2>1, <2>2, <2>5, <2>6, CountedVerdict DEF Sent, Serving, Unanswered, Answered
<1>31. ASSUME NEW w \in Workers, LoadNotCancelled(w)
      PROVE  Counted'
  <2>1. \A v \in Workers : Uncountable(pc[v], pc'[v])
    BY <1>0, <1>31 DEF LoadNotCancelled, Goto, Typed, Uncountable, Answered
  <2> QED
    BY <1>0, <1>31, <2>1, CountedQuiet, SameFields DEF LoadNotCancelled, poolVars, queueVars, workerVars, clientVars, flagVars
<1>32. ASSUME NEW w \in Workers, Exchange(w)
      PROVE  Counted'
  <2>1. held[w] \in Jobs /\ request[held[w]] \in Controls
    BY <1>0, <1>32, HeldJob, RequestAt DEF Exchange, Serving, Unanswered
  <2>2. request[held[w]].terminal = "pending"
    BY <1>32 DEF Exchange, Delivery, Standing, Unanswered
  <2>3. request' = [request EXCEPT ![held[w]] = [request[held[w]] EXCEPT !.terminal = "delivering"]]
    BY <1>0, <1>32, <2>2 DEF Exchange, RequestShape
  <2>4. [request[held[w]] EXCEPT !.terminal = "delivering"].terminal = "delivering"
    BY <2>1 DEF Controls
  <2>5. \A i \in Jobs : request'[i].terminal = IF i = held[w] THEN "delivering" ELSE request[i].terminal
    <3>1. \A i \in Jobs : request'[i] = IF i = held[w] THEN [request[held[w]] EXCEPT !.terminal = "delivering"]
                                                       ELSE request[i]
      BY <1>0, <2>3 DEF RequestShape
    <3> QED
      BY <2>4, <3>1
  <2>6. /\ pc[w] = "exchange" /\ pc'[w] = "send"
        /\ \A v \in Workers : v # w => pc'[v] = pc[v] /\ outcome'[v] = outcome[v]
        /\ UNCHANGED <<live, count, held, admittedBy, starts>>
    BY <1>0, <1>32, <2>2 DEF Exchange, Typed, poolVars, queueVars
  <2> QED
    BY <2>1, <2>2, <2>5, <2>6, CountedVerdict DEF Sent, Serving, Unanswered, Answered
<1>33. ASSUME NEW w \in Workers, Send(w)
      PROVE  Counted'
  BY <1>0, <1>33, SendCounted
<1>34. ASSUME NEW w \in Workers, Destroy(w)
      PROVE  Counted'
  <2>1. held[w] \in Jobs
    BY <1>0, <1>34, HeldJob DEF Destroy, Goto, Serving, Answered
  <2>2. \A i \in Jobs : request'[i].terminal = request[i].terminal
    <3>1. CASE HasRequest(held[w])
      <4>1. request' = [request EXCEPT ![held[w]] = Released(request[held[w]])]
        BY <1>0, <1>34, <3>1 DEF Destroy, RequestShape
      <4> QED
        BY <1>0, <2>1, <4>1, RequestAt, RequestFields, FieldUpdates
    <3>2. CASE ~HasRequest(held[w])
      BY <1>34, <3>2 DEF Destroy
    <3> QED
      BY <3>1, <3>2
  <2>3. \A v \in Workers : Uncountable(pc[v], pc'[v])
    BY <1>0, <1>34 DEF Destroy, Goto, Typed, Uncountable, Answered
  <2> QED
    BY <1>34, <2>2, <2>3, CountedQuiet DEF Destroy, poolVars, queueVars, workerVars, clientVars, flagVars
<1>35. ASSUME NEW w \in Workers, Account(w)
      PROVE  Counted'
  BY <1>0, <1>35, AccountCounted
<1>36. ASSUME NEW w \in Workers, Exit(w)
      PROVE  Counted'
  BY <1>0, <1>36, ExitCounted
<1>37. CASE UNCHANGED vars
  BY <1>0, <1>37, CountedQuiet, UncountableStay, SameFields DEF vars, poolVars, queueVars, workerVars, clientVars, flagVars
<1> QED
  BY <1>1, <1>2, <1>3, <1>4, <1>5, <1>6, <1>7, <1>8, <1>9, <1>10, <1>11, <1>12, <1>13, <1>14, <1>15, <1>16, <1>17, <1>18, <1>19, <1>20, <1>21, <1>22, <1>23, <1>24, <1>25, <1>26, <1>27, <1>28, <1>29, <1>30, <1>31, <1>32, <1>33, <1>34, <1>35, <1>36, <1>37
  DEF Next, Controller, Submission, Process, Worker


-----------------------------------------------------------------------------
(* The invariants. *)

LEMMA InitInvariant == Init => IInv
<1> SUFFICES ASSUME Init PROVE IInv
  OBVIOUS
<1>1. Shapes
  <2>1. PoolShape
    BY PoolAssumption DEF Init, PoolShape, Phases
  <2>5. GateShape
    BY DEF Init, GateShape
  <2>2. QueueShape
    BY PoolAssumption DEF Init, QueueShape, NoCounts
  <2>3. WorkerShape /\ ClientShape /\ ProcessShape /\ CancelShape
    BY DEF Init, WorkerShape, ClientShape, ProcessShape, CancelShape, WorkerPoints, Verdicts
  <2>4. NoRequest \in Controls
    BY DEF NoRequest, Controls, TerminalStates
  <2> QED
    BY <2>1, <2>2, <2>3, <2>4, <2>5 DEF Init, Shapes, RequestShape
<1>2. Threads
  BY DEF Init, Threads, Phased, Staffed, Awake, Workers, Leaving, Serving, Unanswered, Answered, NoOne
<1>3. Entries(queue) = {} /\ Distinct(queue) /\ Len(queue) = 0
  BY DEF Init, Entries, Distinct
<1>4. Owned
  BY <1>3, CapacityNumber DEF Init, Owned
<1>5. Delivery
  <2>1. ASSUME NEW j \in Jobs
        PROVE  /\ request[j].terminal = "pending" /\ request[j].refs = 0
               /\ ~HasRequest(j) /\ ~handle[j] /\ submitting # j /\ inbox[j] = 0 /\ observed[j] = {}
    BY PoolAssumption DEF Init, NoRequest, HasRequest
  <2>2. \A w \in Workers : Standing(w)
    BY DEF Init, Standing, Unanswered, Answered
  <2> QED
    BY <2>1, <2>2 DEF Delivery, Decided, Heard, HeardOnce, HasObserver, HasRequest, Referenced
<1>6. Counted
  <2>1. /\ EverAdmitted = {} /\ Booted = {} /\ Busy = {}
        /\ \A o \in Sent : Ended(o) = {} /\ NotCounted(o) = {}
    BY DEF Init, EverAdmitted, Booted, Busy, Ended, Admitted, NotCounted, Answered
  <2>2. IsFiniteSet({}) /\ Cardinality({}) = 0
    BY FS_EmptySet
  <2>3. live = 0 /\ \A c \in Counters : count[c] = 0
    BY DEF Init, NoCounts
  <2> QED
    BY <2>1, <2>2, <2>3 DEF Counted, Counters, Sent
<1> QED
  BY <1>1, <1>2, <1>4, <1>5, <1>6 DEF IInv

LEMMA NextInvariant == IInv /\ [Next]_vars => IInv'
<1> SUFFICES ASSUME IInv, [Next]_vars PROVE IInv'
  OBVIOUS
<1>1. Shapes /\ Threads /\ Owned /\ Delivery /\ Counted
  BY DEF IInv
<1>2. Shapes'
  BY <1>1, ShapesStep
<1>3. Threads'
  BY <1>1, <1>2, ThreadsStep
<1>4. Owned'
  BY <1>1, <1>2, <1>3, OwnedStep
<1>5. Delivery'
  BY <1>1, <1>2, <1>3, <1>4, DeliveryStep
<1>6. Counted'
  BY <1>1, <1>2, <1>3, CountedStep
<1> QED
  BY <1>2, <1>3, <1>4, <1>5, <1>6 DEF IInv

LEMMA Invariant == Spec => []IInv
BY InitInvariant, NextInvariant, PTL DEF Spec

LEMMA InvariantTypeOK == IInv => TypeOK
<1> SUFFICES ASSUME IInv PROVE TypeOK
  OBVIOUS
<1>1. live \in 0..NumWorkers
  <2>1. Cardinality(Booted) \in Nat /\ Cardinality(Booted) <= NumWorkers
    BY SubsetsOfWorkers DEF Booted
  <2> QED
    BY <2>1, PoolAssumption DEF IInv, Counted
<1>2. count \in [Counters -> Nat]
  <2>1. Cardinality(Busy) \in Nat
    BY SubsetsOfWorkers DEF Busy
  <2>2. \A c \in Counters : count[c] \in Nat
    BY <2>1 DEF IInv, Counted, Shapes, QueueShape
  <2> QED
    BY <2>2 DEF IInv, Shapes, QueueShape
<1>3. request \in [Jobs -> Requests]
  <2>1. ASSUME NEW j \in Jobs
        PROVE  request[j] \in Requests
    <3>1. request[j] \in Controls
      BY RequestAt DEF IInv, Shapes
    <3>2. request[j].refs \in 0..2
      BY DEF IInv, Delivery, Referenced, One
    <3> QED
      BY <3>1, <3>2 DEF Controls, Requests
  <2> QED
    BY <2>1 DEF IInv, Shapes, RequestShape
<1> QED
  BY <1>1, <1>2, <1>3 DEF IInv, Shapes, PoolShape, GateShape, QueueShape, WorkerShape,
     ClientShape, ProcessShape, CancelShape, TypeOK

\* The state of the pool is what the code declares, for any number of workers,
\* jobs and restarts; in particular live_workers never leaves 0..NumWorkers
\* and a request control never has more than its two owners (worker_pool.zig,
\* Runtime and RequestControl).
THEOREM TypeCorrect == Spec => []TypeOK
BY Invariant, InvariantTypeOK, PTL

\* A request is answered at most once, to caller and observer alike, and the
\* pool's delivered and discarded counters never drift from the requests that
\* ended so (RequestControl.deliverTerm, workerMain's accounting).
THEOREM EachAnsweredOnce == Spec => []AnsweredOnce
<1>1. IInv => AnsweredOnce
  <2> SUFFICES ASSUME IInv PROVE AnsweredOnce
    OBVIOUS
  <2>1. \A j \in Jobs : HeardOnce(j)
    BY DEF IInv, Delivery, Heard
  <2>2. \A o \in Sent : Uncounted(o) = Cardinality(NotCounted(o))
    BY DEF Uncounted, NotCounted, Answered
  <2>3. \A o \in Sent : Cardinality(Ended(o)) = count[o] + Uncounted(o)
    BY <2>2 DEF IInv, Counted, Sent
  <2> QED
    BY <2>1, <2>3 DEF AnsweredOnce, Ended, Sent
<1> QED
  BY <1>1, Invariant, PTL

\* The reference count of a request control is exactly the number of its
\* owners, the BEAM's resource and the job, so it is freed when the last of
\* them lets go and not before (RequestControl.retain and release).
THEOREM ControlOutlivesItsUsers == Spec => []ControlLifetime
<1>1. IInv => ControlLifetime
  BY DEF IInv, Delivery, Referenced, One, ControlLifetime
<1> QED
  BY <1>1, Invariant, PTL

\* One condition variable for idle and for paused workers is enough: nobody
\* sleeps through the submission, the resume or the stop that was meant for it
\* (enqueue's signal, the broadcasts of setPaused, rollback and workerMain).
THEOREM WakeupsReach == Spec => []NoLostWakeup
<1>1. IInv => NoLostWakeup
  BY DEF IInv, Threads, Awake, NoLostWakeup
<1> QED
  BY <1>1, Invariant, PTL

\* When stop or rollback gives the lifecycle mutex back, no thread, job,
\* submission or unanswered request of this creation of the pool is left
\* (native_pool_stop, Runtime.rollback).
THEOREM StopLeavesNothing == Spec => []NothingOutlivesPool
<1>1. IInv => NothingOutlivesPool
  <2> SUFFICES ASSUME IInv, phase = "absent" PROVE NothingOutlivesPool
    BY DEF NothingOutlivesPool
  <2>0. Shapes /\ Threads /\ Owned /\ Delivery /\ Counted /\ Typed
    BY ShapesTyped DEF IInv
  <2>1. \A w \in Workers : pc[w] \in {"off", "gone"} /\ held[w] = NoJob
    BY <2>0 DEF Threads, Staffed, Serving, Unanswered, Answered
  <2>2. submitting = NoJob /\ mutex = NoOne /\ queue = <<>>
    BY <2>0, <2>1 DEF Threads, Phased, Typed
  <2>3. Busy = {} /\ Booted = {}
    BY <2>1 DEF Busy, Booted
  <2>4. live = 0
    BY <2>0, <2>3, FS_EmptySet DEF Counted
  <2>5. \A j \in Jobs : ~InHands(j)
    <3>1. NoJob \notin Jobs
      BY PoolAssumption
    <3> QED
      BY <2>1, <3>1 DEF InHands
  <2>6. Entries(queue) = {}
    BY <2>2 DEF Entries
  <2>7. \A j \in Admitted : HasRequest(j) => request[j].terminal \in Outcomes
    BY <2>0, <2>5, <2>6 DEF Delivery, Decided, Admitted, Typed
  <2> QED
    BY <2>1, <2>2, <2>3, <2>4, <2>7 DEF NothingOutlivesPool
<1> QED
  BY <1>1, Invariant, PTL

-----------------------------------------------------------------------------
(* A job cancelled in the queue. *)

Flagged(j) == request[j].cancelled \/ opCancelled[j]

\* The points before and after an execution at which a worker still asks
\* whether the job is cancelled.
Asking == {"waitPause", "repause", "probe", "post", "settle"}

\* What the worker that has a doomed job may be about to do.
Harmless(j, p) ==
  /\ p \in Asking => Flagged(j)
  /\ p = "load" => request[j].cancelled
  /\ p \notin {"run", "exchange", "send"}

\* From the moment a queued job is cancelled on: it is unanswered, and as long
\* as it is in the pool a flag is up that the next test of it reads.
Doomed(j) ==
  /\ admittedBy[j] > 0 /\ inbox[j] = 0
  /\ j \in Entries(queue) => Flagged(j)
  /\ \A w \in Workers : held[w] = j => Harmless(j, pc[w])

\* Nothing takes a cancellation back.
Rises(j) ==
  /\ request[j].cancelled => request'[j].cancelled
  /\ opCancelled[j] => opCancelled'[j]

LEMMA CancelledFields ==
  ASSUME NEW r \in Controls
  PROVE  /\ r.cancelled => /\ Cancelled(r).cancelled
                           /\ [Cancelled(r) EXCEPT !.monitored = FALSE].cancelled
                           /\ Retained(r).cancelled /\ Released(r).cancelled
                           /\ [Released(r) EXCEPT !.monitored = FALSE].cancelled
                           /\ [r EXCEPT !.monitored = FALSE].cancelled
                           /\ [r EXCEPT !.refs = 1, !.monitored = TRUE].cancelled
                           /\ \A t : [r EXCEPT !.terminal = t].cancelled
         /\ r.terminal = "pending" => Cancelled(r).cancelled
<1>1. /\ r.cancelled => Cancelled(r).cancelled
      /\ r.terminal = "pending" => Cancelled(r).cancelled
  BY DEF Controls, Cancelled
<1>2. r.cancelled => Retained(r).cancelled /\ Released(r).cancelled
  BY DEF Controls, Retained, Released
<1>3. \A s \in Controls : [s EXCEPT !.monitored = FALSE].cancelled = s.cancelled
  BY DEF Controls
<1>4. r.cancelled => [r EXCEPT !.refs = 1, !.monitored = TRUE].cancelled
  BY DEF Controls
<1>5. \A t : [r EXCEPT !.terminal = t].cancelled = r.cancelled
  BY DEF Controls
<1> QED
  BY <1>1, <1>2, <1>3, <1>4, <1>5, ControlUpdates

LEMMA RisesWith ==
  ASSUME RequestShape, NEW j \in Jobs, NEW i, NEW r,
         request' = [request EXCEPT ![i] = r],
         i = j /\ request[j].cancelled => r.cancelled, opCancelled' = opCancelled
  PROVE  Rises(j)
BY DEF Rises, RequestShape

LEMMA RisesSame ==
  ASSUME NEW j, request' = request, opCancelled' = opCancelled
  PROVE  Rises(j)
BY DEF Rises

\* The moves of a worker under which a doomed job stays harmless.
Calm(p, q) ==
  \/ q = p
  \/ p \in Asking /\ q \in Asking
  \/ q \in {"entry", "destroy", "account", "gone", "exiting", "waitQueue", "off", "born"}
  \/ p \in {"run", "exchange", "send"}

LEMMA DoomedFrame ==
  ASSUME NEW j, Doomed(j), Rises(j),
         UNCHANGED <<held, queue, admittedBy, inbox>>,
         \A w \in Workers : held[w] = j => Calm(pc[w], pc'[w])
  PROVE  Doomed(j)'
<1>1. Flagged(j) => Flagged(j)'
  BY DEF Flagged, Rises
<1>2. ASSUME NEW w \in Workers, held[w] = j
      PROVE  Harmless(j, pc[w])'
  BY <1>1, <1>2 DEF Doomed, Harmless, Calm, Rises, Asking
<1>3. (j \in Entries(queue))' => Flagged(j)'
  BY <1>1 DEF Doomed, Entries
<1>4. QED
  BY <1>2, <1>3 DEF Doomed

\* A wake-up, and the other threads, leave it alone.
LEMMA WakingCalm ==
  ASSUME NEW p, NEW q,
         \/ q = p
         \/ p = "waitQueue" /\ q = "entry"
         \/ p = "waitPause" /\ q = "repause"
  PROVE  Calm(p, q)
BY DEF Calm, Asking

LEMMA StayCalm ==
  ASSUME pc' = pc
  PROVE  \A w \in Workers : Calm(pc[w], pc'[w])
BY DEF Calm

LEMMA ControllerDoomed ==
  ASSUME Typed, Threads, NEW j \in Jobs, Doomed(j), Controller
  PROVE  Doomed(j)'
<1> USE DEF poolVars, queueVars, workerVars, clientVars, flagVars
<1>1. CASE StartPool
  <2>1. queue = <<>> /\ UNCHANGED <<held, admittedBy, inbox>> /\ queue' = queue
    BY <1>1 DEF StartPool, Threads, Phased
  <2>2. \A w \in Workers : Calm(pc[w], pc'[w])
    BY <1>1 DEF StartPool, Calm
  <2>3. Rises(j)
    BY <1>1, RisesSame DEF StartPool
  <2>4. QED
    BY <2>1, <2>2, <2>3, DoomedFrame
<1>2. CASE SpawnWorker
  <2>1. \A w \in Workers : Calm(pc[w], pc'[w])
    BY <1>2 DEF SpawnWorker, Calm, Typed
  <2>2. QED
    BY <1>2, <2>1, RisesSame, DoomedFrame DEF SpawnWorker
<1>3. CASE RaiseStopping \/ ResumeWorkers
  <2>1. pc' = Broadcast(pc) /\ UNCHANGED <<held, queue, admittedBy, inbox, request, opCancelled>>
    BY <1>3 DEF RaiseStopping, ResumeWorkers
  <2>2. \A w \in Workers : \/ pc'[w] = pc[w]
                           \/ pc[w] = "waitQueue" /\ pc'[w] = "entry"
                           \/ pc[w] = "waitPause" /\ pc'[w] = "repause"
    <3> TAKE w \in Workers
    <3> QED
      BY <2>1, BroadcastPoints DEF Typed
  <2>3. \A w \in Workers : Calm(pc[w], pc'[w])
    BY <2>2, WakingCalm
  <2>4. QED
    BY <2>1, <2>3, RisesSame, DoomedFrame
<1>4. CASE SpawnFails \/ PublishPool \/ StopPool \/ JoinWorkers \/ PauseWorkers
  <2>1. UNCHANGED <<pc, held, queue, admittedBy, inbox, request, opCancelled>>
    BY <1>4 DEF SpawnFails, PublishPool, StopPool, JoinWorkers, PauseWorkers
  <2>2. QED
    BY <2>1, StayCalm, RisesSame, DoomedFrame
<1>5. QED
  BY <1>1, <1>2, <1>3, <1>4 DEF Controller

\* A submission concerns another job: this one was admitted.
LEMMA SubmissionDoomed ==
  ASSUME Typed, RequestShape, Owned, NEW j \in Jobs, Doomed(j),
         NEW i \in Jobs, Submission(i)
  PROVE  Doomed(j)'
<1> USE DEF poolVars, queueVars, workerVars, clientVars, flagVars
<1>0. request[i] \in Controls
  BY RequestAt
<1>1. ASSUME NEW k \in Kinds, BeginSubmit(i, k)
      PROVE  Doomed(j)'
  <2>1. i # j
    BY <1>1 DEF BeginSubmit, Owned, Doomed, Typed
  <2>2. UNCHANGED <<pc, held, queue, admittedBy, inbox, opCancelled>>
    BY <1>1 DEF BeginSubmit
  <2>3. request'[j] = request[j]
    <3>1. CASE k = "plain"
      BY <1>1, <3>1 DEF BeginSubmit
    <3>2. CASE k # "plain"
      <4>1. request' = [request EXCEPT ![i].refs = 1, ![i].monitored = TRUE]
        BY <1>1, <3>2 DEF BeginSubmit
      <4>2. request' = [request EXCEPT ![i] = [request[i] EXCEPT !.refs = 1, !.monitored = TRUE]]
        BY <4>1, RequestMade
      <4>3. QED
        BY <2>1, <4>2 DEF RequestShape
    <3>3. QED
      BY <3>1, <3>2
  <2>4. Rises(j)
    BY <2>2, <2>3 DEF Rises
  <2>5. QED
    BY <2>2, <2>4, StayCalm, DoomedFrame
<1>2. CASE MonitorFails(i)
  <2>1. UNCHANGED <<pc, held, queue, admittedBy, inbox, request, opCancelled>>
    BY <1>2 DEF MonitorFails
  <2>2. QED
    BY <2>1, StayCalm, RisesSame, DoomedFrame
<1>3. CASE Reject(i) \/ OutOfMemory(i)
  <2>1. UNCHANGED <<pc, held, queue, admittedBy, inbox, opCancelled>> /\ Abandoned(i)
    BY <1>3 DEF Reject, OutOfMemory
  <2>2. Rises(j)
    <3>1. CASE HasRequest(i)
      BY <1>0, <2>1, <3>1, CancelledFields, RisesWith DEF Abandoned
    <3>2. CASE ~HasRequest(i)
      BY <2>1, <3>2, RisesSame DEF Abandoned
    <3>3. QED
      BY <3>1, <3>2
  <2>3. QED
    BY <2>1, <2>2, StayCalm, DoomedFrame
<1>4. CASE Enqueue(i)
  <2>1. i # j
    <3>1. submitting = i /\ i # NoJob
      BY <1>4, PoolAssumption DEF Enqueue
    <3>2. admittedBy[i] = 0
      BY <3>1 DEF Owned
    <3>3. QED
      BY <3>2 DEF Doomed
  <2>2. /\ queue' = Append(queue, i) /\ pc' \in Signalled(pc)
        /\ admittedBy' = [admittedBy EXCEPT ![i] = starts]
        /\ UNCHANGED <<held, inbox, opCancelled>>
        /\ request' = IF HasRequest(i) THEN [request EXCEPT ![i] = Retained(request[i])] ELSE request
    BY <1>4 DEF Enqueue
  <2>3. \A w \in Workers : Calm(pc[w], pc'[w])
    <3>1. pc \in [Workers -> WorkerPoints] /\ pc' \in Signalled(pc)
      BY <2>2 DEF Typed
    <3>2. \A w \in Workers : \/ pc'[w] = pc[w]
                             \/ pc[w] = "waitQueue" /\ pc'[w] = "entry"
                             \/ pc[w] = "waitPause" /\ pc'[w] = "repause"
      BY <3>1, SignalledPoints
    <3>3. QED
      BY <3>2, WakingCalm
  <2>4. Rises(j)
    <3>1. CASE HasRequest(i)
      BY <2>1, <2>2, <3>1, RisesWith
    <3>2. CASE ~HasRequest(i)
      BY <2>2, <3>2, RisesSame
    <3>3. QED
      BY <3>1, <3>2
  <2>5. Flagged(j) => Flagged(j)'
    BY <2>4 DEF Flagged, Rises
  <2>6. (j \in Entries(queue))' => j \in Entries(queue)
    <3>1. Entries(queue') = Entries(queue) \cup {i}
      BY <2>2, EntriesAppend DEF Typed
    <3>2. QED
      BY <2>1, <3>1 DEF Entries
  <2>7. ASSUME NEW w \in Workers, held[w] = j
        PROVE  Harmless(j, pc[w])'
    BY <2>3, <2>4, <2>5, <2>7 DEF Doomed, Harmless, Calm, Rises, Asking
  <2>8. admittedBy'[j] = admittedBy[j]
    BY <2>1, <2>2 DEF Typed
  <2>9. QED
    BY <2>2, <2>5, <2>6, <2>7, <2>8 DEF Doomed
<1>5. QED
  BY <1>1, <1>2, <1>3, <1>4 DEF Submission

\* The process side only raises flags.
LEMMA ProcessDoomed ==
  ASSUME RequestShape, CancelShape, NEW j \in Jobs, Doomed(j), NEW i \in Jobs, Process(i)
  PROVE  Doomed(j)'
<1> USE DEF poolVars, queueVars, workerVars, clientVars, flagVars
<1>0. request[i] \in Controls
  BY RequestAt
<1>1. UNCHANGED <<pc, held, queue, admittedBy, inbox>>
  BY DEF Process, CancelRequest, CancelOperation, RecipientDies, MonitorDown,
     AbandonMonitor, CollectRequest
<1>2. Rises(j)
  <2>1. CASE CancelRequest(i)
    BY <1>0, <2>1, CancelledFields, RisesWith DEF CancelRequest
  <2>2. CASE CancelOperation(i)
    BY <2>2 DEF CancelOperation, Rises, CancelShape
  <2>3. CASE RecipientDies(i)
    BY <2>3, RisesSame DEF RecipientDies
  <2>4. CASE MonitorDown(i)
    BY <1>0, <2>4, CancelledFields, RisesWith DEF MonitorDown
  <2>5. CASE AbandonMonitor(i)
    <3>1. request' = [request EXCEPT ![i] = [request[i] EXCEPT !.monitored = FALSE]]
      BY <2>5 DEF AbandonMonitor
    <3>2. QED
      BY <1>0, <2>5, <3>1, CancelledFields, RisesWith DEF AbandonMonitor
  <2>6. CASE CollectRequest(i)
    BY <1>0, <2>6, CancelledFields, RisesWith DEF CollectRequest
  <2>7. QED
    BY <2>1, <2>2, <2>3, <2>4, <2>5, <2>6 DEF Process
<1>3. QED
  BY <1>1, <1>2, StayCalm, DoomedFrame

\* The steps of a worker: with another job, or with this one, whose flag it
\* reads at its next test.
LEMMA WorkerDoomed ==
  ASSUME Typed, RequestShape, CancelShape, Threads, Owned, Delivery, NEW j \in Jobs, Doomed(j),
         NEW w \in Workers, Worker(w)
  PROVE  Doomed(j)'
<1> USE DEF poolVars, queueVars, workerVars, clientVars, flagVars
<1>0. held[w] \in Jobs => request[held[w]] \in Controls
  BY RequestAt
<1>1. CASE Boot(w) \/ Idle(w) \/ Quit(w) \/ Repause(w) \/ Run(w) \/ Post(w) \/ Exit(w)
  <2>1. UNCHANGED <<held, queue, admittedBy, inbox, request, opCancelled>>
    BY <1>1 DEF Boot, Idle, Quit, Repause, Run, Post, Exit
  <2>2. \E q \in WorkerPoints : pc' = [pc EXCEPT ![w] = q] /\ Calm(pc[w], q)
    BY <1>1 DEF Boot, Idle, Quit, Repause, Run, Post, Exit, Goto, Calm, Asking, WorkerPoints
  <2>3. \A v \in Workers : Calm(pc[v], pc'[v])
    BY <2>2 DEF Typed, Calm
  <2>4. QED
    BY <2>1, <2>3, RisesSame, DoomedFrame
<1>2. CASE Pop(w)
  <2>1. /\ queue # <<>> /\ queue' = Tail(queue) /\ pc[w] = "entry"
        /\ held' = [held EXCEPT ![w] = Head(queue)]
        /\ \E q \in Asking : pc' = [pc EXCEPT ![w] = q]
        /\ UNCHANGED <<admittedBy, inbox, request, opCancelled>>
    BY <1>2 DEF Pop, Dequeued, Goto, Asking
  <2>2. Head(queue) \in Entries(queue) /\ Entries(queue') \subseteq Entries(queue)
    BY <2>1, EntriesTail DEF Typed, Owned
  <2>3. Flagged(j)' = Flagged(j)
    BY <2>1 DEF Flagged
  <2>4. ASSUME NEW v \in Workers, held'[v] = j
        PROVE  Harmless(j, pc[v])'
    <3>1. CASE v = w
      <4>1. Flagged(j)
        BY <2>1, <2>2, <2>4, <3>1 DEF Doomed, Typed
      <4>2. pc'[v] \in Asking
        BY <2>1, <3>1 DEF Typed
      <4>3. QED
        BY <2>3, <4>1, <4>2 DEF Harmless, Asking
    <3>2. CASE v # w
      BY <2>1, <2>3, <2>4, <3>2 DEF Doomed, Harmless, Typed
    <3>3. QED
      BY <3>1, <3>2
  <2>5. QED
    BY <2>1, <2>2, <2>3, <2>4 DEF Doomed, Entries
<1>3. CASE Probe(w)
  <2>1. UNCHANGED <<held, queue, admittedBy, inbox, request, opCancelled>>
    BY <1>3 DEF Probe
  <2>2. /\ pc[w] = "probe"
        /\ pc' = [pc EXCEPT ![w] = IF IsCancelled(held[w]) THEN "post" ELSE "run"]
    BY <1>3 DEF Probe, Goto
  <2>3. held[w] = j => IsCancelled(held[w])
    BY <2>2 DEF Doomed, Harmless, Asking, Flagged, IsCancelled
  <2>4. \A v \in Workers : held[v] = j => Calm(pc[v], pc'[v])
    BY <2>2, <2>3 DEF Typed, Calm, Asking
  <2>5. QED
    BY <2>1, <2>4, RisesSame, DoomedFrame
<1>4. CASE Settle(w)
  <2>0. /\ pc[w] = "settle"
        /\ pc' = [pc EXCEPT ![w] = IF HasRequest(held[w]) THEN "load" ELSE "destroy"]
        /\ request' = IF HasRequest(held[w]) /\ IsCancelled(held[w])
                      THEN [request EXCEPT ![held[w]] = Cancelled(request[held[w]])] ELSE request
        /\ UNCHANGED <<held, queue, admittedBy, inbox, opCancelled>>
    BY <1>4 DEF Settle, Goto
  <2>1. Rises(j)
    <3>1. CASE HasRequest(held[w]) /\ IsCancelled(held[w])
      BY <1>0, <2>0, <3>1, CancelledFields, RisesWith
    <3>2. CASE ~(HasRequest(held[w]) /\ IsCancelled(held[w]))
      BY <2>0, <3>2, RisesSame
    <3>3. QED
      BY <3>1, <3>2
  <2>2. CASE held[w] # j
    <3>1. \A v \in Workers : held[v] = j => Calm(pc[v], pc'[v])
      BY <2>0, <2>2 DEF Typed, Calm
    <3>2. QED
      BY <2>0, <2>1, <3>1, DoomedFrame
  <2>3. CASE held[w] = j
    <3>1. Flagged(j) /\ IsCancelled(j)
      BY <2>0, <2>3 DEF Doomed, Harmless, Asking, Flagged, IsCancelled
    <3>2. request[j].terminal = "pending"
      BY <2>0, <2>3 DEF Delivery, Standing, Unanswered
    <3>3. HasRequest(j) => request'[j].cancelled
      BY <1>0, <2>0, <2>3, <3>1, <3>2, CancelledFields DEF RequestShape
    <3>4. /\ pc'[w] = IF HasRequest(j) THEN "load" ELSE "destroy"
          /\ \A v \in Workers \ {w} : pc'[v] = pc[v] /\ held[v] # j
      BY <2>0, <2>3, AtWork DEF Typed, Serving, Unanswered
    <3>5. ASSUME NEW v \in Workers, held'[v] = j
          PROVE  Harmless(j, pc[v])'
      BY <2>0, <3>3, <3>4, <3>5 DEF Harmless, Asking
    <3>6. Flagged(j)'
      BY <2>1, <3>1 DEF Flagged, Rises
    <3>7. QED
      BY <2>0, <3>5, <3>6 DEF Doomed
  <2>4. QED
    BY <2>2, <2>3
<1>5. CASE LoadCancelled(w) \/ Exchange(w) \/ Destroy(w)
  <2>1. UNCHANGED <<held, queue, admittedBy, inbox, opCancelled>>
    BY <1>5 DEF LoadCancelled, Exchange, Destroy
  <2>2. \E q \in WorkerPoints : pc' = [pc EXCEPT ![w] = q] /\ Calm(pc[w], q)
    BY <1>5 DEF LoadCancelled, Exchange, Destroy, Goto, Calm, WorkerPoints
  <2>3. \A v \in Workers : Calm(pc[v], pc'[v])
    BY <2>2 DEF Typed, Calm
  <2>4. Rises(j)
    <3>1. CASE LoadCancelled(w) \/ Exchange(w)
      <4>1. \E t : request' = [request EXCEPT ![held[w]] = [request[held[w]] EXCEPT !.terminal = t]]
        BY <3>1 DEF LoadCancelled, Exchange
      <4>2. QED
        BY <1>0, <2>1, <4>1, CancelledFields, RisesWith
    <3>2. CASE Destroy(w)
      <4>1. CASE HasRequest(held[w])
        <5>1. request' = [request EXCEPT ![held[w]] = Released(request[held[w]])]
          BY <3>2, <4>1 DEF Destroy
        <5>2. QED
          BY <1>0, <2>1, <5>1, CancelledFields, RisesWith
      <4>2. CASE ~HasRequest(held[w])
        BY <2>1, <3>2, <4>2, RisesSame DEF Destroy
      <4>3. QED
        BY <4>1, <4>2
    <3>3. QED
      BY <1>5, <3>1, <3>2
  <2>5. QED
    BY <2>1, <2>3, <2>4, DoomedFrame
<1>6. CASE LoadNotCancelled(w)
  <2>1. UNCHANGED <<held, queue, admittedBy, inbox, request, opCancelled>>
    BY <1>6 DEF LoadNotCancelled
  <2>2. pc[w] = "load" /\ pc' = [pc EXCEPT ![w] = "exchange"] /\ held[w] # j
    BY <1>6 DEF LoadNotCancelled, Goto, Doomed, Harmless
  <2>3. \A v \in Workers : held[v] = j => Calm(pc[v], pc'[v])
    BY <2>2 DEF Typed, Calm
  <2>4. QED
    BY <2>1, <2>3, RisesSame, DoomedFrame
<1>7. CASE Send(w)
  <2>0. /\ pc[w] = "send" /\ pc' = [pc EXCEPT ![w] = "destroy"]
        /\ inbox' = [inbox EXCEPT ![held[w]] = inbox[held[w]] + (IF alive[held[w]] THEN 1 ELSE 0)]
        /\ \E t : request' = [request EXCEPT ![held[w]] = [request[held[w]] EXCEPT !.terminal = t]]
        /\ UNCHANGED <<held, queue, admittedBy, opCancelled>>
    BY <1>7 DEF Send, Goto
  <2>1. held[w] # j
    BY <2>0 DEF Doomed, Harmless
  <2>2. inbox'[j] = inbox[j] /\ request'[j] = request[j]
    BY <2>0, <2>1 DEF Typed, RequestShape
  <2>3. ASSUME NEW v \in Workers, held'[v] = j
        PROVE  Harmless(j, pc[v])'
    BY <2>0, <2>1, <2>2, <2>3 DEF Doomed, Harmless, Flagged, Typed
  <2>4. QED
    BY <2>0, <2>2, <2>3 DEF Doomed, Flagged, Entries
<1>8. CASE Account(w)
  <2>0. /\ pc' = Broadcast([pc EXCEPT ![w] = "entry"])
        /\ held' = [held EXCEPT ![w] = NoJob]
        /\ UNCHANGED <<queue, admittedBy, inbox, request, opCancelled>>
    BY <1>8 DEF Account
  <2>1. ASSUME NEW v \in Workers, held'[v] = j
        PROVE  v # w /\ held[v] = j /\ Calm(pc[v], pc'[v])
    <3>1. v # w /\ held[v] = j
      BY <2>0, <2>1, PoolAssumption DEF Typed
    <3>2. /\ [pc EXCEPT ![w] = "entry"] \in [Workers -> WorkerPoints]
          /\ [pc EXCEPT ![w] = "entry"][v] = pc[v]
      BY <3>1 DEF Typed, WorkerPoints
    <3>3. \/ pc'[v] = pc[v]
          \/ pc[v] = "waitQueue" /\ pc'[v] = "entry"
          \/ pc[v] = "waitPause" /\ pc'[v] = "repause"
      BY <2>0, <3>2, BroadcastPoints
    <3>4. QED
      BY <3>1, <3>3, WakingCalm
  <2>2. ASSUME NEW v \in Workers, held'[v] = j
        PROVE  Harmless(j, pc[v])'
    BY <2>0, <2>1, <2>2 DEF Doomed, Harmless, Calm, Asking, Flagged
  <2>3. QED
    BY <2>0, <2>2 DEF Doomed, Flagged, Entries
<1>9. QED
  BY <1>1, <1>2, <1>3, <1>4, <1>5, <1>6, <1>7, <1>8 DEF Worker

LEMMA DoomedStays ==
  ASSUME IInv, NEW j \in Jobs, Doomed(j), [Next]_vars
  PROVE  Doomed(j)'
<1>0. Typed /\ RequestShape /\ CancelShape /\ Threads /\ Owned /\ Delivery
  BY ShapesTyped DEF IInv, Shapes
<1>1. CASE UNCHANGED vars
  <2>1. UNCHANGED <<pc, held, queue, admittedBy, inbox, request, opCancelled>>
    BY <1>1 DEF vars, queueVars, workerVars, clientVars, flagVars
  <2>2. QED
    BY <2>1, StayCalm, RisesSame, DoomedFrame
<1>2. QED
  BY <1>0, <1>1, ControllerDoomed, SubmissionDoomed, ProcessDoomed, WorkerDoomed DEF Next

\* A job cancelled while it waits in the queue, by its caller, by the death of
\* its caller or through its operation, is never executed and never answered,
\* whatever else is cancelled, stopped or restarted (Job.isCancelled and
\* workerMain's tests around the execution).
THEOREM CancelledIsNeverRun == Spec => CancelledInQueueNeverRuns
<1> SUFFICES ASSUME NEW j \in Jobs
             PROVE  Spec => [](j \in Queued /\ (request[j].cancelled \/ opCancelled[j])
                                 => Unanswerable(j))
  BY DEF CancelledInQueueNeverRuns
<1>1. IInv /\ j \in Queued /\ (request[j].cancelled \/ opCancelled[j]) => Doomed(j)
  <2> SUFFICES ASSUME IInv, j \in Entries(queue), Flagged(j)
               PROVE  Doomed(j)
    BY DEF Queued, Entries, Flagged
  <2>1. admittedBy[j] > 0 /\ \A w \in Workers : held[w] # j
    BY PoolAssumption DEF IInv, Owned
  <2>2. inbox[j] = 0
    BY DEF IInv, Delivery, Decided, Heard, HeardOnce
  <2>3. QED
    BY <2>1, <2>2 DEF Doomed
<1>2. Doomed(j) => inbox[j] = 0 /\ ~\E w \in Workers : held[w] = j /\ pc[w] = "run"
  BY DEF Doomed, Harmless
<1>3. IInv /\ Doomed(j) /\ [Next]_vars => Doomed(j)'
  BY DoomedStays
<1>4. QED
  BY <1>1, <1>2, <1>3, Invariant, PTL DEF Spec, Unanswerable

-----------------------------------------------------------------------------
(* The pool implements BoundedPool. *)

LEMMA ContractStays ==
  ASSUME UNCHANGED <<queue, held, inbox, admittedBy>>
  PROVE  UNCHANGED Contract!vars
BY DEF Contract!vars, InHand, Busy

LEMMA ContractAdmits ==
  ASSUME IInv, NEW j \in Jobs, Enqueue(j)
  PROVE  Contract!Admit(j)
<1>1. submitting = j /\ admittedBy[j] = 0 /\ starts > 0
  <2>1. j # NoJob
    BY PoolAssumption
  <2> QED
    BY <2>1 DEF Enqueue, IInv, Owned, Threads, Phased
<1>2. \A i \in Jobs : admittedBy'[i] = IF i = j THEN starts ELSE admittedBy[i]
  BY DEF Enqueue, IInv, Shapes, QueueShape
<1>3. {i \in Jobs : admittedBy'[i] > 0} = {i \in Jobs : admittedBy[i] > 0} \cup {j}
  BY <1>1, <1>2
<1>4. Len(queue) < QueueCapacity
  <2>1. Len(queue) \in Nat
    BY DEF IInv, Shapes, QueueShape
  <2>2. ~(Len(queue) >= QueueCapacity)
    BY DEF Enqueue, Admission
  <2> QED
    BY <2>1, <2>2, CapacityNumber
<1>5. UNCHANGED <<held, inbox>> /\ queue' = Append(queue, j)
  BY DEF Enqueue
<1> QED
  BY <1>1, <1>3, <1>4, <1>5 DEF Contract!Admit, InHand, Busy

LEMMA ContractBegins ==
  ASSUME IInv, NEW w \in Workers, Pop(w)
  PROVE  Contract!Begin
<1>0. /\ queue # <<>> /\ queue' = Tail(queue) /\ pc[w] = "entry"
      /\ held' = [held EXCEPT ![w] = Head(queue)]
      /\ UNCHANGED <<inbox, admittedBy>>
  BY DEF Pop, Goto, Dequeued, clientVars
<1>1. held \in [Workers -> Jobs \cup {NoJob}] /\ Head(queue) \in Jobs
  BY <1>0 DEF IInv, Shapes, WorkerShape, QueueShape
<1>2. held[w] = NoJob /\ Head(queue) # NoJob
  <2>1. NoJob \notin Jobs
    BY PoolAssumption
  <2>2. held[w] = NoJob
    BY <1>0 DEF IInv, Threads, Staffed, Serving, Unanswered, Answered
  <2> QED
    BY <1>1, <2>1, <2>2
<1>3. \A v \in Workers : held'[v] = IF v = w THEN Head(queue) ELSE held[v]
  BY <1>0, <1>1
<1>4. InHand' = InHand \cup {Head(queue)}
  BY <1>2, <1>3 DEF InHand, Busy
<1>5. Cardinality(InHand) < NumWorkers
  <2> DEFINE hands == [v \in Busy |-> held[v]]
  <2>1. hands \in Surjection(Busy, InHand)
    BY DEF InHand, Surjection
  <2>2. Busy \subseteq Workers \ {w} /\ IsFiniteSet(Busy)
    BY <1>2, SubsetsOfWorkers DEF Busy
  <2> HIDE DEF hands
  <2>3. Cardinality(InHand) <= Cardinality(Busy) /\ IsFiniteSet(InHand)
    BY <2>1, <2>2, FS_Surjection
  <2>4. IsFiniteSet(Workers) /\ Cardinality(Workers) = NumWorkers
    BY PoolAssumption, FS_Interval DEF Workers
  <2>5. IsFiniteSet(Workers \ {w}) /\ Cardinality(Workers \ {w}) = NumWorkers - 1
    BY <2>4, FS_RemoveElement
  <2>6. Cardinality(Busy) <= NumWorkers - 1
    BY <2>2, <2>5, FS_Subset
  <2>7. NumWorkers \in Nat /\ Cardinality(InHand) \in Nat /\ Cardinality(Busy) \in Nat
    BY <2>2, <2>3, PoolAssumption, FS_CardinalityType
  <2> QED
    BY <2>3, <2>6, <2>7
<1>6. Contract!Cardinality(InHand) = Cardinality(InHand)
  BY Zenon DEF Contract!Cardinality, Cardinality
<1> QED
  BY <1>0, <1>4, <1>5, <1>6 DEF Contract!Begin

LEMMA ContractAnswers ==
  ASSUME IInv, NEW w \in Workers, Send(w), NEW j \in Jobs, j = held[w]
  PROVE  Contract!Answer(j) \/ UNCHANGED Contract!vars
<1>0. /\ pc[w] = "send"
      /\ inbox' = [inbox EXCEPT ![held[w]] = @ + (IF alive[held[w]] THEN 1 ELSE 0)]
      /\ UNCHANGED <<queue, held, admittedBy>>
  BY DEF Send, Goto, queueVars
<1>1. held[w] \in Jobs /\ held[w] # NoJob
  BY <1>0, HeldJob, ShapesTyped DEF IInv, Serving
<1>2. inbox \in [Jobs -> Nat]
  BY DEF IInv, Shapes, ClientShape
<1>3. CASE alive[held[w]]
  <2>1. inbox[held[w]] = 0
    <3>1. request[held[w]].terminal = "delivering"
      BY <1>0 DEF IInv, Delivery, Standing
    <3> QED
      BY <1>1, <3>1 DEF IInv, Delivery, Heard, HeardOnce
  <2>2. \A i \in Jobs : inbox'[i] = IF i = held[w] THEN inbox[i] + 1 ELSE inbox[i]
    BY <1>0, <1>1, <1>2, <1>3
  <2>3. {i \in Jobs : inbox'[i] > 0} = {i \in Jobs : inbox[i] > 0} \cup {held[w]}
    BY <1>1, <1>2, <2>2
  <2>4. held[w] \in InHand /\ InHand' = InHand
    BY <1>0, <1>1 DEF InHand, Busy
  <2> QED
    BY <1>0, <2>1, <2>3, <2>4 DEF Contract!Answer
<1>4. CASE ~alive[held[w]]
  <2>1. inbox' = inbox
    BY <1>0, <1>1, <1>2, <1>4
  <2> QED
    BY <1>0, <2>1, ContractStays
<1> QED
  BY <1>3, <1>4

LEMMA ContractFinishes ==
  ASSUME IInv, NEW w \in Workers, Account(w), NEW j \in Jobs, j = held[w]
  PROVE  Contract!Finish(j)
<1>0. /\ pc[w] = "account" /\ held' = [held EXCEPT ![w] = NoJob]
      /\ UNCHANGED <<queue, inbox, admittedBy>>
  BY DEF Account, clientVars
<1>1. held[w] \in Jobs /\ held[w] # NoJob
  BY <1>0, HeldJob, ShapesTyped DEF IInv, Serving, Answered
<1>2. \A v \in Workers : held'[v] = IF v = w THEN NoJob ELSE held[v]
  BY <1>0 DEF IInv, Shapes, WorkerShape
<1>3. \A v \in Workers : held[v] = held[w] => v = w
  BY <1>1 DEF IInv, Owned
<1>4. InHand' = InHand \ {held[w]} /\ held[w] \in InHand
  BY <1>1, <1>2, <1>3 DEF InHand, Busy
<1> QED
  BY <1>0, <1>4 DEF Contract!Finish

LEMMA ContractStep ==
  ASSUME IInv, IInv', [Next]_vars
  PROVE  [Contract!Next]_Contract!vars
<1>0. phase = "absent" => queue = <<>>
  BY DEF IInv, Threads, Phased
<1>1. CASE Controller
  <2>1. UNCHANGED <<queue, held, inbox, admittedBy>>
    BY <1>0, <1>1 DEF Controller, StartPool, SpawnWorker, SpawnFails, PublishPool, StopPool,
       RaiseStopping, JoinWorkers, PauseWorkers, ResumeWorkers, queueVars, workerVars, clientVars
  <2> QED
    BY <2>1, ContractStays
<1>2. ASSUME NEW j \in Jobs, Submission(j)
      PROVE  [Contract!Next]_Contract!vars
  <2>1. CASE Enqueue(j)
    BY <2>1, ContractAdmits DEF Contract!Next
  <2>2. CASE ~Enqueue(j)
    <3>1. UNCHANGED <<queue, held, inbox, admittedBy>>
      BY <1>2, <2>2 DEF Submission, BeginSubmit, MonitorFails, Reject, OutOfMemory,
         queueVars, workerVars
    <3> QED
      BY <3>1, ContractStays
  <2> QED
    BY <2>1, <2>2
<1>3. ASSUME NEW j \in Jobs, Process(j)
      PROVE  [Contract!Next]_Contract!vars
  <2>1. UNCHANGED <<queue, held, inbox, admittedBy>>
    BY <1>3 DEF Process, CancelRequest, CancelOperation, RecipientDies, MonitorDown,
       AbandonMonitor, CollectRequest, queueVars, workerVars, clientVars
  <2> QED
    BY <2>1, ContractStays
<1>4. ASSUME NEW w \in Workers, Worker(w)
      PROVE  [Contract!Next]_Contract!vars
  <2>1. CASE Pop(w)
    BY <2>1, ContractBegins DEF Contract!Next
  <2>2. CASE Send(w) \/ Account(w)
    <3>1. held[w] \in Jobs
      BY <2>2, HeldJob, ShapesTyped DEF IInv, Send, Account, Goto, Serving, Answered
    <3>2. PICK j \in Jobs : j = held[w]
      BY <3>1
    <3>3. Contract!Answer(j) \/ Contract!Finish(j) \/ UNCHANGED Contract!vars
      BY <2>2, <3>2, ContractAnswers, ContractFinishes
    <3> QED
      BY <3>3 DEF Contract!Next
  <2>3. CASE ~(Pop(w) \/ Send(w) \/ Account(w))
    <3>1. UNCHANGED <<queue, held, inbox, admittedBy>>
      BY <1>4, <2>3 DEF Worker, Boot, Idle, Quit, Repause, Probe, Run, Post, Settle,
         LoadCancelled, LoadNotCancelled, Exchange, Destroy, Exit, queueVars, clientVars
    <3> QED
      BY <3>1, ContractStays
  <2> QED
    BY <2>1, <2>2, <2>3
<1>5. CASE UNCHANGED vars
  BY <1>5, ContractStays DEF vars, queueVars, workerVars, clientVars
<1> QED
  BY <1>1, <1>2, <1>3, <1>4, <1>5 DEF Next

\* Whatever threads, flags, signals and cancellations do, the pool behaves as
\* BoundedPool says: first in first out, never more jobs waiting than
\* queue_capacity or running than threads, each taken in once, answered at
\* most once and only while a worker has it.
THEOREM PoolImplementsContract == Spec => ContractSpec
<1>1. Init => Contract!Init
  BY DEF Init, Contract!Init, InHand, Busy
<1>2. IInv /\ IInv' /\ [Next]_vars => [Contract!Next]_Contract!vars
  BY ContractStep
<1> QED
  BY <1>1, <1>2, Invariant, PTL DEF Spec, ContractSpec, Contract!Spec
=====
