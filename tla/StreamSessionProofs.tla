------------------------- MODULE StreamSessionProofs -------------------------
(***************************************************************************)
(* Proofs about StreamSession, for any sources, limits and batches.        *)
(*                                                                         *)
(* The plan and the file that changes need no more than PlanInv and one    *)
(* look at each step.  The order of the rows rests on an invariant of five *)
(* layers, each proved from the ones before it: the types (CursorShaped,   *)
(* SessionShaped); who may touch the native cursor (Held); where its       *)
(* reader is (Reading); what it has validated (Validated); and what the    *)
(* reductions were given of it (Ordered).  Only the last one asks that no  *)
(* continuation is halted under a running batch.                           *)
(***************************************************************************)
EXTENDS StreamSession, SequenceTheorems, FiniteSetTheorems, TLAPS

-----------------------------------------------------------------------------
(* The projection plan. *)

PlanInv ==
  /\ plan \in {{}, {"setup"}, {"cursor"}} /\ destroyed \in 0..1
  /\ control \in {"none", "live", "freed"}
  /\ plan # {} => destroyed = 0
  /\ control = "none" => plan # {"cursor"}
  /\ control = "live" => plan = {"cursor"}
  /\ control = "freed" => plan = {} /\ destroyed = 1

LEMMA Counts ==
  /\ Cardinality({}) = 0
  /\ Cardinality({"setup"}) = 1 /\ Cardinality({"cursor"}) = 1
  /\ {"setup"} \cap Moved = {} /\ {"cursor"} \cap Moved = {"cursor"}
BY FS_EmptySet, FS_Singleton DEF Moved

LEMMA PlanClosed == PlanInv /\ CloseResource => PlanInv'
<1> SUFFICES ASSUME PlanInv, CloseResource PROVE PlanInv'
  OBVIOUS
<1>1. CASE control # "live"
  BY <1>1 DEF PlanInv, CloseResource
<1>2. CASE control = "live"
  <2>1. plan = {"cursor"} /\ destroyed = 0
    BY <1>2 DEF PlanInv
  <2>2. plan \ {"cursor"} = {} /\ plan \cap {"cursor"} = {"cursor"}
    BY <2>1
  <2>3. control' = "freed" /\ plan' = {} /\ destroyed' = 1
    BY <1>2, <2>1, <2>2, Counts DEF CloseResource, DestroyControl
  <2>4. QED
    BY <2>3 DEF PlanInv
<1>3. QED
  BY <1>1, <1>2

LEMMA PlanKept == PlanInv /\ UNCHANGED <<plan, destroyed, control>> => PlanInv'
BY DEF PlanInv

LEMMA PlanStep == PlanInv /\ [Next]_vars => PlanInv'
<1> SUFFICES ASSUME PlanInv, [Next]_vars PROVE PlanInv'
  OBVIOUS
<1>1. CASE MakePlan
  BY <1>1 DEF MakePlan, PlanInv
<1>2. CASE SetUp
  BY <1>2, Counts DEF SetUp, PlanInv
<1>3. CASE FailSetUp
  BY <1>3 DEF FailSetUp, PlanInv
<1>4. CASE Take
  BY <1>4, PlanClosed, PlanKept DEF Take
<1>5. CASE Feed
  BY <1>5, PlanClosed, PlanKept DEF Feed
<1>6. CASE Finish
  BY <1>6, PlanClosed DEF Finish
<1>7. CASE \E c \in conts : Resume(c) \/ HaltElsewhere(c)
  BY <1>7, PlanClosed, PlanKept DEF Resume, HaltElsewhere
<1>8. CASE Collect
  BY <1>8, PlanClosed DEF Collect, CloseResource
<1>9. CASE OpenFile \/ AskBatch \/ Worker \/ Forget \/ Write \/ Over \/ UNCHANGED vars
  BY <1>9, PlanKept DEF OpenFile, AskBatch, Worker, ReserveDemand, RunBatch, FinishBatch,
                        Forget, Write, Over, vars, sessionVars
<1>10. QED
  BY <1>1, <1>2, <1>3, <1>4, <1>5, <1>6, <1>7, <1>8, <1>9 DEF Next, Owner

LEMMA PlanInit == Init => PlanInv
BY DEF Init, PlanInv

\* For any sources and limits, with whatever closes the cursor under a batch:
\* the plan is destroyed once, and nothing of it is left when the control is
\* freed (the transfer of the plan into the cursor, and its clean-ups).
THEOREM PlanHasOneOwner == Spec => []PlanDestroyedOnce
<1>1. PlanInv => PlanDestroyedOnce
  BY Counts DEF PlanInv, PlanDestroyedOnce
<1>2. QED
  BY <1>1, PlanInit, PlanStep, PTL DEF Spec

-----------------------------------------------------------------------------
(* A file that changes. *)

\* No reader of a file is told that it is through with it when the file is not
\* the one it mapped, for any sources and limits.
THEOREM EndOfChangedFile == Spec => ChangeIsNoticed
<1> DEFINE Told == state' = "done" /\ state # "done"
<1>1. ASSUME [Next]_vars, Told PROVE ~(IsFile /\ changed')
  <2>1. CASE RunBatch /\ Complete
    BY <1>1, <2>1 DEF Complete, CompletionStatus, Fail, Leave, IsFile
  <2>2. CASE RunBatch /\ ~Complete
    BY <1>1, <2>2 DEF RunBatch, BeginBatch, BatchStep, LocateTarget, EndFilling, YieldFull,
         ProjectRow, AppendRow, StopBatch, LoseBatch, ValidateParent, Yield, Leave, Fail
  <2>3. ~RunBatch => state' \in {state, "ready", "mapping", "closed"}
    BY <1>1 DEF Next, Worker, Owner, vars, cursorVars, MakePlan, OpenFile, MapInput, SetUp,
         OpenCursor, FailSetUp, DestroyCursor, AskBatch, ReserveDemand, FinishBatch, Take, Feed,
         Finish, Resume, HaltElsewhere, CloseResource, DestroyControl, Forget, Collect, Write,
         ChangeFile, Over
  <2>4. QED
    BY <1>1, <2>1, <2>2, <2>3
<1>2. QED
  BY <1>1, PTL DEF Spec, ChangeIsNoticed
-----------------------------------------------------------------------------
(* The invariant. *)

Levels == [opens : BOOLEAN, found : BOOLEAN, before : Seq(BOOLEAN), after : Seq(BOOLEAN)]

Codes == {"none", "begun", "ok", "cancelled", "closed", "cursor_state", "file_changed",
          "incorrect_type", "invalid_json", "not_found", "unprojectable",
          "batch_too_large", "out_of_memory", "unexpected_eof"}

Batches == [rows : Seq(Nat), bytes : Int, done : BOOLEAN, code : Codes]
Jobs    == [at : {"none", "admitted", "reserved", "answered"}, number : Nat, code : Codes,
            rows : Seq(Nat), done : BOOLEAN]
Ends    == [how : {"done", "halted", "raised"}, given : Seq(Nat)]

\* The types, with those of the records.
CursorShaped ==
  /\ source \in Sources /\ changed \in BOOLEAN
  /\ state \in States /\ located \in BOOLEAN
  /\ at \in {"idle", "locate", "fill", "complete"} /\ (at # "idle" <=> state = "running")
  /\ row \in 0..Len(source.rows) /\ pending \in {<<>>, <<row>>}
  /\ pending # <<>> => row < Len(source.rows)
  /\ attempts \in Nat /\ sequence \in Nat
  /\ frames \in Seq(Levels)
  /\ batch \in Batches
  /\ Len(batch.rows) <= RowLimit /\ batch.bytes <= ByteLimit

SessionShaped ==
  /\ control \in {"none", "live", "freed"}
  /\ demand \in {"none", "ready", "running", "done", "cancelled", "closed"}
  /\ next \in Nat
  /\ job \in Jobs
  /\ driver \in Seq(Reductions) /\ Len(driver) <= 1
  /\ conts \subseteq Reductions
  /\ ended \subseteq Ends

\* Who may touch the native cursor: the worker that holds the demand, while
\* the control lives.
Held ==
  /\ control = "none" =>
       /\ job = NoJob /\ demand = "none" /\ state \in {"none", "mapping", "closed"}
       /\ next = 0 /\ row = 0 /\ attempts = 0 /\ sequence = 0
       /\ pending = <<>> /\ frames = <<>> /\ ~located
       /\ conts = {} /\ driver \in {<<>>, <<Start>>}
  /\ control = "live" => demand \in {"ready", "running", "done", "cancelled"}
                         /\ state \in {"ready", "running", "done", "cancelled"}
  /\ control = "freed" => demand = "closed" /\ state = "closed"
  /\ job.at = "admitted" => job.code = "none"
  /\ job.at = "reserved" => job.code \in {"none", "begun"} /\ control # "none"
  /\ job.at = "reserved" /\ control = "live" => demand = "running" /\ job.number = next
  /\ demand = "running" => job.at = "reserved"
  /\ at # "idle" => job.at = "reserved" /\ job.code = "begun" /\ control = "live"

\* The cursor waits for a batch; a batch runs; it ran and went well.
Resting == control = "live" /\ \/ demand = "ready"
                               \/ job.at = "reserved" /\ job.code = "none"
Filling == at # "idle"
Filled == /\ control = "live" /\ at = "idle" /\ batch.code = "ok"
          /\ job.at = "reserved" /\ job.code = "begun"

\* The reader is where the count of projections says, and at the target from
\* the first batch that located it to the last one.
Read(n) == \A k \in 1..n : source.rows[k] # 0
Reading ==
  /\ attempts \in {row, row + 1} /\ attempts <= Len(source.rows)
  /\ Resting \/ Filling \/ Filled => attempts = row + Len(pending) /\ Read(attempts)
  /\ Resting => state = "ready" /\ sequence = next
                /\ (located => frames = source.levels) /\ (~located => frames = <<>>)
  /\ Filling => sequence = next /\ ~batch.done
  /\ at = "locate" => ~located /\ frames = <<>>
  /\ at \in {"fill", "complete"} => located
  /\ at = "fill" => frames = source.levels
  /\ Filled => /\ sequence = next + 1 /\ state = (IF batch.done THEN "done" ELSE "ready")
               /\ located /\ (~batch.done => frames = source.levels)
  /\ control = "live" /\ demand = "done" => state = "done" /\ sequence = next
  /\ Len(frames) <= Len(source.levels)

\* What was validated on the way to `done'.
LevelDone(k) == FALSE \notin Range(source.levels[k].after)
Validated ==
  /\ located => FailedLevels = {}
  /\ at = "complete" =>
       /\ AtEnd /\ pending = <<>>
       /\ \A k \in DOMAIN frames : frames[k] = source.levels[k]
       /\ \A k \in Len(frames) + 1 .. Len(source.levels) : LevelDone(k)
  /\ Filled /\ batch.done => AtEnd /\ SourceValid

\* The rows a reduction was given and holds, and those on their way to it.
Rs == conts \cup Range(driver)
Count(r) == Len(r.given) + Len(r.rows)
Block(b, k) == [i \in 1..k |-> b + i - 1]
Whole(n) == n = Len(source.rows) /\ SourceValid

Ordered ==
  /\ \A r \in Rs : /\ Given(r) = Block(0, Count(r)) /\ r.number <= next
                   /\ r.done => Whole(Count(r))
  /\ Resting => \A r \in Rs : r.number = next => Count(r) = row
  /\ job.at # "none" /\ driver # <<>> => Driving.rows = <<>> /\ ~Driving.done
                                         /\ Driving.number = job.number
  /\ job.at = "reserved" => control = "live"
  /\ Filling \/ Filled =>
       /\ Len(batch.rows) <= row /\ batch.rows = Block(row - Len(batch.rows), Len(batch.rows))
       /\ \A r \in Rs : r.number = next => Count(r) + Len(batch.rows) = row
  /\ job.at = "answered" /\ job.code = "ok" =>
       /\ next = job.number + 1 /\ \A r \in Rs : r.number < next
       /\ driver # <<>> =>
            /\ job.rows = Block(Count(Driving), Len(job.rows))
            /\ demand = "ready" => Count(Driving) + Len(job.rows) = row
            /\ job.done => Whole(Count(Driving) + Len(job.rows))
  /\ \A e \in ended : e.how = "done" => e.given = Block(0, Len(source.rows)) /\ SourceValid

-----------------------------------------------------------------------------
(* Types. *)

LEMMA SourceTyped ==
  ASSUME CursorShaped
  PROVE  /\ source.rows \in Seq(Nat) /\ Len(source.rows) \in Nat
         /\ source.levels \in Seq(Levels) /\ Len(source.levels) \in Nat
         /\ source.array \in BOOLEAN /\ source.end \in BOOLEAN
BY SourcesAssumption DEF CursorShaped, Levels

LEMMA OneElement ==
  ASSUME NEW S, NEW s \in Seq(S), Len(s) <= 1, s # <<>>
  PROVE  s = <<Head(s)>> /\ Head(s) \in S
<1>1. Len(s) \in Nat \ {0}
  BY EmptySeq
<1>2. Len(s) = 1
  <2>1. \A k \in Nat \ {0} : k <= 1 => k = 1
    OBVIOUS
  <2>2. QED
    BY <1>1, <2>1
<1>3. s[1] \in S /\ Head(s) = s[1]
  BY <1>2, HeadTailProperties
<1>4. <<s[1]>> \in Seq(S) /\ Len(<<s[1]>>) = 1 /\ \A i \in 1..1 : s[i] = <<s[1]>>[i]
  BY <1>3
<1>5. s = <<s[1]>>
  BY <1>2, <1>4, SeqEqual
<1>6. QED
  BY <1>3, <1>5

LEMMA OneDriver ==
  /\ <<>> \in Seq(Reductions) /\ Len(<<>>) = 0
  /\ \A r \in Reductions : <<r>> \in Seq(Reductions) /\ Len(<<r>>) = 1
OBVIOUS

LEMMA DriverShaped ==
  ASSUME SessionShaped
  PROVE  /\ driver # <<>> => driver = <<Driving>> /\ Driving \in Reductions
         /\ driver = <<>> => Range(driver) = {}
         /\ driver # <<>> => Range(driver) = {Driving}
<1>1. driver # <<>> => driver = <<Driving>> /\ Driving \in Reductions
  BY OneElement DEF SessionShaped, Driving
<1>2. Range(<<>>) = {} /\ \A r : Range(<<r>>) = {r}
  BY DEF Range
<1>3. driver = <<>> => Range(driver) = {}
  BY <1>2
<1>4. driver # <<>> => Range(driver) = {Driving}
  BY <1>1, <1>2
<1>5. QED
  BY <1>1, <1>3, <1>4

\* What an assignment to fields of a record leaves of it.
LEMMA BatchCoded ==
  ASSUME NEW b \in Batches, NEW c \in Codes
  PROVE  LET e == [b EXCEPT !.code = c]
         IN e \in Batches /\ e.rows = b.rows /\ e.bytes = b.bytes /\ e.code = c
BY DEF Batches

LEMMA BatchEnded ==
  ASSUME NEW b \in Batches, NEW d \in BOOLEAN
  PROVE  LET e == [b EXCEPT !.done = d]
         IN e \in Batches /\ e.rows = b.rows /\ e.bytes = b.bytes /\ e.code = b.code
BY DEF Batches

LEMMA BatchDone ==
  ASSUME NEW b \in Batches
  PROVE  /\ \A c \in Codes : [b EXCEPT !.code = c].done = b.done
         /\ \A d \in BOOLEAN : [b EXCEPT !.done = d].done = d
BY DEF Batches

LEMMA BatchGrown ==
  ASSUME NEW b \in Batches, NEW r \in Nat, NEW n \in Int
  PROVE  LET e == [b EXCEPT !.rows = @ \o <<r>>, !.bytes = @ + n]
         IN /\ e \in Batches /\ e.rows = b.rows \o <<r>> /\ e.bytes = b.bytes + n
            /\ e.code = b.code /\ e.done = b.done
<1> DEFINE x == b.rows \o <<r>>
           y == b.bytes + n
           e == [b EXCEPT !.rows = x, !.bytes = y]
<1>1. x \in Seq(Nat) /\ y \in Int
  BY DEF Batches
<1> HIDE DEF x, y
<1>2. e \in Batches /\ e.rows = x /\ e.bytes = y /\ e.code = b.code
  BY <1>1 DEF Batches
<1>3. e.done = b.done
  BY <1>1 DEF Batches
<1>4. QED
  BY <1>2, <1>3 DEF x, y

LEMMA ClearedFields ==
  /\ Cleared \in Batches /\ Cleared.rows = <<>> /\ Cleared.bytes = 0
  /\ Cleared.done = FALSE /\ Cleared.code = "ok"
BY DEF Cleared, Batches, Codes

LEMMA Refused ==
  ASSUME NEW c \in Codes, Refuse(c)
  PROVE  /\ batch' \in Batches /\ batch'.rows = <<>> /\ batch'.bytes = 0
         /\ batch'.code = c /\ batch'.done = FALSE
<1>1. batch'.done = FALSE
  BY ClearedFields, BatchDone DEF Refuse
<1>2. QED
  BY <1>1, ClearedFields, BatchCoded DEF Refuse

LEMMA CursorKept == CursorShaped /\ UNCHANGED cursorVars => CursorShaped'
BY DEF CursorShaped, cursorVars

LEMMA CursorDestroyed == CursorShaped /\ DestroyCursor => CursorShaped'
BY DEF CursorShaped, DestroyCursor, States

LEMMA CursorClosed == CursorShaped /\ CloseResource => CursorShaped'
BY CursorKept, CursorDestroyed DEF CloseResource, DestroyControl

LEMMA ShapedByBegin == CursorShaped /\ BeginBatch => CursorShaped'
<1> SUFFICES ASSUME CursorShaped, BeginBatch PROVE CursorShaped'
  OBVIOUS
<1>1. batch' \in Batches /\ Len(batch'.rows) = 0 /\ batch'.bytes = 0
  <2> SUFFICES batch' \in Batches /\ batch'.rows = <<>> /\ batch'.bytes = 0
    OBVIOUS
  <2>1. \A c \in Codes : Refuse(c) =>
          batch' \in Batches /\ batch'.rows = <<>> /\ batch'.bytes = 0
    BY Refused
  <2>2. CASE state # "ready" /\ batch' = [Cleared EXCEPT !.done = (state = "done"),
               !.code = CASE state = "done" -> "ok"
                          [] state = "cancelled" -> "cancelled"
                          [] OTHER -> "cursor_state"]
    <3> DEFINE d == state = "done"
               c == CASE state = "done" -> "ok" [] state = "cancelled" -> "cancelled"
                      [] OTHER -> "cursor_state"
               b == [Cleared EXCEPT !.done = d]
    <3>1. d \in BOOLEAN /\ c \in Codes
      BY DEF Codes
    <3>2. b \in Batches /\ b.rows = <<>> /\ b.bytes = 0
      BY <3>1, ClearedFields, BatchEnded
    <3>3. batch' = [b EXCEPT !.code = c]
      BY <2>2
    <3> HIDE DEF b, c
    <3>4. QED
      BY <3>1, <3>2, <3>3, BatchCoded
  <2>3. QED
    BY <2>1, <2>2, ClearedFields DEF BeginBatch, Fail, Codes
<1>2. /\ state' \in States /\ at' \in {"idle", "locate", "fill", "complete"}
      /\ at' # "idle" <=> state' = "running"
  BY DEF BeginBatch, Fail, Leave, CursorShaped, States
<1>3. QED
  BY <1>1, <1>2, LimitsAssumption DEF BeginBatch, CursorShaped

LEMMA ShapedByStep == CursorShaped /\ BatchStep => CursorShaped'
<1> SUFFICES ASSUME CursorShaped, BatchStep PROVE CursorShaped'
  OBVIOUS
<1> DEFINE Storage(b) == b \in Batches /\ Len(b.rows) <= RowLimit /\ b.bytes <= ByteLimit
<1>1. \A c \in Codes : Refuse(c) => Storage(batch')
  <2> SUFFICES ASSUME NEW c \in Codes, Refuse(c) PROVE Storage(batch')
    OBVIOUS
  <2>1. batch' \in Batches /\ batch'.rows = <<>> /\ batch'.bytes = 0
    BY Refused
  <2>2. QED
    BY <2>1, LimitsAssumption
<1>3. \A c \in Codes : Fail(c) =>
        Storage(batch') /\ state' \in States /\ at' = "idle" /\ state' # "running"
  BY <1>1 DEF Fail, Leave, States
<1>4. CASE LocateTarget
  <2>1. \A k \in 1..Len(source.levels) :
          frames \o SubSeq(source.levels, 1, k - 1) \in Seq(Levels)
    <3> SUFFICES ASSUME NEW k \in 1..Len(source.levels)
                 PROVE  frames \o SubSeq(source.levels, 1, k - 1) \in Seq(Levels)
      OBVIOUS
    <3>1. SubSeq(source.levels, 1, k - 1) \in Seq(Levels)
      BY SourceTyped, SubSeqProperties
    <3>2. QED
      BY <3>1, ConcatProperties DEF CursorShaped
  <2>2. frames \o source.levels \in Seq(Levels)
    BY SourceTyped, ConcatProperties DEF CursorShaped
  <2>3. \A l : SegmentStatus(l) \in Codes
    BY DEF SegmentStatus, Codes
  <2>4. \A k \in FailedLevels : k \in 1..Len(source.levels)
    BY SourceTyped DEF FailedLevels
  <2>5. frames' \in Seq(Levels)
    BY <1>4, <2>1, <2>2, <2>4 DEF LocateTarget
  <2>6. Storage(batch')
    BY <1>1, <1>4, <2>3 DEF LocateTarget, CursorShaped, Codes
  <2>7. /\ state' \in States /\ at' \in {"idle", "fill"}
        /\ at' # "idle" <=> state' = "running"
        /\ located' \in BOOLEAN
    BY <1>4 DEF LocateTarget, Leave, CursorShaped, States
  <2>8. QED
    BY <1>4, <2>5, <2>6, <2>7 DEF LocateTarget, CursorShaped
<1>5. CASE EndFilling
  BY <1>5 DEF EndFilling, CursorShaped
<1>6. CASE YieldFull
  BY <1>6 DEF YieldFull, Yield, Leave, CursorShaped, States
<1>7. CASE ProjectRow
  <2>1. row < Len(source.rows)
    BY <1>7, SourceTyped DEF ProjectRow, AtEnd, CursorShaped
  <2>2. CASE source.rows[row + 1] = 0
    BY <1>7, <1>3, <2>2 DEF ProjectRow, CursorShaped, Codes
  <2>3. CASE source.rows[row + 1] # 0
    BY <1>7, <2>1, <2>3 DEF ProjectRow, CursorShaped
  <2>4. QED
    BY <2>2, <2>3
<1>8. CASE AppendRow
  <2>1. pending = <<row>> /\ row < Len(source.rows) /\ row \in Nat
    BY <1>8, SourceTyped DEF AppendRow, CursorShaped
  <2>2. CASE batch' = [batch EXCEPT !.rows = @ \o pending,
                                            !.bytes = @ + source.rows[row + 1]]
             /\ Fits /\ row' = row + 1 /\ pending' = <<>>
             /\ UNCHANGED <<state, at, located, frames>>
    <3>1. source.rows[row + 1] \in Nat
      BY <2>1, SourceTyped
    <3>2. /\ batch' \in Batches /\ batch'.rows = batch.rows \o <<row>>
          /\ batch'.bytes = batch.bytes + source.rows[row + 1]
      <4>1. batch' = [batch EXCEPT !.rows = @ \o <<row>>, !.bytes = @ + source.rows[row + 1]]
        BY <2>1, <2>2
      <4>2. batch \in Batches
        BY DEF CursorShaped
      <4>3. row \in Nat /\ source.rows[row + 1] \in Int
        BY <2>1, <3>1
      <4> DEFINE n == source.rows[row + 1]
                 e == [batch EXCEPT !.rows = @ \o <<row>>, !.bytes = @ + n]
      <4>4. e \in Batches /\ e.rows = batch.rows \o <<row>> /\ e.bytes = batch.bytes + n
        <5> HIDE DEF n
        <5>1. n \in Int
          BY <4>3 DEF n
        <5>2. QED
          BY <4>2, <4>3, <5>1, BatchGrown
      <4>5. QED
        BY <4>1, <4>4
    <3>3. Len(batch.rows \o <<row>>) = Len(batch.rows) + 1 /\ Len(batch.rows) \in Nat
      BY <2>1 DEF CursorShaped, Batches
    <3>4. Len(batch.rows) < RowLimit
      BY <1>8, <3>3, LimitsAssumption DEF AppendRow, Full, CursorShaped
    <3>5. Storage(batch')
      BY <2>2, <3>2, <3>3, <3>4, LimitsAssumption DEF Fits
    <3>6. UNCHANGED <<source, changed, attempts, sequence>>
      BY <1>8, <2>2 DEF AppendRow, Fail, Yield
    <3>7. /\ row' \in 0..Len(source'.rows) /\ pending' \in {<<>>, <<row'>>}
          /\ pending' # <<>> => row' < Len(source'.rows)
      BY <2>1, <2>2, <3>6, SourceTyped
    <3>8. QED
      BY <2>2, <3>5, <3>6, <3>7 DEF CursorShaped
  <2>3. CASE Fail("batch_too_large") /\ UNCHANGED <<source, changed, located, frames, row, pending,
                                                       attempts, sequence>>
    BY <1>3, <2>3 DEF CursorShaped, Codes
  <2>4. CASE Yield
    BY <1>8, <2>4 DEF AppendRow, Yield, Leave, CursorShaped, States
  <2>5. QED
    BY <1>8, <2>2, <2>3, <2>4 DEF AppendRow
<1>9. CASE StopBatch
  BY <1>9, <1>3 DEF StopBatch, CursorShaped, Codes
<1>10. CASE LoseBatch
  BY <1>10, <1>3 DEF LoseBatch, CursorShaped, Codes
<1>11. CASE ValidateParent
  <2>1. Front(frames) \in Seq(Levels)
    BY <1>11, SubSeqProperties DEF Front, ValidateParent, CursorShaped
  <2>2. CASE FALSE \in Range(Last(frames).after)
    BY <1>11, <1>3, <2>2 DEF ValidateParent, CursorShaped, Codes
  <2>3. CASE FALSE \notin Range(Last(frames).after)
    BY <1>11, <2>1, <2>3 DEF ValidateParent, Remaining, CursorShaped
  <2>4. QED
    BY <2>2, <2>3
<1>12. CASE Complete
  <2>1. CASE CompletionStatus = "ok"
    <3>1. Storage(batch')
      BY <1>12, <2>1, BatchEnded DEF Complete, CursorShaped
    <3>2. QED
      BY <1>12, <2>1, <3>1 DEF Complete, Leave, CursorShaped, States
  <2>2. CASE CompletionStatus # "ok"
    BY <1>12, <1>3, <2>2 DEF Complete, CompletionStatus, CursorShaped, Codes
  <2>3. QED
    BY <2>1, <2>2
<1>13. QED
  BY <1>4, <1>5, <1>6, <1>7, <1>8, <1>9, <1>10, <1>11, <1>12 DEF BatchStep

JobPlaces == {"none", "admitted", "reserved", "answered"}

LEMMA JobMoved ==
  ASSUME NEW j \in Jobs, NEW p \in JobPlaces
  PROVE  /\ [j EXCEPT !.at = p] \in Jobs
         /\ \A c \in Codes : [j EXCEPT !.at = p, !.code = c] \in Jobs
         /\ \A n \in Nat : [j EXCEPT !.at = p, !.number = n] \in Jobs
BY DEF Jobs, JobPlaces

LEMMA JobMovedFields ==
  ASSUME NEW j \in Jobs, NEW p \in JobPlaces
  PROVE  /\ LET e == [j EXCEPT !.at = p]
            IN e.at = p /\ e.code = j.code /\ e.number = j.number /\ e.rows = j.rows
         /\ \A c \in Codes :
              LET e == [j EXCEPT !.at = p, !.code = c]
              IN e.at = p /\ e.code = c /\ e.number = j.number /\ e.rows = j.rows
         /\ \A n \in Nat :
              LET e == [j EXCEPT !.at = p, !.number = n]
              IN e.at = p /\ e.code = j.code /\ e.number = n /\ e.rows = j.rows
         /\ \A c \in Codes :
              LET e == [j EXCEPT !.code = c]
              IN e.at = j.at /\ e.code = c /\ e.number = j.number /\ e.rows = j.rows
BY DEF Jobs, JobPlaces

LEMMA JobCoded ==
  ASSUME NEW j \in Jobs, NEW c \in Codes
  PROVE  [j EXCEPT !.code = c] \in Jobs
BY DEF Jobs

LEMMA AnswerShaped ==
  ASSUME SessionShaped, NEW c \in Codes, Answer(c)
  PROVE  job' \in Jobs
<1>1. job \in Jobs /\ "answered" \in JobPlaces
  BY DEF SessionShaped, JobPlaces
<1>2. [job EXCEPT !.at = "answered", !.code = c] \in Jobs
  BY <1>1, JobMoved
<1>3. QED
  BY <1>2 DEF Answer

LEMMA JobAnswered ==
  ASSUME NEW j \in Jobs, NEW p \in JobPlaces, NEW c \in Codes, NEW r \in Seq(Nat), NEW d \in BOOLEAN
  PROVE  [j EXCEPT !.at = p, !.code = c, !.rows = r, !.done = d] \in Jobs
BY DEF Jobs, JobPlaces

LEMMA JobAnsweredFields ==
  ASSUME NEW j \in Jobs, NEW p \in JobPlaces, NEW c \in Codes, NEW r \in Seq(Nat), NEW d \in BOOLEAN
  PROVE  LET e == [j EXCEPT !.at = p, !.code = c, !.rows = r, !.done = d]
         IN e.at = p /\ e.code = c /\ e.number = j.number /\ e.rows = r
BY DEF Jobs, JobPlaces

LEMMA JobAnsweredDone ==
  ASSUME NEW j \in Jobs, NEW p \in JobPlaces, NEW c \in Codes, NEW r \in Seq(Nat), NEW d \in BOOLEAN
  PROVE  [j EXCEPT !.at = p, !.code = c, !.rows = r, !.done = d].done = d
BY DEF Jobs, JobPlaces

LEMMA NoJobShaped == NoJob \in Jobs
BY DEF NoJob, Jobs, Codes

LEMMA SessionKept ==
  SessionShaped /\ UNCHANGED <<control, demand, next, job, driver, conts, ended>>
    => SessionShaped'
BY DEF SessionShaped

LEMMA CloseShaped ==
  ASSUME SessionShaped, CloseResource
  PROVE  /\ control' \in {"none", "live", "freed"}
         /\ demand' \in {"none", "ready", "running", "done", "cancelled", "closed"}
BY DEF CloseResource, DestroyControl, SessionShaped

LEMMA EndShaped ==
  ASSUME SessionShaped, driver # <<>>, NEW how \in {"done", "halted", "raised"}, End(how)
  PROVE  ended' \subseteq Ends /\ driver' = <<>>
<1>1. Driving.given \in Seq(Nat)
  BY DriverShaped DEF Reductions
<1>2. [how |-> how, given |-> Driving.given] \in Ends
  BY <1>1 DEF Ends
<1>3. QED
  BY <1>2 DEF End, SessionShaped

LEMMA FedShaped ==
  ASSUME SessionShaped, driver # <<>>, Driving.rows # <<>>
  PROVE  /\ Fed \in Reductions
         /\ Fed.number = Driving.number /\ Fed.done = Driving.done
         /\ Fed.rows = Tail(Driving.rows) /\ Fed.given = Append(Driving.given, Head(Driving.rows))
<1> DEFINE t == Tail(Driving.rows)
           g == Append(Driving.given, Head(Driving.rows))
           e == [Driving EXCEPT !.rows = t, !.given = g]
<1>1. Driving \in Reductions
  BY DriverShaped
<1>2. t \in Seq(Nat) /\ g \in Seq(Nat)
  BY <1>1, HeadTailProperties, AppendProperties DEF Reductions
<1> HIDE DEF t, g
<1>3. e \in Reductions /\ e.number = Driving.number /\ e.rows = t /\ e.given = g
  BY <1>1, <1>2 DEF Reductions
<1>4. e.done = Driving.done
  BY <1>1, <1>2 DEF Reductions
<1>5. QED
  BY <1>3, <1>4 DEF Fed, t, g

LEMMA TakenShaped ==
  ASSUME SessionShaped, driver # <<>>
  PROVE  LET e == [Driving EXCEPT !.number = @ + 1, !.rows = job.rows, !.done = job.done]
         IN /\ e \in Reductions /\ e.number = Driving.number + 1 /\ e.rows = job.rows
            /\ e.given = Driving.given /\ e.done = job.done
<1>1. Driving \in Reductions /\ job.rows \in Seq(Nat) /\ job.done \in BOOLEAN
  BY DriverShaped DEF SessionShaped, Jobs
<1> DEFINE n == Driving.number + 1
           e == [Driving EXCEPT !.number = n, !.rows = job.rows, !.done = job.done]
<1>2. n \in Nat
  BY <1>1 DEF Reductions
<1> HIDE DEF n
<1>3. e \in Reductions /\ e.number = n /\ e.rows = job.rows /\ e.given = Driving.given
  BY <1>1, <1>2 DEF Reductions
<1>4. e.done = job.done
  BY <1>1, <1>2 DEF Reductions
<1>5. QED
  BY <1>3, <1>4 DEF n

LEMMA ShapedStep == CursorShaped /\ SessionShaped /\ [Next]_vars => CursorShaped' /\ SessionShaped'
<1> SUFFICES ASSUME CursorShaped, SessionShaped, [Next]_vars
             PROVE  CursorShaped' /\ SessionShaped'
  OBVIOUS
<1> USE DEF sessionVars
<1>1. CASE MakePlan
  BY <1>1, CursorKept, SessionKept DEF MakePlan
<1>2. CASE SetUp
  <2>1. CursorShaped'
    BY <1>2 DEF SetUp, OpenCursor, CreateAllowed, IsFile, CursorShaped, States
  <2>2. SessionShaped'
    BY <1>2 DEF SetUp, SessionShaped
  <2>3. QED
    BY <2>1, <2>2
<1>3. CASE FailSetUp
  <2>1. CursorShaped'
    BY <1>3, CursorDestroyed DEF FailSetUp
  <2>2. ended' \subseteq Ends /\ driver' = <<>>
    BY <1>3, EndShaped DEF FailSetUp, End, Idle
  <2>3. SessionShaped'
    BY <1>3, <2>2, OneDriver DEF FailSetUp, SessionShaped
  <2>4. QED
    BY <2>1, <2>3
<1>4. CASE AskBatch
  <2>1. CursorShaped'
    BY <1>4, CursorKept DEF AskBatch
  <2>2. job' \in Jobs
    BY <1>4, NoJobShaped, JobMoved, DriverShaped DEF AskBatch, Idle, Reductions, JobPlaces
  <2>3. QED
    BY <1>4, <2>1, <2>2 DEF AskBatch, SessionShaped
<1>5. CASE ReserveDemand
  <2>1. CursorShaped'
    BY <1>5, CursorKept DEF ReserveDemand
  <2>2. job' \in Jobs
    <3>1. \A c \in Codes : Answer(c) => job' \in Jobs
      BY AnswerShaped
    <3>2. [job EXCEPT !.at = "reserved"] \in Jobs
      BY JobMoved DEF SessionShaped, JobPlaces
    <3>3. "cancelled" \in Codes /\ "closed" \in Codes /\ "cursor_state" \in Codes
      BY DEF Codes
    <3>4. \/ \E c \in Codes : Answer(c)
          \/ job' = [job EXCEPT !.at = "reserved"]
      BY <1>5, <3>3 DEF ReserveDemand
    <3>5. QED
      BY <3>1, <3>2, <3>4
  <2>3. demand' \in {demand, "running"}
    BY <1>5 DEF ReserveDemand
  <2>4. QED
    BY <1>5, <2>1, <2>2, <2>3 DEF ReserveDemand, SessionShaped
<1>6. CASE RunBatch
  <2>1. CursorShaped'
    BY <1>6, ShapedByBegin, ShapedByStep DEF RunBatch
  <2>2. job' \in Jobs
    BY <1>6, JobCoded DEF RunBatch, SessionShaped, Codes
  <2>3. QED
    BY <1>6, <2>1, <2>2 DEF RunBatch, SessionShaped
<1>7. CASE FinishBatch
  <2>1. CursorShaped'
    BY <1>7, CursorKept DEF FinishBatch
  <2>2. job' \in Jobs
    <3>1. "ok" \in Codes /\ "out_of_memory" \in Codes /\ batch.code \in Codes
          /\ batch.rows \in Seq(Nat) /\ batch.done \in BOOLEAN
      BY DEF Codes, CursorShaped, Batches
    <3>2. \A c \in Codes : Answer(c) => job' \in Jobs
      BY AnswerShaped
    <3>3. [job EXCEPT !.at = "answered", !.code = "ok", !.rows = batch.rows, !.done = batch.done]
             \in Jobs
      BY <3>1, JobAnswered DEF SessionShaped, JobPlaces
    <3>4. QED
      BY <1>7, <3>1, <3>2, <3>3 DEF FinishBatch
  <2>3. /\ demand' \in {demand, "cancelled", "done", "ready"}
        /\ next' \in Nat
    BY <1>7 DEF FinishBatch, CancelDemand, CompleteDemand, SessionShaped
  <2>4. QED
    BY <1>7, <2>1, <2>2, <2>3 DEF FinishBatch, SessionShaped
<1>8. CASE Take
  <2>1. CursorShaped'
    BY <1>8, CursorKept, CursorClosed DEF Take
  <2>2. job' \in Jobs /\ next' = next /\ conts' = conts
    BY <1>8, NoJobShaped DEF Take
  <2>3. /\ control' \in {"none", "live", "freed"}
        /\ demand' \in {"none", "ready", "running", "done", "cancelled", "closed"}
    BY <1>8, CloseShaped DEF Take, SessionShaped
  <2>4. driver' \in Seq(Reductions) /\ Len(driver') <= 1 /\ ended' \subseteq Ends
    <3>1. CASE UNCHANGED <<driver, ended>>
      BY <3>1 DEF SessionShaped
    <3>2. CASE /\ driver # <<>> /\ ended' = ended
               /\ driver' = <<[Driving EXCEPT !.number = @ + 1, !.rows = job.rows, !.done = job.done]>>
      BY <3>2, TakenShaped, OneDriver DEF SessionShaped
    <3>3. CASE driver # <<>> /\ (End("done") \/ End("raised"))
      <4>1. driver' = <<>> /\ ended' \subseteq Ends
        BY <3>3, EndShaped
      <4>2. QED
        BY <4>1, OneDriver
    <3>4. QED
      BY <1>8, <3>1, <3>2, <3>3 DEF Take, Idle
  <2>5. QED
    BY <2>1, <2>2, <2>3, <2>4 DEF SessionShaped
<1>9. CASE Feed
  <2>1. CursorShaped'
    BY <1>9, CursorKept, CursorClosed DEF Feed
  <2>2. Fed \in Reductions
    BY <1>9, FedShaped DEF Feed, Idle
  <2>3. \A how \in {"halted", "raised"} : [how |-> how, given |-> Fed.given] \in Ends
    BY <2>2 DEF Reductions, Ends
  <2>4. /\ control' \in {"none", "live", "freed"}
        /\ demand' \in {"none", "ready", "running", "done", "cancelled", "closed"}
    BY <1>9, CloseShaped DEF Feed, SessionShaped
  <2>5. driver' \in Seq(Reductions) /\ Len(driver') <= 1
    <3>1. driver' \in {<<>>, <<Fed>>}
      BY <1>9 DEF Feed
    <3>2. CASE driver' = <<>>
      BY <3>2, OneDriver
    <3>3. CASE driver' = <<Fed>>
      BY <2>2, <3>3, OneDriver
    <3>4. QED
      BY <3>1, <3>2, <3>3
  <2>6. conts' \subseteq Reductions /\ ended' \subseteq Ends
    BY <1>9, <2>2, <2>3 DEF Feed, SessionShaped
  <2>7. QED
    BY <1>9, <2>1, <2>4, <2>5, <2>6 DEF Feed, SessionShaped
<1>10. CASE Finish
  <2>1. CursorShaped'
    BY <1>10, CursorClosed DEF Finish
  <2>2. driver' = <<>> /\ ended' \subseteq Ends
    BY <1>10, EndShaped DEF Finish, Idle
  <2>3. QED
    BY <1>10, <2>1, <2>2, CloseShaped, OneDriver DEF Finish, SessionShaped
<1>11. ASSUME NEW c \in conts, Resume(c) \/ HaltElsewhere(c) PROVE CursorShaped' /\ SessionShaped'
  <2>1. CursorShaped'
    BY <1>11, CursorKept, CursorClosed DEF Resume, HaltElsewhere
  <2>2. c \in Reductions
    BY DEF SessionShaped
  <2>3. [how |-> "halted", given |-> c.given] \in Ends
    BY <2>2 DEF Reductions, Ends
  <2>4. /\ control' \in {"none", "live", "freed"}
        /\ demand' \in {"none", "ready", "running", "done", "cancelled", "closed"}
    BY <1>11, CloseShaped DEF Resume, HaltElsewhere, SessionShaped
  <2>5. driver' \in Seq(Reductions) /\ Len(driver') <= 1 /\ ended' \subseteq Ends
    <3>1. driver' \in {driver, <<c>>} /\ ended' \subseteq Ends
      BY <1>11, <2>3 DEF Resume, HaltElsewhere, SessionShaped
    <3>2. CASE driver' = driver
      BY <3>1, <3>2 DEF SessionShaped
    <3>3. CASE driver' = <<c>>
      BY <2>2, <3>1, <3>3, OneDriver
    <3>4. QED
      BY <3>1, <3>2, <3>3
  <2>6. QED
    BY <1>11, <2>1, <2>4, <2>5 DEF Resume, HaltElsewhere, SessionShaped
<1>12. CASE Forget
  BY <1>12, CursorKept, OneDriver DEF Forget, SessionShaped
<1>13. CASE Collect
  BY <1>13, CursorDestroyed DEF Collect, DestroyControl, SessionShaped
<1>14. CASE OpenFile
  BY <1>14, SessionKept DEF OpenFile, MapInput, CursorShaped, States
<1>15. CASE Write
  BY <1>15, SessionKept DEF Write, ChangeFile, CursorShaped
<1>16. CASE Over \/ UNCHANGED vars
  BY <1>16, CursorKept, SessionKept DEF Over, vars
<1>17. QED
  BY <1>1, <1>2, <1>3, <1>4, <1>5, <1>6, <1>7, <1>8, <1>9, <1>10, <1>11, <1>12, <1>13,
     <1>14, <1>15, <1>16 DEF Next, Worker, Owner
-----------------------------------------------------------------------------
(* Who holds the native cursor. *)

\* What each step does to the job.
LEMMA Asked ==
  ASSUME SessionShaped, AskBatch
  PROVE  /\ job'.at = "admitted" /\ job'.code = "none" /\ job'.number = Driving.number
         /\ job'.rows = <<>> /\ driver # <<>> /\ job.at = "none" /\ control # "none"
<1>1. Driving.number \in Nat /\ driver # <<>>
  BY DriverShaped DEF AskBatch, Idle, Reductions
<1>2. NoJob.code = "none" /\ NoJob.rows = <<>>
  BY DEF NoJob
<1>3. QED
  BY <1>1, <1>2, NoJobShaped, JobMovedFields DEF AskBatch, JobPlaces

LEMMA Answered ==
  ASSUME SessionShaped, NEW c \in Codes, Answer(c)
  PROVE  job'.at = "answered" /\ job'.code = c /\ job'.number = job.number
BY JobMovedFields DEF SessionShaped, JobPlaces, Answer

LEMMA ReservedFields ==
  ASSUME SessionShaped, ReserveDemand
  PROVE  \/ /\ demand' = demand /\ job'.at = "answered" /\ job'.code # "ok"
         \/ /\ control = "live" /\ demand = "ready" /\ next = job.number /\ demand' = "running"
            /\ job'.at = "reserved" /\ job'.code = job.code /\ job'.number = job.number
<1>1. \A c \in {"cancelled", "closed", "cursor_state"} :
        Answer(c) => job'.at = "answered" /\ job'.code # "ok"
  BY Answered DEF Codes
<1>2. LET e == [job EXCEPT !.at = "reserved"]
      IN e.at = "reserved" /\ e.code = job.code /\ e.number = job.number
  BY JobMovedFields DEF SessionShaped, JobPlaces
<1>3. QED
  BY <1>1, <1>2 DEF ReserveDemand, Reserved

LEMMA Begun ==
  ASSUME SessionShaped, RunBatch
  PROVE  /\ job.at = "reserved" /\ job'.at = "reserved" /\ job'.number = job.number
         /\ job'.code = "begun"
         /\ \/ job.code = "none" /\ BeginBatch
            \/ job.code = "begun" /\ BatchStep
<1>1. LET e == [job EXCEPT !.code = "begun"]
      IN e.at = job.at /\ e.code = "begun" /\ e.number = job.number
  BY JobMovedFields DEF SessionShaped, JobPlaces, Codes
<1>2. QED
  BY <1>1 DEF RunBatch

LEMMA Finished ==
  ASSUME CursorShaped, SessionShaped, FinishBatch
  PROVE  /\ job.at = "reserved" /\ at = "idle"
         /\ job'.at = "answered" /\ job'.number = job.number
         /\ \/ /\ job.code = "begun" /\ batch.code = "ok" /\ CompleteDemand
               /\ job'.code = "ok" /\ job'.rows = batch.rows /\ job'.done = batch.done
            \/ CancelDemand /\ job'.code # "ok" /\ next' = next
<1>1. batch.code \in Codes /\ batch.rows \in Seq(Nat) /\ batch.done \in BOOLEAN
  BY DEF CursorShaped, Batches
<1>2. \A c \in Codes :
        Answer(c) => job'.at = "answered" /\ job'.code = c /\ job'.number = job.number
  BY Answered
<1>3. LET e == [job EXCEPT !.at = "answered", !.code = "ok", !.rows = batch.rows,
                             !.done = batch.done]
      IN /\ e.at = "answered" /\ e.code = "ok" /\ e.number = job.number /\ e.rows = batch.rows
         /\ e.done = batch.done
  BY <1>1, JobAnsweredFields, JobAnsweredDone DEF SessionShaped, JobPlaces, Codes
<1>4. CASE /\ job.code = "begun" /\ batch.code = "ok" /\ CompleteDemand
           /\ job' = [job EXCEPT !.at = "answered", !.code = "ok", !.rows = batch.rows,
                                   !.done = batch.done]
  BY <1>3, <1>4 DEF FinishBatch
<1>5. CASE job.code = "begun" /\ batch.code # "ok" /\ CancelDemand /\ Answer(batch.code) /\ next' = next
  BY <1>1, <1>2, <1>5 DEF FinishBatch
<1>6. CASE CancelDemand /\ Answer("out_of_memory") /\ next' = next
  BY <1>2, <1>6 DEF FinishBatch, Codes
<1>7. QED
  BY <1>4, <1>5, <1>6 DEF FinishBatch

LEMMA Closed ==
  CloseResource =>
    \/ UNCHANGED <<cursorVars, control, demand>> /\ control # "live"
    \/ /\ control = "live" /\ control' = "freed" /\ demand' = "closed"
       /\ state' = "closed" /\ at' = "idle"
       /\ UNCHANGED <<source, changed, located, frames, row, pending, attempts, sequence, batch>>
BY DEF CloseResource, DestroyControl, DestroyCursor

\* What a batch does to the state of the cursor.
LEMMA BegunStates ==
  BeginBatch => /\ state' \in {state, "cancelled", "running"}
                /\ at' # "idle" => state = "ready"
                /\ state # "ready" => state' = state
BY DEF BeginBatch, Fail, Leave

LEMMA StepStates ==
  BatchStep => at # "idle" /\ state' \in {state, "ready", "cancelled", "done"}
BY DEF BatchStep, LocateTarget, EndFilling, YieldFull, ProjectRow, AppendRow, StopBatch,
     LoseBatch, ValidateParent, Complete, Yield, Leave, Fail

LEMMA HeldStep ==
  ASSUME CursorShaped, SessionShaped, Held, [Next]_vars
  PROVE  Held'
<1> USE DEF sessionVars, cursorVars
<1>1. CASE MakePlan
  BY <1>1 DEF MakePlan, Held
<1>2. CASE SetUp
  BY <1>2 DEF SetUp, OpenCursor, Held, NoJob, CursorShaped
<1>3. CASE FailSetUp
  BY <1>3 DEF FailSetUp, DestroyCursor, End, Held, NoJob
<1>4. CASE AskBatch
  <2>1. at = "idle"
    BY <1>4 DEF AskBatch, Held
  <2>2. QED
    BY <1>4, <2>1, Asked DEF AskBatch, Held
<1>5. CASE ReserveDemand
  <2>1. control # "none" /\ job.code = "none" /\ at = "idle"
    BY <1>5 DEF ReserveDemand, Held, NoJob
  <2>2. QED
    BY <1>5, <2>1, ReservedFields DEF ReserveDemand, Held
<1>6. CASE RunBatch
  <2>1. /\ UNCHANGED <<demand, next, control, driver, conts>> /\ control # "none"
        /\ job.at = "reserved" /\ job'.at = "reserved" /\ job'.number = job.number
        /\ job'.code = "begun"
    BY <1>6, Begun DEF RunBatch, Held, NoJob
  <2>2. CASE BeginBatch
    <3>1. /\ state' \in {state, "cancelled", "running"}
          /\ at' # "idle" => state = "ready"
          /\ state # "ready" => state' = state
      BY <2>2, BegunStates
    <3>2. at' # "idle" => control' = "live"
      BY <2>1, <3>1 DEF Held, SessionShaped
    <3>3. control' = "live" => state' \in {"ready", "running", "done", "cancelled"}
      BY <2>1, <3>1 DEF Held
    <3>4. control' = "freed" => state' = "closed"
      BY <2>1, <3>1 DEF Held
    <3>5. QED
      BY <2>1, <3>2, <3>3, <3>4 DEF Held
  <2>3. CASE BatchStep
    BY <2>1, <2>3, StepStates DEF Held
  <2>4. QED
    BY <1>6, Begun, <2>2, <2>3
<1>7. CASE FinishBatch
  <2>1. /\ UNCHANGED <<cursorVars, control, driver, conts>> /\ control # "none"
        /\ job.at = "reserved" /\ at = "idle" /\ job'.at = "answered"
    BY <1>7, Finished DEF FinishBatch, Held, NoJob
  <2>2. /\ control = "live" => demand' \in {"done", "ready", "cancelled"}
        /\ control = "freed" => demand' = "closed"
    BY <1>7, <2>1, Finished DEF Held, CompleteDemand, CancelDemand
  <2>3. QED
    BY <2>1, <2>2 DEF Held, SessionShaped
<1>8. ASSUME CloseResource, control # "none", UNCHANGED next,
             job' = job \/ (job.at = "answered" /\ job' = NoJob)
      PROVE  Held'
  BY <1>8, Closed DEF Held, NoJob
<1>9. ASSUME UNCHANGED <<cursorVars, control, demand, next>>, control # "none",
             job' = job \/ (job.at = "answered" /\ job' = NoJob)
      PROVE  Held'
  BY <1>9 DEF Held, NoJob
<1>10. CASE Take
  <2>1. control # "none"
    BY <1>10 DEF Take, Held, NoJob
  <2>2. QED
    BY <1>8, <1>9, <1>10, <2>1 DEF Take
<1>11. CASE Feed \/ Finish
  <2>1. control # "none"
    BY <1>11 DEF Feed, Finish, Held, Idle, Driving, Start
  <2>2. QED
    BY <1>8, <1>9, <1>11, <2>1 DEF Feed, Finish
<1>12. ASSUME NEW c \in conts, Resume(c) \/ HaltElsewhere(c)
       PROVE  Held'
  <2>1. control # "none"
    BY DEF Held
  <2>2. QED
    BY <1>8, <1>9, <1>12, <2>1 DEF Resume, HaltElsewhere
<1>13. CASE Forget
  BY <1>9, <1>13 DEF Forget
<1>14. CASE Collect
  BY <1>8, <1>14 DEF Collect, CloseResource
<1>15. CASE OpenFile \/ Write
  BY <1>15 DEF OpenFile, Write, MapInput, ChangeFile, Held
<1>16. CASE Over \/ UNCHANGED vars
  BY <1>16 DEF Over, vars, Held
<1>17. QED
  BY <1>1, <1>2, <1>3, <1>4, <1>5, <1>6, <1>7, <1>10, <1>11, <1>12, <1>13,
     <1>14, <1>15, <1>16 DEF Next, Worker, Owner
-----------------------------------------------------------------------------
(* Where the reader is, and what it has validated. *)

\* Steps that leave the cursor and its demand alone.
LEMMA Untouched ==
  ASSUME Reading, Validated,
         UNCHANGED <<source, state, located, frames, row, pending, attempts, sequence, at, batch>>,
         UNCHANGED <<control, demand, next>>,
         job'.at = "reserved" => job' = job
  PROVE  Reading' /\ Validated'
<1>1. Reading'
  BY DEF Reading, Resting, Filling, Filled, Read
<1>2. Validated'
  BY DEF Validated, Filled, AtEnd, FailedLevels, LevelDone, SourceValid
<1>3. QED
  BY <1>1, <1>2

\* Steps after which nobody reads.
LEMMA Unread ==
  ASSUME Reading, Validated, at' = "idle", control' # "live",
         UNCHANGED <<source, located, frames, row, pending, attempts, sequence>>
  PROVE  Reading' /\ Validated'
<1>1. Reading'
  BY DEF Reading, Resting, Filling, Filled, Read
<1>2. Validated'
  BY DEF Validated, Filled, AtEnd, FailedLevels, LevelDone, SourceValid
<1>3. QED
  BY <1>1, <1>2

LEMMA ReadByBegin ==
  ASSUME CursorShaped, SessionShaped, Held, Reading, Validated, RunBatch, BeginBatch
  PROVE  Reading' /\ Validated'
<1>1. /\ UNCHANGED <<source, located, frames, row, pending, attempts, sequence>>
      /\ UNCHANGED <<control, demand, next>>
      /\ job.at = "reserved" /\ job.code = "none" /\ job'.at = "reserved" /\ job'.code = "begun"
      /\ at = "idle"
  BY Begun, StepStates DEF RunBatch, BeginBatch
<1>2. CASE control # "live"
  <2>1. at' = "idle"
    BY <1>1, <1>2, BegunStates DEF Held, SessionShaped, NoJob
  <2>2. QED
    BY <1>1, <1>2, <2>1, Unread
<1>3. CASE control = "live"
  <2>1. Resting /\ state = "ready" /\ demand = "running"
    BY <1>1, <1>3 DEF Resting, Reading, Held
  <2>2. ~Resting'
    BY <1>1, <2>1 DEF Resting
  <2>3. \A c \in Codes : Refuse(c) => batch'.code = c
    BY Refused
  <2>4. CASE at' = "idle" /\ batch'.code # "ok"
    <3>1. ~Filled' /\ ~Filling'
      BY <2>4 DEF Filled, Filling
    <3>2. QED
      BY <1>1, <2>1, <2>2, <2>4, <3>1
         DEF Reading, Validated, AtEnd, FailedLevels, LevelDone, SourceValid, Read
  <2>5. CASE /\ batch' = Cleared /\ at' = (IF located THEN "fill" ELSE "locate")
    <3>1. ~Filled' /\ Filling' /\ ~batch'.done
      BY <2>5, ClearedFields DEF Filled, Filling
    <3>2. Reading'
      BY <1>1, <2>1, <2>2, <2>5, <3>1 DEF Reading, Read
    <3>3. Validated'
      BY <1>1, <2>5, <3>1 DEF Validated, AtEnd, FailedLevels, LevelDone, SourceValid
    <3>4. QED
      BY <3>2, <3>3
  <2>6. QED
    BY <1>1, <2>1, <2>3, <2>4, <2>5 DEF BeginBatch, Fail, Leave, Codes
<1>4. QED
  BY <1>2, <1>3

LEMMA ReadByStep ==
  ASSUME CursorShaped, SessionShaped, Held, Reading, Validated, RunBatch, BatchStep
  PROVE  Reading' /\ Validated'
<1>1. /\ UNCHANGED <<control, demand, next>> /\ job'.at = "reserved" /\ job'.code = "begun"
      /\ control = "live" /\ demand = "running" /\ at # "idle" /\ source' = source
  BY Begun, StepStates DEF RunBatch, Held, BatchStep, LocateTarget, EndFilling, YieldFull,
       ProjectRow, AppendRow, StopBatch, LoseBatch, ValidateParent, Complete, Yield
<1>2. Filling /\ ~Resting'
  BY <1>1 DEF Filling, Resting
<1>3. /\ attempts = row + Len(pending) /\ Read(attempts) /\ sequence = next /\ ~batch.done
      /\ attempts <= Len(source.rows) /\ attempts \in {row, row + 1}
      /\ at \in {"fill", "complete"} => located
      /\ at = "fill" => frames = source.levels
      /\ at = "locate" => ~located /\ frames = <<>>
      /\ Len(frames) <= Len(source.levels)
  BY <1>2 DEF Reading
<1>4. row \in Nat /\ row <= Len(source.rows) /\ Len(source.rows) \in Nat
      /\ pending \in {<<>>, <<row>>} /\ Len(<<>>) = 0 /\ Len(<<row>>) = 1
  BY SourceTyped DEF CursorShaped
<1>5. \A c \in Codes : Fail(c) => at' = "idle" /\ batch'.code = c
  BY Refused DEF Fail, Leave
\* A batch that fails says nothing of the reader.
<1>6. ASSUME at' = "idle", batch'.code # "ok",
             attempts' \in {row', row' + 1}, attempts' <= Len(source.rows),
             Len(frames') <= Len(source.levels), located' => FailedLevels = {}
      PROVE  Reading' /\ Validated'
  <2>1. ~Filled' /\ ~Filling'
    BY <1>6 DEF Filled, Filling
  <2>2. Reading'
    BY <1>1, <1>2, <1>6, <2>1 DEF Reading
  <2>3. Validated'
    BY <1>1, <1>6, <2>1 DEF Validated, FailedLevels
  <2>4. QED
    BY <2>2, <2>3
<1>7. ASSUME NEW c \in Codes, Fail(c), c # "ok", UNCHANGED <<located, frames, row, attempts>>
      PROVE  Reading' /\ Validated'
  BY <1>3, <1>5, <1>6, <1>7 DEF Validated
<1>8. CASE LocateTarget
  <2>1. CASE at' = "fill"
    <3>1. /\ FailedLevels = {} /\ located' /\ frames' = frames \o source.levels
          /\ UNCHANGED <<row, pending, attempts, sequence, batch>>
      BY <1>8, <2>1 DEF LocateTarget, Leave
    <3>2. frames' = source.levels
      BY <1>3, <1>8, <3>1, SourceTyped, ConcatEmptySeq DEF LocateTarget
    <3>3. ~Filled' /\ Filling'
      BY <2>1 DEF Filled, Filling
    <3>4. Reading'
      BY <1>1, <1>2, <1>3, <2>1, <3>1, <3>2, <3>3, SourceTyped DEF Reading, Read
    <3>5. Validated'
      BY <1>1, <2>1, <3>1, <3>3 DEF Validated, FailedLevels
    <3>6. QED
      BY <3>4, <3>5
  <2>2. CASE at' # "fill"
    <3>1. /\ at' = "idle" /\ UNCHANGED <<row, pending, attempts, located>>
          /\ \/ Refuse("incorrect_type") /\ frames' = frames \o source.levels
             \/ \E k \in FailedLevels : /\ frames' = frames \o SubSeq(source.levels, 1, k - 1)
                                        /\ Refuse(SegmentStatus(source.levels[k]))
      BY <1>8, <2>2 DEF LocateTarget, Leave
    <3>2. \A c \in Codes : Refuse(c) => batch'.code = c
      BY Refused
    <3>3. \A l : SegmentStatus(l) \in Codes
      BY DEF SegmentStatus, Codes
    <3>4. batch'.code # "ok"
      BY <3>1, <3>2, <3>3 DEF FailedLevels, Codes
    <3>5. frames = <<>>
      BY <1>3, <1>8 DEF LocateTarget
    <3>6. Len(frames') <= Len(source.levels)
      <4>1. CASE frames' = frames \o source.levels
        BY <3>5, <4>1, SourceTyped, ConcatEmptySeq
      <4>2. ASSUME NEW k \in FailedLevels, frames' = frames \o SubSeq(source.levels, 1, k - 1)
            PROVE  Len(frames') <= Len(source.levels)
        <5>1. k \in 1..Len(source.levels)
          BY SourceTyped DEF FailedLevels
        <5>2. /\ SubSeq(source.levels, 1, k - 1) \in Seq(Levels)
              /\ Len(SubSeq(source.levels, 1, k - 1)) <= Len(source.levels)
          BY <5>1, SourceTyped, SubSeqProperties
        <5>3. QED
          BY <3>5, <4>2, <5>2, ConcatEmptySeq
      <4>3. QED
        BY <3>1, <4>1, <4>2
    <3>7. QED
      BY <1>3, <1>6, <3>1, <3>4, <3>6 DEF Validated
  <2>3. QED
    BY <2>1, <2>2
<1>9. CASE EndFilling
  <2>1. /\ at = "fill" /\ pending = <<>> /\ AtEnd /\ at' = "complete"
        /\ UNCHANGED <<located, frames, row, pending, attempts, sequence, batch>>
    BY <1>9 DEF EndFilling
  <2>2. ~Filled' /\ Filling'
    BY <2>1 DEF Filled, Filling
  <2>3. Reading'
    BY <1>1, <1>2, <1>3, <2>1, <2>2 DEF Reading, Read
  <2>4. \A k \in Len(frames) + 1 .. Len(source.levels) : LevelDone(k)
    BY <1>3, <2>1, SourceTyped
  <2>5. Validated'
    BY <1>1, <1>3, <2>1, <2>2, <2>4 DEF Validated, FailedLevels, AtEnd, LevelDone
  <2>6. QED
    BY <2>3, <2>5
<1>10. ASSUME Yield, at = "fill"
       PROVE  Reading' /\ Validated'
  <2>1. /\ at' = "idle" /\ state' = "ready" /\ sequence' = sequence + 1
        /\ UNCHANGED <<located, frames, row, pending, attempts, batch>>
    BY <1>10 DEF Yield, Leave
  <2>2. ~Filling'
    BY <2>1 DEF Filling
  <2>3. Reading'
    BY <1>1, <1>2, <1>3, <1>10, <2>1, <2>2 DEF Reading, Read
  <2>4. Validated'
    BY <1>1, <1>3, <2>1 DEF Validated, FailedLevels, Filled
  <2>5. QED
    BY <2>3, <2>4
<1>11. CASE YieldFull
  BY <1>10, <1>11 DEF YieldFull
<1>12. CASE ProjectRow
  <2>1. /\ at = "fill" /\ pending = <<>> /\ row < Len(source.rows) /\ attempts' = attempts + 1
        /\ UNCHANGED <<located, frames, row, sequence>>
    BY <1>4, <1>12 DEF ProjectRow, AtEnd
  <2>2. attempts = row /\ attempts' = row + 1
    BY <1>3, <1>4, <2>1
  <2>3. CASE source.rows[row + 1] = 0
    BY <1>3, <1>4, <1>5, <1>6, <1>12, <2>1, <2>2, <2>3 DEF ProjectRow, Validated, Codes
  <2>4. CASE source.rows[row + 1] # 0
    <3>1. pending' = <<row>> /\ UNCHANGED <<state, at, batch>>
      BY <1>12, <2>4 DEF ProjectRow
    <3>2. ~Filled' /\ Filling'
      BY <2>1, <3>1 DEF Filled, Filling
    <3>3. Read(row + 1)
      BY <1>3, <1>4, <2>2, <2>4 DEF Read
    <3>4. Reading'
      BY <1>1, <1>2, <1>3, <1>4, <2>1, <2>2, <3>1, <3>2, <3>3 DEF Reading, Read
    <3>5. Validated'
      BY <1>1, <2>1, <3>1, <3>2 DEF Validated, FailedLevels
    <3>6. QED
      BY <3>4, <3>5
  <2>5. QED
    BY <2>3, <2>4
<1>13. CASE AppendRow
  <2>1. at = "fill" /\ pending = <<row>>
    BY <1>4, <1>13 DEF AppendRow
  <2>2. CASE /\ batch' = [batch EXCEPT !.rows = @ \o pending, !.bytes = @ + source.rows[row + 1]]
             /\ row' = row + 1 /\ pending' = <<>>
             /\ UNCHANGED <<state, at, located, frames, attempts, sequence>>
    <3>1. batch \in Batches /\ row < Len(source.rows)
      BY <2>1 DEF CursorShaped
    <3>2. source.rows[row + 1] \in Int
      BY <1>4, <3>1, SourceTyped
    <3>3. batch'.done = batch.done
      <4> DEFINE n == source.rows[row + 1]
      <4>1. batch' = [batch EXCEPT !.rows = @ \o <<row>>, !.bytes = @ + n]
        BY <2>1, <2>2
      <4> HIDE DEF n
      <4>2. n \in Int
        BY <3>2 DEF n
      <4>3. QED
        BY <1>4, <3>1, <4>1, <4>2, BatchGrown
    <3>4. ~Filled' /\ Filling'
      BY <2>1, <2>2 DEF Filled, Filling
    <3>5. attempts = row + 1 /\ attempts' = row' + Len(pending') /\ Read(attempts)
      <4>1. Len(pending) = 1 /\ Len(pending') = 0
        BY <2>1, <2>2
      <4>2. attempts = row + 1 /\ row' = row + 1 /\ attempts' = attempts
        BY <1>3, <1>4, <2>2, <4>1
      <4>3. QED
        BY <1>3, <1>4, <4>1, <4>2
    <3>6. Reading'
      BY <1>1, <1>2, <1>3, <1>4, <2>1, <2>2, <3>3, <3>4, <3>5 DEF Reading, Read
    <3>7. Validated'
      BY <1>1, <2>1, <2>2, <3>4 DEF Validated, FailedLevels
    <3>8. QED
      BY <3>6, <3>7
  <2>3. CASE Fail("batch_too_large") /\ UNCHANGED <<located, frames, row, attempts>>
    BY <1>7, <2>3 DEF Codes
  <2>4. CASE Yield
    BY <1>10, <2>1, <2>4
  <2>5. QED
    BY <1>13, <2>2, <2>3, <2>4 DEF AppendRow
<1>14. CASE StopBatch \/ LoseBatch
  BY <1>7, <1>14 DEF StopBatch, LoseBatch, Codes
<1>15. CASE ValidateParent
  <2>1. /\ at = "complete" /\ frames # <<>> /\ AtEnd /\ pending = <<>>
        /\ UNCHANGED <<located, row, pending, attempts, sequence>>
    BY <1>15 DEF ValidateParent, Validated
  <2>2. CASE FALSE \in Range(Last(frames).after)
    BY <1>7, <1>15, <2>2 DEF ValidateParent, Codes
  <2>3. CASE FALSE \notin Range(Last(frames).after)
    <3>1. frames' = Front(frames) /\ UNCHANGED <<state, at, batch>>
      BY <1>15, <2>3 DEF ValidateParent, Remaining
    <3>2. Len(frames) \in Nat \ {0} /\ frames \in Seq(Levels) /\ DOMAIN frames = 1..Len(frames)
      BY <2>1, EmptySeq, LenProperties DEF CursorShaped
    <3>3. /\ Len(frames') = Len(frames) - 1
          /\ \A k \in 1..Len(frames) - 1 : frames'[k] = frames[k]
          /\ DOMAIN frames' = 1..Len(frames) - 1
      BY <3>1, <3>2, SubSeqProperties DEF Front
    <3>4. ~Filled' /\ Filling'
      BY <2>1, <3>1 DEF Filled, Filling
    <3>5. Reading'
      BY <1>1, <1>2, <1>3, <2>1, <3>1, <3>2, <3>3, <3>4, SourceTyped DEF Reading, Read
    <3>6. Last(frames) = source.levels[Len(frames)]
      BY <2>1, <3>2 DEF Validated, Last
    <3>7. \A k \in Len(frames') + 1 .. Len(source.levels) : LevelDone(k)
      <4>1. \A k \in Len(frames) + 1 .. Len(source.levels) : LevelDone(k)
        BY <2>1 DEF Validated
      <4>2. LevelDone(Len(frames))
        BY <2>3, <3>6 DEF LevelDone
      <4>3. Len(frames') + 1 = Len(frames)
        BY <3>2, <3>3
      <4>4. \A k \in Len(frames) .. Len(source.levels) :
              k = Len(frames) \/ k \in Len(frames) + 1 .. Len(source.levels)
        <5>1. Len(frames) \in Nat /\ Len(source.levels) \in Nat
          BY <3>2, SourceTyped
        <5>2. \A m, n \in Nat : \A k \in m..n : k = m \/ k \in m + 1 .. n
          OBVIOUS
        <5>3. QED
          BY <5>1, <5>2
      <4>5. QED
        BY <4>1, <4>2, <4>3, <4>4
    <3>8. \A k \in DOMAIN frames' : frames'[k] = source.levels[k]
      BY <2>1, <3>2, <3>3 DEF Validated
    <3>9. Validated'
      BY <1>1, <2>1, <3>1, <3>4, <3>7, <3>8 DEF Validated, FailedLevels, AtEnd, LevelDone
    <3>10. QED
      BY <3>5, <3>9
  <2>4. QED
    BY <2>2, <2>3
<1>16. CASE Complete
  <2>1. /\ at = "complete" /\ frames = <<>> /\ AtEnd /\ pending = <<>>
        /\ UNCHANGED <<located, frames, row, pending, attempts>>
    BY <1>16 DEF Complete, Validated
  <2>2. CASE CompletionStatus = "ok"
    <3>1. /\ state' = "done" /\ at' = "idle" /\ sequence' = sequence + 1
          /\ batch' = [batch EXCEPT !.done = TRUE]
      BY <1>16, <2>2 DEF Complete, Leave
    <3>2. batch'.done = TRUE
      BY <3>1, BatchDone DEF CursorShaped
    <3>3. ~Filling'
      BY <3>1 DEF Filling
    <3>4. Reading'
      BY <1>1, <1>2, <1>3, <2>1, <3>1, <3>2, <3>3 DEF Reading, Read
    <3>5. SourceValid
      <4>1. source.end
        BY <2>2 DEF CompletionStatus
      <4>2. 0 \notin Range(source.rows)
        BY <1>3, <1>4, <2>1, SourceTyped DEF Read, AtEnd, Range
      <4>3. located /\ FailedLevels = {}
        BY <1>3, <2>1 DEF Validated
      <4>4. \A k \in DOMAIN source.levels :
              source.levels[k].found /\ FALSE \notin Range(source.levels[k].before)
        BY <4>3 DEF FailedLevels, SegmentStatus
      <4>5. \A k \in DOMAIN source.levels : FALSE \notin Range(source.levels[k].after)
        <5>1. Len(frames) + 1 = 1 /\ DOMAIN source.levels = 1..Len(source.levels)
          BY <1>4, <2>1, SourceTyped
        <5>2. QED
          BY <2>1, <5>1 DEF Validated, LevelDone
      <4>6. QED
        BY <4>1, <4>2, <4>4, <4>5 DEF SourceValid
    <3>6. Validated'
      BY <1>1, <1>3, <2>1, <3>1, <3>5 DEF Validated, FailedLevels, AtEnd, SourceValid
    <3>7. QED
      BY <3>4, <3>6
  <2>3. CASE CompletionStatus # "ok"
    <3>1. CompletionStatus \in Codes
      BY DEF CompletionStatus, Codes
    <3>2. Fail(CompletionStatus)
      BY <1>16, <2>3 DEF Complete
    <3>3. QED
      BY <1>7, <2>1, <2>3, <3>1, <3>2
  <2>4. QED
    BY <2>2, <2>3
<1>17. QED
  BY <1>8, <1>9, <1>11, <1>12, <1>13, <1>14, <1>15, <1>16 DEF BatchStep

LEMMA ReadStep ==
  ASSUME CursorShaped, SessionShaped, Held, Reading, Validated, [Next]_vars
  PROVE  Reading' /\ Validated'
<1> USE DEF sessionVars, cursorVars
<1>1. CASE MakePlan
  BY <1>1, Untouched DEF MakePlan
<1>2. CASE SetUp
  <2>1. /\ control = "none" /\ control' = "live" /\ demand' = "ready" /\ state' = "ready"
        /\ located' = IsFile /\ job' = job /\ job.at = "none" /\ at = "idle"
        /\ next = 0 /\ row = 0 /\ attempts = 0 /\ sequence = 0 /\ pending = <<>> /\ frames = <<>>
        /\ UNCHANGED <<source, frames, row, pending, attempts, sequence, at, batch, next>>
    BY <1>2 DEF SetUp, OpenCursor, CreateAllowed, Held, NoJob, CursorShaped
  <2>2. ~Filled' /\ ~Filling'
    BY <2>1 DEF Filled, Filling
  <2>3. IsFile => source.levels = <<>>
    BY SourcesAssumption DEF IsFile, CursorShaped
  <2>4. Reading'
    BY <2>1, <2>2, <2>3, SourceTyped DEF Reading, Read
  <2>5. IsFile => FailedLevels = {}
    BY <2>3 DEF FailedLevels
  <2>6. Validated'
    BY <2>1, <2>2, <2>5 DEF Validated, FailedLevels
  <2>7. QED
    BY <2>4, <2>6
<1>3. CASE FailSetUp
  BY <1>3, Unread DEF FailSetUp, DestroyCursor
<1>4. CASE AskBatch
  BY <1>4, Asked, Untouched DEF AskBatch
<1>5. CASE ReserveDemand
  <2>1. CASE demand' = demand /\ job'.at = "answered"
    BY <1>5, <2>1, Untouched DEF ReserveDemand
  <2>2. CASE /\ control = "live" /\ demand = "ready" /\ demand' = "running"
             /\ job'.at = "reserved" /\ job'.code = job.code
    <3>1. job.code = "none" /\ at = "idle"
      BY <1>5 DEF ReserveDemand, Held
    <3>2. Resting /\ ~Filled' /\ ~Filling'
      BY <1>5, <2>2, <3>1 DEF ReserveDemand, Resting, Filled, Filling
    <3>3. Reading'
      BY <1>5, <2>2, <3>1, <3>2 DEF ReserveDemand, Reading, Read
    <3>4. Validated'
      BY <1>5, <3>2 DEF ReserveDemand, Validated, AtEnd, FailedLevels, LevelDone, SourceValid
    <3>5. QED
      BY <3>3, <3>4
  <2>3. QED
    BY <1>5, <2>1, <2>2, ReservedFields
<1>6. CASE RunBatch
  BY <1>6, ReadByBegin, ReadByStep, Begun
<1>7. CASE FinishBatch
  <2>1. /\ UNCHANGED <<cursorVars, control>> /\ control # "none" /\ at = "idle"
        /\ job.at = "reserved" /\ job'.at = "answered"
    BY <1>7, Finished DEF FinishBatch, Held, NoJob
  <2>2. ~Filled' /\ ~Filling'
    BY <2>1 DEF Filled, Filling
  <2>3. CASE control = "live" /\ Filled /\ CompleteDemand
    <3>1. next' = next + 1 /\ demand' = (IF batch.done THEN "done" ELSE "ready")
      BY <2>1, <2>3 DEF CompleteDemand, Held
    <3>2. Reading'
      BY <2>1, <2>2, <2>3, <3>1 DEF Reading, Read, Resting
    <3>3. Validated'
      BY <2>1, <2>2 DEF Validated, AtEnd, FailedLevels, LevelDone, SourceValid
    <3>4. QED
      BY <3>2, <3>3
  <2>4. CASE control = "live" /\ CancelDemand
    <3>1. demand' = "cancelled" /\ ~Resting'
      BY <2>1, <2>4 DEF CancelDemand, Held, Resting
    <3>2. Reading'
      BY <2>1, <2>2, <3>1 DEF Reading, Read
    <3>3. Validated'
      BY <2>1, <2>2 DEF Validated, AtEnd, FailedLevels, LevelDone, SourceValid
    <3>4. QED
      BY <3>2, <3>3
  <2>5. CASE control # "live"
    BY <2>1, <2>5, Unread
  <2>6. QED
    BY <1>7, <2>1, <2>3, <2>4, <2>5, Finished DEF Filled
<1>8. ASSUME CloseResource, UNCHANGED next, job'.at = "reserved" => job' = job
      PROVE  Reading' /\ Validated'
  BY <1>8, Closed, Untouched, Unread
<1>9. CASE Take
  <2>1. job'.at = "none"
    BY <1>9 DEF Take, NoJob
  <2>2. QED
    BY <1>8, <1>9, <2>1, Untouched DEF Take
<1>10. CASE Feed \/ Finish
  BY <1>8, <1>10, Untouched DEF Feed, Finish
<1>11. ASSUME NEW c \in conts, Resume(c) \/ HaltElsewhere(c)
       PROVE  Reading' /\ Validated'
  BY <1>8, <1>11, Untouched DEF Resume, HaltElsewhere
<1>12. CASE Forget \/ Write \/ Over \/ UNCHANGED vars
  BY <1>12, Untouched DEF Forget, Write, ChangeFile, Over, vars
<1>13. CASE Collect
  BY <1>8, <1>13 DEF Collect, CloseResource
<1>14. CASE OpenFile
  <2>1. control = "none" /\ at = "idle"
    BY <1>14 DEF OpenFile, MapInput, Held, CursorShaped, SessionShaped
  <2>2. QED
    BY <1>14, <2>1, Unread DEF OpenFile, MapInput
<1>15. QED
  BY <1>1, <1>2, <1>3, <1>4, <1>5, <1>6, <1>7, <1>9, <1>10, <1>11, <1>12, <1>13, <1>14
     DEF Next, Worker, Owner
-----------------------------------------------------------------------------
(* The order of the rows. *)

LEMMA BlockIsSeq ==
  ASSUME NEW b \in Nat, NEW k \in Nat
  PROVE  Block(b, k) \in Seq(Nat) /\ Len(Block(b, k)) = k /\ \A i \in 1..k : Block(b, k)[i] = b + i - 1
<1>1. \A i \in 1..k : b + i - 1 \in Nat
  OBVIOUS
<1>2. Block(b, k) \in [1..k -> Nat]
  BY <1>1 DEF Block
<1>3. QED
  BY <1>2 DEF Block

LEMMA BlockIs ==
  ASSUME NEW b \in Nat, NEW k \in Nat, NEW s \in Seq(Nat), Len(s) = k,
         \A i \in 1..k : s[i] = b + i - 1
  PROVE  s = Block(b, k)
<1> DEFINE t == Block(b, k)
<1>1. t \in Seq(Nat) /\ Len(t) = Len(s) /\ \A i \in 1..Len(s) : s[i] = t[i]
  BY BlockIsSeq
<1> HIDE DEF t
<1>2. s = t
  BY <1>1, SeqEqual
<1>3. QED
  BY <1>2 DEF t

LEMMA EmptyBlock == ASSUME NEW b \in Nat PROVE Block(b, 0) = <<>>
BY DEF Block

LEMMA BlockExtended ==
  ASSUME NEW b \in Nat, NEW k \in Nat
  PROVE  Block(b, k) \o <<b + k>> = Block(b, k + 1)
<1>1. /\ Block(b, k) \in Seq(Nat) /\ Len(Block(b, k)) = k
      /\ Block(b, k + 1) \in Seq(Nat) /\ Len(Block(b, k + 1)) = k + 1
      /\ <<b + k>> \in Seq(Nat) /\ Len(<<b + k>>) = 1
  <2>1. k + 1 \in Nat /\ b + k \in Nat
    OBVIOUS
  <2>2. <<b + k>> \in Seq(Nat) /\ Len(<<b + k>>) = 1
    BY <2>1
  <2>3. QED
    BY <2>1, <2>2, BlockIsSeq
<1>2. /\ Block(b, k) \o <<b + k>> \in Seq(Nat) /\ Len(Block(b, k) \o <<b + k>>) = k + 1
      /\ \A i \in 1..k + 1 : (Block(b, k) \o <<b + k>>)[i] = IF i <= k THEN Block(b, k)[i] ELSE <<b + k>>[i - k]
  BY <1>1, ConcatProperties
<1>3. \A i \in 1..k + 1 : (Block(b, k) \o <<b + k>>)[i] = b + i - 1
  <2> SUFFICES ASSUME NEW i \in 1..k + 1 PROVE (Block(b, k) \o <<b + k>>)[i] = b + i - 1
    OBVIOUS
  <2>0. i <= k \/ i = k + 1
    OBVIOUS
  <2>1. CASE i <= k
    BY <1>2, <2>1, BlockIsSeq
  <2>2. CASE i = k + 1
    BY <1>2, <2>2
  <2>3. QED
    BY <2>0, <2>1, <2>2
<1>4. k + 1 \in Nat
  OBVIOUS
<1>5. QED
  BY <1>2, <1>3, <1>4, BlockIs

LEMMA BlocksJoined ==
  ASSUME NEW n \in Nat, NEW m \in Nat
  PROVE  Block(0, n) \o Block(n, m) = Block(0, n + m)
<1>1. /\ Block(0, n) \in Seq(Nat) /\ Len(Block(0, n)) = n
      /\ Block(n, m) \in Seq(Nat) /\ Len(Block(n, m)) = m
      /\ Block(0, n + m) \in Seq(Nat) /\ Len(Block(0, n + m)) = n + m
  <2>1. n + m \in Nat /\ 0 \in Nat
    OBVIOUS
  <2>2. QED
    BY <2>1, BlockIsSeq
<1>2. /\ Block(0, n) \o Block(n, m) \in Seq(Nat) /\ Len(Block(0, n) \o Block(n, m)) = n + m
      /\ \A i \in 1..n + m : (Block(0, n) \o Block(n, m))[i]
                               = IF i <= n THEN Block(0, n)[i] ELSE Block(n, m)[i - n]
  <2> DEFINE s == Block(0, n)
             t == Block(n, m)
  <2>1. s \in Seq(Nat) /\ t \in Seq(Nat) /\ Len(s) = n /\ Len(t) = m
    BY <1>1
  <2> HIDE DEF s, t
  <2>2. /\ s \o t \in Seq(Nat) /\ Len(s \o t) = n + m
        /\ \A i \in 1..n + m : (s \o t)[i] = IF i <= n THEN s[i] ELSE t[i - n]
    BY <2>1, ConcatProperties
  <2>3. QED
    BY <2>2 DEF s, t
<1>3. \A i \in 1..n + m : (Block(0, n) \o Block(n, m))[i] = i - 1
  <2> SUFFICES ASSUME NEW i \in 1..n + m PROVE (Block(0, n) \o Block(n, m))[i] = i - 1
    OBVIOUS
  <2>0. i <= n \/ i > n
    OBVIOUS
  <2>1. CASE i <= n
    BY <1>2, <2>1, BlockIsSeq
  <2>2. CASE i > n
    <3>1. i - n \in 1..m
      BY <2>2
    <3>2. Block(n, m)[i - n] = n + (i - n) - 1
      BY <3>1, BlockIsSeq
    <3>3. QED
      BY <1>2, <2>2, <3>2
  <2>3. QED
    BY <2>0, <2>1, <2>2
<1> DEFINE u == Block(0, n) \o Block(n, m)
           k == n + m
<1>4. k \in Nat /\ 0 \in Nat /\ \A i \in 1..k : i - 1 = 0 + i - 1
  OBVIOUS
<1>5. u \in Seq(Nat) /\ Len(u) = k /\ \A i \in 1..k : u[i] = 0 + i - 1
  BY <1>2, <1>3, <1>4
<1> HIDE DEF u, k
<1>6. u = Block(0, k)
  BY <1>4, <1>5, BlockIs
<1>7. QED
  BY <1>6 DEF u, k

\* A row that moves from what a reduction holds to what it gave.
LEMMA RowMoved ==
  ASSUME NEW g \in Seq(Nat), NEW r \in Seq(Nat), r # <<>>
  PROVE  /\ Append(g, Head(r)) \o Tail(r) = g \o r
         /\ Len(Append(g, Head(r))) + Len(Tail(r)) = Len(g) + Len(r)
<1>1. /\ Head(r) \in Nat /\ Tail(r) \in Seq(Nat) /\ Len(Tail(r)) = Len(r) - 1
      /\ \A i \in 1..Len(r) - 1 : Tail(r)[i] = r[i + 1]
      /\ Head(r) = r[1] /\ Len(r) \in Nat \ {0} /\ Len(g) \in Nat
  BY HeadTailProperties, EmptySeq
<1> DEFINE a == Append(g, Head(r))
<1>2. /\ a \in Seq(Nat) /\ Len(a) = Len(g) + 1
      /\ \A i \in 1..Len(g) : a[i] = g[i]
      /\ a[Len(g) + 1] = Head(r)
  BY <1>1, AppendProperties
<1> HIDE DEF a
<1>3. /\ a \o Tail(r) \in Seq(Nat) /\ Len(a \o Tail(r)) = Len(g) + Len(r)
      /\ \A i \in 1..Len(a) + Len(Tail(r)) :
           (a \o Tail(r))[i] = IF i <= Len(a) THEN a[i] ELSE Tail(r)[i - Len(a)]
  <2> DEFINE t == Tail(r)
  <2>1. t \in Seq(Nat) /\ Len(a) + Len(t) = Len(g) + Len(r)
    BY <1>1, <1>2
  <2> HIDE DEF t
  <2>2. /\ a \o t \in Seq(Nat) /\ Len(a \o t) = Len(a) + Len(t)
        /\ \A i \in 1..Len(a) + Len(t) :
             (a \o t)[i] = IF i <= Len(a) THEN a[i] ELSE t[i - Len(a)]
    <3>1. a \in Seq(Nat) /\ t \in Seq(Nat)
      BY <1>2, <2>1
    <3>2. QED
      BY <3>1, ConcatProperties
  <2>3. QED
    BY <2>1, <2>2 DEF t
<1>4. /\ g \o r \in Seq(Nat) /\ Len(g \o r) = Len(g) + Len(r)
      /\ \A i \in 1..Len(g) + Len(r) : (g \o r)[i] = IF i <= Len(g) THEN g[i] ELSE r[i - Len(g)]
  BY ConcatProperties
<1>5. \A i \in 1..Len(g) + Len(r) : (a \o Tail(r))[i] = (g \o r)[i]
  <2> SUFFICES ASSUME NEW i \in 1..Len(g) + Len(r) PROVE (a \o Tail(r))[i] = (g \o r)[i]
    OBVIOUS
  <2>0. Len(a) + Len(Tail(r)) = Len(g) + Len(r)
    BY <1>1, <1>2
  <2>1. CASE i <= Len(g)
    BY <1>1, <1>2, <1>3, <1>4, <2>0, <2>1
  <2>2. CASE i = Len(g) + 1
    BY <1>1, <1>2, <1>3, <1>4, <2>0, <2>2
  <2>3. CASE i > Len(g) + 1
    <3>1. (a \o Tail(r))[i] = Tail(r)[i - Len(a)] /\ (g \o r)[i] = r[i - Len(g)]
      <4>1. i <= Len(a) <=> i <= Len(g) + 1
        BY <1>2
      <4>2. ~(i <= Len(a)) /\ ~(i <= Len(g))
        BY <1>1, <2>3, <4>1
      <4>3. QED
        BY <1>3, <1>4, <2>0, <4>2
    <3>2. i - Len(a) \in 1..Len(r) - 1 /\ (i - Len(a)) + 1 = i - Len(g)
      BY <1>1, <1>2, <2>3
    <3>3. QED
      BY <1>1, <3>1, <3>2
  <2>4. i <= Len(g) \/ i = Len(g) + 1 \/ i > Len(g) + 1
    <3>1. Len(g) \in Nat /\ Len(r) \in Nat
      BY <1>1
    <3>2. \A m, n \in Nat : \A j \in 1..m + n : j <= m \/ j = m + 1 \/ j > m + 1
      OBVIOUS
    <3>3. QED
      BY <3>1, <3>2
  <2>5. QED
    BY <2>1, <2>2, <2>3, <2>4
<1>6. QED
  <2> DEFINE u == a \o Tail(r)
             v == g \o r
  <2>1. /\ u \in Seq(Nat) /\ v \in Seq(Nat) /\ Len(u) = Len(v)
        /\ \A i \in 1..Len(u) : u[i] = v[i]
    BY <1>3, <1>4, <1>5
  <2> HIDE DEF u, v
  <2>2. u = v
    BY <2>1, SeqEqual
  <2>3. a \o Tail(r) = g \o r
    BY <2>2 DEF u, v
  <2>4. Len(a) + Len(Tail(r)) = Len(g) + Len(r)
    BY <1>1, <1>2
  <2>5. QED
    BY <2>3, <2>4 DEF a

\* What a step of a batch does to its rows.
LEMMA BatchRows ==
  ASSUME CursorShaped, BatchStep
  PROVE  \/ at' = "idle" /\ batch'.code # "ok"
         \/ batch'.rows = batch.rows /\ row' = row
         \/ batch'.rows = batch.rows \o <<row>> /\ row' = row + 1
<1>1. \A c \in Codes : Refuse(c) => batch'.code = c
  BY Refused
<1>2. \A c \in Codes : c # "ok" /\ Fail(c) => at' = "idle" /\ batch'.code # "ok"
  BY <1>1 DEF Fail, Leave
<1>3. CASE LocateTarget
  <2>1. \A l : SegmentStatus(l) \in Codes
    BY DEF SegmentStatus, Codes
  <2>2. \A k \in FailedLevels : Refuse(SegmentStatus(source.levels[k])) => batch'.code # "ok"
    BY <1>1, <2>1 DEF FailedLevels
  <2>3. Refuse("incorrect_type") => batch'.code # "ok"
    BY <1>1 DEF Codes
  <2>4. QED
    BY <1>3, <2>2, <2>3 DEF LocateTarget, Leave
<1>4. CASE EndFilling \/ YieldFull \/ Yield
  BY <1>4 DEF EndFilling, YieldFull, Yield
<1>5. CASE ProjectRow \/ StopBatch \/ LoseBatch \/ ValidateParent
  BY <1>2, <1>5 DEF ProjectRow, StopBatch, LoseBatch, ValidateParent, Codes
<1>6. CASE AppendRow
  <2>1. pending = <<row>> /\ row \in Nat /\ row < Len(source.rows)
    BY <1>6, SourceTyped DEF AppendRow, CursorShaped
  <2>2. CASE /\ batch' = [batch EXCEPT !.rows = @ \o pending, !.bytes = @ + source.rows[row + 1]]
             /\ row' = row + 1
    <3> DEFINE n == source.rows[row + 1]
    <3>1. batch' = [batch EXCEPT !.rows = @ \o <<row>>, !.bytes = @ + n]
      BY <2>1, <2>2
    <3>2. n \in Int /\ batch \in Batches
      BY <2>1, SourceTyped DEF CursorShaped
    <3> HIDE DEF n
    <3>3. batch'.rows = batch.rows \o <<row>>
      BY <2>1, <3>1, <3>2, BatchGrown
    <3>4. QED
      BY <2>2, <3>3
  <2>3. CASE Fail("batch_too_large") \/ Yield
    BY <1>2, <1>4, <2>3 DEF Codes
  <2>4. QED
    BY <1>6, <2>2, <2>3 DEF AppendRow
<1>7. CASE Complete
  <2>1. CASE CompletionStatus = "ok"
    BY <1>7, <2>1, BatchEnded DEF Complete, CursorShaped
  <2>2. CASE CompletionStatus # "ok"
    <3>1. CompletionStatus \in Codes
      BY DEF CompletionStatus, Codes
    <3>2. QED
      BY <1>2, <1>7, <2>2, <3>1 DEF Complete
  <2>3. QED
    BY <2>1, <2>2
<1>8. QED
  BY <1>3, <1>4, <1>5, <1>6, <1>7 DEF BatchStep

\* A reduction has what Ordered asks of it.
InOrder(r) ==
  /\ Given(r) = Block(0, Count(r)) /\ r.number <= next
  /\ r.done => Whole(Count(r))

LEMMA ReductionCounts ==
  ASSUME NEW r \in Reductions
  PROVE  /\ Count(r) \in Nat /\ Len(r.given) \in Nat /\ Len(r.rows) \in Nat
         /\ r.given \in Seq(Nat) /\ r.rows \in Seq(Nat) /\ r.number \in Nat
         /\ r.rows = <<>> => Given(r) = r.given /\ Count(r) = Len(r.given)
<1>1. r.given \in Seq(Nat) /\ r.rows \in Seq(Nat) /\ r.number \in Nat
  BY DEF Reductions
<1>2. Len(r.given) \in Nat /\ Len(r.rows) \in Nat
  BY <1>1
<1>3. r.rows = <<>> => Given(r) = r.given /\ Count(r) = Len(r.given)
  BY <1>1, <1>2 DEF Given, Count
<1>4. Count(r) \in Nat
  <2>1. \A m, n \in Nat : m + n \in Nat
    OBVIOUS
  <2>2. QED
    BY <1>2, <2>1 DEF Count
<1>5. QED
  BY <1>1, <1>2, <1>3, <1>4

LEMMA RsShaped ==
  ASSUME SessionShaped
  PROVE  /\ Rs \subseteq Reductions
         /\ Rs = conts \cup (IF driver = <<>> THEN {} ELSE {Driving})
BY DriverShaped DEF Rs, SessionShaped

LEMMA RsNext ==
  /\ driver' = <<>> => Rs' = conts'
  /\ \A r : driver' = <<r>> => Rs' = conts' \cup {r}
  /\ UNCHANGED <<driver, conts>> => Rs' = Rs
<1>1. Range(<<>>) = {} /\ \A r : Range(<<r>>) = {r}
  BY DEF Range
<1>2. QED
  BY <1>1 DEF Rs

\* A step of the owner, after which no job is left.
LEMMA OwnerStep ==
  ASSUME SessionShaped, Ordered, UNCHANGED <<source, row, next>>,
         job'.at = "none", at' = "idle", Resting' => Resting,
         \A r \in Rs' : r \in Rs \/ (InOrder(r) /\ (Resting /\ r.number = next => Count(r) = row)),
         \A e \in ended' : e \in ended \/ e.how # "done"
                                       \/ (e.given = Block(0, Len(source.rows)) /\ SourceValid)
  PROVE  Ordered'
<1>1. ~Filled' /\ ~Filling'
  BY DEF Filled, Filling
<1>2. \A r \in Rs' : InOrder(r) /\ (Resting /\ r.number = next => Count(r) = row)
  BY DEF Ordered, InOrder
<1>3. \A e \in ended' : e.how = "done" => e.given = Block(0, Len(source.rows)) /\ SourceValid
  BY DEF Ordered
<1>4. QED
  BY <1>1, <1>2, <1>3 DEF Ordered, InOrder, Whole, SourceValid, Given, Count, Block

\* A step that leaves the reductions and the rows alone.
LEMMA OrderKept ==
  ASSUME Ordered, UNCHANGED <<source, row, next, driver, conts, ended, control, demand, job>>,
         (Filling' \/ Filled') => /\ Filling \/ Filled
                                  /\ batch'.rows = batch.rows
  PROVE  Ordered'
<1>1. Rs' = Rs
  BY RsNext
<1>2. Resting' = Resting /\ Driving' = Driving /\ \A n : Whole(n)' = Whole(n)
  BY DEF Resting, Driving, Whole, SourceValid
<1>3. QED
  BY <1>1, <1>2 DEF Ordered, SourceValid, Given, Count, Block

\* The steps of the worker.
LEMMA OrderByBegin ==
  ASSUME CursorShaped, SessionShaped, Held, Reading, Validated, Ordered, RunBatch, BeginBatch
  PROVE  Ordered'
<1>1. /\ UNCHANGED <<source, row, control, demand, next, driver, conts, ended>>
      /\ job.at = "reserved" /\ job.code = "none" /\ job'.at = "reserved" /\ job'.code = "begun"
      /\ job'.number = job.number /\ at = "idle"
  BY Begun, StepStates DEF RunBatch, BeginBatch
<1>2. control = "live" /\ demand = "running" /\ Resting /\ state = "ready" /\ Rs' = Rs
  BY <1>1, RsNext DEF Ordered, Held, Resting, Reading
<1>3. ~Resting'
  BY <1>1, <1>2 DEF Resting
<1>4. CASE batch' = Cleared
  <2>1. batch'.rows = <<>> /\ Len(<<>>) = 0 /\ row \in Nat
    BY <1>4, ClearedFields, SourceTyped DEF CursorShaped
  <2>2. Block(row, 0) = <<>> /\ row - 0 = row
    BY <2>1, EmptyBlock
  <2>3. \A r \in Rs : r.number = next => Count(r) + 0 = row
    BY <1>2, <2>1, RsShaped, ReductionCounts DEF Ordered
  <2>4. /\ Len(batch'.rows) <= row
        /\ batch'.rows = Block(row - Len(batch'.rows), Len(batch'.rows))
        /\ \A r \in Rs : r.number = next => Count(r) + Len(batch'.rows) = row
    BY <2>1, <2>2, <2>3
  <2>5. QED
    BY <1>1, <1>2, <1>3, <2>4
       DEF Ordered, Whole, SourceValid, Given, Count, Block, Driving
<1>5. CASE at' = "idle" /\ batch'.code # "ok"
  <2>1. ~Filled' /\ ~Filling'
    BY <1>5 DEF Filled, Filling
  <2>2. QED
    BY <1>1, <1>2, <1>3, <2>1 DEF Ordered, Whole, SourceValid, Given, Count, Block, Driving
<1>6. QED
  <2>1. \A c \in Codes : Refuse(c) => batch'.code = c
    BY Refused
  <2>2. QED
    BY <1>1, <1>2, <1>4, <1>5, <2>1 DEF BeginBatch, Fail, Leave, Codes

LEMMA OrderByStep ==
  ASSUME CursorShaped, SessionShaped, Held, Reading, Validated, Ordered, RunBatch, BatchStep
  PROVE  Ordered'
<1>1. /\ UNCHANGED <<source, control, demand, next, driver, conts, ended>>
      /\ job'.at = "reserved" /\ job'.code = "begun" /\ job' = job /\ job.at = "reserved"
      /\ demand = "running" /\ Filling
  BY Begun, StepStates DEF RunBatch, Held, BatchStep, LocateTarget, EndFilling, YieldFull,
       ProjectRow, AppendRow, StopBatch, LoseBatch, ValidateParent, Complete, Yield, Filling
<1>2. ~Resting' /\ Rs' = Rs
  BY <1>1, RsNext DEF Resting
<1>3. CASE at' = "idle" /\ batch'.code # "ok"
  <2>1. ~Filled' /\ ~Filling'
    BY <1>3 DEF Filled, Filling
  <2>2. QED
    BY <1>1, <1>2, <2>1 DEF Ordered, Whole, SourceValid, Given, Count, Block, Driving
<1>4. CASE batch'.rows = batch.rows /\ row' = row
  BY <1>1, <1>2, <1>4 DEF Ordered, Whole, SourceValid, Given, Count, Block, Driving
<1>5. CASE batch'.rows = batch.rows \o <<row>> /\ row' = row + 1
  <2> DEFINE n == Len(batch.rows)
  <2>1. /\ row \in Nat /\ batch.rows \in Seq(Nat) /\ n \in Nat /\ n <= row
        /\ batch.rows = Block(row - n, n)
        /\ \A r \in Rs : r.number = next => Count(r) + n = row
    BY <1>1, SourceTyped DEF Ordered, CursorShaped, Batches
  <2>2. Len(batch'.rows) = n + 1
    BY <1>5, <2>1
  <2>3. batch'.rows = Block(row' - Len(batch'.rows), Len(batch'.rows))
    <3> DEFINE b == row - n
    <3>1. b \in Nat /\ b + n = row /\ row' - (n + 1) = b
      BY <1>5, <2>1
    <3>2. Block(b, n) \o <<b + n>> = Block(b, n + 1)
      BY <2>1, <3>1, BlockExtended
    <3>3. batch'.rows = Block(b, n + 1)
      BY <1>5, <2>1, <3>1, <3>2
    <3>4. QED
      BY <2>2, <3>1, <3>3
  <2>4. Len(batch'.rows) <= row'
    BY <1>5, <2>1, <2>2
  <2>5. \A r \in Rs : r.number = next => Count(r) + Len(batch'.rows) = row'
    <3>1. \A r \in Rs : Count(r) \in Nat
      BY RsShaped, ReductionCounts
    <3>2. \A r \in Rs : r.number = next => Count(r) + n = row
      BY <2>1
    <3>3. n \in Nat /\ row \in Nat
      BY <2>1
    <3> HIDE DEF n
    <3>4. \A r \in Rs : r.number = next => Count(r) + (n + 1) = row + 1
      BY <3>1, <3>2, <3>3
    <3>5. QED
      BY <1>5, <2>2, <3>4
  <2>6. QED
    BY <1>1, <1>2, <2>3, <2>4, <2>5
       DEF Ordered, Whole, SourceValid, Given, Count, Block, Driving
<1>6. QED
  BY <1>3, <1>4, <1>5, BatchRows

LEMMA OrderByFinish ==
  ASSUME CursorShaped, SessionShaped, Held, Reading, Validated, Ordered, FinishBatch
  PROVE  Ordered'
<1>1. /\ UNCHANGED <<cursorVars, control, driver, conts, ended>> /\ control = "live" /\ at = "idle"
      /\ job.at = "reserved" /\ job'.at = "answered" /\ job'.number = job.number
      /\ demand = "running" /\ job.number = next
  BY Finished DEF FinishBatch, Ordered, Held
<1>2. ~Filled' /\ ~Filling' /\ Rs' = Rs /\ source' = source /\ row' = row
  BY <1>1, RsNext DEF Filled, Filling, cursorVars
<1>3. CASE /\ job.code = "begun" /\ batch.code = "ok" /\ CompleteDemand
           /\ job'.code = "ok" /\ job'.rows = batch.rows /\ job'.done = batch.done
  <2> DEFINE n == Len(batch.rows)
  <2>1. Filled /\ next' = next + 1 /\ demand' = (IF batch.done THEN "done" ELSE "ready")
    BY <1>1, <1>3 DEF Filled, CompleteDemand
  <2>2. /\ n <= row /\ batch.rows = Block(row - n, n) /\ n \in Nat /\ row \in Nat
        /\ \A r \in Rs : r.number = next => Count(r) + n = row
    BY <2>1, SourceTyped DEF Ordered, CursorShaped, Batches
  <2>3. next \in Nat /\ \A r \in Rs : r.number \in Nat /\ r.number <= next
    BY RsShaped, ReductionCounts DEF Ordered, SessionShaped
  <2>4. \A r \in Rs : r.number <= next' /\ r.number < next' /\ r.number # next'
    BY <2>1, <2>3
  <2>5. ASSUME driver # <<>>
        PROVE  /\ Count(Driving) + n = row /\ job'.rows = Block(Count(Driving), n)
               /\ batch.done => Whole(Count(Driving) + n)
    <3>1. Driving \in Rs /\ Driving.number = next /\ Count(Driving) \in Nat
      BY <1>1, <2>5, RsShaped, ReductionCounts DEF Ordered
    <3>2. Count(Driving) + n = row
      BY <2>2, <3>1
    <3>3. row - n = Count(Driving)
      BY <2>2, <3>1, <3>2
    <3>4. batch.done => Whole(row)
      BY <2>1 DEF Validated, AtEnd, Whole
    <3>5. QED
      BY <1>3, <2>2, <3>2, <3>3, <3>4
  <2>6. Driving' = Driving
    BY <1>1 DEF Driving
  <2>7. QED
    BY <1>1, <1>2, <1>3, <2>1, <2>4, <2>5, <2>6
       DEF Ordered, Whole, SourceValid, Given, Count, Block
<1>4. CASE CancelDemand /\ job'.code # "ok" /\ next' = next
  <2>1. demand' = "cancelled"
    BY <1>1, <1>4 DEF CancelDemand
  <2>2. ~Resting'
    BY <1>1, <2>1 DEF Resting
  <2>3. QED
    BY <1>1, <1>2, <1>4, <2>2 DEF Ordered, Whole, SourceValid, Given, Count, Block, Driving
<1>5. QED
  BY <1>3, <1>4, Finished

\* One step for each action: the owner's, the worker's, then the rest.
LEMMA OrderStep ==
  ASSUME ~Overlapping, CursorShaped, SessionShaped, Held, Reading, Validated, Ordered, [Next]_vars
  PROVE  Ordered'
<1> USE DEF sessionVars, cursorVars
<1>1. CASE MakePlan \/ OpenFile \/ Write \/ Over \/ UNCHANGED vars
  <2>1. /\ UNCHANGED <<source, row, next, driver, conts, ended, control, demand, job>>
        /\ UNCHANGED <<at, batch>>
    BY <1>1 DEF MakePlan, OpenFile, MapInput, Write, ChangeFile, Over, vars
  <2>2. (Filling' \/ Filled') => /\ Filling \/ Filled
                                 /\ batch'.rows = batch.rows
    BY <2>1 DEF Filling, Filled
  <2>3. QED
    BY <2>1, <2>2, OrderKept
<1>2. CASE SetUp
  <2>1. /\ control = "none" /\ UNCHANGED <<source, row, next, driver, conts, ended, job, at, batch>>
        /\ job = NoJob /\ next = 0 /\ row = 0 /\ conts = {} /\ driver \in {<<>>, <<Start>>}
        /\ at = "idle"
    BY <1>2 DEF SetUp, OpenCursor, CreateAllowed, Held, CursorShaped
  <2>2. job'.at = "none" /\ ~Filled' /\ ~Filling' /\ Rs' = Rs
    BY <2>1, RsNext DEF NoJob, Filled, Filling
  <2>3. \A r \in Rs : Count(r) = row
    <3>1. Rs \subseteq {Start}
      BY <2>1, RsShaped DEF Driving
    <3>2. Count(Start) = 0
      BY DEF Count, Start
    <3>3. QED
      BY <2>1, <3>1, <3>2
  <2>4. QED
    BY <2>1, <2>2, <2>3 DEF Ordered, Whole, SourceValid, Given, Count, Block
<1>3. CASE FailSetUp
  <2>1. /\ UNCHANGED <<source, row, next, conts, job>> /\ at' = "idle" /\ control' = control
        /\ demand' = demand /\ control = "none" /\ driver' = <<>>
        /\ ended' = ended \cup {[how |-> "raised", given |-> Driving.given]}
    BY <1>3 DEF FailSetUp, DestroyCursor, End
  <2>2. conts = {} /\ job.at = "none" /\ Rs' = {} /\ ~Resting'
    BY <2>1, RsNext DEF Held, NoJob, Resting
  <2>3. \A e \in ended' : e \in ended \/ e.how # "done"
    BY <2>1
  <2>4. QED
    BY <2>1, <2>2, <2>3, OwnerStep
<1>4. CASE AskBatch
  <2>1. /\ UNCHANGED <<source, row, next, driver, conts, ended, control, demand, at, batch>>
        /\ job'.at = "admitted" /\ job'.number = Driving.number /\ job'.code = "none"
        /\ Driving.rows = <<>> /\ ~Driving.done
        /\ job.at = "none" /\ at = "idle"
    BY <1>4, Asked DEF AskBatch, Held
  <2>2. ~Filled' /\ ~Filling' /\ Rs' = Rs /\ (Resting' => Resting)
    BY <2>1, RsNext DEF Filled, Filling, Resting
  <2>3. QED
    BY <2>1, <2>2 DEF Ordered, Whole, SourceValid, Given, Count, Block, Driving
<1>5. CASE ReserveDemand
  <2>1. /\ UNCHANGED <<source, row, next, driver, conts, ended, control, at, batch>>
        /\ job.at = "admitted" /\ at = "idle" /\ job.code = "none"
    BY <1>5 DEF ReserveDemand, Held
  <2>2. job'.number = job.number
    <3>1. \A c \in Codes : Answer(c) => job'.number = job.number
      BY Answered
    <3>2. [job EXCEPT !.at = "reserved"].number = job.number
      BY JobMovedFields DEF SessionShaped, JobPlaces
    <3>3. "cancelled" \in Codes /\ "closed" \in Codes /\ "cursor_state" \in Codes
      BY DEF Codes
    <3>4. QED
      BY <1>5, <3>1, <3>2, <3>3 DEF ReserveDemand
  <2>3. ~Filled' /\ ~Filling' /\ Rs' = Rs /\ (Resting' => Resting)
    BY <1>5, <2>1, RsNext, ReservedFields DEF Filled, Filling, Resting
  <2>4. job'.at = "reserved" => control = "live"
    BY <1>5, ReservedFields
  <2>5. ~(job'.at = "answered" /\ job'.code = "ok")
    BY <1>5, ReservedFields
  <2>6. QED
    BY <2>1, <2>2, <2>3, <2>4, <2>5 DEF Ordered, Whole, SourceValid, Given, Count, Block, Driving
<1>6. CASE RunBatch
  BY <1>6, OrderByBegin, OrderByStep, Begun
<1>7. CASE FinishBatch
  BY <1>7, OrderByFinish
<1>8. ASSUME job.at # "reserved"
      PROVE  at = "idle" /\ (Resting => demand = "ready" /\ control = "live")
  BY <1>8 DEF Held, Resting
<1>9. ASSUME UNCHANGED <<source, row, next>>, job'.at = "none", job.at # "reserved",
             CloseResource \/ UNCHANGED <<cursorVars, control, demand>>
      PROVE  at' = "idle" /\ (Resting' => Resting)
  BY <1>8, <1>9, Closed DEF Resting
<1>10. CASE Take
  <2>1. UNCHANGED <<source, row, next, conts>> /\ job'.at = "none" /\ job.at = "answered"
    BY <1>10, Closed DEF Take, NoJob
  <2>2. at' = "idle" /\ (Resting' => Resting)
    BY <1>9, <1>10, <2>1 DEF Take
  <2>3. CASE UNCHANGED <<driver, ended>>
    <3>1. Rs' = Rs
      BY <2>1, <2>3, RsNext
    <3>2. QED
      BY <2>1, <2>2, <2>3, <3>1, OwnerStep
  <2>4. CASE /\ driver # <<>> /\ job.code = "ok" /\ ended' = ended
             /\ driver' = <<[Driving EXCEPT !.number = @ + 1, !.rows = job.rows, !.done = job.done]>>
             /\ UNCHANGED <<control, demand>>
    <3> DEFINE f == [Driving EXCEPT !.number = @ + 1, !.rows = job.rows, !.done = job.done]
    <3>1. /\ f \in Reductions /\ f.number = Driving.number + 1 /\ f.rows = job.rows
          /\ f.given = Driving.given /\ f.done = job.done
      BY <2>4, TakenShaped
    <3>2. Rs' = conts \cup {f}
      BY <2>1, <2>4, RsNext
    <3> HIDE DEF f
    <3>3. /\ Driving \in Rs /\ Driving \in Reductions /\ Driving.rows = <<>>
          /\ Driving.number = job.number /\ next = job.number + 1
          /\ job.rows = Block(Count(Driving), Len(job.rows))
          /\ (demand = "ready" => Count(Driving) + Len(job.rows) = row)
          /\ (job.done => Whole(Count(Driving) + Len(job.rows)))
          /\ Given(Driving) = Block(0, Count(Driving))
      BY <2>1, <2>4, RsShaped, DriverShaped DEF Ordered
    <3>4. /\ Count(Driving) \in Nat /\ Count(Driving) = Len(Driving.given)
          /\ Given(Driving) = Driving.given /\ Len(job.rows) \in Nat
      BY <3>3, ReductionCounts DEF SessionShaped, Jobs
    <3>5. Count(f) = Count(Driving) + Len(job.rows)
      BY <3>1, <3>4 DEF Count
    <3>6. Given(f) = Block(0, Count(f))
      BY <3>1, <3>3, <3>4, <3>5, BlocksJoined DEF Given
    <3>7. f.number = next
      BY <3>1, <3>3
    <3>8. next \in Nat
      BY DEF SessionShaped
    <3>9. InOrder(f) /\ (Resting => Count(f) = row)
      BY <1>8, <2>1, <3>1, <3>3, <3>5, <3>6, <3>7, <3>8 DEF InOrder
    <3>10. QED
      BY <2>1, <2>2, <2>4, <3>2, <3>9, OwnerStep DEF Rs
  <2>5. CASE driver # <<>> /\ job.code = "ok" /\ job.rows = <<>> /\ job.done /\ End("done")
    <3>1. driver' = <<>> /\ ended' = ended \cup {[how |-> "done", given |-> Driving.given]}
      BY <2>5 DEF End
    <3>2. Rs' = conts
      BY <2>1, <3>1, RsNext
    <3>3. /\ Driving \in Reductions /\ Driving.rows = <<>>
          /\ Whole(Count(Driving) + Len(job.rows)) /\ Given(Driving) = Block(0, Count(Driving))
      BY <2>1, <2>5, RsShaped, DriverShaped DEF Ordered
    <3>4. Count(Driving) \in Nat /\ Given(Driving) = Driving.given /\ Len(job.rows) = 0
      BY <2>5, <3>3, ReductionCounts
    <3>5. Driving.given = Block(0, Len(source.rows)) /\ SourceValid
      BY <3>3, <3>4 DEF Whole
    <3>6. QED
      BY <2>1, <2>2, <3>1, <3>2, <3>5, OwnerStep DEF Rs
  <2>6. CASE End("raised")
    <3>1. driver' = <<>> /\ ended' = ended \cup {[how |-> "raised", given |-> Driving.given]}
      BY <2>6 DEF End
    <3>2. Rs' = conts
      BY <2>1, <3>1, RsNext
    <3>3. \A e \in ended' : e \in ended \/ e.how # "done"
      BY <3>1
    <3>4. QED
      BY <2>1, <2>2, <3>1, <3>2, <3>3, OwnerStep DEF Rs
  <2>7. QED
    BY <1>10, <2>3, <2>4, <2>5, <2>6 DEF Take, Idle
<1>11. CASE Feed
  <2>1. /\ driver # <<>> /\ Driving.rows # <<>> /\ UNCHANGED <<source, row, next, job>>
    BY <1>11, Closed DEF Feed, Idle
  <2>2. job.at = "none" /\ Driving \in Rs /\ Driving \in Reductions
    BY <2>1, RsShaped, DriverShaped DEF Ordered
  <2>3. at' = "idle" /\ (Resting' => Resting)
    BY <1>9, <1>11, <2>1, <2>2 DEF Feed
  <2>4. Rs' \subseteq conts \cup {Fed}
    <3>1. \/ driver' = <<Fed>> /\ conts' = conts
          \/ driver' = <<>> /\ conts' \in {conts, conts \cup {Fed}}
      BY <1>11 DEF Feed
    <3>2. QED
      BY <3>1, RsNext
  <2>5. /\ Fed.number = Driving.number /\ Fed.done = Driving.done
        /\ Given(Fed) = Given(Driving) /\ Count(Fed) = Count(Driving)
    <3>1. Driving.given \in Seq(Nat) /\ Driving.rows \in Seq(Nat)
      BY <2>2, ReductionCounts
    <3>2. QED
      BY <2>1, <3>1, FedShaped, RowMoved DEF Given, Count
  <2>6. InOrder(Fed) /\ (Resting /\ Fed.number = next => Count(Fed) = row)
    BY <2>2, <2>5 DEF Ordered, InOrder
  <2>7. \A e \in ended' : e \in ended \/ e.how # "done"
    BY <1>11 DEF Feed
  <2>8. QED
    BY <2>1, <2>2, <2>3, <2>4, <2>6, <2>7, OwnerStep DEF Rs
<1>12. CASE Finish
  <2>1. /\ driver # <<>> /\ Driving.rows = <<>> /\ Driving.done /\ driver' = <<>>
        /\ UNCHANGED <<source, row, next, job, conts>>
        /\ ended' = ended \cup {[how |-> "done", given |-> Driving.given]}
    BY <1>12, Closed DEF Finish, Idle, End
  <2>2. job.at = "none" /\ Driving \in Rs /\ Driving \in Reductions
    BY <2>1, RsShaped, DriverShaped DEF Ordered
  <2>3. at' = "idle" /\ (Resting' => Resting)
    BY <1>9, <1>12, <2>1, <2>2 DEF Finish
  <2>4. Rs' = conts
    BY <2>1, RsNext
  <2>5. Driving.given = Block(0, Len(source.rows)) /\ SourceValid
    BY <2>1, <2>2, ReductionCounts DEF Ordered, Whole
  <2>6. QED
    BY <2>1, <2>2, <2>3, <2>4, <2>5, OwnerStep DEF Rs
<1>13. ASSUME NEW c \in conts, Resume(c) \/ HaltElsewhere(c)
       PROVE  Ordered'
  <2>1. job.at = "none" /\ UNCHANGED <<source, row, next, job, conts>> /\ driver' \in {driver, <<c>>}
    BY <1>13, Closed DEF Resume, HaltElsewhere
  <2>2. at' = "idle" /\ (Resting' => Resting)
    BY <1>9, <1>13, <2>1 DEF Resume, HaltElsewhere
  <2>3. Rs' \subseteq Rs
    BY <2>1, RsNext DEF Rs
  <2>4. \A e \in ended' : e \in ended \/ e.how # "done"
    BY <1>13 DEF Resume, HaltElsewhere
  <2>5. QED
    BY <2>1, <2>2, <2>3, <2>4, OwnerStep
<1>14. CASE Forget
  <2>1. /\ driver' = <<>> /\ conts' = {}
        /\ UNCHANGED <<source, row, next, job, ended, control, demand, at, batch>>
    BY <1>14 DEF Forget
  <2>2. Rs' = {} /\ (Filled' => Filled) /\ (Filling' => Filling)
    BY <2>1, RsNext DEF Filled, Filling
  <2>3. QED
    BY <2>1, <2>2 DEF Ordered, Whole, SourceValid, Given, Count, Block
<1>15. CASE Collect
  <2>1. job.at = "none" /\ CloseResource /\ UNCHANGED <<next, job, driver, conts, ended>>
    BY <1>15 DEF Collect, CloseResource
  <2>2. UNCHANGED <<source, row>> /\ Rs' = Rs
    BY <2>1, Closed, RsNext
  <2>3. at' = "idle" /\ (Resting' => Resting)
    BY <1>9, <2>1, <2>2
  <2>4. QED
    BY <2>1, <2>2, <2>3, OwnerStep
<1>16. QED
  BY <1>1, <1>2, <1>3, <1>4, <1>5, <1>6, <1>7, <1>10, <1>11, <1>12, <1>13, <1>14, <1>15
     DEF Next, Worker, Owner

-----------------------------------------------------------------------------
(* The theorems. *)

\* What holds whoever closes the cursor, and when.
Always == CursorShaped /\ SessionShaped /\ Held /\ Reading /\ Validated

LEMMA InvInit == Init => Always /\ Ordered
<1> SUFFICES ASSUME Init PROVE Always /\ Ordered
  OBVIOUS
<1> USE DEF Init, CursorInit
<1>1. /\ source \in Sources /\ row = 0 /\ at = "idle" /\ pending = <<>> /\ frames = <<>>
      /\ batch = Cleared
  OBVIOUS
<1>2. Len(source.rows) \in Nat /\ Len(source.levels) \in Nat
  BY <1>1, SourcesAssumption
<1>3. CursorShaped
  <2>1. /\ batch \in Batches /\ batch.rows = <<>> /\ batch.bytes = 0
        /\ Len(batch.rows) <= RowLimit /\ batch.bytes <= ByteLimit
    BY <1>1, ClearedFields, LimitsAssumption
  <2>2. frames \in Seq(Levels) /\ row \in 0..Len(source.rows)
    BY <1>1, <1>2
  <2>3. state \in States /\ (at # "idle" <=> state = "running")
    BY DEF States
  <2>4. changed \in BOOLEAN /\ located \in BOOLEAN
    OBVIOUS
  <2>5. attempts \in Nat /\ sequence \in Nat /\ pending \in {<<>>, <<row>>}
    BY <1>1
  <2>6. QED
    BY <1>1, <2>1, <2>2, <2>3, <2>4, <2>5 DEF CursorShaped
<1>4. Start \in Reductions /\ driver = <<Start>> /\ driver # <<>>
  BY DEF Start, Reductions
<1>5. SessionShaped
  BY <1>4, NoJobShaped, OneDriver DEF SessionShaped
<1>6. Held
  BY <1>1, <1>4 DEF Held, NoJob
<1>7. ~Resting /\ ~Filling /\ ~Filled /\ job.at = "none"
  BY <1>1 DEF Resting, Filling, Filled, NoJob
<1>8. Reading /\ Validated
  BY <1>1, <1>2, <1>7 DEF Reading, Validated
<1>9. Rs = {Start} /\ Given(Start) = Block(0, Count(Start)) /\ Start.number = 0 /\ ~Start.done
  <2>1. Given(Start) = <<>> /\ Count(Start) = 0
    BY DEF Given, Count, Start
  <2>2. Block(0, 0) = <<>>
    BY EmptyBlock
  <2>3. Start.number = 0 /\ ~Start.done
    BY DEF Start
  <2>4. Rs = {Start}
    BY <1>4, RsShaped, <1>5 DEF Driving
  <2>5. QED
    BY <2>1, <2>2, <2>3, <2>4
<1>10. Ordered
  BY <1>7, <1>9 DEF Ordered
<1>11. QED
  BY <1>3, <1>5, <1>6, <1>8, <1>10 DEF Always

LEMMA AlwaysStep == Always /\ [Next]_vars => Always'
BY ShapedStep, HeldStep, ReadStep DEF Always

\* Type correctness, for any sources, limits and probes, and with a continuation
\* halted elsewhere under a batch.  That the levels on the way to the target are
\* entered once rests on the demand: the cursor itself stays ready when it could
\* not locate the target.
THEOREM TypeCorrect == Spec => []StreamTypeOK
<1>1. Always /\ PlanInv => StreamTypeOK
  <2> SUFFICES ASSUME Always, PlanInv PROVE StreamTypeOK
    OBVIOUS
  <2>1. CursorTypeOK
    BY DEF Always, CursorShaped, CursorTypeOK, Reading
  <2>2. \A r \in conts \cup Range(driver) : r \in Reductions
    BY RsShaped DEF Always, Rs
  <2>3. job.at \in {"none", "admitted", "reserved", "answered"}
    BY DEF Always, SessionShaped, Jobs
  <2>4. \A e \in ended : e.how \in {"done", "halted", "raised"}
    BY DEF Always, SessionShaped, Ends
  <2>5. plan \subseteq {"setup", "cursor"} /\ destroyed \in 0..1
    BY DEF PlanInv
  <2>6. QED
    BY <2>1, <2>2, <2>3, <2>4, <2>5 DEF StreamTypeOK, Always, SessionShaped
<1>2. QED
  BY <1>1, InvInit, AlwaysStep, PlanInit, PlanStep, PTL DEF Spec

\* When no continuation is halted under a batch.
IInv == Always /\ Ordered

LEMMA InvStep == ~Overlapping /\ IInv /\ [Next]_vars => IInv'
BY AlwaysStep, OrderStep DEF IInv, Always

LEMMA Invariant == ASSUME ~Overlapping PROVE Spec => []IInv
<1>1. Init => IInv
  BY InvInit DEF IInv
<1>2. IInv /\ [Next]_vars => IInv'
  BY InvStep
<1>3. QED
  BY <1>1, <1>2, PTL DEF Spec

\* For any sources and limits: whichever continuation is resumed, and however
\* often, what a reduction gave and holds are the rows of the source from the
\* first on, in order, with none missing and none twice.
THEOREM RowsInOrder == ASSUME ~Overlapping PROVE Spec => []DeliveredInOrder
<1>1. IInv => DeliveredInOrder
  <2> SUFFICES ASSUME IInv, NEW r \in Rs PROVE Given(r) = Indices(Len(Given(r)))
    BY DEF DeliveredInOrder, Rs
  <2>1. Given(r) = Block(0, Count(r)) /\ Count(r) \in Nat
    BY RsShaped, ReductionCounts DEF IInv, Always, Ordered
  <2>2. Len(Block(0, Count(r))) = Count(r) /\ Block(0, Count(r)) = Indices(Count(r))
    BY <2>1, BlockIsSeq DEF Block, Indices
  <2>3. QED
    BY <2>1, <2>2
<1>2. QED
  BY <1>1, Invariant, PTL

\* For any sources and limits: an enumeration that ends with :done gave every
\* row, and every member on the way to the target and behind it was valid.
THEOREM DoneMeansWhole == ASSUME ~Overlapping PROVE Spec => []DoneIsWhole
<1>1. IInv => DoneIsWhole
  <2> SUFFICES ASSUME IInv, NEW e \in ended, e.how = "done"
               PROVE  e.given = Indices(Len(source.rows)) /\ SourceValid
    BY DEF DoneIsWhole
  <2>1. e.given = Block(0, Len(source.rows)) /\ SourceValid
    BY DEF IInv, Ordered
  <2>2. Len(source.rows) \in Nat
    BY SourceTyped DEF IInv, Always
  <2>3. QED
    BY <2>1, <2>2 DEF Block, Indices
<1>2. QED
  BY <1>1, Invariant, PTL

\* For any sources and limits, and with a continuation halted elsewhere under a
\* batch: the demand state and the cursor agree between two batches, and a row is
\* projected once, also when it waits for the next batch.
THEOREM LayersInStep == Spec => []LayersAgree
<1>1. Always => LayersAgree
  <2> SUFFICES ASSUME Always PROVE LayersAgree
    OBVIOUS
  <2>1. demand \in {"ready", "done"} => control = "live"
    BY DEF Always, Held, SessionShaped
  <2>2. demand = "ready" => state = "ready" /\ sequence = next
    BY <2>1 DEF Always, Reading, Resting
  <2>3. demand = "done" => state = "done" /\ sequence = next
    BY <2>1 DEF Always, Reading
  <2>4. ReadOnce
    BY DEF Always, Reading, ReadOnce
  <2>5. QED
    BY <2>2, <2>3, <2>4 DEF LayersAgree
<1>2. QED
  BY <1>1, InvInit, AlwaysStep, PTL DEF Spec
=============================================================================
