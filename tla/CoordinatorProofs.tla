-------------------------- MODULE CoordinatorProofs --------------------------
(***************************************************************************)
(* Proofs about Coordinator, for any requests, callers, workers and queue  *)
(* capacity: its types, that nobody is left in a call, that a job holds    *)
(* its reservation, and that a stop cuts nothing short.                    *)
(*                                                                         *)
(* The invariant says of every request which messages about it can be in   *)
(* the mailbox, given how far its caller, its job and its entry of the     *)
(* table are.  A call is answered once because its submission and its      *)
(* entry exclude one another; a reservation outlives its job because a     *)
(* result that releases it is sent only by a job that is over.  A stop     *)
(* finds the pool drained because every job has an entry (Accounted) and   *)
(* the last poll saw no entry but of streams (Drained).                    *)
(***************************************************************************)
EXTENDS Coordinator, TLAPS

-----------------------------------------------------------------------------
(* The inductive invariant. *)

ServerShape ==
  /\ up \in BOOLEAN /\ accepting \in BOOLEAN
  /\ requests \subseteq Requests /\ orphaned \subseteq requests
  /\ sweeping \subseteq requests \cap Opens /\ orphaned \cap sweeping = {}
  /\ generation \in Nat \ {0}

MailShape ==
  inbox \subseteq {"submit", "result", "raw", "complete", "down"} \X Requests

CallShape ==
  /\ alive \in [Callers -> BOOLEAN] /\ call \in [Requests -> CallPoints]
  /\ admittedAt \in [Requests -> Nat] /\ replies \in [Requests -> Nat]

PoolShape ==
  /\ job \in [Requests -> JobPoints] /\ cancelled \in [Requests -> BOOLEAN]
  /\ queue \in Seq(Requests) /\ Len(queue) <= Capacity
  /\ lost \subseteq Requests /\ pool \in {"open", "stopping"}

CursorPoints == {"fresh", "selecting", "streaming", "consumed"}

DocShape ==
  /\ lifecycle \in {"open", "closing", "closed"}
  /\ cursor \in CursorPoints /\ reserved \subseteq Selects \cup Setups
  /\ stage \in Stages

Shapes == ServerShape /\ MailShape /\ CallShape /\ PoolShape /\ DocShape

\* What is in the mailbox about a request fits how far it is.
Posted(r) ==
  /\ Submit(r) \in inbox => call[r] = "waiting" /\ r \notin requests /\ job[r] = "none"
  /\ Result(r) \in inbox => job[r] = "over" /\ r \notin Batches
  /\ Complete(r) \in inbox => r \in Batches
  /\ Down(r) \in inbox => r \in Monitored /\ ~Live(r)

\* The entry of a request and the call it answers.
Entered(r) ==
  /\ call[r] \in {"idle", "admitted"} => r \notin requests /\ job[r] = "none"
  /\ r \in requests \ Batches => call[r] = "waiting"
  /\ r \in requests \cap Batches => call[r] \in {"direct", "done"}
  /\ r \in orphaned \cup sweeping => ~Live(r)

\* One answer, to who waits for it.
Answered(r) ==
  /\ replies[r] <= 1
  /\ call[r] \in {"idle", "admitted", "waiting"} => replies[r] = 0
  /\ call[r] = "waiting" /\ Live(r) => up /\ (Submit(r) \in inbox \/ r \in Monitored)

Row(r) == Posted(r) /\ Entered(r) /\ Answered(r)

\* The queue holds the queued jobs, each at one place.
Lined ==
  /\ \A i \in 1..Len(queue) : job[queue[i]] = "queued"
  /\ \A i, k \in 1..Len(queue) : queue[i] = queue[k] => i = k

Rows == \A r \in Requests : Row(r)

IInv == Shapes /\ Rows /\ Lined /\ JobHoldsReservation

-----------------------------------------------------------------------------
(* Messages and rows. *)

\* The kinds of messages and the requests they are about tell them apart.
LEMMA Messages ==
  ASSUME NEW r, NEW q
  PROVE  /\ Submit(r) \notin {Result(q), Raw(q), Complete(q), Down(q)}
         /\ Result(r) \notin {Raw(q), Complete(q), Down(q)}
         /\ Raw(r) \notin {Complete(q), Down(q)}
         /\ Complete(r) # Down(q)
         /\ Submit(r) = Submit(q) => r = q
         /\ Result(r) = Result(q) => r = q
         /\ Raw(r) = Raw(q) => r = q
         /\ Complete(r) = Complete(q) => r = q
         /\ Down(r) = Down(q) => r = q
BY DEF Submit, Result, Raw, Complete, Down

About(r) == {Submit(r), Result(r), Raw(r), Complete(r), Down(r)}

\* A step about one request: the rows of the others stay.
Local(r) ==
  /\ inbox' \subseteq inbox \cup About(r) /\ inbox \subseteq inbox' \cup About(r)
  /\ \A q \in Requests \ {r} :
       /\ q \in requests' <=> q \in requests
       /\ q \in orphaned' <=> q \in orphaned
       /\ q \in sweeping' <=> q \in sweeping
       /\ call'[q] = call[q] /\ job'[q] = job[q] /\ replies'[q] = replies[q]
  /\ up' = up /\ alive' = alive

LEMMA OtherMail ==
  ASSUME NEW r, NEW q, q # r,
         inbox' \subseteq inbox \cup About(r), inbox \subseteq inbox' \cup About(r)
  PROVE  /\ Submit(q) \in inbox' <=> Submit(q) \in inbox
         /\ Result(q) \in inbox' <=> Result(q) \in inbox
         /\ Complete(q) \in inbox' <=> Complete(q) \in inbox
         /\ Down(q) \in inbox' <=> Down(q) \in inbox
<1>1. {Submit(q), Result(q), Complete(q), Down(q)} \cap About(r) = {}
  BY Messages DEF About
<1>2. QED
  BY <1>1 DEF Rows

LEMMA RowSame ==
  ASSUME NEW q \in Requests, Row(q),
         Submit(q) \in inbox' <=> Submit(q) \in inbox,
         Result(q) \in inbox' <=> Result(q) \in inbox,
         Complete(q) \in inbox' <=> Complete(q) \in inbox,
         Down(q) \in inbox' <=> Down(q) \in inbox,
         q \in requests' <=> q \in requests,
         q \in orphaned' <=> q \in orphaned,
         q \in sweeping' <=> q \in sweeping,
         call'[q] = call[q], job'[q] = job[q], replies'[q] = replies[q],
         up' = up, alive' = alive
  PROVE  Row(q)'
<1>1. Posted(q)'
  BY DEF Row, Posted, Monitored, Live
<1>2. Entered(q)'
  BY DEF Row, Entered, Live
<1>3. Answered(q)'
  BY DEF Row, Answered, Monitored, Live
<1>4. QED
  BY <1>1, <1>2, <1>3 DEF Row

LEMMA LocalRows ==
  ASSUME Rows, NEW r \in Requests, Local(r), Row(r)'
  PROVE  Rows'
<1>1. ASSUME NEW q \in Requests, q # r
      PROVE  Row(q)'
  <2>1. Row(q)
    BY DEF Rows
  <2>2. /\ Submit(q) \in inbox' <=> Submit(q) \in inbox
        /\ Result(q) \in inbox' <=> Result(q) \in inbox
        /\ Complete(q) \in inbox' <=> Complete(q) \in inbox
        /\ Down(q) \in inbox' <=> Down(q) \in inbox
    BY <1>1, OtherMail DEF Local
  <2>3. /\ q \in requests' <=> q \in requests
        /\ q \in orphaned' <=> q \in orphaned
        /\ q \in sweeping' <=> q \in sweeping
        /\ call'[q] = call[q] /\ job'[q] = job[q] /\ replies'[q] = replies[q]
        /\ up' = up /\ alive' = alive
    BY <1>1 DEF Local
  <2>4. QED
    BY <2>1, <2>2, <2>3, RowSame
<1>2. QED
  BY <1>1 DEF Rows

LEMMA RowsSame ==
  ASSUME Rows,
         UNCHANGED <<inbox, requests, orphaned, sweeping, call, job, replies, up, alive>>
  PROVE  Rows'
<1>1. ASSUME NEW q \in Requests
      PROVE  Row(q)'
  <2>1. Row(q)
    BY DEF Rows
  <2>2. QED
    BY <2>1, RowSame
<1>2. QED
  BY <1>1 DEF Rows

\* A new server has an empty table and an empty mailbox, and who waited for
\* the old one exits.
LEMMA RowsCleared ==
  ASSUME CallShape, Rows,
         requests' = {}, orphaned' = {}, sweeping' = {}, inbox' = {},
         call' = [r \in Requests |-> IF call[r] = "waiting" THEN "exit" ELSE call[r]],
         UNCHANGED <<job, replies, alive>>
  PROVE  Rows'
<1>1. ASSUME NEW q \in Requests
      PROVE  Row(q)'
  <2>1. Row(q) /\ call'[q] = IF call[q] = "waiting" THEN "exit" ELSE call[q]
    BY DEF Rows
  <2>2. Posted(q)' /\ Entered(q)' /\ Answered(q)'
    BY <2>1 DEF Row, Posted, Entered, Answered
  <2>3. QED
    BY <2>2 DEF Row
<1>2. QED
  BY <1>1 DEF Rows

LEMMA LineStays == ASSUME Lined, UNCHANGED <<queue, job>> PROVE Lined'
BY DEF Lined

LEMMA HoldStays ==
  ASSUME JobHoldsReservation, UNCHANGED <<job, reserved, cursor>>,
         lifecycle' = "closed" => lifecycle = "closed"
  PROVE  JobHoldsReservation'
BY DEF JobHoldsReservation, Pending, Running

\* One that joins the queue was not in it.
LEMMA Joins ==
  ASSUME PoolShape, Lined, NEW r \in Requests, Enqueue(r), job[r] # "queued", PoolTakes
  PROVE  /\ Lined'
         /\ queue' \in Seq(Requests) /\ Len(queue') <= Capacity
         /\ job' \in [Requests -> JobPoints]
         /\ job'[r] = "queued" /\ \A q \in Requests \ {r} : job'[q] = job[q]
<1>1. /\ job' \in [Requests -> JobPoints] /\ queue \in Seq(Requests)
      /\ job'[r] = "queued" /\ \A q \in Requests \ {r} : job'[q] = job[q]
  BY DEF PoolShape, Enqueue, JobPoints
<1>2. queue' \in Seq(Requests) /\ Len(queue') = Len(queue) + 1 /\ Len(queue) \in Nat
  BY <1>1 DEF Enqueue
<1>3. \A i \in 1..Len(queue') : queue'[i] = IF i = Len(queue') THEN r ELSE queue[i]
  BY <1>1, <1>2 DEF Enqueue
<1>4. \A i \in 1..Len(queue) : queue[i] \in Requests /\ queue[i] # r /\ job[queue[i]] = "queued"
  BY <1>1 DEF Lined
<1>5. \A i \in 1..Len(queue') : i \in 1..Len(queue) \/ i = Len(queue')
  BY <1>2
<1>6. Lined'
  <2>1. \A i \in 1..Len(queue') : job'[queue'[i]] = "queued"
    BY <1>1, <1>3, <1>4, <1>5
  <2>2. \A i, k \in 1..Len(queue') : queue'[i] = queue'[k] => i = k
    BY <1>3, <1>4, <1>5 DEF Lined
  <2>3. QED
    BY <2>1, <2>2 DEF Lined
<1>7. Len(queue') <= Capacity
  BY <1>2, RequestsAssumption DEF PoolTakes
<1>8. QED
  BY <1>1, <1>2, <1>6, <1>7

-----------------------------------------------------------------------------
(* Callers. *)

LEMMA InitHolds == Init => IInv
<1> SUFFICES ASSUME Init PROVE IInv
  OBVIOUS
<1>1. Shapes
  BY RequestsAssumption DEF Init, Shapes, ServerShape, MailShape, CallShape, PoolShape, DocShape,
     CallPoints, JobPoints, CursorPoints, Stages
<1>2. Rows
  BY DEF Init, Rows, Row, Posted, Entered, Answered
<1>3. Lined
  BY DEF Init, Lined
<1>4. JobHoldsReservation
  BY DEF Init, JobHoldsReservation, Pending, Running, Requests
<1>5. QED
  BY <1>1, <1>2, <1>3, <1>4 DEF IInv

\* An operation is admitted once.
LEMMA AdmitStep == ASSUME IInv, NEW r \in Requests, Admit(r) PROVE IInv'
<1> USE DEF serverVars, poolVars, docVars
<1>1. /\ call' \in [Requests -> CallPoints] /\ call[r] = "idle" /\ call'[r] = "admitted"
      /\ \A q \in Requests \ {r} : call'[q] = call[q]
  BY DEF IInv, Shapes, CallShape, Admit, CallPoints
<1>2. admittedAt' \in [Requests -> Nat]
  BY DEF IInv, Shapes, ServerShape, CallShape, Admit
<1>3. UNCHANGED <<up, accepting, requests, orphaned, sweeping, inbox, generation, alive, replies>>
  BY DEF Admit
<1>4. UNCHANGED <<job, queue, cancelled, lost, pool, lifecycle, cursor, reserved, stage>>
  BY DEF Admit
<1>5. Shapes'
  BY <1>1, <1>2, <1>3, <1>4 DEF IInv, Shapes, ServerShape, MailShape, CallShape, PoolShape, DocShape
<1>6. Local(r)
  BY <1>1, <1>3, <1>4 DEF Local
<1>7. Row(r)'
  BY <1>1, <1>3, <1>4 DEF IInv, Rows, Row, Posted, Entered, Answered, Monitored, Live
<1>8. Rows'
  BY <1>6, <1>7, LocalRows DEF IInv
<1>9. QED
  BY <1>4, <1>5, <1>8, LineStays, HoldStays DEF IInv

\* The call of a request is its first message.
LEMMA CallStep == ASSUME IInv, NEW r \in Requests, Call(r) PROVE IInv'
<1> USE DEF poolVars, docVars
<1>1. /\ call' \in [Requests -> CallPoints] /\ call[r] = "admitted"
      /\ call'[r] = IF up THEN "waiting" ELSE "exit"
      /\ \A q \in Requests \ {r} : call'[q] = call[q]
  BY DEF IInv, Shapes, CallShape, Call, CallPoints
<1>2. inbox' = IF up THEN inbox \cup {Submit(r)} ELSE inbox
  BY DEF Call
<1>3. UNCHANGED <<up, accepting, requests, orphaned, sweeping, generation, alive,
                  admittedAt, replies>>
  BY DEF Call
<1>4. UNCHANGED <<job, queue, cancelled, lost, pool, lifecycle, cursor, reserved, stage>>
  BY DEF Call
<1>5. Shapes'
  <2>1. MailShape'
    BY <1>2 DEF IInv, Shapes, MailShape, Submit
  <2>2. QED
    BY <1>1, <1>3, <1>4, <2>1 DEF IInv, Shapes, ServerShape, CallShape, PoolShape, DocShape
<1>6. Local(r)
  BY <1>1, <1>2, <1>3, <1>4 DEF Local, About
<1>7. Row(r)'
  <2>1. Row(r)
    BY DEF IInv, Rows
  <2>2. /\ Result(r) \in inbox' <=> Result(r) \in inbox
        /\ Complete(r) \in inbox' <=> Complete(r) \in inbox
        /\ Down(r) \in inbox' <=> Down(r) \in inbox
        /\ Submit(r) \in inbox' <=> up \/ Submit(r) \in inbox
    BY <1>2, Messages
  <2>3. QED
    BY <1>1, <1>3, <1>4, <2>1, <2>2 DEF Row, Posted, Entered, Answered, Monitored, Live
<1>8. Rows'
  BY <1>6, <1>7, LocalRows DEF IInv
<1>9. QED
  BY <1>4, <1>5, <1>8, LineStays, HoldStays DEF IInv

\* A death is told for the requests with a monitor, and ends all calls of the
\* dead.
LEMMA DieStep == ASSUME IInv, NEW c \in Callers, Die(c) PROVE IInv'
<1> USE DEF poolVars, docVars
<1>1. /\ alive' \in [Callers -> BOOLEAN] /\ alive[c] /\ ~alive'[c]
      /\ \A d \in Callers : alive'[d] => alive[d]
      /\ \A d \in Callers \ {c} : alive'[d] = alive[d]
  BY DEF IInv, Shapes, CallShape, Die
<1>2. inbox' = inbox \cup {Down(r) : r \in {q \in Monitored : CallerOf[q] = c}}
  BY DEF Die
<1>3. UNCHANGED <<up, accepting, requests, orphaned, sweeping, generation, call,
                  admittedAt, replies>>
  BY DEF Die
<1>4. UNCHANGED <<job, queue, cancelled, lost, pool, lifecycle, cursor, reserved, stage>>
  BY DEF Die
<1>5. Monitored \subseteq Requests /\ Monitored' = Monitored
  BY <1>3 DEF IInv, Shapes, ServerShape, Monitored
<1>6. Shapes'
  <2>1. MailShape'
    BY <1>2, <1>5 DEF IInv, Shapes, MailShape, Down
  <2>2. QED
    BY <1>1, <1>3, <1>4, <2>1 DEF IInv, Shapes, ServerShape, CallShape, PoolShape, DocShape
<1>7. ASSUME NEW q \in Requests
      PROVE  Row(q)'
  <2>1. Row(q)
    BY DEF IInv, Rows
  <2>2. /\ Submit(q) \in inbox' <=> Submit(q) \in inbox
        /\ Result(q) \in inbox' <=> Result(q) \in inbox
        /\ Complete(q) \in inbox' <=> Complete(q) \in inbox
        /\ Down(q) \in inbox' => Down(q) \in inbox \/ (q \in Monitored /\ CallerOf[q] = c)
    BY <1>2, Messages
  <2>3. CallerOf[q] \in Callers
    BY RequestsAssumption
  <2>4. /\ Live(q)' => Live(q)
        /\ CallerOf[q] = c => ~Live(q)'
    BY <1>1, <2>3 DEF Live
  <2>5. QED
    BY <1>3, <1>4, <1>5, <2>1, <2>2, <2>4 DEF Row, Posted, Entered, Answered
<1>8. Rows'
  BY <1>7 DEF Rows
<1>9. QED
  BY <1>4, <1>6, <1>8, LineStays, HoldStays DEF IInv

-----------------------------------------------------------------------------
(* The calls. *)

\* A submission is still unanswered, and its request has no job.
LEMMA Submitted ==
  ASSUME IInv, NEW r \in Requests, Submit(r) \in inbox
  PROVE  /\ call[r] = "waiting" /\ replies[r] = 0 /\ job[r] = "none"
         /\ r \notin requests /\ r \notin orphaned /\ r \notin sweeping
         /\ Result(r) \notin inbox /\ Down(r) \notin inbox
         /\ Complete(r) \in inbox => r \in Batches
<1>1. Row(r)
  BY DEF IInv, Rows
<1>2. r \notin orphaned /\ r \notin sweeping
  BY <1>1 DEF Row, Posted, IInv, Shapes, ServerShape
<1>3. QED
  BY <1>1, <1>2 DEF Row, Posted, Answered, Monitored

\* Its answer ends the call.
LEMMA ReplyShape ==
  ASSUME CallShape, NEW r \in Requests, replies[r] = 0,
         NEW to \in CallPoints, call' = [call EXCEPT ![r] = to],
         replies' = [replies EXCEPT ![r] = @ + 1]
  PROVE  /\ call' \in [Requests -> CallPoints] /\ replies' \in [Requests -> Nat]
         /\ call'[r] = to /\ replies'[r] = 1
         /\ \A q \in Requests \ {r} : call'[q] = call[q] /\ replies'[q] = replies[q]
BY DEF CallShape

LEMMA AnsweredStep ==
  ASSUME IInv, NEW r \in Requests, Submit(r) \in inbox,
         inbox' = inbox \ {Submit(r)}, Reply(r),
         UNCHANGED <<requests, job, queue, reserved, cursor, lost, pool, up, accepting, orphaned,
                     sweeping, generation, alive, admittedAt, stage>>,
         cancelled' \in [Requests -> BOOLEAN],
         lifecycle' \in {"open", "closing", "closed"},
         lifecycle' = "closed" => lifecycle = "closed"
  PROVE  IInv'
<1>1. /\ call' \in [Requests -> CallPoints] /\ replies' \in [Requests -> Nat]
      /\ call'[r] = "done" /\ replies'[r] = 1
      /\ \A q \in Requests \ {r} : call'[q] = call[q] /\ replies'[q] = replies[q]
  BY Submitted, ReplyShape DEF Reply, IInv, Shapes, CallPoints
<1>2. Shapes'
  BY <1>1 DEF IInv, Shapes, ServerShape, MailShape, CallShape, PoolShape, DocShape
<1>3. Local(r)
  BY <1>1 DEF Local, About
<1>4. Row(r)'
  BY <1>1, Submitted, Messages DEF Row, Posted, Entered, Answered
<1>5. Rows'
  BY <1>3, <1>4, LocalRows DEF IInv
<1>6. QED
  BY <1>2, <1>5, LineStays, HoldStays DEF IInv

\* start_request: an entry, a job, a monitor and, for a select, a reservation;
\* or a refusal.
LEMMA StartStep ==
  ASSUME IInv, NEW r \in Requests, up, Submit(r) \in inbox, StartRequest(r),
         r \in Selects => Reservable,
         UnchangedByCalls,
         cancelled' \in [Requests -> BOOLEAN],
         lifecycle' \in {"open", "closing", "closed"},
         lifecycle' = "closed" => lifecycle = "closed"
  PROVE  IInv'
<1>0. UNCHANGED <<up, accepting, orphaned, sweeping, generation, alive, admittedAt,
                  lost, pool, stage>>
  BY DEF UnchangedByCalls
<1>1. CASE Submittable(r) /\ requests' = requests \cup {r}
  <2>1. /\ Enqueue(r) /\ PoolTakes
        /\ inbox' = (inbox \ {Submit(r)}) \cup MonitorOf(r)
    BY <1>1 DEF StartRequest, Submittable, IInv, Shapes, ServerShape
  <2>2. IF r \in Selects
        THEN reserved' = reserved \cup {r} /\ cursor' = "selecting"
        ELSE UNCHANGED <<reserved, cursor>>
    BY <1>1 DEF StartRequest
  <2>3. IF r \in Batches
        THEN call' = [call EXCEPT ![r] = "direct"] /\ replies' = [replies EXCEPT ![r] = @ + 1]
        ELSE UNCHANGED <<call, replies>>
    BY <1>1 DEF StartRequest, NoReply
  <2>4. /\ job' \in [Requests -> JobPoints] /\ queue' \in Seq(Requests) /\ Len(queue') <= Capacity
        /\ job'[r] = "queued" /\ \A q \in Requests \ {r} : job'[q] = job[q]
        /\ Lined'
    BY <2>1, Joins, Submitted DEF IInv, Shapes
  <2>5. /\ call' \in [Requests -> CallPoints] /\ replies' \in [Requests -> Nat]
        /\ \A q \in Requests \ {r} : call'[q] = call[q] /\ replies'[q] = replies[q]
        /\ r \in Batches => call'[r] = "direct" /\ replies'[r] = 1
        /\ r \notin Batches => call'[r] = "waiting" /\ replies'[r] = 0
    BY <2>3, Submitted, ReplyShape DEF IInv, Shapes, CallShape, CallPoints
  <2>6. /\ Submit(r) \notin inbox' /\ Result(r) \notin inbox'
        /\ Complete(r) \in inbox' => r \in Batches
        /\ Down(r) \in inbox' => ~Live(r)
    BY <2>1, Submitted, Messages DEF MonitorOf
  <2>7. Shapes'
    <3>1. ServerShape'
      BY <1>0, <1>1 DEF IInv, Shapes, ServerShape
    <3>2. MailShape'
      BY <2>1 DEF IInv, Shapes, MailShape, MonitorOf, Down
    <3>3. CallShape' /\ PoolShape'
      BY <1>0, <2>4, <2>5 DEF IInv, Shapes, CallShape, PoolShape
    <3>4. DocShape'
      BY <1>0, <2>2 DEF IInv, Shapes, DocShape, CursorPoints
    <3>5. QED
      BY <3>1, <3>2, <3>3, <3>4 DEF Shapes
  <2>8. Local(r)
    BY <1>0, <1>1, <2>1, <2>4, <2>5 DEF Local, About, MonitorOf
  <2>9. Live(r)' <=> Live(r)
    BY <1>0 DEF Live
  <2>10. Row(r)'
    <3>1. r \in Monitored'
      BY <1>0, <1>1, Submitted DEF Monitored
    <3>2. Posted(r)'
      BY <2>6, <2>9, <3>1 DEF Posted
    <3>3. Entered(r)'
      BY <1>0, <1>1, <2>5, Submitted DEF Entered
    <3>4. Answered(r)'
      BY <1>0, <2>5, <3>1 DEF Answered
    <3>5. QED
      BY <3>2, <3>3, <3>4 DEF Row
  <2>11. Rows'
    BY <2>8, <2>10, LocalRows DEF IInv
  <2>12. JobHoldsReservation'
    <3>1. CASE r \in Selects
      <4>1. reserved = {} /\ lifecycle' # "closed"
        BY <3>1 DEF Reservable, IInv, JobHoldsReservation
      <4>2. reserved' = {r} /\ cursor' = "selecting"
        BY <2>2, <3>1, <4>1
      <4>3. \A q \in Selects : Pending(q)' => q \in reserved'
        BY <2>4, <4>1, <4>2 DEF IInv, JobHoldsReservation, Pending, Running, Requests
      <4>4. QED
        BY <4>1, <4>2, <4>3 DEF JobHoldsReservation
    <3>2. CASE r \notin Selects
      <4>1. \A q \in Selects : Pending(q)' <=> Pending(q)
        BY <2>4, <3>2 DEF Pending, Running, Requests
      <4>2. reserved' = reserved /\ cursor' = cursor
        BY <2>2, <3>2
      <4>3. QED
        BY <4>1, <4>2 DEF IInv, JobHoldsReservation
    <3>3. QED
      BY <3>1, <3>2
  <2>13. QED
    BY <2>4, <2>7, <2>11, <2>12 DEF IInv
<1>2. CASE ~(Submittable(r) /\ requests' = requests \cup {r})
  <2>1. /\ inbox' = inbox \ {Submit(r)} /\ Reply(r)
        /\ UNCHANGED <<requests, job, queue, reserved, cursor>>
    BY <1>2 DEF StartRequest
  <2>2. QED
    BY <1>0, <2>1, AnsweredStep
<1>3. QED
  BY <1>1, <1>2

\* The four calls.
LEMMA SubmissionStep ==
  ASSUME IInv, NEW r \in Requests,
         HandleSubmit(r) \/ HandleCleanup(r) \/ HandleProject(r) \/ HandleStream(r)
  PROVE  IInv'
<1>1. up /\ Submit(r) \in inbox /\ UnchangedByCalls
  BY DEF HandleSubmit, HandleCleanup, HandleProject, HandleStream, Take
<1>2. /\ cancelled \in [Requests -> BOOLEAN] /\ lifecycle \in {"open", "closing", "closed"}
  BY DEF IInv, Shapes, PoolShape, DocShape
<1>3. /\ cancelled' \in [Requests -> BOOLEAN]
      /\ lifecycle' \in {"open", "closing", "closed"}
      /\ lifecycle' = "closed" => lifecycle = "closed"
  <2>1. CASE UNCHANGED <<cancelled, lifecycle>>
    BY <1>2, <2>1
  <2>2. CASE HandleCleanup(r)
    BY <1>2, <2>2 DEF HandleCleanup
  <2>3. QED
    BY <2>1, <2>2 DEF HandleSubmit, HandleProject, HandleStream
<1>4. CASE StartRequest(r) /\ (r \in Selects => Reservable)
  BY <1>1, <1>3, <1>4, StartStep
<1>5. CASE Refuse(r)
  <2>1. /\ inbox' = inbox \ {Submit(r)} /\ Reply(r)
        /\ UNCHANGED <<requests, job, queue, reserved, cursor>>
    BY <1>5 DEF Refuse
  <2>2. UNCHANGED <<lost, pool, up, accepting, orphaned, sweeping, generation, alive,
                    admittedAt, stage>>
    BY <1>1 DEF UnchangedByCalls
  <2>3. QED
    BY <1>1, <1>3, <2>1, <2>2, AnsweredStep
<1>6. r \in Selects => r \notin Opens \cup Decodes \cup Closes \cup Streams
  BY RequestsAssumption
<1>7. QED
  BY <1>4, <1>5, <1>6 DEF HandleSubmit, HandleCleanup, HandleProject, HandleStream

-----------------------------------------------------------------------------
(* Completions, monitors and a crash. *)

\* A release takes the reservation of no job of a select.
LEMMA ReleaseHolds ==
  ASSUME IInv, NEW r \in Requests, Release(r), ~Pending(r) \/ r \in Setups,
         \A q \in Selects : Pending(q)' => Pending(q),
         lifecycle' = "closed" => lifecycle = "closed" \/ reserved = {}
  PROVE  /\ JobHoldsReservation'
         /\ reserved' \subseteq Selects \cup Setups /\ cursor' \in CursorPoints
<1>1. reserved \subseteq Selects \cup Setups /\ cursor \in CursorPoints
  BY DEF IInv, Shapes, DocShape
<1>2. r \in Selects => ~Pending(r)
  BY RequestsAssumption DEF Streams
<1>3. CASE r \notin reserved
  <2>1. reserved' = reserved /\ cursor' = cursor
    BY <1>3 DEF Release
  <2>2. QED
    BY <1>1, <2>1 DEF IInv, JobHoldsReservation
<1>4. CASE r \in reserved
  <2>1. reserved' = {} /\ reserved = {r}
    BY <1>4 DEF Release, IInv, JobHoldsReservation
  <2>2. cursor' \in {"fresh", "consumed"}
    BY <1>4 DEF Release
  <2>3. \A q \in Selects : ~Pending(q)
    BY <1>2, <2>1 DEF IInv, JobHoldsReservation
  <2>4. QED
    BY <2>1, <2>2, <2>3 DEF JobHoldsReservation, CursorPoints
<1>5. QED
  BY <1>3, <1>4

LEMMA RemoveShapes ==
  ASSUME Shapes, NEW r \in Requests, NEW m \in About(r), Remove(r, m),
         UNCHANGED <<up, accepting, generation>>
  PROVE  /\ ServerShape' /\ MailShape'
         /\ inbox' \subseteq inbox /\ inbox \subseteq inbox' \cup About(r)
         /\ \A q \in Requests \ {r} : /\ q \in requests' <=> q \in requests
                                      /\ q \in orphaned' <=> q \in orphaned
                                      /\ q \in sweeping' <=> q \in sweeping
         /\ r \notin requests' /\ r \notin orphaned' /\ r \notin sweeping'
         /\ m \notin inbox' /\ Down(r) \notin inbox'
BY DEF Shapes, ServerShape, MailShape, Remove, About

\* A message of a job is one of a job that is over, and no submission waits.
LEMMA Completed ==
  ASSUME IInv, NEW r \in Requests, Result(r) \in inbox
  PROVE  job[r] = "over" /\ ~Pending(r) /\ r \notin Batches /\ Submit(r) \notin inbox
BY DEF IInv, Rows, Row, Posted, Pending, Running

LEMMA StaleStep == ASSUME IInv, NEW r \in Requests, HandleStale(r) PROVE IInv'
<1> USE DEF poolVars
<1>1. UNCHANGED <<up, accepting, requests, orphaned, sweeping, generation, alive, call,
                  admittedAt, replies>> /\ inbox' = inbox \ {Result(r)}
  BY DEF HandleStale, UnchangedByCompletion
<1>2. UNCHANGED <<job, queue, cancelled, lost, pool, lifecycle, cursor, reserved, stage>>
  BY DEF HandleStale, UnchangedByCompletion
<1>3. Shapes'
  BY <1>1, <1>2 DEF IInv, Shapes, ServerShape, MailShape, CallShape, PoolShape, DocShape
<1>4. Local(r)
  BY <1>1, <1>2 DEF Local, About
<1>5. Row(r)'
  <2>1. Row(r)
    BY DEF IInv, Rows
  <2>2. /\ Submit(r) \in inbox' <=> Submit(r) \in inbox
        /\ Complete(r) \in inbox' <=> Complete(r) \in inbox
        /\ Down(r) \in inbox' <=> Down(r) \in inbox
        /\ Result(r) \notin inbox'
    BY <1>1, Messages
  <2>3. QED
    BY <1>1, <1>2, <2>1, <2>2 DEF Row, Posted, Entered, Answered, Monitored, Live
<1>6. Rows'
  BY <1>4, <1>5, LocalRows DEF IInv
<1>7. QED
  BY <1>2, <1>3, <1>6, LineStays, HoldStays DEF IInv

\* The result of a job ends its request, and a select's its reservation; nobody
\* else replied, for its caller still waits, or is dead.
LEMMA ResultStep == ASSUME IInv, NEW r \in Requests, HandleResult(r) PROVE IInv'
<1> USE DEF poolVars
<1>0. Result(r) \in inbox /\ r \in requests /\ Result(r) \in About(r)
  BY DEF HandleResult, Take, About
<1>1. /\ UNCHANGED <<up, accepting, generation, alive, admittedAt, job, queue, cancelled,
                     lost, pool, lifecycle, stage>>
      /\ Remove(r, Result(r))
  BY DEF HandleResult, UnchangedByCompletion
<1>2. IF r \in orphaned \cup sweeping THEN UNCHANGED <<call, replies>> ELSE Reply(r)
  BY DEF HandleResult, NoReply
<1>3. /\ job[r] = "over" /\ ~Pending(r) /\ r \notin Batches /\ Submit(r) \notin inbox
      /\ call[r] = "waiting" /\ replies[r] = 0
      /\ r \in orphaned \cup sweeping => ~Live(r)
  BY <1>0, Completed DEF IInv, Rows, Row, Entered, Answered
<1>4. /\ ServerShape' /\ MailShape'
      /\ inbox' \subseteq inbox /\ inbox \subseteq inbox' \cup About(r)
      /\ \A q \in Requests \ {r} : /\ q \in requests' <=> q \in requests
                                   /\ q \in orphaned' <=> q \in orphaned
                                   /\ q \in sweeping' <=> q \in sweeping
      /\ r \notin requests' /\ r \notin orphaned' /\ r \notin sweeping'
      /\ Result(r) \notin inbox' /\ Down(r) \notin inbox'
  BY <1>0, <1>1, RemoveShapes DEF IInv
<1>5. /\ JobHoldsReservation'
      /\ reserved' \subseteq Selects \cup Setups /\ cursor' \in CursorPoints
  <2>1. CASE r \in Selects
    <3>1. \A q \in Selects : Pending(q)' => Pending(q)
      BY <1>1 DEF Pending, Running
    <3>2. Release(r)
      BY <2>1 DEF HandleResult
    <3>3. QED
      BY <1>1, <1>3, <3>1, <3>2, ReleaseHolds
  <2>2. CASE r \notin Selects
    <3>1. UNCHANGED <<reserved, cursor>>
      BY <2>2 DEF HandleResult
    <3>2. QED
      BY <1>1, <3>1, HoldStays DEF IInv, Shapes, DocShape
  <2>3. QED
    BY <2>1, <2>2
<1>6. /\ call' \in [Requests -> CallPoints] /\ replies' \in [Requests -> Nat]
      /\ \A q \in Requests \ {r} : call'[q] = call[q] /\ replies'[q] = replies[q]
      /\ \/ call'[r] = "done" /\ replies'[r] = 1
         \/ call'[r] = "waiting" /\ replies'[r] = 0 /\ ~Live(r)
  <2>1. CASE r \in orphaned \cup sweeping
    BY <1>2, <1>3, <2>1 DEF IInv, Shapes, CallShape
  <2>2. CASE r \notin orphaned \cup sweeping
    BY <1>2, <1>3, <2>2, ReplyShape DEF Reply, IInv, Shapes, CallPoints
  <2>3. QED
    BY <2>1, <2>2
<1>7. Shapes'
  <2>1. CallShape' /\ PoolShape' /\ DocShape'
    BY <1>1, <1>5, <1>6 DEF IInv, Shapes, CallShape, PoolShape, DocShape
  <2>2. QED
    BY <1>4, <2>1 DEF Shapes
<1>8. Local(r)
  BY <1>1, <1>4, <1>6 DEF Local
<1>9. Row(r)'
  <2>1. Submit(r) \notin inbox' /\ (Complete(r) \in inbox' => r \in Batches)
    BY <1>3, <1>4 DEF IInv, Rows, Row, Posted
  <2>2. Live(r)' <=> Live(r)
    BY <1>1 DEF Live
  <2>3. QED
    BY <1>4, <1>6, <2>1, <2>2 DEF Row, Posted, Entered, Answered
<1>10. Rows'
  BY <1>8, <1>9, LocalRows DEF IInv
<1>11. QED
  BY <1>1, <1>5, <1>7, <1>10, LineStays DEF IInv

\* The entry of an orphaned open becomes the cleanup of its document.
LEMMA SweepStep == ASSUME IInv, NEW r \in Requests, Sweep(r) PROVE IInv'
<1>0. /\ Result(r) \in inbox /\ r \in Opens /\ r \in orphaned /\ r \in requests
      /\ r \notin sweeping /\ PoolTakes /\ Enqueue(r)
  BY DEF Sweep, Take, IInv, Shapes, ServerShape
<1>1. /\ orphaned' = orphaned \ {r} /\ sweeping' = sweeping \cup {r}
      /\ inbox' = inbox \ {Result(r)}
      /\ cancelled' = [cancelled EXCEPT ![r] = FALSE]
  BY DEF Sweep
<1>2. UNCHANGED <<up, accepting, requests, generation, alive, call, admittedAt, replies,
                  lost, pool, lifecycle, cursor, reserved, stage>>
  BY DEF Sweep, callVars, docVars
<1>3. job[r] = "over" /\ r \notin Batches /\ Submit(r) \notin inbox /\ r \notin Selects
  BY <1>0, Completed, RequestsAssumption
<1>4. /\ job' \in [Requests -> JobPoints] /\ queue' \in Seq(Requests) /\ Len(queue') <= Capacity
      /\ job'[r] = "queued" /\ \A q \in Requests \ {r} : job'[q] = job[q]
      /\ Lined'
  BY <1>0, <1>3, Joins DEF IInv, Shapes
<1>5. Shapes'
  <2>1. ServerShape' /\ MailShape'
    BY <1>0, <1>1, <1>2 DEF IInv, Shapes, ServerShape, MailShape
  <2>2. PoolShape'
    BY <1>1, <1>2, <1>4 DEF IInv, Shapes, PoolShape
  <2>3. CallShape' /\ DocShape'
    BY <1>2 DEF IInv, Shapes, CallShape, DocShape
  <2>4. QED
    BY <2>1, <2>2, <2>3 DEF Shapes
<1>6. Local(r)
  BY <1>1, <1>2, <1>4 DEF Local, About
<1>7. Row(r)'
  <2>1. Row(r)
    BY DEF IInv, Rows
  <2>2. /\ Submit(r) \notin inbox' /\ Result(r) \notin inbox'
        /\ Complete(r) \in inbox' <=> Complete(r) \in inbox
        /\ Down(r) \notin inbox'
    BY <1>0, <1>1, <1>3, <2>1, Messages DEF Row, Posted, Monitored
  <2>3. QED
    BY <1>0, <1>1, <1>2, <2>1, <2>2 DEF Row, Posted, Entered, Answered, Live, Monitored
<1>8. Rows'
  BY <1>6, <1>7, LocalRows DEF IInv
<1>9. JobHoldsReservation'
  <2>1. \A q \in Selects : Pending(q)' <=> Pending(q)
    BY <1>3, <1>4 DEF Pending, Running, Requests
  <2>2. QED
    BY <1>2, <2>1 DEF IInv, JobHoldsReservation
<1>10. QED
  BY <1>4, <1>5, <1>8, <1>9 DEF IInv

\* The notification of a batch takes its entry from the table.
LEMMA DirectStep == ASSUME IInv, NEW r \in Requests, HandleDirect(r) PROVE IInv'
<1>0. Complete(r) \in inbox /\ r \in requests /\ Complete(r) \in About(r)
  BY DEF HandleDirect, Take, About
<1>1. /\ Remove(r, Complete(r))
      /\ UNCHANGED <<up, accepting, generation, alive, call, replies, admittedAt, job, queue,
                     cancelled, lost, pool, lifecycle, cursor, reserved, stage>>
  BY DEF HandleDirect, UnchangedByCompletion, NoReply, poolVars
<1>2. /\ r \in Batches /\ call[r] \in {"direct", "done"} /\ Submit(r) \notin inbox
      /\ Result(r) \notin inbox /\ replies[r] <= 1
  BY <1>0 DEF IInv, Rows, Row, Posted, Entered, Answered
<1>3. /\ ServerShape' /\ MailShape'
      /\ inbox' \subseteq inbox /\ inbox \subseteq inbox' \cup About(r)
      /\ \A q \in Requests \ {r} : /\ q \in requests' <=> q \in requests
                                   /\ q \in orphaned' <=> q \in orphaned
                                   /\ q \in sweeping' <=> q \in sweeping
      /\ r \notin requests' /\ r \notin orphaned' /\ r \notin sweeping'
      /\ Complete(r) \notin inbox' /\ Down(r) \notin inbox'
  BY <1>0, <1>1, RemoveShapes DEF IInv
<1>4. Shapes'
  BY <1>1, <1>3 DEF IInv, Shapes, CallShape, PoolShape, DocShape
<1>5. Local(r)
  BY <1>1, <1>3 DEF Local
<1>6. Row(r)'
  BY <1>1, <1>2, <1>3 DEF Row, Posted, Entered, Answered
<1>7. Rows'
  BY <1>5, <1>6, LocalRows DEF IInv
<1>8. QED
  BY <1>1, <1>4, <1>7, LineStays, HoldStays DEF IInv

\* The monitor of a dead caller: its entry is an orphan, or gone.
LEMMA DownStep == ASSUME IInv, NEW r \in Requests, HandleDown(r) PROVE IInv'
<1>0. Down(r) \in inbox /\ Down(r) \in About(r)
  BY DEF HandleDown, Take, About
<1>1. /\ UNCHANGED <<up, accepting, generation, alive, call, admittedAt, replies, job, queue,
                     lost, pool, lifecycle, cursor, reserved, stage>>
      /\ cancelled' = [cancelled EXCEPT ![r] = @ \/ r \notin Closes]
  BY DEF HandleDown, callVars, docVars
<1>2. /\ r \in requests /\ r \notin orphaned /\ r \notin sweeping /\ ~Live(r)
      /\ Submit(r) \notin inbox
  BY <1>0 DEF IInv, Rows, Row, Posted, Monitored
<1>3. cancelled' \in [Requests -> BOOLEAN]
  BY <1>1 DEF IInv, Shapes, PoolShape
<1>4. ~Live(r)'
  BY <1>1, <1>2 DEF Live
<1>5. Row(r)
  BY DEF IInv, Rows
<1>6. CASE r \in Decodes
  <2>1. Remove(r, Down(r))
    BY <1>6 DEF HandleDown
  <2>2. /\ ServerShape' /\ MailShape'
        /\ inbox' \subseteq inbox /\ inbox \subseteq inbox' \cup About(r)
        /\ \A q \in Requests \ {r} : /\ q \in requests' <=> q \in requests
                                     /\ q \in orphaned' <=> q \in orphaned
                                     /\ q \in sweeping' <=> q \in sweeping
        /\ r \notin requests' /\ r \notin orphaned' /\ r \notin sweeping'
        /\ Down(r) \notin inbox'
    BY <1>0, <1>1, <2>1, RemoveShapes DEF IInv
  <2>3. Shapes'
    BY <1>1, <1>3, <2>2 DEF IInv, Shapes, CallShape, PoolShape, DocShape
  <2>4. Local(r)
    BY <1>1, <2>2 DEF Local
  <2>5. Row(r)'
    BY <1>1, <1>2, <1>4, <1>5, <2>2 DEF Row, Posted, Entered, Answered
  <2>6. Rows'
    BY <2>4, <2>5, LocalRows DEF IInv
  <2>7. QED
    BY <1>1, <2>3, <2>6, LineStays, HoldStays DEF IInv
<1>7. CASE r \notin Decodes
  <2>1. /\ orphaned' = orphaned \cup {r} /\ inbox' = inbox \ {Down(r)}
        /\ requests' = requests /\ sweeping' = sweeping
    BY <1>7 DEF HandleDown
  <2>2. Shapes'
    <3>1. ServerShape' /\ MailShape'
      BY <1>1, <1>2, <2>1 DEF IInv, Shapes, ServerShape, MailShape
    <3>2. QED
      BY <1>1, <1>3, <3>1 DEF IInv, Shapes, CallShape, PoolShape, DocShape
  <2>3. Local(r)
    BY <1>1, <2>1 DEF Local, About
  <2>4. Row(r)'
    <3>1. /\ Submit(r) \notin inbox' /\ Down(r) \notin inbox'
          /\ Result(r) \in inbox' <=> Result(r) \in inbox
          /\ Complete(r) \in inbox' <=> Complete(r) \in inbox
      BY <1>2, <2>1, Messages
    <3>2. QED
      BY <1>1, <1>2, <1>4, <1>5, <2>1, <3>1 DEF Row, Posted, Entered, Answered
  <2>5. Rows'
    BY <2>3, <2>4, LocalRows DEF IInv
  <2>6. QED
    BY <1>1, <2>2, <2>5, LineStays, HoldStays DEF IInv
<1>8. QED
  BY <1>6, <1>7

\* A restart leaves the jobs and the reservations to the pool.
LEMMA ClearedCalls ==
  ASSUME CallShape,
         call' = [r \in Requests |-> IF call[r] = "waiting" THEN "exit" ELSE call[r]],
         UNCHANGED <<alive, admittedAt, replies>>
  PROVE  CallShape'
<1>1. \A r \in Requests : call[r] \in CallPoints /\ "exit" \in CallPoints
  BY DEF CallShape, CallPoints
<1>2. call' \in [Requests -> CallPoints]
  BY <1>1
<1>3. QED
  BY <1>2 DEF CallShape

LEMMA CrashStep == ASSUME IInv, Crash PROVE IInv'
<1>1. /\ up' \in BOOLEAN /\ accepting' = TRUE
      /\ requests' = {} /\ orphaned' = {} /\ sweeping' = {} /\ inbox' = {}
      /\ generation' = generation + 1
      /\ call' = [r \in Requests |-> IF call[r] = "waiting" THEN "exit" ELSE call[r]]
      /\ lost' = LostAtRestart /\ stage' \in {"aborted", stage}
      /\ UNCHANGED <<alive, admittedAt, replies, job, queue, cancelled, pool,
                     lifecycle, cursor, reserved>>
  BY DEF Crash, docVars
<1>2. Shapes'
  <2>1. ServerShape' /\ MailShape'
    BY <1>1 DEF IInv, Shapes, ServerShape, MailShape
  <2>2. CallShape'
    BY <1>1, ClearedCalls DEF IInv, Shapes
  <2>3. PoolShape'
    BY <1>1 DEF IInv, Shapes, PoolShape, LostAtRestart
  <2>4. DocShape'
    BY <1>1 DEF IInv, Shapes, DocShape, Stages
  <2>5. QED
    BY <2>1, <2>2, <2>3, <2>4 DEF Shapes
<1>3. Rows'
  BY <1>1, RowsCleared DEF IInv, Shapes
<1>4. QED
  BY <1>1, <1>2, <1>3, LineStays, HoldStays DEF IInv

\* The destructor finds no job, and the owner has a cursor of a setup.
LEMMA CollectStep ==
  ASSUME IInv, NEW r \in Requests, Collect(r) \/ GiveBack(r)
  PROVE  IInv'
<1> USE DEF serverVars, callVars, poolVars
<1>1. /\ UNCHANGED <<up, accepting, requests, orphaned, sweeping, inbox, generation, alive, call,
                     admittedAt, replies, job, queue, cancelled, lost, pool, lifecycle, stage>>
      /\ Release(r) /\ (~Pending(r) \/ r \in Setups)
  BY DEF Collect, Unreferenced, GiveBack, Kept
<1>2. /\ JobHoldsReservation'
      /\ reserved' \subseteq Selects \cup Setups /\ cursor' \in CursorPoints
  <2>1. \A q \in Selects : Pending(q)' => Pending(q)
    BY <1>1 DEF Pending, Running
  <2>2. QED
    BY <1>1, <2>1, ReleaseHolds
<1>3. Shapes'
  BY <1>1, <1>2 DEF IInv, Shapes, ServerShape, MailShape, CallShape, PoolShape, DocShape
<1>4. Rows'
  BY <1>1, RowsSame DEF IInv
<1>5. QED
  BY <1>1, <1>2, <1>3, <1>4, LineStays DEF IInv

-----------------------------------------------------------------------------
(* Jobs. *)

\* A job under way has no submission and no result.
LEMMA UnderWay ==
  ASSUME IInv, NEW r \in Requests, Pending(r)
  PROVE  /\ Submit(r) \notin inbox /\ Result(r) \notin inbox
         /\ call[r] \notin {"idle", "admitted"}
BY DEF IInv, Rows, Row, Posted, Entered, Pending, Running

LEMMA BeginStep == ASSUME IInv, NEW r \in Requests, Begin(r) PROVE IInv'
<1> USE DEF serverVars, callVars, docVars
<1>1. /\ queue # <<>> /\ Head(queue) = r /\ queue' = Tail(queue)
      /\ job' = [job EXCEPT ![r] = "running"]
      /\ UNCHANGED <<up, accepting, requests, orphaned, sweeping, inbox, generation, alive, call,
                     admittedAt, replies, cancelled, lost, pool, lifecycle, cursor, reserved, stage>>
  BY DEF Begin
<1>2. queue \in Seq(Requests) /\ job \in [Requests -> JobPoints] /\ Len(queue) <= Capacity
  BY DEF IInv, Shapes, PoolShape
<1>3. /\ Len(queue) \in Nat /\ Len(queue) >= 1 /\ r = queue[1]
      /\ queue' \in Seq(Requests) /\ Len(queue') = Len(queue) - 1
      /\ \A i \in 1..Len(queue') : queue'[i] = queue[i + 1] /\ i + 1 \in 1..Len(queue)
  BY <1>1, <1>2
<1>4. job[r] = "queued"
  BY <1>3 DEF IInv, Lined
<1>5. /\ job' \in [Requests -> JobPoints]
      /\ job'[r] = "running" /\ \A q \in Requests \ {r} : job'[q] = job[q]
  BY <1>1, <1>2 DEF JobPoints
<1>6. Lined'
  <2>1. \A i \in 1..Len(queue') : /\ queue[i + 1] \in Requests /\ queue[i + 1] # r
                                  /\ job[queue[i + 1]] = "queued"
    BY <1>2, <1>3 DEF IInv, Lined
  <2>2. \A i \in 1..Len(queue') : job'[queue'[i]] = "queued"
    BY <1>3, <1>5, <2>1
  <2>3. \A i, k \in 1..Len(queue') : queue'[i] = queue'[k] => i = k
    BY <1>3 DEF IInv, Lined
  <2>4. QED
    BY <2>2, <2>3 DEF Lined
<1>7. Shapes'
  <2>1. PoolShape'
    BY <1>1, <1>2, <1>3, <1>5, RequestsAssumption DEF IInv, Shapes, PoolShape
  <2>2. QED
    BY <1>1, <2>1 DEF IInv, Shapes, ServerShape, MailShape, CallShape, DocShape
<1>8. Local(r)
  BY <1>1, <1>5 DEF Local
<1>9. Row(r)'
  <2>1. Pending(r) /\ Row(r)
    BY <1>4 DEF Pending, Running, IInv, Rows
  <2>2. QED
    BY <1>1, <2>1, UnderWay DEF Row, Posted, Entered, Answered, Monitored, Live
<1>10. Rows'
  BY <1>8, <1>9, LocalRows DEF IInv
<1>11. JobHoldsReservation'
  <2>1. \A q \in Selects : Pending(q)' <=> Pending(q)
    BY <1>4, <1>5 DEF Pending, Running, Requests
  <2>2. QED
    BY <1>1, <2>1 DEF IInv, JobHoldsReservation
<1>12. QED
  BY <1>6, <1>7, <1>10, <1>11 DEF IInv

\* A close begins to wait for the admissions of the document.
LEMMA BeginCloseStep == ASSUME IInv, NEW r \in Requests, BeginClose(r) PROVE IInv'
<1> USE DEF serverVars, callVars, docVars
<1>1. /\ job[r] = "running" /\ job' = [job EXCEPT ![r] = "closing"]
      /\ UNCHANGED <<up, accepting, requests, orphaned, sweeping, inbox, generation, alive, call,
                     admittedAt, replies, queue, cancelled, lost, pool, lifecycle, cursor,
                     reserved, stage>>
  BY DEF BeginClose
<1>2. /\ job' \in [Requests -> JobPoints]
      /\ job'[r] = "closing" /\ \A q \in Requests \ {r} : job'[q] = job[q]
  BY <1>1 DEF IInv, Shapes, PoolShape, JobPoints
<1>3. Shapes'
  BY <1>1, <1>2 DEF IInv, Shapes, ServerShape, MailShape, CallShape, PoolShape, DocShape
<1>4. Local(r)
  BY <1>1, <1>2 DEF Local
<1>5. Row(r)'
  <2>1. Pending(r) /\ Row(r)
    BY <1>1 DEF Pending, Running, IInv, Rows
  <2>2. QED
    BY <1>1, <2>1, UnderWay DEF Row, Posted, Entered, Answered, Monitored, Live
<1>6. Rows'
  BY <1>4, <1>5, LocalRows DEF IInv
<1>7. Lined'
  <2>1. \A i \in 1..Len(queue) : queue[i] \in Requests /\ queue[i] # r
    BY <1>1 DEF IInv, Lined, Shapes, PoolShape
  <2>2. QED
    BY <1>1, <1>2, <2>1 DEF IInv, Lined
<1>8. JobHoldsReservation'
  <2>1. \A q \in Selects : Pending(q)' => Pending(q)
    BY <1>1, <1>2 DEF Pending, Running, Requests
  <2>2. QED
    BY <1>1, <2>1 DEF IInv, JobHoldsReservation
<1>9. QED
  BY <1>3, <1>6, <1>7, <1>8 DEF IInv

\* A job takes the cursor it reserved, or a setup the reservation of the document
\* that nobody has.
LEMMA UsingStep == ASSUME IInv, NEW r \in Requests, Using(r) PROVE IInv'
<1> USE DEF serverVars, callVars, poolVars
<1>1. UNCHANGED <<up, accepting, requests, orphaned, sweeping, inbox, generation, alive, call,
                  admittedAt, replies, job, queue, cancelled, lost, pool, lifecycle, stage>>
  BY DEF Using, Commit, ReserveStream, CommitStream
<1>2. \/ UNCHANGED reserved /\ cursor' = "consumed"
      \/ /\ r \in Setups /\ lifecycle = "open" /\ cursor = "fresh"
         /\ reserved' = reserved \cup {r} /\ cursor' = "streaming"
  BY DEF Using, Commit, ReserveStream, CommitStream, Reservable
<1>3. Shapes'
  BY <1>1, <1>2 DEF IInv, Shapes, ServerShape, MailShape, CallShape, PoolShape, DocShape,
     CursorPoints
<1>4. Rows'
  BY <1>1, RowsSame DEF IInv
<1>5. JobHoldsReservation'
  <2>1. \A q \in Selects : Pending(q)' <=> Pending(q)
    BY <1>1 DEF Pending, Running
  <2>2. QED
    BY <1>1, <1>2, <2>1 DEF IInv, JobHoldsReservation
<1>6. QED
  BY <1>1, <1>3, <1>4, <1>5, LineStays DEF IInv

\* A job that ends may say so to the server, and to the consumer of a batch;
\* only one that frees the document closes it, when nothing is reserved.
LEMMA FinishStep ==
  ASSUME IInv, NEW r \in Requests, Finish(r) \/ FinishSilently(r)
  PROVE  IInv'
<1>1. /\ job[r] \in {"running", "closing"} /\ job' = [job EXCEPT ![r] = "over"]
      /\ UNCHANGED <<up, accepting, requests, orphaned, sweeping, generation, alive,
                     admittedAt, replies, queue, cancelled, lost, pool, stage>>
  BY DEF Finish, FinishSilently, callVars, Running
<1>2. \/ inbox' = inbox
      \/ inbox' = inbox \cup {Complete(r)} /\ r \in Batches
      \/ inbox' = inbox \cup {Raw(r)}
      \/ inbox' = inbox \cup {Result(r)} /\ r \notin Batches
  BY DEF Finish, FinishSilently, Message, ReportsCancelled
<1>3. \/ call' = call
      \/ r \in Batches /\ call' = [call EXCEPT ![r] = "done"]
  BY DEF Finish, FinishSilently, callVars
<1>4. /\ lifecycle' \in {"open", "closing", "closed"}
      /\ lifecycle' = "closed" => lifecycle = "closed" \/ reserved = {}
      /\ UNCHANGED <<reserved, cursor>> \/ (r \in Setups /\ Release(r))
  <2>1. \/ UNCHANGED docVars
        \/ \E kept \in BOOLEAN : Execute(r, kept)
    BY DEF Finish, FinishSilently
  <2>2. lifecycle \in {"open", "closing", "closed"}
    BY DEF IInv, Shapes, DocShape
  <2>3. QED
    BY <2>1, <2>2 DEF Execute, Destroyable, docVars
<1>5. /\ job' \in [Requests -> JobPoints]
      /\ job'[r] = "over" /\ \A q \in Requests \ {r} : job'[q] = job[q]
  BY <1>1 DEF IInv, Shapes, PoolShape, JobPoints
<1>6. /\ call' \in [Requests -> CallPoints]
      /\ \A q \in Requests \ {r} : call'[q] = call[q]
      /\ call'[r] = call[r] \/ (r \in Batches /\ call'[r] = "done")
  BY <1>3 DEF IInv, Shapes, CallShape, CallPoints
<1>7. /\ JobHoldsReservation'
      /\ reserved' \subseteq Selects \cup Setups /\ cursor' \in CursorPoints
  <2>1. \A q \in Selects : Pending(q)' => Pending(q)
    BY <1>5 DEF Pending, Running, Requests
  <2>2. CASE UNCHANGED <<reserved, cursor>>
    BY <1>1, <1>4, <2>1, <2>2 DEF IInv, JobHoldsReservation, Shapes, DocShape
  <2>3. CASE r \in Setups /\ Release(r)
    BY <1>4, <2>1, <2>3, ReleaseHolds
  <2>4. QED
    BY <1>4, <2>2, <2>3
<1>8. Shapes'
  <2>1. MailShape'
    BY <1>2 DEF IInv, Shapes, MailShape, Complete, Raw, Result
  <2>2. ServerShape' /\ CallShape'
    BY <1>1, <1>6 DEF IInv, Shapes, ServerShape, CallShape
  <2>3. PoolShape' /\ DocShape'
    BY <1>1, <1>4, <1>5, <1>7 DEF IInv, Shapes, PoolShape, DocShape
  <2>4. QED
    BY <2>1, <2>2, <2>3 DEF Shapes
<1>9. Local(r)
  BY <1>1, <1>2, <1>5, <1>6 DEF Local, About
<1>10. Row(r)'
  <2>1. Pending(r) /\ Row(r)
    BY <1>1 DEF Pending, Running, IInv, Rows
  <2>2. /\ Submit(r) \notin inbox /\ Result(r) \notin inbox
        /\ call[r] \notin {"idle", "admitted"}
    BY <2>1, UnderWay
  <2>3. /\ Submit(r) \notin inbox'
        /\ Result(r) \in inbox' => r \notin Batches
        /\ Complete(r) \in inbox' => r \in Batches
        /\ Down(r) \in inbox' => Down(r) \in inbox
    BY <1>2, <2>1, <2>2, Messages DEF Row, Posted
  <2>4. r \in Monitored' <=> r \in Monitored
    BY <1>1 DEF Monitored
  <2>5. Live(r)' <=> Live(r)
    BY <1>1 DEF Live
  <2>6. Posted(r)'
    BY <1>5, <2>1, <2>3, <2>4, <2>5 DEF Row, Posted
  <2>7. Entered(r)'
    BY <1>1, <1>6, <2>1, <2>2, <2>5 DEF Row, Entered
  <2>8. Answered(r)'
    BY <1>1, <1>6, <2>1, <2>2, <2>4, <2>5 DEF Row, Answered
  <2>9. QED
    BY <2>6, <2>7, <2>8 DEF Row
<1>11. Rows'
  BY <1>9, <1>10, LocalRows DEF IInv
<1>12. Lined'
  <2>1. \A i \in 1..Len(queue) : queue[i] \in Requests /\ queue[i] # r
    BY <1>1 DEF IInv, Lined, Shapes, PoolShape
  <2>2. QED
    BY <1>1, <1>5, <2>1 DEF IInv, Lined
<1>13. QED
  BY <1>7, <1>8, <1>11, <1>12 DEF IInv

-----------------------------------------------------------------------------
(* The stop of the application, and the whole. *)

LEMMA StoppingStep == ASSUME IInv, AskShutdown \/ Stopping PROVE IInv'
<1> USE DEF serverVars, callVars, poolVars, docVars
<1>1. CASE AskShutdown \/ HandleShutdown \/ Advance \/ StopPool \/ Joined
  <2>0. /\ up \in BOOLEAN /\ accepting \in BOOLEAN /\ generation \in Nat \ {0}
        /\ stage \in Stages /\ pool \in {"open", "stopping"}
    BY DEF IInv, Shapes, ServerShape, PoolShape, DocShape
  <2>1. UNCHANGED <<up, requests, orphaned, sweeping, inbox, alive, call, admittedAt,
                    replies, job, queue, lost, lifecycle, cursor, reserved>>
    BY <1>1 DEF AskShutdown, HandleShutdown, Advance, StopPool, Joined
  <2>5. accepting' \in BOOLEAN
    BY <1>1, <2>0 DEF AskShutdown, HandleShutdown, Advance, StopPool, Joined
  <2>6. generation' \in Nat \ {0}
    <3>1. generation' = generation \/ generation' = generation + 1
      BY <1>1 DEF AskShutdown, HandleShutdown, Advance, StopPool, Joined
    <3>2. QED
      BY <2>0, <3>1
  <2>7. stage' \in Stages
    BY <1>1 DEF AskShutdown, HandleShutdown, Advance, StopPool, Joined, Stages
  <2>8. pool' \in {"open", "stopping"}
    BY <1>1, <2>0 DEF AskShutdown, HandleShutdown, Advance, StopPool, Joined
  <2>2. cancelled' \in [Requests -> BOOLEAN]
    BY <1>1 DEF AskShutdown, HandleShutdown, Advance, StopPool, Joined, IInv, Shapes, PoolShape
  <2>3. Shapes'
    BY <2>0, <2>1, <2>2, <2>5, <2>6, <2>7, <2>8
       DEF IInv, Shapes, ServerShape, MailShape, CallShape, PoolShape, DocShape
  <2>4. Rows'
    BY <2>1, RowsSame DEF IInv
  <2>9. QED
    BY <2>1, <2>3, <2>4, LineStays, HoldStays DEF IInv
<1>2. CASE Terminate
  <2>1. /\ up' = FALSE /\ stage' = "terminated"
        /\ requests' = {} /\ orphaned' = {} /\ sweeping' = {} /\ inbox' = {}
        /\ call' = [r \in Requests |-> IF call[r] = "waiting" THEN "exit" ELSE call[r]]
        /\ lost' = LostAtRestart
        /\ UNCHANGED <<accepting, generation, alive, admittedAt, replies, job, queue,
                       cancelled, pool, lifecycle, cursor, reserved>>
    BY <1>2 DEF Terminate
  <2>2. Shapes'
    <3>1. ServerShape' /\ MailShape'
      BY <2>1 DEF IInv, Shapes, ServerShape, MailShape
    <3>2. CallShape'
      BY <2>1, ClearedCalls DEF IInv, Shapes
    <3>3. PoolShape'
      BY <2>1 DEF IInv, Shapes, PoolShape, LostAtRestart
    <3>4. DocShape'
      BY <2>1 DEF IInv, Shapes, DocShape, Stages
    <3>5. QED
      BY <3>1, <3>2, <3>3, <3>4 DEF Shapes
  <2>3. Rows'
    BY <2>1, RowsCleared DEF IInv, Shapes
  <2>4. QED
    BY <2>1, <2>2, <2>3, LineStays, HoldStays DEF IInv
<1>3. QED
  BY <1>1, <1>2 DEF Stopping

LEMMA NextHolds == IInv /\ [Next]_vars => IInv'
<1> SUFFICES ASSUME IInv, [Next]_vars PROVE IInv'
  OBVIOUS
<1>1. CASE UNCHANGED vars
  <2>1. UNCHANGED <<serverVars, callVars, poolVars, docVars, stage>>
    BY <1>1 DEF vars
  <2>2. Shapes'
    BY <2>1 DEF IInv, Shapes, ServerShape, MailShape, CallShape, PoolShape, DocShape,
       serverVars, callVars, poolVars, docVars
  <2>3. Rows'
    BY <2>1, RowsSame DEF IInv, serverVars, callVars, poolVars
  <2>4. QED
    BY <2>1, <2>2, <2>3, LineStays, HoldStays DEF IInv, poolVars, docVars
<1>2. ASSUME NEW r \in Requests, Serving(r)
      PROVE  IInv'
  BY <1>2, SubmissionStep, StaleStep, ResultStep, SweepStep, DirectStep, DownStep, CrashStep
     DEF Serving, SweepRaises, RawRaises
<1>3. ASSUME NEW r \in Requests, Working(r) \/ Using(r) \/ Collect(r) \/ GiveBack(r)
      PROVE  IInv'
  BY <1>3, BeginStep, BeginCloseStep, FinishStep, UsingStep, CollectStep DEF Working
<1>4. QED
  BY <1>1, <1>2, <1>3, AdmitStep, CallStep, DieStep, StoppingStep DEF Next

LEMMA Inductive == Spec => []IInv
BY InitHolds, NextHolds, PTL DEF Spec

\* The types of the coordinator's state: the orphans and the cleanups of
\* orphans are entries of the table, and the queue keeps to its capacity.
THEOREM TypeCorrect == Spec => []TypeOK
<1>1. IInv => TypeOK
  BY DEF IInv, Shapes, ServerShape, MailShape, CallShape, PoolShape, DocShape, CursorPoints,
     TypeOK
<1>2. QED
  BY <1>1, Inductive, PTL

\* Whatever completions, deaths, refusals and restarts meet, a caller that
\* waits is served by the mailbox or the table, and is replied to once
\* (handle_call, handle_info and remove_request).
THEOREM EveryCallIsKept == Spec => []NobodyForgotten
<1>1. IInv => NobodyForgotten
  BY DEF IInv, Rows, Row, Answered, NobodyForgotten
<1>2. QED
  BY <1>1, Inductive, PTL

\* The reservation of a select lasts as long as its job, the document has one, of
\* a select or of a stream and its cursor, and is closed without any
\* (projection_operation_release, the destructors of an operation and of a cursor,
\* and completeThreadedDocumentCleanup).
THEOREM ReservationOutlivesJob == Spec => []JobHoldsReservation
<1>1. IInv => JobHoldsReservation
  BY DEF IInv
<1>2. QED
  BY <1>1, Inductive, PTL

-----------------------------------------------------------------------------
(* What a stop of the pool finds. *)

\* A job is accounted for: the table has its request, or its server is gone,
\* or it was cancelled when its entry went.
Accounted ==
  \A r \in Requests \ Streams :
    Pending(r) => r \in requests \/ r \in lost \/ cancelled[r]

\* Once the table was seen empty only streams come into it, unless a new
\* server accepts again.
Drained == stage = "advanced" /\ ~accepting => requests \subseteq Streams

\* The steps that start no job and take no request from the table.
LEMMA AccountedStays ==
  ASSUME Accounted, \A r \in Requests : Pending(r)' => Pending(r),
         requests \subseteq requests', lost' = lost,
         \A r \in Requests : cancelled[r] => cancelled'[r]
  PROVE  Accounted'
BY DEF Accounted

LEMMA ServingAccounted ==
  ASSUME IInv, Accounted, NEW r \in Requests, Serving(r)
  PROVE  Accounted'
<1>0. /\ cancelled \in [Requests -> BOOLEAN] /\ job \in [Requests -> JobPoints]
      /\ requests \subseteq Requests
  BY DEF IInv, Shapes, PoolShape, ServerShape
<1>1. CASE HandleSubmit(r) \/ HandleCleanup(r) \/ HandleProject(r) \/ HandleStream(r)
  <2>1. lost' = lost
    BY <1>1 DEF HandleSubmit, HandleCleanup, HandleProject, HandleStream, UnchangedByCalls
  <2>2. \A q \in Requests : cancelled[q] => cancelled'[q]
    BY <1>0, <1>1 DEF HandleSubmit, HandleCleanup, HandleProject, HandleStream
  <2>3. \/ requests' = requests \cup {r} /\ Enqueue(r)
        \/ UNCHANGED <<requests, job>>
    BY <1>1 DEF HandleSubmit, HandleCleanup, HandleProject, HandleStream, StartRequest, Refuse
  <2>4. \A q \in Requests \ {r} : job'[q] = job[q]
    BY <1>0, <2>3 DEF Enqueue
  <2>5. CASE requests' = requests \cup {r} /\ Enqueue(r)
    BY <2>1, <2>2, <2>4, <2>5 DEF Accounted, Pending, Running
  <2>6. CASE UNCHANGED <<requests, job>>
    BY <2>1, <2>2, <2>6 DEF Accounted, Pending, Running
  <2>7. QED
    BY <2>3, <2>5, <2>6
<1>2. CASE HandleStale(r)
  BY <1>2, AccountedStays DEF HandleStale, UnchangedByCompletion, poolVars, Pending, Running
<1>3. CASE HandleResult(r)
  <2>1. ~Pending(r) /\ requests' = requests \ {r} /\ UNCHANGED <<job, cancelled, lost>>
    BY <1>3, Completed DEF HandleResult, Take, Remove, UnchangedByCompletion, poolVars
  <2>2. QED
    BY <2>1 DEF Accounted, Pending, Running
<1>4. CASE Sweep(r)
  <2>1. /\ requests' = requests /\ lost' = lost /\ r \in requests
        /\ \A q \in Requests \ {r} : job'[q] = job[q] /\ cancelled'[q] = cancelled[q]
    BY <1>0, <1>4 DEF Sweep, Enqueue, IInv, Shapes, ServerShape
  <2>2. QED
    BY <2>1 DEF Accounted, Pending, Running
<1>5. CASE HandleDirect(r)
  <2>1. r \in Batches
    BY <1>5 DEF HandleDirect, Take, IInv, Rows, Row, Posted
  <2>2. r \in Streams /\ requests' = requests \ {r} /\ UNCHANGED <<job, cancelled, lost>>
    BY <1>5, <2>1 DEF HandleDirect, Remove, UnchangedByCompletion, poolVars, Streams
  <2>3. QED
    BY <2>2 DEF Accounted, Pending, Running
<1>6. CASE HandleDown(r)
  <2>1. /\ UNCHANGED <<job, lost>>
        /\ \A q \in Requests : cancelled[q] => cancelled'[q]
        /\ requests' = requests \/ (requests' = requests \ {r} /\ r \in Decodes)
    BY <1>0, <1>6 DEF HandleDown, Remove
  <2>2. r \in Decodes => cancelled'[r]
    BY <1>0, <1>6, RequestsAssumption DEF HandleDown
  <2>3. QED
    BY <2>1, <2>2 DEF Accounted, Pending, Running
<1>7. CASE Crash
  BY <1>7 DEF Crash, LostAtRestart, Accounted, Pending, Running
<1>8. QED
  BY <1>1, <1>2, <1>3, <1>4, <1>5, <1>6, <1>7 DEF Serving, SweepRaises, RawRaises

LEMMA NextAccounted == IInv /\ Accounted /\ [Next]_vars => Accounted'
<1> SUFFICES ASSUME IInv, Accounted, [Next]_vars PROVE Accounted'
  OBVIOUS
<1> USE DEF serverVars, callVars, poolVars, docVars
<1>0. cancelled \in [Requests -> BOOLEAN] /\ job \in [Requests -> JobPoints]
  BY DEF IInv, Shapes, PoolShape
<1>1. CASE UNCHANGED <<requests, lost, job, cancelled>>
  BY <1>1 DEF Accounted, Pending, Running
<1>2. ASSUME NEW r \in Requests, Begin(r)
      PROVE  Accounted'
  <2>1. queue # <<>> /\ queue \in Seq(Requests) /\ r = queue[1] /\ 1 \in 1..Len(queue)
    BY <1>2 DEF Begin, IInv, Shapes, PoolShape
  <2>2. Pending(r)
    BY <2>1 DEF IInv, Lined, Pending, Running
  <2>3. /\ UNCHANGED <<requests, lost, cancelled>>
        /\ \A q \in Requests \ {r} : job'[q] = job[q]
    BY <1>0, <1>2 DEF Begin
  <2>4. QED
    BY <2>2, <2>3 DEF Accounted, Pending, Running
<1>3. ASSUME NEW r \in Requests, BeginClose(r) \/ Finish(r) \/ FinishSilently(r)
      PROVE  Accounted'
  <2>1. /\ UNCHANGED <<requests, lost, cancelled>> /\ Running(r)
        /\ \E to \in {"closing", "over"} : job' = [job EXCEPT ![r] = to]
    BY <1>3 DEF BeginClose, Finish, FinishSilently, Running
  <2>2. \A q \in Requests : Pending(q)' => Pending(q)
    BY <1>0, <2>1 DEF Pending, Running
  <2>3. QED
    BY <2>1, <2>2 DEF Accounted
<1>4. CASE HandleShutdown
  <2>1. /\ UNCHANGED <<requests, lost, job>>
        /\ \A q \in Requests : cancelled[q] => cancelled'[q]
    BY <1>0, <1>4 DEF HandleShutdown
  <2>2. QED
    BY <2>1 DEF Accounted, Pending, Running
<1>5. CASE Terminate
  BY <1>5 DEF Terminate, LostAtRestart, Accounted, Pending, Running
<1>6. ASSUME NEW r \in Requests,
             Admit(r) \/ Call(r) \/ Using(r) \/ Collect(r) \/ GiveBack(r)
      PROVE  UNCHANGED <<requests, lost, job, cancelled>>
  BY <1>6 DEF Admit, Call, Using, Commit, ReserveStream, CommitStream, Collect, GiveBack
<1>7. ASSUME NEW c \in Callers, Die(c)
      PROVE  UNCHANGED <<requests, lost, job, cancelled>>
  BY <1>7 DEF Die
<1>8. AskShutdown \/ Advance \/ StopPool \/ Joined => UNCHANGED <<requests, lost, job, cancelled>>
  BY DEF AskShutdown, Advance, StopPool, Joined
<1>9. UNCHANGED vars => UNCHANGED <<requests, lost, job, cancelled>>
  BY DEF vars
<1>10. QED
  BY <1>1, <1>2, <1>3, <1>4, <1>5, <1>6, <1>7, <1>8, <1>9, ServingAccounted
     DEF Next, Working, Stopping

\* A server that does not accept adds only streams to its table.
LEMMA NextDrained == IInv /\ Drained /\ [Next]_vars => Drained'
<1> SUFFICES ASSUME IInv, Drained, [Next]_vars, stage' = "advanced", ~accepting'
             PROVE  requests' \subseteq Streams
  BY DEF Drained
<1> USE DEF serverVars, callVars, poolVars, docVars
<1>1. CASE UNCHANGED <<stage, accepting>> /\ requests' \subseteq requests
  BY <1>1 DEF Drained
<1>2. ASSUME NEW r \in Requests, Serving(r)
      PROVE  requests' \subseteq Streams
  <2>1. CASE HandleSubmit(r) \/ HandleCleanup(r) \/ HandleProject(r)
    <3>1. UNCHANGED <<stage, accepting>>
      BY <2>1 DEF HandleSubmit, HandleCleanup, HandleProject, UnchangedByCalls
    <3>2. requests' = requests
      BY <2>1, <3>1 DEF HandleSubmit, HandleCleanup, HandleProject, Admissible, Refuse
    <3>3. QED
      BY <1>1, <3>1, <3>2
  <2>2. CASE HandleStream(r)
    <3>1. r \in Streams /\ UNCHANGED <<stage, accepting>> /\ requests' \subseteq requests \cup {r}
      BY <2>2 DEF HandleStream, UnchangedByCalls, StartRequest
    <3>2. QED
      BY <3>1 DEF Drained
  <2>3. CASE HandleStale(r) \/ HandleResult(r) \/ Sweep(r) \/ HandleDirect(r) \/ HandleDown(r)
    <3>1. UNCHANGED <<stage, accepting>> /\ requests' \subseteq requests
      BY <2>3 DEF HandleStale, HandleResult, Sweep, HandleDirect, HandleDown, Remove,
         UnchangedByCompletion
    <3>2. QED
      BY <1>1, <3>1
  <2>4. CASE Crash
    BY <2>4 DEF Crash
  <2>5. QED
    BY <1>2, <2>1, <2>2, <2>3, <2>4 DEF Serving, SweepRaises, RawRaises
<1>3. ASSUME NEW r \in Requests,
             Admit(r) \/ Call(r) \/ Working(r) \/ Using(r) \/ Collect(r) \/ GiveBack(r)
      PROVE  UNCHANGED <<stage, accepting, requests>>
  <2>1. Admit(r) \/ Call(r) \/ Using(r) \/ Collect(r) \/ GiveBack(r) =>
          UNCHANGED <<stage, accepting, requests>>
    BY DEF Admit, Call, Using, Commit, ReserveStream, CommitStream, Collect, GiveBack
  <2>2. Working(r) => UNCHANGED <<stage, accepting, requests>>
    BY DEF Working, Begin, BeginClose, Finish, FinishSilently
  <2>3. QED
    BY <1>3, <2>1, <2>2
<1>4. ASSUME NEW c \in Callers, Die(c)
      PROVE  UNCHANGED <<stage, accepting, requests>>
  BY <1>4 DEF Die
<1>5. CASE AskShutdown \/ Stopping
  <2>1. Advance
    BY <1>5 DEF AskShutdown, Stopping, HandleShutdown, StopPool, Joined, Terminate
  <2>2. QED
    BY <2>1 DEF Advance, DrainedOfRequests
<1>6. UNCHANGED vars => UNCHANGED <<stage, accepting, requests>>
  BY DEF vars
<1>7. QED
  BY <1>1, <1>2, <1>3, <1>4, <1>5, <1>6 DEF Next

\* When prep_stop asks the pool to stop, and the server was not restarted since
\* it was told, every job in the pool but a stream's was cancelled or lost.
THEOREM StopCutsNothingShort == Spec => StopsDrained
<1>1. Init => Accounted /\ Drained
  BY DEF Init, Accounted, Drained, Pending, Running
<1>2. Spec => [](Accounted /\ Drained)
  BY <1>1, NextAccounted, NextDrained, Inductive, PTL DEF Spec
<1>3. ASSUME Accounted, Drained, [Next]_vars
      PROVE  [pool = "open" /\ pool' = "stopping" /\ ~accepting =>
                \A r \in Requests \ Streams : Pending(r) => cancelled[r] \/ r \in lost]_vars
  <2>1. SUFFICES ASSUME Next, pool = "open", pool' = "stopping", ~accepting,
                        NEW r \in Requests \ Streams, Pending(r)
                 PROVE  cancelled[r] \/ r \in lost
    BY <1>3
  <2>2. StopPool
    <3> USE DEF serverVars, callVars, poolVars, docVars
    <3>1. ASSUME NEW q \in Requests, Serving(q)
          PROVE  pool' = pool
      BY <3>1 DEF Serving, HandleSubmit, HandleCleanup, HandleProject, HandleStream,
         UnchangedByCalls, HandleStale, HandleResult, Sweep, HandleDirect, HandleDown,
         UnchangedByCompletion, SweepRaises, RawRaises, Crash
    <3>2. ASSUME NEW q \in Requests,
                 Admit(q) \/ Call(q) \/ Working(q) \/ Using(q) \/ Collect(q) \/ GiveBack(q)
          PROVE  pool' = pool
      BY <3>2 DEF Admit, Call, Working, Begin, BeginClose, Finish, FinishSilently, Using, Commit,
         ReserveStream, CommitStream, Collect, GiveBack
    <3>3. ASSUME NEW c \in Callers, Die(c)
          PROVE  pool' = pool
      BY <3>3 DEF Die
    <3>4. AskShutdown \/ HandleShutdown \/ Advance \/ Joined \/ Terminate => pool' = pool
      BY DEF AskShutdown, HandleShutdown, Advance, Joined, Terminate
    <3>5. QED
      BY <2>1, <3>1, <3>2, <3>3, <3>4 DEF Next, Stopping
  <2>3. requests \subseteq Streams
    BY <1>3, <2>1, <2>2 DEF StopPool, Drained
  <2>4. QED
    BY <1>3, <2>1, <2>3 DEF Accounted
<1>4. QED
  BY <1>2, <1>3, PTL DEF Spec, StopsDrained
=====
