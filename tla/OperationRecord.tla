--------------------------- MODULE OperationRecord ---------------------------
(***************************************************************************)
(* The retained record of one native operation, OperationRecord of         *)
(* native/zig/build_smoke.zig: one atomic word for its state, one for its  *)
(* cancellation, and the gauges that all records share.  A pool worker, the *)
(* coordinator and the destructor of the resource compete for the word.    *)
(***************************************************************************)
EXTENDS Integers, FiniteSets

CONSTANT Ops    \* the operations ever admitted

ASSUME OpsAssumption == IsFiniteSet(Ops)

VARIABLES
  state,        \* OperationRecord.state; "absent" and "freed" are not in memory
  cancelled,    \* OperationRecord.cancelled
  worker,       \* how far the job of the operation is
  server,       \* what the coordinator does with its reference
  live, queued, running, delivered, discarded   \* ExecutionAccounting

gauges  == <<live, queued, running, delivered, discarded>>
recordVars == <<state, cancelled, worker, server, gauges>>

Terminals   == {"completed", "discarded"}
Cancellable == {"queued", "running", "delivering"}
States      == Terminals \cup Cancellable \cup {"absent", "cancelling", "freed"}
WorkerSteps == {"none", "waiting", "entering", "turning", "executing", "claiming",
                "withholding", "leaving", "out"}
ServerSteps == {"none", "holds", "cancels", "gone"}
Outcomes    == {"delivered", "discarded"}

Become(o, s) == state' = [state EXCEPT ![o] = s]
WorkerTo(o, s) == worker' = [worker EXCEPT ![o] = s]
ServerTo(o, s) == server' = [server EXCEPT ![o] = s]

RecordInit ==
  /\ state = [o \in Ops |-> "absent"]
  /\ cancelled = [o \in Ops |-> FALSE]
  /\ worker = [o \in Ops |-> "none"]
  /\ server = [o \in Ops |-> "none"]
  /\ live = 0 /\ queued = 0 /\ running = 0 /\ delivered = 0 /\ discarded = 0

-----------------------------------------------------------------------------
(* The coordinator, which is one process: its calls do not overlap.        *)

\* createOperation counts the record before anyone else knows of it.  Elsewhere
\* a gauge follows the exchange that decides about it by an instruction; the two
\* are one step here.
Admit(o) ==
  /\ state[o] = "absent"
  /\ Become(o, "queued")
  /\ ServerTo(o, "holds")
  /\ live' = live + 1
  /\ queued' = queued + 1
  /\ UNCHANGED <<cancelled, worker, running, delivered, discarded>>

\* The job in the queue of the pool keeps a reference of its own.
Submit(o) ==
  /\ server[o] = "holds"
  /\ worker[o] = "none"
  /\ WorkerTo(o, "waiting")
  /\ UNCHANGED <<state, cancelled, server, gauges>>

\* accountDequeued, for whoever takes the word away from "queued".
Dequeued(o) == IF state[o] = "queued" THEN queued - 1 ELSE queued

\* cancel raises the flag and then exchanges the word, until the exchange
\* succeeds or there is nothing to cancel: the loop ends in one exchange that
\* finds the state it expects.
RaiseCancel(o) ==
  /\ server[o] = "holds"
  /\ cancelled' = [cancelled EXCEPT ![o] = TRUE]
  /\ ServerTo(o, "cancels")
  /\ UNCHANGED <<state, worker, gauges>>

SwapCancelling(o) ==
  /\ server[o] = "cancels"
  /\ ServerTo(o, "holds")
  /\ Become(o, IF state[o] \in Cancellable THEN "cancelling" ELSE state[o])
  /\ queued' = Dequeued(o)
  /\ UNCHANGED <<cancelled, worker, live, running, delivered, discarded>>

SettlesAgain(o) == state[o] # "running"   \* mutant: finishes a finished record again

\* finish returns without a change for a running or a finished record.
Settles(o) == state[o] \in {"queued", "cancelling", "delivering"}

Verdict(o, outcome) ==
  IF outcome = "delivered" /\ state[o] = "delivering" THEN "completed" ELSE "discarded"

CountVerdict(o, outcome) ==
  /\ queued' = Dequeued(o)
  /\ delivered' = IF Settles(o) /\ Verdict(o, outcome) = "completed"
                    THEN delivered + 1 ELSE delivered
  /\ discarded' = IF Settles(o) /\ Verdict(o, outcome) = "discarded"
                    THEN discarded + 1 ELSE discarded

\* The submission was refused, or the message of the job arrived, which the
\* worker sends before it gives up the job.
Finish(o, outcome) ==
  /\ server[o] = "holds"
  /\ worker[o] \in {"none", "leaving", "out"}
  /\ worker[o] = "none" => outcome = "discarded"
  /\ Become(o, IF Settles(o) THEN Verdict(o, outcome) ELSE state[o])
  /\ CountVerdict(o, outcome)
  /\ ServerTo(o, "gone")
  /\ UNCHANGED <<cancelled, worker, live, running>>

\* The record is dropped unfinished: the decode of a dead caller, a call that
\* died before its submission, a restart of the coordinator.
Forget(o) ==
  /\ server[o] = "holds"
  /\ ServerTo(o, "gone")
  /\ UNCHANGED <<state, cancelled, worker, gauges>>

-----------------------------------------------------------------------------
(* The worker.                                                             *)

\* workerMain tests the cancellation of the job, the request and the record;
\* the first two may be raised whatever the record says.
Skip(o) ==
  /\ worker[o] = "waiting"
  /\ WorkerTo(o, "leaving")
  /\ UNCHANGED <<state, cancelled, server, gauges>>

\* beginRunning reads the flag, and then exchanges the word.
LoadFlag(o) ==
  /\ worker[o] = "waiting"
  /\ WorkerTo(o, IF cancelled[o] THEN "turning" ELSE "entering")
  /\ UNCHANGED <<state, cancelled, server, gauges>>

TurnBack(o) ==
  /\ worker[o] = "turning"
  /\ WorkerTo(o, "leaving")
  /\ Become(o, IF state[o] = "queued" THEN "cancelling" ELSE state[o])
  /\ queued' = Dequeued(o)
  /\ UNCHANGED <<cancelled, server, live, running, delivered, discarded>>

EnterAnyhow(o) ==   \* mutant: stores the new state instead of exchanging it
  /\ worker[o] = "entering"
  /\ Become(o, "running")
  /\ WorkerTo(o, "executing")
  /\ running' = running + 1
  /\ queued' = Dequeued(o)
  /\ UNCHANGED <<cancelled, server, live, delivered, discarded>>

Enter(o) ==
  /\ worker[o] = "entering"
  /\ IF state[o] = "queued"
       THEN /\ Become(o, "running")
            /\ WorkerTo(o, "executing")
            /\ running' = running + 1
       ELSE /\ WorkerTo(o, "leaving")
            /\ UNCHANGED <<state, running>>
  /\ queued' = Dequeued(o)
  /\ UNCHANGED <<cancelled, server, live, delivered, discarded>>

\* abortRunning, on an error or at a boundary that finds the flag.
Abort(o) ==
  /\ worker[o] = "executing"
  /\ IF state[o] \in {"running", "cancelling"}
       THEN Become(o, "cancelling") /\ running' = running - 1
       ELSE UNCHANGED <<state, running>>
  /\ WorkerTo(o, "leaving")
  /\ UNCHANGED <<cancelled, server, live, queued, delivered, discarded>>

\* markReadyForDelivery reads the flag, and then stores, whatever happened since.
TestFlag(o) ==
  /\ worker[o] = "executing"
  /\ running' = running - 1
  /\ WorkerTo(o, IF cancelled[o] THEN "withholding" ELSE "claiming")
  /\ UNCHANGED <<state, cancelled, server, live, queued, delivered, discarded>>

Claim(o) ==
  /\ worker[o] \in {"claiming", "withholding"}
  /\ Become(o, IF worker[o] = "claiming" THEN "delivering" ELSE "cancelling")
  /\ WorkerTo(o, "leaving")
  /\ UNCHANGED <<cancelled, server, gauges>>

\* Job.destroy releases the reference of the job.
Release(o) ==
  /\ worker[o] = "leaving"
  /\ WorkerTo(o, "out")
  /\ UNCHANGED <<state, cancelled, server, gauges>>

-----------------------------------------------------------------------------
(* The destructor runs when neither the coordinator nor the job refers.     *)

Destroy(o) ==
  /\ server[o] = "gone"
  /\ worker[o] \in {"none", "out"}
  /\ state[o] # "freed"
  /\ CountVerdict(o, "discarded")
  /\ Become(o, "freed")
  /\ live' = live - 1
  /\ UNCHANGED <<cancelled, worker, server, running>>

ServerStep(o) ==
  \/ Submit(o)
  \/ RaiseCancel(o)
  \/ SwapCancelling(o)
  \/ \E outcome \in Outcomes : Finish(o, outcome)

WorkerStep(o) ==
  \/ Skip(o)
  \/ LoadFlag(o)
  \/ TurnBack(o)
  \/ Enter(o)
  \/ Abort(o)
  \/ TestFlag(o)
  \/ Claim(o)
  \/ Release(o)

RecordStep(o) == Admit(o) \/ ServerStep(o) \/ Forget(o) \/ WorkerStep(o) \/ Destroy(o)

RecordNext == \E o \in Ops : RecordStep(o)

RecordSpec == RecordInit /\ [][RecordNext]_recordVars

-----------------------------------------------------------------------------
RecordTypeOK ==
  /\ state \in [Ops -> States]
  /\ cancelled \in [Ops -> BOOLEAN]
  /\ worker \in [Ops -> WorkerSteps]
  /\ server \in [Ops -> ServerSteps]
  /\ live \in Int /\ queued \in Int /\ running \in Int
  /\ delivered \in Int /\ discarded \in Int

Waiting   == {o \in Ops : state[o] = "queued"}
Executing == {o \in Ops : worker[o] = "executing"}
Living    == {o \in Ops : state[o] \notin {"absent", "freed"}}
Judged    == {o \in Ops : state[o] \in Terminals \cup {"freed"}}

\* Whatever order cancellation, execution, completion and destruction meet in,
\* a record ends in one verdict, counted once, every gauge says how many records
\* it is about, and so none of the assertions that guard a decrement can fail.
CountedOnce ==
  /\ live = Cardinality(Living)
  /\ queued = Cardinality(Waiting)
  /\ running = Cardinality(Executing)
  /\ delivered + discarded = Cardinality(Judged)

\* An operation whose cancellation returned neither waits to run nor counts as
\* running: no later step of a worker enters it, although the worker may have
\* read the flag before it was raised, and may overwrite the word.
CancelSticks ==
  \A o \in Ops :
    cancelled[o] /\ server[o] # "cancels" => state[o] \notin {"queued", "running"}
=============================================================================
