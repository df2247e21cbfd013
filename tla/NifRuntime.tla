----------------------------- MODULE NifRuntime -----------------------------
(***************************************************************************)
(* Operation records and the dispatcher in one loaded library: when an     *)
(* operation is admitted (operationAdmissionAvailable, execution_begin_    *)
(* shutdown, execution_resume), and what the unload of the library waits   *)
(* for.  The emulator runs no NIF during an unload; the workers of the     *)
(* pool, the dispatcher and destructors go on.                             *)
(***************************************************************************)
EXTENDS OperationRecord, CleanupDispatcher

VARIABLE accepting    \* Runtime.accepting

vars == <<recordVars, dispatcherVars, accepting>>

Init == RecordInit /\ DispatcherInit /\ accepting = TRUE

AdmissionAvailable == Published /\ accepting

AdmitOperation(o) ==
  /\ AdmissionAvailable
  /\ Admit(o)
  /\ UNCHANGED <<dispatcherVars, accepting>>

\* The calls of the coordinator are NIFs.
CallRecord(o) ==
  /\ Published
  /\ ServerStep(o)
  /\ UNCHANGED <<dispatcherVars, accepting>>

\* A process that ends or forgets, workers and destructors need no NIF.
RecordElsewhere(o) ==
  /\ Forget(o) \/ WorkerStep(o) \/ Destroy(o)
  /\ UNCHANGED <<dispatcherVars, accepting>>

\* prep_stop begins a shutdown, the next coordinator resumes.
SetAccepting(accept) ==
  /\ Published
  /\ accepting # accept
  /\ accepting' = accept
  /\ UNCHANGED <<recordVars, dispatcherVars>>

\* A job of the pool is joined before the dispatcher is told to end.
PoolJoined == \A o \in Ops : worker[o] \in {"none", "out"}

JoinPool ==
  /\ PoolJoined
  /\ StopPool
  /\ UNCHANGED <<recordVars, accepting>>

BeginUnload ==
  /\ Unpublish
  /\ accepting' = FALSE
  /\ UNCHANGED recordVars

Dispatch ==
  /\ \/ \E d \in Docs : Detach(d)
     \/ EnqueueAny
     \/ \E reject \in BOOLEAN : Configure(reject)
     \/ ThreadStep
     \/ LiftRejection \/ RequestShutdown \/ JoinAndFree
  /\ UNCHANGED <<recordVars, accepting>>

Next ==
  \/ \E o \in Ops : AdmitOperation(o) \/ CallRecord(o) \/ RecordElsewhere(o)
  \/ \E accept \in BOOLEAN : SetAccepting(accept)
  \/ BeginUnload
  \/ JoinPool
  \/ Dispatch

Fairness ==
  /\ \A o \in Ops : WF_vars(WorkerStep(o) /\ UNCHANGED <<dispatcherVars, accepting>>)
  /\ WF_vars(ThreadStep /\ UNCHANGED <<recordVars, accepting>>)
  /\ WF_vars((LiftRejection \/ RequestShutdown \/ JoinAndFree)
               /\ UNCHANGED <<recordVars, accepting>>)
  /\ WF_vars(JoinPool)
  /\ WF_vars(EnqueueAny /\ UNCHANGED <<recordVars, accepting>>)

Spec == Init /\ [][Next]_vars /\ Fairness
=============================================================================
