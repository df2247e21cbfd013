-------------------------- MODULE NifRuntimeProofs --------------------------
(***************************************************************************)
(* Theorems about the records, for any finite set of operations, about the *)
(* dispatcher, for any finite set of documents, and about the library that *)
(* composes them.                                                          *)
(*                                                                         *)
(* CountedOnce is inductive only with the knowledge of what a worker, at   *)
(* each of its steps, may find in the word (Shaped): nobody else leaves    *)
(* a terminal state there while a job can still store into it.  The four   *)
(* counts change by the record of the step alone; lemma CountsMove says    *)
(* so once, and every step is then arithmetic on the old and new states    *)
(* of one record.                                                          *)
(*                                                                         *)
(* The intrusive lists of the dispatcher hold the documents handed over.   *)
(* Each step of the composition is a step of either part, or none, so its  *)
(* behaviours are behaviours of both.                                      *)
(***************************************************************************)
EXTENDS NifRuntime, FiniteSetTheorems, TLAPS

-----------------------------------------------------------------------------
(* The records. *)

\* What each step of a worker may find in the word of its record, and what the
\* coordinator's reference says of it.
Found == [none        |-> {"absent", "queued", "cancelling", "discarded", "freed"},
          waiting     |-> {"queued", "cancelling"},
          entering    |-> {"queued", "cancelling"},
          turning     |-> {"queued", "cancelling"},
          executing   |-> {"running", "cancelling"},
          claiming    |-> {"running", "cancelling"},
          withholding |-> {"running", "cancelling"},
          leaving     |-> {"queued", "cancelling", "delivering", "completed", "discarded"},
          out         |-> {"queued", "cancelling", "delivering", "completed", "discarded",
                           "freed"}]

RecordShaped(o) ==
  /\ state[o] \in Found[worker[o]]
  /\ server[o] = "none" <=> state[o] = "absent"
  /\ state[o] = "absent" => ~cancelled[o]
  /\ state[o] \in Terminals \cup {"freed"} => server[o] = "gone"

Shaped == \A o \in Ops : RecordShaped(o)

RecordIInv == RecordTypeOK /\ Shaped /\ CountedOnce /\ CancelSticks

-----------------------------------------------------------------------------
(* Two sets that agree but for one element differ in size as it tells.     *)

Weight(x, S) == IF x \in S THEN 1 ELSE 0

LEMMA Tally ==
  ASSUME NEW S, IsFiniteSet(S), NEW A \in SUBSET S, NEW B \in SUBSET S, NEW x \in S,
         A \ {x} = B \ {x}
  PROVE  Cardinality(B) = Cardinality(A) - Weight(x, A) + Weight(x, B)
<1>1. IsFiniteSet(A) /\ IsFiniteSet(B)
  BY FS_Subset
<1>2. Cardinality(A) \in Nat /\ Cardinality(B) \in Nat
  BY <1>1, FS_CardinalityType
<1>3. Cardinality(A \ {x}) = IF x \in A THEN Cardinality(A) - 1 ELSE Cardinality(A)
  BY <1>1, FS_RemoveElement
<1>4. Cardinality(B \ {x}) = IF x \in B THEN Cardinality(B) - 1 ELSE Cardinality(B)
  BY <1>1, FS_RemoveElement
<1>5. Cardinality(A \ {x}) = Cardinality(B \ {x})
  OBVIOUS
<1>6. Weight(x, A) = (IF x \in A THEN 1 ELSE 0) /\ Weight(x, B) = (IF x \in B THEN 1 ELSE 0)
  BY DEF Weight
<1> HIDE DEF Weight
<1>7. CASE x \in A /\ x \in B
  BY <1>2, <1>3, <1>4, <1>5, <1>6, <1>7
<1>8. CASE x \in A /\ x \notin B
  BY <1>2, <1>3, <1>4, <1>5, <1>6, <1>8
<1>9. CASE x \notin A /\ x \in B
  BY <1>2, <1>3, <1>4, <1>5, <1>6, <1>9
<1>10. CASE x \notin A /\ x \notin B
  BY <1>2, <1>3, <1>4, <1>5, <1>6, <1>10
<1> QED
  BY <1>7, <1>8, <1>9, <1>10

LEMMA CountsMove ==
  ASSUME NEW o \in Ops, RecordTypeOK, RecordTypeOK',
         \A p \in Ops \ {o} : state'[p] = state[p] /\ worker'[p] = worker[p]
  PROVE  /\ Cardinality(Living') =
              Cardinality(Living) - Weight(o, Living) + Weight(o, Living')
         /\ Cardinality(Waiting') =
              Cardinality(Waiting) - Weight(o, Waiting) + Weight(o, Waiting')
         /\ Cardinality(Executing') =
              Cardinality(Executing) - Weight(o, Executing) + Weight(o, Executing')
         /\ Cardinality(Judged') =
              Cardinality(Judged) - Weight(o, Judged) + Weight(o, Judged')
<1>1. /\ Living \in SUBSET Ops /\ Living' \in SUBSET Ops
      /\ Living \ {o} = Living' \ {o}
  BY DEF Living
<1>2. /\ Waiting \in SUBSET Ops /\ Waiting' \in SUBSET Ops
      /\ Waiting \ {o} = Waiting' \ {o}
  BY DEF Waiting
<1>3. /\ Executing \in SUBSET Ops /\ Executing' \in SUBSET Ops
      /\ Executing \ {o} = Executing' \ {o}
  BY DEF Executing
<1>4. /\ Judged \in SUBSET Ops /\ Judged' \in SUBSET Ops
      /\ Judged \ {o} = Judged' \ {o}
  BY DEF Judged
<1> QED
  BY <1>1, <1>2, <1>3, <1>4, Tally, OpsAssumption

-----------------------------------------------------------------------------
(* A step touches one record: what it does there decides.                  *)

LiveWeight(s)   == IF s \in {"absent", "freed"} THEN 0 ELSE 1
WaitWeight(s)   == IF s = "queued" THEN 1 ELSE 0
RunWeight(w)    == IF w = "executing" THEN 1 ELSE 0
JudgedWeight(s) == IF s \in Terminals \cup {"freed"} THEN 1 ELSE 0

Stuck(o) == cancelled[o] /\ server[o] # "cancels" => state[o] \notin {"queued", "running"}

Only(o) ==
  \A p \in Ops \ {o} : /\ state'[p] = state[p] /\ cancelled'[p] = cancelled[p]
                        /\ worker'[p] = worker[p] /\ server'[p] = server[p]

Tallied(o) ==
  /\ live' = live - LiveWeight(state[o]) + LiveWeight(state'[o])
  /\ queued' = queued - WaitWeight(state[o]) + WaitWeight(state'[o])
  /\ running' = running - RunWeight(worker[o]) + RunWeight(worker'[o])
  /\ delivered' + discarded' =
       delivered + discarded - JudgedWeight(state[o]) + JudgedWeight(state'[o])

LEMMA Locally ==
  ASSUME RecordIInv, NEW o \in Ops, RecordTypeOK', Only(o), RecordShaped(o)', Stuck(o)', Tallied(o)
  PROVE  RecordIInv'
<1>1. Shaped'
  BY DEF RecordIInv, Shaped, RecordShaped, Only
<1>2. CancelSticks'
  BY DEF RecordIInv, CancelSticks, Stuck, Only
<1>3. CountedOnce'
  <2>1. /\ Weight(o, Living) = LiveWeight(state[o])
        /\ Weight(o, Living') = LiveWeight(state'[o])
    BY DEF Weight, LiveWeight, Living
  <2>2. /\ Weight(o, Waiting) = WaitWeight(state[o])
        /\ Weight(o, Waiting') = WaitWeight(state'[o])
    BY DEF Weight, WaitWeight, Waiting
  <2>3. /\ Weight(o, Executing) = RunWeight(worker[o])
        /\ Weight(o, Executing') = RunWeight(worker'[o])
    BY DEF Weight, RunWeight, Executing
  <2>4. /\ Weight(o, Judged) = JudgedWeight(state[o])
        /\ Weight(o, Judged') = JudgedWeight(state'[o])
    BY DEF Weight, JudgedWeight, Judged
  <2>5. /\ live = Cardinality(Living) /\ queued = Cardinality(Waiting)
        /\ running = Cardinality(Executing) /\ delivered + discarded = Cardinality(Judged)
    BY DEF RecordIInv, CountedOnce
  <2>6. /\ Cardinality(Living') = live - LiveWeight(state[o]) + LiveWeight(state'[o])
        /\ Cardinality(Waiting') = queued - WaitWeight(state[o]) + WaitWeight(state'[o])
        /\ Cardinality(Executing') = running - RunWeight(worker[o]) + RunWeight(worker'[o])
        /\ Cardinality(Judged') = delivered + discarded
                                   - JudgedWeight(state[o]) + JudgedWeight(state'[o])
    <3>1. RecordTypeOK /\ \A p \in Ops \ {o} : state'[p] = state[p] /\ worker'[p] = worker[p]
      BY DEF RecordIInv, Only
    <3>2. /\ Cardinality(Living') =
               Cardinality(Living) - Weight(o, Living) + Weight(o, Living')
          /\ Cardinality(Waiting') =
               Cardinality(Waiting) - Weight(o, Waiting) + Weight(o, Waiting')
          /\ Cardinality(Executing') =
               Cardinality(Executing) - Weight(o, Executing) + Weight(o, Executing')
          /\ Cardinality(Judged') =
               Cardinality(Judged) - Weight(o, Judged) + Weight(o, Judged')
      BY <3>1, CountsMove
    <3>3. Cardinality(Living') = live - LiveWeight(state[o]) + LiveWeight(state'[o])
      BY <2>1, <2>5, <3>2
    <3>4. Cardinality(Waiting') = queued - WaitWeight(state[o]) + WaitWeight(state'[o])
      BY <2>2, <2>5, <3>2
    <3>5. Cardinality(Executing') = running - RunWeight(worker[o]) + RunWeight(worker'[o])
      BY <2>3, <2>5, <3>2
    <3>6. Cardinality(Judged') = delivered + discarded
                                   - JudgedWeight(state[o]) + JudgedWeight(state'[o])
      <4>1. delivered \in Int /\ discarded \in Int
        BY DEF RecordIInv, RecordTypeOK
      <4>2. JudgedWeight(state[o]) \in Int /\ JudgedWeight(state'[o]) \in Int
        BY DEF JudgedWeight
      <4> HIDE DEF JudgedWeight
      <4> QED
        BY <2>4, <2>5, <3>2, <4>1, <4>2
    <3> QED
      BY <3>3, <3>4, <3>5, <3>6
  <2> QED
    BY <2>6, Zenon DEF CountedOnce, Tallied
<1> QED
  BY <1>1, <1>2, <1>3 DEF RecordIInv

-----------------------------------------------------------------------------
(* The steps of the coordinator.                                           *)

LEMMA AdmitStep ==
  ASSUME RecordIInv, NEW o \in Ops, Admit(o)
  PROVE  RecordIInv'
<1> USE DEF RecordIInv, RecordTypeOK, Admit, Become, ServerTo
<1>1. RecordTypeOK'
  BY DEF States, Cancellable, ServerSteps
<1>2. Only(o)
  BY DEF Only
<1>3. RecordShaped(o)' /\ Stuck(o)'
  BY DEF Shaped, RecordShaped, Stuck, Found, WorkerSteps, Terminals
<1>4. Tallied(o)
  BY DEF Tallied, LiveWeight, WaitWeight, RunWeight, JudgedWeight, Terminals
<1> QED
  BY <1>1, <1>2, <1>3, <1>4, Locally

LEMMA SubmitStep ==
  ASSUME RecordIInv, NEW o \in Ops, Submit(o)
  PROVE  RecordIInv'
<1> USE DEF RecordIInv, RecordTypeOK, Submit, WorkerTo, gauges
<1>1. RecordTypeOK'
  BY DEF WorkerSteps
<1>2. Only(o)
  BY DEF Only
<1>3. RecordShaped(o)' /\ Stuck(o)'
  BY DEF Shaped, RecordShaped, CancelSticks, Stuck, Found, Terminals
<1>4. Tallied(o)
  BY DEF Tallied, LiveWeight, WaitWeight, RunWeight, JudgedWeight
<1> QED
  BY <1>1, <1>2, <1>3, <1>4, Locally

LEMMA RaiseCancelStep ==
  ASSUME RecordIInv, NEW o \in Ops, RaiseCancel(o)
  PROVE  RecordIInv'
<1> USE DEF RecordIInv, RecordTypeOK, RaiseCancel, ServerTo, gauges
<1>1. RecordTypeOK'
  BY DEF ServerSteps
<1>2. Only(o)
  BY DEF Only
<1>3. RecordShaped(o)' /\ Stuck(o)'
  BY DEF Shaped, RecordShaped, Stuck
<1>4. Tallied(o)
  BY DEF Tallied, LiveWeight, WaitWeight, RunWeight, JudgedWeight
<1> QED
  BY <1>1, <1>2, <1>3, <1>4, Locally

LEMMA SwapCancellingStep ==
  ASSUME RecordIInv, NEW o \in Ops, SwapCancelling(o)
  PROVE  RecordIInv'
<1> USE DEF RecordIInv, RecordTypeOK, SwapCancelling, Become, ServerTo, Dequeued, Cancellable, gauges
<1>1. RecordTypeOK'
  BY DEF States, ServerSteps
<1>2. Only(o)
  BY DEF Only
<1>3. RecordShaped(o)' /\ Stuck(o)'
  BY DEF Shaped, RecordShaped, Stuck, Found, WorkerSteps, Terminals
<1>4. Tallied(o)
  BY DEF Tallied, LiveWeight, WaitWeight, RunWeight, JudgedWeight, Terminals
<1> QED
  BY <1>1, <1>2, <1>3, <1>4, Locally

LEMMA ForgetStep ==
  ASSUME RecordIInv, NEW o \in Ops, Forget(o)
  PROVE  RecordIInv'
<1> USE DEF RecordIInv, RecordTypeOK, Forget, ServerTo, gauges
<1>1. RecordTypeOK'
  BY DEF ServerSteps
<1>2. Only(o)
  BY DEF Only
<1>3. RecordShaped(o)' /\ Stuck(o)'
  BY DEF Shaped, RecordShaped, CancelSticks, Stuck
<1>4. Tallied(o)
  BY DEF Tallied, LiveWeight, WaitWeight, RunWeight, JudgedWeight
<1> QED
  BY <1>1, <1>2, <1>3, <1>4, Locally

LEMMA FinishStep ==
  ASSUME RecordIInv, NEW o \in Ops, NEW outcome \in Outcomes, Finish(o, outcome)
  PROVE  RecordIInv'
<1> USE DEF RecordIInv, RecordTypeOK, Finish, Become, ServerTo, CountVerdict, Settles, Verdict, Dequeued, Outcomes, gauges
<1>1. RecordTypeOK'
  BY DEF States, Terminals, ServerSteps
<1>2. Only(o)
  BY DEF Only
<1>3. RecordShaped(o)' /\ Stuck(o)'
  BY DEF Shaped, RecordShaped, Stuck, Found
<1>4. Tallied(o)
  BY DEF Tallied, LiveWeight, WaitWeight, RunWeight, JudgedWeight, Terminals
<1> QED
  BY <1>1, <1>2, <1>3, <1>4, Locally

-----------------------------------------------------------------------------
(* The steps of the worker and of the destructor.                          *)

LEMMA SkipStep ==
  ASSUME RecordIInv, NEW o \in Ops, Skip(o)
  PROVE  RecordIInv'
<1> USE DEF RecordIInv, RecordTypeOK, Skip, WorkerTo, gauges
<1>1. RecordTypeOK'
  BY DEF WorkerSteps
<1>2. Only(o)
  BY DEF Only
<1>3. RecordShaped(o)' /\ Stuck(o)'
  BY DEF Shaped, RecordShaped, CancelSticks, Stuck, Found
<1>4. Tallied(o)
  BY DEF Tallied, LiveWeight, WaitWeight, RunWeight, JudgedWeight
<1> QED
  BY <1>1, <1>2, <1>3, <1>4, Locally

LEMMA LoadFlagStep ==
  ASSUME RecordIInv, NEW o \in Ops, LoadFlag(o)
  PROVE  RecordIInv'
<1> USE DEF RecordIInv, RecordTypeOK, LoadFlag, WorkerTo, gauges
<1>1. RecordTypeOK'
  BY DEF WorkerSteps
<1>2. Only(o)
  BY DEF Only
<1>3. RecordShaped(o)' /\ Stuck(o)'
  BY DEF Shaped, RecordShaped, CancelSticks, Stuck, Found
<1>4. Tallied(o)
  BY DEF Tallied, LiveWeight, WaitWeight, RunWeight, JudgedWeight
<1> QED
  BY <1>1, <1>2, <1>3, <1>4, Locally

LEMMA TurnBackStep ==
  ASSUME RecordIInv, NEW o \in Ops, TurnBack(o)
  PROVE  RecordIInv'
<1> USE DEF RecordIInv, RecordTypeOK, TurnBack, Become, WorkerTo, Dequeued, gauges
<1>1. RecordTypeOK'
  BY DEF States, WorkerSteps
<1>2. Only(o)
  BY DEF Only
<1>3. RecordShaped(o)' /\ Stuck(o)'
  BY DEF Shaped, RecordShaped, Stuck, Found, Terminals
<1>4. Tallied(o)
  BY DEF Tallied, LiveWeight, WaitWeight, RunWeight, JudgedWeight, Terminals
<1> QED
  BY <1>1, <1>2, <1>3, <1>4, Locally

LEMMA EnterStep ==
  ASSUME RecordIInv, NEW o \in Ops, Enter(o)
  PROVE  RecordIInv'
<1> USE DEF RecordIInv, RecordTypeOK, Enter, Become, WorkerTo, Dequeued, gauges
<1>1. RecordTypeOK'
  BY DEF States, Cancellable, WorkerSteps
<1>2. Only(o)
  BY DEF Only
<1>3. RecordShaped(o)' /\ Stuck(o)'
  BY DEF Shaped, RecordShaped, CancelSticks, Stuck, Found, Terminals
<1>4. Tallied(o)
  BY DEF Tallied, LiveWeight, WaitWeight, RunWeight, JudgedWeight, Terminals
<1> QED
  BY <1>1, <1>2, <1>3, <1>4, Locally

LEMMA AbortStep ==
  ASSUME RecordIInv, NEW o \in Ops, Abort(o)
  PROVE  RecordIInv'
<1> USE DEF RecordIInv, RecordTypeOK, Abort, Become, WorkerTo, gauges
<1>1. RecordTypeOK'
  BY DEF States, WorkerSteps
<1>2. Only(o)
  BY DEF Only
<1>3. RecordShaped(o)' /\ Stuck(o)'
  BY DEF Shaped, RecordShaped, Stuck, Found, Terminals
<1>4. Tallied(o)
  BY DEF Shaped, RecordShaped, Found, Tallied, LiveWeight, WaitWeight, RunWeight, JudgedWeight, Terminals
<1> QED
  BY <1>1, <1>2, <1>3, <1>4, Locally

LEMMA TestFlagStep ==
  ASSUME RecordIInv, NEW o \in Ops, TestFlag(o)
  PROVE  RecordIInv'
<1> USE DEF RecordIInv, RecordTypeOK, TestFlag, WorkerTo, gauges
<1>1. RecordTypeOK'
  BY DEF WorkerSteps
<1>2. Only(o)
  BY DEF Only
<1>3. RecordShaped(o)' /\ Stuck(o)'
  BY DEF Shaped, RecordShaped, CancelSticks, Stuck, Found
<1>4. Tallied(o)
  BY DEF Tallied, LiveWeight, WaitWeight, RunWeight, JudgedWeight
<1> QED
  BY <1>1, <1>2, <1>3, <1>4, Locally

LEMMA ClaimStep ==
  ASSUME RecordIInv, NEW o \in Ops, Claim(o)
  PROVE  RecordIInv'
<1> USE DEF RecordIInv, RecordTypeOK, Claim, Become, WorkerTo, gauges
<1>1. RecordTypeOK'
  BY DEF States, Cancellable, WorkerSteps
<1>2. Only(o)
  BY DEF Only
<1>3. RecordShaped(o)' /\ Stuck(o)'
  BY DEF Shaped, RecordShaped, Stuck, Found, Terminals
<1>4. Tallied(o)
  BY DEF Shaped, RecordShaped, Found, Tallied, LiveWeight, WaitWeight, RunWeight, JudgedWeight, Terminals
<1> QED
  BY <1>1, <1>2, <1>3, <1>4, Locally

LEMMA ReleaseStep ==
  ASSUME RecordIInv, NEW o \in Ops, Release(o)
  PROVE  RecordIInv'
<1> USE DEF RecordIInv, RecordTypeOK, Release, WorkerTo, gauges
<1>1. RecordTypeOK'
  BY DEF WorkerSteps
<1>2. Only(o)
  BY DEF Only
<1>3. RecordShaped(o)' /\ Stuck(o)'
  BY DEF Shaped, RecordShaped, CancelSticks, Stuck, Found
<1>4. Tallied(o)
  BY DEF Tallied, LiveWeight, WaitWeight, RunWeight, JudgedWeight
<1> QED
  BY <1>1, <1>2, <1>3, <1>4, Locally

LEMMA DestroyStep ==
  ASSUME RecordIInv, NEW o \in Ops, Destroy(o)
  PROVE  RecordIInv'
<1> USE DEF RecordIInv, RecordTypeOK, Destroy, Become, CountVerdict, Settles, Verdict, Dequeued, gauges
<1>1. RecordTypeOK'
  BY DEF States
<1>2. Only(o)
  BY DEF Only
<1>3. RecordShaped(o)' /\ Stuck(o)'
  BY DEF RecordShaped, Stuck, Found
<1>4. Tallied(o)
  BY DEF Shaped, RecordShaped, Found, Tallied, LiveWeight, WaitWeight, RunWeight, JudgedWeight, Terminals
<1> QED
  BY <1>1, <1>2, <1>3, <1>4, Locally

-----------------------------------------------------------------------------
LEMMA RecordInitially == RecordInit => RecordIInv
<1> SUFFICES ASSUME RecordInit PROVE RecordIInv
  OBVIOUS
<1>1. RecordTypeOK /\ Shaped /\ CancelSticks
  BY DEF RecordInit, RecordTypeOK, States, WorkerSteps, ServerSteps, Shaped, RecordShaped,
         Found, CancelSticks, Terminals
<1>2. Living = {} /\ Waiting = {} /\ Executing = {} /\ Judged = {}
  BY DEF RecordInit, Living, Waiting, Executing, Judged, Terminals
<1>3. CountedOnce
  BY <1>2, FS_EmptySet DEF RecordInit, CountedOnce
<1> QED
  BY <1>1, <1>3 DEF RecordIInv

LEMMA RecordPreserved == RecordIInv /\ [RecordNext]_recordVars => RecordIInv'
<1> SUFFICES ASSUME RecordIInv, [RecordNext]_recordVars PROVE RecordIInv'
  OBVIOUS
<1>1. CASE UNCHANGED recordVars
  BY <1>1 DEF recordVars, gauges, RecordIInv, RecordTypeOK, Shaped, RecordShaped, CountedOnce,
              Living, Waiting, Executing, Judged, CancelSticks
<1>2. ASSUME NEW o \in Ops, RecordStep(o)
      PROVE  RecordIInv'
  BY <1>2, AdmitStep, SubmitStep, RaiseCancelStep, SwapCancellingStep, FinishStep, ForgetStep,
     SkipStep, LoadFlagStep, TurnBackStep, EnterStep, AbortStep, TestFlagStep, ClaimStep,
     ReleaseStep, DestroyStep, Zenon DEF RecordStep, ServerStep, WorkerStep
<1> QED
  BY <1>1, <1>2 DEF RecordNext

LEMMA RecordInvariant == RecordSpec => []RecordIInv
  BY RecordInitially, RecordPreserved, PTL DEF RecordSpec

\* Every record is counted in one verdict, and every gauge is the number of the
\* records it is about (finish, cancel, beginRunning, markReadyForDelivery and the
\* destructor of OperationRecord, in any order).
THEOREM VerdictsCountedOnce == RecordSpec => []CountedOnce
<1>1. RecordIInv => CountedOnce
  BY DEF RecordIInv
<1> QED
  BY <1>1, RecordInvariant, PTL

\* An operation whose cancellation returned does not begin any more.
THEOREM CancelledStaysOut == RecordSpec => []CancelSticks
<1>1. RecordIInv => CancelSticks
  BY DEF RecordIInv
<1> QED
  BY <1>1, RecordInvariant, PTL

-----------------------------------------------------------------------------
(* Lists.  Visits says that f enumerates S along the links from head to     *)
(* tail; its length is free, which makes it easier to move than Chains.    *)

Visits(link, list, S, n, f) ==
  /\ n \in Nat
  /\ f \in [1..n -> S]
  /\ \A i, j \in 1..n : f[i] = f[j] => i = j
  /\ \A x \in S : \E i \in 1..n : f[i] = x
  /\ n = 0 => list = Empty
  /\ n > 0 => /\ list = [head |-> f[1], tail |-> f[n]]
              /\ link[f[n]] = NoDoc
  /\ \A i \in 1..(n - 1) : link[f[i]] = f[i + 1]

Whole(link, list, S) == \E n, f : Visits(link, list, S, n, f)

LEMMA WholeChains ==
  ASSUME NEW link, NEW list, NEW S, IsFiniteSet(S)
  PROVE  Whole(link, list, S) <=> Chains(link, list, S)
<1>1. ASSUME Whole(link, list, S)
      PROVE  Chains(link, list, S)
  <2>1. PICK n, f : Visits(link, list, S, n, f)
    BY <1>1 DEF Whole
  <2>0. n \in Nat /\ f \in [1..n -> S]
    BY <2>1 DEF Visits
  <2> USE <2>0
  <2>2. f \in Bijection(1..n, S)
    BY <2>1 DEF Visits, Bijection, Injection, Surjection, IsInjective
  <2>3. Cardinality(S) = n
    BY <2>2, FS_CountingElements DEF ExistsBijection
  <2>4. CASE n = 0
    BY <2>1, <2>4 DEF Visits, Chains
  <2>5. CASE n > 0
    <3>1. S # {}
      BY <2>1, <2>5
    <3>2. /\ list = [head |-> f[1], tail |-> f[n]]
          /\ link[list.tail] = NoDoc
          /\ \A i \in 1..(n - 1) : link[f[i]] = f[i + 1]
      BY <2>1, <2>5 DEF Visits
    <3> QED
      BY <2>2, <2>3, <3>1, <3>2 DEF Chains
  <2> QED
    BY <2>4, <2>5
<1>2. ASSUME Chains(link, list, S)
      PROVE  Whole(link, list, S)
  <2>1. Cardinality(S) \in Nat
    BY FS_CardinalityType
  <2>2. CASE S = {}
    <3>1. [i \in 1..0 |-> NoDoc] \in [1..0 -> S]
      BY <2>2
    <3>2. Visits(link, list, S, 0, [i \in 1..0 |-> NoDoc])
      BY <1>2, <2>2, <3>1 DEF Visits, Chains
    <3> QED
      BY <3>1, <3>2 DEF Whole
  <2>3. CASE S # {}
    <3>1. PICK f \in Bijection(1..Cardinality(S), S) :
             /\ list = [head |-> f[1], tail |-> f[Cardinality(S)]]
             /\ link[list.tail] = NoDoc
             /\ \A i \in 1..(Cardinality(S) - 1) : link[f[i]] = f[i + 1]
      BY <1>2, <2>3 DEF Chains
    <3>2. Cardinality(S) # 0
      BY <2>3, FS_EmptySet
    <3>3. /\ f \in [1..Cardinality(S) -> S]
          /\ \A i, j \in 1..Cardinality(S) : f[i] = f[j] => i = j
          /\ \A x \in S : \E i \in 1..Cardinality(S) : f[i] = x
      BY DEF Bijection, Injection, Surjection, IsInjective
    <3>4. Visits(link, list, S, Cardinality(S), f)
      BY <2>1, <3>1, <3>2, <3>3 DEF Visits
    <3> QED
      BY <2>1, <3>3, <3>4 DEF Whole
  <2> QED
    BY <2>2, <2>3
<1> QED
  BY <1>1, <1>2

LEMMA EndsOfList ==
  ASSUME NEW link, NEW list, NEW S, S \subseteq Docs, Whole(link, list, S)
  PROVE  /\ list.tail \in S \cup {NoDoc}
         /\ list.head \in S \cup {NoDoc}
         /\ list.head = NoDoc <=> S = {}
         /\ list.tail = NoDoc <=> S = {}
         /\ S = {} => list = Empty
         /\ list \in [head : S \cup {NoDoc}, tail : S \cup {NoDoc}]
<1>1. PICK n, f : Visits(link, list, S, n, f)
  BY DEF Whole
<1>0. n \in Nat /\ f \in [1..n -> S]
  BY <1>1 DEF Visits
<1> USE <1>0
<1>2. CASE n = 0
  BY <1>1, <1>2 DEF Visits, Empty
<1>3. CASE n > 0
  <2>1. f[1] \in S /\ f[n] \in S
    BY <1>1, <1>3
  <2>2. list = [head |-> f[1], tail |-> f[n]]
    BY <1>1, <1>3 DEF Visits
  <2> QED
    BY <2>1, <2>2, DocsAssumption
<1> QED
  BY <1>2, <1>3

\* A list does not notice links that change outside of it.
LEMMA FrameOfList ==
  ASSUME NEW link, NEW after, NEW list, NEW S, Whole(link, list, S),
         \A x \in S : after[x] = link[x]
  PROVE  Whole(after, list, S)
<1>1. PICK n, f : Visits(link, list, S, n, f)
  BY DEF Whole
<1>0. n \in Nat /\ f \in [1..n -> S]
  BY <1>1 DEF Visits
<1> USE <1>0
<1>2. \A i \in 1..n : after[f[i]] = link[f[i]]
  OBVIOUS
<1>3. Visits(after, list, S, n, f)
  BY <1>1, <1>2 DEF Visits
<1> QED
  BY <1>3 DEF Whole

LEMMA AppendToList ==
  ASSUME NEW link, NEW after, NEW list, NEW S, S \subseteq Docs, Whole(link, list, S),
         NEW d \in Docs, d \notin S,
         \A x \in Docs : after[x] = IF x = d THEN NoDoc
                                    ELSE IF x = list.tail THEN d ELSE link[x]
  PROVE  Whole(after, Appended(list, d), S \cup {d})
<1>1. PICK n, f : Visits(link, list, S, n, f)
  BY DEF Whole
<1>0. n \in Nat /\ f \in [1..n -> S]
  BY <1>1 DEF Visits
<1> USE <1>0
<1> DEFINE g == [i \in 1..(n + 1) |-> IF i = n + 1 THEN d ELSE f[i]]
<1>2. g \in [1..(n + 1) -> S \cup {d}]
  OBVIOUS
<1>3. \A i, j \in 1..(n + 1) : g[i] = g[j] => i = j
  BY <1>1 DEF Visits
<1>4. \A x \in S \cup {d} : \E i \in 1..(n + 1) : g[i] = x
  <2> SUFFICES ASSUME NEW x \in S \cup {d}
               PROVE  \E i \in 1..(n + 1) : g[i] = x
    OBVIOUS
  <2>1. CASE x = d
    <3>1. n + 1 \in 1..(n + 1) /\ g[n + 1] = d
      OBVIOUS
    <3> QED
      BY <2>1, <3>1
  <2>2. CASE x \in S
    <3>1. PICK i \in 1..n : f[i] = x
      BY <1>1, <2>2 DEF Visits
    <3>2. i \in 1..(n + 1) /\ g[i] = x
      BY <3>1
    <3> QED
      BY <3>2
  <2> QED
    BY <2>1, <2>2
<1>5. Appended(list, d) = [head |-> g[1], tail |-> g[n + 1]]
  <2>1. CASE n = 0
    BY <1>1, <2>1 DEF Visits, Appended, Empty
  <2>2. CASE n > 0
    <3>1. f[1] \in S /\ f[n] \in S
      BY <2>2
    <3> QED
      BY <1>1, <2>2, <3>1, DocsAssumption DEF Visits, Appended
  <2> QED
    BY <2>1, <2>2
<1>6. after[g[n + 1]] = NoDoc
  OBVIOUS
<1>7. ASSUME NEW i \in 1..n
      PROVE  after[g[i]] = g[i + 1]
  <2>1. g[i] = f[i] /\ f[i] \in S /\ f[i] # d
    OBVIOUS
  <2>2. list.tail = f[n]
    BY <1>1 DEF Visits
  <2>3. CASE i = n
    BY <2>1, <2>2, <2>3
  <2>4. CASE i # n
    <3>1. i \in 1..(n - 1) /\ f[i] # f[n]
      BY <1>1, <2>4 DEF Visits
    <3>2. link[f[i]] = f[i + 1]
      BY <1>1, <3>1 DEF Visits
    <3> QED
      BY <2>1, <2>2, <3>1, <3>2
  <2> QED
    BY <2>3, <2>4
<1> HIDE DEF g
<1>9. n + 1 \in Nat /\ n + 1 > 0 /\ n + 1 # 0 /\ (n + 1) - 1 = n
  OBVIOUS
<1> DEFINE m == n + 1
<1>10. \A i \in 1..(m - 1) : after[g[i]] = g[i + 1]
  BY <1>7, <1>9
<1> HIDE DEF m
<1>11. /\ m \in Nat /\ m # 0 /\ g \in [1..m -> S \cup {d}]
       /\ Appended(list, d) = [head |-> g[1], tail |-> g[m]]
       /\ after[g[m]] = NoDoc
       /\ \A i, j \in 1..m : g[i] = g[j] => i = j
       /\ \A x \in S \cup {d} : \E i \in 1..m : g[i] = x
  BY <1>2, <1>3, <1>4, <1>5, <1>6, <1>9 DEF m
<1>8. Visits(after, Appended(list, d), S \cup {d}, m, g)
  BY <1>10, <1>11 DEF Visits
<1> QED
  BY <1>2, <1>8, <1>9 DEF Whole

LEMMA TakeFromList ==
  ASSUME NEW link, NEW after, NEW list, NEW S, S \subseteq Docs, Whole(link, list, S),
         list.head # NoDoc,
         \A x \in S \ {list.head} : after[x] = link[x]
  PROVE  LET rest == link[list.head] IN
         Whole(after, [head |-> rest, tail |-> IF rest = NoDoc THEN NoDoc ELSE list.tail],
               S \ {list.head})
<1>1. PICK n, f : Visits(link, list, S, n, f)
  BY DEF Whole
<1>0. n \in Nat /\ f \in [1..n -> S]
  BY <1>1 DEF Visits
<1> USE <1>0
<1>2. n > 0
  BY <1>1 DEF Visits, Empty
<1>3. list.head = f[1] /\ list.tail = f[n] /\ f[1] \in S /\ f[n] \in S /\ link[f[n]] = NoDoc
  BY <1>1, <1>2 DEF Visits
<1> DEFINE rest == link[list.head]
           left == [head |-> rest, tail |-> IF rest = NoDoc THEN NoDoc ELSE list.tail]
           g == [i \in 1..(n - 1) |-> f[i + 1]]
<1>4. \A i \in 1..(n - 1) : i + 1 \in 1..n /\ i + 1 # 1 /\ f[i + 1] \in S /\ f[i + 1] # f[1]
  BY <1>1, <1>2 DEF Visits
<1>5. g \in [1..(n - 1) -> S \ {list.head}]
  BY <1>3, <1>4
<1>6. \A i, j \in 1..(n - 1) : g[i] = g[j] => i = j
  <2> SUFFICES ASSUME NEW i \in 1..(n - 1), NEW j \in 1..(n - 1), f[i + 1] = f[j + 1]
               PROVE  i = j
    OBVIOUS
  <2>1. i + 1 = j + 1
    BY <1>1, <1>4 DEF Visits
  <2> QED
    BY <2>1
<1>7. \A x \in S \ {list.head} : \E i \in 1..(n - 1) : g[i] = x
  <2> SUFFICES ASSUME NEW x \in S \ {list.head}
               PROVE  \E i \in 1..(n - 1) : g[i] = x
    OBVIOUS
  <2>1. PICK k \in 1..n : f[k] = x
    BY <1>1 DEF Visits
  <2>2. k - 1 \in 1..(n - 1) /\ g[k - 1] = x
    BY <1>3, <2>1
  <2> QED
    BY <2>2
<1>8. CASE n = 1
  <2>1. left = Empty
    BY <1>3, <1>8 DEF Empty
  <2>2. n - 1 = 0
    BY <1>8
  <2> HIDE DEF left, g
  <2>3. Visits(after, left, S \ {list.head}, n - 1, g)
    BY <1>5, <1>6, <1>7, <2>1, <2>2 DEF Visits
  <2> QED
    BY <1>5, <2>2, <2>3 DEF Whole, left
<1>9. CASE n > 1
  <2>1. 1 \in 1..(n - 1) /\ n - 1 \in 1..(n - 1) /\ n - 1 \in Nat
    BY <1>9
  <2>2. rest = f[2] /\ f[2] \in S
    BY <1>1, <1>3, <1>4, <2>1 DEF Visits
  <2>3. left = [head |-> g[1], tail |-> g[n - 1]]
    BY <1>3, <2>1, <2>2, DocsAssumption
  <2>4. after[g[n - 1]] = NoDoc
    BY <1>3, <1>5, <2>1
  <2>5. ASSUME NEW i \in 1..(n - 2)
        PROVE  after[g[i]] = g[i + 1]
    <3>1. i \in 1..(n - 1) /\ i + 1 \in 1..(n - 1)
      OBVIOUS
    <3>2. link[f[i + 1]] = f[(i + 1) + 1]
      BY <1>1, <3>1 DEF Visits
    <3>3. g[i] = f[i + 1] /\ g[i + 1] = f[(i + 1) + 1]
      BY <3>1
    <3>4. f[i + 1] \in S \ {list.head}
      BY <1>3, <1>4, <3>1
    <3> QED
      BY <3>2, <3>3, <3>4
  <2>6. (n - 1) - 1 = n - 2 /\ n - 1 > 0
    BY <1>9
  <2> HIDE DEF left, g
  <2>7. Visits(after, left, S \ {list.head}, n - 1, g)
    BY <1>5, <1>6, <1>7, <2>3, <2>4, <2>5, <2>6 DEF Visits
  <2> QED
    BY <1>5, <2>1, <2>7 DEF Whole, left
<1> QED
  BY <1>2, <1>8, <1>9

\* setCleanupRejection hangs one list behind the other.
LEMMA JoinLists ==
  ASSUME NEW link, NEW after, NEW front, NEW back, NEW S, NEW T,
         S \subseteq Docs, T \subseteq Docs, S \cap T = {},
         Whole(link, front, S), Whole(link, back, T), T # {},
         \A x \in Docs : after[x] = IF x = front.tail THEN back.head ELSE link[x]
  PROVE  Whole(after, [head |-> IF front.tail = NoDoc THEN back.head ELSE front.head,
                       tail |-> back.tail], S \cup T)
<1>1. PICK n, f : Visits(link, front, S, n, f)
  BY DEF Whole
<1>0. n \in Nat /\ f \in [1..n -> S]
  BY <1>1 DEF Visits
<1>2. PICK m, h : Visits(link, back, T, m, h)
  BY DEF Whole
<1>00. m \in Nat /\ h \in [1..m -> T]
  BY <1>2 DEF Visits
<1> USE <1>0, <1>00
<1>3. m > 0
  BY <1>2 DEF Visits
<1>4. back.head = h[1] /\ back.tail = h[m] /\ h[1] \in T /\ h[m] \in T /\ link[h[m]] = NoDoc
  BY <1>2, <1>3 DEF Visits
<1>5. n > 0 => front.head = f[1] /\ front.tail = f[n] /\ f[1] \in S /\ f[n] \in S
  BY <1>1 DEF Visits
<1>6. n = 0 => front.tail = NoDoc
  BY <1>1 DEF Visits, Empty
<1>7. n > 0 => front.tail # NoDoc
  BY <1>5, DocsAssumption
<1> DEFINE whole == [head |-> IF front.tail = NoDoc THEN back.head ELSE front.head,
                     tail |-> back.tail]
           g == [i \in 1..(n + m) |-> IF i <= n THEN f[i] ELSE h[i - n]]
<1>8. \A i \in 1..(n + m) : \/ i \in 1..n /\ g[i] = f[i] /\ f[i] \in S
                            \/ i > n /\ i - n \in 1..m /\ g[i] = h[i - n] /\ h[i - n] \in T
  OBVIOUS
<1>9. g \in [1..(n + m) -> S \cup T]
  BY <1>8
<1>10. \A i, j \in 1..(n + m) : g[i] = g[j] => i = j
  <2> SUFFICES ASSUME NEW i \in 1..(n + m), NEW j \in 1..(n + m), g[i] = g[j]
               PROVE  i = j
    OBVIOUS
  <2> HIDE DEF g
  <2>1. CASE i \in 1..n /\ j \in 1..n
    <3>1. f[i] = f[j]
      BY <1>8, <2>1
    <3> QED
      BY <1>1, <2>1, <3>1 DEF Visits
  <2>2. CASE i > n /\ j > n
    <3>1. h[i - n] = h[j - n] /\ i - n \in 1..m /\ j - n \in 1..m
      BY <1>8, <2>2
    <3>2. i - n = j - n
      BY <1>2, <3>1 DEF Visits
    <3> QED
      BY <3>2
  <2>3. CASE i \in 1..n /\ j > n
    <3>1. g[i] \in S /\ g[j] \in T
      BY <1>8, <2>3
    <3> QED
      BY <3>1
  <2>4. CASE i > n /\ j \in 1..n
    <3>1. g[j] \in S /\ g[i] \in T
      BY <1>8, <2>4
    <3> QED
      BY <3>1
  <2> QED
    BY <2>1, <2>2, <2>3, <2>4
<1>11. \A x \in S \cup T : \E i \in 1..(n + m) : g[i] = x
  <2> SUFFICES ASSUME NEW x \in S \cup T
               PROVE  \E i \in 1..(n + m) : g[i] = x
    OBVIOUS
  <2>1. CASE x \in S
    <3>1. PICK i \in 1..n : f[i] = x
      BY <1>1, <2>1 DEF Visits
    <3>2. i \in 1..(n + m) /\ g[i] = x
      BY <3>1
    <3> QED
      BY <3>2
  <2>2. CASE x \in T
    <3>1. PICK i \in 1..m : h[i] = x
      BY <1>2, <2>2 DEF Visits
    <3>2. i + n \in 1..(n + m) /\ g[i + n] = x
      BY <3>1
    <3> QED
      BY <3>2
  <2> QED
    BY <2>1, <2>2
<1>12. whole = [head |-> g[1], tail |-> g[n + m]]
  <2>1. whole.tail = g[n + m] /\ whole.tail = h[m]
    BY <1>3, <1>4
  <2>2. whole.head = g[1]
    <3>1. CASE n = 0
      BY <1>3, <1>4, <1>6, <3>1
    <3>2. CASE n > 0
      BY <1>3, <1>5, <1>7, <3>2
    <3> QED
      BY <3>1, <3>2
  <2> QED
    BY <2>1, <2>2
<1>13. after[g[n + m]] = NoDoc
  <2>1. g[n + m] = h[m]
    BY <1>3
  <2>2. h[m] # front.tail
    BY <1>4, <1>5, <1>6, DocsAssumption
  <2> QED
    BY <1>4, <2>1, <2>2
<1>14. ASSUME NEW i \in 1..(n + m - 1)
       PROVE  after[g[i]] = g[i + 1]
  <2>1. i \in 1..(n + m) /\ i + 1 \in 1..(n + m)
    OBVIOUS
  <2>2. CASE i < n
    <3>1. i \in 1..(n - 1) /\ i \in 1..n /\ n \in 1..n /\ n > 0 /\ i + 1 <= n
      BY <2>2
    <3>2. link[f[i]] = f[i + 1] /\ f[i] # f[n] /\ f[i] \in Docs
      BY <1>1, <2>2, <3>1 DEF Visits
    <3>3. g[i] = f[i] /\ g[i + 1] = f[i + 1]
      BY <2>1, <3>1
    <3> QED
      BY <1>5, <3>1, <3>2, <3>3
  <2>3. CASE i = n
    <3>1. g[i] = f[n] /\ g[i + 1] = h[1] /\ n > 0 /\ f[n] \in Docs
      BY <2>1, <2>3
    <3> QED
      BY <1>4, <1>5, <3>1
  <2>4. CASE i > n
    <3>1. i - n \in 1..(m - 1) /\ i - n \in 1..m /\ (i + 1) - n = (i - n) + 1
      BY <2>4
    <3>2. g[i] = h[i - n] /\ g[i + 1] = h[(i - n) + 1]
      BY <2>1, <2>4, <3>1
    <3>3. link[h[i - n]] = h[(i - n) + 1]
      BY <1>2, <3>1 DEF Visits
    <3>4. h[i - n] \in T /\ h[i - n] # front.tail /\ h[i - n] \in Docs
      BY <1>5, <1>6, <3>1, DocsAssumption
    <3> QED
      BY <3>2, <3>3, <3>4
  <2> QED
    BY <2>2, <2>3, <2>4
<1> HIDE DEF g, whole
<1>15. n + m \in Nat /\ n + m > 0
  BY <1>3
<1>16. Visits(after, whole, S \cup T, n + m, g)
  BY <1>9, <1>10, <1>11, <1>12, <1>13, <1>14, <1>15 DEF Visits
<1> QED
  BY <1>9, <1>15, <1>16 DEF Whole, whole

-----------------------------------------------------------------------------
(* The invariant.                                                          *)

DispatcherTypeOK ==
  /\ doc \in [Docs -> Places]
  /\ next \in [Docs -> Docs \cup {NoDoc}]
  /\ queuedGauge \in Int /\ retainedGauge \in Int

ListsWhole == Whole(next, queue, At("queued")) /\ Whole(next, failed, At("retained"))

OneActive ==
  /\ \A d \in Docs : doc[d] = "active" => thread = "cleaning" /\ d = current
  /\ thread = "cleaning" => current \in Docs /\ doc[current] = "active"

GaugesExact ==
  unload = "no" => queuedGauge = Cardinality(At("queued"))
                   /\ retainedGauge = Cardinality(At("retained"))

DispatcherIInv == DispatcherTypeOK /\ ListsWhole /\ OneActive /\ GaugesExact

LEMMA InvariantHoldsLists == DispatcherIInv => ListsHoldDetached
<1> SUFFICES ASSUME DispatcherIInv PROVE ListsHoldDetached
  OBVIOUS
<1>1. At("queued") \subseteq Docs /\ At("retained") \subseteq Docs
  BY DEF At
<1>2. IsFiniteSet(At("queued")) /\ IsFiniteSet(At("retained"))
  BY <1>1, FS_Subset, DocsAssumption
<1>3. Chains(next, queue, At("queued")) /\ Chains(next, failed, At("retained"))
  BY <1>2, WholeChains DEF DispatcherIInv, ListsWhole
<1>4. At("active") # {} => At("active") = {current}
  BY DEF DispatcherIInv, OneActive, At
<1> QED
  BY <1>3, <1>4 DEF DispatcherIInv, GaugesExact, ListsHoldDetached

LEMMA PlacesAfter ==
  ASSUME NEW d \in Docs, NEW place \in Places, NEW q, doc \in [Docs -> Places],
         MoveDoc(d, place)
  PROVE  At(q)' = IF q = place THEN At(q) \cup {d} ELSE At(q) \ {d}
BY DEF MoveDoc, At

LEMMA DispatcherInitially == DispatcherInit => DispatcherIInv
<1> SUFFICES ASSUME DispatcherInit PROVE DispatcherIInv
  OBVIOUS
<1>1. At("queued") = {} /\ At("retained") = {}
  BY DEF DispatcherInit, At
<1>2. Chains(next, queue, {}) /\ Chains(next, failed, {})
  BY DEF DispatcherInit, Chains
<1>3. ListsWhole
  BY <1>1, <1>2, WholeChains, FS_EmptySet DEF ListsWhole
<1>4. DispatcherTypeOK /\ OneActive
  BY DocsAssumption DEF DispatcherInit, DispatcherTypeOK, OneActive, Places
<1>5. GaugesExact
  BY <1>1, FS_EmptySet DEF DispatcherInit, GaugesExact
<1> QED
  BY <1>3, <1>4, <1>5 DEF DispatcherIInv

\* Steps that touch neither a list nor the documents in it.
LEMMA ListsAlone ==
  ASSUME DispatcherIInv, UNCHANGED listVars, At("queued")' = At("queued"),
         At("retained")' = At("retained")
  PROVE  ListsWhole'
BY DEF DispatcherIInv, ListsWhole, listVars

-----------------------------------------------------------------------------
(* The steps of destructors, and of a caller that configures rejection.     *)

LEMMA DetachStep ==
  ASSUME DispatcherIInv, NEW d \in Docs, Detach(d)
  PROVE  DispatcherIInv'
<1> USE DEF DispatcherIInv
<1>1. PICK place \in {"linking", "stranded"} : MoveDoc(d, place)
  BY DEF Detach
<1>2. At("queued")' = At("queued") /\ At("retained")' = At("retained")
  BY DEF Detach, MoveDoc, At, DispatcherTypeOK
<1>3. ListsWhole'
  BY <1>2, ListsAlone DEF Detach
<1>4. DispatcherTypeOK'
  BY <1>1 DEF Detach, DispatcherTypeOK, MoveDoc, Places, listVars
<1>5. OneActive'
  BY <1>1 DEF Detach, OneActive, MoveDoc, DispatcherTypeOK, threadVars
<1>6. GaugesExact'
  BY <1>2 DEF Detach, GaugesExact, Published
<1> QED
  BY <1>3, <1>4, <1>5, <1>6

LEMMA EnqueueStep ==
  ASSUME DispatcherIInv, NEW d \in Docs, Enqueue(d)
  PROVE  DispatcherIInv'
<1> USE DEF DispatcherIInv
<1>1. At("queued") \subseteq Docs /\ At("retained") \subseteq Docs
      /\ d \notin At("queued") /\ d \notin At("retained")
      /\ At("queued") \cap At("retained") = {}
  BY DEF Enqueue, At
<1>2. IsFiniteSet(At("queued")) /\ IsFiniteSet(At("retained"))
  BY <1>1, FS_Subset, DocsAssumption
<1>3. CASE Accepts
  <2>1. /\ MoveDoc(d, "queued") /\ queue' = Appended(queue, d) /\ next' = Linked(queue, d)
        /\ queuedGauge' = queuedGauge + 1 /\ thread' = Woken
        /\ failed' = failed /\ retainedGauge' = retainedGauge
    BY <1>3 DEF Enqueue
  <2>2. At("queued")' = At("queued") \cup {d} /\ At("retained")' = At("retained")
    BY <1>1, <2>1, PlacesAfter DEF DispatcherTypeOK, Places
  <2>3. queue.tail \in At("queued") \cup {NoDoc} /\ queue.tail \in Docs \cup {NoDoc}
    BY <1>1, EndsOfList DEF ListsWhole
  <2>4. \A x \in Docs : next'[x] = IF x = d THEN NoDoc
                                    ELSE IF x = queue.tail THEN d ELSE next[x]
    BY <2>1 DEF Linked
  <2>5. Whole(next', queue', At("queued")')
    BY <1>1, <2>1, <2>2, <2>4, AppendToList DEF ListsWhole
  <2>6. \A x \in At("retained") : next'[x] = next[x]
    BY <1>1, <2>3, <2>4, DocsAssumption
  <2>7. Whole(next', failed', At("retained")')
    BY <2>1, <2>2, <2>6, FrameOfList DEF ListsWhole
  <2>8. DispatcherTypeOK'
    BY <2>1 DEF DispatcherTypeOK, MoveDoc, Places, Linked
  <2>9. OneActive'
    BY <2>1 DEF Enqueue, OneActive, MoveDoc, DispatcherTypeOK, Woken
  <2>10. GaugesExact'
    BY <1>1, <1>2, <2>1, <2>2, FS_AddElement DEF Enqueue, GaugesExact
  <2> QED
    BY <2>5, <2>7, <2>8, <2>9, <2>10 DEF ListsWhole
<1>4. CASE ~Accepts
  <2>1. /\ MoveDoc(d, "retained") /\ failed' = Appended(failed, d) /\ next' = Linked(failed, d)
        /\ retainedGauge' = retainedGauge + 1 /\ thread' = thread
        /\ queue' = queue /\ queuedGauge' = queuedGauge
    BY <1>4 DEF Enqueue
  <2>2. At("retained")' = At("retained") \cup {d} /\ At("queued")' = At("queued")
    BY <1>1, <2>1, PlacesAfter DEF DispatcherTypeOK, Places
  <2>3. failed.tail \in At("retained") \cup {NoDoc} /\ failed.tail \in Docs \cup {NoDoc}
    BY <1>1, EndsOfList DEF ListsWhole
  <2>4. \A x \in Docs : next'[x] = IF x = d THEN NoDoc
                                    ELSE IF x = failed.tail THEN d ELSE next[x]
    BY <2>1 DEF Linked
  <2>5. Whole(next', failed', At("retained")')
    BY <1>1, <2>1, <2>2, <2>4, AppendToList DEF ListsWhole
  <2>6. \A x \in At("queued") : next'[x] = next[x]
    BY <1>1, <2>3, <2>4, DocsAssumption
  <2>7. Whole(next', queue', At("queued")')
    BY <2>1, <2>2, <2>6, FrameOfList DEF ListsWhole
  <2>8. DispatcherTypeOK'
    BY <2>1 DEF DispatcherTypeOK, MoveDoc, Places, Linked
  <2>9. OneActive'
    BY <2>1 DEF Enqueue, OneActive, MoveDoc, DispatcherTypeOK
  <2>10. GaugesExact'
    BY <1>1, <1>2, <2>1, <2>2, FS_AddElement DEF Enqueue, GaugesExact
  <2> QED
    BY <2>5, <2>7, <2>8, <2>9, <2>10 DEF ListsWhole
<1> QED
  BY <1>3, <1>4

LEMMA SetCleanupRejectionStep ==
  ASSUME DispatcherIInv, NEW reject \in BOOLEAN, SetCleanupRejection(reject),
         unload' = "no" => unload = "no"
  PROVE  DispatcherIInv'
<1> USE DEF DispatcherIInv
<1>1. At("queued") \subseteq Docs /\ At("retained") \subseteq Docs
      /\ At("queued") \cap At("retained") = {}
  BY DEF At
<1>2. IsFiniteSet(At("queued")) /\ IsFiniteSet(At("retained"))
  BY <1>1, FS_Subset, DocsAssumption
<1>3. CASE reject \/ failed.head = NoDoc \/ ~workerRunning
  <2>1. UNCHANGED <<doc, listVars, thread, current, queuedGauge, retainedGauge>>
    BY <1>3 DEF SetCleanupRejection
  <2>2. At("queued")' = At("queued") /\ At("retained")' = At("retained")
    BY <2>1 DEF At
  <2>3. ListsWhole'
    BY <2>1, <2>2, ListsAlone
  <2> QED
    BY <2>1, <2>2, <2>3 DEF DispatcherTypeOK, OneActive, GaugesExact, listVars
<1>4. CASE ~(reject \/ failed.head = NoDoc \/ ~workerRunning)
  <2>1. /\ doc' = [d \in Docs |-> IF doc[d] = "retained" THEN "queued" ELSE doc[d]]
        /\ next' = [d \in Docs |-> IF d = queue.tail THEN failed.head ELSE next[d]]
        /\ queue' = Spliced /\ failed' = Empty
        /\ queuedGauge' = queuedGauge + retainedGauge /\ retainedGauge' = 0
        /\ thread' = Woken /\ current' = current
    BY <1>4 DEF SetCleanupRejection
  <2>2. At("queued")' = At("queued") \cup At("retained") /\ At("retained")' = {}
    BY <2>1 DEF At, DispatcherTypeOK
  <2>3. At("retained") # {} /\ failed.head \in Docs
    BY <1>1, <1>4, EndsOfList DEF ListsWhole
  <2>4. Whole(next', queue', At("queued")')
    <3>1. Whole(next, queue, At("queued")) /\ Whole(next, failed, At("retained"))
      BY DEF ListsWhole
    <3>2. \A x \in Docs : next'[x] = IF x = queue.tail THEN failed.head ELSE next[x]
      BY <2>1
    <3>3. Whole(next', Spliced, At("queued") \cup At("retained"))
      BY <1>1, <2>3, <3>1, <3>2, JoinLists DEF Spliced
    <3> QED
      BY <2>1, <2>2, <3>3
  <2>5. Whole(next', failed', At("retained")')
    <3>1. Chains(next', failed', At("retained")')
      BY <2>1, <2>2 DEF Chains
    <3> QED
      BY <2>2, <3>1, WholeChains, FS_EmptySet
  <2>6. DispatcherTypeOK'
    BY <2>1, <2>3 DEF DispatcherTypeOK, Places
  <2>7. OneActive'
    BY <2>1 DEF OneActive, DispatcherTypeOK, Woken
  <2>8. Cardinality(At("queued")') = Cardinality(At("queued")) + Cardinality(At("retained"))
        /\ Cardinality(At("retained")') = 0
    <3>1. Cardinality(At("queued") \cup At("retained"))
            = Cardinality(At("queued")) + Cardinality(At("retained")) - Cardinality({})
      BY <1>1, <1>2, FS_Union
    <3>2. Cardinality(At("queued")) \in Nat /\ Cardinality(At("retained")) \in Nat
      BY <1>2, FS_CardinalityType
    <3>3. Cardinality({}) = 0
      BY FS_EmptySet
    <3>4. Cardinality(At("queued") \cup At("retained"))
            = Cardinality(At("queued")) + Cardinality(At("retained"))
      BY <3>1, <3>2, <3>3
    <3>5. Cardinality(At("retained")') = 0
      BY <2>2, <3>3
    <3> QED
      BY <2>2, <3>4, <3>5
  <2>9. GaugesExact'
    BY <2>1, <2>8 DEF GaugesExact
  <2> QED
    BY <2>4, <2>5, <2>6, <2>7, <2>9 DEF ListsWhole
<1> QED
  BY <1>3, <1>4

-----------------------------------------------------------------------------
(* The steps of the dispatcher's thread.                                   *)

LEMMA PopStep ==
  ASSUME DispatcherIInv, Pop
  PROVE  DispatcherIInv'
<1> USE DEF DispatcherIInv
<1>1. At("queued") \subseteq Docs /\ At("retained") \subseteq Docs
      /\ At("queued") \cap At("retained") = {}
  BY DEF At
<1>2. IsFiniteSet(At("queued"))
  BY <1>1, FS_Subset, DocsAssumption
<1>3. queue.head \in At("queued") /\ queue.head \in Docs /\ queue.head \notin At("retained")
  BY <1>1, EndsOfList DEF Pop, ListsWhole
<1>4. At("queued")' = At("queued") \ {queue.head} /\ At("retained")' = At("retained")
  <2>1. doc[queue.head] = "queued" /\ MoveDoc(queue.head, "active") /\ doc \in [Docs -> Places]
    BY <1>3 DEF Pop, DispatcherTypeOK, At
  <2>2. \A place : At(place)' = IF place = "active" THEN At(place) \cup {queue.head}
                                ELSE At(place) \ {queue.head}
    BY <1>3, <2>1 DEF MoveDoc, At
  <2> QED
    BY <1>3, <2>2
<1>5. \A x \in Docs \ {queue.head} : next'[x] = next[x]
  BY DEF Pop, DispatcherTypeOK
<1>6. Whole(next', queue', At("queued")')
  <2>1. Whole(next, queue, At("queued")) /\ queue.head # NoDoc
    BY DEF Pop, ListsWhole
  <2>2. \A x \in At("queued") \ {queue.head} : next'[x] = next[x]
    BY <1>1, <1>5
  <2>3. Whole(next', Popped, At("queued") \ {queue.head})
    BY <1>1, <2>1, <2>2, TakeFromList DEF Popped
  <2> QED
    BY <1>4, <2>3 DEF Pop
<1>7. Whole(next', failed', At("retained")')
  BY <1>1, <1>3, <1>4, <1>5, FrameOfList DEF Pop, ListsWhole
<1>8. DispatcherTypeOK'
  <2>1. doc' \in [Docs -> Places]
    BY <1>3 DEF Pop, DispatcherTypeOK, MoveDoc, Places
  <2>2. next' \in [Docs -> Docs \cup {NoDoc}]
    BY DEF Pop, DispatcherTypeOK
  <2>3. queuedGauge' \in Int /\ retainedGauge' \in Int
    BY DEF Pop, DispatcherTypeOK
  <2> QED
    BY <2>1, <2>2, <2>3 DEF DispatcherTypeOK
<1>9. OneActive'
  BY <1>3 DEF Pop, OneActive, MoveDoc, DispatcherTypeOK
<1>10. GaugesExact'
  BY <1>2, <1>3, <1>4, FS_RemoveElement DEF Pop, GaugesExact
<1> QED
  BY <1>6, <1>7, <1>8, <1>9, <1>10 DEF ListsWhole

LEMMA CleanStep ==
  ASSUME DispatcherIInv, Clean
  PROVE  DispatcherIInv'
<1> USE DEF DispatcherIInv
<1>1. current \in Docs /\ doc[current] = "active"
  BY DEF Clean, OneActive
<1>2. At("queued")' = At("queued") /\ At("retained")' = At("retained")
  BY <1>1 DEF Clean, MoveDoc, At, DispatcherTypeOK
<1>3. ListsWhole'
  BY <1>2, ListsAlone DEF Clean
<1>4. DispatcherTypeOK'
  BY DEF Clean, DispatcherTypeOK, MoveDoc, Places, listVars, gaugeVars
<1>5. OneActive'
  BY <1>1 DEF Clean, OneActive, MoveDoc, DispatcherTypeOK
<1>6. GaugesExact'
  BY <1>2 DEF Clean, GaugesExact, gaugeVars
<1> QED
  BY <1>3, <1>4, <1>5, <1>6

\* Steps that leave the documents, the lists and two of the gauges alone.
LEMMA QuietStep ==
  ASSUME DispatcherIInv, UNCHANGED <<doc, listVars, queuedGauge, retainedGauge>>,
         unload' = "no" => unload = "no",
         thread' = "cleaning" <=> thread = "cleaning",
         thread = "cleaning" => current' = current
  PROVE  DispatcherIInv'
<1> USE DEF DispatcherIInv
<1>1. At("queued")' = At("queued") /\ At("retained")' = At("retained")
  BY DEF At
<1>2. ListsWhole'
  BY <1>1, ListsAlone
<1>3. DispatcherTypeOK' /\ OneActive'
  BY DEF DispatcherTypeOK, OneActive, listVars
<1>4. GaugesExact'
  BY <1>1 DEF GaugesExact
<1> QED
  BY <1>2, <1>3, <1>4

-----------------------------------------------------------------------------
LEMMA DispatcherPreserved == DispatcherIInv /\ [DispatcherNext]_dispatcherVars => DispatcherIInv'
<1> SUFFICES ASSUME DispatcherIInv, [DispatcherNext]_dispatcherVars PROVE DispatcherIInv'
  OBVIOUS
<1>1. CASE UNCHANGED dispatcherVars
  BY <1>1, QuietStep DEF dispatcherVars, threadVars, gaugeVars
<1>2. CASE \E d \in Docs : Detach(d)
  BY <1>2, DetachStep
<1>3. CASE EnqueueAny
  BY <1>3, EnqueueStep DEF EnqueueAny
<1>4. CASE \E reject \in BOOLEAN : Configure(reject)
  BY <1>4, SetCleanupRejectionStep DEF Configure
<1>5. CASE ThreadStep
  <2>1. CASE Sleep
    BY <2>1, QuietStep DEF Sleep, gaugeVars
  <2>2. CASE CountCleaned
    BY <2>2, QuietStep DEF CountCleaned
  <2>3. CASE Exit
    BY <2>3, QuietStep DEF Exit, gaugeVars
  <2> QED
    BY <1>5, <2>1, <2>2, <2>3, PopStep, CleanStep DEF ThreadStep
<1>6. CASE Unpublish
  BY <1>6, QuietStep DEF Unpublish, UnloadTo, threadVars, gaugeVars
<1>7. CASE UnloadStep
  <2>1. CASE StopPool
    BY <2>1, QuietStep DEF StopPool, UnloadTo, threadVars, gaugeVars
  <2>2. CASE LiftRejection
    BY <2>2, SetCleanupRejectionStep DEF LiftRejection, UnloadTo
  <2>3. CASE RequestShutdown
    BY <2>3, QuietStep DEF RequestShutdown, UnloadTo, gaugeVars, Woken
  <2>4. CASE JoinAndFree
    BY <2>4, QuietStep DEF JoinAndFree, UnloadTo, threadVars, gaugeVars
  <2> QED
    BY <1>7, <2>1, <2>2, <2>3, <2>4 DEF UnloadStep
<1> QED
  BY <1>1, <1>2, <1>3, <1>4, <1>5, <1>6, <1>7 DEF DispatcherNext

\* Fairness plays no part in safety, so the composition can use this too.
LEMMA DispatcherInvariant == DispatcherInit /\ [][DispatcherNext]_dispatcherVars => []DispatcherIInv
<1> QED
  BY DispatcherInitially, DispatcherPreserved, PTL

\* Runtime.append, pop and setCleanupRejection keep the two intrusive lists: a
\* document handed over is in exactly the list its place says, from head to
\* tail, for any number of documents.
THEOREM HandedOverStaysLinked ==
  DispatcherInit /\ [][DispatcherNext]_dispatcherVars => []ListsHoldDetached
<1> QED
  BY DispatcherInvariant, InvariantHoldsLists, PTL

-----------------------------------------------------------------------------
(* The library. *)

LEMMA StepOfRecords == [Next]_vars => [RecordNext]_recordVars
<1> SUFFICES ASSUME [Next]_vars PROVE [RecordNext]_recordVars
  OBVIOUS
<1>1. CASE UNCHANGED vars
  BY <1>1 DEF vars
<1>2. CASE \E o \in Ops : AdmitOperation(o) \/ CallRecord(o) \/ RecordElsewhere(o)
  <2>1. \E o \in Ops : RecordStep(o)
    BY <1>2, Zenon DEF AdmitOperation, CallRecord, RecordElsewhere, RecordStep
  <2> QED
    BY <2>1 DEF RecordNext
<1>3. CASE \E accept \in BOOLEAN : SetAccepting(accept)
  BY <1>3 DEF SetAccepting
<1>4. CASE BeginUnload \/ JoinPool \/ Dispatch
  BY <1>4 DEF BeginUnload, JoinPool, Dispatch
<1> QED
  BY <1>1, <1>2, <1>3, <1>4 DEF Next

LEMMA StepOfDispatcher == [Next]_vars => [DispatcherNext]_dispatcherVars
<1> SUFFICES ASSUME [Next]_vars PROVE [DispatcherNext]_dispatcherVars
  OBVIOUS
<1>1. CASE UNCHANGED vars
  BY <1>1 DEF vars
<1>2. CASE \E o \in Ops : AdmitOperation(o) \/ CallRecord(o) \/ RecordElsewhere(o)
  BY <1>2 DEF AdmitOperation, CallRecord, RecordElsewhere
<1>3. CASE \E accept \in BOOLEAN : SetAccepting(accept)
  BY <1>3 DEF SetAccepting
<1>4. CASE BeginUnload
  BY <1>4 DEF BeginUnload, DispatcherNext
<1>5. CASE JoinPool
  BY <1>5 DEF JoinPool, DispatcherNext, UnloadStep
<1>6. CASE Dispatch
  BY <1>6, Zenon DEF Dispatch, DispatcherNext, UnloadStep
<1> QED
  BY <1>1, <1>2, <1>3, <1>4, <1>5, <1>6 DEF Next

\* Admission gates and the order of an unload only restrict what records do.
LEMMA RuntimeImplementsRecords == Spec => RecordSpec
<1>1. Init => RecordInit
  BY DEF Init
<1> QED
  BY <1>1, StepOfRecords, PTL DEF Spec, RecordSpec

\* However execution, cancellation, completion and destruction of operations
\* interleave (beginRunning, cancel, markReadyForDelivery, finish, the destructor),
\* each record is counted in one verdict and each gauge counts its records.
THEOREM RecordsCountedOnce == Spec => []CountedOnce
<1> QED
  BY RuntimeImplementsRecords, VerdictsCountedOnce, PTL

\* OperationRecord.cancel is final: the operation neither waits nor runs after it.
THEOREM CancellationSticks == Spec => []CancelSticks
<1> QED
  BY RuntimeImplementsRecords, CancelledStaysOut, PTL

\* Runtime.append, pop and setCleanupRejection keep every document handed over in
\* the one list its place says, also while the library is unloaded.
THEOREM DetachedStaysLinked == Spec => []ListsHoldDetached
<1>1. Init => DispatcherInit
  BY DEF Init
<1> QED
  BY <1>1, StepOfDispatcher, HandedOverStaysLinked, PTL DEF Spec
=============================================================================
