----------------------------- MODULE BoundedPool -----------------------------
(***************************************************************************)
(* What the native pool promises, without threads, flags and locks: a      *)
(* bounded first-in first-out queue in front of a bounded set of running   *)
(* jobs; a job is taken in at most once, answered at most once and only    *)
(* while it runs, and what is taken in leaves only by running.             *)
(***************************************************************************)
EXTENDS Integers, Sequences, FiniteSets

CONSTANTS Jobs, NumWorkers, QueueCapacity

VARIABLES
  admitted,  \* every job ever taken in
  waiting,   \* those not begun, in order of admission
  running,   \* those a worker has in its hands
  answered   \* those a result was sent for

vars == <<admitted, waiting, running, answered>>

Init == admitted = {} /\ waiting = <<>> /\ running = {} /\ answered = {}

Admit(j) ==
  /\ j \notin admitted
  /\ Len(waiting) < QueueCapacity
  /\ admitted' = admitted \cup {j}
  /\ waiting' = Append(waiting, j)
  /\ UNCHANGED <<running, answered>>

Begin ==
  /\ waiting # <<>>
  /\ Cardinality(running) < NumWorkers
  /\ running' = running \cup {Head(waiting)}
  /\ waiting' = Tail(waiting)
  /\ UNCHANGED <<admitted, answered>>

Answer(j) ==
  /\ j \in running \ answered
  /\ answered' = answered \cup {j}
  /\ UNCHANGED <<admitted, waiting, running>>

Finish(j) ==
  /\ j \in running
  /\ running' = running \ {j}
  /\ UNCHANGED <<admitted, waiting, answered>>

Next ==
  \/ Begin
  \/ \E j \in Jobs : Admit(j) \/ Answer(j) \/ Finish(j)

Spec == Init /\ [][Next]_vars
=============================================================================
