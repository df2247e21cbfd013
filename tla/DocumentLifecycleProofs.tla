----------------------- MODULE DocumentLifecycleProofs -----------------------
(***************************************************************************)
(* Proofs about DocumentLifecycle, for any sets of operations: no native   *)
(* object is freed while an operation uses it, one cleanup frees, nothing  *)
(* is left when the control goes, and the whole is a ReclaimedDocument.    *)
(*                                                                         *)
(* The argument is the handshake between an admission and a cleanup.  An   *)
(* operation is sure of the document once it was counted and then saw the  *)
(* document open; from there to its release it stays counted.  A cleanup   *)
(* goes on only when it sees the document closing and the count at zero,   *)
(* so nobody is sure then, and nobody becomes sure any more.  That the     *)
(* count is right rests on the one-shot cursor: rollbackProjection gives   *)
(* an admission back only if it finds the reservation it expects.  The     *)
(* last two parts have invariants of their own: who refers to the control, *)
(* what the gauge counts and who frees; and the mapping to the promise.    *)
(***************************************************************************)
EXTENDS UnmadeCursor, FiniteSetTheorems, TLAPS

SurePoints ==
  {"claim", "confirm", "reserved", "verify", "commit", "swap", "fetch", "using",
   "cursor", "batch", "drop", "stranded"}

Sure    == {o \in Ops : pc[o] \in SurePoints}
Seizing == {c \in Ops : pc[c] \in {"seize", "free"}}

\* Before the result is delivered nobody but the opening job has the document.
Unpublished ==
  opener # "over" =>
    /\ "term" \notin refs
    /\ \A o \in Ops : pc[o] = "idle"

\* The stages of the construction.
Constructed ==
  /\ opener \in Building => lifecycle = "closed" /\ ~cleanupStarted
  /\ opener \in {"queued", "input"} => owned = {}
  /\ opener = "parser" => owned = {"input"}
  /\ opener = "document" => owned = {"input", "parser"}
  /\ opener = "publish" => owned = Fields

\* While the document is open no cleanup has begun.
OpenIsWhole ==
  lifecycle = "open" => owned = Fields /\ ~cleanupStarted /\ Seizing = {}

\* While an operation is sure of the document no cleanup has begun.
SureIsWhole ==
  Sure # {} => owned = Fields /\ ~cleanupStarted /\ Seizing = {}

Typed ==
  /\ opener \in OpenerPoints
  /\ lifecycle \in Lifecycles
  /\ cleanupStarted \in BOOLEAN
  /\ pc \in [Ops -> Points]

IInv ==
  /\ Typed /\ AdmissionsBalance
  /\ Unpublished /\ Constructed /\ OpenIsWhole /\ SureIsWhole

USE DEF Goto
-----------------------------------------------------------------------------
(* The one-shot cursor. *)

CommittedPoints == {"fetch", "using", "cursor", "batch", "drop"}
LatePoints      == CommittedPoints \cup {"stranded"}

\* The points only an operation on the cursor reaches.
CursorPoints == (ClaimedPoints \cup {"claim"}) \ {"using"}

CInv ==
  /\ pc \in [Ops -> Points]
  /\ \A o \in Ops : pc[o] \in CursorPoints => o \in Cursors
  /\ \A o, p \in Claimed : o = p
  /\ \A o \in Claimed : projection \in {Transient(o), "consumed"}
  /\ Claimed = {} => projection \in {"fresh", "consumed"}
  /\ projection = "consumed" => \A o \in Claimed : pc[o] \in LatePoints
  /\ \A o \in Claimed : pc[o] \in CommittedPoints => projection = "consumed"

(***************************************************************************)
(* A step of one operation that does not touch the cursor: it does not     *)
(* claim it, it commits nothing that is not committed, and it gives up its *)
(* claim only if the cursor is consumed.                                   *)
(***************************************************************************)
Apart(o, from, to) ==
  /\ pc[o] = from /\ pc' = [pc EXCEPT ![o] = to] /\ to \in Points
  /\ projection' = projection
  /\ to \in CursorPoints => o \in Cursors
  /\ o \in Cursors =>
       /\ to \in ClaimedPoints => from \in ClaimedPoints
       /\ from \in ClaimedPoints /\ to \notin ClaimedPoints => projection = "consumed"
       /\ projection = "consumed" /\ from \in LatePoints /\ to \in ClaimedPoints => to \in LatePoints
       /\ to \in CommittedPoints => from \in CommittedPoints

\* Such a step keeps the ownership of the cursor.
LEMMA ApartStep ==
  ASSUME CInv, NEW o \in Ops, NEW from, NEW to, Apart(o, from, to)
  PROVE  CInv'
<1>1. pc' \in [Ops -> Points] /\ pc'[o] = to /\ \A p \in Ops \ {o} : pc'[p] = pc[p]
  BY DEF CInv, Apart
<1>2. Claimed' \subseteq Claimed /\ Claimed \subseteq Claimed' \cup {o}
  BY <1>1 DEF Claimed, Apart
<1>3. \A p \in Ops : pc'[p] \in CursorPoints => p \in Cursors
  BY <1>1 DEF CInv, Apart
<1>4. Claimed' = {} => projection' \in {"fresh", "consumed"}
  <2>1. CASE o \in Claimed /\ o \notin Claimed'
    BY <2>1, <1>1 DEF Claimed, Apart
  <2>2. CASE Claimed' = Claimed
    BY <2>2 DEF CInv, Apart
  <2>3. QED
    BY <2>1, <2>2, <1>2
<1>5. projection' = "consumed" => \A p \in Claimed' : pc'[p] \in LatePoints
  BY <1>1, <1>2 DEF CInv, Apart, Claimed
<1>6. \A p \in Claimed' : pc'[p] \in CommittedPoints => projection' = "consumed"
  BY <1>1, <1>2 DEF CInv, Apart, Claimed
<1>7. \A p \in Claimed' : projection' \in {Transient(p), "consumed"}'
  BY <1>2 DEF CInv, Apart, Transient
<1>8. QED
  BY <1>1, <1>2, <1>3, <1>4, <1>5, <1>6, <1>7 DEF CInv

\* The claim finds the cursor fresh, so nobody has it.
LEMMA ClaimStep == ASSUME CInv, NEW o \in Holders, Claim(o) PROVE CInv'
<1> o \in Ops /\ o \in Cursors
  BY DEF Ops, Claim, CInv, CursorPoints
<1>1. CASE ~Claimable
  <2>1. Apart(o, "claim", "leave")
    BY <1>1 DEF Claim, Apart, Points, CursorPoints, ClaimedPoints, LatePoints, CommittedPoints
  <2>2. QED
    BY <2>1, ApartStep
<1>2. CASE Claimable
  <2>1. Claimed = {}
    BY <1>2 DEF CInv, Claimable, Transient
  <2>2. pc' = [pc EXCEPT ![o] = "confirm"] /\ projection' = Transient(o)
    BY <1>2 DEF Claim
  <2>3. Claimed' = {o} /\ pc'[o] = "confirm" /\ pc' \in [Ops -> Points]
    BY <2>1, <2>2 DEF CInv, Claimed, ClaimedPoints, Points
  <2>4. \A p \in Ops : pc'[p] \in CursorPoints => p \in Cursors
    BY <2>2 DEF CInv
  <2>5. QED
    BY <2>2, <2>3, <2>4 DEF CInv, Transient, CommittedPoints, LatePoints
<1>3. QED
  BY <1>1, <1>2

\* An operation that gives a reservation back still has it, so that nobody
\* has the cursor after it.
LEMMA GiveBackStep ==
  ASSUME CInv, NEW o \in Ops, NEW from \in {"undo", "rollback"},
         pc[o] = from, pc' = [pc EXCEPT ![o] = "leave"], projection' = "fresh"
  PROVE  CInv'
<1>1. o \in Claimed
  BY DEF CInv, Claimed, ClaimedPoints, CursorPoints
<1>2. Claimed' = {}
  BY <1>1 DEF CInv, Claimed, ClaimedPoints
<1>3. pc' \in [Ops -> Points] /\ \A p \in Ops : pc'[p] \in CursorPoints => p \in Cursors
  BY DEF CInv, Points, CursorPoints, ClaimedPoints
<1>4. QED
  BY <1>2, <1>3 DEF CInv

\* A reservation that is rolled back is the operation's own.
LEMMA RollbackFinds ==
  ASSUME CInv, NEW o \in Ops, pc[o] \in {"undo", "rollback", "swap"}
  PROVE  o \in Claimed /\ o \in Cursors /\ projection = Transient(o)
<1>1. o \in Claimed
  BY DEF CInv, Claimed, ClaimedPoints, CursorPoints
<1>2. pc[o] \notin LatePoints
  BY DEF LatePoints, CommittedPoints
<1>3. QED
  BY <1>1, <1>2 DEF CInv, Claimed

\* The commit makes the operation's own reservation final.
LEMMA CommitStep == ASSUME CInv, NEW o \in Holders, Commit(o) PROVE CInv'
<1> o \in Ops
  BY DEF Ops
<1>1. o \in Claimed /\ o \in Cursors /\ projection = Transient(o)
  BY RollbackFinds DEF Commit
<1>2. pc' = [pc EXCEPT ![o] = "fetch"] /\ projection' = "consumed"
  BY <1>1 DEF Commit
<1>3. Claimed' = {o} /\ pc'[o] = "fetch" /\ pc' \in [Ops -> Points]
  BY <1>1, <1>2 DEF CInv, Claimed, ClaimedPoints, Points
<1>4. \A p \in Ops : pc'[p] \in CursorPoints => p \in Cursors
  BY <1>1, <1>2 DEF CInv
<1>5. QED
  BY <1>2, <1>3, <1>4 DEF CInv, CommittedPoints, LatePoints

\* The other steps of a reservation leave the cursor alone.
LEMMA HolderApart ==
  ASSUME CInv, NEW o \in Holders, Reserving(o) \/ Chosen(o)
  PROVE  CInv'
<1> o \in Ops
  BY DEF Ops
<1> DEFINE IsApart == \E from, to : Apart(o, from, to)
<1>0. IsApart => CInv'
  BY ApartStep
<1> USE DEF Apart, Points, CursorPoints, ClaimedPoints, LatePoints, CommittedPoints, stateVars
<1> o \in Cursors \/ o \in Probes
  BY DEF Holders
<1>1. Approach(o) => Apart(o, "idle", "admit")
  BY DEF Approach
<1>2. /\ Admit(o) => Apart(o, "admit", "recheck")
      /\ Leave(o) => Apart(o, "leave", "release")
      /\ ReleaseReference(o) => Apart(o, "release", "over")
  BY DEF Admit, Leave, ReleaseReference
<1>3. Recheck(o) => IsApart
  <2>1. Recheck(o) => \E to \in {"leave", "claim", "using"} : Apart(o, "recheck", to)
    BY DEF Recheck
  <2>2. QED
    BY <2>1
<1>4. Confirm(o) => IsApart
  <2>1. Confirm(o) => \E to \in {"reserved", "undo"} : Apart(o, "confirm", to)
    BY DEF Confirm, CInv
  <2>2. QED
    BY <2>1
<1>5. /\ BeginVerify(o) => Apart(o, "reserved", "verify")
      /\ BeginCommit(o) => Apart(o, pc[o], "commit")
  BY DEF BeginVerify, BeginCommit, CInv
<1>6. /\ GiveUp(o) => Apart(o, pc[o], "rollback")
      /\ CheckCommit(o) => Apart(o, "commit", "swap") \/ Apart(o, "commit", "rollback")
  BY DEF GiveUp, CheckCommit, CInv
<1>7. pc[o] \in CommittedPoints /\ o \in Cursors => projection = "consumed"
  BY DEF CInv, Claimed
<1>8. Fetch(o) => Apart(o, "fetch", "using") \/ Apart(o, "fetch", "leave")
  BY <1>7 DEF Fetch, CInv
<1>9. /\ EndUse(o) => Apart(o, "using", "leave")
      /\ DestroyCursor(o) => Apart(o, "drop", "leave")
  BY <1>7 DEF EndUse, DestroyCursor, CInv
<1>10. /\ KeepCursor(o) => Apart(o, "using", "cursor")
       /\ BeginBatch(o) => Apart(o, "cursor", "batch")
  BY DEF KeepCursor, BeginBatch, CInv, Cursors
<1>11. /\ EndBatch(o) => Apart(o, "batch", "cursor")
       /\ CloseCursor(o) => Apart(o, "cursor", "drop")
  BY DEF EndBatch, CloseCursor, CInv
<1>12. Strand(o) => Apart(o, pc[o], "stranded")
  BY OpsAssumption DEF Strand, Cursors
<1>13. /\ Unstrand(o) /\ projection = "consumed" => Apart(o, "stranded", "leave")
       /\ Unstrand(o) /\ projection # "consumed" => Apart(o, "stranded", "rollback")
  BY DEF Unstrand, CInv
<1>14. CASE Undo(o) \/ Rollback(o)
  BY <1>14, RollbackFinds, GiveBackStep DEF Undo, Rollback, Unclaimed
<1>15. CASE Claim(o) \/ Commit(o)
  BY <1>15, ClaimStep, CommitStep
<1>16. QED
  <2> HIDE DEF Apart
  <2>1. (\E from, to : Apart(o, from, to)) => CInv'
    BY <1>0
  <2> HIDE DEF IsApart
  <2>2. QED
    BY <2>1, <1>0, <1>1, <1>2, <1>3, <1>4, <1>5, <1>6, <1>8, <1>9, <1>10, <1>11, <1>12,
       <1>13, <1>14, <1>15 DEF Reserving, Chosen

\* A cleanup leaves it alone.
LEMMA CloserApart ==
  ASSUME CInv, NEW c \in Closes, Cleaning(c) \/ Requested(c)
  PROVE  CInv'
<1> c \in Ops /\ c \notin Cursors
  BY OpsAssumption DEF Ops, Holders
<1>1. \E from \in Points, to \in Points \ CursorPoints : Apart(c, from, to)
  <2> USE DEF Apart, Points, CursorPoints, ClaimedPoints, stateVars
  <2>1. CASE PrepareClose(c) \/ WorkerClose(c)
    BY <2>1 DEF PrepareClose, WorkerClose, BeginClose
  <2>2. CASE FinishPrepare(c) \/ WorkerBump(c)
    BY <2>2 DEF FinishPrepare, WorkerBump, Bump
  <2>3. CASE StartCleanup(c) \/ RejectCleanup(c) \/ TryCleanup(c) \/ Seize(c)
    BY <2>3 DEF StartCleanup, RejectCleanup, TryCleanup, Seize
  <2>4. CASE FreeField(c) \/ MarkClosed(c)
    BY <2>4 DEF FreeField, MarkClosed, CInv
  <2>5. CASE FinishAccounting(c) \/ ReleaseReference(c)
    BY <2>5 DEF FinishAccounting, ReleaseReference
  <2>6. CASE RequestClose(c) \/ CloseOrphan(c)
    BY <2>6 DEF RequestClose, CloseOrphan
  <2>7. QED
    BY <2>1, <2>2, <2>3, <2>4, <2>5, <2>6 DEF Cleaning, Requested
<1>2. QED
  BY <1>1, ApartStep

\* The ownership of the cursor is an invariant.
LEMMA CursorInit == Init => CInv
<1> SUFFICES ASSUME Init PROVE CInv
  OBVIOUS
<1>1. pc \in [Ops -> Points] /\ \A o \in Ops : pc[o] = "idle"
  BY DEF Init, Points
<1>2. Claimed = {} /\ \A o \in Ops : pc[o] \notin CursorPoints
  BY <1>1 DEF Claimed, ClaimedPoints, CursorPoints
<1>3. QED
  BY <1>1, <1>2 DEF Init, CInv

LEMMA CursorStep == CInv /\ [Next]_vars => CInv'
<1> SUFFICES ASSUME CInv, [Next]_vars PROVE CInv'
  OBVIOUS
<1>1. CASE Opening
  <2>1. UNCHANGED <<pc, projection>>
    BY <1>1 DEF Opening, CreateControl, RefuseOpen, CreateInput, CreateParser,
       OpenDocument, Built, Publish, FailOpen, CancelOpened, Deliver, stateVars
  <2>2. QED
    BY <2>1 DEF CInv, Claimed, Transient
<1>2. ASSUME NEW o \in Holders, Reserving(o) \/ Chosen(o) PROVE CInv'
  BY <1>2, HolderApart
<1>3. ASSUME NEW c \in Closes, Cleaning(c) \/ Requested(c) PROVE CInv'
  BY <1>3, CloserApart
<1>4. CASE DropTerm \/ Detach \/ Dispatch \/ UNCHANGED vars
  <2>1. UNCHANGED <<pc, projection>>
    BY <1>4 DEF DropTerm, Detach, Dispatch, vars, stateVars
  <2>2. QED
    BY <2>1 DEF CInv, Claimed, Transient
<1>5. QED
  BY <1>1, <1>2, <1>3, <1>4 DEF Next

LEMMA CursorHolds == Spec => []CInv
BY CursorInit, CursorStep, PTL DEF Spec

-----------------------------------------------------------------------------
(* Steps that move one operation. *)

\* An operation that is sure of the document is counted.
LEMMA SureAreAdmitted == Sure \subseteq Admitted
BY DEF Sure, Admitted, SurePoints, AdmittedPoints

\* The count is zero only when nobody is sure of the document.
LEMMA DrainedMeansUnsure ==
  ASSUME AdmissionsBalance, admitted = 0
  PROVE  Sure = {}
<1>1. IsFiniteSet(Admitted)
  BY FS_Subset, OpsAssumption DEF Admitted
<1>2. Admitted = {}
  BY <1>1, FS_EmptySet DEF AdmissionsBalance
<1>3. QED
  BY <1>2, SureAreAdmitted

\* No operation enters or leaves the admitted points: the count is right.
LEMMA StayAdmitted ==
  ASSUME Typed, AdmissionsBalance, admitted' = admitted,
         NEW o \in Ops, NEW t \in Points, pc' = [pc EXCEPT ![o] = t],
         pc[o] \in AdmittedPoints <=> t \in AdmittedPoints
  PROVE  AdmissionsBalance'
<1>1. Admitted' = Admitted
  BY DEF Typed, Admitted
<1>2. QED
  BY <1>1 DEF AdmissionsBalance

(***************************************************************************)
(* A quiet step moves one operation that has begun and touches nothing     *)
(* else the invariant speaks of, except that a document may begin to       *)
(* close.  Most actions are quiet.                                         *)
(***************************************************************************)
Quiet(o, from, to) ==
  /\ pc[o] = from /\ pc' = [pc EXCEPT ![o] = to]
  /\ from # "idle" /\ to \in Points
  /\ from \in AdmittedPoints <=> to \in AdmittedPoints
  /\ to \in SurePoints => from \in SurePoints
  /\ to \in {"seize", "free"} => from \in {"seize", "free"}
  /\ UNCHANGED <<opener, admitted, cleanupStarted, owned>>
  /\ lifecycle' \in {lifecycle, "closing"}

\* A quiet step keeps the invariant.
LEMMA QuietStep ==
  ASSUME IInv, NEW o \in Ops, NEW from, NEW to, Quiet(o, from, to)
  PROVE  IInv'
<1>1. opener = "over"
  BY DEF IInv, Unpublished, Quiet
<1>2. Typed'
  BY DEF IInv, Typed, Quiet, Lifecycles
<1>3. AdmissionsBalance'
  BY StayAdmitted DEF IInv, Quiet
<1>4. Sure' \subseteq Sure /\ Seizing' \subseteq Seizing
  BY DEF IInv, Typed, Quiet, Sure, Seizing
<1>5. Unpublished' /\ Constructed'
  BY <1>1 DEF Quiet, Unpublished, Constructed, Building
<1>6. OpenIsWhole' /\ SureIsWhole'
  BY <1>4 DEF IInv, Quiet, OpenIsWhole, SureIsWhole
<1>7. QED
  BY <1>2, <1>3, <1>5, <1>6 DEF IInv

-----------------------------------------------------------------------------
(* The actions, in the order of the module. *)

\* The invariant holds before the opening job begins.
LEMMA InitHolds == Init => IInv
<1> SUFFICES ASSUME Init PROVE IInv
  OBVIOUS
<1>1. Typed
  BY DEF Init, Typed, OpenerPoints, Lifecycles, Points
<1>2. Admitted = {} /\ Sure = {}
  BY DEF Init, Admitted, AdmittedPoints, Sure, SurePoints
<1>3. AdmissionsBalance
  BY <1>2, FS_EmptySet DEF Init, AdmissionsBalance
<1>4. Unpublished /\ Constructed /\ OpenIsWhole /\ SureIsWhole
  BY <1>2 DEF Init, Unpublished, Constructed, OpenIsWhole, SureIsWhole
<1>5. QED
  BY <1>1, <1>3, <1>4 DEF IInv

\* The opening job is alone with its document: it may build, publish, roll
\* back or close it without a look at anybody else.
LEMMA OpeningStep == ASSUME IInv, Opening PROVE IInv'
<1>1. opener # "over" /\ pc' = pc /\ admitted' = admitted
  BY DEF Opening, CreateControl, RefuseOpen, CreateInput, CreateParser,
         OpenDocument, Built, Publish, FailOpen, CancelOpened, Deliver, stateVars
<1>2. \A o \in Ops : pc[o] = "idle"
  BY <1>1 DEF IInv, Unpublished
<1>3. Sure' = {} /\ Seizing' = {} /\ Admitted' = Admitted
  BY <1>1, <1>2 DEF Sure, SurePoints, Seizing, Admitted
<1>4. AdmissionsBalance'
  BY <1>1, <1>3 DEF IInv, AdmissionsBalance
<1>5. Typed'
  BY <1>1 DEF IInv, Typed, Opening, CreateControl, RefuseOpen, CreateInput,
     CreateParser, OpenDocument, Built, Publish, FailOpen, CancelOpened, Deliver,
     stateVars, OpenerPoints, Lifecycles
<1>6. Unpublished'
  BY <1>1, <1>2 DEF IInv, Unpublished, Opening, CreateControl, RefuseOpen, CreateInput,
     CreateParser, OpenDocument, Built, Publish, FailOpen, CancelOpened, Deliver,
     stateVars, ownerVars
<1>7. Constructed'
  BY DEF IInv, Constructed, Building, Fields, Opening, CreateControl, RefuseOpen,
     CreateInput, CreateParser, OpenDocument, Built, Publish, FailOpen, CancelOpened,
     Deliver, stateVars
<1>8. OpenIsWhole' /\ SureIsWhole'
  BY <1>3 DEF IInv, Constructed, Building, OpenIsWhole, SureIsWhole, Opening,
     CreateControl, RefuseOpen, CreateInput, CreateParser, OpenDocument, Built, Publish,
     FailOpen, CancelOpened, Deliver, stateVars, Lifecycles
<1>9. QED
  BY <1>4, <1>5, <1>6, <1>7, <1>8 DEF IInv

(***************************************************************************)
(* An operation begins with a reference of the caller, so the document was *)
(* delivered; it is neither counted nor sure yet.                          *)
(***************************************************************************)
Begun(o, to) ==
  /\ "term" \in refs
  /\ pc[o] = "idle" /\ pc' = [pc EXCEPT ![o] = to]
  /\ to \in {"admit", "prepare", "submitted"}
  /\ UNCHANGED <<opener, lifecycle, admitted, cleanupStarted, owned>>

\* The beginning of an operation keeps the invariant.
LEMMA BegunStep ==
  ASSUME IInv, NEW o \in Ops, NEW to, Begun(o, to)
  PROVE  IInv'
<1>1. opener = "over"
  BY DEF IInv, Unpublished, Begun
<1>2. to \in Points /\ to \notin AdmittedPoints /\ pc[o] \notin AdmittedPoints
  BY DEF Begun, Points, AdmittedPoints
<1>3. Typed'
  BY <1>2 DEF IInv, Typed, Begun
<1>4. AdmissionsBalance'
  BY <1>2, StayAdmitted DEF IInv, Begun
<1>5. Sure' \subseteq Sure /\ Seizing' \subseteq Seizing
  BY DEF IInv, Typed, Begun, Sure, Seizing, SurePoints
<1>6. Unpublished' /\ Constructed'
  BY <1>1 DEF Begun, Unpublished, Constructed, Building
<1>7. OpenIsWhole' /\ SureIsWhole'
  BY <1>5 DEF IInv, Begun, OpenIsWhole, SureIsWhole
<1>8. QED
  BY <1>3, <1>4, <1>6, <1>7 DEF IInv

\* The steps of an operation that are quiet or begin it.
LEMMA ChosenStep ==
  ASSUME IInv, NEW o \in Holders, Chosen(o)
  PROVE  IInv'
<1> o \in Ops
  BY DEF Ops
<1>1. CASE Approach(o)
  <2>1. Begun(o, "admit")
    BY <1>1 DEF Approach, Begun, stateVars
  <2>2. QED
    BY <2>1, BegunStep
<1>2. CASE GiveUp(o)
  <2>1. Quiet(o, pc[o], "rollback")
    BY <1>2 DEF GiveUp, Quiet, stateVars, Points, AdmittedPoints, SurePoints
  <2>2. QED
    BY <2>1, QuietStep
<1>3. CASE KeepCursor(o)
  <2>1. Quiet(o, "using", "cursor")
    BY <1>3 DEF KeepCursor, Quiet, stateVars, Points, AdmittedPoints, SurePoints
  <2>2. QED
    BY <2>1, QuietStep
<1>4. CASE BeginBatch(o)
  <2>1. Quiet(o, "cursor", "batch")
    BY <1>4 DEF BeginBatch, Quiet, stateVars, Points, AdmittedPoints, SurePoints
  <2>2. QED
    BY <2>1, QuietStep
<1>5. CASE CloseCursor(o)
  <2>1. Quiet(o, "cursor", "drop")
    BY <1>5 DEF CloseCursor, Quiet, stateVars, Points, AdmittedPoints, SurePoints
  <2>2. QED
    BY <2>1, QuietStep
<1>6. CASE Strand(o)
  <2>1. Quiet(o, pc[o], "stranded")
    BY <1>6 DEF Strand, Quiet, stateVars, Points, AdmittedPoints, SurePoints
  <2>2. QED
    BY <2>1, QuietStep
<1>7. CASE Unstrand(o)
  <2>1. \E to \in {"leave", "rollback"} : Quiet(o, "stranded", to)
    BY <1>7 DEF Unstrand, Quiet, stateVars, Points, AdmittedPoints, SurePoints
  <2>2. QED
    BY <2>1, QuietStep
<1>8. QED
  BY <1>1, <1>2, <1>3, <1>4, <1>5, <1>6, <1>7 DEF Chosen

\* An admission counts its operation.
LEMMA AdmitStep == ASSUME IInv, NEW o \in Holders, Admit(o) PROVE IInv'
<1> o \in Ops
  BY DEF Ops
<1>1. opener = "over"
  BY DEF IInv, Unpublished, Admit
<1>2. Typed'
  BY DEF IInv, Typed, Admit, Points
<1>3. Admitted' = Admitted \cup {o} /\ o \notin Admitted
  BY DEF IInv, Typed, Admit, Admitted, AdmittedPoints
<1>4. AdmissionsBalance'
  <2>1. IsFiniteSet(Admitted)
    BY FS_Subset, OpsAssumption DEF Admitted
  <2>2. Cardinality(Admitted') = Cardinality(Admitted) + 1
    BY <1>3, <2>1, FS_AddElement
  <2>3. QED
    BY <2>2 DEF IInv, AdmissionsBalance, Admit
<1>5. Sure' = Sure /\ Seizing' = Seizing
  BY DEF IInv, Typed, Admit, Sure, SurePoints, Seizing
<1>6. Unpublished' /\ Constructed' /\ OpenIsWhole' /\ SureIsWhole'
  BY <1>1, <1>5 DEF IInv, Admit, Unpublished, Constructed, Building, OpenIsWhole,
     SureIsWhole
<1>7. QED
  BY <1>2, <1>4, <1>6 DEF IInv

\* A release takes it off the count, and it is sure of nothing by then.
LEMMA LeaveStep == ASSUME IInv, NEW o \in Holders, Leave(o) PROVE IInv'
<1> o \in Ops
  BY DEF Ops
<1>1. opener = "over"
  BY DEF IInv, Unpublished, Leave
<1>2. Typed'
  BY DEF IInv, Typed, Leave, Points
<1>3. Admitted' = Admitted \ {o} /\ o \in Admitted
  BY DEF IInv, Typed, Leave, Admitted, AdmittedPoints
<1>4. AdmissionsBalance'
  <2>1. IsFiniteSet(Admitted)
    BY FS_Subset, OpsAssumption DEF Admitted
  <2>2. Cardinality(Admitted') = Cardinality(Admitted) - 1
    BY <1>3, <2>1, FS_RemoveElement
  <2>3. QED
    BY <2>2 DEF IInv, AdmissionsBalance, Leave, Unadmitted
<1>5. Sure' = Sure /\ Seizing' = Seizing
  BY DEF IInv, Typed, Leave, Sure, SurePoints, Seizing
<1>6. Unpublished' /\ Constructed' /\ OpenIsWhole' /\ SureIsWhole'
  BY <1>1, <1>5 DEF IInv, Leave, Unpublished, Constructed, Building, OpenIsWhole,
     SureIsWhole
<1>7. QED
  BY <1>2, <1>4, <1>6 DEF IInv

\* The second test is where an operation becomes sure of the document: it is
\* counted, and open means that no cleanup has begun.
LEMMA RecheckStep == ASSUME IInv, NEW o \in Holders, Recheck(o) PROVE IInv'
<1> o \in Ops
  BY DEF Ops
<1>1. CASE ~StillOpen
  <2>1. Quiet(o, "recheck", "leave")
    BY <1>1 DEF Recheck, Quiet, stateVars, Points, AdmittedPoints, SurePoints
  <2>2. QED
    BY <2>1, QuietStep
<1>2. CASE StillOpen
  <2> DEFINE to == IF o \in Cursors THEN "claim" ELSE "using"
  <2>1. pc[o] = "recheck" /\ pc' = [pc EXCEPT ![o] = to] /\ lifecycle = "open"
    BY <1>2 DEF Recheck, StillOpen
  <2>2. UNCHANGED <<opener, lifecycle, admitted, cleanupStarted, owned>>
    BY DEF Recheck, stateVars
  <2>3. to \in Points /\ to \in AdmittedPoints /\ pc[o] \in AdmittedPoints
    BY <2>1 DEF Points, AdmittedPoints
  <2>4. opener = "over"
    BY <2>1 DEF IInv, Unpublished
  <2>5. Typed'
    BY <2>1, <2>2, <2>3 DEF IInv, Typed
  <2>6. AdmissionsBalance'
    BY <2>1, <2>2, <2>3, StayAdmitted DEF IInv
  <2>7. Seizing' = Seizing
    BY <2>1 DEF IInv, Typed, Seizing
  <2>8. Unpublished' /\ Constructed' /\ OpenIsWhole' /\ SureIsWhole'
    BY <2>1, <2>2, <2>4, <2>7 DEF IInv, Unpublished, Constructed, Building,
       OpenIsWhole, SureIsWhole
  <2>9. QED
    BY <2>5, <2>6, <2>8 DEF IInv
<1>3. QED
  BY <1>1, <1>2

\* The other steps of a reservation are quiet.
LEMMA ReservingStep ==
  ASSUME IInv, CInv, NEW o \in Holders, Reserving(o)
  PROVE  IInv'
<1> o \in Ops
  BY DEF Ops
<1> DEFINE IsQuiet == \E from, to \in Points : Quiet(o, from, to)
<1>1. Claim(o) => IsQuiet
  BY DEF Claim, Quiet, Points, AdmittedPoints, SurePoints
<1>2. Confirm(o) => IsQuiet
  BY DEF Confirm, Quiet, Points, AdmittedPoints, SurePoints, stateVars
<1>3. Undo(o) \/ Rollback(o) => IsQuiet
  BY RollbackFinds DEF Undo, Rollback, Quiet, Points, AdmittedPoints, SurePoints
<1>4. BeginVerify(o) => IsQuiet
  BY DEF BeginVerify, Quiet, Points, AdmittedPoints, SurePoints, stateVars
<1>5. BeginCommit(o) => IsQuiet
  BY DEF BeginCommit, Quiet, Points, AdmittedPoints, SurePoints, stateVars
<1>6. CheckCommit(o) => IsQuiet
  BY DEF CheckCommit, Quiet, Points, AdmittedPoints, SurePoints, stateVars
<1>7. Commit(o) => IsQuiet
  BY DEF Commit, Quiet, Points, AdmittedPoints, SurePoints
<1>8. Fetch(o) => IsQuiet
  BY DEF Fetch, Quiet, Points, AdmittedPoints, SurePoints, stateVars
<1>9. EndUse(o) \/ EndBatch(o) \/ DestroyCursor(o) => IsQuiet
  BY DEF EndUse, EndBatch, DestroyCursor, Quiet, Points, AdmittedPoints, SurePoints,
         stateVars
<1>10. ReleaseReference(o) => IsQuiet
  BY DEF ReleaseReference, Quiet, Points, AdmittedPoints, SurePoints, stateVars
<1>11. CASE IsQuiet
  BY <1>11, QuietStep
<1>12. CASE Admit(o) \/ Recheck(o) \/ Leave(o)
  BY <1>12, AdmitStep, RecheckStep, LeaveStep
<1>13. QED
  BY <1>1, <1>2, <1>3, <1>4, <1>5, <1>6, <1>7, <1>8, <1>9, <1>10, <1>11, <1>12
     DEF Reserving

(***************************************************************************)
(* A step of the cleanup that is about to free or frees: nobody is sure,   *)
(* the document is not open, so it may do what it likes to the objects.    *)
(***************************************************************************)
Freed(c, to) ==
  /\ pc[c] \in {"seize", "free"} /\ pc' = [pc EXCEPT ![c] = to]
  /\ to \in {"free", "account", "cleaning"}
  /\ UNCHANGED <<opener, admitted>>
  /\ lifecycle' \in {lifecycle, "closed"} /\ cleanupStarted' \in BOOLEAN

\* Freeing keeps the invariant.
LEMMA FreedStep ==
  ASSUME IInv, NEW c \in Ops, NEW to, Freed(c, to)
  PROVE  IInv'
<1>1. opener = "over"
  BY DEF IInv, Unpublished, Freed
<1>2. lifecycle # "open" /\ Sure = {}
  BY DEF IInv, Freed, OpenIsWhole, SureIsWhole, Seizing
<1>3. to \in Points /\ to \notin AdmittedPoints /\ pc[c] \notin AdmittedPoints
  BY DEF Freed, Points, AdmittedPoints
<1>4. Typed'
  BY <1>3 DEF IInv, Typed, Freed, Lifecycles
<1>5. AdmissionsBalance'
  BY <1>3, StayAdmitted DEF IInv, Freed
<1>6. Sure' = {}
  BY <1>2 DEF IInv, Typed, Freed, Sure, SurePoints
<1>7. Unpublished' /\ Constructed' /\ OpenIsWhole' /\ SureIsWhole'
  BY <1>1, <1>2, <1>6 DEF Freed, Unpublished, Constructed, Building, OpenIsWhole,
     SureIsWhole
<1>8. QED
  BY <1>4, <1>5, <1>7 DEF IInv

\* A cleanup goes on to free only when the document is closing and the count
\* is zero, when nobody is sure of the document.
LEMMA TryCleanupStep == ASSUME IInv, NEW c \in Closes, TryCleanup(c) PROVE IInv'
<1> c \in Ops
  BY DEF Ops
<1>1. CASE Goto(c, "cleaning", "account")
  <2>1. Quiet(c, "cleaning", "account")
    BY <1>1 DEF TryCleanup, Quiet, stateVars, Points, AdmittedPoints, SurePoints
  <2>2. QED
    BY <2>1, QuietStep
<1>2. CASE lifecycle = "closing" /\ Drained /\ Goto(c, "cleaning", "seize")
  <2>1. Sure = {}
    BY <1>2, DrainedMeansUnsure DEF IInv, Drained
  <2>2. UNCHANGED <<opener, lifecycle, admitted, cleanupStarted, owned>>
    BY DEF TryCleanup, stateVars
  <2>3. "seize" \in Points /\ {"seize", "cleaning"} \cap AdmittedPoints = {}
    BY DEF Points, AdmittedPoints
  <2>4. opener = "over"
    BY <1>2 DEF IInv, Unpublished
  <2>5. Typed'
    BY <1>2, <2>2, <2>3 DEF IInv, Typed
  <2>6. AdmissionsBalance'
    BY <1>2, <2>2, <2>3, StayAdmitted DEF IInv
  <2>7. Sure' = {}
    BY <1>2, <2>1 DEF IInv, Typed, Sure, SurePoints
  <2>8. Unpublished' /\ Constructed' /\ OpenIsWhole' /\ SureIsWhole'
    BY <1>2, <2>2, <2>4, <2>7 DEF Unpublished, Constructed, Building, OpenIsWhole,
       SureIsWhole
  <2>9. QED
    BY <2>5, <2>6, <2>8 DEF IInv
<1>3. QED
  BY <1>1, <1>2 DEF TryCleanup

\* The other steps of a cleanup are quiet or free.
LEMMA CleaningStep == ASSUME IInv, NEW c \in Closes, Cleaning(c) PROVE IInv'
<1> c \in Ops
  BY DEF Ops
<1> DEFINE IsQuiet == \E from, to \in Points : Quiet(c, from, to)
<1> DEFINE IsFreed == \E to \in Points : Freed(c, to)
<1>1. PrepareClose(c) => IsQuiet
  BY DEF PrepareClose, BeginClose, Quiet, Points, AdmittedPoints, SurePoints
<1>2. FinishPrepare(c) \/ WorkerBump(c) => IsQuiet
  BY DEF FinishPrepare, WorkerBump, Bump, Quiet, Points, AdmittedPoints, SurePoints
<1>3. StartCleanup(c) => IsQuiet
  BY DEF StartCleanup, Quiet, Points, AdmittedPoints, SurePoints, stateVars
<1>4. WorkerClose(c) => IsQuiet
  BY DEF WorkerClose, BeginClose, Quiet, Points, AdmittedPoints, SurePoints
<1>5. FinishAccounting(c) => IsQuiet
  BY DEF FinishAccounting, Quiet, Points, AdmittedPoints, SurePoints, stateVars
<1>6. ReleaseReference(c) => IsQuiet
  BY DEF ReleaseReference, Quiet, Points, AdmittedPoints, SurePoints, stateVars
<1>7. Seize(c) => IsFreed
  BY DEF Seize, Freed, Points
<1>8. FreeField(c) => IsFreed
  BY DEF FreeField, Freed, Points, IInv, Typed
<1>9. MarkClosed(c) => IsFreed
  BY DEF MarkClosed, Freed, Points, IInv, Typed
<1>10. CASE IsQuiet
  BY <1>10, QuietStep
<1>11. CASE IsFreed
  BY <1>11, FreedStep
<1>12. CASE TryCleanup(c)
  BY <1>12, TryCleanupStep
<1>13. QED
  BY <1>1, <1>2, <1>3, <1>4, <1>5, <1>6, <1>7, <1>8, <1>9, <1>10, <1>11, <1>12
     DEF Cleaning

\* The requests begin a cleanup or turn it away.
LEMMA RequestedStep == ASSUME IInv, NEW c \in Closes, Requested(c) PROVE IInv'
<1> c \in Ops
  BY DEF Ops
<1>1. CASE RequestClose(c) \/ CloseOrphan(c)
  <2>1. \E to \in {"prepare", "submitted"} : Begun(c, to)
    BY <1>1 DEF RequestClose, CloseOrphan, Begun, stateVars
  <2>2. QED
    BY <2>1, BegunStep
<1>2. CASE RejectCleanup(c)
  <2>1. Quiet(c, "submitted", "release")
    BY <1>2 DEF RejectCleanup, Quiet, stateVars, Points, AdmittedPoints, SurePoints
  <2>2. QED
    BY <2>1, QuietStep
<1>3. QED
  BY <1>1, <1>2 DEF Requested

\* The end of the resource: the dispatcher frees only a document nobody is
\* sure of, by the same test.
LEMMA EndStep ==
  ASSUME IInv, DropTerm \/ Detach \/ Dispatch
  PROVE  IInv'
<1>1. UNCHANGED <<opener, admitted, pc>> /\ ("term" \in refs' => "term" \in refs)
  BY DEF DropTerm, Detach, Dispatch, stateVars
<1>2. Sure' = Sure /\ Seizing' = Seizing /\ Admitted' = Admitted
  BY <1>1 DEF Sure, Seizing, Admitted
<1>3. Typed'
  BY <1>1 DEF IInv, Typed, DropTerm, Detach, Dispatch, stateVars, Lifecycles
<1>4. AdmissionsBalance'
  BY <1>1, <1>2 DEF IInv, AdmissionsBalance
<1>5. Unpublished'
  BY <1>1 DEF IInv, Unpublished
<1>6. Constructed' /\ OpenIsWhole'
  BY <1>1, <1>2 DEF IInv, Constructed, Building, OpenIsWhole, DropTerm, Detach,
     Dispatch, IsClosed, Wins, stateVars
<1>7. SureIsWhole'
  <2>1. CASE UNCHANGED <<owned, cleanupStarted>>
    BY <1>2, <2>1 DEF IInv, SureIsWhole
  <2>2. CASE Dispatch /\ Drained
    BY <1>2, <2>2, DrainedMeansUnsure DEF IInv, SureIsWhole, Drained
  <2>3. QED
    BY <2>1, <2>2 DEF DropTerm, Detach, Dispatch, stateVars
<1>8. QED
  BY <1>3, <1>4, <1>5, <1>6, <1>7 DEF IInv

\* Every step keeps the invariant.
LEMMA NextHolds == IInv /\ CInv /\ [Next]_vars => IInv'
<1> SUFFICES ASSUME IInv, CInv, [Next]_vars PROVE IInv'
  OBVIOUS
<1>1. CASE Opening
  BY <1>1, OpeningStep
<1>2. ASSUME NEW o \in Holders, Reserving(o) \/ Chosen(o) PROVE IInv'
  BY <1>2, ReservingStep, ChosenStep
<1>3. ASSUME NEW c \in Closes, Cleaning(c) \/ Requested(c) PROVE IInv'
  BY <1>3, CleaningStep, RequestedStep
<1>4. CASE DropTerm \/ Detach \/ Dispatch
  BY <1>4, EndStep
<1>5. CASE UNCHANGED vars
  BY <1>5 DEF vars, stateVars, ownerVars, IInv, Typed, AdmissionsBalance, Admitted,
     Unpublished, Constructed, OpenIsWhole, SureIsWhole, Sure, Seizing
<1>6. QED
  BY <1>1, <1>2, <1>3, <1>4, <1>5 DEF Next

\* The strengthened invariant holds of every document.
LEMMA Inductive == Spec => []IInv
BY InitHolds, NextHolds, CursorHolds, PTL DEF Spec

-----------------------------------------------------------------------------
(* The results. *)

\* The admission counter is exact in every interleaving of reservations,
\* commits, rollbacks, cursors and cleanups of any number of operations: no
\* path through document_resource.zig leaks an admission or releases it twice, as
\* long as the resource of every cursor can be allocated (see UnmadeCursor).
THEOREM CountIsExact == Spec => []AdmissionsBalance
<1>1. IInv => AdmissionsBalance
  BY DEF IInv
<1>2. QED
  BY <1>1, Inductive, PTL

\* No operation, however many cross, reads the input, traverses the document
\* or holds a cursor into it while a cleanup frees or has freed it.
THEOREM NoUseAfterFree == Spec => []UsedIsOwned
<1>1. IInv => UsedIsOwned
  BY DEF IInv, SureIsWhole, Sure, SurePoints, UsedIsOwned, Using, UsingPoints
<1>2. QED
  BY <1>1, Inductive, PTL

\* The one-shot cursor has one owner, and the atomic says which kind and how
\* far it is, whatever closes cross its reservation.
THEOREM CursorHasOneOwner == Spec => []OneCursor
<1>1. CInv => OneCursor
  BY DEF CInv, OneCursor, LatePoints, CommittedPoints
<1>2. QED
  BY <1>1, CursorHolds, PTL

\* It has, too, where the resource of a cursor cannot be allocated and its
\* admission is released twice: the one-shot state is not touched by that.
THEOREM UnmadeCursorHasOneOwner == UnmadeSpec => []OneCursor
<1>1. CInv /\ [UnmadeNext]_vars => CInv'
  <2> SUFFICES ASSUME CInv, UnmadeNext, ~Next PROVE CInv'
    BY CursorStep DEF UnmadeNext
  <2>1. PICK s \in Streams : FailCursor(s) \/ ReleaseSpoilt(s)
    BY DEF UnmadeNext
  <2>2. s \in Ops /\ s \in Cursors
    BY DEF Ops, Holders, Cursors
  <2>3. \E from, to \in Points : Apart(s, from, to)
    <3> USE DEF Apart, Points, CursorPoints, ClaimedPoints, LatePoints, CommittedPoints,
                stateVars
    <3>1. pc[s] \in CommittedPoints => projection = "consumed"
      BY <2>2 DEF CInv, Claimed
    <3> QED
      BY <2>1, <2>2, <3>1 DEF FailCursor, ReleaseSpoilt
  <2> QED
    BY <2>2, <2>3, ApartStep
<1>2. CInv => OneCursor
  BY DEF CInv, OneCursor, LatePoints, CommittedPoints
<1> QED
  BY <1>1, <1>2, CursorInit, PTL DEF UnmadeSpec

-----------------------------------------------------------------------------
(***************************************************************************)
(* Type correctness.  That a generation is 0, 1 or 2 is not local to any   *)
(* action: it says that the document is published once and closed once,    *)
(* whoever closes it.                                                      *)
(***************************************************************************)
Bumping == {c \in Ops : pc[c] \in {"bump", "rebump"}}

Generations ==
  /\ opener \in Building => generation = 0
  /\ opener = "deliver" => generation = 1 /\ "opener" \in refs
  /\ opener \in Building \ {"queued"} => "opener" \in refs
  /\ lifecycle = "open" => generation = 1 /\ Bumping = {}
  /\ Bumping # {} => generation = 1
  /\ \A c, d \in Bumping : c = d

TypeInv == TypeOK /\ Generations

\* The types hold before the opening job begins.
LEMMA InitTyped == Init => TypeInv
<1>1. Init => TypeOK
  <2> SUFFICES ASSUME Init PROVE TypeOK
    OBVIOUS
  <2>1. opener \in OpenerPoints /\ lifecycle \in Lifecycles /\ projection \in Projections
    BY DEF Init, OpenerPoints, Lifecycles, Projections
  <2>2. generation \in 0..2 /\ admitted \in Nat /\ live \in Int
    BY DEF Init
  <2>3. cleanupStarted \in BOOLEAN /\ accounted \in BOOLEAN /\ dispatched \in BOOLEAN
    BY DEF Init
  <2>4. owned \subseteq Fields /\ refs \subseteq Ops \cup {"opener", "term"}
    BY DEF Init
  <2>5. control \in {"none", "allocated", "freed"}
    BY DEF Init
  <2>6. pc \in [Ops -> Points] /\ seen \in [Ops -> 0..2]
    BY DEF Init, Points
  <2>7. QED
    BY <2>1, <2>2, <2>3, <2>4, <2>5, <2>6 DEF TypeOK
<1>2. Init => Generations
  BY DEF Init, Generations, Bumping, Building
<1>3. QED
  BY <1>1, <1>2 DEF TypeInv

\* The opening job publishes once.
LEMMA OpeningTyped == ASSUME IInv, TypeInv, admitted' \in Nat, Opening PROVE TypeInv'
<1>1. opener # "over" /\ pc' = pc /\ seen' = seen
  BY DEF Opening, CreateControl, RefuseOpen, CreateInput, CreateParser,
         OpenDocument, Built, Publish, FailOpen, CancelOpened, Deliver, stateVars
<1>2. Bumping = {} /\ Bumping' = {}
  BY <1>1 DEF IInv, Unpublished, Bumping
<1>3. TypeOK'
  <2> USE <1>1 DEF TypeInv, TypeOK, stateVars, ownerVars
  <2>1. CASE CreateControl \/ RefuseOpen
    BY <2>1 DEF CreateControl, RefuseOpen, OpenerPoints
  <2>2. CASE CreateInput \/ CreateParser \/ OpenDocument
    BY <2>2 DEF CreateInput, CreateParser, OpenDocument, Built, OpenerPoints, Fields
  <2>3. CASE Publish
    BY <2>3 DEF Publish, OpenerPoints, Lifecycles
  <2>4. CASE FailOpen
    BY <2>4 DEF FailOpen, OpenerPoints, RolledBack
  <2>5. CASE CancelOpened
    BY <2>5 DEF CancelOpened, OpenerPoints, Lifecycles, Generations
  <2>6. CASE Deliver
    BY <2>6 DEF Deliver, OpenerPoints
  <2>7. QED
    BY <2>1, <2>2, <2>3, <2>4, <2>5, <2>6 DEF Opening
<1>4. Generations'
  BY <1>2 DEF IInv, Constructed, TypeInv, Generations, Opening, CreateControl, RefuseOpen,
     CreateInput, CreateParser, OpenDocument, Built, Publish, FailOpen, CancelOpened,
     Deliver, stateVars, ownerVars, Building
<1>5. QED
  BY <1>3, <1>4 DEF TypeInv

\* A step that neither bumps nor is about to leaves the generation alone.
Steady(o, to) ==
  /\ pc[o] # "idle" \/ "term" \in refs
  /\ pc' = [pc EXCEPT ![o] = to] /\ to \in Points \ {"bump", "rebump"}
  /\ pc[o] \notin {"bump", "rebump"}
  /\ UNCHANGED <<opener, generation>>
  /\ lifecycle' \in {lifecycle, "closed"}
  /\ projection' \in {projection, Transient(o), "fresh", "consumed"}
  /\ cleanupStarted' \in BOOLEAN /\ owned' \subseteq owned
  /\ accounted' \in BOOLEAN /\ live' \in {live, live - 1}
  /\ UNCHANGED <<control, dispatched>>
  /\ refs' \subseteq refs \cup {o}
  /\ seen' \in {seen, [seen EXCEPT ![o] = generation]}

\* Such a step keeps the types.
LEMMA SteadyStep ==
  ASSUME IInv, TypeInv, admitted' \in Nat, NEW o \in Ops, NEW to, Steady(o, to)
  PROVE  TypeInv'
<1>1. opener = "over"
  BY DEF IInv, Unpublished, Steady
<1>2. Bumping' = Bumping
  BY DEF TypeInv, TypeOK, Steady, Bumping
<1>3. Generations'
  BY <1>1, <1>2 DEF TypeInv, Generations, Steady, Building
<1>4. TypeOK'
  BY DEF TypeInv, TypeOK, Steady, Transient, Lifecycles, Projections
<1>5. QED
  BY <1>3, <1>4 DEF TypeInv

\* The steps of a reservation are steady.
LEMMA HolderTyped ==
  ASSUME IInv, TypeInv, admitted' \in Nat, NEW o \in Holders, Reserving(o) \/ Chosen(o)
  PROVE  TypeInv'
<1> o \in Ops
  BY DEF Ops
<1> DEFINE IsSteady == \E to \in Points : Steady(o, to)
<1> pc \in [Ops -> Points] /\ cleanupStarted \in BOOLEAN /\ accounted \in BOOLEAN
  BY DEF TypeInv, TypeOK
<1>1. Approach(o) => IsSteady
  BY DEF Approach, Steady, Points, stateVars, Retained
<1>2. Admit(o) \/ Recheck(o) \/ Leave(o) => IsSteady
  BY DEF Admit, Recheck, Leave, Steady, Points, stateVars, ownerVars
<1>3. Claim(o) \/ Confirm(o) \/ Undo(o) \/ Rollback(o) => IsSteady
  BY DEF Claim, Confirm, Undo, Rollback, Unclaimed, Steady, Points, stateVars, ownerVars
<1>4. BeginVerify(o) \/ BeginCommit(o) \/ GiveUp(o) => IsSteady
  BY DEF BeginVerify, BeginCommit, GiveUp, Steady, Points, stateVars, ownerVars
<1>5. CheckCommit(o) \/ Commit(o) \/ Fetch(o) => IsSteady
  BY DEF CheckCommit, Commit, Fetch, Steady, Points, stateVars, ownerVars
<1>6. EndUse(o) \/ KeepCursor(o) \/ BeginBatch(o) \/ EndBatch(o) => IsSteady
  BY DEF EndUse, KeepCursor, BeginBatch, EndBatch, Steady, Points, stateVars, ownerVars
<1>7. CloseCursor(o) \/ DestroyCursor(o) => IsSteady
  BY DEF CloseCursor, DestroyCursor, Steady, Points, stateVars, ownerVars
<1>8. Strand(o) \/ Unstrand(o) => IsSteady
  BY DEF Strand, Unstrand, Steady, Points, stateVars, ownerVars
<1>9. ReleaseReference(o) => IsSteady
  BY DEF ReleaseReference, Steady, Points, stateVars
<1>10. QED
  BY <1>1, <1>2, <1>3, <1>4, <1>5, <1>6, <1>7, <1>8, <1>9, SteadyStep
     DEF Reserving, Chosen

\* Whoever wins the close is the only one to count the generation up.
LEMMA BeginCloseTyped ==
  ASSUME IInv, TypeInv, admitted' \in Nat, NEW c \in Ops,
         NEW from \in Points \ {"idle", "bump", "rebump"},
         NEW won \in {"bump", "rebump"}, NEW lost \in Points \ {"bump", "rebump"},
         BeginClose(c, from, won, lost)
  PROVE  TypeInv'
<1> USE DEF BeginClose, ownerVars
<1>1. opener = "over" /\ opener' = opener
  BY DEF IInv, Unpublished
<1>2. TypeOK'
  <2>1. pc' \in [Ops -> Points]
    BY DEF TypeInv, TypeOK, Points
  <2>2. QED
    BY <2>1 DEF TypeInv, TypeOK, Lifecycles
<1>3. CASE Wins
  <2>1. Bumping' = {c} /\ generation' = 1 /\ lifecycle' = "closing"
    BY <1>3 DEF TypeInv, TypeOK, Generations, Bumping, Wins
  <2>2. QED
    BY <1>1, <1>2, <2>1 DEF TypeInv, Generations, Building
<1>4. CASE ~Wins
  <2>1. Bumping' = Bumping
    BY <1>4 DEF TypeInv, TypeOK, Bumping
  <2>2. QED
    BY <1>1, <1>2, <1>4, <2>1 DEF TypeInv, Generations, Building
<1>5. QED
  BY <1>3, <1>4

\* It does so once.
LEMMA BumpTyped ==
  ASSUME IInv, TypeInv, admitted' \in Nat, NEW c \in Ops,
         NEW from \in {"bump", "rebump"}, NEW to \in Points \ {"bump", "rebump"},
         Bump(c, from, to)
  PROVE  TypeInv'
<1> USE DEF Bump, ownerVars
<1>1. opener = "over" /\ opener' = opener
  BY DEF IInv, Unpublished
<1>2. c \in Bumping
  BY DEF Bumping
<1>3. generation' = 2 /\ lifecycle' # "open"
  BY <1>2 DEF TypeInv, Generations
<1>4. Bumping' = {}
  BY <1>2 DEF TypeInv, TypeOK, Generations, Bumping
<1>5. pc' \in [Ops -> Points]
  BY DEF TypeInv, TypeOK
<1>6. QED
  BY <1>1, <1>3, <1>4, <1>5 DEF TypeInv, TypeOK, Generations, Building

\* The other steps of a cleanup are steady.
LEMMA CloserTyped ==
  ASSUME IInv, TypeInv, admitted' \in Nat, NEW c \in Closes, Cleaning(c) \/ Requested(c)
  PROVE  TypeInv'
<1> c \in Ops
  BY DEF Ops
<1> DEFINE IsSteady == \E to \in Points : Steady(c, to)
<1> pc \in [Ops -> Points] /\ cleanupStarted \in BOOLEAN /\ accounted \in BOOLEAN
  BY DEF TypeInv, TypeOK
<1>1. CASE PrepareClose(c)
  BY <1>1, BeginCloseTyped DEF PrepareClose, Points
<1>2. CASE WorkerClose(c)
  BY <1>2, BeginCloseTyped DEF WorkerClose, Points
<1>3. CASE FinishPrepare(c) \/ WorkerBump(c)
  BY <1>3, BumpTyped DEF FinishPrepare, WorkerBump, Points
<1>4. StartCleanup(c) \/ RejectCleanup(c) \/ TryCleanup(c) => IsSteady
  BY DEF StartCleanup, RejectCleanup, TryCleanup, Steady, Points, stateVars, ownerVars
<1>5. Seize(c) \/ FreeField(c) \/ MarkClosed(c) => IsSteady
  BY DEF Seize, FreeField, MarkClosed, Steady, Points, ownerVars
<1>6. FinishAccounting(c) \/ ReleaseReference(c) => IsSteady
  BY DEF FinishAccounting, ReleaseReference, GaugeSettled, Steady, Points, stateVars
<1>7. RequestClose(c) \/ CloseOrphan(c) => IsSteady
  BY DEF RequestClose, CloseOrphan, Retained, Steady, Points, stateVars
<1>8. QED
  BY <1>1, <1>2, <1>3, <1>4, <1>5, <1>6, <1>7, SteadyStep DEF Cleaning, Requested

\* The destructor finds the document published and counts it up, or not.
LEMMA EndTyped ==
  ASSUME IInv, TypeInv, admitted' \in Nat, DropTerm \/ Detach \/ Dispatch
  PROVE  TypeInv'
<1>1. UNCHANGED <<opener, pc, seen, projection>>
  BY DEF DropTerm, Detach, Dispatch, stateVars
<1>2. Bumping' = Bumping
  BY <1>1 DEF Bumping
<1>3. CASE DropTerm
  BY <1>1, <1>2, <1>3 DEF DropTerm, TypeInv, TypeOK, Generations, stateVars, Building
<1>4. CASE Detach
  <2>1. Wins => generation = 1 /\ Bumping = {} /\ lifecycle' = "closing"
    BY <1>4 DEF Detach, Wins, TypeInv, Generations
  <2>2. TypeOK'
    BY <1>1, <1>4, <2>1 DEF Detach, TypeInv, TypeOK, Lifecycles
  <2>3. opener # "deliver" /\ opener \notin Building \ {"queued"} /\ refs' = refs
    BY <1>4 DEF Detach, TypeInv, Generations
  <2>4. ~Wins => generation' = generation /\ lifecycle' = lifecycle
    BY <1>4 DEF Detach
  <2>5. opener \in Building => ~Wins
    BY DEF IInv, Constructed, Wins
  <2>6. Generations'
    BY <1>1, <1>2, <2>1, <2>3, <2>4, <2>5, <1>4 DEF Detach, TypeInv, Generations, Wins
  <2>7. QED
    BY <2>2, <2>6 DEF TypeInv
<1>5. CASE Dispatch
  <2>1. TypeOK'
    <3>1. lifecycle' \in Lifecycles /\ owned' \subseteq Fields
      BY <1>5 DEF Dispatch, TypeInv, TypeOK, Lifecycles
    <3>2. live' \in Int /\ control' \in {"none", "allocated", "freed"}
      BY <1>5 DEF Dispatch, TypeInv, TypeOK, GaugeSettled
    <3>3. cleanupStarted' \in BOOLEAN /\ accounted' \in BOOLEAN
      BY <1>5 DEF Dispatch, TypeInv, TypeOK
    <3>4. UNCHANGED <<generation, refs, dispatched>>
      BY <1>5 DEF Dispatch
    <3>5. QED
      BY <1>1, <3>1, <3>2, <3>3, <3>4 DEF TypeInv, TypeOK
  <2>2. lifecycle' = "closed" /\ UNCHANGED <<opener, generation, refs>>
    BY <1>5 DEF Dispatch, IsClosed
  <2>3. Generations'
    BY <1>2, <2>2 DEF TypeInv, Generations
  <2>4. QED
    BY <2>1, <2>3 DEF TypeInv
<1>6. QED
  BY <1>3, <1>4, <1>5

\* The types are kept in every run; in particular the generation ends at 2,
\* one publication and one close, however many close the document at once.
THEOREM TypeCorrect == Spec => []TypeOK
<1>1. IInv /\ TypeInv /\ IInv' /\ [Next]_vars => TypeInv'
  <2> SUFFICES ASSUME IInv, TypeInv, IInv', [Next]_vars PROVE TypeInv'
    OBVIOUS
  <2>1. admitted' \in Nat
    BY FS_Subset, FS_CardinalityType, OpsAssumption DEF IInv, AdmissionsBalance, Admitted
  <2>2. CASE Opening
    BY <2>1, <2>2, OpeningTyped
  <2>3. ASSUME NEW o \in Holders, Reserving(o) \/ Chosen(o) PROVE TypeInv'
    BY <2>1, <2>3, HolderTyped
  <2>4. ASSUME NEW c \in Closes, Cleaning(c) \/ Requested(c) PROVE TypeInv'
    BY <2>1, <2>4, CloserTyped
  <2>5. CASE DropTerm \/ Detach \/ Dispatch
    BY <2>1, <2>5, EndTyped
  <2>6. CASE UNCHANGED vars
    BY <2>6 DEF vars, stateVars, ownerVars, TypeInv, TypeOK, Generations, Bumping
  <2>7. QED
    BY <2>2, <2>3, <2>4, <2>5, <2>6 DEF Next
<1>2. TypeInv => TypeOK
  BY DEF TypeInv
<1>3. QED
  BY <1>1, <1>2, InitTyped, Inductive, PTL DEF Spec
-----------------------------------------------------------------------------
(***************************************************************************)
(* The end of a document: who still points to it, what is still counted    *)
(* and what is still owned when it is closed, and that one thread frees.   *)
(***************************************************************************)

\* Every operation that has begun and not ended has its reference, and the
\* dispatcher has the control only when nobody has one.
Referenced ==
  /\ \A o \in Ops : o \in refs <=> pc[o] \notin {"idle", "over"}
  /\ opener = "queued" => control = "none" /\ refs = {}
  /\ opener \notin {"queued", "over"} => control = "allocated" /\ "opener" \in refs
  /\ dispatched => refs = {} /\ opener = "over" /\ control # "none"
  /\ control = "freed" => dispatched /\ lifecycle = "closed"

\* The gauge counts the document from its delivery to its first cleanup.
Gauged ==
  /\ live = IF accounted THEN 1 ELSE 0
  /\ opener # "over" => ~accounted
  /\ accounted => control = "allocated"

\* What is closed is empty.
Emptied ==
  /\ opener = "deliver" => lifecycle = "open"
  /\ opener = "over" /\ lifecycle = "closed" => owned = {}
  /\ opener = "over" /\ ~accounted => owned = {}
  /\ \A c \in Ops : pc[c] = "account" => lifecycle = "closed"

\* One operation frees, while the document is closing, and a document that
\* somebody can still reach is closed only by a cleanup.
FreedOnce ==
  /\ \A c, d \in Freeing : c = d
  /\ Freeing # {} => cleanupStarted /\ lifecycle = "closing"
  /\ lifecycle = "closed" /\ ("term" \in refs \/ \E o \in Ops : pc[o] # "idle") =>
       cleanupStarted

EInv == Referenced /\ Gauged /\ Emptied /\ FreedOnce

\* It holds before the opening job begins.
LEMMA InitEnds == Init => EInv
BY OpsAssumption DEF Init, EInv, Referenced, Gauged, Emptied, FreedOnce, Freeing

\* The opening job is the only one with a reference until it delivers.
LEMMA OpeningEnds == ASSUME IInv, EInv, Opening PROVE EInv'
<1> USE DEF stateVars, ownerVars
<1>1. opener # "over" /\ pc' = pc /\ cleanupStarted \in BOOLEAN
  BY DEF Opening, CreateControl, RefuseOpen, CreateInput, CreateParser,
         OpenDocument, Built, Publish, FailOpen, CancelOpened, Deliver, IInv, Typed
<1>2. "term" \notin refs /\ \A o \in Ops : pc[o] = "idle" /\ o \notin refs
  BY <1>1 DEF IInv, Unpublished, EInv, Referenced
<1>3. ~dispatched /\ control # "freed" /\ ~accounted /\ live = 0
  BY <1>1 DEF EInv, Referenced, Gauged
<1>4. "term" \notin Ops /\ "opener" \notin Ops
  BY OpsAssumption
<1>5. dispatched' = dispatched /\ \A o \in Ops : o \notin refs'
  BY <1>2, <1>4 DEF Opening, CreateControl, RefuseOpen, CreateInput, CreateParser,
     OpenDocument, Built, Publish, FailOpen, CancelOpened, Deliver
<1>6. Referenced'
  <2>1. /\ opener' # "queued"
        /\ opener' # "over" => control' = "allocated" /\ "opener" \in refs'
        /\ control' # "freed"
    BY <1>1, <1>3 DEF EInv, Referenced, Opening, CreateControl, RefuseOpen, CreateInput,
       CreateParser, OpenDocument, Built, Publish, FailOpen, CancelOpened, Deliver
  <2>2. QED
    BY <1>1, <1>2, <1>3, <1>5, <2>1 DEF Referenced
<1>7. Gauged'
  BY <1>1, <1>3 DEF EInv, Referenced, Gauged, Opening, CreateControl, RefuseOpen, CreateInput,
       CreateParser, OpenDocument, Built, Publish, FailOpen, CancelOpened, Deliver
<1>8. Emptied'
  <2>1. /\ opener' = "deliver" => lifecycle' = "open"
        /\ opener' = "over" /\ lifecycle' = "closed" => owned' = {}
        /\ opener' = "over" /\ ~accounted' => owned' = {}
    BY <1>1, <1>3 DEF EInv, Emptied, IInv, Constructed, Building, RolledBack, Opening,
       CreateControl, RefuseOpen, CreateInput, CreateParser, OpenDocument, Built, Publish,
       FailOpen, CancelOpened, Deliver
  <2>2. QED
    BY <1>1, <1>2, <2>1 DEF Emptied
<1>9. FreedOnce'
  <2>1. Freeing' = {}
    BY <1>1, <1>2 DEF Freeing
  <2>2. "term" \in refs' => lifecycle' = "open"
    BY <1>2 DEF EInv, Emptied, Opening, CreateControl, RefuseOpen, CreateInput,
       CreateParser, OpenDocument, Built, Publish, FailOpen, CancelOpened, Deliver
  <2>3. QED
    BY <1>1, <1>2, <2>1, <2>2 DEF FreedOnce
<1>10. QED
  BY <1>6, <1>7, <1>8, <1>9 DEF EInv

(***************************************************************************)
(* An operation on its way: it keeps its reference, does not begin to free *)
(* and goes to the accounting only when the document is closed.            *)
(***************************************************************************)
Onward(o, to) ==
  /\ pc[o] \notin {"idle", "over", "free", "account"} /\ pc' = [pc EXCEPT ![o] = to]
  /\ to \in Points \ {"idle", "over", "free"}
  /\ to = "account" => lifecycle = "closed"
  /\ UNCHANGED <<opener, owned, cleanupStarted, accounted, live, control, refs, dispatched>>
  /\ lifecycle' = lifecycle \/ (lifecycle = "open" /\ lifecycle' = "closing")

\* Such a step changes nothing of what is left in the end.
LEMMA OnwardEnds ==
  ASSUME IInv, EInv, NEW o \in Ops, NEW to, Onward(o, to)
  PROVE  EInv'
<1>1. \A p \in Ops : pc'[p] = IF p = o THEN to ELSE pc[p]
  BY DEF IInv, Typed, Onward
<1>2. opener = "over"
  BY DEF IInv, Unpublished, Onward
<1>3. Referenced'
  BY <1>1, <1>2 DEF EInv, Referenced, Onward
<1>4. Gauged'
  BY DEF EInv, Gauged, Onward
<1>5. Emptied'
  BY <1>1, <1>2 DEF EInv, Emptied, Onward
<1>6. Freeing' = Freeing
  BY <1>1 DEF Freeing, Onward
<1>7. FreedOnce'
  BY <1>1, <1>6 DEF EInv, FreedOnce, Onward
<1>8. QED
  BY <1>3, <1>4, <1>5, <1>7 DEF EInv

\* An operation that begins gets a reference from somebody who has one.
LEMMA BegunEnds ==
  ASSUME IInv, EInv, NEW o \in Ops, NEW to, Begun(o, to),
         UNCHANGED <<accounted, live, control, dispatched>>,
         refs' = refs \cup {o} \/ (refs = {"term"} /\ refs' = {o})
  PROVE  EInv'
<1>1. \A p \in Ops : pc'[p] = IF p = o THEN to ELSE pc[p]
  BY DEF IInv, Typed, Begun
<1>2. opener = "over" /\ ~dispatched
  BY DEF IInv, Unpublished, Begun, EInv, Referenced
<1>3. \A p \in Ops : p \in refs' <=> p \in refs \/ p = o
  BY OpsAssumption
<1>4. Referenced'
  BY <1>1, <1>2, <1>3 DEF EInv, Referenced, Begun
<1>5. Gauged' /\ Emptied'
  BY <1>1, <1>2 DEF EInv, Gauged, Emptied, Begun
<1>6. Freeing' = Freeing
  BY <1>1 DEF Freeing, Begun
<1>7. FreedOnce'
  BY <1>1, <1>6 DEF EInv, FreedOnce, Begun
<1>8. QED
  BY <1>4, <1>5, <1>7 DEF EInv

\* An operation ends by giving it back.
LEMMA ReleaseEnds == ASSUME IInv, EInv, NEW o \in Ops, ReleaseReference(o) PROVE EInv'
<1> USE DEF stateVars
<1>1. pc[o] = "release" /\ \A p \in Ops : pc'[p] = IF p = o THEN "over" ELSE pc[p]
  BY DEF IInv, Typed, ReleaseReference
<1>2. opener = "over"
  BY <1>1 DEF IInv, Unpublished
<1>3. UNCHANGED <<opener, lifecycle, owned, cleanupStarted, accounted, live, control, dispatched>>
      /\ refs' = refs \ {o}
  BY DEF ReleaseReference
<1>4. Referenced'
  BY <1>1, <1>2, <1>3 DEF EInv, Referenced
<1>5. Gauged' /\ Emptied'
  BY <1>1, <1>2, <1>3 DEF EInv, Gauged, Emptied
<1>6. Freeing' = Freeing
  BY <1>1 DEF Freeing
<1>7. FreedOnce'
  BY <1>1, <1>3, <1>6 DEF EInv, FreedOnce
<1>8. QED
  BY <1>4, <1>5, <1>7 DEF EInv

\* The steps of a reservation.
LEMMA HolderEnds ==
  ASSUME IInv, EInv, NEW o \in Holders, Reserving(o) \/ Chosen(o)
  PROVE  EInv'
<1> o \in Ops
  BY DEF Ops
<1> DEFINE IsOnward == \E to \in Points : Onward(o, to)
<1>1. CASE Approach(o)
  <2>1. Begun(o, "admit") /\ refs' = refs \cup {o}
    BY <1>1 DEF Approach, Begun, stateVars, Retained
  <2>2. QED
    BY <1>1, <2>1, BegunEnds DEF Approach
<1>2. CASE ReleaseReference(o)
  BY <1>2, ReleaseEnds
<1>3. Admit(o) \/ Recheck(o) \/ Leave(o) => IsOnward
  BY DEF Admit, Recheck, Leave, Onward, Points, stateVars, ownerVars
<1>4. Claim(o) \/ Confirm(o) \/ Undo(o) \/ Rollback(o) => IsOnward
  BY DEF Claim, Confirm, Undo, Rollback, Onward, Points, stateVars, ownerVars
<1>5. BeginVerify(o) \/ BeginCommit(o) \/ GiveUp(o) => IsOnward
  BY DEF BeginVerify, BeginCommit, GiveUp, Onward, Points, stateVars, ownerVars
<1>6. CheckCommit(o) \/ Commit(o) \/ Fetch(o) => IsOnward
  BY DEF CheckCommit, Commit, Fetch, Onward, Points, stateVars, ownerVars
<1>7. EndUse(o) \/ KeepCursor(o) \/ BeginBatch(o) \/ EndBatch(o) => IsOnward
  BY DEF EndUse, KeepCursor, BeginBatch, EndBatch, Onward, Points, stateVars, ownerVars
<1>8. CloseCursor(o) \/ DestroyCursor(o) \/ Strand(o) \/ Unstrand(o) => IsOnward
  BY DEF CloseCursor, DestroyCursor, Strand, Unstrand, Onward, Points, stateVars, ownerVars
<1>9. CASE IsOnward
  BY <1>9, OnwardEnds
<1> HIDE DEF IsOnward
<1>10. QED
  BY <1>1, <1>2, <1>3, <1>4, <1>5, <1>6, <1>7, <1>8, <1>9 DEF Reserving, Chosen

\* The winner of the second CAS frees; nobody did before it, and nobody can
\* after it.
LEMMA SeizeEnds == ASSUME IInv, EInv, NEW c \in Closes, Seize(c) PROVE EInv'
<1> c \in Ops /\ cleanupStarted \in BOOLEAN
  BY DEF Ops, IInv, Typed
<1>1. CASE ~Seizable
  <2>1. \E to \in {"account", "cleaning"} : Onward(c, to)
    BY <1>1 DEF Seize, Seizable, Onward, Points, ownerVars
  <2>2. QED
    BY <2>1, OnwardEnds
<1>2. CASE Seizable
  <2>1. pc[c] = "seize" /\ \A p \in Ops : pc'[p] = IF p = c THEN "free" ELSE pc[p]
    BY <1>2 DEF IInv, Typed, Seize
  <2>2. UNCHANGED <<opener, lifecycle, owned, ownerVars>> /\ cleanupStarted' = TRUE
    BY DEF Seize
  <2>3. opener = "over"
    BY <2>1 DEF IInv, Unpublished
  <2>4. lifecycle = "closing"
    <3>1. lifecycle # "open"
      BY <2>1 DEF IInv, OpenIsWhole, Seizing
    <3>2. lifecycle # "closed"
      BY <1>2, <2>1 DEF EInv, FreedOnce, Seizable
    <3>3. QED
      BY <3>1, <3>2 DEF IInv, Typed, Lifecycles
  <2>5. Freeing' = {c}
    BY <1>2, <2>1 DEF EInv, FreedOnce, Seizable, Freeing
  <2>6. Referenced' /\ Gauged' /\ Emptied'
    BY <2>1, <2>2, <2>3, <2>4 DEF EInv, Referenced, Gauged, Emptied, ownerVars
  <2>7. FreedOnce'
    BY <2>2, <2>4, <2>5 DEF FreedOnce
  <2>8. QED
    BY <2>6, <2>7 DEF EInv
<1>3. QED
  BY <1>1, <1>2

\* It frees field after field and then says so.
LEMMA FreeEnds ==
  ASSUME IInv, EInv, NEW c \in Closes, FreeField(c) \/ MarkClosed(c)
  PROVE  EInv'
<1> c \in Ops
  BY DEF Ops
<1>1. c \in Freeing /\ opener = "over" /\ lifecycle = "closing" /\ cleanupStarted
  BY DEF FreeField, MarkClosed, Freeing, EInv, FreedOnce, IInv, Unpublished
<1>2. UNCHANGED <<opener, cleanupStarted, ownerVars>>
  BY DEF FreeField, MarkClosed
<1>3. CASE FreeField(c)
  <2>1. pc' = pc /\ lifecycle' = lifecycle
    BY <1>3 DEF FreeField
  <2>2. owned' \subseteq owned
    BY <1>3 DEF FreeField
  <2>3. Freeing' = Freeing
    BY <2>1 DEF Freeing
  <2>4. QED
    BY <1>1, <1>2, <2>1, <2>2, <2>3 DEF EInv, Referenced, Gauged, Emptied, FreedOnce, ownerVars
<1>4. CASE MarkClosed(c)
  <2>1. \A p \in Ops : pc'[p] = IF p = c THEN "account" ELSE pc[p]
    BY <1>4 DEF IInv, Typed, MarkClosed
  <2>2. owned' = {} /\ lifecycle' = "closed"
    BY <1>4 DEF MarkClosed
  <2>3. Freeing' = {}
    BY <1>1, <2>1 DEF EInv, FreedOnce, Freeing
  <2>4. Referenced'
    BY <1>1, <1>2, <2>1, <2>2 DEF EInv, Referenced, ownerVars, Freeing
  <2>5. Gauged' /\ Emptied' /\ FreedOnce'
    BY <1>1, <1>2, <2>1, <2>2, <2>3 DEF EInv, Gauged, Emptied, FreedOnce, ownerVars
  <2>6. QED
    BY <2>4, <2>5 DEF EInv
<1>5. QED
  BY <1>3, <1>4

\* The first of the cleanups that meet takes the document off the gauge.
LEMMA AccountEnds == ASSUME IInv, EInv, NEW c \in Closes, FinishAccounting(c) PROVE EInv'
<1> c \in Ops
  BY DEF Ops
<1>1. pc[c] = "account" /\ \A p \in Ops : pc'[p] = IF p = c THEN "release" ELSE pc[p]
  BY DEF IInv, Typed, FinishAccounting
<1>2. /\ UNCHANGED <<opener, lifecycle, owned, cleanupStarted, control, refs, dispatched>>
      /\ accounted' = FALSE /\ live' = 0
  BY DEF FinishAccounting, stateVars, GaugeSettled, EInv, Gauged
<1>3. opener = "over" /\ lifecycle = "closed"
  BY <1>1 DEF IInv, Unpublished, EInv, Emptied
<1>4. Freeing' = Freeing
  BY <1>1 DEF Freeing
<1>5. Referenced'
  BY <1>1, <1>2, <1>3 DEF EInv, Referenced
<1>6. Gauged' /\ Emptied'
  BY <1>1, <1>2, <1>3 DEF EInv, Gauged, Emptied
<1>7. FreedOnce'
  BY <1>1, <1>2, <1>4 DEF EInv, FreedOnce
<1>8. QED
  BY <1>5, <1>6, <1>7 DEF EInv

\* The steps of a cleanup.
LEMMA CloserEnds ==
  ASSUME IInv, EInv, NEW c \in Closes, Cleaning(c) \/ Requested(c)
  PROVE  EInv'
<1> c \in Ops
  BY DEF Ops
<1> DEFINE IsOnward == \E to \in Points : Onward(c, to)
<1>1. PrepareClose(c) \/ WorkerClose(c) => IsOnward
  BY DEF PrepareClose, WorkerClose, BeginClose, Wins, Onward, Points, ownerVars
<1>2. FinishPrepare(c) \/ WorkerBump(c) => IsOnward
  BY DEF FinishPrepare, WorkerBump, Bump, Onward, Points, ownerVars
<1>3. StartCleanup(c) \/ RejectCleanup(c) \/ TryCleanup(c) => IsOnward
  BY DEF StartCleanup, RejectCleanup, TryCleanup, IsClosed, Onward, Points, stateVars, ownerVars
<1>4. CASE IsOnward
  BY <1>4, OnwardEnds
<1>5. CASE Seize(c)
  BY <1>5, SeizeEnds
<1>6. CASE FreeField(c) \/ MarkClosed(c)
  BY <1>6, FreeEnds
<1>7. CASE FinishAccounting(c)
  BY <1>7, AccountEnds
<1>8. CASE ReleaseReference(c)
  BY <1>8, ReleaseEnds
<1>9. CASE RequestClose(c) \/ CloseOrphan(c)
  <2>1. /\ \E to \in {"prepare", "submitted"} : Begun(c, to)
        /\ refs' = refs \cup {c} \/ (refs = {"term"} /\ refs' = {c})
        /\ UNCHANGED <<accounted, live, control, dispatched>>
    BY <1>9 DEF RequestClose, CloseOrphan, Begun, stateVars, Retained
  <2>2. QED
    BY <2>1, BegunEnds
<1> HIDE DEF IsOnward
<1>10. QED
  BY <1>1, <1>2, <1>3, <1>4, <1>5, <1>6, <1>7, <1>8, <1>9 DEF Cleaning, Requested

\* The destructor and the dispatcher come when nobody has a reference.
LEMMA ResourceEnds ==
  ASSUME IInv, EInv, DropTerm \/ Detach \/ Dispatch
  PROVE  EInv'
<1>0. pc' = pc /\ opener' = opener /\ Freeing' = Freeing
  BY DEF DropTerm, Detach, Dispatch, stateVars, Freeing
<1>1. CASE DropTerm
  <2>1. UNCHANGED <<lifecycle, owned, cleanupStarted, accounted, live, control, dispatched>>
        /\ refs' = refs \ {"term"} /\ "term" \in refs /\ "term" \notin Ops
    BY <1>1, OpsAssumption DEF DropTerm, stateVars
  <2>2. Referenced'
    BY <1>0, <2>1 DEF EInv, Referenced
  <2>3. Gauged' /\ Emptied' /\ FreedOnce'
    BY <1>0, <2>1 DEF EInv, Gauged, Emptied, FreedOnce
  <2>4. QED
    BY <2>2, <2>3 DEF EInv
<1>2. CASE Detach
  <2>1. /\ control = "allocated" /\ refs = {} /\ dispatched' = TRUE
        /\ UNCHANGED <<owned, cleanupStarted, accounted, live, control, refs>>
        /\ lifecycle' = lifecycle \/ (lifecycle = "open" /\ lifecycle' = "closing")
    BY <1>2 DEF Detach, Wins
  <2>2. opener = "over"
    BY <2>1 DEF EInv, Referenced
  <2>3. Referenced'
    BY <1>0, <2>1, <2>2 DEF EInv, Referenced
  <2>4. Gauged' /\ Emptied' /\ FreedOnce'
    BY <1>0, <2>1, <2>2 DEF EInv, Gauged, Emptied, FreedOnce
  <2>5. QED
    BY <2>3, <2>4 DEF EInv
<1>3. CASE Dispatch
  <2>1. refs = {} /\ opener = "over" /\ dispatched
    BY <1>3 DEF Dispatch, EInv, Referenced
  <2>2. /\ lifecycle' = "closed" /\ accounted' = FALSE /\ live' = 0
        /\ control' = "freed" /\ refs' = refs /\ dispatched' = dispatched
        /\ lifecycle = "closed" => cleanupStarted' = cleanupStarted
        /\ lifecycle # "closed" => cleanupStarted' = TRUE
    BY <1>3 DEF Dispatch, IsClosed, GaugeSettled, EInv, Gauged
  <2>3. owned' = {}
    BY <1>3, <2>1 DEF Dispatch, IsClosed, EInv, Emptied
  <2>4. Freeing = {}
    BY <2>1 DEF EInv, Referenced, Freeing
  <2>5. Referenced' /\ Gauged' /\ Emptied'
    BY <1>0, <2>1, <2>2, <2>3 DEF EInv, Referenced, Gauged, Emptied
  <2>6. FreedOnce'
    BY <1>0, <2>1, <2>2, <2>4 DEF EInv, FreedOnce
  <2>7. QED
    BY <2>5, <2>6 DEF EInv
<1>4. QED
  BY <1>1, <1>2, <1>3

\* It is kept by every step.
LEMMA NextEnds == IInv /\ EInv /\ [Next]_vars => EInv'
<1> SUFFICES ASSUME IInv, EInv, [Next]_vars PROVE EInv'
  OBVIOUS
<1>1. CASE UNCHANGED vars
  BY <1>1 DEF vars, stateVars, ownerVars, EInv, Referenced, Gauged, Emptied, FreedOnce, Freeing
<1>2. QED
  BY <1>1, OpeningEnds, HolderEnds, CloserEnds, ResourceEnds DEF Next

LEMMA EndsHold == Spec => []EInv
BY InitEnds, NextEnds, Inductive, PTL DEF Spec

\* One cleanup frees the native objects, however many meet, and the gauge of
\* live documents counts this one from its delivery to the first of them.
THEOREM OneThreadFrees == Spec => []OneCleaner
<1>1. EInv => OneCleaner
  BY DEF EInv, Gauged, Emptied, FreedOnce, OneCleaner
<1>2. QED
  BY <1>1, EndsHold, PTL

\* The control block is freed last, and then nothing is left of the document:
\* no reference, no operation under way, no native object, nothing on the
\* gauge (DocumentResourceCallbacks.dtor, cleanupDetachedDocument).
THEOREM ControlGoesLast == Spec => []NothingLeaks
<1>1. EInv => NothingLeaks
  <2> SUFFICES ASSUME EInv, control = "freed" PROVE NothingLeaks
    BY DEF NothingLeaks
  <2>1. refs = {} /\ opener = "over" /\ lifecycle = "closed"
    BY DEF EInv, Referenced
  <2>2. owned = {} /\ ~accounted /\ live = 0
    BY <2>1 DEF EInv, Emptied, Gauged
  <2>3. \A o \in Ops : pc[o] \in {"idle", "over"}
    BY <2>1 DEF EInv, Referenced
  <2>4. QED
    BY <2>1, <2>2, <2>3 DEF NothingLeaks
<1>2. QED
  BY <1>1, EndsHold, PTL

-----------------------------------------------------------------------------
(***************************************************************************)
(* The document implements ReclaimedDocument.  A close that wins is the    *)
(* abstract Close; the abstract Destroy is the first native object that a  *)
(* cleanup frees, a dispatcher's cleanup, or an opening that ends without  *)
(* a result; an operation enters when it gets the document's address.      *)
(***************************************************************************)
Stage == IF lifecycle = "open" THEN "usable"
         ELSE IF lifecycle = "closing" /\ owned = Fields THEN "closing"
         ELSE IF opener \in Building THEN "absent"
         ELSE "gone"

Consumed == projection = "consumed"

Implemented == [Promise!Next]_(Promise!vars)

\* A step is one of the abstract document if its image is.
LEMMA ImageStutters ==
  ASSUME Stage' = Stage, Using' = Using, Consumed' <=> Consumed
  PROVE  Implemented
BY DEF Implemented, Promise!vars, Stage, Consumed

LEMMA ImageOpens ==
  ASSUME Stage = "absent", Stage' = "usable", Using' = Using, Consumed' <=> Consumed
  PROVE  Implemented
BY DEF Implemented, Promise!Next, Promise!Open, Stage, Consumed

LEMMA ImageCloses ==
  ASSUME Stage = "usable", Stage' = "closing", Using' = Using, Consumed' <=> Consumed
  PROVE  Implemented
BY DEF Implemented, Promise!Next, Promise!Close, Stage, Consumed

LEMMA ImageIsDestroyed ==
  ASSUME Stage \in {"absent", "usable", "closing"}, Stage' = "gone",
         Using = {}, Using' = {}, Consumed' <=> Consumed
  PROVE  Implemented
BY DEF Implemented, Promise!Next, Promise!Destroy, Stage, Consumed

LEMMA ImageEnters ==
  ASSUME NEW o \in Holders, Stage \in {"usable", "closing"}, Stage' = Stage,
         o \notin Using, Using' = Using \cup {o}, Consumed' <=> Consumed,
         o \in Cursors => Consumed /\ Using \cap Cursors = {}
  PROVE  Implemented
<1>1. Promise!Enter(o)
  BY DEF Promise!Enter, Stage, Consumed
<1>2. QED
  BY <1>1 DEF Implemented, Promise!Next

LEMMA ImageLeaves ==
  ASSUME NEW o \in Holders, Stage' = Stage,
         o \in Using, Using' = Using \ {o}, Consumed' <=> Consumed
  PROVE  Implemented
<1>1. Promise!Leave(o)
  BY DEF Promise!Leave, Stage, Consumed
<1>2. QED
  BY <1>1 DEF Implemented, Promise!Next

LEMMA ImageIsSpent ==
  ASSUME Stage \in {"usable", "closing"}, Stage' = Stage, Using' = Using,
         ~Consumed, Consumed'
  PROVE  Implemented
BY DEF Implemented, Promise!Next, Promise!Spend, Stage, Consumed

\* The image starts as the abstract document does.
LEMMA ImageInit == Init => Promise!Init
BY DEF Init, Promise!Init, Using, UsingPoints, Building

\* The cursor is committed or not, whatever a reservation is given back for.
LEMMA StageStays ==
  ASSUME UNCHANGED <<opener, lifecycle, owned>>
  PROVE  Stage' = Stage
BY DEF Stage

\* A step of one operation that neither gets nor lets go of the document.
LEMMA PointStutters ==
  ASSUME IInv, NEW o \in Ops, NEW to, pc' = [pc EXCEPT ![o] = to],
         to \in UsingPoints <=> pc[o] \in UsingPoints,
         Stage' = Stage, Consumed' <=> Consumed
  PROVE  Implemented
<1>1. Using' = Using
  BY DEF IInv, Typed, Using
<1>2. QED
  BY <1>1, ImageStutters

\* The opening job: nobody uses the document before its result is delivered.
LEMMA OpeningImplements == ASSUME IInv, EInv, Opening PROVE Implemented
<1>1. pc' = pc /\ projection' = projection /\ opener # "over"
  BY DEF Opening, CreateControl, RefuseOpen, CreateInput, CreateParser,
         OpenDocument, Built, Publish, FailOpen, CancelOpened, Deliver, stateVars
<1>2. Using = {} /\ Using' = {} /\ (Consumed' <=> Consumed)
  BY <1>1 DEF IInv, Unpublished, Using, UsingPoints, Consumed
<1>3. CASE CreateControl \/ CreateInput \/ CreateParser \/ OpenDocument
  <2>1. opener \in Building /\ opener' \in Building /\ lifecycle = "closed" /\ lifecycle' = "closed"
    BY <1>3 DEF CreateControl, CreateInput, CreateParser, OpenDocument, Built, stateVars,
       Building, IInv, Constructed
  <2>2. Stage' = Stage
    BY <2>1 DEF Stage
  <2>3. QED
    BY <1>2, <2>2, ImageStutters
<1>4. CASE RefuseOpen \/ FailOpen
  <2>1. opener \in Building /\ opener' = "over" /\ lifecycle = "closed" /\ lifecycle' = "closed"
    BY <1>4 DEF RefuseOpen, FailOpen, stateVars, Building, IInv, Constructed
  <2>2. Stage = "absent" /\ Stage' = "gone"
    BY <2>1 DEF Stage, Building
  <2>3. QED
    BY <1>2, <2>2, ImageIsDestroyed
<1>5. CASE Publish
  <2>1. opener \in Building /\ lifecycle = "closed" /\ lifecycle' = "open"
    BY <1>5 DEF Publish, Building, IInv, Constructed
  <2>2. Stage = "absent" /\ Stage' = "usable"
    BY <2>1 DEF Stage
  <2>3. QED
    BY <1>2, <2>2, ImageOpens
<1>6. CASE CancelOpened
  <2>1. lifecycle = "open" /\ lifecycle' = "closed" /\ opener' = "over"
    BY <1>6 DEF CancelOpened, EInv, Emptied
  <2>2. Stage = "usable" /\ Stage' = "gone"
    BY <2>1 DEF Stage, Building
  <2>3. QED
    BY <1>2, <2>2, ImageIsDestroyed
<1>7. CASE Deliver
  <2>1. lifecycle = "open" /\ lifecycle' = "open"
    BY <1>7 DEF Deliver, stateVars, EInv, Emptied
  <2>2. Stage' = Stage
    BY <2>1 DEF Stage
  <2>3. QED
    BY <1>2, <2>2, ImageStutters
<1>8. QED
  BY <1>3, <1>4, <1>5, <1>6, <1>7 DEF Opening

\* An operation that is sure of the document finds it there.
LEMMA SureSeesIt ==
  ASSUME IInv, EInv, NEW o \in Ops, o \in Sure
  PROVE  Stage \in {"usable", "closing"}
<1>1. owned = Fields /\ owned # {}
  BY DEF IInv, SureIsWhole, Fields
<1>2. opener = "over"
  BY DEF IInv, Unpublished, Sure, SurePoints
<1>3. lifecycle \in {"open", "closing"}
  BY <1>1, <1>2 DEF EInv, Emptied, IInv, Typed, Lifecycles
<1>4. QED
  BY <1>1, <1>3 DEF Stage

\* Plain admissions, and operations on the committed cursor, enter.
LEMMA EntryImplements ==
  ASSUME IInv, CInv, EInv, NEW o \in Holders, Recheck(o) \/ Fetch(o)
  PROVE  Implemented
<1> o \in Ops
  BY DEF Ops
<1>1. Stage' = Stage /\ (Consumed' <=> Consumed)
  BY StageStays DEF Recheck, Fetch, stateVars, Consumed
<1>2. PICK to : pc' = [pc EXCEPT ![o] = to] /\ to \in {"leave", "claim", "using"}
  BY DEF Recheck, Fetch
<1>3. pc[o] \notin UsingPoints
  BY DEF Recheck, Fetch, UsingPoints
<1>4. CASE to # "using"
  BY <1>1, <1>2, <1>3, <1>4, PointStutters DEF UsingPoints
<1>5. CASE to = "using"
  <2>1. Using' = Using \cup {o} /\ o \notin Using
    BY <1>2, <1>3, <1>5 DEF IInv, Typed, Using, UsingPoints
  <2>2. pc'[o] = "using"
    BY <1>2, <1>5 DEF IInv, Typed
  <2>3. lifecycle = "open"
    BY <2>2 DEF Recheck, Fetch, StillOpen, Current, IInv, Typed
  <2>4. Stage = "usable"
    BY <2>3 DEF Stage
  <2>5. ASSUME o \in Cursors
        PROVE  Consumed /\ Using \cap Cursors = {}
    <3>1. Fetch(o) /\ projection = "consumed"
      BY <2>2, <2>5 DEF Recheck, Fetch, IInv, Typed
    <3>2. o \in Claimed
      BY <2>5, <3>1 DEF Fetch, Claimed, ClaimedPoints
    <3>3. \A p \in Using \cap Cursors : p \in Claimed
      BY DEF Using, UsingPoints, Claimed, ClaimedPoints
    <3>4. o \notin Using
      BY <2>1
    <3>5. QED
      BY <3>1, <3>2, <3>3, <3>4 DEF CInv, Consumed
  <2>6. QED
    BY <1>1, <2>1, <2>4, <2>5, ImageEnters
<1>6. QED
  BY <1>4, <1>5

\* The commit spends the cursor, which is still its own.
LEMMA CommitImplements ==
  ASSUME IInv, CInv, EInv, NEW o \in Holders, Commit(o)
  PROVE  Implemented
<1> o \in Ops
  BY DEF Ops
<1>1. pc[o] = "swap" /\ projection = Transient(o)
  BY RollbackFinds DEF Commit
<1>2. ~Consumed /\ Consumed'
  BY <1>1 DEF Commit, Transient, Consumed
<1>3. Stage' = Stage
  BY StageStays DEF Commit
<1>4. Using' = Using
  BY <1>1 DEF Commit, Using, UsingPoints, IInv, Typed
<1>5. Stage \in {"usable", "closing"}
  BY <1>1, SureSeesIt DEF Sure, SurePoints
<1>6. QED
  BY <1>2, <1>3, <1>4, <1>5, ImageIsSpent

\* The traversal ends, the cursor is destroyed, a running select is cancelled.
LEMMA ExitImplements ==
  ASSUME IInv, NEW o \in Holders, EndUse(o) \/ DestroyCursor(o) \/ Strand(o)
  PROVE  Implemented
<1> o \in Ops
  BY DEF Ops
<1>1. Stage' = Stage /\ (Consumed' <=> Consumed)
  BY StageStays DEF EndUse, DestroyCursor, Strand, stateVars, Consumed
<1>2. PICK to : pc' = [pc EXCEPT ![o] = to] /\ to \notin UsingPoints
  BY DEF EndUse, DestroyCursor, Strand, UsingPoints
<1>3. CASE pc[o] \notin UsingPoints
  BY <1>1, <1>2, <1>3, PointStutters
<1>4. CASE pc[o] \in UsingPoints
  <2>1. o \in Using /\ Using' = Using \ {o}
    BY <1>2, <1>4 DEF IInv, Typed, Using
  <2>2. QED
    BY <1>1, <2>1, ImageLeaves
<1>5. QED
  BY <1>3, <1>4

\* The steps of a reservation.
LEMMA HolderImplements ==
  ASSUME IInv, CInv, EInv, NEW o \in Holders, Reserving(o) \/ Chosen(o)
  PROVE  Implemented
<1> o \in Ops
  BY DEF Ops
<1> DEFINE Aside == \E to : /\ pc' = [pc EXCEPT ![o] = to]
                            /\ to \in UsingPoints <=> pc[o] \in UsingPoints
                            /\ UNCHANGED <<opener, lifecycle, owned>>
                            /\ Consumed' <=> Consumed
<1>1. CASE Recheck(o) \/ Fetch(o)
  BY <1>1, EntryImplements
<1>2. CASE Commit(o)
  BY <1>2, CommitImplements
<1>3. CASE EndUse(o) \/ DestroyCursor(o) \/ Strand(o)
  BY <1>3, ExitImplements
<1>4. Approach(o) \/ Admit(o) \/ Leave(o) \/ ReleaseReference(o) => Aside
  BY DEF Approach, Admit, Leave, ReleaseReference, UsingPoints, stateVars, Consumed
<1>5. Claim(o) \/ Undo(o) \/ Rollback(o) => Aside
  BY DEF Claim, Claimable, Undo, Rollback, Unclaimed, Transient, UsingPoints, Consumed
<1>6. Confirm(o) \/ BeginVerify(o) \/ BeginCommit(o) \/ GiveUp(o) \/ CheckCommit(o) => Aside
  BY DEF Confirm, BeginVerify, BeginCommit, GiveUp, CheckCommit, UsingPoints, stateVars, Consumed
<1>7. KeepCursor(o) \/ BeginBatch(o) \/ EndBatch(o) \/ CloseCursor(o) \/ Unstrand(o) => Aside
  BY DEF KeepCursor, BeginBatch, EndBatch, CloseCursor, Unstrand, UsingPoints, stateVars, Consumed
<1>8. CASE Aside
  BY <1>8, StageStays, PointStutters
<1> HIDE DEF Aside
<1>9. QED
  BY <1>1, <1>2, <1>3, <1>4, <1>5, <1>6, <1>7, <1>8 DEF Reserving, Chosen

\* A winning close finds the document whole.
LEMMA CloseImplements ==
  ASSUME IInv, lifecycle = "open", lifecycle' = "closing", owned' = owned,
         projection' = projection, Using' = Using
  PROVE  Implemented
<1>1. owned = Fields
  BY DEF IInv, OpenIsWhole
<1>2. Stage = "usable" /\ Stage' = "closing"
  BY <1>1 DEF Stage
<1>3. QED
  BY <1>2, ImageCloses DEF Consumed

\* The first native object that is freed is the end of the document.
LEMMA FreeImplements ==
  ASSUME IInv, EInv, NEW c \in Closes, FreeField(c) \/ MarkClosed(c)
  PROVE  Implemented
<1> c \in Ops
  BY DEF Ops
<1>1. c \in Freeing /\ opener = "over" /\ lifecycle = "closing"
  BY DEF FreeField, MarkClosed, Freeing, EInv, FreedOnce, IInv, Unpublished
<1>2. Sure = {}
  BY <1>1 DEF Freeing, IInv, SureIsWhole, Seizing
<1>3. Using = {}
  BY <1>2 DEF Using, UsingPoints, Sure, SurePoints
<1>4. opener' = opener /\ (Consumed' <=> Consumed)
  BY DEF FreeField, MarkClosed, Consumed
<1>5. CASE FreeField(c)
  <2>1. owned' # Fields /\ lifecycle' = lifecycle /\ pc' = pc
    BY <1>5 DEF FreeField, NextToFree, Fields
  <2>2. Using' = {} /\ Stage' = "gone"
    BY <1>1, <1>3, <1>4, <2>1 DEF Using, Stage, Building
  <2>3. Stage \in {"closing", "gone"}
    BY <1>1 DEF Stage, Building
  <2>4. QED
    BY <1>3, <1>4, <2>2, <2>3, ImageIsDestroyed, ImageStutters
<1>6. CASE MarkClosed(c)
  <2>1. owned = {} /\ lifecycle' = "closed" /\ pc' = [pc EXCEPT ![c] = "account"] /\ pc[c] = "free"
    BY <1>6 DEF MarkClosed
  <2>2. Stage = "gone" /\ Stage' = "gone"
    BY <1>1, <1>4, <2>1 DEF Stage, Building, Fields
  <2>3. QED
    BY <1>4, <2>1, <2>2, PointStutters DEF UsingPoints
<1>7. QED
  BY <1>5, <1>6

\* The steps of a cleanup.
LEMMA CloserImplements ==
  ASSUME IInv, EInv, NEW c \in Closes, Cleaning(c) \/ Requested(c)
  PROVE  Implemented
<1> c \in Ops
  BY DEF Ops
<1> DEFINE Aside == \E to : /\ pc' = [pc EXCEPT ![c] = to]
                            /\ to \in UsingPoints <=> pc[c] \in UsingPoints
                            /\ UNCHANGED <<opener, lifecycle, owned>>
                            /\ Consumed' <=> Consumed
<1>1. ASSUME NEW from \in Points \ UsingPoints, NEW won \in Points \ UsingPoints,
             NEW lost \in Points \ UsingPoints, BeginClose(c, from, won, lost)
      PROVE  Implemented
  <2>1. CASE ~Wins
    <3>1. Aside
      BY <1>1, <2>1 DEF BeginClose, ownerVars, Consumed
    <3>2. QED
      BY <3>1, StageStays, PointStutters
  <2>2. CASE Wins
    <3>1. Using' = Using
      BY <1>1, <2>2 DEF BeginClose, Using, IInv, Typed
    <3>2. lifecycle = "open" /\ lifecycle' = "closing" /\ owned' = owned /\ projection' = projection
      BY <1>1, <2>2 DEF BeginClose, Wins
    <3>3. QED
      BY <3>1, <3>2, CloseImplements
  <2>3. QED
    BY <2>1, <2>2
<1>2. CASE PrepareClose(c)
  BY <1>1, <1>2 DEF PrepareClose, Points, UsingPoints
<1>3. CASE WorkerClose(c)
  <2>1. PICK lost \in {"account", "cleaning"} : BeginClose(c, "begin", "rebump", lost)
    BY <1>3 DEF WorkerClose
  <2>2. QED
    BY <1>1, <2>1 DEF Points, UsingPoints
<1>4. CASE FreeField(c) \/ MarkClosed(c)
  BY <1>4, FreeImplements
<1>5. FinishPrepare(c) \/ WorkerBump(c) => Aside
  BY DEF FinishPrepare, WorkerBump, Bump, UsingPoints, Consumed
<1>6. StartCleanup(c) \/ RejectCleanup(c) \/ TryCleanup(c) \/ Seize(c) => Aside
  BY DEF StartCleanup, RejectCleanup, TryCleanup, Seize, UsingPoints, stateVars, Consumed
<1>7. FinishAccounting(c) \/ ReleaseReference(c) \/ RequestClose(c) \/ CloseOrphan(c) => Aside
  BY DEF FinishAccounting, ReleaseReference, RequestClose, CloseOrphan, UsingPoints,
     stateVars, Consumed
<1>8. CASE Aside
  BY <1>8, StageStays, PointStutters
<1> HIDE DEF Aside
<1>9. QED
  BY <1>2, <1>3, <1>4, <1>5, <1>6, <1>7, <1>8 DEF Cleaning, Requested

\* The destructor closes, the dispatcher destroys, when nobody is left.
LEMMA ResourceImplements ==
  ASSUME IInv, EInv, DropTerm \/ Detach \/ Dispatch
  PROVE  Implemented
<1>1. pc' = pc /\ opener' = opener /\ (Consumed' <=> Consumed) /\ Using' = Using
  BY DEF DropTerm, Detach, Dispatch, stateVars, Consumed, Using
<1>2. CASE UNCHANGED <<lifecycle, owned>>
  BY <1>1, <1>2, StageStays, ImageStutters
<1>3. CASE Detach /\ Wins
  BY <1>1, <1>3, CloseImplements DEF Detach, Wins
<1>4. CASE Dispatch /\ ~IsClosed
  <2>1. /\ lifecycle = "closing" /\ lifecycle' = "closed" /\ owned' = {}
        /\ opener = "over" /\ refs = {}
    BY <1>4 DEF Dispatch, EInv, Referenced
  <2>2. Using = {}
    BY <2>1 DEF EInv, Referenced, Using, UsingPoints
  <2>3. Stage \in {"closing", "gone"} /\ Stage' = "gone"
    BY <1>1, <2>1 DEF Stage, Building
  <2>4. QED
    BY <1>1, <2>2, <2>3, ImageIsDestroyed, ImageStutters
<1>5. DropTerm \/ (Detach /\ ~Wins) => UNCHANGED <<lifecycle, owned>>
  BY DEF DropTerm, Detach, stateVars
<1>6. Dispatch /\ IsClosed => UNCHANGED <<lifecycle, owned>>
  BY DEF Dispatch, IsClosed
<1>7. QED
  BY <1>2, <1>3, <1>4, <1>5, <1>6

\* Every step is a step of the abstract document or a stutter.
LEMMA NextImplements == IInv /\ CInv /\ EInv /\ [Next]_vars => Implemented
<1> SUFFICES ASSUME IInv, CInv, EInv, [Next]_vars PROVE Implemented
  OBVIOUS
<1>1. CASE UNCHANGED vars
  <2>1. Stage' = Stage /\ Using' = Using /\ (Consumed' <=> Consumed)
    BY <1>1, StageStays DEF vars, stateVars, Using, Consumed
  <2>2. QED
    BY <2>1, ImageStutters
<1>2. QED
  BY <1>1, OpeningImplements, HolderImplements, CloserImplements, ResourceImplements DEF Next

\* For any numbers of selects, streams, probes and closes the document keeps
\* what it promises: it is usable once and never again once it is closing, it
\* is destroyed only when nobody uses it, and its one-shot cursor is spent
\* once and used by one operation at a time.
THEOREM DocumentKeepsPromise == Spec => PromiseSpec
<1>1. Init => Promise!Init
  BY ImageInit
<1>2. IInv /\ CInv /\ EInv /\ [Next]_vars => [Promise!Next]_(Promise!vars)
  BY NextImplements DEF Implemented
<1>3. QED
  BY <1>1, <1>2, Inductive, CursorHolds, EndsHold, PTL DEF Spec, PromiseSpec, Promise!Spec
====
