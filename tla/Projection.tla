----------------------------- MODULE Projection -----------------------------
(***************************************************************************)
(* The projection engine of src/native/src/simd_json_projection.cpp: one   *)
(* forward pass over the source that fills the output slots of a plan.     *)
(*                                                                         *)
(* Values no path selects are read too, so that the whole source is        *)
(* checked; a path that cannot be followed does not stop the pass, it is   *)
(* only remembered, and the pass goes on to the end of the source.         *)
(*                                                                         *)
(* The recursion of traverse_object and traverse_array over the source is  *)
(* the sequence `marks', one mark for each container that is open: the     *)
(* node of the plan it stands for (0 when no path leads there, which makes *)
(* the walk that of validate_unselected_value), the next array edge       *)
(* that is wanted and the index of the next element.                       *)
(***************************************************************************)
EXTENDS ProjectionPlan

VARIABLES
  claimed,    \* document->projection_cursor_claimed
  marks,      \* see above, one for each element of open
  satisfied,  \* the numbers of the object edges met so far
  slots,      \* the result: for each slot the index of its value in tree,
              \* 0 while it is empty
  pending     \* [code, slot]: the path failure remembered so far

projectionVars == <<claimed, marks, satisfied, slots, pending>>

EmptySlots == [s \in 0..(Len(request) - 1) |-> 0]
Node(n) == IF n = 0 THEN EmptyNode ELSE plan.nodes[n]
Mark(n) == [node |-> n, wanted |-> 1, index |-> 0]
FirstSlot(node) == IF node.slots = <<>> THEN NoSlot ELSE Head(node.slots)
InObject == tree[Last(open)].kind = "object"

ProjectionTypeOK ==
  /\ claimed \in BOOLEAN
  /\ Len(marks) = (IF reader = "projection" THEN Len(open) ELSE 0)
  /\ \A m \in ToSet(marks) : m.node \in {0} \cup DOMAIN plan.nodes
  /\ satisfied \subseteq 1..plan.edges
  /\ slots \in [0..(Len(request) - 1) -> 0..Len(tree)]
  /\ pending \in [code : Codes, slot : Nat]

\* Of two path failures the one with the lower slot is kept.
KeepsFirst(p, slot) == slot # NoSlot /\ p.code = "ok"   \* mutant
Replaces(p, slot) == slot # NoSlot /\ (p.code = "ok" \/ slot < p.slot)
RecordPathFailure(p, code, slot) ==
  IF Replaces(p, slot)
  THEN [code |-> code, slot |-> slot] ELSE p

\* What ends at the node, or goes on with the other kind of segment, has met
\* a value of the wrong type.
EnterObject(p, node) ==
  RecordPathFailure(RecordPathFailure(p, "incorrect_type", FirstSlot(node)),
                    "incorrect_type", FirstArrayChildSlot(node, plan.nodes))
EnterArray(p, node) ==
  RecordPathFailure(RecordPathFailure(p, "incorrect_type", FirstSlot(node)),
                    "incorrect_type", FirstObjectChildSlot(node, plan.nodes))
Enter(p, node, kind) == IF kind = "object" THEN EnterObject(p, node)
                                           ELSE EnterArray(p, node)
EnterScalar(p, node) ==
  RecordPathFailure(p, "incorrect_type",
                    Min({FirstObjectChildSlot(node, plan.nodes),
                         FirstArrayChildSlot(node, plan.nodes)}))

\* At the end of an object every edge that was not met is missing; at the end
\* of an array only the first one is reported.
LeaveObject(p, node) ==
  LET missed == {e \in {node.object[k] : k \in DOMAIN node.object} :
                   e.id \notin satisfied}
  IN RecordPathFailure(p, "missing_field",
       Min({NoSlot} \cup {plan.nodes[e.child].first : e \in missed}))
LeaveArray(p, node, wanted) ==
  IF wanted <= Len(node.array)
  THEN RecordPathFailure(p, "index_out_of_bounds",
                         plan.nodes[node.array[wanted].child].first)
  ELSE p

\* The edge the next value follows, as the node it leads to: of equal keys
\* only the first one counts, and array edges are met in ascending order.
Unmet(node, key) == key \in DOMAIN node.object /\ node.object[key].id \notin satisfied
SelectedField(node, key) == IF Unmet(node, key) THEN node.object[key].child ELSE 0
SelectedElement(node, mark) ==
  IF mark.wanted <= Len(node.array) /\ node.array[mark.wanted].index = mark.index
  THEN node.array[mark.wanted].child ELSE 0
Selected(mark, label) == IF InObject THEN SelectedField(Node(mark.node), label)
                                     ELSE SelectedElement(Node(mark.node), mark)

Advance(mark, selected) ==
  [mark EXCEPT !.index = @ + 1,
               !.wanted = IF selected # 0 /\ ~InObject THEN @ + 1 ELSE @]

ProjectionCode(error) ==
  CASE error = "SUCCESS" -> "ok"
    [] error = "BIGINT_ERROR" -> "number_out_of_range"
    [] OTHER -> "malformed"

\* Of a number simdjson takes for a malformed one the engine looks at the token.
ValidJsonNumberSyntax(kind) == kind \in {"scalar", "bigint", "huge"}
LeftToSimdjson(kind) == FALSE   \* mutant: the token is not looked at
BeyondRange(kind) == Error(kind) = "NUMBER_ERROR" /\ ValidJsonNumberSyntax(kind)
ScalarStatus(kind) == IF BeyondRange(kind) THEN "number_out_of_range"
                                           ELSE ProjectionCode(Error(kind))

\* Every way out but success empties the slots (finish).
Finish(st) ==
  /\ Return(st) /\ marks' = <<>> /\ satisfied' = {} /\ pending' = Ok
FailProjection(code, slot) ==
  /\ Finish([code |-> code, slot |-> slot])
  /\ slots' = EmptySlots

\* The pass is over: a remembered path failure is the status; a slot that is
\* still empty would be a defect of the engine.
Conclude(p, filled) ==
  IF p.code # "ok" THEN Finish(p) /\ slots' = EmptySlots
  ELSE IF \E s \in DOMAIN filled : filled[s] = 0
       THEN FailProjection("internal_failure", NoSlot)
       ELSE Finish(Ok) /\ slots' = filled

FillSlots(node) ==
  [s \in DOMAIN slots |-> IF s \in ToSet(node.slots) THEN pos' ELSE slots[s]]

ProjectionInit ==
  /\ claimed = FALSE
  /\ marks = <<>> /\ satisfied = {} /\ pending = Ok
  /\ slots = EmptySlots

UnclaimedAssumed == TRUE   \* mutant: the exchange's result is ignored
Unclaimed == ~claimed

\* simd_json_projection_execute up to the traversal: a call that is cancelled
\* or runs out of memory leaves the cursor to the next one.
Execute ==
  /\ slots' = EmptySlots
  /\ UNCHANGED <<source, marks, satisfied, pending>>
  /\ \/ /\ \/ status' = [code |-> "cancelled", slot |-> NoSlot]
           \/ status' = [code |-> "out_of_memory", slot |-> NoSlot]
           \/ ~Unclaimed /\ status' = [code |-> "cursor_consumed", slot |-> NoSlot]
        /\ UNCHANGED <<reader, claimed>>
     \/ /\ Unclaimed /\ claimed' = TRUE
        /\ reader' = "projection" /\ status' = Ok

\* projection_execute_value and projection_execute_stream_value: a row of an
\* iteration is projected in place, without a claim; the latter has no
\* document whose probe it could ask.
ExecuteValue ==
  /\ slots' = EmptySlots
  /\ UNCHANGED <<source, claimed, marks, satisfied, pending>>
  /\ \/ reader' = "projection" /\ status' = Ok
     \/ UNCHANGED reader /\ status' = [code |-> "out_of_memory", slot |-> NoSlot]

Projecting == reader = "projection" /\ UNCHANGED claimed
AtRoot == pos = 0

\* The probe is asked before every value, field, element and slot.
CancelProjection ==
  /\ Projecting
  /\ FailProjection("cancelled", NoSlot)
  /\ UNCHANGED <<tree, pos, whole, tail>>

\* traverse_document on a container, and traverse_value on one that is a row.
EnterRoot(isRow) ==
  /\ Projecting /\ AtRoot
  /\ Fetch
  /\ LET kind == tree'[pos'].kind IN
     /\ kind \in Containers
     /\ IF isRow \/ RootAccepted(kind)
        THEN /\ Descend /\ Continue
             /\ marks' = <<Mark(1)>>
             /\ pending' = Enter(pending, plan.nodes[1], kind)
             /\ UNCHANGED <<satisfied, slots>>
        ELSE FailProjection(ProjectionCode("INCOMPLETE_ARRAY_OR_OBJECT"), NoSlot)

\* consume_root_scalar: a scalar cannot have what the paths ask for.  Of a
\* number that cannot be read and has text behind it the number is reported,
\* unless it is an integer too long to be copied.
ConsumeRootScalar(isRow) ==
  /\ Projecting /\ AtRoot
  /\ Fetch
  /\ LET kind == tree'[pos'].kind
         trailing == ~isRow /\ ~RootAccepted(kind)
     IN
     /\ kind \in Leaves
     /\ \/ /\ ScalarStatus(kind) # "ok"
           /\ FailProjection(ScalarStatus(kind), NoSlot)
        \/ /\ trailing /\ (ScalarStatus(kind) = "ok" \/ kind = "bigint")
           /\ FailProjection(ProjectionCode("TRAILING_CONTENT"), NoSlot)
        \/ /\ ~trailing /\ ScalarStatus(kind) = "ok"
           /\ Conclude(EnterScalar(pending, plan.nodes[1]), slots)

\* The next field or element of the container on top of the stack.
ReadNext(selected) ==
  /\ Projecting /\ marks # <<>> /\ ~AtRoot
  /\ Fetch
  /\ selected = Selected(Last(marks), tree'[pos'].label)
Met(selected) ==
  satisfied' = IF selected # 0 /\ InObject
               THEN satisfied \cup {Node(Last(marks).node).object[tree'[pos'].label].id}
               ELSE satisfied
Advanced(selected) == Append(Front(marks), Advance(Last(marks), selected))

\* Values no path leads to: validate_unselected_value.
SkipContainer ==
  /\ ReadNext(0)
  /\ tree'[pos'].kind \in Containers /\ Len(open) < MaxDepth
  /\ Descend /\ Continue
  /\ marks' = Append(Advanced(0), Mark(0))
  /\ UNCHANGED <<satisfied, slots, pending>>

SkipScalar ==
  /\ ReadNext(0)
  /\ tree'[pos'].kind \in Leaves /\ Len(open) < MaxDepth
  /\ ScalarStatus(tree'[pos'].kind) = "ok"
  /\ marks' = Advanced(0)
  /\ Continue /\ UNCHANGED <<open, satisfied, slots, pending>>

\* The loops of validate_unselected_object and validate_unselected_array.
LeaveSkipped ==
  /\ Projecting /\ Exhausted /\ Last(marks).node = 0
  /\ Ascend /\ Continue
  /\ marks' = Front(marks)
  /\ UNCHANGED <<satisfied, slots, pending>>

\* Values a path leads to: traverse_value.
EnterContainer(selected) ==
  /\ selected # 0 /\ ReadNext(selected)
  /\ tree'[pos'].kind \in Containers /\ Len(open) < MaxDepth
  /\ Descend /\ Continue /\ Met(selected)
  /\ marks' = Append(Advanced(selected), Mark(selected))
  /\ pending' = Enter(pending, Node(selected), tree'[pos'].kind)
  /\ UNCHANGED slots

MaterializeScalar(selected) ==
  /\ selected # 0 /\ ReadNext(selected)
  /\ tree'[pos'].kind \in Leaves /\ Len(open) < MaxDepth
  /\ ScalarStatus(tree'[pos'].kind) = "ok"
  /\ Met(selected) /\ marks' = Advanced(selected)
  /\ pending' = EnterScalar(pending, Node(selected))
  /\ slots' = FillSlots(Node(selected))
  /\ Continue /\ UNCHANGED open

\* The field or element, or its value, cannot be read.  The slot is named when
\* the type of a selected value is known, but not the value.
RejectValue(selected) ==
  /\ ReadNext(selected)
  /\ LET kind == tree'[pos'].kind IN
     \/ /\ kind = "torn"
        /\ FailProjection(ProjectionCode(Error(kind)), NoSlot)
     \/ /\ kind # "torn" /\ Len(open) >= MaxDepth
        /\ FailProjection(ProjectionCode("DEPTH_ERROR"), NoSlot)
     \/ /\ kind \in Leaves /\ Len(open) < MaxDepth /\ ScalarStatus(kind) # "ok"
        /\ FailProjection(ScalarStatus(kind),
                          IF kind = "strange" THEN NoSlot ELSE FirstSlot(Node(selected)))

\* The end of the loops of traverse_object and traverse_array.
LeaveContainer ==
  /\ Projecting /\ Exhausted /\ Last(marks).node # 0
  /\ LET mark == Last(marks)
         node == Node(mark.node)
         left == IF InObject THEN LeaveObject(pending, node)
                             ELSE LeaveArray(pending, node, mark.wanted)
     IN IF Len(open) = 1
        THEN /\ Conclude(left, slots)
             /\ whole' = TRUE /\ UNCHANGED <<tree, pos, tail>>
        ELSE /\ Ascend /\ Continue
             /\ marks' = Front(marks) /\ pending' = left
             /\ UNCHANGED <<satisfied, slots>>

ProjectionStep(isRow) ==
  \/ EnterRoot(isRow) \/ ConsumeRootScalar(isRow)
  \/ SkipContainer \/ SkipScalar \/ LeaveSkipped
  \/ \E n \in DOMAIN plan.nodes : EnterContainer(n) \/ MaterializeScalar(n)
  \/ \E n \in {0} \cup DOMAIN plan.nodes : RejectValue(n)
  \/ LeaveContainer
=============================================================================
