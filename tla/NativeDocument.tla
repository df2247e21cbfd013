--------------------------- MODULE NativeDocument ---------------------------
(***************************************************************************)
(* One source under the three engines of src/native/src: a document is     *)
(* opened (simd_json_abi.cpp), and then a plan is executed on it, a row of *)
(* it is projected, or it is decoded.  The calls of one worker follow each *)
(* other; what varies is the source, the request, the limits, the moment a *)
(* probe says stop and the allocation that fails.                          *)
(*                                                                         *)
(* A source is read for                                                    *)
(*    "select"    selects from an open document: it was validated          *)
(*    "binary"    the select from a binary, on a temporary document        *)
(*    "row"       a row of a document that is streamed                     *)
(*    "streamed"  a row of a file                                          *)
(*    "decode"    a decode, on a temporary document                        *)
(***************************************************************************)
EXTENDS Projection, DecodeMaterializer

CONSTANTS
  Ops,       \* what the source is read for, a subset of Operations
  MaxCalls   \* bound: the executions tried on one document

Rows == {"row", "streamed"}
Operations == {"select", "binary", "decode"} \cup Rows

ASSUME OperationAssumption == Ops \subseteq Operations /\ MaxCalls \in Nat \ {0}

VARIABLES
  op,      \* what the source is read for
  stage,   \* "plan", "open", "ready" or "over"
  calls    \* the executions so far

vars == <<sourceVars, planVars, projectionVars, decodeVars, op, stage, calls>>
engineVars == <<projectionVars, decodeVars>>

\* A temporary document and a row are used once.
Executions == IF op \in {"select", "decode"} THEN MaxCalls ELSE 1

EnginesTypeOK ==
  /\ SourceTypeOK /\ ProjectionTypeOK /\ DecodeTypeOK
  /\ op \in Ops /\ stage \in {"plan", "open", "ready", "over"}
  /\ calls \in 0..MaxCalls

Init ==
  /\ SourceInit
  /\ op \in Ops
  /\ op \in Rows => tail = "none"   \* not at the root
  /\ IF op = "decode"
     THEN limits \in Limits /\ request = <<>>
     ELSE limits = [depth |-> 0, entries |-> 0, string |-> 0, output |-> 0]
          /\ request \in Requests
  /\ planned = 0 /\ plan = NoPlan
  /\ ProjectionInit /\ DecodeInit
  /\ stage = (IF op = "decode" THEN "open" ELSE "plan")
  /\ calls = 0

\* The plan of the call; a call that cannot have one ends here.
MakePlan ==
  /\ stage = "plan"
  /\ UNCHANGED <<source, reader, engineVars, op, calls>>
  /\ \/ (BeginPlan \/ PlanSlot) /\ UNCHANGED <<status, stage>>
     \/ PlanReady /\ stage' = "open" /\ UNCHANGED <<status, planVars>>
     \/ /\ PlanLost
        /\ status' = [code |-> "out_of_memory", slot |-> NoSlot] /\ stage' = "over"
     \/ /\ ~DescriptorsValid(request)
        /\ status' = [code |-> "invalid_argument", slot |-> NoSlot] /\ stage' = "over"
        /\ UNCHANGED planVars

\* simd_json_parser_create, and the first stage of the parse (iterate), which
\* refuses an empty source and one that is no UTF-8.  A document that is
\* published is validated next; the others are read unvalidated.
OpenDocument ==
  /\ stage = "open" /\ reader = "none"
  /\ UNCHANGED <<source, planVars, engineVars, op, calls>>
  /\ \/ /\ \E code \in {"malformed", "out_of_memory"} :
             status' = [code |-> code, slot |-> NoSlot]
        /\ stage' = "over" /\ UNCHANGED reader
     \/ /\ op = "select"
        /\ reader' = "validation" /\ UNCHANGED <<status, stage>>
     \/ /\ op # "select"
        /\ stage' = "ready" /\ UNCHANGED <<status, reader>>

\* A number beyond 64 bits or the doubles is no valid value here: every error is
\* a source that is no JSON.
TokenReadable(kind) == kind \in Leaves /\ Error(kind) # "TAPE_ERROR"   \* mutant
TokenValid(kind) == kind \in Leaves /\ Error(kind) = "SUCCESS"

Validating ==
  /\ reader = "validation"
  /\ UNCHANGED <<planVars, engineVars, op, calls>>
Invalid == Fail("malformed") /\ stage' = "over"

\* The end of validate_document: the cursor goes back to the beginning, and
\* the document is published unless the allocation fails.
Publish ==
  /\ pos' = 0
  /\ \/ Return(Ok) /\ stage' = "ready"
     \/ Fail("out_of_memory") /\ stage' = "over"

ValidateRoot ==
  /\ Validating /\ AtRoot
  /\ Look
  /\ LET kind == tree'[1].kind IN
     \/ /\ ~RootAccepted(kind) \/ ~(kind \in Containers \/ TokenValid(kind))
        /\ Invalid /\ pos' = 1
     \/ /\ RootAccepted(kind) /\ TokenValid(kind)
        /\ Publish
     \/ /\ RootAccepted(kind) /\ kind \in Containers
        /\ pos' = 1 /\ Descend /\ Continue /\ UNCHANGED stage

ValidateValue ==
  /\ Validating /\ ~AtRoot
  /\ Fetch
  /\ LET kind == tree'[pos'].kind IN
     \/ /\ Len(open) >= MaxDepth \/ ~(kind \in Containers \/ TokenValid(kind))
        /\ Invalid
     \/ /\ Len(open) < MaxDepth /\ TokenValid(kind)
        /\ Continue /\ UNCHANGED <<open, stage>>
     \/ /\ Len(open) < MaxDepth /\ kind \in Containers
        /\ Descend /\ Continue /\ UNCHANGED stage

ValidateEnd ==
  /\ Validating /\ Exhausted
  /\ IF Len(open) = 1
     THEN Publish /\ whole' = TRUE /\ UNCHANGED <<tree, tail>>
     ELSE Ascend /\ Continue /\ UNCHANGED stage

\* A call on the open document.
Call ==
  /\ stage = "ready" /\ reader = "none" /\ calls < Executions
  /\ calls' = calls + 1
  /\ UNCHANGED <<planVars, op, stage>>
  /\ \/ op \in {"select", "binary"} /\ Execute /\ UNCHANGED decodeVars
     \/ op \in Rows /\ ExecuteValue /\ UNCHANGED decodeVars
     \/ op = "decode" /\ (CreateMaterializer \/ ExecuteDecode)
                      /\ UNCHANGED projectionVars

Project ==
  /\ UNCHANGED <<planVars, decodeVars, op, stage, calls>>
  /\ \/ ProjectionStep(op \in Rows)
     \/ op # "streamed" /\ CancelProjection

Decode == DecodeStep /\ UNCHANGED <<planVars, projectionVars, op, stage, calls>>

\* Nothing is left to do.
Over ==
  /\ \/ stage = "over"
     \/ stage = "ready" /\ reader = "none" /\ calls = Executions
  /\ UNCHANGED vars

Next == MakePlan \/ OpenDocument \/ ValidateRoot \/ ValidateValue \/ ValidateEnd
          \/ Call \/ Project \/ Decode \/ Over

Spec == Init /\ [][Next]_vars

-----------------------------------------------------------------------------
(* What the engines promise, stated on the source and the request. *)

PathFailures == {"incorrect_type", "missing_field", "index_out_of_bounds"}
Answered == stage = "ready" /\ reader = "none" /\ calls > 0

\* Where a path leads: a key to the first member with that key, an index to
\* the element at that position.  A path that fails stops at the value where
\* it does, before the segment `value'.
Resolve(path) ==
  LET Follow(r, segment) ==
        LET matching == {m \in Members(tree, r.at) : tree[m].label = segment.value}
            Stop(code) == [at |-> r.at, code |-> code, value |-> segment.value]
        IN IF r.code # "ok" THEN r
           ELSE IF tree[r.at].kind # (IF segment.tag = "key" THEN "object" ELSE "array")
                THEN Stop("incorrect_type")
           ELSE IF matching = {}
                THEN Stop(IF segment.tag = "key" THEN "missing_field"
                                                 ELSE "index_out_of_bounds")
           ELSE [r EXCEPT !.at = Min(matching)]
      end == FoldLeft(Follow, [at |-> 1, code |-> "ok", value |-> 0], path)
  IN IF end.code = "ok" /\ tree[end.at].kind \in Containers
     THEN [end EXCEPT !.code = "incorrect_type"] ELSE end

ResolveSlot(s) == Resolve(PathOf(request, s))

\* Of all the paths that fail the one with the lowest slot is reported, with
\* one exception: of the indexes beyond the end of one array only the lowest
\* index counts, so a lower slot may ask for a higher index in vain.
LeastSlotReported ==
  status.code \in PathFailures =>
    \A s \in 0..(status.slot - 1) :
      LET r == ResolveSlot(s) IN
      \/ r.code = "ok"
      \/ /\ r.code = "index_out_of_bounds"
         /\ \E t \in DOMAIN slots :
              /\ ResolveSlot(t).code = "index_out_of_bounds"
              /\ ResolveSlot(t).at = r.at /\ ResolveSlot(t).value < r.value

\* The single pass with its shared prefixes finds what following every path
\* on its own finds: on success each slot holds the value its path leads to,
\* the first one of equal keys; a path failure names a slot whose path fails
\* in that way, the least that can be asked for; a call that fails leaves no
\* slot filled; and none ends with a slot that was forgotten though no path failed.
ProjectionMatchesReference ==
  Answered /\ op # "decode" =>
    /\ status.code = "ok" =>
         \A s \in DOMAIN slots : /\ ResolveSlot(s).code = "ok"
                                 /\ ResolveSlot(s).at = slots[s]
    /\ status.code \in PathFailures =>
         ResolveSlot(status.slot).code = status.code
    /\ LeastSlotReported
    /\ status.code # "ok" => \A s \in DOMAIN slots : slots[s] = 0
    /\ status.code # "internal_failure"

\* A projection answers with values or with a path failure only when it has
\* read the source to its end and found nothing wrong with it; and when a
\* reader blames the source, the source has that fault.  The validation takes a
\* number out of range for text that is no JSON, the decoder a malformed number
\* for one out of range; a projection tells the two apart.
Untorn == RootAccepted(tree[1].kind) \/ op \in Rows
Unopened == stage = "over"   \* with a source that was read: by the validation
VerdictIsEarned ==
  reader = "none" /\ tree # <<>> =>
    /\ Answered /\ op # "decode" /\ status.code \in {"ok"} \cup PathFailures =>
         whole /\ Untorn /\ ~Malformed /\ ~OutOfRange /\ ~DeeperThan(MaxDepth)
    /\ status.code = "malformed" =>
         \/ Malformed \/ DeeperThan(MaxDepth) \/ ~Untorn
         \/ Unopened /\ OutOfRange
    /\ status.code = "number_out_of_range" =>
         OutOfRange \/ (op = "decode" /\ Holds({"badnumber"}))

\* What the validation lets through the projection can read: a document that
\* was opened is never found malformed, nor a number in it out of range.
OpenedIsReadable ==
  Answered /\ op = "select" => status.code \notin {"malformed", "number_out_of_range"}

\* What the changelog says of an integer outside 64 bits: a pass that stops at
\* one does not call the source malformed.
StoppedAt(kind) == reader = "none" /\ tree # <<>> /\ Last(tree).kind = kind
BigIntegersNamed ==
  StoppedAt("bigint") /\ Untorn /\ ~DeeperThan(MaxDepth) => status.code # "malformed"

\* A document is read once: after a projection has claimed its cursor, or a
\* materializer has been used, no call starts to read again.
OnePass ==
  [][(claimed \/ consumed) /\ reader = "none" => reader' = "none"]_vars

\* A finished graph is the source: a node for each value in document order,
\* and for each container a slice of the edges that lists its members in
\* order, equal keys included, with the bytes of their keys.
Slice(s, from, count) ==
  [i \in 1..count |-> IF from + i \in DOMAIN s THEN s[from + i] ELSE 0]
EdgesOf(n) == Slice(graph.edges, graph.nodes[n].edges, graph.nodes[n].count)
GraphIsSource ==
  reader = "none" /\ graph.nodes # <<>> =>
    /\ Len(graph.nodes) = Len(tree)
    /\ Len(graph.edges) = Len(tree) - 1
    /\ \A n \in DOMAIN tree :
         LET node == graph.nodes[n]
         IN /\ node.kind = tree[n].kind
            /\ node.kind = "text" =>
                 Slice(graph.bytes, node.bytes, TextLength) =
                   [i \in 1..TextLength |-> n]
            /\ InAscendingOrder([i \in DOMAIN EdgesOf(n) |-> EdgesOf(n)[i].child],
                                Members(tree, n))
            /\ node.kind = "object" =>
                 \A e \in ToSet(EdgesOf(n)) :
                   Slice(graph.bytes, e.key, tree[e.child].label) =
                     [i \in 1..tree[e.child].label |-> -e.child]

\* What the result of a source takes, were there no limit: a byte is counted
\* as the value it belongs to and its place there.
IsField(n) == tree[n].up # 0 /\ tree[tree[n].up].kind = "object"
OutputBytes ==
  LET Bytes(n) == (IF tree[n].kind = "text" THEN TextLength ELSE 0)
                  + (IF IsField(n) THEN tree[n].label ELSE 0)
  IN Len(tree) * NodeBytes + (Len(tree) - 1) * EdgeBytes
       + Cardinality(UNION {{n} \X (1..Bytes(n)) : n \in DOMAIN tree})

MoreEntriesThan(limit) ==
  \E n \in DOMAIN tree : Cardinality(Members(tree, n)) > limit
LongerStringThan(limit) ==
  \E n \in DOMAIN tree : \/ tree[n].kind = "text" /\ TextLength > limit
                         \/ IsField(n) /\ tree[n].label > limit

\* The limits are exact: a source that is decoded is sound and within every
\* limit, the edges that were pending included; and a limit that is reported
\* is one the part of the source read so far really exceeds.
DecodeVerdictIsTrue ==
  Answered /\ op = "decode" /\ tree # <<>> =>
    /\ graph.nodes # <<>> =>
         /\ whole /\ ~Malformed /\ ~OutOfRange
         /\ ~DeeperThan(limits.depth) /\ ~MoreEntriesThan(limits.entries)
         /\ ~LongerStringThan(limits.string) /\ OutputBytes <= limits.output
         /\ RetainedBytes(graph) = OutputBytes
    /\ status.code = "max_depth_exceeded" => DeeperThan(limits.depth)
    /\ status.code = "max_container_entries_exceeded" => MoreEntriesThan(limits.entries)
    /\ status.code = "max_string_bytes_exceeded" => LongerStringThan(limits.string)
    /\ status.code = "max_output_bytes_exceeded" => OutputBytes > limits.output

\* What the documentation says of a decoded text: nothing but white space
\* follows the value.
TrailingRejected ==
  op = "decode" /\ graph.nodes # <<>> /\ reader = "none" => tail = "none"
=============================================================================
