------------------------- MODULE DecodeMaterializer -------------------------
(***************************************************************************)
(* The decoder of src/native/src/simd_json_decode_materializer.cpp: one    *)
(* pass over a source nobody has validated, which copies every value into  *)
(* a flat graph of nodes, edges and bytes under four limits.               *)
(*                                                                         *)
(* A node is appended when its value is met; the edges of a container are  *)
(* collected in its frame and appended in one piece when it ends, so that  *)
(* they are one slice of the edges; the bytes of a text or a key come      *)
(* before the node they belong to.                                         *)
(***************************************************************************)
EXTENDS OnDemand

CONSTANTS
  Limits,      \* the configurations [depth, entries, string, output]
  NodeBytes,   \* sizeof(simd_json_decode_node)
  EdgeBytes,   \* sizeof(simd_json_decode_edge)
  TextLength   \* the length of every text in bytes

DecodeAssumption ==
  /\ Limits \subseteq [depth : Nat, entries : Nat, string : Nat, output : Nat]
  /\ NodeBytes \in Nat \ {0} /\ EdgeBytes \in Nat \ {0} /\ TextLength \in Nat
ASSUME DecodeAssumption

VARIABLES
  limits,    \* the configuration of the materializer
  consumed,  \* materializer->consumed
  graph,     \* [nodes, edges, bytes], the result being built; at the end of
             \* the call the result, without nodes when there is none
  frames     \* the containers being read: [node, edges]

decodeVars == <<limits, consumed, graph, frames>>

EmptyGraph == [nodes |-> <<>>, edges |-> <<>>, bytes |-> <<>>]

\* A byte is known by where it comes from: n for the text, -n for the key of
\* the value n of the tree.
DecodeTypeOK ==
  /\ consumed \in BOOLEAN
  /\ graph.nodes \in Seq([kind : Containers \cup Leaves, bytes : Nat,
                          edges : Nat, count : Nat])
  /\ graph.edges \in Seq([key : Nat \cup {-1}, child : DOMAIN graph.nodes])
  /\ graph.bytes \in Seq((-MaxValues)..MaxValues)
  /\ frames \in Seq([node : DOMAIN graph.nodes,
                     edges : Seq([key : Nat \cup {-1}, child : DOMAIN graph.nodes])])

\* The three other limits have maxima too; every one is positive.
ConfigValid(c) ==
  /\ c.depth \in 1..MaxDepth
  /\ c.entries > 0 /\ c.string > 0 /\ c.output > 0

RetainedBytes(g) ==
  Len(g.nodes) * NodeBytes + Len(g.edges) * EdgeBytes + Len(g.bytes)
AllowsHeld(g, added) == RetainedBytes(g) <= limits.output   \* mutant
BudgetAllows(g, added) == RetainedBytes(g) + added <= limits.output

\* A sequence of checks <<failed, code>> made in this order.
FirstFailure(checks) ==
  LET Failed(c) == c[1]
      i == SelectInSeq(checks, Failed)
  IN IF i = 0 THEN "ok" ELSE checks[i][2]

\* A malformed number is reported as one out of range, and a token that
\* begins like no value as a value of the wrong type, unless it is the root.
DecodeCode(error) ==
  CASE error = "SUCCESS" -> "ok"
    [] error \in {"BIGINT_ERROR", "NUMBER_ERROR"} -> "number_out_of_range"
    [] OTHER -> "malformed"
TokenChecks(kind, isRoot) ==
  <<<<kind = "strange" /\ ~isRoot, "incorrect_type">>,
    <<Error(kind) # "SUCCESS", DecodeCode(Error(kind))>>>>

CopyChecks(g, length) ==
  <<<<length > limits.string, "max_string_bytes_exceeded">>,
    <<~BudgetAllows(g, length), "max_output_bytes_exceeded">>>>

CopyBytes(g, origin, length) ==
  [g EXCEPT !.bytes = @ \o [i \in 1..length |-> origin]]

AppendNode(g, kind, offset) ==
  [g EXCEPT !.nodes = Append(@, [kind |-> kind, bytes |-> offset,
                                 edges |-> 0, count |-> 0])]

\* open_value, without the depth: the checks of value n of kind `kind' when
\* the graph is g, and the graph after them.  A root is checked for what
\* follows it, after its token.
WithText(g, n, kind) == IF kind = "text" THEN CopyBytes(g, n, TextLength) ELSE g
OpenChecks(g, n, kind, isRoot) ==
  TokenChecks(kind, isRoot)
    \o <<<<isRoot /\ ~RootAccepted(kind), DecodeCode("TRAILING_CONTENT")>>>>
    \o (IF kind = "text" THEN CopyChecks(g, TextLength) ELSE <<>>)
    \o <<<<~BudgetAllows(WithText(g, n, kind), NodeBytes),
           "max_output_bytes_exceeded">>>>
OpenedLate(g, n, kind) ==   \* mutant: the offset is taken after the copy
  AppendNode(WithText(g, n, kind), kind, Len(WithText(g, n, kind).bytes))
Opened(g, n, kind) == AppendNode(WithText(g, n, kind), kind, Len(g.bytes))

DecodeInit ==
  /\ consumed = FALSE
  /\ graph = EmptyGraph
  /\ frames = <<>>

\* The result is released on every way out but success.
FailDecode(code) == Fail(code) /\ graph' = EmptyGraph /\ frames' = <<>>

\* simd_json_decode_materializer_create and _execute up to the traversal.
CreateMaterializer ==
  /\ ~ConfigValid(limits)
  /\ FailDecode("invalid_argument")
  /\ UNCHANGED <<tree, pos, whole, tail, limits, consumed>>

ExecuteDecode ==
  /\ ConfigValid(limits)
  /\ UNCHANGED <<source, limits, graph, frames>>
  /\ \/ /\ \/ \E code \in {"out_of_memory", "cancelled"} :
                status' = [code |-> code, slot |-> NoSlot]
           \/ consumed /\ status' = [code |-> "cursor_consumed", slot |-> NoSlot]
        /\ UNCHANGED <<reader, consumed>>
     \/ /\ ~consumed /\ consumed' = TRUE
        /\ reader' = "materializer" /\ status' = Ok

Decoding == reader = "materializer" /\ UNCHANGED <<limits, consumed>>

\* The probe says stop, or an allocation fails.
InterruptDecode ==
  /\ Decoding
  /\ \E code \in {"out_of_memory", "cancelled"} : FailDecode(code)
  /\ UNCHANGED <<tree, pos, whole, tail>>

\* open_document.  Of a number that cannot be read and has text behind it the
\* number is reported, unless it is an integer too long to be copied.
OpenRoot ==
  /\ Decoding /\ pos = 0
  /\ Fetch
  /\ LET kind == tree'[1].kind
         code == FirstFailure(OpenChecks(graph, 1, kind, TRUE))
     IN IF kind = "bigint" /\ ~RootAccepted(kind)
        THEN \E st \in {code, DecodeCode("TRAILING_CONTENT")} : FailDecode(st)
        ELSE IF code # "ok" THEN FailDecode(code)
        ELSE /\ graph' = Opened(graph, 1, kind)
             /\ IF kind \in Containers
                THEN /\ Descend /\ Continue
                     /\ frames' = <<[node |-> 1, edges |-> <<>>]>>
                ELSE Return(Ok) /\ UNCHANGED frames

\* One turn of the loop of traverse that finds a field or an element: the
\* number of entries is checked before the value is looked at.
ReadChild ==
  /\ Decoding /\ frames # <<>> /\ pos > 0
  /\ Fetch
  /\ LET child == tree'[pos']
         isField == tree[Last(open)].kind = "object"
         keyed == IF isField THEN CopyBytes(graph, -pos', child.label) ELSE graph
         entries == Last(frames).edges
         code == FirstFailure(
           <<<<Len(entries) >= limits.entries, "max_container_entries_exceeded">>,
             <<child.kind = "torn", DecodeCode("TAPE_ERROR")>>>>
           \o (IF isField THEN CopyChecks(graph, child.label) ELSE <<>>)
           \o <<<<Len(open) + 1 > limits.depth, "max_depth_exceeded">>>>
           \o OpenChecks(keyed, pos', child.kind, FALSE))
         new == Len(graph.nodes) + 1
         edge == [key |-> IF isField THEN Len(graph.bytes) ELSE -1, child |-> new]
         held == [frames EXCEPT ![Len(frames)].edges = Append(@, edge)]
     IN IF code # "ok" THEN FailDecode(code)
        ELSE /\ graph' = Opened(keyed, pos', child.kind)
             /\ Continue
             /\ IF child.kind \in Containers
                THEN Descend /\ frames' = Append(held, [node |-> new, edges |-> <<>>])
                ELSE UNCHANGED open /\ frames' = held

\* The turn that finds the end of the container: its edges are published.
FinalizeFrame ==
  /\ Decoding /\ Exhausted
  /\ LET frame == Last(frames)
         count == Len(frame.edges)
         fits == BudgetAllows(graph, count * EdgeBytes)
         finalized ==
           [graph EXCEPT !.edges = @ \o frame.edges,
                         !.nodes[frame.node].edges = Len(graph.edges),
                         !.nodes[frame.node].count = count]
     IN \/ /\ ~fits
           /\ FailDecode("max_output_bytes_exceeded")
           /\ UNCHANGED <<tree, pos, whole, tail>>
        \/ /\ fits /\ Len(open) > 1
           /\ Ascend /\ Continue
           /\ graph' = finalized /\ frames' = Front(frames)
        \/ /\ fits /\ Len(open) = 1
           /\ Return(Ok)
           /\ whole' = TRUE /\ UNCHANGED <<tree, pos, tail>>
           /\ graph' = finalized /\ frames' = Front(frames)

DecodeStep == OpenRoot \/ ReadChild \/ FinalizeFrame \/ InterruptDecode
=============================================================================
