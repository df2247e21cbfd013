--------------------------- MODULE ProjectionPlan ---------------------------
(***************************************************************************)
(* The projection plan of src/native/src/simd_json_projection.cpp: the     *)
(* requested paths are merged into a prefix tree, one path after the other *)
(* in the order of their output slots, and every node is then annotated    *)
(* with what lies below it.  The traversal (module Projection) reads the   *)
(* tree and never changes it.                                              *)
(*                                                                         *)
(* A plan is [nodes, edges, at]: the nodes in the order of their creation  *)
(* (the root first), the number of object edges, which numbers the edges   *)
(* for the execution, and the node the path being inserted has reached.    *)
(***************************************************************************)
EXTENDS Integers, Sequences, SequencesExt, OnDemand

CONSTANT Requests   \* the descriptor sets: sequences of [slot, path]

\* NoSlot is UINT32_MAX in the code; here any number above the slots in use.
PlanAssumption ==
  \A request \in Requests :
    request \in Seq([slot : 0..(NoSlot - 1),
                     path : Seq([tag : {"key", "index"}, value : Nat])])
ASSUME PlanAssumption

VARIABLES
  request,   \* the descriptors of the call
  planned,   \* how many output slots have been inserted
  plan       \* the plan; without nodes when there is none

planVars == <<request, planned, plan>>

NoPlan == [nodes |-> <<>>, edges |-> 0, at |-> 1]
EmptyNode == [object |-> <<>>, array |-> <<>>, slots |-> <<>>,
              sub |-> 0, first |-> NoSlot]

\* Slots are numbered by the caller without gaps or repetitions.
DescriptorsValid(r) ==
  /\ r # <<>>
  /\ \A i \in DOMAIN r : r[i].slot < Len(r) /\ r[i].path # <<>>
  /\ \A i, j \in DOMAIN r : r[i].slot = r[j].slot => i = j

PathOf(r, slot) == (CHOOSE e \in ToSet(r) : e.slot = slot).path

CreateNode(p) == [p EXCEPT !.nodes = Append(@, EmptyNode)]

ObjectChild(p, key) ==
  LET node == p.nodes[p.at]
      new == Len(p.nodes) + 1
      edge == [child |-> new, id |-> p.edges + 1]
  IN IF key \in DOMAIN node.object
     THEN [p EXCEPT !.at = node.object[key].child]
     ELSE [CreateNode(p) EXCEPT
             !.nodes[p.at].object =
                [k \in {key} \cup DOMAIN node.object |->
                   IF k = key THEN edge ELSE node.object[k]],
             !.edges = @ + 1, !.at = new]

\* std::lower_bound over a sorted sequence of numbers.
LowerBound(s, n) == Cardinality({i \in DOMAIN s : s[i] < n}) + 1

AtTheEnd(edges, index) == Len(edges) + 1   \* mutant: edges in order of arrival
EdgePosition(edges, index) ==
  LowerBound([i \in DOMAIN edges |-> edges[i].index], index)

ArrayChild(p, index) ==
  LET edges == p.nodes[p.at].array
      i == EdgePosition(edges, index)
      new == Len(p.nodes) + 1
  IN IF i <= Len(edges) /\ edges[i].index = index
     THEN [p EXCEPT !.at = edges[i].child]
     ELSE [CreateNode(p) EXCEPT
             !.nodes[p.at].array =
                InsertAt(@, i, [index |-> index, child |-> new]),
             !.at = new]

AddTerminal(p, slot) ==
  [p EXCEPT !.nodes[p.at].slots = InsertAt(@, LowerBound(@, slot), slot), !.at = 1]

Child(p, segment) == IF segment.tag = "key" THEN ObjectChild(p, segment.value)
                                            ELSE ArrayChild(p, segment.value)
InsertEntry(p, slot, path) == AddTerminal(FoldLeft(Child, p, path), slot)

ObjectChildren(node) == {node.object[k].child : k \in DOMAIN node.object}
ArrayChildren(node) == {e.child : e \in ToSet(node.array)}

\* Children come after their parent, so one pass from the last node to the
\* root annotates the tree.
FinalizePlanMetadata(p) ==
  LET noted[n \in DOMAIN p.nodes] ==
        LET node == p.nodes[n]
            below == ObjectChildren(node) \cup ArrayChildren(node)
            Slots(c) == noted[c].sub
        IN [node EXCEPT
              !.sub = Len(node.slots) + MapThenSumSet(Slots, below),
              !.first = Min({NoSlot} \cup ToSet(node.slots)
                              \cup {noted[c].first : c \in below})]
  IN [p EXCEPT !.nodes = noted]

FirstObjectChildSlot(node, nodes) ==
  Min({NoSlot} \cup {nodes[c].first : c \in ObjectChildren(node)})
FirstArrayChildSlot(node, nodes) ==
  Min({NoSlot} \cup {nodes[c].first : c \in ArrayChildren(node)})

PlanInit ==
  /\ request \in Requests
  /\ planned = 0
  /\ plan = NoPlan

\* simd_json_projection_plan_create: the root, then one path at a time.
BeginPlan ==
  /\ DescriptorsValid(request) /\ plan = NoPlan
  /\ plan' = CreateNode(NoPlan)
  /\ UNCHANGED <<request, planned>>

PlanSlot ==
  /\ plan.nodes # <<>> /\ planned < Len(request)
  /\ planned' = planned + 1
  /\ plan' = LET grown == InsertEntry(plan, planned, PathOf(request, planned))
             IN IF planned' = Len(request) THEN FinalizePlanMetadata(grown)
                                           ELSE grown
  /\ UNCHANGED request

\* An allocation fails: the unfinished plan is released with its nodes.
PlanLost ==
  /\ DescriptorsValid(request) /\ planned < Len(request)
  /\ plan' = NoPlan
  /\ UNCHANGED <<request, planned>>

PlanReady == plan.nodes # <<>> /\ planned = Len(request)

-----------------------------------------------------------------------------
(* What the tree must be, stated on the paths alone. *)
RequestedPrefixes(r, n) ==
  {<<>>} \cup UNION {Prefixes(PathOf(r, s)) : s \in 0..(n - 1)}

\* The node a path of segments leads to; 0 when it leads nowhere.
NodeAt(p, path) ==
  LET Step(n, segment) ==
        IF n = 0 THEN 0
        ELSE LET node == p.nodes[n] IN
             IF segment.tag = "key"
             THEN IF segment.value \in DOMAIN node.object
                  THEN node.object[segment.value].child ELSE 0
             ELSE Max({0} \cup {e.child : e \in
                         {x \in ToSet(node.array) : x.index = segment.value}})
  IN FoldLeft(Step, 1, path)

\* The sequence s enumerates S from below.
InAscendingOrder(s, S) ==
  ToSet(s) = S /\ \A i, k \in DOMAIN s : i < k => s[i] < s[k]

\* The plan holds one node for each distinct prefix of the requested paths,
\* and at each node the slots of the requests that end there, in ascending
\* order; its array edges ascend, and its object edges have numbers of their
\* own.  Two paths that share a prefix share the nodes, and a path that is
\* a prefix of another keeps its own slots.  (Looked at before the source is
\* read; no step after that changes the plan.)
PlanIsPrefixTree ==
  tree = <<>> /\ plan.nodes # <<>> =>
    LET prefixes == RequestedPrefixes(request, planned)
    IN /\ Len(plan.nodes) = Cardinality(prefixes)
       /\ {NodeAt(plan, q) : q \in prefixes} = DOMAIN plan.nodes
       /\ \A q \in prefixes :
            LET node == plan.nodes[NodeAt(plan, q)]
                ending == {s \in 0..(planned - 1) : PathOf(request, s) = q}
                through == {s \in 0..(planned - 1) : IsPrefix(q, PathOf(request, s))}
            IN /\ InAscendingOrder(node.slots, ending)
               /\ \A i, k \in DOMAIN node.array :
                    i < k => node.array[i].index < node.array[k].index
               /\ PlanReady => /\ node.sub = Cardinality(through)
                               /\ node.first = Min(through)
       /\ \A n, m \in DOMAIN plan.nodes :
            \A k \in DOMAIN plan.nodes[n].object, l \in DOMAIN plan.nodes[m].object :
              plan.nodes[n].object[k].id = plan.nodes[m].object[l].id
                => n = m /\ k = l
=============================================================================
