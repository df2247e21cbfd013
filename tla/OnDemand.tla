------------------------------ MODULE OnDemand ------------------------------
(***************************************************************************)
(* The JSON source as the engines of src/native/src read it through the    *)
(* On-Demand interface of the vendored simdjson (external code): a forward *)
(* cursor that yields one value at a time, in document order, and never    *)
(* looks ahead of the value it yields.                                     *)
(*                                                                         *)
(* The document is not chosen in advance: the first pass over it decides   *)
(* value by value what it holds, `tree' records the decision, and a later  *)
(* pass (after a rewind) reads the record.  A value is                     *)
(*    [kind, up, label]                                                    *)
(* where `up' is the index in `tree' of its container (0 for the root) and *)
(* `label' is its key in an object and its position in an array.  A key is *)
(* known by its length in bytes, so 0 is the empty key; equal keys may     *)
(* occur twice in an object.  The kinds of a value that is no container    *)
(*    "scalar"     a number in range, true, false or null                  *)
(*    "text"       a string                                                *)
(*    "bigint"     an integer beyond 64 bits                               *)
(*    "huge"       a well-formed number beyond the finite doubles          *)
(*    "badnumber"  a token that begins like a number and is none           *)
(*    "badtoken"   a misspelt literal or a malformed string                *)
(*    "strange"    a token that begins like no JSON value                  *)
(*    "torn"       no value at all: the iterator of the container fails    *)
(*                 here (a missing comma or colon, a truncated document)   *)
(*                                                                         *)
(* Three passes read the source: the validation that opens a document, the *)
(* projection and the materializer.  A pass ends with a status; the codes  *)
(* for text that is no JSON (invalid_json, unexpected_eof, invalid_utf8)   *)
(* are one code here, "malformed".                                         *)
(***************************************************************************)
EXTENDS Integers, Sequences, FiniteSets, SequencesExt

CONSTANTS
  Keys,       \* the keys of objects, natural numbers
  Kinds,      \* the kinds the source may hold, a subset of those above
  MaxValues,  \* bound: the values of one document
  Tails,      \* what may follow the root value, see `tail'
  MaxDepth,   \* SIMD_JSON_MAX_DEPTH, the depth no reader goes beyond
  NoSlot      \* SIMD_JSON_OUTPUT_SLOT_UNAVAILABLE

VARIABLES
  tree,   \* the values decided so far, in document order
  pos,    \* the index in tree of the value the cursor yielded last
  open,   \* the containers being iterated, outermost first
  whole,  \* whether a pass reached the end of the root value
  tail,   \* the text after the root value: "none" (blank), "other", or
          \* "bracket" when it ends in the bracket that closes the root
  reader, \* the pass that is reading, "none" between two passes
  status  \* [code, slot], what the last pass or call returned

source == <<tree, pos, open, whole, tail>>
sourceVars == <<source, reader, status>>

Containers == {"object", "array"}
Leaves == {"scalar", "text", "bigint", "huge", "badnumber", "badtoken",
           "strange"}
Values == [kind : Containers \cup Leaves \cup {"torn"},
           up : 0..MaxValues, label : Keys \cup 0..MaxValues]
Codes == {"ok", "malformed", "number_out_of_range", "incorrect_type",
          "missing_field", "index_out_of_bounds", "max_depth_exceeded",
          "max_container_entries_exceeded", "max_string_bytes_exceeded",
          "max_output_bytes_exceeded", "cancelled", "cursor_consumed",
          "out_of_memory", "invalid_argument", "internal_failure"}
Ok == [code |-> "ok", slot |-> NoSlot]

SourceAssumption ==
  /\ Keys \subseteq Nat
  /\ Kinds \subseteq Containers \cup Leaves \cup {"torn"}
  /\ MaxValues \in Nat \ {0}
  /\ Tails \subseteq {"none", "other", "bracket"}
  /\ MaxDepth \in Nat \ {0}
  /\ NoSlot \in Nat
ASSUME SourceAssumption

SourceTypeOK ==
  /\ tree \in Seq(Values) /\ Len(tree) <= MaxValues
  /\ pos \in 0..Len(tree)
  /\ open \in Seq(1..Len(tree))
  /\ whole \in BOOLEAN
  /\ tail \in Tails
  /\ reader \in {"none", "validation", "projection", "materializer"}
  /\ status \in [code : Codes, slot : Nat]

SourceInit ==
  /\ tree = <<>> /\ pos = 0 /\ open = <<>> /\ whole = FALSE
  /\ tail \in Tails
  /\ reader = "none" /\ status = Ok

Parent == IF open = <<>> THEN 0 ELSE Last(open)

\* The members of the container c of the tree t, and how many come before n.
Members(t, c) == {n \in DOMAIN t : t[n].up = c}
Rank(t, n) == Cardinality({m \in Members(t, t[n].up) : m < n})

Labels == IF Parent # 0 /\ tree[Parent].kind = "object"
          THEN Keys ELSE {Cardinality(Members(tree, Parent))}

\* The cursor yields the next value of the container it is in, or the root.
\* Only a container has an iterator that can fail.
Look ==
  /\ \/ /\ pos < Len(tree) /\ tree[pos + 1].up = Parent
        /\ UNCHANGED tree
     \/ /\ pos = Len(tree) /\ ~whole /\ pos < MaxValues
        /\ \E k \in (IF open = <<>> THEN Kinds \ {"torn"} ELSE Kinds),
              l \in Labels :
             tree' = Append(tree, [kind |-> k, up |-> Parent, label |-> l])
  /\ whole' = (whole \/ (open = <<>> /\ tree'[pos + 1].kind \notin Containers))
  /\ UNCHANGED tail
Fetch == Look /\ pos' = pos + 1

\* The iterator of the innermost container equals its end.
Exhausted ==
  /\ open # <<>>
  /\ pos < Len(tree) => tree[pos + 1].up # Last(open)

Descend == open' = Append(open, pos')
Ascend == /\ open' = Front(open)
          /\ whole' = (whole \/ Len(open) = 1)
          /\ UNCHANGED <<tree, pos, tail>>

\* A pass that is over returns st; what it read stays read.
Return(st) == open' = <<>> /\ reader' = "none" /\ status' = st
Fail(code) == Return([code |-> code, slot |-> NoSlot])
Continue == UNCHANGED <<reader, status>>

\* The error simdjson reports for a value: it has one of its own for an integer
\* beyond 64 bits, and takes a number beyond the doubles for a malformed one.
Error(kind) ==
  CASE kind \in {"object", "array", "scalar", "text"} -> "SUCCESS"
    [] kind = "bigint" -> "BIGINT_ERROR"
    [] kind \in {"huge", "badnumber"} -> "NUMBER_ERROR"
    [] kind \in {"badtoken", "strange", "torn"} -> "TAPE_ERROR"

\* A container at the root is opened after one look at the last structural
\* character of the input; a value that is none has to be the only token.
\* (get_root_number parses the number first, unless it has more digits than
\* the longest double.)
RootAccepted(kind) == tail = "none" \/ (kind \in Containers /\ tail = "bracket")

\* What can be wrong with a source, for the properties of its readers.  The
\* values are in document order: a value lies in a container when everything
\* between the two begins in it.
Around(t, n) == {c \in 1..n : \A m \in (c + 1)..n : t[m].up >= c}
Depth(t, n) == Cardinality(Around(t, n))
Holds(kinds) == \E n \in DOMAIN tree : tree[n].kind \in kinds
Malformed == Holds({"badnumber", "badtoken", "strange", "torn"})
OutOfRange == Holds({"bigint", "huge"})
DeeperThan(limit) == \E n \in DOMAIN tree : Depth(tree, n) > limit
=============================================================================
