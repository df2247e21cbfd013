------------------------ MODULE NativeDocumentProofs ------------------------
(***************************************************************************)
(* Proofs about NativeDocument, for sources of any size, any plans, limits *)
(* and sequences of calls: what the engines answer about a source is true  *)
(* of it, a document that was opened can be read, and is read once; and    *)
(* the plan of a request is the prefix tree of its paths.                  *)
(*                                                                         *)
(* What an answer contains is the matter of DecodeProofs and               *)
(* ProjectionProofs.  This invariant is about the place of the forward     *)
(* cursor: the values of a source are in document order, the containers    *)
(* being iterated are those around the cursor, and what lies behind them   *)
(* was read and accepted.  So a depth is one more than the number of open  *)
(* containers, and a pass that ends with the root has seen every value.    *)
(***************************************************************************)
EXTENDS NativeDocument, FiniteSetTheorems, FunctionTheorems, SequenceTheorems,
        WellFoundedInduction, TLAPS

-----------------------------------------------------------------------------
(* The source and the cursor in it. *)

SourceShape ==
  /\ tree \in Seq(Values) /\ Len(tree) <= MaxValues
  /\ pos \in 0..Len(tree) /\ open \in Seq(1..pos)
  /\ whole \in BOOLEAN /\ tail \in Tails

\* The values of a source are in document order: a container comes before
\* its members, and what lies between the two is inside it.
InOrder(t) ==
  /\ \A n \in DOMAIN t : t[n].up < n /\ (t[n].up = 0 <=> n = 1)
  /\ \A n \in DOMAIN t : n # 1 => t[t[n].up].kind \in Containers
  /\ \A n \in DOMAIN t : \A m \in (t[n].up + 1)..(n - 1) : t[m].up >= t[n].up

\* The containers being iterated are those around the place of the cursor, from
\* the outside to the inside, ...
Nested ==
  /\ \A i \in DOMAIN open : tree[open[i]].kind \in Containers
  /\ \A i, k \in DOMAIN open : i < k => open[i] < open[k]
  /\ \A i \in DOMAIN open : \A m \in (open[i] + 1)..pos : tree[m].up >= open[i]
  /\ open # <<>> => \A c \in Around(tree, pos) : c <= Last(open) => c \in ToSet(open)

\* ... and what a pass has not read yet lies in one of them, or in something it
\* has not read yet either.
Ahead ==
  reader # "none" /\ pos > 0 =>
    \A n \in (pos + 1)..Len(tree) : tree[n].up \in ToSet(open) \cup (pos + 1)..Len(tree)

Placed == SourceShape /\ InOrder(tree) /\ Nested /\ Ahead

-----------------------------------------------------------------------------
(* The calls, and what the passes have found. *)

Good == {"ok"} \cup PathFailures
Projections == {"select", "binary"} \cup Rows

MarkShape == [node : {0, 1} \cup DOMAIN plan.nodes, wanted : Nat, index : Nat]

\* A source is read by one pass at a time, each in its stage and for its
\* purpose; nothing is read before the document is open, and every reading
\* begins at the beginning.
Flow ==
  /\ op \in Operations /\ calls \in Nat /\ claimed \in BOOLEAN /\ consumed \in BOOLEAN
  /\ stage \in {"plan", "open", "ready", "over"}
  /\ \/ reader = "none" /\ open = <<>>
     \/ /\ reader = "validation" /\ stage = "open" /\ op = "select" /\ calls = 0
        /\ pos > 0 => open # <<>>
     \/ /\ reader = "projection" /\ stage = "ready" /\ op # "decode"
        /\ claimed \/ (op \in Rows /\ calls > 0)
     \/ /\ reader = "materializer" /\ stage = "ready" /\ op = "decode" /\ consumed
        /\ pos > 0 => open # <<>>
  /\ stage \in {"plan", "open"} /\ reader = "none" =>
       tree = <<>> /\ pos = 0 /\ calls = 0 /\ status = Ok
  /\ stage = "plan" => reader = "none"
  /\ claimed => op \in {"select", "binary"} /\ stage = "ready"
  /\ consumed => op = "decode" /\ stage = "ready"
  /\ stage = "ready" /\ reader = "none" =>
       pos = 0 \/ claimed \/ consumed \/ (op \in Rows /\ calls > 0)

Marked ==
  /\ marks \in Seq(MarkShape)
  /\ Len(marks) = (IF reader = "projection" THEN Len(open) ELSE 0)
  /\ pending.code \in Good

\* What a pass accepts on its way, and what the validation leaves behind.
Fit(t, n, kinds) ==
  \A m \in 1..n : t[m].kind \in Containers \cup kinds /\ Depth(t, m) <= MaxDepth
Plain == {"scalar", "text"}

Passing ==
  reader \in {"validation", "projection"} /\ pos > 0 =>
    Fit(tree, pos, Plain) /\ Untorn

Validated ==
  op = "select" /\ stage = "ready" =>
    /\ tree # <<>> /\ whole /\ RootAccepted(tree[1].kind)
    /\ Fit(tree, Len(tree), Plain)

IInv == Placed /\ Flow /\ Marked /\ Passing /\ Validated /\ VerdictIsEarned /\ OpenedIsReadable

LEMMA FrontAndLast ==
  ASSUME NEW S, NEW s \in Seq(S), s # <<>>
  PROVE  /\ Front(s) \in Seq(S) /\ Len(Front(s)) = Len(s) - 1
         /\ \A i \in 1..(Len(s) - 1) : Front(s)[i] = s[i]
         /\ Last(s) \in S /\ Last(s) = s[Len(s)] /\ Len(s) \in Nat \ {0}
<1> DEFINE m == Len(s) - 1
<1>1. Len(s) \in Nat \ {0} /\ m \in Nat /\ \A i \in 1..Len(s) : s[i] \in S
  BY EmptySeq
<1>2. Last(s) \in S /\ Last(s) = s[Len(s)]
  BY <1>1 DEF Last
<1>3. SubSeq(s, 1, m) \in Seq(S)
  BY <1>1, SubSeqProperties
<1>4. Len(SubSeq(s, 1, m)) = IF 1 <= m THEN m - 1 + 1 ELSE 0
  BY <1>1, SubSeqProperties
<1>5. \A i \in 1..(m - 1 + 1) : SubSeq(s, 1, m)[i] = s[1 + i - 1]
  BY <1>1, SubSeqProperties
<1>6. Front(s) = SubSeq(s, 1, m)
  BY DEF Front
<1> HIDE DEF m
<1>7. /\ Len(Front(s)) = m /\ Front(s) \in Seq(S)
      /\ \A i \in 1..m : Front(s)[i] = s[i]
  BY <1>1, <1>3, <1>4, <1>5, <1>6
<1>8. QED
  BY <1>1, <1>2, <1>7 DEF m

LEMMA ValueShape ==
  ASSUME NEW t \in Seq(Values), NEW n \in DOMAIN t
  PROVE  /\ n \in 1..Len(t) /\ t[n] \in Values
         /\ t[n].up \in Nat /\ t[n].kind \in Containers \cup Leaves \cup {"torn"}
<1>1. n \in 1..Len(t) /\ t[n] \in Values
  BY ElementOfSeq
<1>2. MaxValues \in Nat
  BY SourceAssumption DEF SourceAssumption
<1>3. QED
  BY <1>1, <1>2 DEF Values

\* The key or the position of a new value.
LEMMA LabelShape ==
  ASSUME SourceShape, pos < MaxValues, pos = Len(tree), NEW l \in Labels
  PROVE  l \in Keys \cup 0..MaxValues
<1>1. CASE Labels = Keys
  BY <1>1
<1>2. CASE Labels = {Cardinality(Members(tree, Parent))}
  <2>1. Members(tree, Parent) \subseteq 1..Len(tree) /\ Len(tree) \in Nat
    BY DEF SourceShape, Members
  <2>a. /\ IsFiniteSet(1..Len(tree))
        /\ Cardinality(1..Len(tree)) = IF 1 > Len(tree) THEN 0 ELSE Len(tree) - 1 + 1
    <3> DEFINE z == Len(tree)
    <3>1. z \in Int /\ 1 \in Int
      BY <2>1
    <3> HIDE DEF z
    <3>2. IsFiniteSet(1..z) /\ Cardinality(1..z) = IF 1 > z THEN 0 ELSE z - 1 + 1
      BY <3>1, FS_Interval
    <3>3. QED
      BY <3>2 DEF z
  <2>2. IsFiniteSet(1..Len(tree)) /\ Cardinality(1..Len(tree)) = Len(tree)
    BY <2>1, <2>a
  <2>3. /\ IsFiniteSet(Members(tree, Parent))
        /\ Cardinality(Members(tree, Parent)) <= Len(tree)
    BY <2>1, <2>2, FS_Subset
  <2>4. Cardinality(Members(tree, Parent)) \in Nat
    BY <2>3, FS_CardinalityType
  <2>5. MaxValues \in Nat
    BY SourceAssumption DEF SourceAssumption
  <2>6. QED
    BY <1>2, <2>1, <2>3, <2>4, <2>5 DEF SourceShape
<1>3. QED
  BY <1>1, <1>2 DEF Labels

LEMMA ParentShape ==
  ASSUME SourceShape
  PROVE  /\ Parent \in 0..pos /\ (Parent = 0 <=> open = <<>>)
         /\ open # <<>> => Parent = Last(open) /\ Parent = open[Len(open)]
                           /\ Len(open) \in DOMAIN open
<1>1. CASE open = <<>>
  BY <1>1 DEF Parent, SourceShape
<1>2. CASE open # <<>>
  <2>1. Last(open) \in 1..pos /\ Last(open) = open[Len(open)] /\ Len(open) \in Nat \ {0}
    BY <1>2, FrontAndLast DEF SourceShape
  <2>2. pos \in Nat /\ DOMAIN open = 1..Len(open)
    BY DEF SourceShape
  <2>3. QED
    BY <1>2, <2>1, <2>2 DEF Parent
<1>3. QED
  BY <1>1, <1>2

\* A reader looks at the value after the cursor, which it meets or adds.
LEMMA Looked ==
  ASSUME Placed, pos > 0 <=> open # <<>>, Look
  PROVE  /\ tree' \in Seq(Values) /\ Len(tree') <= MaxValues
         /\ pos + 1 \in 1..Len(tree') /\ Len(tree) <= Len(tree')
         /\ \A m \in 1..Len(tree) : tree'[m] = tree[m]
         /\ \/ pos < Len(tree) /\ tree' = tree
            \/ pos = Len(tree) /\ Len(tree') = pos + 1
         /\ tree'[pos + 1].up = Parent
         /\ InOrder(tree')
         /\ whole' \in BOOLEAN /\ tail' = tail
<1>0. /\ tree \in Seq(Values) /\ Len(tree) \in Nat /\ pos \in Nat /\ pos <= Len(tree)
      /\ DOMAIN tree = 1..Len(tree) /\ Len(tree) <= MaxValues /\ MaxValues \in Nat
  BY SourceAssumption DEF Placed, SourceShape, SourceAssumption
<1>a. whole' \in BOOLEAN /\ tail' = tail
  BY DEF Look, Placed, SourceShape
<1>1. CASE pos < Len(tree) /\ tree[pos + 1].up = Parent /\ UNCHANGED tree
  <2>1. tree' = tree /\ pos + 1 \in 1..Len(tree)
    BY <1>0, <1>1
  <2>2. InOrder(tree')
    BY <2>1 DEF Placed
  <2>3. tree'[pos + 1].up = Parent
    BY <1>1, <2>1
  <2>4. Len(tree') = Len(tree) /\ \A m \in 1..Len(tree) : tree'[m] = tree[m]
    BY <2>1
  <2>5. /\ tree' \in Seq(Values) /\ Len(tree') <= MaxValues
        /\ pos + 1 \in 1..Len(tree') /\ Len(tree) <= Len(tree')
    BY <1>0, <1>1, <2>1
  <2>6. QED
    BY <1>1, <1>a, <2>1, <2>2, <2>3, <2>4, <2>5, Zenon
<1>2. CASE /\ pos = Len(tree) /\ ~whole /\ pos < MaxValues
           /\ \E k \in (IF open = <<>> THEN Kinds \ {"torn"} ELSE Kinds), l \in Labels :
                tree' = Append(tree, [kind |-> k, up |-> Parent, label |-> l])
  <2>1. PICK k \in Kinds, l \in Labels :
               tree' = Append(tree, [kind |-> k, up |-> Parent, label |-> l])
    BY <1>2
  <2> DEFINE v == [kind |-> k, up |-> Parent, label |-> l]
  <2>2. l \in Keys \cup 0..MaxValues /\ Parent \in 0..pos
    BY <1>2, LabelShape, ParentShape DEF Placed
  <2>3. v \in Values /\ v.up = Parent
    BY <1>0, <2>2, SourceAssumption DEF Values, SourceAssumption
  <2> HIDE DEF v
  <2>4. /\ tree' \in Seq(Values) /\ Len(tree') = Len(tree) + 1
        /\ \A m \in 1..Len(tree) : tree'[m] = tree[m]
        /\ tree'[Len(tree) + 1] = v
    <3>1. tree' = Append(tree, v)
      BY <2>1 DEF v
    <3>2. QED
      BY <1>0, <2>3, <3>1
  <2>5. DOMAIN tree' = 1..(pos + 1)
    BY <1>0, <1>2, <2>4
  <2>6. ASSUME NEW n \in 1..(pos + 1)
        PROVE  /\ tree'[n].up < n /\ (tree'[n].up = 0 <=> n = 1)
               /\ n # 1 => tree'[tree'[n].up].kind \in Containers
               /\ \A m \in (tree'[n].up + 1)..(n - 1) : tree'[m].up >= tree'[n].up
    <3>1. CASE n <= pos
      <4>1. n \in DOMAIN tree /\ tree'[n] = tree[n] /\ tree[n].up \in Nat
        BY <1>0, <1>2, <2>4, <3>1, ValueShape
      <4>2. /\ tree[n].up < n /\ (tree[n].up = 0 <=> n = 1)
            /\ n # 1 => tree[tree[n].up].kind \in Containers
            /\ \A m \in (tree[n].up + 1)..(n - 1) : tree[m].up >= tree[n].up
        BY <4>1 DEF Placed, InOrder
      <4>3. n # 1 => tree'[tree[n].up] = tree[tree[n].up]
        BY <1>0, <1>2, <2>4, <4>1, <4>2
      <4>4. \A m \in (tree[n].up + 1)..(n - 1) : tree'[m] = tree[m]
        BY <1>0, <1>2, <2>4, <4>1
      <4>5. QED
        BY <4>1, <4>2, <4>3, <4>4
    <3>2. CASE n = pos + 1
      <4>1. tree'[n].up = Parent
        BY <1>2, <2>3, <2>4, <3>2
      <4>2. CASE open = <<>>
        <5>1. pos = 0 /\ Parent = 0
          BY <1>0, <4>2, ParentShape DEF Placed
        <5>2. QED
          BY <3>2, <4>1, <5>1
      <4>3. CASE open # <<>>
        <5>1. /\ Parent \in 1..pos /\ Parent = open[Len(open)] /\ Len(open) \in DOMAIN open
          BY <1>0, <4>3, <2>2, ParentShape DEF Placed
        <5>2. \A m \in (Parent + 1)..pos : tree[m].up >= Parent
          BY <5>1 DEF Placed, Nested
        <5>3. tree[Parent].kind \in Containers
          BY <5>1 DEF Placed, Nested
        <5>4. tree'[Parent] = tree[Parent] /\ \A m \in (Parent + 1)..pos : tree'[m] = tree[m]
          BY <1>0, <1>2, <2>4, <5>1
        <5>5. QED
          BY <1>0, <3>2, <4>1, <4>3, <5>1, <5>2, <5>3, <5>4
      <4>4. QED
        BY <4>2, <4>3
    <3>3. QED
      BY <1>0, <3>1, <3>2
  <2>7. InOrder(tree')
    BY <2>5, <2>6 DEF InOrder
  <2>8. QED
    BY <1>0, <1>2, <1>a, <2>3, <2>4, <2>7
<1>3. QED
  BY <1>1, <1>2 DEF Look

\* What is around the next value: the containers that are open, and itself.
LEMMA AroundNext ==
  ASSUME Placed, pos > 0 <=> open # <<>>, Look
  PROVE  Around(tree', pos + 1) = ToSet(open) \cup {pos + 1}
<1>1. /\ pos \in Nat /\ pos <= Len(tree) /\ Len(tree) \in Nat
      /\ \A m \in 1..Len(tree) : tree'[m] = tree[m]
      /\ tree'[pos + 1].up = Parent
      /\ Parent \in 0..pos /\ (Parent = 0 <=> open = <<>>)
  BY Looked, ParentShape DEF Placed, SourceShape
<1>2. ASSUME NEW c \in 1..pos
      PROVE  c \in Around(tree', pos + 1) <=> c \in Around(tree, pos) /\ c <= Parent
  <2>1. \A m \in (c + 1)..pos : tree'[m] = tree[m]
    BY <1>1, <1>2
  <2>2. (c + 1)..(pos + 1) = (c + 1)..pos \cup {pos + 1} /\ pos + 1 \in (c + 1)..(pos + 1)
    BY <1>1, <1>2
  <2>3. c \in Around(tree', pos + 1)
          <=> (\A m \in (c + 1)..(pos + 1) : tree'[m].up >= c)
    BY <1>1, <1>2 DEF Around
  <2>4. c \in Around(tree, pos) <=> (\A m \in (c + 1)..pos : tree[m].up >= c)
    BY <1>1, <1>2 DEF Around
  <2>5. (\A m \in (c + 1)..(pos + 1) : tree'[m].up >= c)
          <=> (\A m \in (c + 1)..pos : tree'[m].up >= c) /\ tree'[pos + 1].up >= c
    BY <2>2
  <2>6. tree'[pos + 1].up >= c <=> c <= Parent
    BY <1>1, <1>2
  <2>7. QED
    BY <2>1, <2>3, <2>4, <2>5, <2>6
<1>3. ASSUME NEW c \in 1..pos
      PROVE  c \in Around(tree, pos) /\ c <= Parent <=> c \in ToSet(open)
  <2>1. CASE open = <<>>
    <3>1. c \notin ToSet(open) /\ ~(c <= Parent)
      BY <1>1, <1>3, <2>1 DEF ToSet
    <3>2. QED
      BY <3>1
  <2>2. CASE open # <<>>
    <3>1. Parent = Last(open) /\ Parent = open[Len(open)] /\ Len(open) \in Nat \ {0}
      BY <2>2, ParentShape, FrontAndLast DEF Placed, SourceShape
    <3>2. c \in Around(tree, pos) /\ c <= Parent => c \in ToSet(open)
      BY <2>2, <3>1 DEF Placed, Nested
    <3>3. ASSUME c \in ToSet(open)
          PROVE  c \in Around(tree, pos) /\ c <= Parent
      <4>1. PICK i \in DOMAIN open : c = open[i]
        BY <3>3 DEF ToSet
      <4>2. \A m \in (c + 1)..pos : tree[m].up >= c
        BY <4>1 DEF Placed, Nested
      <4>3. i \in 1..Len(open) /\ open[i] \in Nat
        BY <1>3, <4>1, <3>1, ElementOfSeq DEF Placed, SourceShape
      <4>4. i = Len(open) \/ i < Len(open)
        BY <4>3, <3>1
      <4>5. c <= Parent
        <5>1. CASE i = Len(open)
          BY <5>1, <3>1, <4>1, <4>3
        <5>2. CASE i < Len(open)
          <6>1. Len(open) \in DOMAIN open
            BY <3>1 DEF Placed, SourceShape
          <6>2. open[i] < open[Len(open)]
            BY <5>2, <6>1, <4>1 DEF Placed, Nested
          <6>3. QED
            BY <6>2, <4>1, <3>1, <1>1, <1>3
        <5>3. QED
          BY <4>4, <5>1, <5>2
      <4>6. QED
        BY <1>1, <1>3, <4>2, <4>5 DEF Around
    <3>4. QED
      BY <3>2, <3>3
  <2>3. QED
    BY <2>1, <2>2
<1>4. pos + 1 \in Around(tree', pos + 1)
  BY <1>1 DEF Around
<1>5. Around(tree', pos + 1) \subseteq 1..(pos + 1)
  BY DEF Around
<1>6. ToSet(open) \subseteq 1..pos
  BY ElementOfSeq DEF Placed, SourceShape, ToSet
<1>7. \A c \in 1..(pos + 1) : c \in 1..pos \/ c = pos + 1
  BY <1>1
<1>8. QED
  BY <1>2, <1>3, <1>4, <1>5, <1>6, <1>7

\* The depth of the next value is one more than the containers that are open.
LEMMA DepthOfNext ==
  ASSUME Placed, pos > 0 <=> open # <<>>, Look
  PROVE  Depth(tree', pos + 1) = Len(open) + 1
<1>1. /\ Around(tree', pos + 1) = ToSet(open) \cup {pos + 1}
      /\ pos \in Nat /\ open \in Seq(1..pos) /\ Len(open) \in Nat
      /\ DOMAIN open = 1..Len(open) /\ \A i \in DOMAIN open : open[i] \in 1..pos
  BY AroundNext, ElementOfSeq DEF Placed, SourceShape
<1> DEFINE z == Len(open)
<1>2. IsFiniteSet(1..z) /\ Cardinality(1..z) = z
  <2>1. z \in Int /\ z \in Nat /\ 1 \in Int
    BY <1>1
  <2> HIDE DEF z
  <2>2. IsFiniteSet(1..z) /\ Cardinality(1..z) = IF 1 > z THEN 0 ELSE z - 1 + 1
    BY <2>1, FS_Interval
  <2>3. QED
    BY <2>1, <2>2
<1>3. open \in Bijection(1..z, ToSet(open))
  <2>1. open \in [1..z -> ToSet(open)]
    BY <1>1 DEF ToSet
  <2>2. \A a, b \in 1..z : open[a] = open[b] => a = b
    <3> SUFFICES ASSUME NEW a \in 1..z, NEW b \in 1..z, open[a] = open[b], a # b
                 PROVE  FALSE
      OBVIOUS
    <3>1. a < b \/ b < a
      BY <1>1
    <3>2. \A i, k \in DOMAIN open : i < k => open[i] < open[k]
      BY DEF Placed, Nested
    <3>3. open[a] < open[b] \/ open[b] < open[a]
      BY <1>1, <3>1, <3>2
    <3>4. QED
      BY <1>1, <3>3
  <2>3. \A c \in ToSet(open) : \E i \in 1..z : open[i] = c
    BY <1>1 DEF ToSet
  <2>4. QED
    BY <2>1, <2>2, <2>3, Fun_IsBij
<1>4. IsFiniteSet(ToSet(open)) /\ Cardinality(ToSet(open)) = z
  BY <1>2, <1>3, FS_Bijection DEF ExistsBijection
<1>5. pos + 1 \notin ToSet(open)
  BY <1>1 DEF ToSet
<1>6. Cardinality(ToSet(open) \cup {pos + 1}) = z + 1
  BY <1>4, <1>5, FS_AddElement
<1>7. QED
  BY <1>1, <1>6 DEF Depth

-----------------------------------------------------------------------------
(* The place of the cursor, kept by what a pass can do. *)

\* A pass reads a value: it goes on, or goes inside, or ends.
LEMMA PlacedAfterFetch ==
  ASSUME Placed, pos > 0 <=> open # <<>>, reader # "none", Fetch,
         \/ open' = <<>> /\ reader' = "none"
         \/ open' = open /\ open # <<>> /\ tree'[pos'].kind \notin Containers
         \/ open' = Append(open, pos') /\ tree'[pos'].kind \in Containers
  PROVE  Placed'
<1>1. /\ tree' \in Seq(Values) /\ Len(tree') <= MaxValues
      /\ pos + 1 \in 1..Len(tree') /\ Len(tree) <= Len(tree')
      /\ \A m \in 1..Len(tree) : tree'[m] = tree[m]
      /\ \/ pos < Len(tree) /\ tree' = tree
         \/ pos = Len(tree) /\ Len(tree') = pos + 1
      /\ tree'[pos + 1].up = Parent
      /\ InOrder(tree')
      /\ whole' \in BOOLEAN /\ tail' = tail
  BY Looked DEF Fetch
<1>2. /\ pos' = pos + 1 /\ pos \in Nat /\ pos <= Len(tree) /\ Len(tree) \in Nat
      /\ Len(tree') \in Nat /\ tail \in Tails
      /\ open \in Seq(1..pos) /\ DOMAIN open = 1..Len(open) /\ Len(open) \in Nat
      /\ DOMAIN tree' = 1..Len(tree')
  BY <1>1 DEF Fetch, Placed, SourceShape
<1>p. /\ pos \in Nat /\ pos' = pos + 1 /\ Len(tree) \in Nat /\ Len(tree') \in Nat
      /\ pos <= Len(tree) /\ pos' <= Len(tree') /\ pos' \in 0..Len(tree')
  <2>1. pos' \in 1..Len(tree')
    BY <1>1, <1>2, Zenon
  <2>2. QED
    BY <1>2, <2>1
<1>q. (pos < Len(tree) /\ tree' = tree) \/ Len(tree') = pos'
  <2>1. CASE pos < Len(tree) /\ tree' = tree
    BY <2>1
  <2>2. CASE pos = Len(tree) /\ Len(tree') = pos + 1
    BY <1>p, <2>2
  <2>3. QED
    BY <1>1, <2>1, <2>2
<1>3. Around(tree', pos') = ToSet(open) \cup {pos'}
  BY <1>2, AroundNext DEF Fetch
<1>4. \A i \in DOMAIN open : /\ open[i] \in 1..pos /\ tree'[open[i]] = tree[open[i]]
                             /\ tree'[open[i]].kind \in Containers
  <2>1. \A i \in DOMAIN open : open[i] \in 1..pos
    BY <1>2, ElementOfSeq
  <2>2. QED
    BY <1>1, <1>2, <2>1 DEF Placed, Nested
<1>5. open # <<>> => /\ Parent = Last(open) /\ Parent = open[Len(open)]
                     /\ Len(open) \in DOMAIN open
  BY ParentShape DEF Placed
<1>6. \A i \in DOMAIN open : open[i] <= Parent
  <2> SUFFICES ASSUME NEW i \in DOMAIN open PROVE open[i] <= Parent
    OBVIOUS
  <2>1. open # <<>>
    BY <1>2
  <2>2. i = Len(open) \/ i < Len(open)
    BY <1>2
  <2>3. i < Len(open) => open[i] < open[Len(open)]
    BY <1>5, <2>1 DEF Placed, Nested
  <2>4. QED
    BY <1>4, <1>5, <2>1, <2>2, <2>3
<1>7. \A i \in DOMAIN open : \A m \in (open[i] + 1)..pos' : tree'[m].up >= open[i]
  <2> SUFFICES ASSUME NEW i \in DOMAIN open, NEW m \in (open[i] + 1)..pos'
               PROVE  tree'[m].up >= open[i]
    OBVIOUS
  <2>1. CASE m = pos'
    BY <1>1, <1>2, <1>4, <1>6, <2>1, ParentShape DEF Placed
  <2>2. CASE m # pos'
    <3>1. m \in (open[i] + 1)..pos /\ m \in 1..Len(tree)
      BY <1>2, <1>4, <2>2
    <3>2. QED
      BY <1>1, <3>1 DEF Placed, Nested
  <2>3. QED
    BY <2>1, <2>2
<1>8. CASE open' = <<>> /\ reader' = "none"
  <2>a. open' \in Seq(1..pos')
    BY <1>8, EmptySeq
  <2>1. SourceShape'
    BY <1>1, <1>2, <1>p, <2>a DEF SourceShape
  <2>2. Nested'
    BY <1>8 DEF Nested
  <2>3. Ahead'
    BY <1>8 DEF Ahead
  <2>4. QED
    BY <1>1, <2>1, <2>2, <2>3 DEF Placed
<1>9. CASE open' = open /\ open # <<>> /\ tree'[pos'].kind \notin Containers
  <2>1. open' \in Seq(1..pos')
    <3>1. 1..pos \subseteq 1..pos'
      BY <1>2
    <3>2. open \in Seq(1..pos')
      BY <1>2, <3>1, SeqMonotonic
    <3>3. QED
      BY <1>9, <3>2
  <2>2. SourceShape'
    BY <1>1, <1>2, <1>p, <2>1 DEF SourceShape
  <2>3. Nested'
    <3>1. \A i \in DOMAIN open : tree'[open[i]].kind \in Containers
      BY <1>4
    <3>2. \A i, k \in DOMAIN open : i < k => open[i] < open[k]
      BY DEF Placed, Nested
    <3>3. \A c \in Around(tree', pos') : c <= Last(open) => c \in ToSet(open)
      <4>1. Last(open) \in 1..pos
        BY <1>4, <1>5, <1>9
      <4>2. QED
        BY <1>2, <1>3, <4>1
    <3>4. QED
      BY <1>7, <1>9, <3>1, <3>2, <3>3 DEF Nested
  <2>4. Ahead'
    <3> SUFFICES ASSUME reader' # "none", NEW n \in (pos' + 1)..Len(tree')
                 PROVE  tree'[n].up \in ToSet(open) \cup (pos' + 1)..Len(tree')
      BY <1>9 DEF Ahead
    <3>1. pos < Len(tree) /\ tree' = tree
      BY <1>p, <1>q
    <3>a. pos > 0
      BY <1>9
    <3>2. pos > 0 /\ n \in (pos + 1)..Len(tree) /\ n \in DOMAIN tree /\ n # 1
      BY <1>p, <3>1, <3>a
    <3>3. tree[n].up \in ToSet(open) \cup (pos + 1)..Len(tree)
      BY <3>2 DEF Placed, Ahead
    <3>4. tree[tree[n].up].kind \in Containers
      BY <3>2 DEF Placed, InOrder
    <3>5. tree[n].up # pos + 1
      BY <1>2, <1>9, <3>1, <3>4
    <3>6. QED
      BY <1>2, <3>1, <3>3, <3>5
  <2>5. QED
    BY <1>1, <2>2, <2>3, <2>4 DEF Placed
<1>10. CASE open' = Append(open, pos') /\ tree'[pos'].kind \in Containers
  <2>1. /\ open' \in Seq(1..pos') /\ Len(open') = Len(open) + 1
        /\ \A i \in 1..Len(open) : open'[i] = open[i]
        /\ open'[Len(open) + 1] = pos'
    <3>1. 1..pos \subseteq 1..pos' /\ pos' \in 1..pos'
      BY <1>2
    <3>2. open \in Seq(1..pos')
      BY <1>2, <3>1, SeqMonotonic
    <3> DEFINE v == pos'
               S == 1..pos'
    <3>3. v \in S /\ open' = Append(open, v) /\ open \in Seq(S)
      BY <1>10, <3>1, <3>2
    <3> HIDE DEF v, S
    <3>4. /\ open' \in Seq(S) /\ Len(open') = Len(open) + 1
          /\ \A i \in 1..Len(open) : open'[i] = open[i]
          /\ open'[Len(open) + 1] = v
      BY <3>3
    <3>5. QED
      BY <3>4 DEF v, S
  <2>2. /\ DOMAIN open' = 1..(Len(open) + 1) /\ open' # <<>> /\ Last(open') = pos'
        /\ \A i \in DOMAIN open' : i \in DOMAIN open \/ i = Len(open) + 1
    BY <1>2, <2>1 DEF Last
  <2>t. ToSet(open) \cup {pos'} = ToSet(open')
    <3>1. ToSet(open) \cup {pos'} \subseteq ToSet(open')
      <4>1. \A i \in DOMAIN open : i \in DOMAIN open' /\ open'[i] = open[i]
        BY <1>2, <2>1, <2>2
      <4>2. Len(open) + 1 \in DOMAIN open' /\ open'[Len(open) + 1] = pos'
        BY <1>2, <2>1, <2>2
      <4>3. QED
        BY <4>1, <4>2 DEF ToSet
    <3>2. ASSUME NEW c \in ToSet(open')
          PROVE  c \in ToSet(open) \cup {pos'}
      <4>1. PICK i \in DOMAIN open' : c = open'[i]
        BY <3>2 DEF ToSet
      <4>2. (i \in DOMAIN open /\ c = open[i]) \/ c = pos'
        BY <1>2, <2>1, <2>2, <4>1
      <4>3. QED
        BY <4>2 DEF ToSet
    <3>3. QED
      BY <3>1, <3>2
  <2>3. SourceShape'
    BY <1>1, <1>2, <1>p, <2>1 DEF SourceShape
  <2>4. Nested'
    <3>1. \A i \in DOMAIN open' : tree'[open'[i]].kind \in Containers
      BY <1>2, <1>4, <1>10, <2>1, <2>2
    <3>2. \A i, k \in DOMAIN open' : i < k => open'[i] < open'[k]
      <4> SUFFICES ASSUME NEW i \in DOMAIN open', NEW k \in DOMAIN open', i < k
                   PROVE  open'[i] < open'[k]
        OBVIOUS
      <4>1. i \in DOMAIN open /\ open'[i] = open[i]
        <5>1. i \in 1..(Len(open) + 1) /\ k \in 1..(Len(open) + 1)
          BY <2>2
        <5>2. i \in 1..Len(open)
          BY <1>2, <5>1
        <5>3. QED
          BY <1>2, <2>1, <5>2
      <4>2. CASE k \in DOMAIN open
        BY <1>2, <2>1, <4>1, <4>2 DEF Placed, Nested
      <4>3. CASE k = Len(open) + 1
        BY <1>2, <1>4, <2>1, <4>1, <4>3
      <4>4. QED
        BY <2>2, <4>2, <4>3
    <3>3. \A i \in DOMAIN open' :
            \A m \in (open'[i] + 1)..pos' : tree'[m].up >= open'[i]
      <4> SUFFICES ASSUME NEW i \in DOMAIN open', NEW m \in (open'[i] + 1)..pos'
                   PROVE  tree'[m].up >= open'[i]
        OBVIOUS
      <4>1. CASE i \in DOMAIN open
        BY <1>2, <1>7, <2>1, <4>1
      <4>2. CASE i = Len(open) + 1
        BY <1>2, <2>1, <4>2
      <4>3. QED
        BY <2>2, <4>1, <4>2
    <3>4. ToSet(open) \cup {pos'} = ToSet(open')
      BY <2>t
    <3>5. QED
      BY <1>3, <3>1, <3>2, <3>3, <3>4 DEF Nested
  <2>5. Ahead'
    <3> SUFFICES ASSUME reader' # "none", NEW n \in (pos' + 1)..Len(tree')
                 PROVE  tree'[n].up \in ToSet(open') \cup (pos' + 1)..Len(tree')
      BY DEF Ahead
    <3>1. pos < Len(tree) /\ tree' = tree
      BY <1>p, <1>q
    <3>2. ToSet(open) \cup {pos'} = ToSet(open')
      BY <2>t
    <3>3. CASE pos > 0
      <4>1. n \in (pos + 1)..Len(tree)
        BY <1>2, <3>1
      <4>2. tree[n].up \in ToSet(open) \cup (pos + 1)..Len(tree)
        BY <3>3, <4>1 DEF Placed, Ahead
      <4>3. QED
        BY <1>2, <3>1, <3>2, <4>2
    <3>4. CASE pos = 0
      <4>1. n \in DOMAIN tree /\ n # 1 /\ tree[n].up \in Nat
        BY <1>2, <3>1, <3>4, ValueShape DEF Placed, SourceShape
      <4>2. tree[n].up < n /\ tree[n].up # 0
        BY <4>1 DEF Placed, InOrder
      <4>3. QED
        BY <1>2, <3>1, <3>2, <3>4, <4>1, <4>2
    <3>5. QED
      BY <1>2, <3>3, <3>4
  <2>6. QED
    BY <1>1, <2>3, <2>4, <2>5 DEF Placed
<1>11. QED
  BY <1>8, <1>9, <1>10

\* A pass is at the end of a container: what is left lies further out.
LEMMA Beyond ==
  ASSUME Placed, reader # "none", Exhausted
  PROVE  /\ pos \in 1..Len(tree) /\ Last(open) \in 1..pos
         /\ \A n \in (pos + 1)..Len(tree) : tree[n].up # Last(open)
<1>1. /\ pos \in Nat /\ pos <= Len(tree) /\ Len(tree) \in Nat /\ open \in Seq(1..pos)
      /\ open # <<>> /\ DOMAIN tree = 1..Len(tree)
  BY DEF Placed, SourceShape, Exhausted
<1>2. Last(open) \in 1..pos /\ Last(open) = open[Len(open)] /\ Len(open) \in Nat \ {0}
  BY <1>1, FrontAndLast
<1>3. ASSUME NEW n \in (pos + 1)..Len(tree), tree[n].up = Last(open)
      PROVE  FALSE
  <2>1. /\ pos < Len(tree) /\ tree[pos + 1].up # Last(open)
        /\ pos + 1 \in DOMAIN tree /\ n \in DOMAIN tree /\ pos > 0
    BY <1>1, <1>2, <1>3 DEF Exhausted
  <2>2. n > pos + 1
    BY <1>1, <1>3, <2>1
  <2>a. pos + 1 \in (tree[n].up + 1)..(n - 1)
    BY <1>1, <1>2, <1>3, <2>2
  <2>3. tree[pos + 1].up >= Last(open)
    BY <1>3, <2>1, <2>a DEF Placed, InOrder
  <2>4. tree[pos + 1].up < pos + 1
    BY <2>1 DEF Placed, InOrder
  <2>5. tree[pos + 1].up \in ToSet(open)
    <3>1. pos + 1 \in (pos + 1)..Len(tree)
      BY <1>1, <2>1
    <3>2. tree[pos + 1].up \in ToSet(open) \cup (pos + 1)..Len(tree)
      BY <2>1, <3>1 DEF Placed, Ahead
    <3>3. QED
      BY <1>1, <2>4, <3>2
  <2>6. PICK i \in DOMAIN open : tree[pos + 1].up = open[i]
    BY <2>5 DEF ToSet
  <2>7. i \in 1..Len(open) /\ open[i] \in 1..pos /\ Len(open) \in DOMAIN open
    BY <1>1, <1>2, <2>6, ElementOfSeq
  <2>8. i < Len(open) => open[i] < open[Len(open)]
    BY <2>7 DEF Placed, Nested
  <2>9. QED
    BY <1>1, <1>2, <2>1, <2>3, <2>6, <2>7, <2>8
<1>4. QED
  BY <1>1, <1>2, <1>3

\* The end of the root is the end of the source.
LEMMA EndReached ==
  ASSUME Placed, reader # "none", Exhausted, Len(open) = 1
  PROVE  pos = Len(tree)
<1>1. /\ pos \in 1..Len(tree) /\ Last(open) = open[1] /\ DOMAIN open = {1}
      /\ \A n \in (pos + 1)..Len(tree) : tree[n].up # Last(open)
      /\ Len(tree) \in Nat /\ pos \in Nat
  BY Beyond DEF Placed, SourceShape, Last
<1>2. ASSUME pos < Len(tree)
      PROVE  FALSE
  <2>1. pos + 1 \in DOMAIN tree /\ pos + 1 \in (pos + 1)..Len(tree)
    BY <1>1, <1>2 DEF Placed, SourceShape
  <2>2. tree[pos + 1].up \in ToSet(open) \cup (pos + 1)..Len(tree)
    BY <1>1, <2>1 DEF Placed, Ahead
  <2>3. tree[pos + 1].up < pos + 1
    BY <2>1 DEF Placed, InOrder
  <2>4. tree[pos + 1].up = open[1]
    BY <1>1, <2>2, <2>3 DEF ToSet
  <2>5. QED
    BY <1>1, <2>1, <2>4
<1>3. QED
  BY <1>1, <1>2

\* A root that is no container is the whole source.
LEMMA RootAlone ==
  ASSUME Placed, pos = 0, Look, tree'[1].kind \notin Containers
  PROVE  tree' # <<>> /\ DOMAIN tree' = {1} /\ Len(tree') = 1 /\ whole'
<1>1. open = <<>>
  BY EmptySeq, ElementOfSeq DEF Placed, SourceShape
<1>2. /\ InOrder(tree') /\ tree' \in Seq(Values) /\ pos + 1 \in 1..Len(tree')
  BY <1>1, Looked
<1>3. DOMAIN tree' = 1..Len(tree') /\ Len(tree') \in Nat /\ 1 <= Len(tree')
  BY <1>2
<1>4. ASSUME Len(tree') > 1
      PROVE  FALSE
  <2>1. 2 \in DOMAIN tree' /\ tree'[2].up \in Nat
    BY <1>2, <1>3, <1>4, ValueShape
  <2>2. tree'[2].up = 1
    BY <1>2, <2>1 DEF InOrder
  <2>3. QED
    BY <1>2, <2>1, <2>2 DEF InOrder
<1>5. whole'
  <2>1. tree'[pos + 1].kind \notin Containers
    OBVIOUS
  <2>2. QED
    BY <1>1, <2>1 DEF Look
<1>6. QED
  BY <1>3, <1>4, <1>5

\* A pass that has looked at the root returns, and leaves the cursor behind it
\* or takes it back.
LEMMA PlacedAfterRoot ==
  ASSUME Placed, pos = 0, Look, open' = <<>>, pos' = 0 \/ (pos' = 1 /\ reader' = "none")
  PROVE  Placed'
<1>1. open = <<>>
  BY EmptySeq, ElementOfSeq DEF Placed, SourceShape
<1>2. /\ InOrder(tree') /\ tree' \in Seq(Values) /\ pos + 1 \in 1..Len(tree')
      /\ Len(tree') <= MaxValues /\ whole' \in BOOLEAN /\ tail' = tail
  BY <1>1, Looked
<1>3. pos' \in 0..Len(tree') /\ open' \in Seq(1..pos') /\ tail \in Tails
  BY <1>2, EmptySeq DEF Placed, SourceShape
<1>4. SourceShape'
  BY <1>2, <1>3 DEF SourceShape
<1>5. Nested' /\ Ahead'
  BY DEF Nested, Ahead
<1>6. QED
  BY <1>2, <1>4, <1>5 DEF Placed

\* A pass leaves a container, or ends there.
LEMMA PlacedAfterEnd ==
  ASSUME Placed, reader # "none", Exhausted, UNCHANGED <<tree, pos, tail>>, whole' \in BOOLEAN,
         open' = Front(open) \/ (open' = <<>> /\ reader' = "none")
  PROVE  Placed'
<1>1. /\ pos \in 1..Len(tree) /\ Last(open) \in 1..pos
      /\ \A n \in (pos + 1)..Len(tree) : tree[n].up # Last(open)
  BY Beyond
<1>2. InOrder(tree') /\ open # <<>> /\ open \in Seq(1..pos)
  BY DEF Placed, SourceShape, Exhausted
<1>3. CASE open' = <<>> /\ reader' = "none"
  <2>1. open' \in Seq(1..pos')
    BY <1>3, EmptySeq
  <2>2. SourceShape'
    BY <2>1 DEF Placed, SourceShape
  <2>3. Nested' /\ Ahead'
    BY <1>3 DEF Nested, Ahead
  <2>4. QED
    BY <1>2, <2>2, <2>3 DEF Placed
<1>4. CASE open' = Front(open)
  <2>1. /\ open' \in Seq(1..pos) /\ Len(open') = Len(open) - 1
        /\ \A i \in 1..(Len(open) - 1) : open'[i] = open[i]
        /\ Last(open) = open[Len(open)] /\ Len(open) \in Nat \ {0}
    BY <1>2, <1>4, FrontAndLast
  <2>2. /\ DOMAIN open' = 1..(Len(open) - 1) /\ DOMAIN open = 1..Len(open)
        /\ \A i \in DOMAIN open' : i \in DOMAIN open /\ open'[i] = open[i] /\ i < Len(open)
        /\ \A i \in DOMAIN open : i \in DOMAIN open' \/ i = Len(open)
    BY <1>2, <2>1
  <2>3. SourceShape'
    BY <2>1 DEF Placed, SourceShape
  <2>4. \A i \in DOMAIN open : open[i] \in 1..pos
    BY <1>2, <2>2, ElementOfSeq
  <2>5. Nested'
    <3>1. \A i \in DOMAIN open' : tree'[open'[i]].kind \in Containers
      BY <2>2 DEF Placed, Nested
    <3>2. \A i, k \in DOMAIN open' : i < k => open'[i] < open'[k]
      BY <2>2 DEF Placed, Nested
    <3>3. \A i \in DOMAIN open' :
            \A m \in (open'[i] + 1)..pos' : tree'[m].up >= open'[i]
      BY <2>2 DEF Placed, Nested
    <3>4. ASSUME open' # <<>>, NEW c \in Around(tree', pos'), c <= Last(open')
          PROVE  c \in ToSet(open')
      <4>1. c \in Around(tree, pos) /\ c \in Nat /\ c \in 1..pos
        BY <1>1, <3>4 DEF Around
      <4>2. /\ Last(open') = open[Len(open) - 1]
            /\ Len(open) - 1 \in DOMAIN open' /\ Len(open) \in DOMAIN open
        <5>1. Last(open') = open'[Len(open')] /\ Len(open') \in Nat \ {0}
          BY <2>1, <3>4, FrontAndLast
        <5>2. QED
          BY <2>1, <2>2, <5>1
      <4>3. Last(open') < Last(open)
        BY <2>1, <2>2, <4>2 DEF Placed, Nested
      <4>4. c <= Last(open) /\ c # Last(open)
        <5>1. Last(open) \in Nat /\ Last(open') \in Nat
          BY <1>1, <2>1, <2>4, <4>2
        <5>2. QED
          BY <3>4, <4>1, <4>3, <5>1
      <4>5. c \in ToSet(open)
        BY <1>2, <4>1, <4>4 DEF Placed, Nested
      <4>6. PICK i \in DOMAIN open : c = open[i]
        BY <4>5 DEF ToSet
      <4>7. i \in DOMAIN open' /\ open'[i] = c
        BY <2>1, <2>2, <4>4, <4>6
      <4>8. QED
        BY <4>7 DEF ToSet
    <3>5. QED
      BY <3>1, <3>2, <3>3, <3>4 DEF Nested
  <2>6. Ahead'
    <3> SUFFICES ASSUME NEW n \in (pos + 1)..Len(tree)
                 PROVE  tree[n].up \in ToSet(open') \cup (pos + 1)..Len(tree)
      BY DEF Ahead
    <3>1. tree[n].up \in ToSet(open) \cup (pos + 1)..Len(tree) /\ tree[n].up # Last(open)
      BY <1>1 DEF Placed, Ahead
    <3>2. ASSUME tree[n].up \in ToSet(open)
          PROVE  tree[n].up \in ToSet(open')
      <4>1. PICK i \in DOMAIN open : tree[n].up = open[i]
        BY <3>2 DEF ToSet
      <4>2. i \in DOMAIN open' /\ open'[i] = open[i]
        BY <2>1, <2>2, <3>1, <4>1
      <4>3. QED
        BY <4>1, <4>2 DEF ToSet
    <3>3. QED
      BY <3>1, <3>2
  <2>7. QED
    BY <1>2, <2>3, <2>5, <2>6 DEF Placed
<1>5. QED
  BY <1>3, <1>4

\* Between two passes, and when one begins at the beginning.
LEMMA PlacedAtRest ==
  ASSUME Placed, UNCHANGED <<tree, tail>>, whole' \in BOOLEAN, open' = <<>>,
         pos' = 0 \/ (pos' = pos /\ reader' = "none")
  PROVE  Placed'
<1>1. pos' \in 0..Len(tree')
  BY DEF Placed, SourceShape
<1>2. open' \in Seq(1..pos')
  BY EmptySeq
<1>3. SourceShape'
  BY <1>1, <1>2 DEF Placed, SourceShape
<1>4. Nested' /\ Ahead'
  BY DEF Nested, Ahead
<1>5. InOrder(tree')
  BY DEF Placed
<1>6. QED
  BY <1>3, <1>4, <1>5 DEF Placed

-----------------------------------------------------------------------------
(* What a pass has found so far. *)

LEMMA DepthType ==
  ASSUME NEW t, NEW n \in Nat
  PROVE  Depth(t, n) \in Nat
<1>1. IsFiniteSet(1..n)
  BY FS_Interval
<1>2. Around(t, n) \subseteq 1..n
  BY DEF Around
<1>3. IsFiniteSet(Around(t, n))
  BY <1>1, <1>2, FS_Subset
<1>4. QED
  BY <1>3, FS_CardinalityType DEF Depth

\* The depth of a value is decided by what comes before it.
LEMMA DepthKept ==
  ASSUME NEW t, NEW u, NEW n \in Nat, \A m \in 1..n : t[m] = u[m]
  PROVE  Depth(t, n) = Depth(u, n)
<1>1. ASSUME NEW c \in 1..n
      PROVE  c \in Around(t, n) <=> c \in Around(u, n)
  <2>1. \A m \in (c + 1)..n : t[m] = u[m]
    OBVIOUS
  <2>2. QED
    BY <2>1 DEF Around
<1>2. Around(t, n) \subseteq 1..n /\ Around(u, n) \subseteq 1..n
  BY DEF Around
<1>3. Around(t, n) = Around(u, n)
  BY <1>1, <1>2
<1>4. QED
  BY <1>3 DEF Depth

LEMMA FitKept ==
  ASSUME NEW t, NEW u, NEW n \in Nat, \A m \in 1..n : t[m] = u[m], NEW kinds,
         Fit(t, n, kinds)
  PROVE  Fit(u, n, kinds)
<1> SUFFICES ASSUME NEW m \in 1..n
             PROVE  u[m].kind \in Containers \cup kinds /\ Depth(u, m) <= MaxDepth
  BY DEF Fit
<1>1. \A k \in 1..m : t[k] = u[k]
  OBVIOUS
<1>2. Depth(t, m) = Depth(u, m)
  BY <1>1, DepthKept
<1>3. QED
  BY <1>2 DEF Fit

LEMMA FitNext ==
  ASSUME Placed, pos > 0 <=> open # <<>>, Look, NEW kinds, pos > 0 => Fit(tree, pos, kinds),
         tree'[pos + 1].kind \in Containers \cup kinds, Len(open) < MaxDepth
  PROVE  Fit(tree', pos + 1, kinds)
<1>1. /\ pos \in Nat /\ pos <= Len(tree) /\ Len(tree) \in Nat /\ Len(open) \in Nat
      /\ \A m \in 1..Len(tree) : tree'[m] = tree[m]
  BY Looked DEF Placed, SourceShape
<1>2. Fit(tree', pos, kinds)
  <2>1. CASE pos = 0
    BY <1>1, <2>1 DEF Fit
  <2>2. CASE pos > 0
    <3>1. \A m \in 1..pos : tree[m] = tree'[m]
      BY <1>1
    <3>2. QED
      BY <1>1, <2>2, <3>1, FitKept
  <2>3. QED
    BY <1>1, <2>1, <2>2
<1>3. Depth(tree', pos + 1) <= MaxDepth
  <2>1. Depth(tree', pos + 1) = Len(open) + 1
    BY DepthOfNext
  <2>2. MaxDepth \in Nat
    BY SourceAssumption DEF SourceAssumption
  <2>3. QED
    BY <1>1, <2>1, <2>2
<1>4. \A m \in 1..(pos + 1) : m \in 1..pos \/ m = pos + 1
  BY <1>1
<1>5. QED
  BY <1>2, <1>3, <1>4 DEF Fit

\* A source of which every value is fit is sound.
LEMMA FitIsSound ==
  ASSUME NEW t \in Seq(Values), Fit(t, Len(t), Plain)
  PROVE  \A n \in DOMAIN t :
            /\ t[n].kind \notin {"badnumber", "badtoken", "strange", "torn", "bigint", "huge"}
            /\ ~(Depth(t, n) > MaxDepth)
<1> SUFFICES ASSUME NEW n \in DOMAIN t
             PROVE  /\ t[n].kind \notin {"badnumber", "badtoken", "strange", "torn",
                                          "bigint", "huge"}
                    /\ ~(Depth(t, n) > MaxDepth)
  OBVIOUS
<1>1. n \in 1..Len(t) /\ n \in Nat /\ MaxDepth \in Nat
  BY SourceAssumption DEF SourceAssumption
<1>2. t[n].kind \in Containers \cup Plain /\ Depth(t, n) <= MaxDepth /\ Depth(t, n) \in Nat
  BY <1>1, DepthType DEF Fit
<1>3. QED
  BY <1>1, <1>2 DEF Containers, Plain

\* What the validation has left behind a later pass finds again.
LEMMA ValidatedKept ==
  ASSUME Placed, Validated, Look, pos > 0 <=> open # <<>>, op' = op, stage' = stage
  PROVE  Validated' /\ (op = "select" /\ stage = "ready" => tree' = tree)
<1> SUFFICES ASSUME op = "select", stage = "ready"
             PROVE  Validated' /\ tree' = tree
  BY DEF Validated
<1>1. whole /\ tree # <<>> /\ RootAccepted(tree[1].kind) /\ Fit(tree, Len(tree), Plain)
  BY DEF Validated
<1>2. tree' = tree /\ whole' /\ tail' = tail
  BY <1>1 DEF Look
<1>3. RootAccepted(tree[1].kind)'
  BY <1>1, <1>2 DEF RootAccepted
<1>4. QED
  BY <1>1, <1>2, <1>3 DEF Validated

LEMMA ValidatedSame ==
  ASSUME Validated, UNCHANGED <<tree, tail, op, stage>>, whole => whole'
  PROVE  Validated'
BY DEF Validated, RootAccepted

LEMMA RootIsOpen ==
  ASSUME SourceShape, pos = 0
  PROVE  open = <<>>
BY EmptySeq, ElementOfSeq DEF SourceShape

\* A pass returns with a verdict that is earned.
LEMMA Earned ==
  ASSUME reader' = "none", op' = op, tree' \in Seq(Values),
         stage' = "ready" /\ op # "decode" /\ status'.code \in Good =>
           whole' /\ Untorn' /\ Fit(tree', Len(tree'), Plain),
         status'.code = "malformed" =>
           (Malformed \/ DeeperThan(MaxDepth) \/ ~Untorn \/ (Unopened /\ OutOfRange))',
         status'.code = "number_out_of_range" =>
           (OutOfRange \/ (op = "decode" /\ Holds({"badnumber"})))',
         stage' = "ready" /\ op = "select" =>
           status'.code \notin {"malformed", "number_out_of_range"}
  PROVE  VerdictIsEarned' /\ OpenedIsReadable'
<1>1. Fit(tree', Len(tree'), Plain) => (~Malformed /\ ~OutOfRange /\ ~DeeperThan(MaxDepth))'
  BY FitIsSound DEF Malformed, OutOfRange, DeeperThan, Holds
<1>2. VerdictIsEarned'
  BY <1>1 DEF VerdictIsEarned, Answered, Good
<1>3. OpenedIsReadable'
  BY DEF OpenedIsReadable, Answered
<1>4. QED
  BY <1>2, <1>3

-----------------------------------------------------------------------------
(* The steps before a document is open. *)

LEMMA InitInvariant == Init => IInv
<1> SUFFICES ASSUME Init PROVE IInv
  OBVIOUS
<1> USE DEF Init, SourceInit, ProjectionInit, DecodeInit
<1>1. Placed
  <2>1. SourceShape
    <3>1. tree \in Seq(Values) /\ open \in Seq(1..pos) /\ Len(tree) = 0
      BY EmptySeq
    <3>2. pos = 0 /\ whole \in BOOLEAN /\ tail \in Tails /\ MaxValues \in Nat
      BY SourceAssumption DEF SourceAssumption
    <3> HIDE DEF Init, SourceInit, ProjectionInit, DecodeInit
    <3>3. QED
      BY <3>1, <3>2 DEF SourceShape
  <2>2. InOrder(tree)
    BY DEF InOrder
  <2>3. Nested /\ Ahead
    BY DEF Nested, Ahead
  <2>4. QED
    BY <2>1, <2>2, <2>3 DEF Placed
<1>2. stage \in {"plan", "open"}
  OBVIOUS
<1>3. Flow
  BY <1>2, OperationAssumption DEF Flow, OperationAssumption
<1>4. Marked
  BY EmptySeq DEF Marked, Good, Ok
<1>5. Passing /\ Validated /\ VerdictIsEarned /\ OpenedIsReadable
  BY <1>2 DEF Passing, Validated, VerdictIsEarned, OpenedIsReadable, Answered
<1>6. QED
  BY <1>1, <1>3, <1>4, <1>5 DEF IInv

\* Nothing of the source and of the projection changes.
LEMMA PlacedSame ==
  ASSUME Placed, UNCHANGED <<source, reader>>
  PROVE  Placed'
BY DEF Placed, SourceShape, InOrder, Nested, Ahead, source

LEMMA MarkedSame ==
  ASSUME Marked, UNCHANGED <<plan, reader, open, marks, pending>>
  PROVE  Marked'
BY DEF Marked, MarkShape

LEMMA StepMakePlan == IInv /\ MakePlan => IInv'
<1> SUFFICES ASSUME IInv, MakePlan PROVE IInv'
  OBVIOUS
<1>1. /\ UNCHANGED <<tree, pos, open, whole, tail, reader, claimed, marks, pending, consumed>>
      /\ UNCHANGED <<op, calls>> /\ stage = "plan"
      /\ (UNCHANGED status /\ stage' \in {"plan", "open"}) \/ stage' = "over"
  BY DEF MakePlan, source, engineVars, projectionVars, decodeVars
<1>2. reader = "none" /\ tree = <<>> /\ pos = 0 /\ open = <<>>
  BY <1>1 DEF IInv, Flow
<1>3. Placed'
  BY <1>1, PlacedSame DEF IInv, source
<1>4. Flow'
  BY <1>1, <1>2 DEF IInv, Flow
<1>5. Marked'
  <2>1. marks = <<>>
    BY <1>2, EmptySeq DEF IInv, Marked
  <2>2. QED
    BY <1>1, <1>2, <2>1, EmptySeq DEF IInv, Marked
<1>6. Passing' /\ Validated' /\ VerdictIsEarned' /\ OpenedIsReadable'
  BY <1>1, <1>2 DEF Passing, Validated, VerdictIsEarned, OpenedIsReadable, Answered
<1>7. QED
  BY <1>3, <1>4, <1>5, <1>6 DEF IInv

LEMMA StepOpenDocument == IInv /\ OpenDocument => IInv'
<1> SUFFICES ASSUME IInv, OpenDocument PROVE IInv'
  OBVIOUS
<1>1. /\ UNCHANGED <<tree, pos, open, whole, tail, claimed, marks, pending, consumed>>
      /\ UNCHANGED <<plan, op, calls>> /\ stage = "open" /\ reader = "none"
      /\ \/ stage' = "over" /\ reader' = "none"
         \/ op = "select" /\ reader' = "validation" /\ UNCHANGED <<status, stage>>
         \/ op # "select" /\ stage' = "ready" /\ UNCHANGED <<status, reader>>
  BY DEF OpenDocument, source, planVars, engineVars, projectionVars, decodeVars
<1>2. tree = <<>> /\ pos = 0 /\ open = <<>> /\ calls = 0
  BY <1>1 DEF IInv, Flow
<1>3. Placed'
  BY <1>1, <1>2, PlacedAtRest DEF IInv, Placed, SourceShape
<1>4. Flow'
  BY <1>1, <1>2 DEF IInv, Flow
<1>5. Marked'
  BY <1>1 DEF IInv, Marked, MarkShape
<1>6. Passing' /\ Validated' /\ VerdictIsEarned' /\ OpenedIsReadable'
  BY <1>1, <1>2 DEF IInv, Passing, Validated, VerdictIsEarned, OpenedIsReadable, Answered
<1>7. QED
  BY <1>3, <1>4, <1>5, <1>6 DEF IInv

\* The validation is over: what follows when the place is kept.
LEMMA AfterValidation ==
  ASSUME IInv, Validating, tree' \in Seq(Values), tree' # <<>>, Placed',
         open' = <<>>, reader' = "none", stage' \in {"over", "ready"},
         stage' = "ready" => /\ pos' = 0 /\ whole' /\ status' = Ok
                             /\ RootAccepted(tree[1].kind)'
                             /\ Fit(tree', Len(tree'), Plain),
         status'.code = "malformed" =>
           (Malformed \/ OutOfRange \/ DeeperThan(MaxDepth) \/ ~Untorn)',
         status'.code \in {"ok", "malformed", "out_of_memory"}
  PROVE  IInv'
<1>1. /\ UNCHANGED <<plan, claimed, marks, pending, consumed, op, calls>>
      /\ reader = "validation"
  BY DEF Validating, planVars, engineVars, projectionVars, decodeVars
<1>2. op = "select" /\ stage = "open" /\ calls = 0
  BY <1>1 DEF IInv, Flow
<1>3. Flow'
  BY <1>1, <1>2 DEF IInv, Flow
<1>4. Marked'
  <2>1. Len(open) \in Nat /\ Len(<<>>) = 0
    BY EmptySeq DEF IInv, Placed, SourceShape
  <2>2. QED
    BY <1>1, <2>1 DEF IInv, Marked, MarkShape
<1>5. Passing'
  BY DEF Passing
<1>6. Validated'
  BY DEF Validated
<1>7. ~Answered'
  BY <1>1, <1>2 DEF Answered
<1>a. status'.code = "malformed" => Unopened'
  BY DEF Unopened, Ok
<1>8. VerdictIsEarned'
  BY <1>7, <1>a DEF VerdictIsEarned
<1>9. OpenedIsReadable'
  BY <1>7 DEF OpenedIsReadable
<1>10. QED
  BY <1>3, <1>4, <1>5, <1>6, <1>8, <1>9 DEF IInv

LEMMA StepValidateRoot == IInv /\ ValidateRoot => IInv'
<1> SUFFICES ASSUME IInv, ValidateRoot PROVE IInv'
  OBVIOUS
<1> DEFINE kind == tree'[1].kind
<1>1. /\ Validating /\ pos = 0 /\ Look /\ Placed
      /\ UNCHANGED <<plan, claimed, marks, pending, consumed, op, calls>>
      /\ reader = "validation"
      /\ \/ /\ ~RootAccepted(kind) \/ ~(kind \in Containers \/ TokenValid(kind))
            /\ Invalid /\ pos' = 1
         \/ /\ RootAccepted(kind) /\ TokenValid(kind)
            /\ Publish
         \/ /\ RootAccepted(kind) /\ kind \in Containers
            /\ pos' = 1 /\ Descend /\ Continue /\ UNCHANGED stage
  BY DEF IInv, ValidateRoot, AtRoot, Validating, planVars, engineVars, projectionVars,
         decodeVars
<1>2. open = <<>> /\ op = "select" /\ stage = "open"
  BY <1>1, RootIsOpen DEF IInv, Placed, Flow
<1>3. /\ tree' \in Seq(Values) /\ 1 \in 1..Len(tree') /\ tail' = tail
      /\ Len(tree') \in Nat /\ DOMAIN tree' = 1..Len(tree') /\ tree' # <<>>
  <2>1. tree' \in Seq(Values) /\ pos + 1 \in 1..Len(tree') /\ tail' = tail
    BY <1>1, <1>2, Looked
  <2>2. QED
    BY <1>1, <2>1, EmptySeq
<1>4. kind \in Containers \cup Leaves \cup {"torn"}
  BY <1>3, ValueShape
<1>a. (RootAccepted(tree[1].kind))' = RootAccepted(kind)
  BY <1>3 DEF RootAccepted
<1>5. CASE /\ ~RootAccepted(kind) \/ ~(kind \in Containers \/ TokenValid(kind))
           /\ Invalid /\ pos' = 1
  <2>1. /\ open' = <<>> /\ reader' = "none" /\ stage' = "over"
        /\ status' = [code |-> "malformed", slot |-> NoSlot]
    BY <1>5 DEF Invalid, Fail, Return
  <2>2. Placed'
    BY <1>1, <1>5, <2>1, PlacedAfterRoot
  <2>3. (Malformed \/ OutOfRange \/ ~Untorn)'
    <3>1. CASE ~RootAccepted(kind)
      BY <1>1, <1>2, <1>a, <3>1 DEF Untorn, Rows
    <3>2. CASE ~(kind \in Containers \/ TokenValid(kind))
      <4>1. kind \in {"badnumber", "badtoken", "strange", "torn", "bigint", "huge"}
        BY <1>4, <3>2 DEF TokenValid, Error, Leaves, Containers
      <4>2. QED
        BY <1>3, <4>1 DEF Malformed, OutOfRange, Holds
    <3>3. QED
      BY <1>5, <3>1, <3>2
  <2>4. QED
    BY <1>1, <1>3, <2>1, <2>2, <2>3, AfterValidation
<1>6. CASE RootAccepted(kind) /\ TokenValid(kind) /\ Publish
  <2>1. /\ open' = <<>> /\ reader' = "none" /\ pos' = 0
        /\ \/ status' = Ok /\ stage' = "ready"
           \/ status' = [code |-> "out_of_memory", slot |-> NoSlot] /\ stage' = "over"
    BY <1>6 DEF Publish, Fail, Return
  <2>2. Placed'
    BY <1>1, <2>1, PlacedAfterRoot
  <2>3. kind \in Plain /\ kind \notin Containers
    BY <1>6 DEF TokenValid, Error, Leaves, Containers, Plain
  <2>4. Len(tree') = 1 /\ whole'
    BY <1>1, <2>3, RootAlone
  <2>5. Fit(tree', Len(tree'), Plain)
    <3>1. Len(open) < MaxDepth /\ pos + 1 = 1
      BY <1>1, <1>2, EmptySeq, SourceAssumption DEF SourceAssumption
    <3>2. Fit(tree', pos + 1, Plain)
      BY <1>1, <1>2, <2>3, <3>1, FitNext
    <3>3. QED
      BY <2>4, <3>1, <3>2
  <2>6. QED
    BY <1>1, <1>3, <1>6, <1>a, <2>1, <2>2, <2>4, <2>5, AfterValidation DEF Ok
<1>7. CASE /\ RootAccepted(kind) /\ kind \in Containers
           /\ pos' = 1 /\ Descend /\ Continue /\ UNCHANGED stage
  <2>1. /\ open' = Append(open, pos') /\ UNCHANGED <<reader, status, stage>>
        /\ Fetch
    BY <1>1, <1>7 DEF Descend, Continue, Fetch
  <2>2. Placed'
    BY <1>1, <1>2, <1>7, <2>1, PlacedAfterFetch
  <2>3. open' # <<>>
    BY <2>1, <1>2
  <2>4. Flow'
    BY <1>1, <1>2, <2>1, <2>3 DEF IInv, Flow
  <2>5. Marked'
    BY <1>1, <2>1 DEF IInv, Marked, MarkShape
  <2>6. Passing'
    <3>1. Len(open) < MaxDepth /\ pos + 1 = 1
      BY <1>1, <1>2, EmptySeq, SourceAssumption DEF SourceAssumption
    <3>2. Fit(tree', pos + 1, Plain)
      BY <1>1, <1>2, <1>7, <3>1, FitNext
    <3>3. Untorn'
      BY <1>7, <1>a DEF Untorn
    <3>4. QED
      BY <1>7, <3>1, <3>2, <3>3 DEF Passing
  <2>7. Validated' /\ VerdictIsEarned' /\ OpenedIsReadable'
    BY <1>1, <1>2, <2>1 DEF Validated, VerdictIsEarned, OpenedIsReadable, Answered
  <2>8. QED
    BY <2>2, <2>4, <2>5, <2>6, <2>7 DEF IInv
<1>8. QED
  BY <1>1, <1>5, <1>6, <1>7

LEMMA StepValidateValue == IInv /\ ValidateValue => IInv'
<1> SUFFICES ASSUME IInv, ValidateValue PROVE IInv'
  OBVIOUS
<1> DEFINE kind == tree'[pos'].kind
<1>1. /\ Validating /\ pos # 0 /\ Fetch /\ Look /\ pos' = pos + 1 /\ Placed
      /\ UNCHANGED <<plan, claimed, marks, pending, consumed, op, calls>>
      /\ reader = "validation"
      /\ \/ /\ Len(open) >= MaxDepth \/ ~(kind \in Containers \/ TokenValid(kind))
            /\ Invalid
         \/ /\ Len(open) < MaxDepth /\ TokenValid(kind)
            /\ Continue /\ UNCHANGED <<open, stage>>
         \/ /\ Len(open) < MaxDepth /\ kind \in Containers
            /\ Descend /\ Continue /\ UNCHANGED stage
  BY DEF IInv, ValidateValue, AtRoot, Validating, planVars, engineVars, projectionVars,
         decodeVars, Fetch
<1>2. /\ pos \in Nat /\ pos > 0 /\ open # <<>> /\ op = "select" /\ stage = "open"
      /\ Len(open) \in Nat /\ MaxDepth \in Nat
  BY <1>1, SourceAssumption DEF IInv, Placed, SourceShape, Flow, SourceAssumption
<1>3. /\ tree' \in Seq(Values) /\ pos' \in 1..Len(tree') /\ tail' = tail
      /\ DOMAIN tree' = 1..Len(tree') /\ tree' # <<>> /\ pos \in 1..Len(tree)
      /\ tree'[1] = tree[1]
  <2>1. /\ tree' \in Seq(Values) /\ pos + 1 \in 1..Len(tree') /\ tail' = tail
        /\ \A m \in 1..Len(tree) : tree'[m] = tree[m]
    BY <1>1, <1>2, Looked
  <2>2. pos \in 1..Len(tree) /\ 1 \in 1..Len(tree)
    BY <1>1, <1>2 DEF Placed, SourceShape
  <2>3. QED
    BY <1>1, <2>1, <2>2, EmptySeq
<1>4. kind \in Containers \cup Leaves \cup {"torn"} /\ pos' \in DOMAIN tree'
  BY <1>3, ValueShape
<1>5. Fit(tree, pos, Plain) /\ RootAccepted(tree[1].kind)
  BY <1>1, <1>2 DEF IInv, Passing, Untorn, Rows
<1>6. CASE /\ Len(open) >= MaxDepth \/ ~(kind \in Containers \/ TokenValid(kind))
           /\ Invalid
  <2>1. /\ open' = <<>> /\ reader' = "none" /\ stage' = "over"
        /\ status' = [code |-> "malformed", slot |-> NoSlot]
    BY <1>6 DEF Invalid, Fail, Return
  <2>2. Placed'
    BY <1>1, <1>2, <2>1, PlacedAfterFetch
  <2>3. (Malformed \/ OutOfRange \/ DeeperThan(MaxDepth))'
    <3>1. CASE Len(open) >= MaxDepth
      <4>1. Depth(tree', pos + 1) = Len(open) + 1
        BY <1>1, <1>2, DepthOfNext
      <4>2. Depth(tree', pos') > MaxDepth
        BY <1>1, <1>2, <3>1, <4>1
      <4>3. QED
        BY <1>4, <4>2 DEF DeeperThan
    <3>2. CASE ~(kind \in Containers \/ TokenValid(kind))
      <4>1. kind \in {"badnumber", "badtoken", "strange", "torn", "bigint", "huge"}
        BY <1>4, <3>2 DEF TokenValid, Error, Leaves, Containers
      <4>2. QED
        BY <1>4, <4>1 DEF Malformed, OutOfRange, Holds
    <3>3. QED
      BY <1>6, <3>1, <3>2
  <2>4. QED
    BY <1>1, <1>3, <2>1, <2>2, <2>3, AfterValidation
<1>7. ASSUME \/ TokenValid(kind) /\ open' = open
             \/ kind \in Containers /\ open' = Append(open, pos'),
             Len(open) < MaxDepth, Continue, stage' = stage
      PROVE  IInv'
  <2>1. UNCHANGED <<reader, status>> /\ kind \in Containers \cup Plain
        /\ (TokenValid(kind) => kind \notin Containers)
    BY <1>7 DEF Continue, TokenValid, Error, Leaves, Containers, Plain
  <2>2. Placed'
    BY <1>1, <1>2, <1>7, <2>1, PlacedAfterFetch
  <2>3. open' # <<>>
    BY <1>2, <1>7 DEF IInv, Placed, SourceShape
  <2>4. Flow'
    BY <1>1, <1>2, <1>7, <2>1, <2>3 DEF IInv, Flow
  <2>5. Marked'
    BY <1>1, <2>1 DEF IInv, Marked, MarkShape
  <2>6. Passing'
    <3>1. Fit(tree', pos + 1, Plain)
      BY <1>1, <1>2, <1>5, <1>7, <2>1, FitNext
    <3>2. Untorn'
      BY <1>3, <1>5 DEF Untorn, RootAccepted
    <3>3. QED
      BY <1>1, <3>1, <3>2 DEF Passing
  <2>7. Validated' /\ VerdictIsEarned' /\ OpenedIsReadable'
    BY <1>1, <1>2, <1>7, <2>1 DEF Validated, VerdictIsEarned, OpenedIsReadable, Answered
  <2>8. QED
    BY <2>2, <2>4, <2>5, <2>6, <2>7 DEF IInv
<1>8. QED
  BY <1>1, <1>6, <1>7 DEF Descend

LEMMA StepValidateEnd == IInv /\ ValidateEnd => IInv'
<1> SUFFICES ASSUME IInv, ValidateEnd PROVE IInv'
  OBVIOUS
<1>1. /\ Validating /\ Exhausted /\ Placed /\ UNCHANGED <<tree, tail>>
      /\ UNCHANGED <<plan, claimed, marks, pending, consumed, op, calls>>
      /\ reader = "validation" /\ open # <<>>
  BY DEF IInv, ValidateEnd, Validating, planVars, engineVars, projectionVars,
         decodeVars, Exhausted, Ascend
<1>2. /\ op = "select" /\ stage = "open" /\ pos \in 1..Len(tree) /\ tree \in Seq(Values)
      /\ tree # <<>> /\ open \in Seq(1..pos) /\ Len(open) \in Nat \ {0} /\ whole \in BOOLEAN
  BY <1>1, Beyond, EmptySeq DEF IInv, Placed, SourceShape, Flow
<1>3. Fit(tree, pos, Plain) /\ RootAccepted(tree[1].kind)
  BY <1>1, <1>2 DEF IInv, Passing, Untorn, Rows
<1>4. CASE Len(open) = 1
  <2>1. /\ open' = <<>> /\ reader' = "none" /\ pos' = 0 /\ whole'
        /\ \/ status' = Ok /\ stage' = "ready"
           \/ status' = [code |-> "out_of_memory", slot |-> NoSlot] /\ stage' = "over"
    BY <1>4 DEF ValidateEnd, Publish, Fail, Return
  <2>2. Placed'
    BY <1>1, <2>1, PlacedAtRest
  <2>3. pos = Len(tree)
    BY <1>1, <1>4, EndReached
  <2>4. Fit(tree', Len(tree'), Plain) /\ (RootAccepted(tree[1].kind))'
    BY <1>1, <1>3, <2>3 DEF RootAccepted
  <2>5. QED
    BY <1>1, <1>2, <2>1, <2>2, <2>4, AfterValidation DEF Ok
<1>5. CASE Len(open) # 1
  <2>1. /\ open' = Front(open) /\ UNCHANGED <<pos, reader, status, stage>>
        /\ whole' \in BOOLEAN
    BY <1>2, <1>5 DEF ValidateEnd, Ascend, Continue
  <2>2. Placed'
    BY <1>1, <2>1, PlacedAfterEnd
  <2>3. Len(open') = Len(open) - 1
    BY <1>1, <1>2, <2>1, FrontAndLast
  <2>a. open' # <<>>
    BY <1>2, <1>5, <2>3, EmptySeq
  <2>4. Flow'
    BY <1>1, <1>2, <2>1, <2>a DEF IInv, Flow
  <2>5. Marked'
    BY <1>1, <2>1 DEF IInv, Marked, MarkShape
  <2>6. Passing'
    BY <1>1, <1>3, <2>1 DEF Passing, Untorn, RootAccepted
  <2>7. Validated' /\ VerdictIsEarned' /\ OpenedIsReadable'
    BY <1>1, <1>2, <2>1 DEF Validated, VerdictIsEarned, OpenedIsReadable, Answered
  <2>8. QED
    BY <2>2, <2>4, <2>5, <2>6, <2>7 DEF IInv
<1>6. QED
  BY <1>4, <1>5

-----------------------------------------------------------------------------
(* The calls on an open document. *)

LEMMA StepCall == IInv /\ Call => IInv'
<1> SUFFICES ASSUME IInv, Call PROVE IInv'
  OBVIOUS
<1>1. /\ stage = "ready" /\ reader = "none" /\ calls' = calls + 1
      /\ UNCHANGED <<plan, op, stage>>
      /\ \/ op \in {"select", "binary"} /\ Execute /\ UNCHANGED consumed
         \/ op \in Rows /\ calls < Executions /\ ExecuteValue /\ UNCHANGED consumed
         \/ op = "decode" /\ (CreateMaterializer \/ ExecuteDecode)
                          /\ UNCHANGED <<claimed, marks, pending>>
  BY DEF Call, planVars, decodeVars, projectionVars
<1>2. /\ open = <<>> /\ calls \in Nat /\ claimed \in BOOLEAN /\ consumed \in BOOLEAN
      /\ claimed => op \in {"select", "binary"}
      /\ consumed => op = "decode"
      /\ pos = 0 \/ claimed \/ consumed \/ (op \in Rows /\ calls > 0)
      /\ op \in Operations
  BY <1>1 DEF IInv, Flow
<1>a. op \in Rows /\ calls < Executions => calls = 0
  BY <1>2 DEF Executions, Rows
<1>3. /\ UNCHANGED <<tree, pos, open, whole, tail, marks, pending>>
      /\ \/ /\ reader' = "none" /\ claimed' = claimed /\ consumed' = consumed
            /\ status'.code \in {"cancelled", "out_of_memory", "cursor_consumed",
                                  "invalid_argument"}
         \/ /\ reader' = "projection" /\ op \in {"select", "binary"} /\ ~claimed /\ claimed'
            /\ claimed' \in BOOLEAN /\ consumed' = consumed
         \/ /\ reader' = "projection" /\ op \in Rows /\ calls = 0
            /\ claimed' = claimed /\ consumed' = consumed
         \/ /\ reader' = "materializer" /\ op = "decode" /\ ~consumed /\ consumed'
            /\ consumed' \in BOOLEAN /\ claimed' = claimed
  <2>1. CASE op \in {"select", "binary"} /\ Execute /\ UNCHANGED consumed
    <3>1. UNCHANGED <<tree, pos, open, whole, tail, marks, pending>>
      BY <2>1 DEF Execute, source
    <3>2. CASE /\ \/ status' = [code |-> "cancelled", slot |-> NoSlot]
                  \/ status' = [code |-> "out_of_memory", slot |-> NoSlot]
                  \/ status' = [code |-> "cursor_consumed", slot |-> NoSlot]
               /\ UNCHANGED <<reader, claimed>>
      <4>1. status'.code \in {"cancelled", "out_of_memory", "cursor_consumed"}
        BY <3>2
      <4>2. QED
        BY <1>1, <2>1, <3>1, <3>2, <4>1
    <3>3. CASE Unclaimed /\ claimed' = TRUE /\ reader' = "projection" /\ status' = Ok
      BY <1>1, <2>1, <3>1, <3>3 DEF Unclaimed
    <3>4. QED
      BY <2>1, <3>2, <3>3 DEF Execute
  <2>2. CASE op \in Rows /\ calls < Executions /\ ExecuteValue /\ UNCHANGED consumed
    BY <1>1, <1>a, <2>2 DEF ExecuteValue, source
  <2>3. CASE op = "decode" /\ CreateMaterializer /\ UNCHANGED <<claimed, marks, pending>>
    BY <1>1, <1>2, <2>3 DEF CreateMaterializer, FailDecode, Fail, Return
  <2>4. CASE op = "decode" /\ ExecuteDecode /\ UNCHANGED <<claimed, marks, pending>>
    <3>1. UNCHANGED <<tree, pos, open, whole, tail, marks, pending, claimed>>
      BY <2>4 DEF ExecuteDecode, source
    <3>2. CASE /\ \/ \E code \in {"out_of_memory", "cancelled"} :
                       status' = [code |-> code, slot |-> NoSlot]
                  \/ status' = [code |-> "cursor_consumed", slot |-> NoSlot]
               /\ UNCHANGED <<reader, consumed>>
      <4>1. status'.code \in {"cancelled", "out_of_memory", "cursor_consumed"}
        BY <3>2
      <4>2. QED
        BY <1>1, <3>1, <3>2, <4>1
    <3>3. CASE ~consumed /\ consumed' = TRUE /\ reader' = "materializer" /\ status' = Ok
      BY <2>4, <3>1, <3>3
    <3>4. QED
      BY <2>4, <3>2, <3>3 DEF ExecuteDecode
  <2>5. QED
    BY <1>1, <2>1, <2>2, <2>3, <2>4
<1>4. reader' # "none" => pos = 0
  BY <1>2, <1>3 DEF Rows
<1>5. Placed'
  BY <1>2, <1>3, <1>4, PlacedAtRest DEF IInv, Placed, SourceShape
<1>6. Flow'
  BY <1>1, <1>2, <1>3, <1>4 DEF IInv, Flow, Rows
<1>7. Marked'
  BY <1>1, <1>2, <1>3, EmptySeq DEF IInv, Marked, MarkShape
<1>8. Passing'
  BY <1>3, <1>4 DEF Passing, Placed, SourceShape
<1>9. Validated'
  BY <1>1, <1>3, ValidatedSame DEF IInv
<1>10. VerdictIsEarned' /\ OpenedIsReadable'
  BY <1>3 DEF VerdictIsEarned, OpenedIsReadable, Answered, PathFailures
<1>11. QED
  BY <1>5, <1>6, <1>7, <1>8, <1>9, <1>10 DEF IInv

-----------------------------------------------------------------------------
(* The projection. *)

LEMMA ScalarStatuses ==
  ASSUME NEW kind \in Leaves
  PROVE  /\ ScalarStatus(kind) \in {"ok", "number_out_of_range", "malformed"}
         /\ ScalarStatus(kind) = "ok" <=> kind \in Plain
         /\ ScalarStatus(kind) = "number_out_of_range" => kind \in {"bigint", "huge"}
         /\ ScalarStatus(kind) = "malformed" => kind \in {"badnumber", "badtoken", "strange"}
         /\ kind \notin Containers
BY DEF ScalarStatus, BeyondRange, ProjectionCode, Error, ValidJsonNumberSyntax, Leaves, Plain,
       Containers

LEMMA RecordedCode ==
  ASSUME NEW p, NEW code, NEW slot
  PROVE  RecordPathFailure(p, code, slot).code \in {p.code, code}
BY DEF RecordPathFailure

LEMMA PathCodes ==
  ASSUME NEW p, p.code \in Good, NEW node, NEW kind, NEW wanted
  PROVE  /\ Enter(p, node, kind).code \in Good
         /\ EnterScalar(p, node).code \in Good
         /\ LeaveObject(p, node).code \in Good
         /\ LeaveArray(p, node, wanted).code \in Good
<1>1. "incorrect_type" \in Good /\ "missing_field" \in Good /\ "index_out_of_bounds" \in Good
  BY DEF Good, PathFailures
<1>2. \A q, slot : q.code \in Good =>
        /\ RecordPathFailure(q, "incorrect_type", slot).code \in Good
        /\ RecordPathFailure(q, "missing_field", slot).code \in Good
        /\ RecordPathFailure(q, "index_out_of_bounds", slot).code \in Good
  BY <1>1 DEF RecordPathFailure
<1>3. EnterObject(p, node).code \in Good /\ EnterArray(p, node).code \in Good
  BY <1>2 DEF EnterObject, EnterArray
<1>4. Enter(p, node, kind).code \in Good
  BY <1>3 DEF Enter
<1>5. EnterScalar(p, node).code \in Good
  BY <1>2 DEF EnterScalar
<1>6. LeaveObject(p, node).code \in Good
  BY <1>2 DEF LeaveObject
<1>7. LeaveArray(p, node, wanted).code \in Good
  BY <1>2 DEF LeaveArray
<1>8. QED
  BY <1>4, <1>5, <1>6, <1>7

\* A pass that concludes returns what it remembers, or success, or a defect.
LEMMA Concluded ==
  ASSUME NEW p, NEW filled, p.code \in Good, Conclude(p, filled)
  PROVE  /\ open' = <<>> /\ reader' = "none" /\ marks' = <<>> /\ pending' = Ok
         /\ status'.code \in Good \cup {"internal_failure"}
BY DEF Conclude, Finish, FailProjection, Return, Good, Ok

LEMMA FailedProjection ==
  ASSUME NEW code, NEW slot, FailProjection(code, slot)
  PROVE  /\ open' = <<>> /\ reader' = "none" /\ marks' = <<>> /\ pending' = Ok
         /\ status'.code = code
BY DEF FailProjection, Finish, Return

LEMMA MovedMark ==
  ASSUME NEW S, NEW m \in [node : S, wanted : Nat, index : Nat], NEW b \in BOOLEAN
  PROVE  [m EXCEPT !.index = @ + 1, !.wanted = IF b THEN @ + 1 ELSE @]
           \in [node : S, wanted : Nat, index : Nat]
<1>1. m.index + 1 \in Nat /\ (IF b THEN m.wanted + 1 ELSE m.wanted) \in Nat
  OBVIOUS
<1>2. QED
  BY <1>1, Zenon

LEMMA AdvancedShape ==
  ASSUME marks \in Seq(MarkShape), marks # <<>>, NEW selected
  PROVE  Advanced(selected) \in Seq(MarkShape) /\ Len(Advanced(selected)) = Len(marks)
<1>1. /\ Front(marks) \in Seq(MarkShape) /\ Len(Front(marks)) = Len(marks) - 1
      /\ Last(marks) \in MarkShape /\ Len(marks) \in Nat
  BY FrontAndLast
<1>2. Advance(Last(marks), selected) \in MarkShape
  <2> DEFINE m == Last(marks)
             S == {0, 1} \cup DOMAIN plan.nodes
             b == selected # 0 /\ ~InObject
  <2>1. m \in [node : S, wanted : Nat, index : Nat] /\ b \in BOOLEAN
    BY <1>1 DEF MarkShape
  <2>2. Advance(m, selected) = [m EXCEPT !.index = @ + 1,
                                         !.wanted = IF b THEN @ + 1 ELSE @]
    BY DEF Advance
  <2> HIDE DEF m, S, b
  <2>3. Advance(m, selected) \in [node : S, wanted : Nat, index : Nat]
    BY <2>1, <2>2, MovedMark, Zenon
  <2>4. QED
    BY <2>3 DEF MarkShape, m, S
<1>3. QED
  BY <1>1, <1>2 DEF Advanced

\* What is known while a projection reads.
LEMMA WhileProjecting ==
  ASSUME IInv, reader = "projection"
  PROVE  /\ Placed /\ stage = "ready" /\ op \in Projections
         /\ marks \in Seq(MarkShape) /\ Len(marks) = Len(open) /\ Len(open) \in Nat
         /\ pending.code \in Good /\ pos \in Nat /\ MaxDepth \in Nat \ {0}
         /\ whole \in BOOLEAN /\ tree \in Seq(Values)
         /\ pos = 0 => open = <<>>
         /\ pos > 0 => Fit(tree, pos, Plain) /\ Untorn
         /\ open # <<>> <=> marks # <<>>
<1>1. /\ Placed /\ stage = "ready" /\ op \in Projections
      /\ marks \in Seq(MarkShape) /\ Len(marks) = Len(open)
      /\ pending.code \in Good
  BY DEF IInv, Flow, Marked, Operations, Projections
<1>2. /\ pos \in Nat /\ open \in Seq(1..pos) /\ Len(open) \in Nat /\ whole \in BOOLEAN
      /\ tree \in Seq(Values)
  BY <1>1 DEF Placed, SourceShape
<1>3. MaxDepth \in Nat \ {0}
  BY SourceAssumption DEF SourceAssumption
<1>4. pos = 0 => open = <<>>
  BY <1>1, RootIsOpen DEF Placed
<1>5. pos > 0 => Fit(tree, pos, Plain) /\ Untorn
  BY DEF IInv, Passing
<1>6. open # <<>> <=> marks # <<>>
  BY <1>1, <1>2, EmptySeq
<1>7. QED
  BY <1>1, <1>2, <1>3, <1>4, <1>5, <1>6

LEMMA WhileReading ==
  ASSUME IInv, reader = "projection", Fetch, pos > 0 <=> open # <<>>,
         op' = op, stage' = stage
  PROVE  /\ tree' \in Seq(Values) /\ tree' # <<>> /\ pos' = pos + 1
         /\ pos' \in DOMAIN tree' /\ tail' = tail
         /\ tree'[pos'].kind \in Containers \cup Leaves \cup {"torn"}
         /\ Validated' /\ (pos > 0 => Untorn')
         /\ Depth(tree', pos') = Len(open) + 1
         /\ op = "select" => /\ tree'[pos'].kind \in Containers \cup Plain
                             /\ Len(open) < MaxDepth
                             /\ (RootAccepted(tree[1].kind))'
<1>1. /\ Placed /\ stage = "ready" /\ pos \in Nat /\ MaxDepth \in Nat /\ Len(open) \in Nat
      /\ Look /\ pos' = pos + 1 /\ (pos > 0 => Untorn)
  BY WhileProjecting DEF Fetch
<1>2. /\ tree' \in Seq(Values) /\ pos + 1 \in 1..Len(tree') /\ tail' = tail
      /\ \A m \in 1..Len(tree) : tree'[m] = tree[m]
  BY <1>1, Looked
<1>3. tree' # <<>> /\ pos' \in DOMAIN tree' /\ DOMAIN tree' = 1..Len(tree')
  BY <1>1, <1>2, EmptySeq
<1>4. tree'[pos'].kind \in Containers \cup Leaves \cup {"torn"}
  BY <1>2, <1>3, ValueShape
<1>5. Validated' /\ (op = "select" => tree' = tree)
  BY <1>1, ValidatedKept DEF IInv
<1>6. ASSUME pos > 0
      PROVE  Untorn'
  <2>1. 1 \in 1..Len(tree)
    BY <1>1, <1>6 DEF Placed, SourceShape
  <2>2. tree'[1] = tree[1]
    BY <1>2, <2>1
  <2>3. QED
    BY <1>1, <1>2, <1>6, <2>2 DEF Untorn, RootAccepted
<1>7. Depth(tree', pos + 1) = Len(open) + 1
  BY <1>1, DepthOfNext
<1>8. ASSUME op = "select"
      PROVE  /\ tree'[pos'].kind \in Containers \cup Plain
             /\ Len(open) < MaxDepth
             /\ (RootAccepted(tree[1].kind))'
  <2>1. Fit(tree, Len(tree), Plain) /\ RootAccepted(tree[1].kind) /\ tree' = tree
    BY <1>1, <1>5, <1>8 DEF IInv, Validated
  <2>2. /\ tree[pos + 1].kind \in Containers \cup Plain
        /\ Depth(tree, pos + 1) <= MaxDepth
    BY <1>2, <2>1 DEF Fit
  <2>3. QED
    BY <1>1, <1>2, <1>7, <2>1, <2>2 DEF RootAccepted
<1>9. QED
  BY <1>1, <1>2, <1>3, <1>4, <1>5, <1>6, <1>7, <1>8

LEMMA GoesOn ==
  ASSUME IInv, reader = "projection",
         UNCHANGED <<plan, claimed, consumed, op, stage, calls, reader>>,
         Placed', Validated', Passing',
         marks' \in Seq(MarkShape), Len(marks') = Len(open'), pending'.code \in Good
  PROVE  IInv'
<1>1. Flow'
  BY DEF IInv, Flow
<1>2. Marked'
  BY DEF Marked, MarkShape
<1>3. VerdictIsEarned' /\ OpenedIsReadable'
  BY DEF VerdictIsEarned, OpenedIsReadable, Answered
<1>4. QED
  BY <1>1, <1>2, <1>3 DEF IInv

LEMMA Returns ==
  ASSUME IInv, reader = "projection",
         UNCHANGED <<plan, claimed, consumed, op, stage, calls>>,
         Placed', Validated',
         open' = <<>>, reader' = "none", marks' = <<>>, pending' = Ok, tree' \in Seq(Values),
         status'.code \in Good => whole' /\ Untorn' /\ Fit(tree', Len(tree'), Plain),
         status'.code = "malformed" => (Malformed \/ DeeperThan(MaxDepth) \/ ~Untorn)',
         status'.code = "number_out_of_range" => OutOfRange',
         op = "select" => status'.code \notin {"malformed", "number_out_of_range"}
  PROVE  IInv'
<1>a. /\ stage = "ready" /\ op # "decode" /\ (claimed \/ (op \in Rows /\ calls > 0))
      /\ op \in Operations
  BY DEF IInv, Flow
<1>b. claimed' \/ (op' \in Rows /\ calls' > 0)
  BY <1>a
<1>1. Flow'
  BY <1>a, <1>b DEF IInv, Flow
<1>2. Marked'
  BY EmptySeq DEF Marked, Good, Ok
<1>3. VerdictIsEarned' /\ OpenedIsReadable'
  BY Earned
<1>4. Passing'
  BY DEF Passing
<1>5. QED
  BY <1>1, <1>2, <1>3, <1>4 DEF IInv

LEMMA StepCancelProjection ==
  ASSUME IInv, CancelProjection, UNCHANGED <<plan, consumed, op, stage, calls>>
  PROVE  IInv'
<1>1. /\ reader = "projection" /\ claimed' = claimed /\ UNCHANGED <<tree, pos, whole, tail>>
      /\ open' = <<>> /\ reader' = "none" /\ marks' = <<>> /\ pending' = Ok
      /\ status'.code = "cancelled"
  BY FailedProjection DEF CancelProjection, Projecting
<1>2. Placed /\ whole \in BOOLEAN /\ tree \in Seq(Values)
  BY <1>1, WhileProjecting
<1>3. Placed'
  BY <1>1, <1>2, PlacedAtRest
<1>4. Validated'
  BY <1>1, ValidatedSame DEF IInv
<1>5. "cancelled" \notin Good
  BY DEF Good, PathFailures
<1>6. QED
  BY <1>1, <1>2, <1>3, <1>4, <1>5, Returns

\* The root, as a container ...
LEMMA StepEnterRoot ==
  ASSUME IInv, EnterRoot(op \in Rows),
         UNCHANGED <<plan, consumed, op, stage, calls>>
  PROVE  IInv'
<1> DEFINE kind == tree'[pos'].kind
<1>1. /\ reader = "projection" /\ claimed' = claimed /\ pos = 0 /\ Fetch /\ Look
      /\ kind \in Containers
  BY DEF EnterRoot, Projecting, AtRoot, Fetch
<1>2. /\ Placed /\ open = <<>> /\ op \in Projections /\ Len(open) = 0
      /\ pending.code \in Good /\ MaxDepth \in Nat \ {0} /\ marks \in Seq(MarkShape)
  BY <1>1, WhileProjecting, EmptySeq
<1>3. /\ tree' \in Seq(Values) /\ pos' = pos + 1 /\ Validated'
      /\ op = "select" => (RootAccepted(tree[1].kind))'
  BY <1>1, <1>2, WhileReading
<1>4. (RootAccepted(tree[1].kind))' = RootAccepted(kind)
  <2>1. tail' = tail
    BY <1>1 DEF Look
  <2>2. QED
    BY <1>1, <1>3, <2>1 DEF RootAccepted
<1>a. CASE ~(op \in Rows \/ RootAccepted(kind))
  <2>1. FailProjection("malformed", NoSlot)
    BY <1>a DEF EnterRoot, ProjectionCode
  <2>2. /\ open' = <<>> /\ reader' = "none" /\ marks' = <<>> /\ pending' = Ok
        /\ status'.code = "malformed"
    BY <2>1, FailedProjection
  <2>3. Placed'
    BY <1>1, <1>2, <2>2, PlacedAfterFetch
  <2>4. (~Untorn)' /\ op # "select"
    BY <1>3, <1>4, <1>a DEF Untorn
  <2>5. status'.code \notin Good
    BY <2>2 DEF Good, PathFailures
  <2>6. QED
    BY <1>1, <1>3, <2>2, <2>3, <2>4, <2>5, Returns
<1>5. SUFFICES ASSUME op \in Rows \/ RootAccepted(kind)
               PROVE  IInv'
  BY <1>a
<1>6. /\ open' = Append(open, pos') /\ UNCHANGED <<reader, status>>
      /\ marks' = <<Mark(1)>> /\ pending' = Enter(pending, plan.nodes[1], kind)
  BY <1>5 DEF EnterRoot, Descend, Continue
<1>7. Placed'
  BY <1>1, <1>2, <1>6, PlacedAfterFetch
<1>8. marks' \in Seq(MarkShape) /\ Len(marks') = Len(open')
  <2>1. Mark(1) \in MarkShape
    BY DEF Mark, MarkShape
  <2>2. QED
    BY <1>2, <1>6, <2>1
<1>9. pending'.code \in Good
  BY <1>2, <1>6, PathCodes
<1>10. Passing'
  <2>1. Fit(tree', pos + 1, Plain)
    BY <1>1, <1>2, <1>3, FitNext
  <2>2. Untorn'
    BY <1>4, <1>5 DEF Untorn
  <2>3. QED
    BY <1>3, <2>1, <2>2 DEF Passing
<1>11. QED
  BY <1>1, <1>3, <1>6, <1>7, <1>8, <1>9, <1>10, GoesOn

\* ... and as a value that is none.
LEMMA StepConsumeRootScalar ==
  ASSUME IInv, ConsumeRootScalar(op \in Rows),
         UNCHANGED <<plan, consumed, op, stage, calls>>
  PROVE  IInv'
<1> DEFINE kind == tree'[pos'].kind
<1>1. /\ reader = "projection" /\ claimed' = claimed /\ pos = 0 /\ Fetch /\ Look
      /\ kind \in Leaves
  BY DEF ConsumeRootScalar, Projecting, AtRoot, Fetch
<1>2. /\ Placed /\ open = <<>> /\ op \in Projections /\ Len(open) = 0
      /\ pending.code \in Good /\ MaxDepth \in Nat \ {0}
  BY <1>1, WhileProjecting, EmptySeq
<1>3. /\ tree' \in Seq(Values) /\ pos' = pos + 1 /\ Validated' /\ pos' \in DOMAIN tree'
      /\ op = "select" => /\ (RootAccepted(tree[1].kind))'
                          /\ kind \in Containers \cup Plain
  BY <1>1, <1>2, WhileReading
<1>4. (RootAccepted(tree[1].kind))' = RootAccepted(kind)
  <2>1. tail' = tail
    BY <1>1 DEF Look
  <2>2. QED
    BY <1>1, <1>3, <2>1 DEF RootAccepted
<1>6. /\ ScalarStatus(kind) \in {"ok", "number_out_of_range", "malformed"}
      /\ ScalarStatus(kind) = "ok" <=> kind \in Plain
      /\ ScalarStatus(kind) = "number_out_of_range" => kind \in {"bigint", "huge"}
      /\ ScalarStatus(kind) = "malformed" => kind \in {"badnumber", "badtoken", "strange"}
      /\ kind \notin Containers
  BY <1>1, ScalarStatuses
<1>7. \/ ScalarStatus(kind) # "ok" /\ FailProjection(ScalarStatus(kind), NoSlot)
      \/ ~(op \in Rows) /\ ~RootAccepted(kind) /\ FailProjection("malformed", NoSlot)
      \/ /\ op \in Rows \/ RootAccepted(kind)
         /\ ScalarStatus(kind) = "ok" /\ Conclude(EnterScalar(pending, plan.nodes[1]), slots)
  BY DEF ConsumeRootScalar, ProjectionCode
<1>a. CASE ~(op \in Rows) /\ ~RootAccepted(kind) /\ FailProjection("malformed", NoSlot)
  <2>1. /\ open' = <<>> /\ reader' = "none" /\ marks' = <<>> /\ pending' = Ok
        /\ status'.code = "malformed"
    BY <1>a, FailedProjection
  <2>2. Placed'
    BY <1>1, <1>2, <2>1, PlacedAfterFetch
  <2>3. (~Untorn)' /\ op # "select"
    BY <1>3, <1>4, <1>a DEF Untorn
  <2>4. status'.code \notin Good
    BY <2>1 DEF Good, PathFailures
  <2>5. QED
    BY <1>1, <1>3, <2>1, <2>2, <2>3, <2>4, Returns
<1>8. CASE ScalarStatus(kind) # "ok" /\ FailProjection(ScalarStatus(kind), NoSlot)
  <2>1. FailProjection(ScalarStatus(kind), NoSlot)
    BY <1>8
  <2>2. /\ open' = <<>> /\ reader' = "none" /\ marks' = <<>> /\ pending' = Ok
        /\ status'.code = ScalarStatus(kind)
    BY <2>1, FailedProjection
  <2>3. Placed'
    BY <1>1, <1>2, <2>2, PlacedAfterFetch
  <2>4. status'.code \notin Good
    BY <1>6, <1>8, <2>2 DEF Good, PathFailures
  <2>5. op # "select" /\ (status'.code = "malformed" => Malformed')
    BY <1>3, <1>6, <1>8, <2>2 DEF Malformed, Holds
  <2>6. status'.code = "number_out_of_range" => OutOfRange'
    BY <1>3, <1>6, <2>2 DEF OutOfRange, Holds
  <2>7. QED
    BY <1>1, <1>3, <2>2, <2>3, <2>4, <2>5, <2>6, Returns
<1>9. CASE /\ op \in Rows \/ RootAccepted(kind)
           /\ ScalarStatus(kind) = "ok" /\ Conclude(EnterScalar(pending, plan.nodes[1]), slots)
  <2>1. Untorn'
    BY <1>4, <1>9 DEF Untorn
  <2>2. EnterScalar(pending, plan.nodes[1]).code \in Good
    BY <1>2, PathCodes
  <2>3. /\ open' = <<>> /\ reader' = "none" /\ marks' = <<>> /\ pending' = Ok
        /\ status'.code \in Good \cup {"internal_failure"}
    BY <1>9, <2>2, Concluded
  <2>4. Placed'
    BY <1>1, <1>2, <2>3, PlacedAfterFetch
  <2>5. Len(tree') = 1 /\ whole'
    BY <1>1, <1>2, <1>3, <1>6, RootAlone
  <2>6. Fit(tree', pos + 1, Plain)
    BY <1>1, <1>2, <1>3, <1>6, <1>9, FitNext
  <2>7. Fit(tree', Len(tree'), Plain)
    BY <1>1, <2>5, <2>6
  <2>8. status'.code \notin {"malformed", "number_out_of_range"}
    BY <2>3 DEF Good, PathFailures
  <2>9. QED
    BY <1>1, <1>3, <2>1, <2>3, <2>4, <2>5, <2>7, <2>8, Returns
<1>10. QED
  BY <1>7, <1>8, <1>9, <1>a

\* Inside the source: the pass goes into a container, ...
LEMMA StepInto ==
  ASSUME IInv, Projecting, UNCHANGED <<plan, consumed, op, stage, calls>>,
         Fetch, marks # <<>>, pos # 0, tree'[pos'].kind \in Containers, Len(open) < MaxDepth,
         Descend, Continue, NEW selected, NEW n \in {0} \cup DOMAIN plan.nodes,
         marks' = Append(Advanced(selected), Mark(n)), pending'.code \in Good
  PROVE  IInv'
<1>1. /\ reader = "projection" /\ claimed' = claimed /\ Look
      /\ open' = Append(open, pos') /\ UNCHANGED <<reader, status>>
  BY DEF Projecting, Fetch, Descend, Continue
<1>2. /\ Placed /\ open # <<>> /\ pos \in Nat /\ pos > 0 /\ Fit(tree, pos, Plain)
      /\ marks \in Seq(MarkShape) /\ Len(marks) = Len(open)
  BY <1>1, WhileProjecting
<1>3. pos' = pos + 1 /\ Validated' /\ Untorn'
  BY <1>1, <1>2, WhileReading
<1>4. Placed'
  BY <1>1, <1>2, PlacedAfterFetch
<1>5. marks' \in Seq(MarkShape) /\ Len(marks') = Len(open')
  <2>1. Advanced(selected) \in Seq(MarkShape) /\ Len(Advanced(selected)) = Len(marks)
    BY <1>2, AdvancedShape
  <2>2. Mark(n) \in MarkShape
    BY DEF Mark, MarkShape
  <2>3. Len(open') = Len(open) + 1
    BY <1>1, <1>2 DEF Placed, SourceShape
  <2>4. QED
    BY <1>2, <2>1, <2>2, <2>3
<1>6. Passing'
  <2>1. Fit(tree', pos + 1, Plain)
    BY <1>1, <1>2, <1>3, FitNext
  <2>2. QED
    BY <1>3, <2>1 DEF Passing
<1>7. QED
  BY <1>1, <1>3, <1>4, <1>5, <1>6, GoesOn

\* ... reads a value that is none, ...
LEMMA StepOver ==
  ASSUME IInv, Projecting, UNCHANGED <<plan, consumed, op, stage, calls>>,
         Fetch, marks # <<>>, pos # 0, tree'[pos'].kind \in Leaves, Len(open) < MaxDepth,
         ScalarStatus(tree'[pos'].kind) = "ok",
         open' = open, Continue, NEW selected, marks' = Advanced(selected),
         pending'.code \in Good
  PROVE  IInv'
<1>1. /\ reader = "projection" /\ claimed' = claimed /\ Look
      /\ UNCHANGED <<reader, status>>
      /\ tree'[pos'].kind \in Plain /\ tree'[pos'].kind \notin Containers
  BY ScalarStatuses DEF Projecting, Fetch, Continue
<1>2. /\ Placed /\ open # <<>> /\ pos \in Nat /\ pos > 0 /\ Fit(tree, pos, Plain)
      /\ marks \in Seq(MarkShape) /\ Len(marks) = Len(open)
  BY <1>1, WhileProjecting
<1>3. pos' = pos + 1 /\ Validated' /\ Untorn'
  BY <1>1, <1>2, WhileReading
<1>4. Placed'
  BY <1>1, <1>2, PlacedAfterFetch
<1>5. marks' \in Seq(MarkShape) /\ Len(marks') = Len(open')
  BY <1>2, AdvancedShape
<1>6. Passing'
  <2>1. Fit(tree', pos + 1, Plain)
    BY <1>1, <1>2, <1>3, FitNext
  <2>2. QED
    BY <1>3, <2>1 DEF Passing
<1>7. QED
  BY <1>1, <1>3, <1>4, <1>5, <1>6, GoesOn

\* ... refuses a value, ...
LEMMA StepRejectValue ==
  ASSUME IInv, NEW selected, RejectValue(selected),
         UNCHANGED <<plan, consumed, op, stage, calls>>
  PROVE  IInv'
<1> DEFINE kind == tree'[pos'].kind
<1>1. /\ reader = "projection" /\ claimed' = claimed /\ Fetch /\ Look /\ marks # <<>> /\ pos # 0
  BY DEF RejectValue, ReadNext, Projecting, AtRoot, Fetch
<1>2. /\ Placed /\ open # <<>> /\ pos \in Nat /\ pos > 0 /\ Len(open) \in Nat /\ MaxDepth \in Nat
  BY <1>1, WhileProjecting
<1>3. /\ tree' \in Seq(Values) /\ pos' = pos + 1 /\ pos' \in DOMAIN tree' /\ Validated'
      /\ Depth(tree', pos') = Len(open) + 1
      /\ op = "select" => /\ kind \in Containers \cup Plain
                          /\ Len(open) < MaxDepth
  BY <1>1, <1>2, WhileReading
<1>4. /\ open' = <<>> /\ reader' = "none" /\ marks' = <<>> /\ pending' = Ok
      /\ \/ kind = "torn" /\ status'.code = "malformed"
         \/ Len(open) >= MaxDepth /\ status'.code = "malformed"
         \/ /\ kind \in Leaves /\ ScalarStatus(kind) # "ok"
            /\ status'.code = ScalarStatus(kind)
  <2>1. CASE kind = "torn" /\ FailProjection(ProjectionCode(Error(kind)), NoSlot)
    <3>1. ProjectionCode(Error(kind)) = "malformed"
      BY <2>1 DEF ProjectionCode, Error
    <3>2. QED
      BY <2>1, <3>1, FailedProjection
  <2>2. CASE Len(open) >= MaxDepth /\ FailProjection(ProjectionCode("DEPTH_ERROR"), NoSlot)
    <3>1. ProjectionCode("DEPTH_ERROR") = "malformed"
      BY DEF ProjectionCode
    <3>2. QED
      BY <2>2, <3>1, FailedProjection
  <2>3. CASE /\ kind \in Leaves /\ ScalarStatus(kind) # "ok"
             /\ \E slot : FailProjection(ScalarStatus(kind), slot)
    BY <2>3, FailedProjection
  <2>4. QED
    BY <2>1, <2>2, <2>3 DEF RejectValue
<1>5. Placed'
  BY <1>1, <1>2, <1>4, PlacedAfterFetch
<1>6. /\ status'.code \in {"malformed", "number_out_of_range"}
      /\ status'.code = "malformed" =>
           /\ \/ kind \in {"torn", "badnumber", "badtoken", "strange"}
              \/ Len(open) >= MaxDepth
      /\ status'.code = "number_out_of_range" => kind \in {"bigint", "huge"}
  BY <1>4, ScalarStatuses
<1>7. status'.code \notin Good
  BY <1>6 DEF Good, PathFailures
<1>8. status'.code = "malformed" => (Malformed \/ DeeperThan(MaxDepth))'
  <2>1. kind \in {"torn", "badnumber", "badtoken", "strange"} => Malformed'
    BY <1>3 DEF Malformed, Holds
  <2>2. Len(open) >= MaxDepth => DeeperThan(MaxDepth)'
    <3>1. Len(open) >= MaxDepth => Depth(tree', pos') > MaxDepth
      BY <1>2, <1>3
    <3>2. QED
      BY <1>3, <3>1 DEF DeeperThan
  <2>3. QED
    BY <1>6, <2>1, <2>2
<1>9. op = "select" => status'.code \notin {"malformed", "number_out_of_range"}
  BY <1>2, <1>3, <1>6 DEF Containers, Plain
<1>10. status'.code = "number_out_of_range" => OutOfRange'
  BY <1>3, <1>6 DEF OutOfRange, Holds
<1>11. QED
  BY <1>1, <1>3, <1>4, <1>5, <1>7, <1>8, <1>9, <1>10, Returns

\* ... leaves a container, ...
LEMMA StepOut ==
  ASSUME IInv, Projecting, UNCHANGED <<plan, consumed, op, stage, calls>>,
         Exhausted, Ascend, Continue, marks' = Front(marks), pending'.code \in Good
  PROVE  IInv'
<1>1. /\ reader = "projection" /\ claimed' = claimed /\ UNCHANGED <<tree, pos, tail>>
      /\ open' = Front(open) /\ UNCHANGED <<reader, status>> /\ open # <<>>
      /\ whole' = (whole \/ Len(open) = 1)
  BY DEF Projecting, Continue, Ascend, Exhausted
<1>2. /\ Placed /\ whole \in BOOLEAN /\ marks \in Seq(MarkShape) /\ Len(marks) = Len(open)
      /\ marks # <<>> /\ open \in Seq(1..pos)
  BY <1>1, WhileProjecting DEF Placed, SourceShape
<1>3. Placed'
  BY <1>1, <1>2, PlacedAfterEnd
<1>4. Validated'
  BY <1>1, ValidatedSame DEF IInv
<1>5. marks' \in Seq(MarkShape) /\ Len(marks') = Len(open')
  BY <1>1, <1>2, FrontAndLast
<1>6. Passing'
  BY <1>1 DEF IInv, Passing, Untorn, RootAccepted
<1>7. QED
  BY <1>1, <1>3, <1>4, <1>5, <1>6, GoesOn

\* ... and reaches the end of the source.
LEMMA StepLeaveContainer ==
  ASSUME IInv, LeaveContainer, UNCHANGED <<plan, consumed, op, stage, calls>>
  PROVE  IInv'
<1> DEFINE mark == Last(marks)
           node == Node(mark.node)
           left == IF InObject THEN LeaveObject(pending, node)
                               ELSE LeaveArray(pending, node, mark.wanted)
<1>1. /\ Projecting /\ reader = "projection" /\ claimed' = claimed /\ Exhausted
  BY DEF LeaveContainer, Projecting
<1>2. /\ Placed /\ pending.code \in Good /\ tree \in Seq(Values)
      /\ pos > 0 => Fit(tree, pos, Plain) /\ Untorn
  BY <1>1, WhileProjecting
<1>3. left.code \in Good
  BY <1>2, PathCodes
<1>4. CASE Len(open) # 1
  <2>1. Ascend /\ Continue /\ marks' = Front(marks) /\ pending' = left
    BY <1>4 DEF LeaveContainer
  <2>2. QED
    BY <1>1, <1>3, <2>1, StepOut
<1>5. CASE Len(open) = 1
  <2>1. Conclude(left, slots) /\ whole' = TRUE /\ UNCHANGED <<tree, pos, tail>>
    BY <1>5 DEF LeaveContainer
  <2>2. /\ open' = <<>> /\ reader' = "none" /\ marks' = <<>> /\ pending' = Ok
        /\ status'.code \in Good \cup {"internal_failure"}
    BY <1>3, <2>1, Concluded
  <2>3. Placed'
    BY <1>1, <1>2, <2>1, <2>2, PlacedAfterEnd
  <2>4. pos = Len(tree) /\ pos \in 1..Len(tree)
    BY <1>1, <1>2, <1>5, EndReached, Beyond
  <2>5. Fit(tree', Len(tree'), Plain) /\ Untorn'
    BY <1>2, <2>1, <2>4 DEF Untorn, RootAccepted
  <2>6. Validated'
    BY <2>1, ValidatedSame DEF IInv
  <2>7. status'.code \notin {"malformed", "number_out_of_range"}
    BY <2>2 DEF Good, PathFailures
  <2>8. QED
    BY <1>1, <1>2, <2>1, <2>2, <2>3, <2>5, <2>6, <2>7, Returns
<1>6. QED
  BY <1>4, <1>5

LEMMA StepProject == IInv /\ Project => IInv'
<1> SUFFICES ASSUME IInv, Project PROVE IInv'
  OBVIOUS
<1> DEFINE isRow == op \in Rows
<1>1. /\ UNCHANGED <<plan, consumed, op, stage, calls>>
      /\ ProjectionStep(isRow) \/ CancelProjection
  BY DEF Project, planVars, decodeVars
<1>2. CASE CancelProjection
  BY <1>1, <1>2, StepCancelProjection
<1>3. CASE EnterRoot(isRow)
  BY <1>1, <1>3, StepEnterRoot
<1>4. CASE ConsumeRootScalar(isRow)
  BY <1>1, <1>4, StepConsumeRootScalar
<1>5. CASE SkipContainer
  <2>1. /\ Projecting /\ Fetch /\ marks # <<>> /\ pos # 0 /\ tree'[pos'].kind \in Containers
        /\ Len(open) < MaxDepth /\ Descend /\ Continue
        /\ marks' = Append(Advanced(0), Mark(0)) /\ pending' = pending
    BY <1>5 DEF SkipContainer, ReadNext, AtRoot
  <2>2. pending.code \in Good
    BY <2>1, WhileProjecting DEF Projecting
  <2>3. QED
    BY <1>1, <2>1, <2>2, StepInto
<1>6. CASE SkipScalar
  <2>1. /\ Projecting /\ Fetch /\ marks # <<>> /\ pos # 0 /\ tree'[pos'].kind \in Leaves
        /\ Len(open) < MaxDepth /\ ScalarStatus(tree'[pos'].kind) = "ok"
        /\ open' = open /\ Continue /\ marks' = Advanced(0) /\ pending' = pending
    BY <1>6 DEF SkipScalar, ReadNext, AtRoot
  <2>2. pending.code \in Good
    BY <2>1, WhileProjecting DEF Projecting
  <2>3. QED
    BY <1>1, <2>1, <2>2, StepOver
<1>7. CASE LeaveSkipped
  <2>1. /\ Projecting /\ Exhausted /\ Ascend /\ Continue /\ marks' = Front(marks)
        /\ pending' = pending
    BY <1>7 DEF LeaveSkipped
  <2>2. pending.code \in Good
    BY <2>1, WhileProjecting DEF Projecting
  <2>3. QED
    BY <1>1, <2>1, <2>2, StepOut
<1>8. ASSUME NEW n \in DOMAIN plan.nodes, EnterContainer(n)
      PROVE  IInv'
  <2>1. /\ Projecting /\ Fetch /\ marks # <<>> /\ pos # 0 /\ tree'[pos'].kind \in Containers
        /\ Len(open) < MaxDepth /\ Descend /\ Continue
        /\ marks' = Append(Advanced(n), Mark(n))
        /\ pending' = Enter(pending, Node(n), tree'[pos'].kind)
    BY <1>8 DEF EnterContainer, ReadNext, AtRoot
  <2>2. pending'.code \in Good
    BY <2>1, WhileProjecting, PathCodes DEF Projecting
  <2>3. QED
    BY <1>1, <2>1, <2>2, StepInto
<1>9. ASSUME NEW n \in DOMAIN plan.nodes, MaterializeScalar(n)
      PROVE  IInv'
  <2>1. /\ Projecting /\ Fetch /\ marks # <<>> /\ pos # 0 /\ tree'[pos'].kind \in Leaves
        /\ Len(open) < MaxDepth /\ ScalarStatus(tree'[pos'].kind) = "ok"
        /\ open' = open /\ Continue /\ marks' = Advanced(n)
        /\ pending' = EnterScalar(pending, Node(n))
    BY <1>9 DEF MaterializeScalar, ReadNext, AtRoot
  <2>2. pending'.code \in Good
    BY <2>1, WhileProjecting, PathCodes DEF Projecting
  <2>3. QED
    BY <1>1, <2>1, <2>2, StepOver
<1>10. ASSUME NEW n \in {0} \cup DOMAIN plan.nodes, RejectValue(n)
       PROVE  IInv'
  BY <1>1, <1>10, StepRejectValue
<1>11. CASE LeaveContainer
  BY <1>1, <1>11, StepLeaveContainer
<1>12. QED
  BY <1>1, <1>2, <1>3, <1>4, <1>5, <1>6, <1>7, <1>8, <1>9, <1>10, <1>11
     DEF ProjectionStep

-----------------------------------------------------------------------------
(* The materializer. *)

LEMMA LeastExists ==
  ASSUME NEW T, T \subseteq Nat, T # {}
  PROVE  Min(T) \in T
<1> DEFINE R == {ss \in Nat \X Nat : ss[1] < ss[2]}
<1>1. IsWellFoundedOn(R, Nat)
  BY NatLessThanWellFounded DEF OpToRel
<1> HIDE DEF R
<1>2. PICK x \in T : \A y \in T : ~(<<y, x>> \in R)
  BY <1>1, WFMin
<1>3. \A y \in T : ~(y < x)
  BY <1>2 DEF R
<1>4. \A y \in T : x <= y
  BY <1>3
<1>5. QED
  BY <1>4 DEF Min

\* The first check that fails is one of those that were made.
LEMMA FailureIsNamed ==
  ASSUME NEW S, NEW checks \in Seq(S), FirstFailure(checks) # "ok"
  PROVE  \E c \in S : c[1] /\ c[2] = FirstFailure(checks)
<1> DEFINE Failed(c) == c[1]
           I == {i \in 1..Len(checks) : Failed(checks[i])}
<1>1. SelectInSeq(checks, Failed) = IF I # {} THEN Min(I) ELSE 0
  BY DEF SelectInSeq
<1>2. FirstFailure(checks) = IF SelectInSeq(checks, Failed) = 0 THEN "ok"
                             ELSE checks[SelectInSeq(checks, Failed)][2]
  BY DEF FirstFailure
<1>3. I # {}
  BY <1>1, <1>2
<1>a. I \subseteq Nat
  OBVIOUS
<1>4. Min(I) \in I
  <2> HIDE DEF I
  <2>1. QED
    BY <1>3, <1>a, LeastExists
<1>5. PICK i \in 1..Len(checks) : checks[i][1] /\ i = Min(I)
  BY <1>4
<1>6. FirstFailure(checks) = checks[i][2] /\ checks[i] \in S
  BY <1>1, <1>2, <1>3, <1>5, ElementOfSeq
<1>7. QED
  BY <1>5, <1>6

\* The checks of a value of some kind, ...
OpenCheckSet(g, n, kind, isRoot) ==
  {<<kind = "strange" /\ ~isRoot, "incorrect_type">>,
   <<Error(kind) # "SUCCESS", DecodeCode(Error(kind))>>,
   <<isRoot /\ ~RootAccepted(kind), DecodeCode("TRAILING_CONTENT")>>,
   <<~BudgetAllows(WithText(g, n, kind), NodeBytes), "max_output_bytes_exceeded">>}
    \cup (IF kind = "text"
          THEN {<<TextLength > limits.string, "max_string_bytes_exceeded">>,
                <<~BudgetAllows(g, TextLength), "max_output_bytes_exceeded">>}
          ELSE {})

LEMMA OpenChecksMade ==
  ASSUME NEW g, NEW n, NEW kind, NEW isRoot,
         NEW S, OpenCheckSet(g, n, kind, isRoot) \subseteq S
  PROVE  OpenChecks(g, n, kind, isRoot) \in Seq(S)
<1> DEFINE c1 == <<kind = "strange" /\ ~isRoot, "incorrect_type">>
           c2 == <<Error(kind) # "SUCCESS", DecodeCode(Error(kind))>>
           c3 == <<isRoot /\ ~RootAccepted(kind), DecodeCode("TRAILING_CONTENT")>>
           c4 == <<TextLength > limits.string, "max_string_bytes_exceeded">>
           c5 == <<~BudgetAllows(g, TextLength), "max_output_bytes_exceeded">>
           c6 == <<~BudgetAllows(WithText(g, n, kind), NodeBytes), "max_output_bytes_exceeded">>
<1>1. {c1, c2, c3, c6} \subseteq S /\ (kind = "text" => {c4, c5} \subseteq S)
  BY DEF OpenCheckSet
<1>2. OpenChecks(g, n, kind, isRoot) =
        <<c1, c2>> \o <<c3>> \o (IF kind = "text" THEN <<c4, c5>> ELSE <<>>) \o <<c6>>
  BY DEF OpenChecks, TokenChecks, CopyChecks
<1> HIDE DEF c1, c2, c3, c4, c5, c6
<1>3. /\ <<c1, c2>> \in Seq(S) /\ <<c3>> \in Seq(S) /\ <<>> \in Seq(S) /\ <<c6>> \in Seq(S)
      /\ kind = "text" => <<c4, c5>> \in Seq(S)
  BY <1>1
<1>4. (IF kind = "text" THEN <<c4, c5>> ELSE <<>>) \in Seq(S)
  BY <1>3
<1>5. QED
  BY <1>2, <1>3, <1>4, ConcatProperties

\* ... and what they can blame it for.
LEMMA OpenChecksBlame ==
  ASSUME NEW g, NEW n, NEW isRoot,
         NEW kind \in Containers \cup Leaves \cup {"torn"},
         NEW c \in OpenCheckSet(g, n, kind, isRoot), c[1]
  PROVE  /\ c[2] = "malformed" => \/ kind \in {"badtoken", "strange", "torn"}
                                  \/ isRoot /\ ~RootAccepted(kind)
         /\ c[2] = "number_out_of_range" => kind \in {"bigint", "huge", "badnumber"}
<1>1. Error(kind) # "SUCCESS" =>
        /\ DecodeCode(Error(kind)) = "malformed" => kind \in {"badtoken", "strange", "torn"}
        /\ DecodeCode(Error(kind)) = "number_out_of_range" =>
             kind \in {"bigint", "huge", "badnumber"}
  BY DEF Error, DecodeCode, Containers, Leaves
<1>2. CASE c = <<isRoot /\ ~RootAccepted(kind), DecodeCode("TRAILING_CONTENT")>>
  <2> DEFINE trailing == isRoot /\ ~RootAccepted(kind)
  <2>1. c[1] = trailing /\ c[2] = "malformed"
    BY <1>2 DEF DecodeCode
  <2> HIDE DEF trailing
  <2>2. trailing
    BY <2>1
  <2>3. c[2] # "number_out_of_range"
    BY <2>1
  <2>4. QED
    BY <2>2, <2>3, Zenon DEF trailing
<1>3. CASE c = <<Error(kind) # "SUCCESS", DecodeCode(Error(kind))>>
  <2>1. c[1] = (Error(kind) # "SUCCESS") /\ c[2] = DecodeCode(Error(kind))
    BY <1>3
  <2>2. QED
    BY <1>1, <2>1
<1>4. CASE c \in {<<kind = "strange" /\ ~isRoot, "incorrect_type">>,
                 <<TextLength > limits.string, "max_string_bytes_exceeded">>,
                 <<~BudgetAllows(g, TextLength), "max_output_bytes_exceeded">>,
                 <<~BudgetAllows(WithText(g, n, kind), NodeBytes), "max_output_bytes_exceeded">>}
  <2>1. c[2] \in {"incorrect_type", "max_string_bytes_exceeded", "max_output_bytes_exceeded"}
    BY <1>4
  <2>2. QED
    BY <2>1
<1>5. QED
  BY <1>2, <1>3, <1>4 DEF OpenCheckSet

LEMMA AfterDecode ==
  ASSUME IInv, reader = "materializer",
         UNCHANGED <<plan, marks, pending, claimed, consumed, op, stage, calls>>,
         Placed', tree' \in Seq(Values),
         \/ reader' = "materializer" /\ (pos' > 0 => open' # <<>>)
         \/ reader' = "none" /\ open' = <<>>,
         reader' = "none" =>
           /\ status'.code = "malformed" => (Malformed \/ ~Untorn)'
           /\ status'.code = "number_out_of_range" => (OutOfRange \/ Holds({"badnumber"}))'
  PROVE  IInv'
<1>1. op = "decode" /\ stage = "ready" /\ consumed
  BY DEF IInv, Flow
<1>2. Flow'
  BY <1>1 DEF IInv, Flow
<1>3. Marked'
  BY DEF IInv, Marked, MarkShape
<1>4. Passing' /\ Validated'
  BY <1>1 DEF Passing, Validated
<1>5. VerdictIsEarned' /\ OpenedIsReadable'
  BY <1>1 DEF VerdictIsEarned, OpenedIsReadable, Answered
<1>6. QED
  BY <1>2, <1>3, <1>4, <1>5 DEF IInv

LEMMA FailedDecode ==
  ASSUME NEW code, FailDecode(code)
  PROVE  open' = <<>> /\ reader' = "none" /\ status'.code = code
BY DEF FailDecode, Fail, Return

LEMMA WhileDecoding ==
  ASSUME IInv, reader = "materializer"
  PROVE  /\ Placed /\ pos \in Nat /\ whole \in BOOLEAN /\ tree \in Seq(Values)
         /\ pos > 0 <=> open # <<>>
<1>1. Placed /\ (pos > 0 => open # <<>>)
  BY DEF IInv, Flow
<1>2. pos \in Nat /\ whole \in BOOLEAN /\ tree \in Seq(Values)
  BY <1>1 DEF Placed, SourceShape
<1>3. pos = 0 => open = <<>>
  BY <1>1, RootIsOpen DEF Placed
<1>4. QED
  BY <1>1, <1>2, <1>3

LEMMA StepInterruptDecode ==
  ASSUME IInv, InterruptDecode,
         UNCHANGED <<plan, marks, pending, claimed, op, stage, calls>>
  PROVE  IInv'
<1>1. /\ reader = "materializer" /\ UNCHANGED <<consumed, tree, pos, whole, tail>>
      /\ \E code \in {"out_of_memory", "cancelled"} : FailDecode(code)
  BY DEF InterruptDecode, Decoding
<1>2. PICK code \in {"out_of_memory", "cancelled"} : FailDecode(code)
  BY <1>1
<1>3. open' = <<>> /\ reader' = "none" /\ status'.code \in {"out_of_memory", "cancelled"}
  BY <1>2, FailedDecode
<1>4. Placed' /\ tree' \in Seq(Values)
  BY <1>1, <1>3, WhileDecoding, PlacedAtRest
<1>5. QED
  BY <1>1, <1>3, <1>4, AfterDecode

LEMMA StepOpenRoot ==
  ASSUME IInv, OpenRoot,
         UNCHANGED <<plan, marks, pending, claimed, op, stage, calls>>
  PROVE  IInv'
<1> DEFINE kind == tree'[1].kind
           checks == OpenChecks(graph, 1, kind, TRUE)
<1>1. /\ reader = "materializer" /\ consumed' = consumed /\ pos = 0 /\ Fetch /\ Look
      /\ pos' = pos + 1
      /\ \/ \E st : /\ st = FirstFailure(checks) \/ (st = "malformed" /\ ~RootAccepted(kind))
                    /\ FailDecode(st)
         \/ /\ FirstFailure(checks) = "ok"
            /\ IF kind \in Containers THEN Descend /\ Continue ELSE Return(Ok)
  BY DEF OpenRoot, Decoding, Fetch, DecodeCode
<1>2. Placed /\ pos' = 1 /\ open = <<>>
  BY <1>1, WhileDecoding
<1>3. /\ tree' \in Seq(Values) /\ 1 \in DOMAIN tree' /\ tail' = tail
      /\ kind \in Containers \cup Leaves \cup {"torn"}
  <2>1. tree' \in Seq(Values) /\ pos + 1 \in 1..Len(tree') /\ tail' = tail
    BY <1>1, <1>2, Looked
  <2>2. 1 \in DOMAIN tree'
    BY <1>1, <2>1
  <2>3. QED
    BY <2>1, <2>2, ValueShape
<1>4. ASSUME NEW st, FailDecode(st),
             st = FirstFailure(checks) \/ (st = "malformed" /\ ~RootAccepted(kind))
      PROVE  IInv'
  <2>1. open' = <<>> /\ reader' = "none" /\ status'.code = st
    BY <1>4, FailedDecode
  <2>2. Placed'
    BY <1>1, <1>2, <2>1, PlacedAfterFetch
  <2>3. /\ st = "malformed" => kind \in {"badtoken", "strange", "torn"} \/ ~RootAccepted(kind)
        /\ st = "number_out_of_range" => kind \in {"bigint", "huge", "badnumber"}
    <3>1. CASE st = FirstFailure(checks) /\ st # "ok"
      <4>1. checks \in Seq(OpenCheckSet(graph, 1, kind, TRUE))
        BY OpenChecksMade
      <4>2. PICK c \in OpenCheckSet(graph, 1, kind, TRUE) : c[1] /\ c[2] = st
        BY <3>1, <4>1, FailureIsNamed
      <4>3. QED
        BY <1>3, <4>2, OpenChecksBlame
    <3>2. CASE st = "ok" \/ (st = "malformed" /\ ~RootAccepted(kind))
      BY <3>2
    <3>3. QED
      BY <1>4, <3>1, <3>2
  <2>4. ~RootAccepted(kind) => (~Untorn)'
    <3>1. op = "decode"
      BY <1>1 DEF IInv, Flow
    <3>2. QED
      BY <1>3, <3>1 DEF Untorn, RootAccepted, Rows
  <2>5. status'.code = "malformed" => (Malformed \/ ~Untorn)'
    BY <1>3, <2>1, <2>3, <2>4 DEF Malformed, Holds
  <2>6. status'.code = "number_out_of_range" => (OutOfRange \/ Holds({"badnumber"}))'
    BY <1>3, <2>1, <2>3 DEF OutOfRange, Holds
  <2>7. QED
    BY <1>1, <1>3, <2>1, <2>2, <2>5, <2>6, AfterDecode
<1>5. CASE kind \in Containers /\ Descend /\ Continue
  <2>1. open' = Append(open, pos') /\ reader' = reader
    BY <1>5 DEF Descend, Continue
  <2>2. Placed'
    BY <1>1, <1>2, <1>5, <2>1, PlacedAfterFetch
  <2>3. open' # <<>>
    BY <1>2, <2>1
  <2>4. QED
    BY <1>1, <1>3, <2>1, <2>2, <2>3, AfterDecode
<1>6. CASE kind \notin Containers /\ Return(Ok)
  <2>1. open' = <<>> /\ reader' = "none" /\ status'.code = "ok"
    BY <1>6 DEF Return, Ok
  <2>2. Placed'
    BY <1>1, <1>2, <2>1, PlacedAfterFetch
  <2>3. QED
    BY <1>1, <1>3, <2>1, <2>2, AfterDecode
<1>7. QED
  BY <1>1, <1>4, <1>5, <1>6

LEMMA StepReadChild ==
  ASSUME IInv, ReadChild,
         UNCHANGED <<plan, marks, pending, claimed, op, stage, calls>>
  PROVE  IInv'
<1> DEFINE child == tree'[pos']
           isField == tree[Last(open)].kind = "object"
           keyed == IF isField THEN CopyBytes(graph, -pos', child.label) ELSE graph
           entries == Last(frames).edges
           c1 == <<Len(entries) >= limits.entries, "max_container_entries_exceeded">>
           c2 == <<child.kind = "torn", DecodeCode("TAPE_ERROR")>>
           c3 == <<child.label > limits.string, "max_string_bytes_exceeded">>
           c4 == <<~BudgetAllows(graph, child.label), "max_output_bytes_exceeded">>
           c5 == <<Len(open) + 1 > limits.depth, "max_depth_exceeded">>
           made == OpenChecks(keyed, pos', child.kind, FALSE)
           checks == <<c1, c2>> \o (IF isField THEN <<c3, c4>> ELSE <<>>) \o <<c5>> \o made
           S == {c1, c2, c3, c4, c5} \cup OpenCheckSet(keyed, pos', child.kind, FALSE)
<1>1. /\ reader = "materializer" /\ consumed' = consumed /\ pos > 0 /\ Fetch /\ Look
      /\ pos' = pos + 1
      /\ IF FirstFailure(checks) # "ok" THEN FailDecode(FirstFailure(checks))
         ELSE /\ Continue
              /\ IF child.kind \in Containers THEN Descend ELSE open' = open
  BY DEF ReadChild, Decoding, Fetch, CopyChecks
<1>2. Placed /\ open # <<>> /\ pos \in Nat
  BY <1>1, WhileDecoding
<1>3. /\ tree' \in Seq(Values) /\ pos' \in DOMAIN tree'
      /\ child.kind \in Containers \cup Leaves \cup {"torn"}
  <2>1. tree' \in Seq(Values) /\ pos + 1 \in 1..Len(tree')
    BY <1>1, <1>2, Looked
  <2>2. pos' \in DOMAIN tree'
    BY <1>1, <2>1
  <2>3. QED
    BY <2>1, <2>2, ValueShape
<1>4. CASE FirstFailure(checks) # "ok"
  <2>1. open' = <<>> /\ reader' = "none" /\ status'.code = FirstFailure(checks)
    BY <1>1, <1>4, FailedDecode
  <2>2. Placed'
    BY <1>1, <1>2, <2>1, PlacedAfterFetch
  <2>3. checks \in Seq(S)
    <3>1. made \in Seq(S)
      BY OpenChecksMade
    <3>2. c1 \in S /\ c2 \in S /\ c3 \in S /\ c4 \in S /\ c5 \in S
      OBVIOUS
    <3> HIDE DEF c1, c2, c3, c4, c5, made, S
    <3>3. <<c1, c2>> \in Seq(S) /\ <<c3, c4>> \in Seq(S) /\ <<>> \in Seq(S) /\ <<c5>> \in Seq(S)
      BY <3>2
    <3>4. QED
      BY <3>1, <3>3
  <2>4. PICK c \in S : c[1] /\ c[2] = FirstFailure(checks)
    <3> HIDE DEF checks, S
    <3>1. QED
      BY <1>4, <2>3, FailureIsNamed
  <2>5. /\ c[2] = "malformed" => child.kind \in {"badtoken", "strange", "torn"}
        /\ c[2] = "number_out_of_range" => child.kind \in {"bigint", "huge", "badnumber"}
    <3>1. CASE c \in OpenCheckSet(keyed, pos', child.kind, FALSE)
      BY <1>3, <2>4, <3>1, OpenChecksBlame
    <3>2. CASE c = c2
      <4>1. child.kind = "torn" /\ c[2] = "malformed"
        BY <2>4, <3>2 DEF DecodeCode
      <4>2. QED
        BY <4>1
    <3>3. CASE c \in {c1, c3, c4, c5}
      <4>1. c[2] \in {"max_container_entries_exceeded", "max_string_bytes_exceeded",
                      "max_output_bytes_exceeded", "max_depth_exceeded"}
        BY <3>3
      <4>2. QED
        BY <4>1
    <3>4. QED
      BY <3>1, <3>2, <3>3
  <2>6. status'.code = "malformed" => Malformed'
    BY <1>3, <2>1, <2>4, <2>5 DEF Malformed, Holds
  <2>7. status'.code = "number_out_of_range" => (OutOfRange \/ Holds({"badnumber"}))'
    BY <1>3, <2>1, <2>4, <2>5 DEF OutOfRange, Holds
  <2>8. QED
    BY <1>1, <1>3, <2>1, <2>2, <2>6, <2>7, AfterDecode
<1>5. CASE FirstFailure(checks) = "ok"
  <2>1. /\ reader' = reader
        /\ \/ child.kind \in Containers /\ open' = Append(open, pos')
           \/ child.kind \notin Containers /\ open' = open
    BY <1>1, <1>5 DEF Descend, Continue
  <2>2. Placed'
    BY <1>1, <1>2, <2>1, PlacedAfterFetch
  <2>3. open' # <<>>
    BY <1>2, <2>1 DEF Placed, SourceShape
  <2>4. QED
    BY <1>1, <1>3, <2>1, <2>2, <2>3, AfterDecode
<1>6. QED
  BY <1>4, <1>5

LEMMA StepFinalizeFrame ==
  ASSUME IInv, FinalizeFrame,
         UNCHANGED <<plan, marks, pending, claimed, op, stage, calls>>
  PROVE  IInv'
<1>1. /\ reader = "materializer" /\ Exhausted /\ UNCHANGED <<consumed, tree, pos, tail>>
      /\ open # <<>>
      /\ \/ FailDecode("max_output_bytes_exceeded") /\ whole' = whole
         \/ Len(open) > 1 /\ Ascend /\ Continue
         \/ Return(Ok) /\ whole' = TRUE
  BY DEF FinalizeFrame, Decoding, Ascend, Exhausted
<1>2. /\ Placed /\ whole \in BOOLEAN /\ tree \in Seq(Values) /\ open \in Seq(1..pos)
  BY <1>1, WhileDecoding DEF Placed, SourceShape
<1>3. CASE Len(open) > 1 /\ Ascend /\ Continue
  <2>1. open' = Front(open) /\ reader' = reader /\ whole' \in BOOLEAN
    BY <1>2, <1>3 DEF Ascend, Continue
  <2>2. Placed'
    BY <1>1, <1>2, <2>1, PlacedAfterEnd
  <2>3. Len(open') = Len(open) - 1 /\ Len(open) \in Nat
    BY <1>1, <1>2, <2>1, FrontAndLast
  <2>4. open' # <<>>
    BY <1>3, <2>3, EmptySeq
  <2>5. QED
    BY <1>1, <1>2, <2>1, <2>2, <2>4, AfterDecode
<1>4. CASE \/ FailDecode("max_output_bytes_exceeded") /\ whole' = whole
           \/ Return(Ok) /\ whole' = TRUE
  <2>1. /\ open' = <<>> /\ reader' = "none" /\ whole' \in BOOLEAN
        /\ status'.code \in {"ok", "max_output_bytes_exceeded"}
    <3>1. CASE FailDecode("max_output_bytes_exceeded") /\ whole' = whole
      BY <1>2, <3>1, FailedDecode
    <3>2. CASE Return(Ok) /\ whole' = TRUE
      BY <3>2 DEF Return, Ok
    <3>3. QED
      BY <1>4, <3>1, <3>2
  <2>2. Placed'
    BY <1>1, <1>2, <2>1, PlacedAtRest
  <2>3. QED
    BY <1>1, <1>2, <2>1, <2>2, AfterDecode
<1>5. QED
  BY <1>1, <1>3, <1>4

LEMMA StepDecode == IInv /\ Decode => IInv'
<1> SUFFICES ASSUME IInv, Decode PROVE IInv'
  OBVIOUS
<1>1. UNCHANGED <<plan, marks, pending, claimed, op, stage, calls>> /\ DecodeStep
  BY DEF Decode, planVars, projectionVars
<1>2. QED
  BY <1>1, StepOpenRoot, StepReadChild, StepFinalizeFrame, StepInterruptDecode DEF DecodeStep

LEMMA StepStutter == IInv /\ UNCHANGED vars => IInv'
<1> SUFFICES ASSUME IInv, UNCHANGED vars PROVE IInv'
  OBVIOUS
<1>1. /\ UNCHANGED <<tree, pos, open, whole, tail, reader, status, plan, claimed, marks>>
      /\ UNCHANGED <<pending, consumed, op, stage, calls>>
  BY DEF vars, sourceVars, source, planVars, projectionVars, decodeVars
<1>2. Placed'
  BY <1>1, PlacedSame DEF IInv, source
<1>3. Flow' /\ Marked'
  BY <1>1 DEF IInv, Flow, Marked, MarkShape
<1>4. Passing' /\ Validated'
  BY <1>1 DEF IInv, Passing, Untorn, RootAccepted, Validated
<1>5. VerdictIsEarned' /\ OpenedIsReadable'
  BY <1>1 DEF IInv, VerdictIsEarned, OpenedIsReadable, Answered, Untorn, Unopened,
              RootAccepted, Malformed, OutOfRange, DeeperThan, Holds
<1>6. QED
  BY <1>2, <1>3, <1>4, <1>5 DEF IInv

LEMMA NextInvariant == IInv /\ [Next]_vars => IInv'
BY StepMakePlan, StepOpenDocument, StepValidateRoot, StepValidateValue, StepValidateEnd,
   StepCall, StepProject, StepDecode, StepStutter DEF Next, Over

LEMMA Invariant == Spec => []IInv
BY InitInvariant, NextInvariant, PTL DEF Spec

\* A select or a row answers with values or with a path failure only of a source that it
\* has read to the end and found sound, and every pass (the validation of
\* simd_json_abi.cpp, simd_json_projection.cpp, simd_json_decode_materializer.cpp)
\* blames the source only for a fault it has.
THEOREM EveryVerdictIsEarned == Spec => []VerdictIsEarned
<1>1. IInv => VerdictIsEarned
  BY DEF IInv
<1>2. QED
  BY <1>1, Invariant, PTL

\* What validate_document let through, a later select can read: it finds no bad
\* token, no number out of range and no nesting too deep, and nothing after the end.
THEOREM WhatIsOpenedIsReadable == Spec => []OpenedIsReadable
<1>1. IInv => OpenedIsReadable
  BY DEF IInv
<1>2. QED
  BY <1>1, Invariant, PTL

\* A call that could begin to read refuses before it looks at the source.
LEMMA OneReading ==
  IInv /\ [Next]_vars => ((claimed \/ consumed) /\ reader = "none" => reader' = "none")
<1> SUFFICES ASSUME IInv, [Next]_vars, claimed \/ consumed, reader = "none"
             PROVE  reader' = "none"
  OBVIOUS
<1>1. /\ stage = "ready"
      /\ claimed => op \in {"select", "binary"}
      /\ consumed => op = "decode"
  BY DEF IInv, Flow
<1>2. CASE Call
  <2>1. CASE op \in {"select", "binary"} /\ Execute
    BY <1>1, <2>1 DEF Execute, Unclaimed
  <2>2. CASE op \in Rows
    BY <1>1, <2>2 DEF Rows
  <2>3. CASE op = "decode" /\ CreateMaterializer
    BY <2>3 DEF CreateMaterializer, FailDecode, Fail, Return
  <2>4. CASE op = "decode" /\ ExecuteDecode
    BY <1>1, <2>4 DEF ExecuteDecode
  <2>5. QED
    BY <1>2, <2>1, <2>2, <2>3, <2>4 DEF Call
<1>3. CASE MakePlan \/ OpenDocument
  BY <1>1, <1>3 DEF MakePlan, OpenDocument
<1>4. CASE ValidateRoot \/ ValidateValue \/ ValidateEnd
  BY <1>4 DEF ValidateRoot, ValidateValue, ValidateEnd, Validating
<1>5. CASE Project
  BY <1>5 DEF Project, ProjectionStep, CancelProjection, EnterRoot, ConsumeRootScalar,
     SkipContainer, SkipScalar, LeaveSkipped, EnterContainer, MaterializeScalar, RejectValue,
     LeaveContainer, ReadNext, Projecting
<1>6. CASE Decode
  BY <1>6 DEF Decode, DecodeStep, OpenRoot, ReadChild, FinalizeFrame, InterruptDecode, Decoding
<1>7. CASE UNCHANGED vars
  BY <1>7 DEF vars, sourceVars
<1>8. QED
  BY <1>2, <1>3, <1>4, <1>5, <1>6, <1>7 DEF Next, Over

\* Once a select has claimed the cursor (claim_projection_cursor in
\* simd_json_abi.cpp), or a materializer was used, no call reads the source again.
THEOREM ReadOnce == Spec => OnePass
<1>1. IInv /\ [Next]_vars => [(claimed \/ consumed) /\ reader = "none" => reader' = "none"]_vars
  BY OneReading
<1>2. QED
  BY <1>1, Invariant, PTL DEF Spec, OnePass

-----------------------------------------------------------------------------
(* A source with one value more. *)

Grown(t, u) ==
  /\ t \in Seq(Values) /\ u \in Seq(Values) /\ Len(u) = Len(t) + 1
  /\ \A m \in 1..Len(t) : u[m] = t[m]
  /\ InOrder(u)

LEMMA GrownShape ==
  ASSUME NEW t, NEW u, Grown(t, u)
  PROVE  /\ Len(t) \in Nat /\ Len(u) = Len(t) + 1 /\ Len(u) \in Nat
         /\ DOMAIN t = 1..Len(t) /\ DOMAIN u = 1..Len(u)
         /\ DOMAIN u = DOMAIN t \cup {Len(u)} /\ Len(u) \notin DOMAIN t /\ Len(u) \in DOMAIN u
<1>1. /\ Len(t) \in Nat /\ Len(u) = Len(t) + 1 /\ Len(u) \in Nat
      /\ DOMAIN t = 1..Len(t) /\ DOMAIN u = 1..Len(u)
  BY DEF Grown
<1>2. QED
  BY <1>1

LEMMA GrownOld ==
  ASSUME NEW t, NEW u, Grown(t, u), NEW m \in DOMAIN t
  PROVE  m \in DOMAIN u /\ u[m] = t[m] /\ m < Len(u) /\ m \in Nat /\ m <= Len(t)
<1>1. m \in 1..Len(t) /\ Len(t) \in Nat /\ Len(u) = Len(t) + 1 /\ DOMAIN u = 1..Len(u)
  BY GrownShape
<1>2. u[m] = t[m]
  BY <1>1 DEF Grown
<1>3. QED
  BY <1>1, <1>2

LEMMA GrownEach ==
  ASSUME NEW t, NEW u, Grown(t, u), NEW m \in DOMAIN u
  PROVE  /\ m \in Nat \ {0} /\ m <= Len(u) /\ u[m] \in Values /\ u[m].up \in Nat /\ u[m].up < m
         /\ (u[m].up = 0 <=> m = 1)
         /\ u[m].up # 0 => u[m].up \in DOMAIN u
         /\ m # 1 => u[u[m].up].kind \in Containers
<1>1. u \in Seq(Values) /\ DOMAIN u = 1..Len(u) /\ Len(u) \in Nat
  BY GrownShape DEF Grown
<1>2. u[m] \in Values /\ u[m].up \in Nat /\ m \in 1..Len(u)
  BY <1>1, ValueShape
<1>3. /\ u[m].up < m /\ (u[m].up = 0 <=> m = 1)
      /\ m # 1 => u[u[m].up].kind \in Containers
  BY DEF Grown, InOrder
<1>4. u[m].up # 0 => u[m].up \in DOMAIN u
  BY <1>1, <1>2, <1>3
<1>5. QED
  BY <1>1, <1>2, <1>3, <1>4

\* The new value is a member of its container, and has no members yet.
LEMMA MembersGrown ==
  ASSUME NEW t, NEW u, Grown(t, u)
  PROVE  /\ Members(u, Len(u)) = {}
         /\ \A c : c # u[Len(u)].up => Members(u, c) = Members(t, c)
         /\ Members(u, u[Len(u)].up) = Members(t, u[Len(u)].up) \cup {Len(u)}
         /\ \A c : Members(t, c) \subseteq 1..Len(t)
<1> DEFINE n == Len(u)
<1>1. /\ DOMAIN u = DOMAIN t \cup {n} /\ n \notin DOMAIN t /\ DOMAIN t = 1..Len(t)
      /\ n \in Nat
  BY GrownShape, Zenon
<1>o. \A m \in DOMAIN t : u[m] = t[m] /\ m < n
  BY GrownOld
<1>e. \A m \in DOMAIN u : u[m].up \in Nat /\ u[m].up < m /\ m \in Nat \ {0} /\ m <= n
  BY GrownEach
<1> HIDE DEF n
<1>2. ASSUME NEW m \in DOMAIN u
      PROVE  u[m].up # n
  BY <1>1, <1>e
<1>3. Members(u, n) = {}
  BY <1>2 DEF Members
<1>4. ASSUME NEW c
      PROVE  /\ c # u[n].up => Members(u, c) = Members(t, c)
             /\ c = u[n].up => Members(u, c) = Members(t, c) \cup {n}
  BY <1>1, <1>o DEF Members
<1>5. \A c : Members(t, c) \subseteq 1..Len(t)
  BY <1>1 DEF Members
<1>6. QED
  BY <1>3, <1>4, <1>5 DEF n

-----------------------------------------------------------------------------
(* A tree and the paths of its nodes. *)

Segment == [tag : {"key", "index"}, value : Nat]
Path == Seq(Segment)

ObjectEdge == [child : Nat, id : Nat]
ArrayEdge == [index : Nat, child : Nat]
ObjectEdges == UNION {[K -> ObjectEdge] : K \in SUBSET Nat}
PlanNode == [object : ObjectEdges, array : Seq(ArrayEdge), slots : Seq(Nat),
             sub : Nat, first : Nat]
Plans == [nodes : Seq(PlanNode), edges : Nat, at : Nat]

\* An edge of the node for the segment leads to c.
EdgeTo(node, segment, c) ==
  \/ /\ segment.tag = "key" /\ segment.value \in DOMAIN node.object
     /\ node.object[segment.value].child = c
  \/ /\ segment.tag = "index"
     /\ \E i \in DOMAIN node.array :
          node.array[i].index = segment.value /\ node.array[i].child = c

\* The paths w of the nodes: the root's is empty, each edge adds its segment,
\* no two nodes have the same, and each is reached from a node before it.
Trie(p, w) ==
  /\ p \in Plans /\ w \in Seq(Path) /\ Len(w) = Len(p.nodes) /\ w # <<>> /\ w[1] = <<>>
  /\ \A n, m \in DOMAIN w : w[n] = w[m] => n = m
  /\ \A n \in DOMAIN w : \A s \in Segment, c \in Nat :
       EdgeTo(p.nodes[n], s, c) => c \in DOMAIN w /\ w[c] = Append(w[n], s)
  /\ \A m \in DOMAIN w : m # 1 =>
       \E n \in 1..(m - 1), s \in Segment :
         w[m] = Append(w[n], s) /\ EdgeTo(p.nodes[n], s, m)

\* The edges of a node to elements ascend, and no two edges to members have
\* the same number.
Ascending(p) ==
  \A n \in DOMAIN p.nodes : \A i, k \in DOMAIN p.nodes[n].array :
    i < k => p.nodes[n].array[i].index < p.nodes[n].array[k].index
Numbered(p) ==
  /\ \A n \in DOMAIN p.nodes : \A k \in DOMAIN p.nodes[n].object :
       p.nodes[n].object[k].id \in 1..p.edges
  /\ \A n, m \in DOMAIN p.nodes :
       \A k \in DOMAIN p.nodes[n].object, l \in DOMAIN p.nodes[m].object :
         p.nodes[n].object[k].id = p.nodes[m].object[l].id => n = m /\ k = l

-----------------------------------------------------------------------------
(* Sorted insertion. *)

LEMMA MinIs ==
  ASSUME NEW T, T \subseteq Nat, NEW x \in T
  PROVE  Min(T) \in T /\ Min(T) <= x /\ \A y \in T : Min(T) <= y
<1> DEFINE R == {ss \in Nat \X Nat : ss[1] < ss[2]}
<1>1. IsWellFoundedOn(R, Nat)
  BY NatLessThanWellFounded DEF OpToRel
<1> HIDE DEF R
<1>2. PICK z \in T : \A y \in T : ~(<<y, z>> \in R)
  BY <1>1, WFMin
<1>3. \A y \in T : ~(y < z)
  BY <1>2 DEF R
<1>4. \A y \in T : z <= y
  BY <1>3
<1>5. QED
  BY <1>4 DEF Min

LEMMA MaxIs ==
  ASSUME NEW n \in Nat, NEW T, T \subseteq 0..n, T # {}
  PROVE  Max(T) \in T /\ \A y \in T : y <= Max(T)
<1> DEFINE U == {n - y : y \in T}
<1>1. U \subseteq Nat /\ U # {}
  <2>1. \A y \in T : n - y \in Nat
    OBVIOUS
  <2>2. QED
    BY <2>1
<1>2. PICK z \in T : Min(U) = n - z
  BY <1>1, MinIs
<1>3. \A y \in T : y <= z
  <2> SUFFICES ASSUME NEW y \in T PROVE y <= z
    OBVIOUS
  <2>1. n - y \in U
    OBVIOUS
  <2> HIDE DEF U
  <2>2. Min(U) <= n - y
    BY <1>1, <2>1, MinIs
  <2>3. QED
    BY <1>2, <2>2
<1>4. QED
  BY <1>3 DEF Max

\* An ascending sequence is cut by the lower bound.
LEMMA LowerBoundIs ==
  ASSUME NEW s \in Seq(Nat), \A i, k \in DOMAIN s : i < k => s[i] < s[k], NEW n \in Nat
  PROVE  /\ LowerBound(s, n) \in 1..(Len(s) + 1)
         /\ \A i \in DOMAIN s : i < LowerBound(s, n) <=> s[i] < n
<1> DEFINE T == {i \in DOMAIN s : s[i] < n}
           U == {i \in 1..(Len(s) + 1) : i \notin T}
           m == Min(U)
<1>1. Len(s) \in Nat /\ DOMAIN s = 1..Len(s) /\ \A i \in DOMAIN s : s[i] \in Nat
  BY ElementOfSeq
<1>2. Len(s) + 1 \in U /\ U \subseteq Nat
  BY <1>1
<1>3. m \in U /\ \A i \in U : m <= i
  BY <1>2, MinIs
<1>4. T = 1..(m - 1)
  <2>1. ASSUME NEW i \in 1..(m - 1)
        PROVE  i \in T
    <3>1. i \in 1..(Len(s) + 1) /\ ~(m <= i)
      BY <1>1, <1>3
    <3>2. QED
      BY <1>3, <3>1
  <2>2. ASSUME NEW i \in T, ~(i < m)
        PROVE  FALSE
    <3>1. i \in 1..Len(s) /\ s[i] < n /\ m \in 1..Len(s) /\ m <= i
      BY <1>1, <1>3, <2>2
    <3>2. m \notin T /\ m \in DOMAIN s
      BY <1>1, <1>3, <3>1
    <3>3. ~(s[m] < n)
      BY <3>2
    <3>4. m # i /\ m < i
      BY <3>1, <3>3
    <3>5. s[m] < s[i]
      BY <3>2, <3>4
    <3>6. QED
      BY <1>1, <3>1, <3>2, <3>3, <3>5
  <2>3. \A i \in T : i \in 1..(m - 1)
    <3>1. \A i \in T : i < m /\ i \in Nat \ {0}
      BY <1>1, <2>2
    <3>2. m \in Nat
      BY <1>1, <1>3
    <3> HIDE DEF T, m
    <3>3. QED
      BY <3>1, <3>2
  <2>4. QED
    BY <2>1, <2>3
<1>5. LowerBound(s, n) = m
  <2>1. m \in Nat \ {0} /\ Cardinality(1..(m - 1)) = m - 1
    <3>1. m \in Nat \ {0}
      BY <1>1, <1>3
    <3> HIDE DEF m
    <3>2. m - 1 \in Int /\ (1 > m - 1 <=> m = 1)
      BY <3>1
    <3>3. Cardinality(1..(m - 1)) = IF 1 > m - 1 THEN 0 ELSE (m - 1) - 1 + 1
      BY <3>2, FS_Interval
    <3>4. QED
      BY <3>1, <3>2, <3>3
  <2>2. LowerBound(s, n) = Cardinality(T) + 1
    BY DEF LowerBound
  <2> HIDE DEF T, U, m
  <2>3. QED
    BY <1>4, <2>1, <2>2
<1>6. m \in 1..(Len(s) + 1)
  BY <1>3
<1>7. \A i \in DOMAIN s : i < m <=> s[i] < n
  <2>1. \A i \in DOMAIN s : i \in T <=> s[i] < n
    OBVIOUS
  <2> HIDE DEF T, U, m
  <2>2. QED
    BY <1>1, <1>4, <1>6, <2>1
<1> HIDE DEF m
<1>8. QED
  BY <1>5, <1>6, <1>7

\* The sequence t is s with x inserted before its i-th element.
Insertion(t, s, i, x, l) ==
  /\ l = Len(s) /\ l \in Nat /\ Len(t) = l + 1 /\ DOMAIN t = 1..(l + 1)
  /\ t[i] = x
  /\ \A k \in 1..(i - 1) : t[k] = s[k]
  /\ \A k \in (i + 1)..(l + 1) : t[k] = s[k - 1]

LEMMA InsertedAt ==
  ASSUME NEW S, NEW s \in Seq(S), NEW i \in 1..(Len(s) + 1), NEW x \in S
  PROVE  InsertAt(s, i, x) \in Seq(S) /\ Insertion(InsertAt(s, i, x), s, i, x, Len(s))
<1> DEFINE a == SubSeq(s, 1, i - 1)
           b == SubSeq(s, i, Len(s))
           l == Len(s)
           t == InsertAt(s, i, x)
<1>1. l \in Nat /\ \A k \in 1..l : s[k] \in S
  BY ElementOfSeq
<1>2. a \in Seq(S) /\ Len(a) = i - 1 /\ \A k \in 1..(i - 1) : a[k] = s[k]
  <2>1. \A k \in 1..(i - 1) : s[k] \in S
    BY <1>1
  <2>2. /\ a \in Seq(S)
        /\ Len(a) = IF 1 <= i - 1 THEN (i - 1) - 1 + 1 ELSE 0
        /\ \A k \in 1..((i - 1) - 1 + 1) : a[k] = s[1 + k - 1]
    BY <1>1, <2>1, SubSeqProperties
  <2> HIDE DEF a
  <2>3. (i - 1) - 1 + 1 = i - 1 /\ i - 1 \in Nat /\ (1 <= i - 1 <=> i - 1 # 0)
    BY <1>1
  <2>4. Len(a) = i - 1
    BY <2>2, <2>3
  <2>5. \A k \in 1..(i - 1) : a[k] = s[k]
    <3>1. \A k \in 1..(i - 1) : 1 + k - 1 = k
      BY <2>3
    <3>2. QED
      BY <2>2, <2>3, <3>1
  <2>6. QED
    BY <2>2, <2>4, <2>5
<1>3. b \in Seq(S) /\ Len(b) = l - i + 1 /\ \A k \in 1..(l - i + 1) : b[k] = s[i + k - 1]
  <2>1. \A k \in i..l : s[k] \in S
    BY <1>1
  <2>2. /\ b \in Seq(S)
        /\ Len(b) = IF i <= l THEN l - i + 1 ELSE 0
        /\ \A k \in 1..(l - i + 1) : b[k] = s[i + k - 1]
    BY <1>1, <2>1, SubSeqProperties
  <2> HIDE DEF b, l
  <2>3. i \in 1..(l + 1)
    BY DEF l
  <2>4. Len(b) = l - i + 1
    BY <1>1, <2>2, <2>3
  <2>5. QED
    BY <2>2, <2>4
<1>4. /\ a \o <<x>> \in Seq(S) /\ Len(a \o <<x>>) = i
      /\ (a \o <<x>>)[i] = x /\ \A k \in 1..(i - 1) : (a \o <<x>>)[k] = s[k]
  <2> DEFINE e == <<x>>
             d == a \o e
  <2>1. e \in Seq(S) /\ Len(e) = 1 /\ e[1] = x
    OBVIOUS
  <2> HIDE DEF a, e
  <2>2. /\ d \in Seq(S) /\ Len(d) = Len(a) + Len(e)
        /\ \A k \in 1..(Len(a) + Len(e)) : d[k] = IF k <= Len(a) THEN a[k] ELSE e[k - Len(a)]
    BY <1>2, <2>1, ConcatProperties
  <2> HIDE DEF d
  <2>3. i \in Nat /\ i - 1 \in Nat /\ i \in 1..(Len(a) + Len(e)) /\ i - Len(a) = 1
    BY <1>1, <1>2, <2>1
  <2>4. Len(d) = i
    BY <1>2, <2>1, <2>2, <2>3
  <2>5. d[i] = x
    BY <1>2, <2>1, <2>2, <2>3
  <2>6. \A k \in 1..(i - 1) : d[k] = s[k]
    BY <1>2, <2>1, <2>2, <2>3
  <2>7. QED
    BY <2>2, <2>4, <2>5, <2>6 DEF d, e
<1> DEFINE c == a \o <<x>>
<1>5. /\ t \in Seq(S) /\ Len(t) = Len(c) + Len(b)
      /\ \A k \in 1..(Len(c) + Len(b)) : t[k] = IF k <= Len(c) THEN c[k] ELSE b[k - Len(c)]
  <2>1. t = c \o b
    BY DEF InsertAt
  <2>2. c \in Seq(S)
    BY <1>4
  <2> HIDE DEF c, b
  <2>3. /\ c \o b \in Seq(S) /\ Len(c \o b) = Len(c) + Len(b)
        /\ \A k \in 1..(Len(c) + Len(b)) :
             (c \o b)[k] = IF k <= Len(c) THEN c[k] ELSE b[k - Len(c)]
    BY <1>3, <2>2, ConcatProperties, Zenon
  <2> HIDE DEF t
  <2>4. QED
    BY <2>1, <2>3, Zenon
<1>6. Len(c) = i /\ c[i] = x /\ \A k \in 1..(i - 1) : c[k] = s[k]
  BY <1>4
<1> HIDE DEF a, b, c, t, l
<1>7. Len(t) = l + 1 /\ DOMAIN t = 1..(l + 1)
  BY <1>1, <1>3, <1>5, <1>6, ElementOfSeq
<1>8. t[i] = x /\ \A k \in 1..(i - 1) : t[k] = s[k]
  BY <1>1, <1>3, <1>5, <1>6
<1>9. \A k \in (i + 1)..(l + 1) : t[k] = s[k - 1]
  <2> SUFFICES ASSUME NEW k \in (i + 1)..(l + 1) PROVE t[k] = s[k - 1]
    OBVIOUS
  <2>1. t[k] = b[k - i]
    BY <1>1, <1>3, <1>5, <1>6
  <2>2. k - i \in 1..(l - i + 1) /\ i + (k - i) - 1 = k - 1
    BY <1>1
  <2>3. b[k - i] = s[i + (k - i) - 1]
    BY <1>3, <2>2
  <2>4. QED
    BY <2>1, <2>2, <2>3
<1>10. QED
  BY <1>1, <1>5, <1>7, <1>8, <1>9 DEF t, l, Insertion

LEMMA NoLength ==
  ASSUME NEW S, NEW s \in Seq(S)
  PROVE  s = <<>> <=> Len(s) = 0
BY EmptySeq

\* An insertion adds the element and loses none.
OneMore(t, s, x) ==
  \A y : (\E k \in DOMAIN t : t[k] = y) <=> (y = x \/ \E k \in DOMAIN s : s[k] = y)

LEMMA InsertionRange ==
  ASSUME NEW t, NEW s, NEW x, NEW l, NEW i \in 1..(l + 1), Insertion(t, s, i, x, l),
         DOMAIN s = 1..l
  PROVE  OneMore(t, s, x)
<1>1. /\ l \in Nat /\ DOMAIN t = 1..(l + 1) /\ t[i] = x
      /\ \A k \in 1..(i - 1) : t[k] = s[k]
      /\ \A k \in (i + 1)..(l + 1) : t[k] = s[k - 1]
  BY DEF Insertion
<1>2. ASSUME NEW k \in 1..(l + 1)
      PROVE  t[k] = x \/ \E m \in 1..l : s[m] = t[k]
  <2>1. CASE k < i
    <3>1. k \in 1..(i - 1) /\ k \in 1..l
      BY <1>1, <2>1
    <3>2. QED
      BY <1>1, <3>1
  <2>2. CASE k > i
    <3>1. k \in (i + 1)..(l + 1) /\ k - 1 \in 1..l
      BY <1>1, <2>2
    <3>2. QED
      BY <1>1, <3>1
  <2>3. QED
    BY <1>1, <2>1, <2>2
<1>3. ASSUME NEW k \in 1..l
      PROVE  \E m \in 1..(l + 1) : t[m] = s[k]
  <2>1. CASE k < i
    <3>1. k \in 1..(i - 1) /\ k \in 1..(l + 1)
      BY <1>1, <2>1
    <3>2. QED
      BY <1>1, <3>1
  <2>2. CASE ~(k < i)
    <3>1. k + 1 \in (i + 1)..(l + 1) /\ k + 1 \in 1..(l + 1) /\ (k + 1) - 1 = k
      BY <1>1, <2>2
    <3>2. t[k + 1] = s[(k + 1) - 1]
      BY <1>1, <3>1
    <3>3. QED
      BY <3>1, <3>2
  <2>3. QED
    BY <2>1, <2>2
<1>4. QED
  BY <1>1, <1>2, <1>3 DEF OneMore

\* A number that is new to an ascending sequence is inserted where it belongs.
LEMMA InsertionInOrder ==
  ASSUME NEW s \in Seq(Nat), NEW T, InAscendingOrder(s, T), NEW n \in Nat, n \notin T,
         NEW t, NEW l, Insertion(t, s, LowerBound(s, n), n, l)
  PROVE  InAscendingOrder(t, T \cup {n})
<1> DEFINE i == LowerBound(s, n)
<1>1. /\ \A k, m \in DOMAIN s : k < m => s[k] < s[m]
      /\ l \in Nat /\ DOMAIN s = 1..l /\ \A k \in 1..l : s[k] \in Nat
      /\ T = {s[k] : k \in 1..l}
  BY ElementOfSeq DEF InAscendingOrder, ToSet, Insertion
<1>2. i \in 1..(l + 1) /\ \A k \in 1..l : k < i <=> s[k] < n
  BY <1>1, LowerBoundIs DEF Insertion
<1> HIDE DEF i
<1>3. /\ Len(t) = l + 1 /\ t[i] = n
      /\ \A k \in 1..(i - 1) : t[k] = s[k]
      /\ \A k \in (i + 1)..(l + 1) : t[k] = s[k - 1]
  BY DEF Insertion, i
<1>4. DOMAIN t = 1..(l + 1)
  BY DEF Insertion
<1>5. \A k \in 1..l : s[k] # n
  BY <1>1
<1>6. \A k \in 1..(l + 1) :
        /\ (k < i) => (k \in 1..l /\ t[k] = s[k])
        /\ (k > i) => (k - 1 \in 1..l /\ t[k] = s[k - 1])
  BY <1>1, <1>2, <1>3
<1>7. ASSUME NEW k \in 1..(l + 1), NEW m \in 1..(l + 1), k < m
      PROVE  t[k] < t[m]
  <2>1. CASE m < i
    <3>1. k \in 1..l /\ t[k] = s[k] /\ m \in 1..l /\ t[m] = s[m]
      BY <1>1, <1>2, <1>6, <1>7, <2>1
    <3>2. QED
      BY <1>1, <1>7, <3>1
  <2>2. CASE m = i
    <3>1. k < i /\ k \in 1..l /\ t[k] = s[k]
      BY <1>2, <1>6, <1>7, <2>2
    <3>2. s[k] < n
      BY <1>2, <3>1
    <3>3. QED
      BY <1>3, <2>2, <3>1, <3>2
  <2>3. CASE k = i
    <3>1. m > i /\ m - 1 \in 1..l /\ t[m] = s[m - 1] /\ ~(m - 1 < i)
      BY <1>2, <1>6, <1>7, <2>3
    <3>2. ~(s[m - 1] < n) /\ s[m - 1] # n /\ s[m - 1] \in Nat
      BY <1>1, <1>2, <1>5, <3>1
    <3>3. QED
      BY <1>3, <2>3, <3>1, <3>2
  <2>4. CASE k > i
    <3>1. /\ k - 1 \in 1..l /\ t[k] = s[k - 1] /\ m - 1 \in 1..l /\ t[m] = s[m - 1]
          /\ k - 1 < m - 1
      BY <1>1, <1>2, <1>6, <1>7, <2>4
    <3>2. QED
      BY <1>1, <3>1
  <2>5. CASE k < i /\ m > i
    <3>1. k \in 1..l /\ t[k] = s[k] /\ m - 1 \in 1..l /\ t[m] = s[m - 1]
      BY <1>6, <2>5
    <3>2. k < m - 1 \/ k = m - 1
      BY <1>2, <2>5
    <3>3. s[k] < n /\ ~(s[m - 1] < n) /\ s[k] \in Nat /\ s[m - 1] \in Nat
      BY <1>1, <1>2, <2>5, <3>1
    <3>4. QED
      BY <3>1, <3>3
  <2>6. QED
    BY <1>2, <1>7, <2>1, <2>2, <2>3, <2>4, <2>5
<1>8. {t[k] : k \in DOMAIN t} = T \cup {n}
  <2>1. \A y : (\E k \in DOMAIN t : t[k] = y) <=> (y = n \/ \E k \in DOMAIN s : s[k] = y)
    <3>1. Insertion(t, s, i, n, l) /\ i \in 1..(l + 1) /\ DOMAIN s = 1..l
      BY <1>1, <1>2 DEF i
    <3>2. OneMore(t, s, n)
      BY <3>1, InsertionRange, Zenon
    <3>3. QED
      BY <3>2 DEF OneMore
  <2>2. QED
    BY <1>1, <2>1
<1>9. InAscendingOrder(t, T \cup {n})
  BY <1>4, <1>7, <1>8 DEF InAscendingOrder, ToSet
<1>10. QED
  BY <1>9

LEMMA InsertedInOrder ==
  ASSUME NEW s \in Seq(Nat), NEW T, InAscendingOrder(s, T), NEW n \in Nat, n \notin T,
         NEW t, t = InsertAt(s, LowerBound(s, n), n)
  PROVE  t \in Seq(Nat) /\ InAscendingOrder(t, T \cup {n})
<1> DEFINE i == LowerBound(s, n)
<1>1. i \in 1..(Len(s) + 1) /\ t = InsertAt(s, i, n)
  BY LowerBoundIs DEF InAscendingOrder
<1> HIDE DEF i
<1>2. t \in Seq(Nat) /\ Insertion(t, s, i, n, Len(s))
  BY <1>1, InsertedAt, Zenon
<1>3. QED
  BY <1>2, InsertionInOrder DEF i

-----------------------------------------------------------------------------
(* A step down the tree. *)

\* The sequence t is s with x at its end.
Extension(t, s, x, l) ==
  /\ l = Len(s) /\ l \in Nat /\ DOMAIN s = 1..l
  /\ Len(t) = l + 1 /\ DOMAIN t = 1..(l + 1)
  /\ \A i \in 1..l : t[i] = s[i]
  /\ t[l + 1] = x

LEMMA Appended ==
  ASSUME NEW S, NEW s \in Seq(S), NEW x \in S
  PROVE  Append(s, x) \in Seq(S) /\ Extension(Append(s, x), s, x, Len(s))
<1> DEFINE t == Append(s, x)
           l == Len(s)
<1>1. /\ t \in Seq(S) /\ Len(t) = l + 1 /\ \A i \in 1..l : t[i] = s[i]
      /\ t[l + 1] = x
  BY AppendProperties
<1>2. l \in Nat /\ DOMAIN s = 1..l /\ DOMAIN t = 1..Len(t)
  BY <1>1, ElementOfSeq
<1> HIDE DEF t, l
<1>3. QED
  BY <1>1, <1>2 DEF Extension, t, l

LEMMA PathsDiffer ==
  ASSUME NEW a \in Path, NEW b \in Path, NEW s \in Segment, NEW t \in Segment,
         Append(a, s) = Append(b, t)
  PROVE  a = b /\ s = t
BY AppendInjective DEF Path

LEMMA NotEmpty ==
  ASSUME NEW a \in Path, NEW s \in Segment
  PROVE  Append(a, s) \in Path /\ Append(a, s) # <<>>
BY AppendProperties DEF Path

\* A node that hangs on a new edge of a node of the tree.
Hung(p, q, n0, seg, l) ==
  /\ Len(q.nodes) = l + 1
  /\ \A n \in 1..l, s \in Segment, c \in Nat :
       EdgeTo(q.nodes[n], s, c) <=>
         (EdgeTo(p.nodes[n], s, c) \/ (n = n0 /\ s = seg /\ c = l + 1))
  /\ \A s \in Segment, c \in Nat : ~EdgeTo(q.nodes[l + 1], s, c)
  /\ \A c \in Nat : ~EdgeTo(p.nodes[n0], seg, c)

\* A node that is hung on a new edge extends the tree by one path, a new one.
LEMMA NodeAdded ==
  ASSUME NEW p, NEW w, Trie(p, w), NEW n0 \in DOMAIN w, NEW seg \in Segment,
         NEW q \in Plans, Hung(p, q, n0, seg, Len(w))
  PROVE  LET x == Append(w[n0], seg) IN
         /\ x \in Path /\ \A n \in DOMAIN w : w[n] # x
         /\ Trie(q, Append(w, x))
<1> DEFINE x == Append(w[n0], seg)
           t == Append(w, x)
           l == Len(w)
<1>0. w \in Seq(Path) /\ l \in Nat /\ DOMAIN w = 1..l /\ \A n \in 1..l : w[n] \in Path
  BY ElementOfSeq DEF Trie
<1>1. x \in Path /\ x # <<>>
  BY <1>0, NotEmpty
<1>2. ASSUME NEW m \in DOMAIN w, w[m] = x
      PROVE  FALSE
  <2>1. m # 1 /\ m \in Nat
    BY <1>0, <1>1, <1>2 DEF Trie
  <2>2. PICK n \in 1..(m - 1), s \in Segment : w[m] = Append(w[n], s) /\ EdgeTo(p.nodes[n], s, m)
    BY <2>1 DEF Trie
  <2>3. n \in DOMAIN w
    BY <1>0, <2>1
  <2>4. w[n] = w[n0] /\ s = seg
    BY <1>0, <1>2, <2>2, <2>3, PathsDiffer
  <2>5. n = n0
    BY <2>3, <2>4 DEF Trie
  <2>6. QED
    BY <2>1, <2>2, <2>4, <2>5 DEF Hung
<1> HIDE DEF x
<1>3. t \in Seq(Path) /\ Extension(t, w, x, l)
  BY <1>0, <1>1, Appended
<1> HIDE DEF t, l
<1>4. /\ l \in Nat /\ l \in Nat \ {0} /\ DOMAIN w = 1..l /\ DOMAIN t = 1..(l + 1)
      /\ Len(t) = l + 1
      /\ \A i \in 1..l : t[i] = w[i]
      /\ t[l + 1] = x
  BY <1>0, <1>3 DEF Extension
<1>5. Len(t) = Len(q.nodes) /\ t # <<>> /\ t[1] = <<>>
  <2>1. Len(t) = Len(q.nodes)
    BY <1>4 DEF Hung, l
  <2>2. t # <<>>
    BY <1>4
  <2>3. 1 \in 1..l
    BY <1>4
  <2>4. QED
    BY <1>4, <2>1, <2>2, <2>3 DEF Trie
<1>6. ASSUME NEW n \in DOMAIN t, NEW m \in DOMAIN t, t[n] = t[m]
      PROVE  n = m
  <2>1. CASE n \in 1..l /\ m \in 1..l
    BY <1>4, <1>6, <2>1 DEF Trie
  <2>2. CASE n \in 1..l /\ m = l + 1
    BY <1>2, <1>4, <1>6, <2>2
  <2>3. CASE n = l + 1 /\ m \in 1..l
    BY <1>2, <1>4, <1>6, <2>3
  <2>4. QED
    BY <1>4, <2>1, <2>2, <2>3
<1>7. ASSUME NEW n \in DOMAIN t, NEW s \in Segment, NEW c \in Nat,
             EdgeTo(q.nodes[n], s, c)
      PROVE  c \in DOMAIN t /\ t[c] = Append(t[n], s)
  <2>1. n \in 1..l
    BY <1>4, <1>7 DEF Hung, l
  <2>2. CASE EdgeTo(p.nodes[n], s, c)
    <3>1. c \in DOMAIN w /\ w[c] = Append(w[n], s)
      BY <1>4, <2>1, <2>2 DEF Trie
    <3>2. QED
      BY <1>4, <2>1, <3>1
  <2>3. CASE n = n0 /\ s = seg /\ c = l + 1
    BY <1>4, <2>1, <2>3 DEF x
  <2>4. QED
    BY <1>7, <2>1, <2>2, <2>3 DEF Hung, l
<1>8. ASSUME NEW m \in DOMAIN t, m # 1
      PROVE  \E n \in 1..(m - 1), s \in Segment :
               t[m] = Append(t[n], s) /\ EdgeTo(q.nodes[n], s, m)
  <2>1. CASE m \in 1..l
    <3>1. PICK n \in 1..(m - 1), s \in Segment :
            w[m] = Append(w[n], s) /\ EdgeTo(p.nodes[n], s, m)
      BY <1>4, <1>8, <2>1 DEF Trie
    <3>2. n \in 1..l /\ m \in Nat
      BY <1>4, <2>1
    <3>3. EdgeTo(q.nodes[n], s, m)
      BY <3>1, <3>2 DEF Hung, l
    <3>4. QED
      BY <1>4, <2>1, <3>1, <3>2, <3>3
  <2>2. CASE m = l + 1
    <3>1. n0 \in 1..(m - 1) /\ n0 \in 1..l /\ l + 1 \in Nat
      BY <1>4, <2>2
    <3>2. EdgeTo(q.nodes[n0], seg, m)
      BY <2>2, <3>1 DEF Hung, l
    <3>3. QED
      BY <1>4, <2>2, <3>1, <3>2 DEF x
  <2>3. QED
    BY <1>4, <2>1, <2>2
<1>9. Trie(q, t)
  BY <1>3, <1>5, <1>6, <1>7, <1>8 DEF Trie
<1>10. QED
  BY <1>1, <1>2, <1>9 DEF x, t

\* The slots of the first k requests that end at a path.
Ending(k, path) == {s \in 0..(k - 1) : PathOf(request, s) = path}

\* The first k requests have their nodes, and these hold their slots.
Filled(p, w, k) ==
  /\ \A s \in 0..(k - 1) : \E n \in DOMAIN w : w[n] = PathOf(request, s)
  /\ \A n \in DOMAIN w : InAscendingOrder(p.nodes[n].slots, Ending(k, w[n]))

\* The plan when it holds k requests and the insertion is at one of its nodes.
Tree(p, w, k) ==
  /\ Trie(p, w) /\ Ascending(p) /\ Numbered(p) /\ p.at \in DOMAIN w
  /\ Filled(p, w, k)

\* One segment further, which may have added a node.
Stepped(p, w, q, v, seg) ==
  /\ v[q.at] = Append(w[p.at], seg)
  /\ {v[n] : n \in DOMAIN v} = {w[n] : n \in DOMAIN w} \cup {Append(w[p.at], seg)}

LEMMA NodeType ==
  ASSUME NEW node \in PlanNode
  PROVE  /\ DOMAIN node.object \subseteq Nat
         /\ \A k \in DOMAIN node.object : /\ node.object[k] \in ObjectEdge
                                          /\ node.object[k].child \in Nat
                                          /\ node.object[k].id \in Nat
         /\ node.array \in Seq(ArrayEdge) /\ Len(node.array) \in Nat
         /\ DOMAIN node.array = 1..Len(node.array)
         /\ \A i \in DOMAIN node.array : /\ node.array[i] \in ArrayEdge
                                         /\ node.array[i].index \in Nat
                                         /\ node.array[i].child \in Nat
         /\ node.slots \in Seq(Nat)
<1>1. PICK K \in SUBSET Nat : node.object \in [K -> ObjectEdge]
  BY DEF PlanNode, ObjectEdges
<1>2. /\ DOMAIN node.object \subseteq Nat
      /\ \A k \in DOMAIN node.object : node.object[k] \in ObjectEdge
  BY <1>1
<1>3. node.array \in Seq(ArrayEdge) /\ node.slots \in Seq(Nat)
  BY DEF PlanNode
<1> DEFINE a == node.array
<1>4. /\ Len(a) \in Nat /\ DOMAIN a = 1..Len(a)
      /\ \A i \in DOMAIN a : a[i] \in ArrayEdge
  BY <1>3, ElementOfSeq
<1> HIDE DEF a
<1>5. /\ \A e \in ObjectEdge : e.child \in Nat /\ e.id \in Nat
      /\ \A e \in ArrayEdge : e.index \in Nat /\ e.child \in Nat
  BY DEF ObjectEdge, ArrayEdge
<1>6. QED
  BY <1>2, <1>3, <1>4, <1>5 DEF a

LEMMA PlanType ==
  ASSUME NEW p \in Plans
  PROVE  /\ p.nodes \in Seq(PlanNode) /\ p.edges \in Nat /\ p.at \in Nat
         /\ Len(p.nodes) \in Nat /\ DOMAIN p.nodes = 1..Len(p.nodes)
         /\ \A n \in DOMAIN p.nodes : p.nodes[n] \in PlanNode
<1> DEFINE a == p.nodes
<1>1. a \in Seq(PlanNode) /\ p.edges \in Nat /\ p.at \in Nat
  BY DEF Plans
<1>2. Len(a) \in Nat /\ DOMAIN a = 1..Len(a) /\ \A n \in DOMAIN a : a[n] \in PlanNode
  BY <1>1, ElementOfSeq
<1>3. QED
  BY <1>1, <1>2

LEMMA EmptyNodeType ==
  /\ EmptyNode \in PlanNode /\ EmptyNode.slots = <<>>
  /\ DOMAIN EmptyNode.object = {} /\ DOMAIN EmptyNode.array = {}
  /\ \A s, c : ~EdgeTo(EmptyNode, s, c)
<1>1. <<>> \in Seq(ArrayEdge) /\ <<>> \in Seq(Nat) /\ <<>> \in Seq(ObjectEdge)
  BY EmptySeq
<1>2. DOMAIN <<>> = {}
  OBVIOUS
<1>3. <<>> \in ObjectEdges
  <2>1. <<>> \in [{} -> ObjectEdge]
    BY <1>1, <1>2
  <2>2. {} \in SUBSET Nat
    OBVIOUS
  <2>3. QED
    BY <2>1, <2>2 DEF ObjectEdges
<1>4. NoSlot \in Nat
  BY SourceAssumption DEF SourceAssumption
<1>5. EmptyNode \in PlanNode
  BY <1>1, <1>3, <1>4 DEF EmptyNode, PlanNode
<1>6. QED
  BY <1>2, <1>5 DEF EmptyNode, EdgeTo

\* Following an edge that exists.
LEMMA EdgeFollowed ==
  ASSUME NEW k, NEW p, NEW w, Tree(p, w, k), NEW seg \in Segment,
         NEW c \in Nat, EdgeTo(p.nodes[p.at], seg, c),
         NEW q, q = [p EXCEPT !.at = c]
  PROVE  Tree(q, w, k) /\ Stepped(p, w, q, w, seg)
<1>1. p \in Plans /\ p.at \in DOMAIN w
  BY DEF Tree, Trie
<1>2. q \in Plans /\ q.nodes = p.nodes /\ q.edges = p.edges /\ q.at = c
  BY <1>1 DEF Plans
<1>3. c \in DOMAIN w /\ w[c] = Append(w[p.at], seg)
  BY <1>1 DEF Tree, Trie
<1>4. Trie(q, w)
  <2>1. Trie(p, w)
    BY DEF Tree
  <2>2. QED
    BY <1>2, <2>1 DEF Trie
<1>5. Ascending(q) /\ Numbered(q) /\ Filled(q, w, k)
  BY <1>2 DEF Tree, Ascending, Numbered, Filled
<1>6. Stepped(p, w, q, w, seg)
  BY <1>2, <1>3 DEF Stepped
<1>7. QED
  BY <1>2, <1>3, <1>4, <1>5, <1>6 DEF Tree

\* A node is added, and the one the insertion has reached becomes nd.
Changed(ns, p, nd, l) ==
  /\ l = Len(p.nodes) /\ l \in Nat /\ DOMAIN p.nodes = 1..l
  /\ Len(ns) = l + 1 /\ DOMAIN ns = 1..(l + 1)
  /\ p.at \in 1..l /\ ns[p.at] = nd /\ ns[l + 1] = EmptyNode
  /\ \A n \in 1..l : n # p.at => ns[n] = p.nodes[n]

LEMMA NodesChanged ==
  ASSUME NEW p \in Plans, p.at \in DOMAIN p.nodes, NEW nd \in PlanNode,
         NEW ns, ns = [Append(p.nodes, EmptyNode) EXCEPT ![p.at] = nd]
  PROVE  ns \in Seq(PlanNode) /\ Changed(ns, p, nd, Len(p.nodes))
<1> DEFINE a == Append(p.nodes, EmptyNode)
           l == Len(p.nodes)
<1>1. p.nodes \in Seq(PlanNode) /\ EmptyNode \in PlanNode
  BY PlanType, EmptyNodeType
<1>2. a \in Seq(PlanNode) /\ Extension(a, p.nodes, EmptyNode, l)
  BY <1>1, Appended
<1> HIDE DEF a, l
<1>3. /\ l \in Nat /\ DOMAIN p.nodes = 1..l /\ Len(a) = l + 1 /\ DOMAIN a = 1..(l + 1)
      /\ \A i \in 1..l : a[i] = p.nodes[i]
      /\ a[l + 1] = EmptyNode
  BY <1>2 DEF Extension
<1> DEFINE b == [a EXCEPT ![p.at] = nd]
<1>4. p.at \in 1..l /\ p.at \in 1..Len(a)
  BY <1>3
<1>5. b \in Seq(PlanNode) /\ Len(b) = Len(a) /\ \A i \in 1..Len(a) : b[i] = IF i = p.at THEN nd ELSE a[i]
  BY <1>2, <1>4, ExceptSeq
<1>6. ns = b
  BY DEF a
<1> HIDE DEF b
<1>7. DOMAIN b = 1..(l + 1)
  BY <1>3, <1>5, ElementOfSeq
<1>8. b[p.at] = nd /\ \A n \in 1..l : n # p.at => b[n] = p.nodes[n]
  BY <1>3, <1>4, <1>5
<1>9. b[l + 1] = EmptyNode
  BY <1>3, <1>4, <1>5
<1>10. QED
  BY <1>3, <1>4, <1>5, <1>6, <1>7, <1>8, <1>9 DEF Changed, l

\* What a node must be for a new node to hang on its edge for the segment.
Hook(nd, node, seg, l) ==
  /\ nd.slots = node.slots
  /\ \A s \in Segment, c \in Nat :
       EdgeTo(nd, s, c) <=> (EdgeTo(node, s, c) \/ (s = seg /\ c = l + 1))
  /\ \A c \in Nat : ~EdgeTo(node, seg, c)
  /\ \A i, k \in DOMAIN nd.array : i < k => nd.array[i].index < nd.array[k].index

\* No request ends at a path the tree does not have.
LEMMA NothingEnds ==
  ASSUME NEW k, NEW p, NEW w, Filled(p, w, k), NEW path, \A n \in DOMAIN w : w[n] # path
  PROVE  InAscendingOrder(<<>>, Ending(k, path))
<1>1. Ending(k, path) = {}
  BY DEF Filled, Ending
<1>2. ToSet(<<>>) = {} /\ DOMAIN <<>> = {}
  BY DEF ToSet
<1>3. QED
  BY <1>1, <1>2 DEF InAscendingOrder

LEMMA NodeHooked ==
  ASSUME NEW k, NEW p, NEW w, Tree(p, w, k), NEW seg \in Segment,
         NEW nd \in PlanNode, Hook(nd, p.nodes[p.at], seg, Len(p.nodes)),
         NEW q \in Plans, Changed(q.nodes, p, nd, Len(p.nodes)),
         q.at = Len(p.nodes) + 1, Numbered(q)
  PROVE  \E v : Tree(q, v, k) /\ Stepped(p, w, q, v, seg)
<1> DEFINE l == Len(p.nodes)
           x == Append(w[p.at], seg)
           v == Append(w, x)
<1>0. /\ p \in Plans /\ w \in Seq(Path) /\ Len(w) = l /\ DOMAIN w = 1..l /\ l \in Nat
      /\ p.at \in 1..l
  BY ElementOfSeq DEF Tree, Trie, Changed
<1> HIDE DEF l
<1>1. /\ Len(q.nodes) = l + 1 /\ DOMAIN q.nodes = 1..(l + 1)
      /\ q.nodes[p.at] = nd /\ q.nodes[l + 1] = EmptyNode
      /\ \A n \in 1..l : n # p.at => q.nodes[n] = p.nodes[n]
      /\ q.at = l + 1 /\ DOMAIN p.nodes = 1..l
  BY DEF Changed, l
<1>2. /\ nd.slots = p.nodes[p.at].slots
      /\ \A s \in Segment, c \in Nat :
           EdgeTo(nd, s, c) <=> (EdgeTo(p.nodes[p.at], s, c) \/ (s = seg /\ c = l + 1))
      /\ \A c \in Nat : ~EdgeTo(p.nodes[p.at], seg, c)
      /\ \A i, j \in DOMAIN nd.array : i < j => nd.array[i].index < nd.array[j].index
  BY DEF Hook, l
<1>3. Hung(p, q, p.at, seg, Len(w))
  <2>1. \A n \in 1..l, s \in Segment, c \in Nat :
          EdgeTo(q.nodes[n], s, c) <=>
            (EdgeTo(p.nodes[n], s, c) \/ (n = p.at /\ s = seg /\ c = l + 1))
    BY <1>0, <1>1, <1>2
  <2>2. \A s \in Segment, c \in Nat : ~EdgeTo(q.nodes[l + 1], s, c)
    BY <1>1, EmptyNodeType
  <2>3. QED
    BY <1>0, <1>1, <1>2, <2>1, <2>2 DEF Hung
<1>4. x \in Path /\ (\A n \in DOMAIN w : w[n] # x) /\ Trie(q, v)
  BY <1>0, <1>3, NodeAdded DEF Tree
<1> HIDE DEF x
<1>5. v \in Seq(Path) /\ Extension(v, w, x, Len(w))
  BY <1>0, <1>4, Appended
<1> HIDE DEF v
<1>6. /\ DOMAIN v = 1..(l + 1) /\ v[l + 1] = x
      /\ \A i \in 1..l : v[i] = w[i]
  BY <1>0, <1>5 DEF Extension
<1>7. Ascending(q)
  <2> SUFFICES ASSUME NEW n \in DOMAIN q.nodes, NEW i \in DOMAIN q.nodes[n].array,
                      NEW j \in DOMAIN q.nodes[n].array, i < j
               PROVE  q.nodes[n].array[i].index < q.nodes[n].array[j].index
    BY DEF Ascending
  <2>1. CASE n = p.at
    BY <1>1, <1>2, <2>1
  <2>2. CASE n = l + 1
    BY <1>1, <2>2, EmptyNodeType
  <2>3. CASE n \in 1..l /\ n # p.at
    BY <1>1, <2>3 DEF Tree, Ascending
  <2>4. QED
    BY <1>0, <1>1, <2>1, <2>2, <2>3
<1>8. Filled(q, v, k)
  <2>1. ASSUME NEW s \in 0..(k - 1)
        PROVE  \E n \in DOMAIN v : v[n] = PathOf(request, s)
    <3>1. PICK n \in DOMAIN w : w[n] = PathOf(request, s)
      BY DEF Tree, Filled
    <3>2. n \in DOMAIN v /\ v[n] = w[n]
      BY <1>0, <1>6, <3>1
    <3>3. QED
      BY <3>1, <3>2
  <2>2. ASSUME NEW n \in DOMAIN v
        PROVE  InAscendingOrder(q.nodes[n].slots, Ending(k, v[n]))
    <3>1. CASE n \in 1..l
      <4>1. q.nodes[n].slots = p.nodes[n].slots /\ v[n] = w[n]
        BY <1>1, <1>2, <1>6, <3>1
      <4>2. InAscendingOrder(p.nodes[n].slots, Ending(k, w[n]))
        BY <1>0, <3>1 DEF Tree, Filled
      <4>3. QED
        BY <4>1, <4>2
    <3>2. CASE n = l + 1
      <4>1. q.nodes[n].slots = <<>> /\ v[n] = x
        BY <1>1, <1>6, <3>2, EmptyNodeType
      <4>2. InAscendingOrder(<<>>, Ending(k, x))
        BY <1>4, NothingEnds DEF Tree
      <4>3. QED
        BY <4>1, <4>2
    <3>3. QED
      BY <1>0, <1>6, <3>1, <3>2
  <2>3. QED
    BY <2>1, <2>2 DEF Filled
<1>9. Stepped(p, w, q, v, seg)
  <2>1. {v[n] : n \in DOMAIN v} = {w[n] : n \in DOMAIN w} \cup {x}
    BY <1>0, <1>6
  <2>2. v[q.at] = x
    BY <1>1, <1>6
  <2>3. QED
    BY <2>1, <2>2 DEF Stepped, x
<1>10. QED
  <2>1. q.at \in DOMAIN v
    BY <1>0, <1>1, <1>6
  <2>2. Tree(q, v, k)
    BY <1>4, <1>7, <1>8, <2>1 DEF Tree
  <2>3. QED
    BY <1>9, <2>2

\* A key of a path: its member's node is found, or added at the end.
LEMMA ObjectStep ==
  ASSUME NEW k, NEW p, NEW w, Tree(p, w, k), NEW seg \in Segment, seg.tag = "key",
         NEW q, q = ObjectChild(p, seg.value)
  PROVE  \E v : Tree(q, v, k) /\ Stepped(p, w, q, v, seg)
<1> DEFINE node == p.nodes[p.at]
           key == seg.value
           l == Len(p.nodes)
<1>1. /\ p \in Plans /\ p.at \in DOMAIN p.nodes /\ l \in Nat /\ DOMAIN p.nodes = 1..l
      /\ p.edges \in Nat /\ node \in PlanNode /\ key \in Nat
  <2>1. p \in Plans /\ p.at \in DOMAIN p.nodes
    BY PlanType, ElementOfSeq DEF Tree, Trie
  <2>2. key \in Nat
    BY DEF Segment
  <2>3. QED
    BY <2>1, <2>2, PlanType
<1>2. CASE key \in DOMAIN node.object
  <2>1. node.object[key].child \in Nat
    BY <1>1, <1>2, NodeType
  <2>2. EdgeTo(node, seg, node.object[key].child)
    BY <1>2 DEF EdgeTo
  <2>3. q = [p EXCEPT !.at = node.object[key].child]
    BY <1>2 DEF ObjectChild
  <2> HIDE DEF node, key
  <2>4. QED
    BY <2>1, <2>2, <2>3, EdgeFollowed DEF node
<1>3. CASE key \notin DOMAIN node.object
  <2> DEFINE edge == [child |-> l + 1, id |-> p.edges + 1]
             f == [m \in {key} \cup DOMAIN node.object |->
                     IF m = key THEN edge ELSE node.object[m]]
             nd == [node EXCEPT !.object = f]
             ns == [Append(p.nodes, EmptyNode) EXCEPT ![p.at] = nd]
  <2>1. Append(p.nodes, EmptyNode)[p.at] = node
    <3>1. p.nodes \in Seq(PlanNode) /\ EmptyNode \in PlanNode
      BY <1>1, PlanType, EmptyNodeType
    <3>2. QED
      BY <1>1, <3>1, AppendProperties
  <2>2. q = [nodes |-> ns, edges |-> p.edges + 1, at |-> l + 1]
    <3>1. q = [CreateNode(p) EXCEPT !.nodes[p.at].object = f,
                                    !.edges = @ + 1, !.at = l + 1]
      BY <1>3 DEF ObjectChild
    <3> DEFINE a == Append(p.nodes, EmptyNode)
    <3>2. CreateNode(p) = [p EXCEPT !.nodes = a] /\ a[p.at] = node
      BY <2>1 DEF CreateNode
    <3> DEFINE c == CreateNode(p)
               b == [a EXCEPT ![p.at] = [a[p.at] EXCEPT !.object = f]]
               e == p.edges + 1
    <3> HIDE DEF f, l, a, node, c
    <3>3. c = [nodes |-> a, edges |-> p.edges, at |-> p.at]
      BY <1>1, <3>2 DEF Plans, c
    <3>4. c.nodes = a /\ c.edges = p.edges
      BY <3>3
    <3>5. q = [[[c EXCEPT !.nodes = b] EXCEPT !.edges = e] EXCEPT !.at = l + 1]
      BY <3>1, <3>4, Zenon DEF c
    <3> HIDE DEF b, e
    <3>6. q = [nodes |-> b, edges |-> e, at |-> l + 1]
      BY <3>3, <3>5
    <3>7. QED
      BY <3>2, <3>6 DEF a, b, e
  <2>3. /\ \A m \in DOMAIN node.object : /\ node.object[m] \in ObjectEdge
                                         /\ node.object[m].child \in Nat
                                         /\ node.object[m].id \in Nat
        /\ DOMAIN node.object \subseteq Nat
    BY <1>1, NodeType
  <2>4. edge \in ObjectEdge
    BY <1>1 DEF ObjectEdge
  <2>5. f \in [{key} \cup DOMAIN node.object -> ObjectEdge]
    BY <2>3, <2>4
  <2>6. f \in ObjectEdges
    BY <1>1, <2>3, <2>5 DEF ObjectEdges
  <2>7. /\ nd \in PlanNode /\ nd.object = f /\ nd.array = node.array
        /\ nd.slots = node.slots
    <3> HIDE DEF f, node
    <3>1. QED
      BY <1>1, <2>6 DEF PlanNode
  <2>8. /\ DOMAIN f = {key} \cup DOMAIN node.object /\ f[key] = edge
        /\ \A m \in DOMAIN node.object : f[m] = node.object[m]
    BY <1>3
  <2>9. edge.child = l + 1 /\ edge.id = p.edges + 1
    OBVIOUS
  <2> HIDE DEF f, nd, edge
  <2>10. ns \in Seq(PlanNode) /\ Changed(ns, p, nd, l)
    BY <1>1, <2>7, NodesChanged
  <2> HIDE DEF ns
  <2>11. /\ q \in Plans /\ q.nodes = ns /\ q.at = l + 1 /\ q.edges = p.edges + 1
         /\ Changed(q.nodes, p, nd, l)
    BY <1>1, <2>2, <2>10 DEF Plans
  <2>12. \A n \in DOMAIN p.nodes : \A m \in DOMAIN p.nodes[n].object :
           p.nodes[n].object[m].id \in 1..p.edges
    BY DEF Tree, Numbered
  <2> HIDE DEF l, node, key
  <2>13. Hook(nd, node, seg, l)
    <3>1. ASSUME NEW s \in Segment, NEW c \in Nat
          PROVE  EdgeTo(nd, s, c) <=> (EdgeTo(node, s, c) \/ (s = seg /\ c = l + 1))
      <4>1. s = seg <=> (s.tag = seg.tag /\ s.value = seg.value)
        BY DEF Segment
      <4>2. seg.tag = "key" /\ seg.value = key
        BY DEF key
      <4>3. CASE s.tag = "key"
        <5>1. EdgeTo(nd, s, c) <=> (s.value \in DOMAIN f /\ f[s.value].child = c)
          BY <2>7, <4>3 DEF EdgeTo
        <5>2. EdgeTo(node, s, c) <=>
                (s.value \in DOMAIN node.object /\ node.object[s.value].child = c)
          BY <4>3 DEF EdgeTo
        <5>3. CASE s.value = key
          BY <1>3, <2>8, <2>9, <4>1, <4>2, <4>3, <5>1, <5>2, <5>3
        <5>4. CASE s.value # key
          BY <2>8, <4>1, <4>2, <5>1, <5>2, <5>4
        <5>5. QED
          BY <5>3, <5>4
      <4>4. CASE s.tag # "key"
        BY <2>7, <4>2, <4>4 DEF EdgeTo
      <4>5. QED
        BY <4>3, <4>4
    <3>2. \A c \in Nat : ~EdgeTo(node, seg, c)
      BY <1>3 DEF EdgeTo, key
    <3>3. \A i, j \in DOMAIN nd.array : i < j => nd.array[i].index < nd.array[j].index
      BY <1>1, <2>7 DEF Tree, Ascending, node
    <3>4. QED
      BY <2>7, <3>1, <3>2, <3>3 DEF Hook
  <2>14. /\ DOMAIN q.nodes = 1..(l + 1) /\ q.nodes[p.at] = nd
         /\ q.nodes[l + 1] = EmptyNode /\ p.at \in 1..l
         /\ \A n \in 1..l : n # p.at => q.nodes[n] = p.nodes[n]
    BY <2>11 DEF Changed
  \* An edge of the new plan is the new one, or has the number it had.
  <2>15. ASSUME NEW n \in DOMAIN q.nodes, NEW m \in DOMAIN q.nodes[n].object
         PROVE  \/ n = p.at /\ m = key /\ q.nodes[n].object[m].id = p.edges + 1
                \/ /\ n \in DOMAIN p.nodes /\ m \in DOMAIN p.nodes[n].object
                   /\ q.nodes[n].object[m].id = p.nodes[n].object[m].id
                   /\ q.nodes[n].object[m].id \in 1..p.edges
    <3>1. CASE n = p.at
      <4>1. q.nodes[n].object = f /\ node = p.nodes[n] /\ n \in DOMAIN p.nodes
        BY <1>1, <2>7, <2>14, <3>1 DEF node
      <4>2. CASE m = key
        BY <2>8, <2>9, <3>1, <4>1, <4>2
      <4>3. CASE m # key
        <5>1. m \in DOMAIN node.object /\ f[m] = node.object[m]
          BY <2>8, <4>1, <4>3
        <5>2. node.object[m].id \in 1..p.edges
          BY <2>12, <4>1, <5>1
        <5>3. QED
          BY <4>1, <5>1, <5>2
      <4>4. QED
        BY <4>2, <4>3
    <3>2. CASE n = l + 1
      BY <2>14, <3>2, EmptyNodeType
    <3>3. CASE n \in 1..l /\ n # p.at
      BY <1>1, <2>12, <2>14, <3>3
    <3>4. QED
      BY <1>1, <2>14, <3>1, <3>2, <3>3
  <2>16. Numbered(q)
    <3>1. ASSUME NEW n \in DOMAIN q.nodes, NEW m \in DOMAIN q.nodes[n].object
          PROVE  q.nodes[n].object[m].id \in 1..q.edges
      BY <1>1, <2>11, <2>15
    <3>2. ASSUME NEW n \in DOMAIN q.nodes, NEW m \in DOMAIN q.nodes[n].object,
                 NEW n2 \in DOMAIN q.nodes, NEW m2 \in DOMAIN q.nodes[n2].object,
                 q.nodes[n].object[m].id = q.nodes[n2].object[m2].id
          PROVE  n = n2 /\ m = m2
      <4>1. p.edges + 1 \notin 1..p.edges
        BY <1>1
      <4>2. \/ n = p.at /\ m = key /\ q.nodes[n].object[m].id = p.edges + 1
            \/ /\ n \in DOMAIN p.nodes /\ m \in DOMAIN p.nodes[n].object
               /\ q.nodes[n].object[m].id = p.nodes[n].object[m].id
               /\ q.nodes[n].object[m].id \in 1..p.edges
        BY <2>15
      <4>3. \/ n2 = p.at /\ m2 = key /\ q.nodes[n2].object[m2].id = p.edges + 1
            \/ /\ n2 \in DOMAIN p.nodes /\ m2 \in DOMAIN p.nodes[n2].object
               /\ q.nodes[n2].object[m2].id = p.nodes[n2].object[m2].id
               /\ q.nodes[n2].object[m2].id \in 1..p.edges
        BY <2>15
      <4> DEFINE a == q.nodes[n].object[m].id
                 b == q.nodes[n2].object[m2].id
      <4>4. a = b
        BY <3>2
      <4>5. n \in DOMAIN p.nodes /\ n2 \in DOMAIN p.nodes
              /\ m \in DOMAIN p.nodes[n].object /\ m2 \in DOMAIN p.nodes[n2].object
              /\ p.nodes[n].object[m].id = p.nodes[n2].object[m2].id
              => n = n2 /\ m = m2
        BY DEF Tree, Numbered
      <4> HIDE DEF a, b
      <4>6. QED
        BY <4>1, <4>2, <4>3, <4>4, <4>5, Zenon DEF a, b
    <3>3. QED
      BY <3>1, <3>2 DEF Numbered
  <2>17. QED
    BY <2>7, <2>11, <2>13, <2>16, NodeHooked DEF l, node
<1>4. QED
  BY <1>2, <1>3

\* An ascending sequence of edges with one for each index.
EdgesAscend(a) == \A i, k \in DOMAIN a : i < k => a[i].index < a[k].index

\* The position of the edge for an index, or the one where it is missing.
LEMMA EdgeFound ==
  ASSUME NEW a \in Seq(ArrayEdge), EdgesAscend(a), NEW index \in Nat,
         NEW i, i = EdgePosition(a, index)
  PROVE  /\ i \in 1..(Len(a) + 1)
         /\ (i <= Len(a) /\ a[i].index = index) \/ (\A k \in DOMAIN a : a[k].index # index)
         /\ (\A k \in DOMAIN a : a[k].index # index) =>
              \A e \in ArrayEdge : e.index = index => EdgesAscend(InsertAt(a, i, e))
<1> DEFINE s == [k \in DOMAIN a |-> a[k].index]
           l == Len(a)
<1>1. /\ l \in Nat /\ DOMAIN a = 1..l /\ \A k \in 1..l : a[k] \in ArrayEdge
      /\ \A e \in ArrayEdge : e.index \in Nat
  <2>1. \A e \in ArrayEdge : e.index \in Nat
    BY DEF ArrayEdge
  <2>2. QED
    BY <2>1, ElementOfSeq
<1>2. s \in Seq(Nat) /\ Len(s) = l /\ DOMAIN s = 1..l /\ \A k \in 1..l : s[k] = a[k].index
  <2>1. s \in [1..l -> Nat] /\ \A k \in 1..l : s[k] = a[k].index
    BY <1>1
  <2> HIDE DEF s, l
  <2>2. QED
    BY <1>1, <2>1, IsASeq
<1>3. i = LowerBound(s, index)
  BY DEF EdgePosition
<1> HIDE DEF s, l
<1>4. \A k, m \in DOMAIN s : k < m => s[k] < s[m]
  BY <1>1, <1>2 DEF EdgesAscend
<1>5. i \in 1..(Len(s) + 1) /\ \A k \in DOMAIN s : k < i <=> s[k] < index
  BY <1>2, <1>3, <1>4, LowerBoundIs
<1>6. i \in 1..(l + 1) /\ \A k \in 1..l : k < i <=> s[k] < index
  BY <1>2, <1>5
<1>7. (i <= l /\ a[i].index = index) \/ (\A k \in DOMAIN a : a[k].index # index)
  <2> SUFFICES ASSUME NEW k \in 1..l, a[k].index = index
               PROVE  i <= l /\ a[i].index = index
    BY <1>1
  <2>1. s[k] = index /\ ~(k < i)
    BY <1>2, <1>6
  <2>2. CASE k = i
    BY <2>2
  <2>3. CASE i < k
    <3>1. i \in 1..l
      BY <1>1, <1>6, <2>3
    <3>2. s[i] < s[k] /\ s[i] \in Nat
      BY <1>1, <1>2, <1>4, <2>3, <3>1
    <3>3. i < i
      BY <1>6, <2>1, <3>1, <3>2
    <3>4. QED
      BY <1>6, <3>3
  <2>4. QED
    BY <1>1, <1>6, <2>1, <2>2, <2>3
<1>8. ASSUME \A k \in DOMAIN a : a[k].index # index, NEW e \in ArrayEdge, e.index = index
      PROVE  EdgesAscend(InsertAt(a, i, e))
  <2> DEFINE t == InsertAt(a, i, e)
             T == ToSet(s)
  <2>1. t \in Seq(ArrayEdge) /\ Insertion(t, a, i, e, l)
    <3>1. i \in 1..(Len(a) + 1)
      BY <1>6 DEF l
    <3>2. QED
      BY <3>1, InsertedAt, Zenon DEF l
  <2> HIDE DEF t
  <2> DEFINE u == [k \in 1..(l + 1) |-> t[k].index]
  <2>2. /\ Len(t) = l + 1 /\ DOMAIN t = 1..(l + 1) /\ t[i] = e
        /\ \A k \in 1..(i - 1) : t[k] = a[k]
        /\ \A k \in (i + 1)..(l + 1) : t[k] = a[k - 1]
    BY <2>1 DEF Insertion
  <2>3. /\ DOMAIN u = 1..(l + 1) /\ \A k \in 1..(l + 1) : u[k] = t[k].index
    OBVIOUS
  <2>4. Len(u) = l + 1
    <3>1. l + 1 \in Nat
      BY <1>1
    <3> HIDE DEF u
    <3>2. u \in Seq(Nat)
      <4>1. \A k \in 1..(l + 1) : t[k].index \in Nat
        BY <1>1, <2>1, <2>2, ElementOfSeq
      <4>2. u \in [1..(l + 1) -> Nat]
        BY <4>1 DEF u
      <4>3. QED
        BY <3>1, <4>2, IsASeq
    <3>3. DOMAIN u = 1..Len(u) /\ Len(u) \in Nat
      BY <3>2, ElementOfSeq
    <3>4. QED
      BY <1>1, <2>3, <3>3
  <2> HIDE DEF u
  <2>5. Insertion(u, s, i, index, l)
    <3>1. u[i] = index
      BY <1>1, <1>6, <1>8, <2>2, <2>3
    <3>2. ASSUME NEW k \in 1..(i - 1)
          PROVE  u[k] = s[k]
      <4>1. k \in 1..l /\ k \in 1..(l + 1)
        BY <1>1, <1>6
      <4>2. QED
        BY <1>2, <2>2, <2>3, <4>1
    <3>3. ASSUME NEW k \in (i + 1)..(l + 1)
          PROVE  u[k] = s[k - 1]
      <4>1. k - 1 \in 1..l /\ k \in 1..(l + 1)
        BY <1>1, <1>6
      <4>2. QED
        BY <1>2, <2>2, <2>3, <4>1
    <3>4. QED
      BY <1>1, <1>2, <2>3, <2>4, <3>1, <3>2, <3>3 DEF Insertion
  <2>6. InAscendingOrder(s, T)
    BY <1>4 DEF InAscendingOrder
  <2>7. index \notin T
    BY <1>1, <1>2, <1>8 DEF ToSet
  <2> HIDE DEF T
  <2>8. InAscendingOrder(u, T \cup {index})
    BY <1>2, <1>3, <2>5, <2>6, <2>7, InsertionInOrder
  <2>9. \A k, m \in 1..(l + 1) : k < m => u[k] < u[m]
    BY <2>3, <2>8 DEF InAscendingOrder
  <2>10. EdgesAscend(t)
    BY <2>2, <2>3, <2>9 DEF EdgesAscend
  <2>11. QED
    BY <2>10 DEF t
<1>9. QED
  BY <1>6, <1>7, <1>8 DEF l

\* An index of a path: its edge is found, or inserted where it belongs.
LEMMA ArrayStep ==
  ASSUME NEW k, NEW p, NEW w, Tree(p, w, k), NEW seg \in Segment, seg.tag = "index",
         NEW q, q = ArrayChild(p, seg.value)
  PROVE  \E v : Tree(q, v, k) /\ Stepped(p, w, q, v, seg)
<1> DEFINE node == p.nodes[p.at]
           index == seg.value
           l == Len(p.nodes)
           a == node.array
           i == EdgePosition(a, index)
<1>1. /\ p \in Plans /\ p.at \in DOMAIN p.nodes /\ l \in Nat /\ DOMAIN p.nodes = 1..l
      /\ node \in PlanNode /\ index \in Nat
  <2>1. p \in Plans /\ p.at \in DOMAIN p.nodes
    BY PlanType, ElementOfSeq DEF Tree, Trie
  <2>2. index \in Nat
    BY DEF Segment
  <2>3. QED
    BY <2>1, <2>2, PlanType
<1>2. /\ a \in Seq(ArrayEdge) /\ Len(a) \in Nat /\ DOMAIN a = 1..Len(a)
      /\ \A j \in DOMAIN a : a[j].child \in Nat /\ a[j].index \in Nat
  BY <1>1, NodeType
<1>3. EdgesAscend(a)
  BY <1>1 DEF Tree, Ascending, EdgesAscend
<1> HIDE DEF a
<1>4. /\ i \in 1..(Len(a) + 1)
      /\ (i <= Len(a) /\ a[i].index = index) \/ (\A j \in DOMAIN a : a[j].index # index)
      /\ (\A j \in DOMAIN a : a[j].index # index) =>
           \A e \in ArrayEdge : e.index = index => EdgesAscend(InsertAt(a, i, e))
  BY <1>1, <1>2, <1>3, EdgeFound
<1>5. q = IF i <= Len(a) /\ a[i].index = index
          THEN [p EXCEPT !.at = a[i].child]
          ELSE [CreateNode(p) EXCEPT
                  !.nodes[p.at].array = InsertAt(@, i, [index |-> index, child |-> l + 1]),
                  !.at = l + 1]
  BY DEF ArrayChild, a
<1> HIDE DEF i, index
<1>6. seg.tag = "index" /\ seg.value = index
  BY DEF index
<1>7. CASE i <= Len(a) /\ a[i].index = index
  <2>1. i \in DOMAIN a
    BY <1>2, <1>4, <1>7
  <2>2. a[i].child \in Nat
    BY <1>2, <2>1
  <2>3. EdgeTo(node, seg, a[i].child)
    BY <1>6, <1>7, <2>1 DEF EdgeTo, a
  <2>4. q = [p EXCEPT !.at = a[i].child]
    BY <1>5, <1>7
  <2> HIDE DEF node
  <2>5. QED
    BY <2>2, <2>3, <2>4, EdgeFollowed DEF node
<1>8. CASE ~(i <= Len(a) /\ a[i].index = index)
  <2>1. \A j \in DOMAIN a : a[j].index # index
    BY <1>4, <1>8
  <2> DEFINE e == [index |-> index, child |-> l + 1]
             t == InsertAt(a, i, e)
             nd == [node EXCEPT !.array = t]
             ns == [Append(p.nodes, EmptyNode) EXCEPT ![p.at] = nd]
  <2>2. e \in ArrayEdge /\ e.index = index /\ e.child = l + 1
    BY <1>1 DEF ArrayEdge
  <2>3. Append(p.nodes, EmptyNode)[p.at] = node
    <3>1. p.nodes \in Seq(PlanNode) /\ EmptyNode \in PlanNode
      BY <1>1, PlanType, EmptyNodeType
    <3>2. QED
      BY <1>1, <3>1, AppendProperties
  <2>4. q = [nodes |-> ns, edges |-> p.edges, at |-> l + 1]
    <3> DEFINE m == Append(p.nodes, EmptyNode)
               c == CreateNode(p)
    <3>1. c = [p EXCEPT !.nodes = m] /\ m[p.at] = node
      BY <2>3 DEF CreateNode
    <3>2. q = [c EXCEPT !.nodes[p.at].array = InsertAt(@, i, e), !.at = l + 1]
      BY <1>5, <1>8
    <3> HIDE DEF l, m, node, c, e
    <3>3. c = [nodes |-> m, edges |-> p.edges, at |-> p.at]
      BY <1>1, <3>1 DEF Plans
    <3>4. c.nodes = m /\ c.edges = p.edges
      BY <3>3
    <3> DEFINE b == [m EXCEPT ![p.at] = [m[p.at] EXCEPT !.array = InsertAt(m[p.at].array, i, e)]]
    <3>5. q = [[c EXCEPT !.nodes = b] EXCEPT !.at = l + 1]
      BY <3>2, <3>4, Zenon
    <3>6. b = ns
      BY <3>1, Zenon DEF m, a
    <3> HIDE DEF b, ns
    <3>7. q = [nodes |-> b, edges |-> p.edges, at |-> l + 1]
      BY <3>3, <3>5
    <3>8. QED
      BY <3>6, <3>7
  <2>5. t \in Seq(ArrayEdge) /\ Insertion(t, a, i, e, Len(a))
    BY <1>2, <1>4, <2>2, InsertedAt, Zenon
  <2>6. EdgesAscend(t)
    BY <1>4, <2>1, <2>2
  <2> HIDE DEF e, t
  <2>7. \A y : (\E j \in DOMAIN t : t[j] = y) <=> (y = e \/ \E j \in DOMAIN a : a[j] = y)
    <3>1. OneMore(t, a, e)
      BY <1>2, <1>4, <2>5, InsertionRange, Zenon
    <3>2. QED
      BY <3>1 DEF OneMore
  <2>8. /\ nd \in PlanNode /\ nd.object = node.object /\ nd.array = t
        /\ nd.slots = node.slots
    <3> HIDE DEF node
    <3>1. QED
      BY <1>1, <2>5 DEF PlanNode
  <2> HIDE DEF nd
  <2>9. ns \in Seq(PlanNode) /\ Changed(ns, p, nd, l)
    BY <1>1, <2>8, NodesChanged
  <2> HIDE DEF ns
  <2>10. /\ q \in Plans /\ q.nodes = ns /\ q.at = l + 1 /\ q.edges = p.edges
         /\ Changed(q.nodes, p, nd, l)
    BY <1>1, <2>4, <2>9 DEF Plans
  <2> HIDE DEF l
  <2>11. Hook(nd, node, seg, l)
    <3>1. ASSUME NEW s \in Segment, NEW c \in Nat
          PROVE  EdgeTo(nd, s, c) <=> (EdgeTo(node, s, c) \/ (s = seg /\ c = l + 1))
      <4>1. s = seg <=> (s.tag = seg.tag /\ s.value = seg.value)
        BY DEF Segment
      <4>2. CASE s.tag = "index"
        <5>1. EdgeTo(nd, s, c) <=> \E j \in DOMAIN t : t[j].index = s.value /\ t[j].child = c
          BY <2>8, <4>2 DEF EdgeTo
        <5>2. EdgeTo(node, s, c) <=> \E j \in DOMAIN a : a[j].index = s.value /\ a[j].child = c
          BY <4>2 DEF EdgeTo, a
        <5>3. (\E j \in DOMAIN t : t[j].index = s.value /\ t[j].child = c) <=>
                \/ e.index = s.value /\ e.child = c
                \/ \E j \in DOMAIN a : a[j].index = s.value /\ a[j].child = c
          BY <2>7
        <5>4. (e.index = s.value /\ e.child = c) <=> (s = seg /\ c = l + 1)
          BY <1>6, <2>2, <4>1, <4>2
        <5>5. QED
          BY <5>1, <5>2, <5>3, <5>4
      <4>3. CASE s.tag # "index"
        BY <1>6, <2>8, <4>3 DEF EdgeTo
      <4>4. QED
        BY <4>2, <4>3
    <3>2. \A c \in Nat : ~EdgeTo(node, seg, c)
      BY <1>6, <2>1 DEF EdgeTo, a
    <3>3. \A j, m \in DOMAIN nd.array : j < m => nd.array[j].index < nd.array[m].index
      BY <2>6, <2>8 DEF EdgesAscend
    <3>4. QED
      BY <2>8, <3>1, <3>2, <3>3 DEF Hook
  <2>12. /\ DOMAIN q.nodes = 1..(l + 1) /\ q.nodes[p.at] = nd
         /\ q.nodes[l + 1] = EmptyNode /\ p.at \in 1..l
         /\ \A n \in 1..l : n # p.at => q.nodes[n] = p.nodes[n]
    BY <2>10 DEF Changed
  <2>13. \A n \in DOMAIN q.nodes : \/ DOMAIN q.nodes[n].object = {}
                                  \/ /\ n \in DOMAIN p.nodes
                                     /\ q.nodes[n].object = p.nodes[n].object
    <3>1. ASSUME NEW n \in 1..(l + 1)
          PROVE  n = l + 1 \/ (n \in 1..l /\ q.nodes[n].object = p.nodes[n].object)
      <4>1. CASE n = p.at
        BY <2>8, <2>12, <4>1 DEF node
      <4>2. CASE n # p.at
        BY <1>1, <2>12, <4>2
      <4>3. QED
        BY <4>1, <4>2
    <3>2. DOMAIN q.nodes[l + 1].object = {}
      BY <2>12, EmptyNodeType
    <3>3. QED
      BY <1>1, <2>12, <3>1, <3>2
  <2>14. Numbered(q)
    <3>1. Numbered(p)
      BY DEF Tree
    <3>2. ASSUME NEW n \in DOMAIN q.nodes, NEW m \in DOMAIN q.nodes[n].object
          PROVE  q.nodes[n].object[m].id \in 1..q.edges
      BY <2>10, <2>13, <3>1 DEF Numbered
    <3>3. ASSUME NEW n \in DOMAIN q.nodes, NEW m \in DOMAIN q.nodes[n].object,
                 NEW n2 \in DOMAIN q.nodes, NEW m2 \in DOMAIN q.nodes[n2].object,
                 q.nodes[n].object[m].id = q.nodes[n2].object[m2].id
          PROVE  n = n2 /\ m = m2
      <4>1. n \in DOMAIN p.nodes /\ q.nodes[n].object = p.nodes[n].object
        BY <2>13, <3>3
      <4>2. n2 \in DOMAIN p.nodes /\ q.nodes[n2].object = p.nodes[n2].object
        BY <2>13, <3>3
      <4>3. QED
        BY <3>1, <3>3, <4>1, <4>2 DEF Numbered
    <3>4. QED
      BY <3>2, <3>3 DEF Numbered
  <2>15. QED
    BY <2>8, <2>10, <2>11, <2>14, NodeHooked DEF l, node
<1>9. QED
  BY <1>7, <1>8

\* One segment of a path.
LEMMA ChildStep ==
  ASSUME NEW k, NEW p, NEW w, Tree(p, w, k), NEW seg \in Segment
  PROVE  \E v : Tree(Child(p, seg), v, k) /\ Stepped(p, w, Child(p, seg), v, seg)
<1>1. seg.tag = "key" \/ seg.tag = "index"
  BY DEF Segment
<1>2. CASE seg.tag = "key"
  <2>1. Child(p, seg) = ObjectChild(p, seg.value)
    BY <1>2 DEF Child
  <2>2. QED
    BY <1>2, <2>1, ObjectStep
<1>3. CASE seg.tag = "index"
  <2>1. Child(p, seg) = ArrayChild(p, seg.value)
    BY <1>3 DEF Child
  <2>2. QED
    BY <1>3, <2>1, ArrayStep
<1>4. QED
  BY <1>1, <1>2, <1>3

-----------------------------------------------------------------------------
(* A path of segments.                                                     *)
(*                                                                         *)
(* A fold over a sequence is defined by a recursion on the sets of its     *)
(* positions; what it computes is followed through the sets 1..n.          *)

Solved(it, n, V, b, x, F) ==
  /\ it \in [SUBSET (1..n) -> V]
  /\ \A s \in SUBSET (1..n) :
       it[s] = IF s = {} THEN b ELSE F[<<it[s \ {Max(s)}], x[Max(s)]>>]

LEMMA SolvedNext ==
  ASSUME NEW V, NEW b \in V, NEW Q, NEW N \in Nat, NEW x \in [1..N -> Q],
         NEW F \in [V \X Q -> V], NEW n \in Nat, n + 1 <= N,
         NEW it, Solved(it, n, V, b, x, F)
  PROVE  \E j : Solved(j, n + 1, V, b, x, F)
<1> DEFINE m == n + 1
           j == [s \in SUBSET (1..m) |-> IF m \in s THEN F[<<it[s \ {m}], x[m]>>] ELSE it[s]]
<1>1. m \in Nat /\ m \in 1..m /\ m \in 1..N /\ x[m] \in Q
  OBVIOUS
<1>2. \A s \in SUBSET (1..m) : s \ {m} \in SUBSET (1..n) /\ (m \notin s => s \in SUBSET (1..n))
  BY <1>1
<1>3. \A s \in SUBSET (1..n) : s \in SUBSET (1..m) /\ m \notin s
  OBVIOUS
<1>4. it \in [SUBSET (1..n) -> V]
  BY DEF Solved
<1>5. ASSUME NEW s \in SUBSET (1..m)
      PROVE  (IF m \in s THEN F[<<it[s \ {m}], x[m]>>] ELSE it[s]) \in V
  <2>1. CASE m \in s
    <3>1. it[s \ {m}] \in V
      BY <1>2, <1>4
    <3>2. QED
      BY <1>1, <2>1, <3>1
  <2>2. CASE m \notin s
    BY <1>2, <1>4, <2>2
  <2>3. QED
    BY <2>1, <2>2
<1>6. j \in [SUBSET (1..m) -> V]
  BY <1>5
<1>7. /\ \A s \in SUBSET (1..m) : m \in s => j[s] = F[<<it[s \ {m}], x[m]>>]
      /\ \A s \in SUBSET (1..n) : j[s] = it[s]
  BY <1>3
<1> HIDE DEF j
<1>8. ASSUME NEW s \in SUBSET (1..m)
      PROVE  j[s] = IF s = {} THEN b ELSE F[<<j[s \ {Max(s)}], x[Max(s)]>>]
  <2>1. CASE m \in s
    <3>1. Max(s) = m
      <4>1. Max(s) \in s /\ m <= Max(s)
        <5>1. s \subseteq 0..m
          OBVIOUS
        <5>2. QED
          BY <1>1, <2>1, <5>1, MaxIs
      <4>2. Max(s) \in 1..m
        BY <4>1
      <4>3. QED
        BY <1>1, <4>1, <4>2
    <3>2. j[s \ {m}] = it[s \ {m}]
      BY <1>2, <1>7
    <3>3. QED
      BY <1>7, <2>1, <3>1, <3>2
  <2>2. CASE m \notin s
    <3>1. s \in SUBSET (1..n) /\ s \ {Max(s)} \in SUBSET (1..n)
      BY <1>2, <2>2
    <3>2. j[s] = it[s] /\ j[s \ {Max(s)}] = it[s \ {Max(s)}]
      BY <1>7, <3>1
    <3>3. QED
      BY <3>1, <3>2 DEF Solved
  <2>3. QED
    BY <2>1, <2>2
<1>9. Solved(j, m, V, b, x, F)
  BY <1>6, <1>8 DEF Solved
<1>10. QED
  BY <1>9

\* Induction, for a property that is given by the set of its numbers.
LEMMA Reached ==
  ASSUME NEW N \in Nat, NEW T, 0 \in T,
         \A i \in 0..N : i \in T /\ i + 1 <= N => i + 1 \in T
  PROVE  \A i \in 0..N : i \in T
<1> DEFINE Open == {n \in 0..N : n \notin T}
<1>1. SUFFICES ASSUME NEW o \in Open
               PROVE  FALSE
  OBVIOUS
<1> DEFINE n == Min(Open)
<1>2. n \in Open /\ \A y \in Open : n <= y
  <2>1. Open \subseteq Nat
    OBVIOUS
  <2> HIDE DEF Open
  <2>2. QED
    BY <2>1, MinIs
<1>3. n \in 0..N /\ n \notin T
  BY <1>2
<1> HIDE DEF n
<1>4. n # 0
  BY <1>3
<1>5. n - 1 \in 0..N /\ ~(n <= n - 1) /\ (n - 1) + 1 <= N /\ (n - 1) + 1 = n
  BY <1>3, <1>4
<1>6. n - 1 \in T
  BY <1>2, <1>5
<1>7. QED
  BY <1>3, <1>5, <1>6

\* The recursion has a solution.
LEMMA FoldSolved ==
  ASSUME NEW V, NEW b \in V, NEW Q, NEW N \in Nat, NEW x \in [1..N -> Q],
         NEW F \in [V \X Q -> V]
  PROVE  \E it : Solved(it, N, V, b, x, F)
<1> DEFINE T == {n \in 0..N : \E it : Solved(it, n, V, b, x, F)}
<1>1. 0 \in T
  <2> DEFINE it == [s \in SUBSET (1..0) |-> b]
  <2>1. it \in [SUBSET (1..0) -> V] /\ \A s \in SUBSET (1..0) : s = {} /\ it[s] = b
    OBVIOUS
  <2> HIDE DEF it
  <2>2. Solved(it, 0, V, b, x, F)
    BY <2>1 DEF Solved
  <2>3. QED
    BY <2>2
<1>2. ASSUME NEW i \in 0..N, i \in T, i + 1 <= N
      PROVE  i + 1 \in T
  <2>1. PICK it : Solved(it, i, V, b, x, F)
    BY <1>2
  <2>2. \E j : Solved(j, i + 1, V, b, x, F)
    <3>1. i \in Nat
      OBVIOUS
    <3>2. QED
      BY <1>2, <2>1, <3>1, SolvedNext, Zenon
  <2>3. QED
    BY <1>2, <2>2
<1> HIDE DEF T
<1>3. \A i \in 0..N : i \in T
  <2>1. \A i \in 0..N : i \in T /\ i + 1 <= N => i + 1 \in T
    BY <1>2
  <2>2. QED
    BY <1>1, <2>1, Reached, Zenon
<1>4. N \in 0..N
  OBVIOUS
<1>5. QED
  BY <1>3, <1>4 DEF T

LEMMA IntervalNext ==
  ASSUME NEW n \in Nat
  PROVE  Max(1..(n + 1)) = n + 1 /\ (1..(n + 1)) \ {n + 1} = 1..n /\ 1..(n + 1) # {}
<1> DEFINE T == 1..(n + 1)
<1>1. n + 1 \in T /\ n + 1 \in Nat
  OBVIOUS
<1>2. Max(T) \in T /\ n + 1 <= Max(T)
  <2>1. T \subseteq 0..(n + 1)
    OBVIOUS
  <2>2. QED
    BY <1>1, <2>1, MaxIs
<1>3. Max(T) = n + 1
  BY <1>1, <1>2
<1>4. T \ {n + 1} = 1..n /\ T # {}
  OBVIOUS
<1>5. QED
  BY <1>3, <1>4, Zenon

LEMMA PrefixShape ==
  ASSUME NEW S, NEW path \in Seq(S), NEW i \in 0..Len(path)
  PROVE  /\ SubSeq(path, 1, i) \in Seq(S) /\ Len(SubSeq(path, 1, i)) = i
         /\ \A j \in 1..i : SubSeq(path, 1, i)[j] = path[j]
<1> DEFINE t == SubSeq(path, 1, i)
           l == Len(path)
<1>1. l \in Nat /\ \A j \in 1..l : path[j] \in S
  BY ElementOfSeq
<1>2. i \in Nat /\ i <= l
  BY <1>1
<1>3. \A j \in 1..i : path[j] \in S
  BY <1>1, <1>2
<1>4. /\ t \in Seq(S) /\ Len(t) = IF 1 <= i THEN i - 1 + 1 ELSE 0
      /\ \A j \in 1..(i - 1 + 1) : t[j] = path[1 + j - 1]
  BY <1>2, <1>3, SubSeqProperties
<1> HIDE DEF t
<1>5. Len(t) = i
  BY <1>2, <1>4
<1>6. \A j \in 1..i : t[j] = path[j]
  <2>1. \A j \in 1..i : j \in 1..(i - 1 + 1) /\ 1 + j - 1 = j
    BY <1>2
  <2>2. QED
    BY <1>4, <2>1
<1>7. QED
  BY <1>4, <1>5, <1>6 DEF t

LEMMA PrefixNext ==
  ASSUME NEW path \in Path, NEW i \in Nat, i + 1 <= Len(path)
  PROVE  /\ SubSeq(path, 1, i + 1) = Append(SubSeq(path, 1, i), path[i + 1])
         /\ path[i + 1] \in Segment /\ SubSeq(path, 1, i) \in Path
<1> DEFINE a == SubSeq(path, 1, i)
           b == SubSeq(path, 1, i + 1)
           c == Append(a, path[i + 1])
           l == Len(path)
<1>1. l \in Nat /\ \A j \in 1..l : path[j] \in Segment
  BY ElementOfSeq DEF Path
<1>2. i \in 0..l /\ i + 1 \in 0..l /\ i + 1 \in 1..l
  BY <1>1
<1>3. a \in Path /\ Len(a) = i /\ \A j \in 1..i : a[j] = path[j]
  BY <1>2, PrefixShape DEF Path
<1>4. b \in Path /\ Len(b) = i + 1 /\ \A j \in 1..(i + 1) : b[j] = path[j]
  BY <1>2, PrefixShape DEF Path
<1>5. path[i + 1] \in Segment
  BY <1>1, <1>2
<1> HIDE DEF a, b
<1>6. /\ c \in Path /\ Len(c) = i + 1 /\ c[i + 1] = path[i + 1]
      /\ \A j \in 1..i : c[j] = a[j]
  BY <1>3, <1>5, AppendProperties DEF Path
<1> HIDE DEF c
<1>7. \A j \in 1..(i + 1) : b[j] = c[j]
  BY <1>3, <1>4, <1>6
<1>8. b = c
  BY <1>4, <1>6, <1>7, SeqEqual DEF Path
<1>9. QED
  BY <1>3, <1>5, <1>8 DEF a, b, c

LEMMA PrefixNone ==
  ASSUME NEW path
  PROVE  SubSeq(path, 1, 0) = <<>>
BY SubSeqEmpty

\* The fold over the segments of a path.
ChildFold(it, p, path) ==
  it = [s \in SUBSET DOMAIN path |->
          IF s = {} THEN p ELSE Child(it[s \ {Max(s)}], path[Max(s)])]

LEMMA FoldIs ==
  ASSUME NEW p, NEW path
  PROVE  FoldLeft(Child, p, path) = (CHOOSE it : ChildFold(it, p, path))[DOMAIN path]
BY DEF FoldLeft, MapThenFoldSet, ChildFold

\* A solution goes from prefix to prefix.
LEMMA FoldSteps ==
  ASSUME NEW N \in Nat, NEW path, DOMAIN path = 1..N, NEW it, NEW p, ChildFold(it, p, path)
  PROVE  /\ it[1..0] = p
         /\ \A i \in Nat : i + 1 <= N =>
              it[1..(i + 1)] = Child(it[1..i], path[i + 1])
<1>1. /\ DOMAIN it = SUBSET (1..N)
      /\ \A s \in SUBSET (1..N) :
           it[s] = IF s = {} THEN p ELSE Child(it[s \ {Max(s)}], path[Max(s)])
  BY DEF ChildFold
<1>2. 1..0 = {} /\ {} \in SUBSET (1..N)
  OBVIOUS
<1>3. ASSUME NEW i \in Nat, i + 1 <= N
      PROVE  it[1..(i + 1)] = Child(it[1..i], path[i + 1])
  <2>1. 1..(i + 1) \in SUBSET (1..N)
    BY <1>3
  <2>2. Max(1..(i + 1)) = i + 1 /\ (1..(i + 1)) \ {i + 1} = 1..i /\ 1..(i + 1) # {}
    BY IntervalNext
  <2> DEFINE T == 1..(i + 1)
  <2>3. it[T] = IF T = {} THEN p ELSE Child(it[T \ {Max(T)}], path[Max(T)])
    BY <1>1, <2>1
  <2>4. QED
    BY <2>2, <2>3
<1>4. QED
  BY <1>1, <1>2, <1>3

LEMMA ChildFoldExists ==
  ASSUME NEW k, NEW p, NEW w, Tree(p, w, k), NEW path \in Path
  PROVE  \E it : ChildFold(it, p, path)
<1> DEFINE V == {r \in Plans : \E v : Tree(r, v, k)}
           F == [z \in V \X Segment |-> Child(z[1], z[2])]
           N == Len(path)
<1>1. p \in V
  BY DEF Tree, Trie
<1>2. ASSUME NEW r \in V, NEW seg \in Segment
      PROVE  Child(r, seg) \in V
  <2>1. PICK v : Tree(r, v, k)
    OBVIOUS
  <2>2. PICK u : Tree(Child(r, seg), u, k)
    BY <2>1, ChildStep
  <2>3. Child(r, seg) \in Plans
    BY <2>2 DEF Tree, Trie
  <2>4. QED
    BY <2>2, <2>3
<1> HIDE DEF V
<1>3. \A z \in V \X Segment : Child(z[1], z[2]) \in V
  BY <1>2
<1>4. F \in [V \X Segment -> V] /\ \A r \in V, seg \in Segment : F[<<r, seg>>] = Child(r, seg)
  BY <1>3
<1> HIDE DEF F
<1>5. N \in Nat /\ DOMAIN path = 1..N /\ path \in [1..N -> Segment]
  BY DEF Path
<1> HIDE DEF N
<1>6. PICK it : Solved(it, N, V, p, path, F)
  BY <1>1, <1>4, <1>5, FoldSolved, Zenon
<1>7. /\ it \in [SUBSET (1..N) -> V]
      /\ \A s \in SUBSET (1..N) :
           it[s] = IF s = {} THEN p ELSE F[<<it[s \ {Max(s)}], path[Max(s)]>>]
  BY <1>6 DEF Solved
<1>8. ASSUME NEW s \in SUBSET (1..N)
      PROVE  it[s] = IF s = {} THEN p ELSE Child(it[s \ {Max(s)}], path[Max(s)])
  <2>1. CASE s = {}
    BY <1>7, <2>1
  <2>2. CASE s # {}
    <3>1. Max(s) \in s
      <4>1. s \subseteq 0..N
        OBVIOUS
      <4>2. QED
        BY <1>5, <2>2, <4>1, MaxIs
    <3>2. path[Max(s)] \in Segment /\ it[s \ {Max(s)}] \in V
      BY <1>5, <1>7, <3>1
    <3>3. F[<<it[s \ {Max(s)}], path[Max(s)]>>] = Child(it[s \ {Max(s)}], path[Max(s)])
      BY <1>4, <3>2
    <3>4. QED
      BY <1>7, <2>2, <3>3
  <2>3. QED
    BY <2>1, <2>2
<1>9. ChildFold(it, p, path)
  BY <1>5, <1>7, <1>8 DEF ChildFold
<1>10. QED
  BY <1>9

\* The paths of the tree with those on the way to one more.
Grafted(v, w, path) ==
  {v[n] : n \in DOMAIN v} = {w[n] : n \in DOMAIN w} \cup Prefixes(path)

\* The nodes of a path are found or added from the root on.
LEMMA PathFollowed ==
  ASSUME NEW k, NEW p, NEW w, Tree(p, w, k), p.at = 1, NEW path \in Path,
         NEW q, q = FoldLeft(Child, p, path)
  PROVE  \E v : Tree(q, v, k) /\ v[q.at] = path /\ Grafted(v, w, path)
<1> DEFINE N == Len(path)
           it == CHOOSE it : ChildFold(it, p, path)
           R == {w[n] : n \in DOMAIN w}
           Taken(i) == {SubSeq(path, 1, j) : j \in 0..i}
           Got(v, r, i) == /\ Tree(r, v, k) /\ v[r.at] = SubSeq(path, 1, i)
                           /\ {v[n] : n \in DOMAIN v} = R \cup Taken(i)
           T == {i \in 0..N : \E v : Got(v, it[1..i], i)}
<1>1. ChildFold(it, p, path)
  BY ChildFoldExists
<1>2. N \in Nat /\ DOMAIN path = 1..N
  BY DEF Path
<1>3. q = it[1..N]
  BY <1>2, FoldIs
<1> HIDE DEF it, N
<1>4. /\ it[1..0] = p
      /\ \A i \in Nat : i + 1 <= N => it[1..(i + 1)] = Child(it[1..i], path[i + 1])
  BY <1>1, <1>2, FoldSteps
<1>5. 0 \in T
  <2>1. w[1] = <<>> /\ 1 \in DOMAIN w
    BY DEF Tree, Trie
  <2>2. SubSeq(path, 1, 0) = <<>>
    BY PrefixNone
  <2>3. Taken(0) = {<<>>}
    <3>1. 0..0 = {0}
      OBVIOUS
    <3>2. Taken(0) = {SubSeq(path, 1, j) : j \in {0}}
      BY <3>1, Zenon
    <3> HIDE DEF Taken
    <3>3. QED
      BY <2>2, <3>2
  <2> HIDE DEF Taken
  <2>4. <<>> \in R
    BY <2>1
  <2> HIDE DEF R
  <2>5. {w[n] : n \in DOMAIN w} = R \cup Taken(0)
    BY <2>3, <2>4 DEF R
  <2>6. Got(w, it[1..0], 0)
    BY <1>4, <2>1, <2>2, <2>5
  <2>7. 0 \in 0..N
    BY <1>2
  <2> HIDE DEF Got
  <2>8. QED
    BY <2>6, <2>7
<1>6. ASSUME NEW i \in 0..N, i \in T, i + 1 <= N
      PROVE  i + 1 \in T
  <2> DEFINE r == it[1..i]
             x == SubSeq(path, 1, i + 1)
             seg == path[i + 1]
  <2>1. PICK v : Got(v, r, i)
    BY <1>6
  <2>2. i \in Nat /\ i + 1 \in 0..N
    BY <1>2, <1>6
  <2>3. x = Append(SubSeq(path, 1, i), seg) /\ seg \in Segment
    BY <1>6, <2>2, PrefixNext DEF N
  <2>4. it[1..(i + 1)] = Child(r, seg)
    BY <1>4, <1>6, <2>2
  <2> HIDE DEF r, x, seg
  <2>5. PICK u : Tree(Child(r, seg), u, k) /\ Stepped(r, v, Child(r, seg), u, seg)
    BY <2>1, <2>3, ChildStep
  <2>6. u[Child(r, seg).at] = x /\ {u[n] : n \in DOMAIN u} = {v[n] : n \in DOMAIN v} \cup {x}
    BY <2>1, <2>3, <2>5 DEF Stepped
  <2>7. Taken(i + 1) = Taken(i) \cup {x}
    BY <2>2 DEF x
  <2> HIDE DEF Taken, R
  <2>8. {u[n] : n \in DOMAIN u} = R \cup Taken(i + 1)
    BY <2>1, <2>6, <2>7
  <2>9. Got(u, it[1..(i + 1)], i + 1)
    BY <2>4, <2>5, <2>6, <2>8 DEF x
  <2> HIDE DEF Got
  <2>10. QED
    BY <2>2, <2>9
<1> HIDE DEF T
<1>7. \A i \in 0..N : i \in T
  <2>1. \A i \in 0..N : i \in T /\ i + 1 <= N => i + 1 \in T
    BY <1>6
  <2>2. QED
    BY <1>2, <1>5, <2>1, Reached, Zenon
<1>8. N \in 0..N
  BY <1>2
<1>9. PICK v : Got(v, it[1..N], N)
  BY <1>7, <1>8 DEF T
<1>10. SubSeq(path, 1, N) = path
  BY SubSeqFull DEF Path, N
<1>11. Taken(N) = Prefixes(path)
  BY DEF Prefixes, N
<1>12. Tree(q, v, k) /\ v[q.at] = path /\ {v[n] : n \in DOMAIN v} = R \cup Prefixes(path)
  BY <1>3, <1>9, <1>10, <1>11
<1>13. Grafted(v, w, path)
  BY <1>12 DEF Grafted
<1>14. QED
  BY <1>12, <1>13

-----------------------------------------------------------------------------
(* A request is entered. *)

\* Only the edges make the tree.
LEMMA SameEdges ==
  ASSUME NEW p, NEW w, Trie(p, w), Ascending(p), Numbered(p),
         NEW q \in Plans, q.edges = p.edges, DOMAIN q.nodes = DOMAIN p.nodes,
         \A n \in DOMAIN p.nodes : /\ q.nodes[n].object = p.nodes[n].object
                                   /\ q.nodes[n].array = p.nodes[n].array
  PROVE  Trie(q, w) /\ Ascending(q) /\ Numbered(q)
<1>1. /\ p \in Plans /\ w \in Seq(Path) /\ Len(w) = Len(p.nodes) /\ w # <<>>
      /\ w[1] = <<>> /\ \A n, m \in DOMAIN w : w[n] = w[m] => n = m
      /\ \A n \in DOMAIN w : \A s \in Segment, c \in Nat :
           EdgeTo(p.nodes[n], s, c) => c \in DOMAIN w /\ w[c] = Append(w[n], s)
      /\ \A m \in DOMAIN w : m # 1 =>
           \E n \in 1..(m - 1), s \in Segment :
             w[m] = Append(w[n], s) /\ EdgeTo(p.nodes[n], s, m)
  BY DEF Trie
<1>2. Len(q.nodes) = Len(p.nodes) /\ DOMAIN p.nodes = DOMAIN w /\ DOMAIN w = 1..Len(w)
      /\ Len(w) \in Nat
  <2> DEFINE a == Len(p.nodes)
             b == Len(q.nodes)
  <2>1. a \in Nat /\ DOMAIN p.nodes = 1..a
    BY <1>1, PlanType
  <2>2. b \in Nat /\ DOMAIN q.nodes = 1..b
    BY PlanType
  <2>3. DOMAIN w = 1..Len(w) /\ Len(w) \in Nat
    BY <1>1, ElementOfSeq
  <2> HIDE DEF a, b
  <2>4. a = b
    BY <2>1, <2>2
  <2>5. QED
    BY <1>1, <2>1, <2>3, <2>4 DEF a, b
<1>3. \A n \in DOMAIN w : \A s, c : EdgeTo(q.nodes[n], s, c) <=> EdgeTo(p.nodes[n], s, c)
  BY <1>2 DEF EdgeTo
<1>4. \A m \in DOMAIN w : m # 1 =>
        \E n \in 1..(m - 1), s \in Segment :
          w[m] = Append(w[n], s) /\ EdgeTo(q.nodes[n], s, m)
  <2> SUFFICES ASSUME NEW m \in DOMAIN w, m # 1
               PROVE  \E n \in 1..(m - 1), s \in Segment :
                        w[m] = Append(w[n], s) /\ EdgeTo(q.nodes[n], s, m)
    OBVIOUS
  <2>1. PICK n \in 1..(m - 1), s \in Segment :
          w[m] = Append(w[n], s) /\ EdgeTo(p.nodes[n], s, m)
    BY <1>1
  <2>2. n \in DOMAIN w
    BY <1>2
  <2>3. EdgeTo(q.nodes[n], s, m)
    BY <1>3, <2>1, <2>2
  <2>4. QED
    BY <2>1, <2>3
<1>5. Trie(q, w)
  BY <1>1, <1>2, <1>3, <1>4 DEF Trie
<1>6. Ascending(q)
  BY DEF Ascending
<1>7. Numbered(q)
  BY DEF Numbered
<1>8. QED
  BY <1>5, <1>6, <1>7

LEMMA EndingNext ==
  ASSUME NEW k \in Nat, NEW path
  PROVE  /\ Ending(k + 1, path) = Ending(k, path)
                                    \cup (IF PathOf(request, k) = path THEN {k} ELSE {})
         /\ k \notin Ending(k, path)
<1>1. 0..((k + 1) - 1) = (0..(k - 1)) \cup {k} /\ k \notin 0..(k - 1)
  OBVIOUS
<1>2. QED
  BY <1>1 DEF Ending

\* The slot of a path is inserted at the node the path has reached.
LEMMA TerminalAdded ==
  ASSUME NEW k \in Nat, NEW p, NEW w, Tree(p, w, k), w[p.at] = PathOf(request, k),
         NEW q, q = AddTerminal(p, k)
  PROVE  Tree(q, w, k + 1) /\ q.at = 1
<1> DEFINE node == p.nodes[p.at]
           t == InsertAt(node.slots, LowerBound(node.slots, k), k)
           nd == [node EXCEPT !.slots = t]
           ns == [p.nodes EXCEPT ![p.at] = nd]
           path == PathOf(request, k)
<1>1. /\ p \in Plans /\ p.at \in DOMAIN p.nodes /\ node \in PlanNode
      /\ p.nodes \in Seq(PlanNode) /\ DOMAIN p.nodes = DOMAIN w /\ p.at \in DOMAIN w
      /\ w # <<>> /\ 1 \in DOMAIN w
  <2>1. /\ p \in Plans /\ w \in Seq(Path) /\ Len(w) = Len(p.nodes) /\ w # <<>>
        /\ p.at \in DOMAIN w
    BY DEF Tree, Trie
  <2>2. DOMAIN w = 1..Len(w) /\ Len(w) \in Nat \ {0}
    BY <2>1, EmptySeq, ElementOfSeq
  <2>3. p.nodes \in Seq(PlanNode) /\ DOMAIN p.nodes = 1..Len(p.nodes)
    BY <2>1, PlanType
  <2>4. 1 \in DOMAIN w
    BY <2>2
  <2>5. QED
    BY <2>1, <2>2, <2>3, <2>4, PlanType
<1>2. q = [p EXCEPT !.nodes = ns, !.at = 1]
  BY DEF AddTerminal
<1>3. node.slots \in Seq(Nat) /\ InAscendingOrder(node.slots, Ending(k, path))
  BY <1>1, NodeType DEF Tree, Filled
<1>4. t \in Seq(Nat) /\ InAscendingOrder(t, Ending(k, path) \cup {k})
  <2>1. k \notin Ending(k, path)
    BY EndingNext
  <2> HIDE DEF path, node
  <2>2. QED
    BY <1>3, <2>1, InsertedInOrder
<1> HIDE DEF t
<1>5. /\ nd \in PlanNode /\ nd.object = node.object /\ nd.array = node.array
      /\ nd.slots = t
  <2> HIDE DEF node
  <2>1. QED
    BY <1>1, <1>4 DEF PlanNode
<1> HIDE DEF nd
<1>6. /\ ns \in Seq(PlanNode) /\ DOMAIN ns = DOMAIN w /\ ns[p.at] = nd
      /\ \A n \in DOMAIN w : n # p.at => ns[n] = p.nodes[n]
  <2>1. ns \in Seq(PlanNode)
    BY <1>1, <1>5, ExceptSeq
  <2>2. QED
    BY <1>1, <2>1
<1> HIDE DEF ns
<1>7. q \in Plans /\ q.nodes = ns /\ q.at = 1 /\ q.edges = p.edges
  <2>1. p \in Plans /\ ns \in Seq(PlanNode)
    BY <1>1, <1>6
  <2>2. q = [[p EXCEPT !.nodes = ns] EXCEPT !.at = 1]
    BY <1>2
  <2>3. p = [nodes |-> p.nodes, edges |-> p.edges, at |-> p.at] /\ p.edges \in Nat
    BY <2>1 DEF Plans
  <2>4. q = [nodes |-> ns, edges |-> p.edges, at |-> 1]
    BY <2>2, <2>3, Zenon
  <2>5. QED
    BY <2>1, <2>3, <2>4 DEF Plans
<1>8. Trie(q, w) /\ Ascending(q) /\ Numbered(q)
  <2>1. Trie(p, w) /\ Ascending(p) /\ Numbered(p)
    BY DEF Tree
  <2>2. \A n \in DOMAIN p.nodes : /\ q.nodes[n].object = p.nodes[n].object
                                  /\ q.nodes[n].array = p.nodes[n].array
    <3> SUFFICES ASSUME NEW n \in DOMAIN p.nodes
                 PROVE  /\ q.nodes[n].object = p.nodes[n].object
                        /\ q.nodes[n].array = p.nodes[n].array
      OBVIOUS
    <3>1. CASE n = p.at
      BY <1>5, <1>6, <1>7, <3>1
    <3>2. CASE n # p.at
      BY <1>1, <1>6, <1>7, <3>2
    <3>3. QED
      BY <3>1, <3>2
  <2>3. DOMAIN q.nodes = DOMAIN p.nodes
    BY <1>1, <1>6, <1>7
  <2>4. QED
    BY <1>7, <2>1, <2>2, <2>3, SameEdges
<1>9. Filled(q, w, k + 1)
  <2>1. ASSUME NEW s \in 0..((k + 1) - 1)
        PROVE  \E n \in DOMAIN w : w[n] = PathOf(request, s)
    <3>1. s = k \/ s \in 0..(k - 1)
      OBVIOUS
    <3>2. QED
      BY <1>1, <3>1 DEF Tree, Filled
  <2>2. ASSUME NEW n \in DOMAIN w
        PROVE  InAscendingOrder(q.nodes[n].slots, Ending(k + 1, w[n]))
    <3>1. CASE n = p.at
      <4>1. w[n] = path /\ q.nodes[n].slots = t
        BY <1>5, <1>6, <1>7, <3>1
      <4>2. Ending(k + 1, path) = Ending(k, path) \cup {k}
        BY EndingNext
      <4>3. QED
        BY <1>4, <4>1, <4>2
    <3>2. CASE n # p.at
      <4>1. w[n] # PathOf(request, k)
        BY <1>1, <3>2 DEF Tree, Trie
      <4>2. Ending(k + 1, w[n]) = Ending(k, w[n])
        BY <4>1, EndingNext
      <4>3. q.nodes[n] = p.nodes[n]
        BY <1>6, <1>7, <3>2
      <4>4. QED
        BY <4>2, <4>3 DEF Tree, Filled
    <3>3. QED
      BY <3>1, <3>2
  <2>3. QED
    BY <2>1, <2>2 DEF Filled
<1>10. QED
  BY <1>1, <1>7, <1>8, <1>9 DEF Tree

\* simd_json_projection_plan_create, one descriptor: the tree of k requests
\* becomes the tree of k + 1.
LEMMA EntryInserted ==
  ASSUME NEW k \in Nat, NEW p, NEW w, Tree(p, w, k), p.at = 1,
         NEW path \in Path, path = PathOf(request, k),
         NEW q, q = InsertEntry(p, k, path)
  PROVE  \E v : Tree(q, v, k + 1) /\ q.at = 1 /\ Grafted(v, w, path)
<1> DEFINE r == FoldLeft(Child, p, path)
<1>1. q = AddTerminal(r, k)
  BY DEF InsertEntry
<1> HIDE DEF r
<1>2. PICK v : Tree(r, v, k) /\ v[r.at] = path /\ Grafted(v, w, path)
  <2>1. r = FoldLeft(Child, p, path)
    BY DEF r
  <2>2. QED
    BY <2>1, PathFollowed, Zenon
<1>3. Tree(q, v, k + 1) /\ q.at = 1
  BY <1>1, <1>2, TerminalAdded
<1>4. QED
  BY <1>2, <1>3

-----------------------------------------------------------------------------
(* The node a path leads to. *)

\* The step of NodeAt.
Follow(p, n, segment) ==
  IF n = 0 THEN 0
  ELSE LET node == p.nodes[n] IN
       IF segment.tag = "key"
       THEN IF segment.value \in DOMAIN node.object
            THEN node.object[segment.value].child ELSE 0
       ELSE Max({0} \cup {e.child : e \in
                   {x \in ToSet(node.array) : x.index = segment.value}})

NodeFold(it, p, path) ==
  it = [s \in SUBSET DOMAIN path |->
          IF s = {} THEN 1 ELSE Follow(p, it[s \ {Max(s)}], path[Max(s)])]

LEMMA NodeAtIs ==
  ASSUME NEW p, NEW path
  PROVE  NodeAt(p, path) = (CHOOSE it : NodeFold(it, p, path))[DOMAIN path]
BY DEF NodeAt, FoldLeft, MapThenFoldSet, NodeFold, Follow

LEMMA NodeFoldSteps ==
  ASSUME NEW N \in Nat, NEW path, DOMAIN path = 1..N, NEW it, NEW p, NodeFold(it, p, path)
  PROVE  /\ it[1..0] = 1
         /\ \A i \in Nat : i + 1 <= N =>
              it[1..(i + 1)] = Follow(p, it[1..i], path[i + 1])
<1>1. /\ DOMAIN it = SUBSET (1..N)
      /\ \A s \in SUBSET (1..N) :
           it[s] = IF s = {} THEN 1 ELSE Follow(p, it[s \ {Max(s)}], path[Max(s)])
  BY DEF NodeFold
<1>2. 1..0 = {} /\ {} \in SUBSET (1..N)
  OBVIOUS
<1>3. ASSUME NEW i \in Nat, i + 1 <= N
      PROVE  it[1..(i + 1)] = Follow(p, it[1..i], path[i + 1])
  <2>1. 1..(i + 1) \in SUBSET (1..N)
    BY <1>3
  <2>2. Max(1..(i + 1)) = i + 1 /\ (1..(i + 1)) \ {i + 1} = 1..i /\ 1..(i + 1) # {}
    BY IntervalNext
  <2> DEFINE T == 1..(i + 1)
  <2>3. it[T] = IF T = {} THEN 1 ELSE Follow(p, it[T \ {Max(T)}], path[Max(T)])
    BY <1>1, <2>1
  <2>4. QED
    BY <2>2, <2>3
<1>4. QED
  BY <1>1, <1>2, <1>3

\* A node is followed to a node, or to nowhere.
LEMMA FollowType ==
  ASSUME NEW p, NEW w, Trie(p, w), NEW l, l = Len(w), NEW n \in 0..l, NEW seg \in Segment
  PROVE  Follow(p, n, seg) \in 0..l
<1> DEFINE node == p.nodes[n]
<1>1. p \in Plans /\ DOMAIN w = 1..l /\ l \in Nat /\ DOMAIN p.nodes = 1..l
  <2>1. p \in Plans /\ w \in Seq(Path) /\ Len(p.nodes) = Len(w)
    BY DEF Trie
  <2>2. DOMAIN w = 1..Len(w) /\ Len(w) \in Nat
    BY <2>1, ElementOfSeq
  <2>3. QED
    BY <2>1, <2>2, PlanType
<1>2. CASE n = 0
  BY <1>1, <1>2 DEF Follow
<1>3. CASE n # 0
  <2>1. n \in DOMAIN w /\ node \in PlanNode
    BY <1>1, <1>3, PlanType
  <2>2. \A c \in Nat : EdgeTo(node, seg, c) => c \in 1..l
    BY <1>1, <2>1 DEF Trie
  <2>3. /\ \A k \in DOMAIN node.object : node.object[k].child \in Nat
        /\ \A i \in DOMAIN node.array : node.array[i].child \in Nat
    BY <2>1, NodeType
  <2> HIDE DEF node
  <2>4. CASE seg.tag = "key"
    <3>1. Follow(p, n, seg) = IF seg.value \in DOMAIN node.object
                              THEN node.object[seg.value].child ELSE 0
      BY <1>3, <2>4 DEF Follow, node
    <3>2. CASE seg.value \in DOMAIN node.object
      <4>1. EdgeTo(node, seg, node.object[seg.value].child)
        BY <2>4, <3>2 DEF EdgeTo
      <4>2. node.object[seg.value].child \in Nat
        BY <2>3, <3>2
      <4>3. node.object[seg.value].child \in 1..l
        BY <2>2, <4>1, <4>2
      <4>4. QED
        BY <1>1, <3>1, <3>2, <4>3
    <3>3. CASE seg.value \notin DOMAIN node.object
      BY <1>1, <3>1, <3>3
    <3>4. QED
      BY <3>2, <3>3
  <2>5. CASE seg.tag # "key"
    <3> DEFINE E == {e.child : e \in {x \in ToSet(node.array) : x.index = seg.value}}
    <3>1. Follow(p, n, seg) = Max({0} \cup E)
      BY <1>3, <2>5 DEF Follow, node
    <3>2. seg.tag = "index"
      BY <2>5 DEF Segment
    <3>3. \A c \in E : c \in 1..l
      <4> SUFFICES ASSUME NEW i \in DOMAIN node.array, node.array[i].index = seg.value
                   PROVE  node.array[i].child \in 1..l
        BY DEF ToSet
      <4>1. EdgeTo(node, seg, node.array[i].child)
        BY <3>2 DEF EdgeTo
      <4>2. QED
        BY <2>2, <2>3, <4>1
    <3> HIDE DEF E
    <3> DEFINE U == {0} \cup E
    <3>4. U \subseteq 0..l /\ U # {}
      BY <1>1, <3>3
    <3>5. Max(U) \in U
      BY <1>1, <3>4, MaxIs
    <3>6. QED
      BY <3>1, <3>4, <3>5
  <2>6. QED
    BY <2>4, <2>5
<1>4. QED
  BY <1>2, <1>3

Leads(p, n, seg, m) == EdgeTo(p.nodes[n], seg, m) /\ Follow(p, n, seg) = m

\* The edge of a tree for a segment leads to the node with the longer path.
LEMMA FollowIs ==
  ASSUME NEW p, NEW w, Trie(p, w), NEW n \in DOMAIN w, NEW m \in DOMAIN w,
         NEW seg \in Segment, w[m] = Append(w[n], seg)
  PROVE  Leads(p, n, seg, m)
<1> DEFINE l == Len(w)
           node == p.nodes[n]
<1>1. /\ p \in Plans /\ l \in Nat /\ DOMAIN w = 1..l /\ w \in Seq(Path)
      /\ \A i \in DOMAIN w : w[i] \in Path
  BY ElementOfSeq DEF Trie
<1>2. m # 1
  BY <1>1, NotEmpty DEF Trie
<1>3. PICK n2 \in 1..(m - 1), s2 \in Segment :
        w[m] = Append(w[n2], s2) /\ EdgeTo(p.nodes[n2], s2, m)
  BY <1>2 DEF Trie
<1>4. n2 \in DOMAIN w
  BY <1>1
<1>5. w[n2] = w[n] /\ s2 = seg
  <2> DEFINE a == w[n2]
             b == w[n]
  <2>1. a \in Path /\ b \in Path /\ Append(a, s2) = Append(b, seg)
    BY <1>1, <1>3, <1>4
  <2> HIDE DEF a, b
  <2>2. a = b /\ s2 = seg
    BY <2>1, PathsDiffer
  <2>3. QED
    BY <2>2 DEF a, b
<1>6. n2 = n
  BY <1>4, <1>5 DEF Trie
<1>7. EdgeTo(node, seg, m)
  BY <1>3, <1>5, <1>6
<1>8. \A c \in Nat : EdgeTo(node, seg, c) => c = m
  <2> SUFFICES ASSUME NEW c \in Nat, EdgeTo(node, seg, c) PROVE c = m
    OBVIOUS
  <2>1. c \in DOMAIN w /\ w[c] = w[m]
    BY DEF Trie
  <2>2. QED
    BY <2>1 DEF Trie
<1>9. node \in PlanNode
  <2>1. Len(w) = Len(p.nodes)
    BY DEF Trie
  <2>2. n \in DOMAIN p.nodes
    BY <1>1, <2>1, PlanType
  <2>3. QED
    BY <1>1, <2>2, PlanType
<1>10. /\ \A k \in DOMAIN node.object : node.object[k].child \in Nat
       /\ \A i \in DOMAIN node.array : node.array[i].child \in Nat
  BY <1>9, NodeType
<1>11. n # 0 /\ m \in 1..l
  BY <1>1
<1> HIDE DEF node, l
<1>12. CASE seg.tag = "key"
  <2>1. seg.value \in DOMAIN node.object /\ node.object[seg.value].child = m
    BY <1>7, <1>12 DEF EdgeTo
  <2>2. QED
    BY <1>7, <1>11, <1>12, <2>1 DEF Follow, node, Leads
<1>13. CASE seg.tag # "key"
  <2> DEFINE E == {e.child : e \in {x \in ToSet(node.array) : x.index = seg.value}}
  <2>1. Follow(p, n, seg) = Max({0} \cup E)
    BY <1>11, <1>13 DEF Follow, node
  <2>2. seg.tag = "index"
    BY <1>13 DEF Segment
  <2>3. m \in E
    <3>1. PICK i \in DOMAIN node.array : node.array[i].index = seg.value /\ node.array[i].child = m
      BY <1>7, <1>13 DEF EdgeTo
    <3>2. QED
      BY <3>1 DEF ToSet
  <2>4. \A c \in E : c = m
    <3> SUFFICES ASSUME NEW i \in DOMAIN node.array, node.array[i].index = seg.value
                 PROVE  node.array[i].child = m
      BY DEF ToSet
    <3>1. EdgeTo(node, seg, node.array[i].child)
      BY <2>2 DEF EdgeTo
    <3>2. QED
      BY <1>8, <1>10, <3>1
  <2> HIDE DEF E
  <2> DEFINE U == {0} \cup E
  <2>5. U \subseteq 0..l /\ m \in U /\ \A y \in U : y = 0 \/ y = m
    BY <1>1, <1>11, <2>3, <2>4
  <2> HIDE DEF U
  <2>6. Max(U) \in U /\ m <= Max(U)
    BY <1>1, <2>5, MaxIs
  <2>7. Max(U) = m
    <3>1. Max(U) = 0 \/ Max(U) = m
      BY <2>5, <2>6
    <3>2. ~(m <= 0)
      BY <1>1, <1>11
    <3>3. QED
      BY <2>6, <3>1, <3>2
  <2>8. QED
    BY <1>7, <2>1, <2>7 DEF U, node, Leads
<1>14. QED
  BY <1>12, <1>13

LEMMA NodeFoldExists ==
  ASSUME NEW p, NEW w, Trie(p, w), NEW path \in Path
  PROVE  \E it : NodeFold(it, p, path)
<1> DEFINE l == Len(w)
           V == 0..l
           F == [z \in V \X Segment |-> Follow(p, z[1], z[2])]
           N == Len(path)
<1>1. 1 \in V
  <2>1. l \in Nat \ {0}
    BY EmptySeq DEF Trie
  <2>2. QED
    BY <2>1
<1>2. ASSUME NEW r \in V, NEW seg \in Segment
      PROVE  Follow(p, r, seg) \in V
  BY FollowType
<1> HIDE DEF V
<1>3. \A z \in V \X Segment : Follow(p, z[1], z[2]) \in V
  BY <1>2
<1>4. F \in [V \X Segment -> V] /\ \A r \in V, seg \in Segment : F[<<r, seg>>] = Follow(p, r, seg)
  BY <1>3
<1> HIDE DEF F
<1>5. N \in Nat /\ DOMAIN path = 1..N /\ path \in [1..N -> Segment]
  BY DEF Path
<1> HIDE DEF N
<1>6. PICK it : Solved(it, N, V, 1, path, F)
  BY <1>1, <1>4, <1>5, FoldSolved, Zenon
<1>7. /\ it \in [SUBSET (1..N) -> V]
      /\ \A s \in SUBSET (1..N) :
           it[s] = IF s = {} THEN 1 ELSE F[<<it[s \ {Max(s)}], path[Max(s)]>>]
  BY <1>6 DEF Solved
<1>8. ASSUME NEW s \in SUBSET (1..N)
      PROVE  it[s] = IF s = {} THEN 1 ELSE Follow(p, it[s \ {Max(s)}], path[Max(s)])
  <2>1. CASE s = {}
    BY <1>7, <2>1
  <2>2. CASE s # {}
    <3>1. Max(s) \in s
      <4>1. s \subseteq 0..N
        OBVIOUS
      <4>2. QED
        BY <1>5, <2>2, <4>1, MaxIs
    <3>2. path[Max(s)] \in Segment /\ it[s \ {Max(s)}] \in V
      BY <1>5, <1>7, <3>1
    <3>3. F[<<it[s \ {Max(s)}], path[Max(s)]>>] = Follow(p, it[s \ {Max(s)}], path[Max(s)])
      BY <1>4, <3>2
    <3>4. QED
      BY <1>7, <2>2, <3>3
  <2>3. QED
    BY <2>1, <2>2
<1>9. NodeFold(it, p, path)
  BY <1>5, <1>7, <1>8 DEF NodeFold
<1>10. QED
  BY <1>9

\* A path all of whose prefixes have their nodes leads to its node.
LEMMA NodeFound ==
  ASSUME NEW p, NEW w, Trie(p, w), NEW path \in Path,
         \A i \in 0..Len(path) : \E n \in DOMAIN w : w[n] = SubSeq(path, 1, i),
         NEW m \in DOMAIN w, w[m] = path
  PROVE  NodeAt(p, path) = m
<1> DEFINE N == Len(path)
           it == CHOOSE it : NodeFold(it, p, path)
           T == {i \in 0..N : it[1..i] \in DOMAIN w /\ w[it[1..i]] = SubSeq(path, 1, i)}
<1>1. NodeFold(it, p, path)
  BY NodeFoldExists
<1>2. N \in Nat /\ DOMAIN path = 1..N
  BY DEF Path
<1>3. NodeAt(p, path) = it[1..N]
  BY <1>2, NodeAtIs
<1> HIDE DEF it, N
<1>4. /\ it[1..0] = 1
      /\ \A i \in Nat : i + 1 <= N => it[1..(i + 1)] = Follow(p, it[1..i], path[i + 1])
  BY <1>1, <1>2, NodeFoldSteps
<1>5. 0 \in T
  <2>1. w[1] = <<>> /\ 1 \in DOMAIN w
    BY DEF Trie
  <2>2. SubSeq(path, 1, 0) = <<>>
    BY PrefixNone
  <2>3. 0 \in 0..N
    BY <1>2
  <2>4. QED
    BY <1>4, <2>1, <2>2, <2>3
<1>6. ASSUME NEW i \in 0..N, i \in T, i + 1 <= N
      PROVE  i + 1 \in T
  <2> DEFINE n == it[1..i]
             x == SubSeq(path, 1, i + 1)
             seg == path[i + 1]
  <2>1. n \in DOMAIN w /\ w[n] = SubSeq(path, 1, i)
    BY <1>6
  <2>2. i \in Nat /\ i + 1 \in 0..N
    BY <1>2, <1>6
  <2>3. x = Append(SubSeq(path, 1, i), seg) /\ seg \in Segment
    BY <1>6, <2>2, PrefixNext DEF N
  <2>4. it[1..(i + 1)] = Follow(p, n, seg)
    BY <1>4, <1>6, <2>2
  <2>5. PICK c \in DOMAIN w : w[c] = x
    BY <2>2 DEF N
  <2> HIDE DEF n, x, seg
  <2>6. w[c] = Append(w[n], seg)
    BY <2>1, <2>3, <2>5
  <2>7. Leads(p, n, seg, c)
    BY <2>1, <2>3, <2>6, FollowIs, Zenon
  <2>8. QED
    BY <2>2, <2>4, <2>5, <2>7 DEF x, Leads
<1> HIDE DEF T
<1>7. \A i \in 0..N : i \in T
  <2>1. \A i \in 0..N : i \in T /\ i + 1 <= N => i + 1 \in T
    BY <1>6
  <2>2. QED
    BY <1>2, <1>5, <2>1, Reached, Zenon
<1>8. N \in 0..N
  BY <1>2
<1>9. it[1..N] \in DOMAIN w /\ w[it[1..N]] = SubSeq(path, 1, N)
  BY <1>7, <1>8 DEF T
<1>10. SubSeq(path, 1, N) = path
  BY SubSeqFull DEF Path, N
<1>11. QED
  BY <1>3, <1>9, <1>10 DEF Trie

SumFold(it, nodes, S) ==
  it = [s \in SUBSET S |->
          IF s = {} THEN 0
          ELSE LET x == CHOOSE x \in s : TRUE IN nodes[x].sub + it[s \ {x}]]
SubSum(nodes, S) == (CHOOSE it : SumFold(it, nodes, S))[S]

Children(node) == ObjectChildren(node) \cup ArrayChildren(node)
Noted(f, p) ==
  f = [n \in DOMAIN p.nodes |->
         [p.nodes[n] EXCEPT
            !.sub = Len(p.nodes[n].slots) + SubSum(f, Children(p.nodes[n])),
            !.first = Min({NoSlot} \cup ToSet(p.nodes[n].slots)
                            \cup {f[c].first : c \in Children(p.nodes[n])})]]

\* The pass over the nodes as an equation that its result solves.
LEMMA FinalizeIs ==
  ASSUME NEW p
  PROVE  FinalizePlanMetadata(p) = [p EXCEPT !.nodes = CHOOSE f : Noted(f, p)]
BY DEF FinalizePlanMetadata, Noted, SubSum, SumFold, MapThenSumSet, MapThenFoldSet, Children

\* The number of elements of the sets of s.
Together(H, s) == Cardinality(UNION {H[c] : c \in s})

Apart(H, S, B) ==
  /\ IsFiniteSet(B) /\ H \in [S -> SUBSET B]
  /\ \A c, d \in S : c # d => H[c] \cap H[d] = {}

\* What the sets of S have in common is counted once, and they have nothing in
\* common.
LEMMA UnionNext ==
  ASSUME NEW S, NEW B, NEW H, Apart(H, S, B), NEW s, s \subseteq S, NEW x \in s
  PROVE  Together(H, s) = Cardinality(H[x]) + Together(H, s \ {x})
<1> DEFINE a == H[x]
           b == UNION {H[c] : c \in s \ {x}}
           u == UNION {H[c] : c \in s}
<1>1. a \in SUBSET B /\ b \in SUBSET B /\ u \in SUBSET B /\ u = a \cup b
  BY DEF Apart
<1>2. a \cap b = {}
  BY DEF Apart
<1> HIDE DEF a, b, u
<1>3. IsFiniteSet(a) /\ IsFiniteSet(b) /\ IsFiniteSet(u)
  BY <1>1, FS_Subset DEF Apart
<1>4. Cardinality(a) \in Nat /\ Cardinality(b) \in Nat /\ Cardinality(u) \in Nat
  BY <1>3, FS_CardinalityType
<1>5. Cardinality(a \cup b) = Cardinality(a) + Cardinality(b) - Cardinality(a \cap b)
  BY <1>3, FS_Union
<1>6. Cardinality({}) = 0
  BY FS_EmptySet
<1>7. Cardinality(a \cap b) = 0 /\ Cardinality(u) = Cardinality(a \cup b)
  BY <1>1, <1>2, <1>6
<1>8. Cardinality(u) = Cardinality(a) + Cardinality(b)
  BY <1>4, <1>5, <1>7
<1>9. QED
  BY <1>8 DEF a, b, u, Together

\* The sum over the children counts the union of what they count.
LEMMA SubSumIs ==
  ASSUME NEW S, IsFiniteSet(S), NEW B, NEW H, Apart(H, S, B), NEW f, \A c \in S : f[c].sub = Cardinality(H[c])
  PROVE  SubSum(f, S) = Together(H, S)
<1> DEFINE Count(s) == Together(H, s)
           Pick(s) == CHOOSE x \in s : TRUE
           it == [s \in SUBSET S |-> Count(s)]
           J == CHOOSE j : SumFold(j, f, S)
<1>1. ASSUME NEW s \in SUBSET S, s # {}
      PROVE  Pick(s) \in s /\ Count(s) = f[Pick(s)].sub + Count(s \ {Pick(s)})
  <2> DEFINE x == Pick(s)
  <2>1. x \in s
    BY <1>1
  <2> HIDE DEF x
  <2>2. Together(H, s) = Cardinality(H[x]) + Together(H, s \ {x})
    <3>1. s \subseteq S
      OBVIOUS
    <3>2. QED
      BY <2>1, <3>1, UnionNext
  <2>3. f[x].sub = Cardinality(H[x])
    BY <2>1
  <2>4. Count(s) = f[x].sub + Count(s \ {x})
    BY <2>2, <2>3
  <2>5. QED
    BY <2>1, <2>4 DEF x
<1>2. Count({}) = 0
  <2>1. UNION {H[c] : c \in {}} = {}
    OBVIOUS
  <2>2. QED
    BY <2>1, FS_EmptySet DEF Together
<1> HIDE DEF Count
<1>3. SumFold(it, f, S)
  <2>1. ASSUME NEW s \in SUBSET S
        PROVE  Count(s) = IF s = {} THEN 0 ELSE f[Pick(s)].sub + it[s \ {Pick(s)}]
    <3>1. s \ {Pick(s)} \in SUBSET S
      OBVIOUS
    <3>2. it[s \ {Pick(s)}] = Count(s \ {Pick(s)})
      BY <3>1
    <3> HIDE DEF it, Pick
    <3>3. QED
      BY <1>1, <1>2, <3>2
  <2>2. it = [s \in SUBSET S |-> IF s = {} THEN 0 ELSE f[Pick(s)].sub + it[s \ {Pick(s)}]]
    <3> DEFINE body(s) == IF s = {} THEN 0 ELSE f[Pick(s)].sub + it[s \ {Pick(s)}]
    <3>1. \A s \in SUBSET S : Count(s) = body(s)
      BY <2>1
    <3> HIDE DEF body
    <3>2. [s \in SUBSET S |-> Count(s)] = [s \in SUBSET S |-> body(s)]
      BY <3>1
    <3>3. QED
      BY <3>2 DEF body
  <2>3. QED
    BY <2>2 DEF SumFold
<1> HIDE DEF it
<1>4. SumFold(J, f, S)
  BY <1>3
<1> HIDE DEF J
<1>5. \A s \in SUBSET S : J[s] = IF s = {} THEN 0 ELSE f[Pick(s)].sub + J[s \ {Pick(s)}]
  BY <1>4 DEF SumFold
<1> HIDE DEF Pick
<1> DEFINE N == Cardinality(S)
           T == {n \in 0..N : \A s \in SUBSET S : Cardinality(s) = n => J[s] = Count(s)}
<1>6. N \in Nat
  BY FS_CardinalityType
<1>7. \A s \in SUBSET S : IsFiniteSet(s) /\ Cardinality(s) <= N /\ Cardinality(s) \in Nat
  BY FS_Subset, FS_CardinalityType
<1> HIDE DEF N
<1>8. 0 \in T
  <2>1. \A s \in SUBSET S : Cardinality(s) = 0 => s = {}
    BY <1>7, FS_EmptySet
  <2>2. \A s \in SUBSET S : Cardinality(s) = 0 => J[s] = Count(s)
    BY <1>2, <1>5, <2>1
  <2>3. QED
    BY <1>6, <2>2
<1>9. ASSUME NEW i \in 0..N, i \in T, i + 1 <= N
      PROVE  i + 1 \in T
  <2>1. i \in Nat /\ i + 1 \in 0..N
    BY <1>6, <1>9
  <2>2. ASSUME NEW s \in SUBSET S, Cardinality(s) = i + 1
        PROVE  J[s] = Count(s)
    <3>1. s # {}
      BY <2>1, <2>2, FS_EmptySet
    <3>2. Pick(s) \in s /\ Count(s) = f[Pick(s)].sub + Count(s \ {Pick(s)})
      BY <1>1, <3>1
    <3> DEFINE r == s \ {Pick(s)}
    <3>3. r \in SUBSET S /\ Cardinality(r) = Cardinality(s) - 1
      BY <1>7, <3>2, FS_RemoveElement
    <3> HIDE DEF r
    <3>4. Cardinality(r) = i
      BY <2>1, <2>2, <3>3
    <3>5. J[r] = Count(r)
      BY <1>9, <3>3, <3>4
    <3>6. J[s] = f[Pick(s)].sub + J[r]
      BY <1>5, <3>1 DEF r
    <3>7. QED
      BY <3>2, <3>5, <3>6 DEF r
  <2>3. QED
    BY <2>1, <2>2
<1> HIDE DEF T
<1>10. \A i \in 0..N : i \in T
  <2>1. \A i \in 0..N : i \in T /\ i + 1 <= N => i + 1 \in T
    BY <1>9
  <2>2. QED
    BY <1>6, <1>8, <2>1, Reached, Zenon
<1>11. N \in 0..N
  BY <1>6
<1>12. J[S] = Count(S)
  BY <1>10, <1>11 DEF T, N
<1>13. QED
  BY <1>12 DEF SubSum, J, Count

-----------------------------------------------------------------------------
(* The prefixes of a path. *)

LEMMA PrefixIs ==
  ASSUME NEW a \in Path, NEW t \in Path
  PROVE  IsPrefix(a, t) <=> (Len(a) \in 0..Len(t) /\ a = SubSeq(t, 1, Len(a)))
<1>1. Len(a) \in Nat /\ Len(t) \in Nat
  BY DEF Path
<1>2. SubSeq(a, 1, Len(a)) = a
  BY SubSeqFull DEF Path
<1> DEFINE m == Len(a)
           l == Len(t)
           b == SubSeq(t, 1, Len(a))
<1>3. IsPrefix(a, t) <=> (m <= l /\ a = b)
  BY <1>2 DEF IsPrefix
<1> HIDE DEF m, l, b
<1>4. m \in Nat /\ l \in Nat
  BY <1>1 DEF m, l
<1>5. IsPrefix(a, t) <=> (m \in 0..l /\ a = b)
  BY <1>3, <1>4
<1>6. QED
  BY <1>5 DEF m, l, b

LEMMA PrefixOfPrefix ==
  ASSUME NEW t \in Path, NEW l \in 0..Len(t), NEW i \in 0..l
  PROVE  SubSeq(SubSeq(t, 1, l), 1, i) = SubSeq(t, 1, i)
<1> DEFINE u == SubSeq(t, 1, l)
           a == SubSeq(u, 1, i)
           b == SubSeq(t, 1, i)
           m == Len(t)
<1>1. m \in Nat /\ l \in 0..m
  BY DEF Path
<1>2. u \in Path /\ Len(u) = l /\ \A j \in 1..l : u[j] = t[j]
  BY PrefixShape DEF Path
<1> HIDE DEF u
<1>3. i \in 0..Len(u)
  BY <1>2
<1>4. a \in Path /\ Len(a) = i /\ \A j \in 1..i : a[j] = u[j]
  BY <1>2, <1>3, PrefixShape DEF Path
<1>5. i \in 0..Len(t)
  BY <1>1 DEF m
<1>6. b \in Path /\ Len(b) = i /\ \A j \in 1..i : b[j] = t[j]
  BY <1>5, PrefixShape DEF Path
<1> HIDE DEF a, b, m
<1>7. \A j \in 1..i : a[j] = b[j]
  BY <1>1, <1>2, <1>4, <1>6
<1>8. a = b
  BY <1>4, <1>6, <1>7, SeqEqual DEF Path
<1>9. QED
  BY <1>8 DEF a, b, u

LEMMA PrefixSelf ==
  ASSUME NEW a \in Path
  PROVE  IsPrefix(a, a)
<1>1. Len(a) \in 0..Len(a) /\ a = SubSeq(a, 1, Len(a))
  BY SubSeqFull DEF Path
<1>2. QED
  BY <1>1, PrefixIs

LEMMA LongerPath ==
  ASSUME NEW a \in Path, NEW s \in Segment
  PROVE  Append(a, s) \in Path /\ Len(Append(a, s)) = Len(a) + 1 /\ Len(a) \in Nat
BY AppendProperties DEF Path

\* What is below a node of a path goes through the node.
LEMMA PrefixShorter ==
  ASSUME NEW a \in Path, NEW s \in Segment, NEW t \in Path, IsPrefix(Append(a, s), t)
  PROVE  /\ IsPrefix(a, t) /\ a # t
         /\ Append(a, s) = SubSeq(t, 1, Len(a) + 1)
<1> DEFINE b == Append(a, s)
           m == Len(a)
           l == Len(t)
<1>1. b \in Path /\ Len(b) = m + 1 /\ m \in Nat /\ l \in Nat
  BY LongerPath DEF Path
<1> HIDE DEF b
<1>2. Len(b) \in 0..Len(t) /\ b = SubSeq(t, 1, Len(b))
  BY <1>1, PrefixIs DEF b
<1> HIDE DEF m, l
<1>3. m + 1 \in 0..l /\ b = SubSeq(t, 1, m + 1)
  BY <1>1, <1>2 DEF l
<1>4. m \in 0..l /\ m # l /\ m + 1 <= l
  BY <1>1, <1>3
<1>5. b = Append(SubSeq(t, 1, m), t[m + 1]) /\ t[m + 1] \in Segment /\ SubSeq(t, 1, m) \in Path
  BY <1>1, <1>3, <1>4, PrefixNext DEF l
<1> DEFINE c == SubSeq(t, 1, m)
           e == t[m + 1]
<1> HIDE DEF c, e
<1>6. Append(a, s) = Append(c, e) /\ c \in Path /\ e \in Segment
  BY <1>5 DEF b, c, e
<1>7. a = c
  BY <1>6, PathsDiffer
<1>8. IsPrefix(a, t)
  BY <1>4, <1>7, PrefixIs DEF m, l, c
<1>9. a # t
  BY <1>4 DEF m, l
<1>10. QED
  BY <1>3, <1>8, <1>9 DEF b, m

\* What goes through a node and does not end there is below one of its edges.
LEMMA PrefixLonger ==
  ASSUME NEW a \in Path, NEW t \in Path, IsPrefix(a, t), a # t
  PROVE  \E s \in Segment : IsPrefix(Append(a, s), t) /\ Append(a, s) \in Prefixes(t)
<1> DEFINE m == Len(a)
           l == Len(t)
           s == t[m + 1]
           b == Append(a, s)
<1>1. m \in Nat /\ l \in Nat
  BY DEF Path
<1>2. m \in 0..l /\ a = SubSeq(t, 1, m)
  BY PrefixIs
<1>3. m # l
  BY <1>2, SubSeqFull DEF Path
<1> HIDE DEF m, l
<1>4. m + 1 <= l /\ m + 1 \in 0..l
  BY <1>1, <1>2, <1>3
<1>5. b = SubSeq(t, 1, m + 1) /\ s \in Segment
  BY <1>1, <1>2, <1>4, PrefixNext DEF l
<1> HIDE DEF s
<1>6. b \in Path /\ Len(b) = m + 1
  BY <1>5, LongerPath DEF m
<1> HIDE DEF b
<1>7. IsPrefix(b, t)
  BY <1>4, <1>5, <1>6, PrefixIs DEF l
<1>8. b \in Prefixes(t)
  BY <1>4, <1>5 DEF Prefixes, l
<1>9. QED
  BY <1>5, <1>7, <1>8 DEF b

-----------------------------------------------------------------------------
(* What lies below a node. *)

\* The first k requests have paths, and the nodes are those of their prefixes.
Named(k) == \A s \in 0..(k - 1) : PathOf(request, s) \in Path
Covers(w, k) == {w[n] : n \in DOMAIN w} = RequestedPrefixes(request, k)

\* The slots of the first k requests that go through a path.
Through(k, path) == {s \in 0..(k - 1) : IsPrefix(path, PathOf(request, s))}

LEMMA TrieShape ==
  ASSUME NEW p, NEW w, Trie(p, w)
  PROVE  /\ p \in Plans /\ Len(w) \in Nat \ {0} /\ DOMAIN w = 1..Len(w)
         /\ DOMAIN p.nodes = DOMAIN w /\ \A n \in DOMAIN w : w[n] \in Path
         /\ \A n \in DOMAIN w : p.nodes[n] \in PlanNode
<1>1. p \in Plans /\ w \in Seq(Path) /\ w # <<>> /\ Len(w) = Len(p.nodes)
  BY DEF Trie
<1>2. Len(w) \in Nat \ {0} /\ DOMAIN w = 1..Len(w) /\ \A n \in DOMAIN w : w[n] \in Path
  BY <1>1, EmptySeq, ElementOfSeq
<1>3. DOMAIN p.nodes = DOMAIN w
  BY <1>1, <1>2, PlanType
<1>4. QED
  BY <1>1, <1>2, <1>3, PlanType

\* The path of a child is that of its parent and the segment of an edge.
Below(p, w, n, c) ==
  /\ c \in DOMAIN w /\ c > n
  /\ \E s \in Segment : w[c] = Append(w[n], s)

\* The children of a node are the later nodes whose path is one longer.
LEMMA ChildPath ==
  ASSUME NEW p, NEW w, Trie(p, w), NEW n \in DOMAIN w, NEW c
  PROVE  c \in Children(p.nodes[n]) <=> Below(p, w, n, c)
<1> DEFINE node == p.nodes[n]
<1>0. /\ p \in Plans /\ Len(w) \in Nat /\ DOMAIN w = 1..Len(w)
      /\ \A i \in DOMAIN w : w[i] \in Path
      /\ node \in PlanNode
  BY TrieShape
<1>1. /\ DOMAIN node.object \subseteq Nat
      /\ \A k \in DOMAIN node.object : node.object[k].child \in Nat
      /\ \A i \in DOMAIN node.array : /\ node.array[i].index \in Nat
                                      /\ node.array[i].child \in Nat
  BY <1>0, NodeType
<1> HIDE DEF node
<1>2. c \in Children(node) <=> (c \in Nat /\ \E s \in Segment : EdgeTo(node, s, c))
  <2>1. ASSUME c \in Children(node)
        PROVE  c \in Nat /\ \E s \in Segment : EdgeTo(node, s, c)
    <3>1. CASE c \in ObjectChildren(node)
      <4>1. PICK k \in DOMAIN node.object : node.object[k].child = c
        BY <3>1 DEF ObjectChildren
      <4> DEFINE s == [tag |-> "key", value |-> k]
      <4>2. s \in Segment /\ s.tag = "key" /\ s.value = k
        BY <1>1 DEF Segment
      <4> HIDE DEF s
      <4>3. EdgeTo(node, s, c)
        BY <4>1, <4>2 DEF EdgeTo
      <4>4. QED
        BY <1>1, <4>1, <4>2, <4>3
    <3>2. CASE c \in ArrayChildren(node)
      <4>1. PICK i \in DOMAIN node.array : node.array[i].child = c
        BY <3>2 DEF ArrayChildren, ToSet
      <4> DEFINE s == [tag |-> "index", value |-> node.array[i].index]
      <4>2. s \in Segment /\ s.tag = "index" /\ s.value = node.array[i].index
        BY <1>1 DEF Segment
      <4> HIDE DEF s
      <4>3. EdgeTo(node, s, c)
        BY <4>1, <4>2 DEF EdgeTo
      <4>4. QED
        BY <1>1, <4>1, <4>2, <4>3
    <3>3. QED
      BY <2>1, <3>1, <3>2 DEF Children
  <2>2. ASSUME NEW s \in Segment, EdgeTo(node, s, c)
        PROVE  c \in Children(node)
    BY <2>2 DEF EdgeTo, Children, ObjectChildren, ArrayChildren, ToSet
  <2>3. QED
    BY <2>1, <2>2
<1>3. ASSUME c \in Children(node)
      PROVE  Below(p, w, n, c)
  <2>1. PICK s \in Segment : c \in Nat /\ EdgeTo(node, s, c)
    BY <1>2, <1>3
  <2>2. c \in DOMAIN w /\ w[c] = Append(w[n], s)
    BY <2>1 DEF Trie, node
  <2>3. c # 1
    BY <1>0, <2>2, NotEmpty DEF Trie
  <2>4. PICK n2 \in 1..(c - 1), s2 \in Segment : w[c] = Append(w[n2], s2)
    <3>1. \A m \in DOMAIN w : m # 1 =>
            \E n2 \in 1..(m - 1), s2 \in Segment :
              w[m] = Append(w[n2], s2) /\ EdgeTo(p.nodes[n2], s2, m)
      BY Zenon DEF Trie
    <3>2. QED
      BY <2>2, <2>3, <3>1, Zenon
  <2>5. n2 \in DOMAIN w
    BY <1>0, <2>2
  <2> DEFINE a == w[n2]
             b == w[n]
  <2>6. a \in Path /\ b \in Path /\ Append(a, s2) = Append(b, s)
    BY <1>0, <2>2, <2>4, <2>5
  <2> HIDE DEF a, b
  <2>7. a = b
    BY <2>6, PathsDiffer
  <2>8. n2 = n
    BY <2>5, <2>7 DEF Trie, a, b
  <2>9. QED
    BY <1>0, <2>2, <2>8 DEF Below
<1>4. ASSUME Below(p, w, n, c)
      PROVE  c \in Children(node)
  <2>1. PICK s \in Segment : w[c] = Append(w[n], s)
    BY <1>4 DEF Below
  <2>2. c \in DOMAIN w
    BY <1>4 DEF Below
  <2>3. Leads(p, n, s, c)
    BY <2>1, <2>2, FollowIs, Zenon
  <2>4. c \in Nat
    BY <1>0, <2>2
  <2>5. QED
    BY <1>2, <2>3, <2>4 DEF Leads, node
<1>5. QED
  BY <1>3, <1>4 DEF node

\* The requests through a node end there or go through one of its children.
LEMMA ThroughSplit ==
  ASSUME NEW k, Named(k), NEW p, NEW w, Trie(p, w), Covers(w, k), NEW n \in DOMAIN w
  PROVE  \A s : s \in Through(k, w[n]) <=>
                  \/ s \in Ending(k, w[n])
                  \/ \E c \in Children(p.nodes[n]) : s \in Through(k, w[c])
<1>0. \A i \in DOMAIN w : w[i] \in Path
  BY TrieShape
<1> DEFINE a == w[n]
<1>1. a \in Path
  BY <1>0
<1> SUFFICES ASSUME NEW s \in 0..(k - 1)
             PROVE  s \in Through(k, a) <=>
                      \/ s \in Ending(k, a)
                      \/ \E c \in Children(p.nodes[n]) : s \in Through(k, w[c])
  BY DEF Through, Ending
<1> DEFINE t == PathOf(request, s)
<1>2. t \in Path
  BY DEF Named
<1> HIDE DEF a
<1>3. ASSUME s \in Ending(k, a)
      PROVE  s \in Through(k, a)
  BY <1>1, <1>3, PrefixSelf DEF Ending, Through
<1>4. ASSUME NEW c \in Children(p.nodes[n]), s \in Through(k, w[c])
      PROVE  s \in Through(k, a)
  <2>1. Below(p, w, n, c)
    BY ChildPath
  <2>2. PICK e \in Segment : w[c] = Append(a, e)
    BY <2>1 DEF Below, a
  <2>3. IsPrefix(Append(a, e), t)
    BY <1>4, <2>2 DEF Through
  <2> HIDE DEF t
  <2>4. IsPrefix(a, t)
    BY <1>1, <1>2, <2>3, PrefixShorter
  <2>5. QED
    BY <2>4 DEF Through, t
<1>5. ASSUME s \in Through(k, a), s \notin Ending(k, a)
      PROVE  \E c \in Children(p.nodes[n]) : s \in Through(k, w[c])
  <2>1. IsPrefix(a, t) /\ a # t
    BY <1>5 DEF Through, Ending
  <2>2. PICK e \in Segment : IsPrefix(Append(a, e), t) /\ Append(a, e) \in Prefixes(t)
    BY <1>1, <1>2, <2>1, PrefixLonger
  <2>3. Append(a, e) \in RequestedPrefixes(request, k)
    BY <2>2 DEF RequestedPrefixes
  <2>4. PICK c \in DOMAIN w : w[c] = Append(a, e)
    BY <2>3 DEF Covers
  <2>5. Leads(p, n, e, c)
    BY <2>4, FollowIs DEF a
  <2>6. c \in Children(p.nodes[n])
    BY <2>5 DEF Leads, EdgeTo, Children, ObjectChildren, ArrayChildren, ToSet
  <2>7. s \in Through(k, w[c])
    BY <2>2, <2>4 DEF Through
  <2>8. QED
    BY <2>6, <2>7
<1>6. QED
  BY <1>3, <1>4, <1>5 DEF a

\* Two children have no request in common, nor has one with its parent.
LEMMA ThroughApart ==
  ASSUME NEW k, Named(k), NEW p, NEW w, Trie(p, w), NEW n \in DOMAIN w,
         NEW c \in Children(p.nodes[n]), NEW s \in Through(k, w[c])
  PROVE  /\ s \notin Ending(k, w[n])
         /\ \A d \in Children(p.nodes[n]) : s \in Through(k, w[d]) => d = c
<1>0. \A i \in DOMAIN w : w[i] \in Path
  BY TrieShape
<1> DEFINE a == w[n]
           t == PathOf(request, s)
<1>1. a \in Path /\ t \in Path
  BY <1>0 DEF Named, Through
<1> HIDE DEF a, t
<1>2. ASSUME NEW d \in Children(p.nodes[n]), s \in Through(k, w[d])
      PROVE  d \in DOMAIN w /\ w[d] = SubSeq(t, 1, Len(a) + 1) /\ a # t
  <2>1. Below(p, w, n, d)
    BY ChildPath
  <2>2. PICK e \in Segment : w[d] = Append(a, e)
    BY <2>1 DEF Below, a
  <2>3. IsPrefix(Append(a, e), t)
    BY <1>2, <2>2 DEF Through, t
  <2>4. Append(a, e) = SubSeq(t, 1, Len(a) + 1) /\ a # t
    BY <1>1, <2>3, PrefixShorter
  <2>5. QED
    BY <2>1, <2>2, <2>4 DEF Below
<1>3. s \notin Ending(k, a)
  BY <1>2 DEF Ending, t
<1>4. \A d \in Children(p.nodes[n]) : s \in Through(k, w[d]) => d = c
  <2> SUFFICES ASSUME NEW d \in Children(p.nodes[n]), s \in Through(k, w[d])
               PROVE  d = c
    OBVIOUS
  <2>1. d \in DOMAIN w /\ c \in DOMAIN w /\ w[d] = w[c]
    BY <1>2
  <2>2. QED
    BY <2>1 DEF Trie
<1>5. QED
  BY <1>3, <1>4 DEF a

-----------------------------------------------------------------------------
(* What the last pass over the nodes notes. *)

\* An ascending sequence is as long as its set is large.
LEMMA Counted ==
  ASSUME NEW s \in Seq(Nat), NEW S, InAscendingOrder(s, S)
  PROVE  /\ Len(s) \in Nat /\ IsFiniteSet(S) /\ Cardinality(S) = Len(s)
         /\ S = ToSet(s) /\ S \subseteq Nat
<1> DEFINE l == Len(s)
<1>1. /\ l \in Nat /\ DOMAIN s = 1..l /\ \A i \in 1..l : s[i] \in Nat
      /\ S = ToSet(s) /\ \A i, j \in DOMAIN s : i < j => s[i] < s[j]
      /\ s \in [1..l -> Nat]
  BY ElementOfSeq DEF InAscendingOrder
<1> HIDE DEF l
<1>2. S = {s[i] : i \in 1..l}
  BY <1>1 DEF ToSet
<1>3. \A i, j \in 1..l : s[i] = s[j] => i = j
  <2> SUFFICES ASSUME NEW i \in 1..l, NEW j \in 1..l, s[i] = s[j], i # j
               PROVE  FALSE
    OBVIOUS
  <2>1. i < j \/ j < i
    BY <1>1
  <2>2. s[i] < s[j] \/ s[j] < s[i]
    BY <1>1, <2>1
  <2>3. QED
    BY <1>1, <2>2
<1>4. s \in [1..l -> S] /\ S \subseteq Nat
  BY <1>1, <1>2
<1>5. s \in Bijection(1..l, S)
  BY <1>2, <1>3, <1>4 DEF Bijection, Injection, Surjection, IsInjective
<1>6. ExistsBijection(1..l, S)
  BY <1>5 DEF ExistsBijection
<1>7. Cardinality(S) = l
  BY <1>1, <1>6, FS_CountingElements
<1>8. IsFiniteSet(S)
  BY <1>1, <1>6, FS_NatBijection
<1>9. QED
  BY <1>1, <1>4, <1>7, <1>8 DEF l

LEMMA ThroughType ==
  ASSUME NEW k \in Nat, NEW path
  PROVE  /\ Through(k, path) \subseteq 0..(k - 1) /\ Through(k, path) \subseteq Nat
         /\ IsFiniteSet(Through(k, path)) /\ Cardinality(Through(k, path)) \in Nat
<1>1. Through(k, path) \subseteq 0..(k - 1) /\ 0..(k - 1) \subseteq Nat
  BY DEF Through
<1>2. IsFiniteSet(0..(k - 1))
  <2>1. 0 \in Int /\ k - 1 \in Int
    OBVIOUS
  <2>2. QED
    BY <2>1, FS_Interval
<1>3. QED
  BY <1>1, <1>2, FS_Subset, FS_CardinalityType

\* Every node is there for some request.
LEMMA ThroughFound ==
  ASSUME NEW k \in Nat \ {0}, Named(k), NEW p, NEW w, Trie(p, w), Covers(w, k), NEW n \in DOMAIN w
  PROVE  Through(k, w[n]) # {}
<1> DEFINE a == w[n]
<1>1. a \in Path
  BY TrieShape
<1>2. a \in RequestedPrefixes(request, k)
  BY DEF Covers
<1> HIDE DEF a
<1>3. CASE a = <<>>
  <2>1. 0 \in 0..(k - 1)
    OBVIOUS
  <2> DEFINE t == PathOf(request, 0)
  <2>2. t \in Path
    BY <2>1 DEF Named
  <2> HIDE DEF t
  <2>3. a = SubSeq(t, 1, 0)
    BY <1>3, <2>2, PrefixNone
  <2>4. Len(a) = 0 /\ 0 \in 0..Len(t)
    BY <1>3, <2>2 DEF Path
  <2>5. IsPrefix(a, t)
    BY <1>1, <2>2, <2>3, <2>4, PrefixIs
  <2>6. 0 \in Through(k, a)
    BY <2>1, <2>5 DEF Through, t
  <2>7. QED
    BY <2>6 DEF a
<1>4. CASE a # <<>>
  <2>1. PICK s \in 0..(k - 1) : a \in Prefixes(PathOf(request, s))
    BY <1>2, <1>4 DEF RequestedPrefixes
  <2> DEFINE t == PathOf(request, s)
  <2>2. t \in Path
    BY DEF Named
  <2>3. PICK i \in 0..Len(t) : a = SubSeq(t, 1, i)
    BY <2>1 DEF Prefixes
  <2> HIDE DEF t
  <2>4. Len(a) = i
    BY <2>2, <2>3, PrefixShape DEF Path
  <2>5. IsPrefix(a, t)
    BY <1>1, <2>2, <2>3, <2>4, PrefixIs
  <2>6. s \in Through(k, a)
    BY <2>5 DEF Through, t
  <2>7. QED
    BY <2>6 DEF a
<1>5. QED
  BY <1>3, <1>4

\* The numbers of a node are right.
Totals(f, w, k, n) == f[n].sub = Cardinality(Through(k, w[n]))
                       /\ f[n].first = Min(Through(k, w[n]))

\* A node is counted from its slots and from what its children have noted.
LEMMA CountNoted ==
  ASSUME NEW k \in Nat, Named(k), NEW p, NEW w, Tree(p, w, k), Covers(w, k),
         NEW n \in DOMAIN w, NEW f, \A c \in Children(p.nodes[n]) : Totals(f, w, k, c)
  PROVE  Len(p.nodes[n].slots) + SubSum(f, Children(p.nodes[n])) = Cardinality(Through(k, w[n]))
<1> DEFINE C == Children(p.nodes[n])
           B == 0..(k - 1)
           H == [c \in C |-> Through(k, w[c])]
           e == Ending(k, w[n])
           U == UNION {H[c] : c \in C}
           T == Through(k, w[n])
           mine == p.nodes[n].slots
<1>0. Trie(p, w)
  BY DEF Tree
<1>1. IsFiniteSet(B) /\ T \subseteq B /\ IsFiniteSet(T)
  <2>1. 0 \in Int /\ k - 1 \in Int
    OBVIOUS
  <2>2. QED
    BY <2>1, FS_Interval, ThroughType
<1>2. IsFiniteSet(C)
  <2>1. C \subseteq DOMAIN w
    BY <1>0, ChildPath DEF Below
  <2> HIDE DEF C
  <2>2. DOMAIN w = 1..Len(w) /\ 1 \in Int /\ Len(w) \in Int
    BY <1>0, TrieShape
  <2>3. QED
    BY <2>1, <2>2, FS_Interval, FS_Subset
<1>3. InAscendingOrder(mine, e) /\ mine \in Seq(Nat)
  <2>1. InAscendingOrder(mine, e)
    BY DEF Tree, Filled
  <2>2. p.nodes[n] \in PlanNode
    BY <1>0, TrieShape
  <2>3. QED
    BY <2>1, <2>2, NodeType
<1> HIDE DEF mine
<1>4. Len(mine) \in Nat /\ IsFiniteSet(e) /\ Cardinality(e) = Len(mine)
  BY <1>3, Counted
<1>5. \A s : s \in T <=> (s \in e \/ \E c \in C : s \in Through(k, w[c]))
  BY <1>0, ThroughSplit
<1>6. \A c \in C : \A s \in Through(k, w[c]) :
        s \notin e /\ \A d \in C : s \in Through(k, w[d]) => d = c
  BY <1>0, ThroughApart
<1>7. \A c \in C : f[c].sub = Cardinality(Through(k, w[c]))
  BY DEF Totals
<1> HIDE DEF e, T, C
<1>8. \A c \in C : H[c] = Through(k, w[c])
  OBVIOUS
<1>9. Apart(H, C, B)
  <2>1. H \in [C -> SUBSET B]
    BY DEF Through
  <2>2. QED
    BY <1>1, <1>6, <1>8, <2>1 DEF Apart
<1> HIDE DEF H, B
<1>10. \A c \in C : f[c].sub = Cardinality(H[c])
  BY <1>7, <1>8
<1>11. SubSum(f, C) = Cardinality(U)
  BY <1>2, <1>9, <1>10, SubSumIs DEF Together
<1>12. T = e \cup U /\ e \cap U = {}
  BY <1>5, <1>6, <1>8
<1> HIDE DEF U
<1>13. IsFiniteSet(U)
  BY <1>1, <1>12, FS_Subset
<1>14. Cardinality(e \cup U) = Cardinality(e) + Cardinality(U) - Cardinality(e \cap U)
  BY <1>4, <1>13, FS_Union
<1>15. Cardinality(e \cap U) = 0
  BY <1>12, FS_EmptySet
<1>16. Cardinality(U) \in Nat
  BY <1>13, FS_CardinalityType
<1>17. Cardinality(T) = Len(mine) + Cardinality(U)
  BY <1>4, <1>12, <1>14, <1>15, <1>16
<1>18. QED
  BY <1>11, <1>17 DEF T, C, mine

\* The least slot below a node is one of its own or the least of a child.
LEMMA FirstNoted ==
  ASSUME NEW k \in Nat \ {0}, k <= NoSlot, NoSlot \in Nat,
         Named(k), NEW p, NEW w, Tree(p, w, k), Covers(w, k),
         NEW n \in DOMAIN w, NEW f, \A c \in Children(p.nodes[n]) : Totals(f, w, k, c)
  PROVE  Min({NoSlot} \cup ToSet(p.nodes[n].slots)
               \cup {f[c].first : c \in Children(p.nodes[n])}) = Min(Through(k, w[n]))
<1> DEFINE C == Children(p.nodes[n])
           e == Ending(k, w[n])
           T == Through(k, w[n])
           A == {NoSlot} \cup e \cup {f[c].first : c \in C}
           m == Min(T)
<1>0. Trie(p, w)
  BY DEF Tree
<1>1. T \subseteq 0..(k - 1) /\ T \subseteq Nat /\ T # {}
  BY <1>0, ThroughType, ThroughFound
<1>2. ToSet(p.nodes[n].slots) = e
  BY DEF Tree, Filled, InAscendingOrder
<1>3. \A s : s \in T <=> (s \in e \/ \E c \in C : s \in Through(k, w[c]))
  BY <1>0, ThroughSplit
<1>4. \A c \in C : /\ f[c].first = Min(Through(k, w[c]))
                   /\ Through(k, w[c]) \subseteq Nat /\ Through(k, w[c]) # {}
  <2> SUFFICES ASSUME NEW c \in C
               PROVE  /\ f[c].first = Min(Through(k, w[c]))
                      /\ Through(k, w[c]) \subseteq Nat /\ Through(k, w[c]) # {}
    OBVIOUS
  <2>1. c \in DOMAIN w
    BY <1>0, ChildPath DEF Below
  <2>2. QED
    BY <1>0, <2>1, ThroughType, ThroughFound DEF Totals
<1> HIDE DEF C, e, T
<1>5. m \in T /\ \A y \in T : m <= y
  BY <1>1, MinIs
<1> HIDE DEF m
<1>6. \A c \in C : f[c].first \in T /\ \A y \in Through(k, w[c]) : f[c].first <= y
  <2> SUFFICES ASSUME NEW c \in C
               PROVE  f[c].first \in T /\ \A y \in Through(k, w[c]) : f[c].first <= y
    OBVIOUS
  <2>1. f[c].first \in Through(k, w[c]) /\ \A y \in Through(k, w[c]) : f[c].first <= y
    BY <1>4, MinIs
  <2>2. QED
    BY <1>3, <2>1
<1>7. A \subseteq Nat /\ NoSlot \in A /\ \A y \in A : m <= y
  <2>1. \A y \in T : y \in Nat /\ m <= y
    BY <1>1, <1>5
  <2>2. m <= NoSlot
    BY <1>1, <1>5
  <2>3. e \subseteq T
    BY <1>3
  <2>4. QED
    BY <1>6, <2>1, <2>2, <2>3
<1>8. m \in A
  <2>1. CASE m \in e
    BY <2>1
  <2>2. CASE m \notin e
    <3>1. PICK c \in C : m \in Through(k, w[c])
      BY <1>3, <1>5, <2>2
    <3>2. f[c].first <= m /\ m <= f[c].first /\ f[c].first \in Nat /\ m \in Nat
      BY <1>1, <1>5, <1>6, <3>1
    <3>3. f[c].first = m
      BY <3>2
    <3>4. QED
      BY <3>3
  <2>3. QED
    BY <2>1, <2>2
<1> HIDE DEF A
<1>9. Min(A) \in A /\ Min(A) <= m
  BY <1>7, <1>8, MinIs
<1>10. Min(A) = m
  <2>1. m <= Min(A) /\ Min(A) \in Nat /\ m \in Nat
    BY <1>1, <1>5, <1>7, <1>9
  <2>2. QED
    BY <1>9, <2>1
<1>11. QED
  BY <1>2, <1>10 DEF A, C, T, m

\* What the pass notes for a node.
Note(f, p, n) ==
  [p.nodes[n] EXCEPT
     !.sub = Len(p.nodes[n].slots) + SubSum(f, Children(p.nodes[n])),
     !.first = Min({NoSlot} \cup ToSet(p.nodes[n].slots)
                     \cup {f[c].first : c \in Children(p.nodes[n])})]

LEMMA NotedIs ==
  ASSUME NEW f, NEW p
  PROVE  Noted(f, p) <=> f = [n \in DOMAIN p.nodes |-> Note(f, p, n)]
BY Zenon DEF Noted, Note

\* What holds for the plan when it is complete.
Complete(p, w, k) ==
  /\ k \in Nat \ {0} /\ NoSlot \in Nat /\ k <= NoSlot /\ Named(k)
  /\ Tree(p, w, k) /\ Covers(w, k)

\* The annotated node.
Annotated(p, w, k, n) ==
  [p.nodes[n] EXCEPT !.sub = Cardinality(Through(k, w[n])), !.first = Min(Through(k, w[n]))]

\* What the pass notes for a node whose children are noted rightly.
LEMMA NodeNoted ==
  ASSUME NEW k, NEW p, NEW w, Complete(p, w, k),
         NEW n \in DOMAIN w, NEW f, \A c \in Children(p.nodes[n]) : Totals(f, w, k, c)
  PROVE  Note(f, p, n) = Annotated(p, w, k, n)
<1>1. /\ k \in Nat \ {0} /\ k \in Nat /\ k <= NoSlot /\ NoSlot \in Nat
      /\ Named(k) /\ Tree(p, w, k) /\ Covers(w, k)
  BY DEF Complete
<1>2. Len(p.nodes[n].slots) + SubSum(f, Children(p.nodes[n])) = Cardinality(Through(k, w[n]))
  BY <1>1, CountNoted
<1>3. Min({NoSlot} \cup ToSet(p.nodes[n].slots)
            \cup {f[c].first : c \in Children(p.nodes[n])}) = Min(Through(k, w[n]))
  BY <1>1, FirstNoted
<1>4. QED
  BY <1>2, <1>3, Zenon DEF Note, Annotated

LEMMA AnnotatedShape ==
  ASSUME NEW k, NEW p, NEW w, Complete(p, w, k), NEW n \in DOMAIN w
  PROVE  LET a == Annotated(p, w, k, n) IN
         /\ a \in PlanNode
         /\ a.object = p.nodes[n].object /\ a.array = p.nodes[n].array
         /\ a.slots = p.nodes[n].slots
         /\ a.sub = Cardinality(Through(k, w[n])) /\ a.first = Min(Through(k, w[n]))
<1> DEFINE T == Through(k, w[n])
<1>0. k \in Nat \ {0} /\ Named(k) /\ Trie(p, w) /\ Covers(w, k)
  BY DEF Complete, Tree
<1>1. T \subseteq Nat /\ Cardinality(T) \in Nat /\ T # {}
  BY <1>0, ThroughType, ThroughFound
<1>2. p.nodes[n] \in PlanNode
  BY <1>0, TrieShape
<1> HIDE DEF T
<1>3. Min(T) \in Nat
  BY <1>1, MinIs
<1>4. QED
  BY <1>1, <1>2, <1>3 DEF Annotated, T, PlanNode

\* The annotated nodes are what the pass notes.
LEMMA NotedExists ==
  ASSUME NEW k, NEW p, NEW w, Complete(p, w, k)
  PROVE  \E f : Noted(f, p)
<1> DEFINE f == [n \in DOMAIN p.nodes |-> Annotated(p, w, k, n)]
<1>0. Trie(p, w)
  BY DEF Complete, Tree
<1>1. DOMAIN p.nodes = DOMAIN w
  BY <1>0, TrieShape
<1>2. \A n \in DOMAIN w : Totals(f, w, k, n)
  <2> SUFFICES ASSUME NEW n \in DOMAIN w PROVE Totals(f, w, k, n)
    OBVIOUS
  <2>1. f[n] = Annotated(p, w, k, n)
    BY <1>1
  <2> HIDE DEF f
  <2>2. QED
    BY <2>1, AnnotatedShape DEF Totals
<1> HIDE DEF f
<1>3. \A n \in DOMAIN p.nodes : Note(f, p, n) = Annotated(p, w, k, n)
  <2> SUFFICES ASSUME NEW n \in DOMAIN w
               PROVE  Note(f, p, n) = Annotated(p, w, k, n)
    BY <1>1
  <2>1. \A c \in Children(p.nodes[n]) : c \in DOMAIN w
    BY <1>0, ChildPath DEF Below
  <2>2. \A c \in Children(p.nodes[n]) : Totals(f, w, k, c)
    BY <1>2, <2>1
  <2>3. QED
    BY <2>2, NodeNoted
<1>4. f = [n \in DOMAIN p.nodes |-> Note(f, p, n)]
  <2>1. [n \in DOMAIN p.nodes |-> Annotated(p, w, k, n)] = [n \in DOMAIN p.nodes |-> Note(f, p, n)]
    BY <1>3
  <2>2. QED
    BY <2>1 DEF f
<1>5. QED
  BY <1>4, NotedIs

\* And nothing else is: a node is noted after its children.
LEMMA NotedExact ==
  ASSUME NEW k, NEW p, NEW w, Complete(p, w, k), NEW f, Noted(f, p)
  PROVE  \A n \in DOMAIN w : f[n] = Annotated(p, w, k, n) /\ Totals(f, w, k, n)
<1> DEFINE N == Len(w)
           Right(n) == f[n] = Annotated(p, w, k, n) /\ Totals(f, w, k, n)
           T == {i \in 0..N : \A n \in DOMAIN w : n + i > N => Right(n)}
<1>0. Trie(p, w)
  BY DEF Complete, Tree
<1>1. N \in Nat /\ DOMAIN w = 1..N /\ DOMAIN p.nodes = DOMAIN w
  BY <1>0, TrieShape
<1>2. \A n \in DOMAIN w : f[n] = Note(f, p, n)
  <2>1. f = [n \in DOMAIN p.nodes |-> Note(f, p, n)]
    BY NotedIs
  <2>2. QED
    BY <1>1, <2>1
<1>3. ASSUME NEW n \in DOMAIN w, \A c \in DOMAIN w : c > n => Right(c)
      PROVE  Right(n)
  <2>1. \A c \in Children(p.nodes[n]) : c \in DOMAIN w /\ c > n
    BY <1>0, ChildPath DEF Below
  <2>2. \A c \in Children(p.nodes[n]) : Totals(f, w, k, c)
    BY <1>3, <2>1
  <2>3. f[n] = Annotated(p, w, k, n)
    BY <1>2, <2>2, NodeNoted
  <2>4. Totals(f, w, k, n)
    BY <2>3, AnnotatedShape DEF Totals
  <2>5. QED
    BY <2>3, <2>4
<1> HIDE DEF N, Right
<1>4. 0 \in T
  BY <1>1
<1>5. \A i \in 0..N : i \in T /\ i + 1 <= N => i + 1 \in T
  <2> SUFFICES ASSUME NEW i \in 0..N, i \in T, i + 1 <= N
               PROVE  i + 1 \in T
    OBVIOUS
  <2>1. \A n \in DOMAIN w : n + i > N => Right(n)
    OBVIOUS
  <2>2. ASSUME NEW n \in DOMAIN w, n + (i + 1) > N
        PROVE  Right(n)
    <3>1. \A c \in DOMAIN w : c > n => c + i > N
      BY <1>1, <2>2
    <3>2. QED
      BY <1>3, <2>1, <3>1
  <2>3. i + 1 \in 0..N
    BY <1>1
  <2>4. QED
    BY <2>2, <2>3
<1>6. \A i \in 0..N : i \in T
  <2> HIDE DEF T
  <2>1. QED
    BY <1>1, <1>4, <1>5, Reached, Zenon
<1>7. N \in T
  BY <1>1, <1>6
<1>8. \A n \in DOMAIN w : Right(n)
  BY <1>1, <1>7
<1>9. QED
  BY <1>8 DEF Right

\* The finished plan: the same tree, each node with the number of the requests
\* that go through it and the least of them.
LEMMA Finalized ==
  ASSUME NEW k, NEW p, NEW w, Complete(p, w, k), NEW q, q = FinalizePlanMetadata(p)
  PROVE  Tree(q, w, k) /\ q.at = p.at /\ \A n \in DOMAIN w : Totals(q.nodes, w, k, n)
<1> DEFINE f == CHOOSE f : Noted(f, p)
<1>1. Noted(f, p)
  BY NotedExists
<1>2. q = [p EXCEPT !.nodes = f]
  BY FinalizeIs
<1> HIDE DEF f
<1>3. \A n \in DOMAIN w : f[n] = Annotated(p, w, k, n) /\ Totals(f, w, k, n)
  BY <1>1, NotedExact
<1>4. DOMAIN f = DOMAIN p.nodes
  <2>1. f = [n \in DOMAIN p.nodes |-> Note(f, p, n)]
    BY <1>1, NotedIs
  <2>2. QED
    BY <2>1
<1>5. Tree(p, w, k) /\ Trie(p, w) /\ Ascending(p) /\ Numbered(p)
  BY DEF Complete, Tree
<1>6. p \in Plans /\ DOMAIN p.nodes = DOMAIN w /\ Len(w) \in Nat /\ DOMAIN w = 1..Len(w)
  BY <1>5, TrieShape
<1>7. \A n \in DOMAIN w : /\ f[n] \in PlanNode
                          /\ f[n].object = p.nodes[n].object /\ f[n].array = p.nodes[n].array
                          /\ f[n].slots = p.nodes[n].slots
  BY <1>3, AnnotatedShape
<1>8. f \in Seq(PlanNode)
  <2>1. f = [n \in DOMAIN p.nodes |-> f[n]]
    <3>1. f = [n \in DOMAIN p.nodes |-> Note(f, p, n)]
      BY <1>1, NotedIs
    <3>2. QED
      BY <3>1
  <2>2. f \in [1..Len(w) -> PlanNode]
    BY <1>4, <1>6, <1>7, <2>1
  <2>3. QED
    BY <1>6, <2>2, SeqDef
<1>9. q.nodes = f /\ q.edges = p.edges /\ q.at = p.at /\ q \in Plans
  BY <1>2, <1>6, <1>8 DEF Plans
<1>10. Trie(q, w) /\ Ascending(q) /\ Numbered(q)
  BY <1>4, <1>5, <1>6, <1>7, <1>9, SameEdges
<1>11. Filled(q, w, k)
  BY <1>5, <1>7, <1>9 DEF Tree, Filled
<1>12. QED
  BY <1>3, <1>5, <1>9, <1>10, <1>11 DEF Tree

-----------------------------------------------------------------------------
(* The request and its prefixes. *)

\* Slots without gaps or repetitions name every path.
LEMMA RequestNamed ==
  ASSUME NEW r \in Requests, DescriptorsValid(r)
  PROVE  /\ Len(r) \in Nat \ {0} /\ NoSlot \in Nat /\ Len(r) <= NoSlot
         /\ \A s \in 0..(Len(r) - 1) : PathOf(r, s) \in Path /\ PathOf(r, s) # <<>>
<1> DEFINE l == Len(r)
           D == [slot : 0..(NoSlot - 1), path : Path]
           f == [i \in 1..l |-> r[i].slot]
<1>1. NoSlot \in Nat
  BY SourceAssumption DEF SourceAssumption
<1>2. r \in Seq(D)
  BY PlanAssumption DEF PlanAssumption, Path, Segment
<1> HIDE DEF D
<1>3. l \in Nat /\ DOMAIN r = 1..l /\ \A i \in 1..l : r[i] \in D
  BY <1>2, ElementOfSeq
<1>4. l # 0
  BY <1>2, EmptySeq DEF DescriptorsValid
<1> HIDE DEF l
<1>5. \A i \in 1..l : /\ r[i].slot \in 0..(NoSlot - 1)
                      /\ r[i].path \in Path /\ r[i].path # <<>>
  BY <1>3 DEF D, DescriptorsValid
<1>6. \A i \in 1..l : r[i].slot < l
  BY <1>3 DEF DescriptorsValid, l
<1>7. \A i, j \in 1..l : r[i].slot = r[j].slot => i = j
  BY <1>3 DEF DescriptorsValid
<1>8. f \in Injection(1..l, 0..(l - 1))
  <2>1. \A i \in 1..l : r[i].slot \in 0..(l - 1)
    BY <1>1, <1>3, <1>5, <1>6
  <2>2. QED
    BY <1>7, <2>1 DEF Injection, IsInjective
<1> HIDE DEF f
<1>9. f \in Surjection(1..l, 0..(l - 1))
  <2>1. 0 \in Int /\ 1 \in Int /\ l \in Int /\ l - 1 \in Int
    BY <1>3
  <2>2. /\ IsFiniteSet(0..(l - 1))
        /\ Cardinality(1..l) = (IF 1 > l THEN 0 ELSE l - 1 + 1)
        /\ Cardinality(0..(l - 1)) = (IF 0 > l - 1 THEN 0 ELSE (l - 1) - 0 + 1)
    BY <2>1, FS_Interval
  <2>3. Cardinality(1..l) = Cardinality(0..(l - 1))
    BY <1>3, <1>4, <2>2
  <2>4. QED
    BY <1>8, <2>2, <2>3, FS_Injection
<1>10. \A s \in 0..(l - 1) : \E i \in 1..l : r[i].slot = s
  BY <1>9 DEF Surjection, f
<1>11. ASSUME NEW s \in 0..(l - 1)
       PROVE  PathOf(r, s) \in Path /\ PathOf(r, s) # <<>>
  <2> DEFINE e == CHOOSE e \in ToSet(r) : e.slot = s
  <2>1. e \in ToSet(r)
    BY <1>3, <1>10 DEF ToSet
  <2> HIDE DEF e
  <2>2. e.path \in Path /\ e.path # <<>>
    BY <1>3, <1>5, <2>1 DEF ToSet
  <2>3. QED
    BY <2>2 DEF PathOf, e
<1>12. l <= NoSlot
  <2>1. l - 1 \in 0..(l - 1)
    BY <1>3, <1>4
  <2>2. PICK i \in 1..l : r[i].slot = l - 1
    BY <1>10, <2>1
  <2>3. l - 1 \in 0..(NoSlot - 1)
    BY <1>5, <2>2
  <2>4. QED
    BY <1>1, <1>3, <2>3
<1>13. QED
  BY <1>1, <1>3, <1>4, <1>11, <1>12 DEF l

LEMMA NoPrefixes == RequestedPrefixes(request, 0) = {<<>>}
<1>1. 0..(0 - 1) = {}
  OBVIOUS
<1> DEFINE I == 0..(0 - 1)
<1>2. I = {}
  BY <1>1
<1> HIDE DEF I
<1>3. UNION {Prefixes(PathOf(request, s)) : s \in I} = {}
  BY <1>2
<1>4. QED
  BY <1>3 DEF RequestedPrefixes, I

\* One more request brings its prefixes.
LEMMA MorePrefixes ==
  ASSUME NEW k \in Nat, NEW w, Covers(w, k), NEW v, Grafted(v, w, PathOf(request, k))
  PROVE  Covers(v, k + 1)
<1> DEFINE P(s) == Prefixes(PathOf(request, s))
<1>1. 0..((k + 1) - 1) = (0..(k - 1)) \cup {k}
  OBVIOUS
<1>2. RequestedPrefixes(request, k + 1) = {<<>>} \cup UNION {P(s) : s \in 0..((k + 1) - 1)}
  BY DEF RequestedPrefixes
<1>3. RequestedPrefixes(request, k) = {<<>>} \cup UNION {P(s) : s \in 0..(k - 1)}
  BY DEF RequestedPrefixes
<1> DEFINE I == 0..(k - 1)
           J == 0..((k + 1) - 1)
<1>4. J = I \cup {k}
  BY <1>1
<1> HIDE DEF P, I, J
<1>5. UNION {P(s) : s \in J} = (UNION {P(s) : s \in I}) \cup P(k)
  BY <1>4
<1>6. RequestedPrefixes(request, k + 1) = RequestedPrefixes(request, k) \cup P(k)
  BY <1>2, <1>3, <1>5 DEF I, J
<1>7. QED
  BY <1>6 DEF Covers, Grafted, P

\* A prefix of a prefix is one.
LEMMA PrefixesClosed ==
  ASSUME NEW k, Named(k), NEW a \in RequestedPrefixes(request, k), NEW i \in 0..Len(a)
  PROVE  SubSeq(a, 1, i) \in RequestedPrefixes(request, k)
<1>1. CASE a = <<>>
  <2>1. i = 0
    BY <1>1
  <2>2. SubSeq(a, 1, i) = <<>>
    BY <2>1, PrefixNone
  <2>3. QED
    BY <2>2 DEF RequestedPrefixes
<1>2. CASE a # <<>>
  <2>1. PICK s \in 0..(k - 1) : a \in Prefixes(PathOf(request, s))
    BY <1>2 DEF RequestedPrefixes
  <2> DEFINE t == PathOf(request, s)
  <2>2. t \in Path
    BY DEF Named
  <2>3. PICK l \in 0..Len(t) : a = SubSeq(t, 1, l)
    BY <2>1 DEF Prefixes
  <2>4. Prefixes(t) \subseteq RequestedPrefixes(request, k)
    BY DEF RequestedPrefixes
  <2> HIDE DEF t
  <2>5. Len(a) = l
    BY <2>2, <2>3, PrefixShape DEF Path
  <2>6. i \in 0..l
    BY <2>5
  <2>7. SubSeq(a, 1, i) = SubSeq(t, 1, i)
    BY <2>2, <2>3, <2>6, PrefixOfPrefix
  <2>8. i \in 0..Len(t)
    BY <2>2, <2>6 DEF Path
  <2>9. SubSeq(t, 1, i) \in Prefixes(t)
    BY <2>8 DEF Prefixes
  <2>10. QED
    BY <2>4, <2>7, <2>9
<1>3. QED
  BY <1>1, <1>2

\* The plan of no request is its root.
LEMMA RootPlan ==
  ASSUME NEW q, q = CreateNode(NoPlan)
  PROVE  q # NoPlan /\ q.at = 1 /\ \E w : Tree(q, w, 0) /\ Covers(w, 0)
<1> DEFINE w == <<<<>>>>
           ns == Append(<<>>, EmptyNode)
<1>1. EmptyNode \in PlanNode /\ <<>> \in Seq(PlanNode) /\ <<>> \in Path
  BY EmptyNodeType, EmptySeq DEF Path
<1>2. ns \in Seq(PlanNode) /\ Len(ns) = 1 /\ DOMAIN ns = {1} /\ ns[1] = EmptyNode
  BY <1>1
<1>3. w \in Seq(Path) /\ Len(w) = 1 /\ DOMAIN w = {1} /\ w[1] = <<>> /\ w # <<>>
  BY <1>1
<1> HIDE DEF w, ns
<1>4. q.nodes = ns /\ q.edges = 0 /\ q.at = 1 /\ q \in Plans
  BY <1>2 DEF CreateNode, NoPlan, Plans, ns
<1>5. q # NoPlan
  <2>1. NoPlan.nodes = <<>>
    BY DEF NoPlan
  <2>2. ns # <<>>
    BY <1>2, EmptySeq
  <2>3. QED
    BY <1>4, <2>1, <2>2
<1>6. Trie(q, w)
  <2>1. \A n \in DOMAIN w : \A s \in Segment, c \in Nat : ~EdgeTo(q.nodes[n], s, c)
    BY <1>2, <1>3, <1>4, EmptyNodeType
  <2>2. QED
    BY <1>2, <1>3, <1>4, <2>1 DEF Trie
<1>7. Ascending(q) /\ Numbered(q)
  BY <1>2, <1>4, EmptyNodeType DEF Ascending, Numbered
<1>8. Filled(q, w, 0)
  <2>1. 0..(0 - 1) = {}
    OBVIOUS
  <2>2. \A a : Ending(0, a) = {}
    BY <2>1 DEF Ending
  <2>3. EmptyNode.slots = <<>>
    BY EmptyNodeType
  <2>4. InAscendingOrder(<<>>, {})
    BY DEF InAscendingOrder, ToSet
  <2>5. QED
    BY <1>2, <1>3, <1>4, <2>1, <2>2, <2>3, <2>4 DEF Filled
<1>9. Covers(w, 0)
  BY <1>3, NoPrefixes DEF Covers
<1>10. QED
  BY <1>3, <1>4, <1>5, <1>6, <1>7, <1>8, <1>9 DEF Tree

-----------------------------------------------------------------------------
(* The plan in every state. *)

\* The plan holds the first requests: all of them, with their numbers, once
\* the last one is entered.
Planned ==
  /\ request \in Requests /\ DescriptorsValid(request)
  /\ planned \in 0..Len(request) /\ plan.at = 1
  /\ \E w : /\ Tree(plan, w, planned) /\ Covers(w, planned)
            /\ planned = Len(request) => \A n \in DOMAIN w : Totals(plan.nodes, w, planned, n)

PlanInv ==
  /\ stage = "plan" => request \in Requests
  /\ stage = "plan" /\ plan = NoPlan => planned = 0
  /\ plan # NoPlan => Planned

\* The first step: a root, for no request.
LEMMA PlanBegins == PlanInv /\ stage = "plan" /\ BeginPlan => Planned'
<1> SUFFICES ASSUME PlanInv, stage = "plan", BeginPlan
             PROVE  Planned'
  OBVIOUS
<1>1. /\ request \in Requests /\ DescriptorsValid(request) /\ planned = 0
      /\ request' = request /\ planned' = planned /\ plan' = CreateNode(NoPlan)
  BY DEF PlanInv, BeginPlan
<1>2. plan'.at = 1 /\ \E w : Tree(plan', w, 0) /\ Covers(w, 0)
  BY <1>1, RootPlan
<1>3. Len(request) \in Nat \ {0}
  BY <1>1, RequestNamed
<1>4. planned' \in 0..Len(request) /\ planned' # Len(request) /\ planned' = 0
  BY <1>1, <1>3
<1>5. QED
  BY <1>1, <1>2, <1>4 DEF Planned, Tree, Filled, Ending, Covers, RequestedPrefixes

\* A request is entered; the last one is followed by the pass over the nodes.
LEMMA PlanGrows == Planned /\ PlanSlot => Planned'
<1> SUFFICES ASSUME Planned, PlanSlot
             PROVE  Planned'
  OBVIOUS
<1> DEFINE k == planned
           l == Len(request)
           path == PathOf(request, k)
           grown == InsertEntry(plan, k, path)
<1>1. /\ request \in Requests /\ DescriptorsValid(request) /\ k \in 0..l /\ k < l
      /\ request' = request /\ planned' = k + 1 /\ plan.at = 1
      /\ plan' = IF k + 1 = l THEN FinalizePlanMetadata(grown) ELSE grown
  BY DEF Planned, PlanSlot
<1>2. /\ l \in Nat \ {0} /\ NoSlot \in Nat /\ l <= NoSlot
      /\ \A s \in 0..(l - 1) : PathOf(request, s) \in Path
  BY <1>1, RequestNamed
<1>3. k \in Nat /\ path \in Path /\ k + 1 \in 0..l
  BY <1>1, <1>2
<1>4. PICK w : Tree(plan, w, k) /\ Covers(w, k)
  BY DEF Planned
<1> HIDE DEF grown, path, k, l
<1>5. PICK v : Tree(grown, v, k + 1) /\ grown.at = 1 /\ Grafted(v, w, path)
  <2>1. path = PathOf(request, k) /\ grown = InsertEntry(plan, k, path)
    BY DEF path, grown
  <2>2. QED
    BY <1>1, <1>3, <1>4, <2>1, EntryInserted
<1>6. Covers(v, k + 1)
  BY <1>3, <1>4, <1>5, MorePrefixes DEF path
<1> DEFINE j == k + 1
<1>7. /\ Tree(plan', v, j) /\ plan'.at = 1
      /\ j = l => \A n \in DOMAIN v : Totals(plan'.nodes, v, j, n)
  <2>1. CASE j # l
    BY <1>1, <1>5, <2>1
  <2>2. CASE j = l
    <3>1. j \in Nat \ {0} /\ Named(j)
      BY <1>2, <2>2 DEF Named
    <3>2. Complete(grown, v, j)
      BY <1>2, <1>5, <1>6, <2>2, <3>1 DEF Complete
    <3>3. plan' = FinalizePlanMetadata(grown)
      BY <1>1, <2>2
    <3> HIDE DEF j
    <3>4. Tree(plan', v, j) /\ plan'.at = grown.at /\ \A n \in DOMAIN v : Totals(plan'.nodes, v, j, n)
      BY <3>2, <3>3, Finalized
    <3>5. QED
      BY <1>5, <3>4
  <2>3. QED
    BY <2>1, <2>2
<1>8. planned' = j /\ j \in 0..l /\ Covers(v, j)
  BY <1>1, <1>3, <1>6
<1> HIDE DEF j
<1>9. /\ Tree(plan, v, planned)' /\ Covers(v, planned)'
      /\ (planned = Len(request) => \A n \in DOMAIN v : Totals(plan.nodes, v, planned, n))'
  BY <1>1, <1>7, <1>8 DEF l, Tree, Filled, Ending, Covers, RequestedPrefixes, Totals, Through
<1>10. QED
  BY <1>1, <1>7, <1>8, <1>9 DEF Planned, l

\* Nothing but the planning touches the plan.
LEMMA PlanKept == PlanInv /\ UNCHANGED planVars /\ (stage' = "plan" => stage = "plan") => PlanInv'
<1> SUFFICES ASSUME PlanInv, UNCHANGED planVars, stage' = "plan" => stage = "plan"
             PROVE  PlanInv'
  OBVIOUS
<1>1. request' = request /\ planned' = planned /\ plan' = plan
  BY DEF planVars
<1>2. Planned' <=> Planned
  BY <1>1 DEF Planned, Tree, Filled, Ending, Covers, RequestedPrefixes, Totals, Through
<1>3. QED
  BY <1>1, <1>2 DEF PlanInv

LEMMA PlanMade == PlanInv /\ MakePlan => PlanInv'
<1> SUFFICES ASSUME PlanInv, MakePlan
             PROVE  PlanInv'
  OBVIOUS
<1>0. stage = "plan"
  BY DEF MakePlan
<1>1. CASE BeginPlan
  <2>1. Planned'
    BY <1>0, <1>1, PlanBegins
  <2>2. plan' # NoPlan /\ request' = request
    BY <1>1, RootPlan DEF BeginPlan
  <2>3. QED
    BY <1>0, <2>1, <2>2 DEF PlanInv
<1>2. CASE PlanSlot
  <2>1. plan # NoPlan
    BY <1>2 DEF PlanSlot, NoPlan
  <2>2. Planned'
    BY <1>2, <2>1, PlanGrows DEF PlanInv
  <2>3. plan' # NoPlan /\ request' = request
    <3>1. PICK w : Trie(plan', w)
      BY <2>2 DEF Planned, Tree
    <3>2. Len(plan'.nodes) # 0
      BY <3>1, TrieShape DEF Trie
    <3>3. NoPlan.nodes = <<>> /\ Len(<<>>) = 0
      BY DEF NoPlan
    <3>4. QED
      BY <1>2, <3>2, <3>3 DEF PlanSlot
  <2>4. QED
    BY <1>0, <2>2, <2>3 DEF PlanInv
<1>3. CASE UNCHANGED planVars
  BY <1>0, <1>3, PlanKept
<1>4. CASE PlanLost /\ stage' = "over"
  BY <1>4 DEF PlanLost, PlanInv
<1>5. QED
  BY <1>1, <1>2, <1>3, <1>4 DEF MakePlan, planVars

LEMMA PlanInvNext == PlanInv /\ [Next]_vars => PlanInv'
<1> SUFFICES ASSUME PlanInv, [Next]_vars
             PROVE  PlanInv'
  OBVIOUS
<1>1. CASE MakePlan
  BY <1>1, PlanMade
<1>2. CASE OpenDocument
  BY <1>2, PlanKept DEF OpenDocument
<1>3. CASE ValidateRoot
  BY <1>3, PlanKept DEF ValidateRoot, Validating, Invalid, Publish
<1>4. CASE ValidateValue
  BY <1>4, PlanKept DEF ValidateValue, Validating, Invalid
<1>5. CASE ValidateEnd
  BY <1>5, PlanKept DEF ValidateEnd, Validating, Publish
<1>6. CASE Call
  BY <1>6, PlanKept DEF Call
<1>7. CASE Project
  BY <1>7, PlanKept DEF Project
<1>8. CASE Decode
  BY <1>8, PlanKept DEF Decode
<1>9. CASE Over \/ UNCHANGED vars
  BY <1>9, PlanKept DEF Over, vars
<1>10. QED
  BY <1>1, <1>2, <1>3, <1>4, <1>5, <1>6, <1>7, <1>8, <1>9 DEF Next

LEMMA PlanInvAlways == Spec => []PlanInv
<1>1. Init => PlanInv
  BY DEF Init, PlanInv
<1>2. QED
  BY <1>1, PlanInvNext, PTL DEF Spec

\* Each node is where its path leads.
LEMMA NodesFound ==
  ASSUME NEW p, NEW k, Named(k), NEW w, Trie(p, w), Covers(w, k), NEW n \in DOMAIN w
  PROVE  NodeAt(p, w[n]) = n
<1> DEFINE a == w[n]
<1>1. a \in Path /\ a \in RequestedPrefixes(request, k)
  BY TrieShape DEF Covers
<1> HIDE DEF a
<1>2. \A i \in 0..Len(a) : \E m \in DOMAIN w : w[m] = SubSeq(a, 1, i)
  <2> SUFFICES ASSUME NEW i \in 0..Len(a) PROVE \E m \in DOMAIN w : w[m] = SubSeq(a, 1, i)
    OBVIOUS
  <2>1. SubSeq(a, 1, i) \in RequestedPrefixes(request, k)
    BY <1>1, PrefixesClosed
  <2>2. QED
    BY <2>1 DEF Covers
<1>3. w[n] = a
  BY DEF a
<1>4. NodeAt(p, a) = n
  BY <1>1, <1>2, <1>3, NodeFound
<1>5. QED
  BY <1>3, <1>4

\* There are as many nodes as prefixes.
LEMMA NodesCounted ==
  ASSUME NEW p, NEW k, NEW w, Trie(p, w), Covers(w, k)
  PROVE  Len(p.nodes) = Cardinality(RequestedPrefixes(request, k))
<1> DEFINE l == Len(w)
           R == RequestedPrefixes(request, k)
<1>1. l \in Nat /\ DOMAIN w = 1..l /\ w \in Seq(Path) /\ Len(p.nodes) = l
  BY TrieShape DEF Trie
<1>2. R = {w[n] : n \in DOMAIN w}
  BY DEF Covers
<1>3. \A n, m \in DOMAIN w : w[n] = w[m] => n = m
  BY DEF Trie
<1>4. w \in [1..l -> Path]
  BY <1>1, ElementOfSeq
<1> HIDE DEF l, R
<1>5. w \in Bijection(1..l, R)
  <2>1. w \in [1..l -> R]
    BY <1>1, <1>2, <1>4
  <2>2. QED
    BY <1>1, <1>2, <1>3, <2>1 DEF Bijection, Injection, Surjection, IsInjective
<1>6. Cardinality(R) = l
  BY <1>1, <1>5, FS_CountingElements DEF ExistsBijection
<1>7. QED
  BY <1>1, <1>6 DEF R

\* PlanIsPrefixTree is about every request, whatever its paths.
THEOREM ThePlanIsThePrefixTree == Spec => []PlanIsPrefixTree
<1>1. PlanInv => PlanIsPrefixTree
  <2> SUFFICES ASSUME PlanInv, plan.nodes # <<>>
               PROVE  PlanIsPrefixTree
    BY DEF PlanIsPrefixTree
  <2> DEFINE prefixes == RequestedPrefixes(request, planned)
  <2>1. plan # NoPlan
    BY DEF NoPlan
  <2>2. Planned
    BY <2>1 DEF PlanInv
  <2>3. PICK w : /\ Tree(plan, w, planned) /\ Covers(w, planned)
                 /\ planned = Len(request) =>
                      \A n \in DOMAIN w : Totals(plan.nodes, w, planned, n)
    BY <2>2 DEF Planned
  <2>4. Named(planned)
    <3>1. /\ Len(request) \in Nat /\ planned \in 0..Len(request)
          /\ \A s \in 0..(Len(request) - 1) : PathOf(request, s) \in Path
      BY <2>2, RequestNamed DEF Planned
    <3>2. QED
      BY <3>1 DEF Named
  <2>5. /\ Trie(plan, w) /\ Ascending(plan) /\ Numbered(plan)
        /\ \A n \in DOMAIN w : InAscendingOrder(plan.nodes[n].slots, Ending(planned, w[n]))
    BY <2>3 DEF Tree, Filled
  <2>6. DOMAIN plan.nodes = DOMAIN w
    BY <2>5, TrieShape
  <2>7. \A n \in DOMAIN w : NodeAt(plan, w[n]) = n
    BY <2>3, <2>4, <2>5, NodesFound
  <2>8. Len(plan.nodes) = Cardinality(prefixes)
    BY <2>3, <2>5, NodesCounted
  <2>9. \A q : q \in prefixes <=> \E n \in DOMAIN w : w[n] = q
    BY <2>3 DEF Covers
  <2> HIDE DEF prefixes
  <2>10. {NodeAt(plan, q) : q \in prefixes} = DOMAIN plan.nodes
    <3>1. \A q \in prefixes : NodeAt(plan, q) \in DOMAIN w
      BY <2>7, <2>9
    <3>2. \A n \in DOMAIN w : w[n] \in prefixes /\ NodeAt(plan, w[n]) = n
      BY <2>7, <2>9
    <3>3. {NodeAt(plan, q) : q \in prefixes} = DOMAIN w
      BY <3>1, <3>2, Zenon
    <3>4. QED
      BY <2>6, <3>3
  <2>11. ASSUME NEW q \in prefixes
         PROVE  LET node == plan.nodes[NodeAt(plan, q)]
                    ending == {s \in 0..(planned - 1) : PathOf(request, s) = q}
                    through == {s \in 0..(planned - 1) : IsPrefix(q, PathOf(request, s))}
                IN /\ InAscendingOrder(node.slots, ending)
                   /\ \A i, k \in DOMAIN node.array :
                        i < k => node.array[i].index < node.array[k].index
                   /\ PlanReady => /\ node.sub = Cardinality(through)
                                   /\ node.first = Min(through)
    <3>1. PICK n \in DOMAIN w : w[n] = q
      BY <2>9
    <3>2. NodeAt(plan, q) = n
      BY <2>7, <3>1
    <3>3. InAscendingOrder(plan.nodes[n].slots, Ending(planned, q))
      BY <2>5, <3>1
    <3>4. \A i, k \in DOMAIN plan.nodes[n].array :
            i < k => plan.nodes[n].array[i].index < plan.nodes[n].array[k].index
      BY <2>5, <2>6 DEF Ascending
    <3>5. PlanReady => /\ plan.nodes[n].sub = Cardinality(Through(planned, q))
                       /\ plan.nodes[n].first = Min(Through(planned, q))
      BY <2>3, <3>1 DEF PlanReady, Totals
    <3>6. QED
      BY <3>2, <3>3, <3>4, <3>5, Zenon DEF Ending, Through
  <2>12. QED
    BY <2>5, <2>8, <2>10, <2>11, Zenon DEF PlanIsPrefixTree, Numbered, prefixes
<1>2. QED
  BY <1>1, PlanInvAlways, PTL
=============================================================================
