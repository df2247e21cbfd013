----------------------------- MODULE DecodeProofs -----------------------------
(***************************************************************************)
(* Proofs about the decoder, for sources of any size and any limits: an    *)
(* answer is the source, and a limit that is blamed is exceeded.           *)
(*                                                                         *)
(* The graph is compared with the part of the source that was read, after  *)
(* every value and not only at the end.  Everything that was read is in it *)
(* (Built), the edges of the containers that are still open being in their *)
(* frames (Framed); nothing else is, and nothing overlaps: an offset is    *)
(* the number of bytes copied before, so that the counts are exact         *)
(* (Exact), and a limit on them is a limit on the source; and nothing that *)
(* was accepted exceeds a limit (Within), so that what refuses the next    *)
(* value is the limit that this value exceeds.  The end of a container     *)
(* moves the edges of its frame behind those of the containers that ended  *)
(* before; a container that is not open is complete for that reason, which *)
(* is why InGraph says of each where its edges are.                        *)
(*                                                                         *)
(* With the invariants of ProjectionProofs this gives the types of all     *)
(* three engines, at the end of the module.                                *)
(***************************************************************************)
EXTENDS ProjectionProofs

-----------------------------------------------------------------------------
(* The graph of a part of a source. *)

\* The value n of t is a field, and the bytes it takes.
FieldIn(t, n) == t[n].up # 0 /\ t[t[n].up].kind = "object"
BytesIn(t, n) == (IF t[n].kind = "text" THEN TextLength ELSE 0)
                 + (IF FieldIn(t, n) THEN t[n].label ELSE 0)
AllBytes(t) == UNION {{n} \X (1..BytesIn(t, n)) : n \in DOMAIN t}

\* The bytes from the offset on are n, over and over.
Copied(bytes, offset, length, n) ==
  /\ offset \in Nat /\ offset + length <= Len(bytes)
  /\ \A i \in 1..length : bytes[offset + i] = n

EdgeShape == [key : Nat \cup {-1}, child : Nat]
KeyCopied(t, bytes, e) ==
  FieldIn(t, e.child) => Copied(bytes, e.key, t[e.child].label, -e.child)

\* The sequence s is the edges of the container n: its members, with their keys.
EdgesAre(t, bytes, s, n) ==
  /\ s \in Seq(EdgeShape)
  /\ InAscendingOrder([i \in DOMAIN s |-> s[i].child], Members(t, n))
  /\ \A i \in DOMAIN s : KeyCopied(t, bytes, s[i])

\* A value is in the graph: with its text, and with its edges once it has
\* ended.
Ended(edges, node) == [i \in 1..node.count |-> edges[node.edges + i]]
InGraph(t, o, g, n) ==
  LET node == g.nodes[n] IN
  /\ node.kind = t[n].kind /\ node.kind \in Containers \cup Plain
  /\ node.kind = "text" => Copied(g.bytes, node.bytes, TextLength, n)
  /\ node.edges \in Nat /\ node.count \in Nat
  /\ n \notin ToSet(o) =>
       /\ node.edges + node.count <= Len(g.edges)
       /\ EdgesAre(t, g.bytes, Ended(g.edges, node), n)

NodeShape == [kind : Containers \cup Plain, bytes : Nat, edges : Nat, count : Nat]

\* The graph of a source that has been read so far, the containers of o being
\* open: everything that is in the source is in the graph, ...
Built(t, o, g) ==
  /\ g.nodes \in Seq(NodeShape) /\ g.edges \in Seq(EdgeShape) /\ g.bytes \in Seq(Int)
  /\ g = [nodes |-> g.nodes, edges |-> g.edges, bytes |-> g.bytes]
  /\ Len(g.nodes) = Len(t)
  /\ \A n \in DOMAIN t : InGraph(t, o, g, n)

\* ... nothing else is, ...
Exact(t, o, g) ==
  /\ Len(g.edges) = Cardinality({n \in 2..Len(t) : t[n].up \notin ToSet(o)})
  /\ Len(g.bytes) = Cardinality(AllBytes(t))

\* ... the edges of an open container are in its frame, ...
Framed(t, o, g, f) ==
  /\ f \in Seq([node : Nat, edges : Seq(EdgeShape)]) /\ Len(f) = Len(o)
  /\ \A i \in DOMAIN o : f[i].node = o[i] /\ EdgesAre(t, g.bytes, f[i].edges, o[i])

\* ... and it is within the limits.
Within(t, g) ==
  /\ \A n \in DOMAIN t :
       /\ Depth(t, n) <= limits.depth
       /\ Cardinality(Members(t, n)) <= limits.entries
       /\ t[n].kind = "text" => TextLength <= limits.string
       /\ FieldIn(t, n) => t[n].label <= limits.string
  /\ RetainedBytes(g) <= limits.output

DecodeFlow ==
  /\ limits \in [depth : Nat, entries : Nat, string : Nat, output : Nat]
  /\ consumed => ConfigValid(limits)
  /\ op = "decode" => pos = Len(tree)
  /\ graph.nodes = <<>> => graph = EmptyGraph /\ frames = <<>>
  /\ reader = "materializer" => (pos = 0 <=> graph.nodes = <<>>)
  /\ graph.nodes # <<>> => tree # <<>> /\ op = "decode" /\ (reader = "none" => whole)

Building ==
  graph.nodes # <<>> =>
    /\ Built(tree, open, graph) /\ Exact(tree, open, graph)
    /\ Framed(tree, open, graph, frames) /\ Within(tree, graph)

\* A limit that is reported is exceeded.
LimitIsTrue ==
  Answered /\ op = "decode" /\ tree # <<>> =>
    /\ status.code = "max_depth_exceeded" => DeeperThan(limits.depth)
    /\ status.code = "max_container_entries_exceeded" => MoreEntriesThan(limits.entries)
    /\ status.code = "max_string_bytes_exceeded" => LongerStringThan(limits.string)
    /\ status.code = "max_output_bytes_exceeded" => OutputBytes > limits.output

DInv == DecodeFlow /\ Building /\ LimitIsTrue
-----------------------------------------------------------------------------
(* One more value, one more byte. *)

Extended(b, c) ==
  /\ b \in Seq(Int) /\ c \in Seq(Int) /\ Len(b) <= Len(c)
  /\ \A i \in 1..Len(b) : c[i] = b[i]

\* What is a field and what it takes was decided when it came.
LEMMA FieldKept ==
  ASSUME NEW t, NEW u, Grown(t, u), NEW m \in DOMAIN t
  PROVE  FieldIn(u, m) = FieldIn(t, m) /\ BytesIn(u, m) = BytesIn(t, m)
<1>1. /\ m \in DOMAIN u /\ u[m] = t[m] /\ u[m].up \in Nat /\ u[m].up < m /\ m <= Len(t)
      /\ DOMAIN t = 1..Len(t) /\ Len(t) \in Nat /\ m \in Nat
  <2>1. /\ m \in DOMAIN u /\ u[m] = t[m] /\ m <= Len(t) /\ m \in Nat
        /\ DOMAIN t = 1..Len(t) /\ Len(t) \in Nat
    BY GrownShape, GrownOld
  <2>2. u[m].up \in Nat /\ u[m].up < m
    BY <2>1, GrownEach
  <2>3. QED
    BY <2>1, <2>2
<1>2. u[m].up # 0 => u[u[m].up] = t[u[m].up]
  <2>1. u[m].up # 0 => u[m].up \in DOMAIN t
    BY <1>1
  <2>2. \A k \in DOMAIN t : u[k] = t[k]
    BY GrownOld
  <2>3. QED
    BY <2>1, <2>2
<1>3. FieldIn(u, m) = FieldIn(t, m)
  BY <1>1, <1>2 DEF FieldIn
<1>4. QED
  BY <1>1, <1>3 DEF BytesIn

LEMMA LabelIsLength ==
  ASSUME NEW t \in Seq(Values), NEW n \in DOMAIN t
  PROVE  t[n].label \in Nat /\ BytesIn(t, n) \in Nat /\ TextLength \in Nat
<1>1. t[n] \in Values /\ TextLength \in Nat /\ Keys \subseteq Nat /\ MaxValues \in Nat
  BY ElementOfSeq, DecodeAssumption, SourceAssumption DEF DecodeAssumption, SourceAssumption
<1>2. t[n].label \in Nat
  <2>1. t[n].label \in Keys \cup 0..MaxValues
    BY <1>1 DEF Values
  <2>2. t[n].label \in Keys => t[n].label \in Nat
    BY <1>1
  <2>3. t[n].label \in 0..MaxValues => t[n].label \in Nat
    BY <1>1
  <2>4. QED
    BY <2>1, <2>2, <2>3
<1>3. QED
  BY <1>1, <1>2 DEF BytesIn

LEMMA CopiedKept ==
  ASSUME NEW b, NEW c, Extended(b, c), NEW offset, NEW length \in Nat, NEW n,
         Copied(b, offset, length, n)
  PROVE  Copied(c, offset, length, n)
<1>1. /\ offset \in Nat /\ offset + length <= Len(b) /\ Len(b) <= Len(c)
      /\ Len(b) \in Nat /\ Len(c) \in Nat
      /\ \A i \in 1..length : b[offset + i] = n
      /\ \A i \in 1..Len(b) : c[i] = b[i]
  BY DEF Copied, Extended
<1>2. \A i \in 1..length : offset + i \in 1..Len(b)
  BY <1>1
<1>3. offset + length <= Len(c)
  BY <1>1
<1>4. QED
  BY <1>1, <1>2, <1>3 DEF Copied

LEMMA EdgesKept ==
  ASSUME NEW t, NEW u, Grown(t, u), NEW b, NEW c, Extended(b, c), NEW s, NEW n,
         n # u[Len(u)].up, EdgesAre(t, b, s, n)
  PROVE  EdgesAre(u, c, s, n)
<1>1. s \in Seq(EdgeShape) /\ InAscendingOrder([i \in DOMAIN s |-> s[i].child], Members(u, n))
  BY MembersGrown DEF EdgesAre
<1>2. ASSUME NEW i \in DOMAIN s
      PROVE  KeyCopied(u, c, s[i])
  <2>1. s[i].child \in Members(t, n)
    BY DEF EdgesAre, InAscendingOrder, ToSet
  <2>2. s[i].child \in DOMAIN t
    BY <2>1 DEF Members
  <2>3. FieldIn(u, s[i].child) = FieldIn(t, s[i].child) /\ u[s[i].child] = t[s[i].child]
    BY <2>2, FieldKept, GrownOld
  <2>4. t[s[i].child].label \in Nat
    BY <2>2, LabelIsLength DEF Grown
  <2>5. KeyCopied(t, b, s[i])
    BY DEF EdgesAre
  <2>6. QED
    BY <2>3, <2>4, <2>5, CopiedKept DEF KeyCopied
<1>3. QED
  BY <1>1, <1>2 DEF EdgesAre

\* The edge of the new value goes to the end of its container's.
LEMMA EdgesGrown ==
  ASSUME NEW t, NEW u, Grown(t, u), NEW b, NEW c, Extended(b, c), NEW s,
         EdgesAre(t, b, s, u[Len(u)].up),
         NEW e \in EdgeShape, e.child = Len(u), KeyCopied(u, c, e)
  PROVE  EdgesAre(u, c, Append(s, e), u[Len(u)].up)
<1> DEFINE up == u[Len(u)].up
           r == Append(s, e)
           below == [i \in DOMAIN s |-> s[i].child]
           children == [i \in DOMAIN r |-> r[i].child]
<1>1. /\ s \in Seq(EdgeShape) /\ Len(s) \in Nat /\ DOMAIN s = 1..Len(s)
      /\ r \in Seq(EdgeShape) /\ DOMAIN r = 1..(Len(s) + 1)
      /\ \A i \in 1..Len(s) : r[i] = s[i]
      /\ r[Len(s) + 1] = e
  BY DEF EdgesAre
<1>2. /\ ToSet(below) = Members(t, up) /\ \A i, k \in 1..Len(s) : i < k => s[i].child < s[k].child
  <2>1. InAscendingOrder(below, Members(t, up))
    BY DEF EdgesAre
  <2>2. QED
    BY <1>1, <2>1 DEF InAscendingOrder
<1>3. \A i \in 1..Len(s) : s[i].child \in Members(t, up)
  BY <1>1, <1>2 DEF ToSet
<1>4. \A m \in Members(t, up) : m < Len(u) /\ m \in DOMAIN t
  BY GrownOld DEF Members
<1> HIDE DEF r
<1>5. \A i, k \in 1..(Len(s) + 1) : i < k => r[i].child < r[k].child
  <2> SUFFICES ASSUME NEW i \in 1..(Len(s) + 1), NEW k \in 1..(Len(s) + 1), i < k
               PROVE  r[i].child < r[k].child
    OBVIOUS
  <2>1. i \in 1..Len(s) /\ r[i] = s[i]
    BY <1>1
  <2>2. CASE k \in 1..Len(s)
    BY <1>1, <1>2, <2>1, <2>2
  <2>3. CASE k = Len(s) + 1
    BY <1>1, <1>3, <1>4, <2>1, <2>3
  <2>4. QED
    BY <1>1, <2>2, <2>3
<1>6. ToSet(children) = Members(t, up) \cup {Len(u)}
  <2>1. ToSet(children) = {r[i].child : i \in 1..(Len(s) + 1)}
    BY <1>1 DEF ToSet
  <2>2. ToSet(below) = {s[i].child : i \in 1..Len(s)}
    BY <1>1 DEF ToSet
  <2>3. {r[i].child : i \in 1..(Len(s) + 1)} = {s[i].child : i \in 1..Len(s)} \cup {e.child}
    <3>1. 1..(Len(s) + 1) = 1..Len(s) \cup {Len(s) + 1}
      BY <1>1
    <3>2. QED
      BY <1>1, <3>1
  <2>4. QED
    BY <1>2, <2>1, <2>2, <2>3
<1>7. InAscendingOrder(children, Members(u, up))
  BY <1>1, <1>5, <1>6, MembersGrown DEF InAscendingOrder
<1>8. ASSUME NEW i \in DOMAIN r
      PROVE  KeyCopied(u, c, r[i])
  <2>1. CASE i = Len(s) + 1
    BY <1>1, <2>1
  <2>2. CASE i \in 1..Len(s)
    <3>1. r[i] = s[i] /\ KeyCopied(t, b, s[i]) /\ s[i].child \in DOMAIN t
      BY <1>1, <1>3, <1>4, <2>2 DEF EdgesAre
    <3>2. /\ FieldIn(u, s[i].child) = FieldIn(t, s[i].child)
          /\ u[s[i].child] = t[s[i].child] /\ t[s[i].child].label \in Nat
      <4>1. t \in Seq(Values)
        BY DEF Grown
      <4>2. QED
        BY <3>1, <4>1, FieldKept, GrownOld, LabelIsLength
    <3>3. QED
      BY <3>1, <3>2, CopiedKept DEF KeyCopied
  <2>3. QED
    BY <1>1, <2>1, <2>2
<1>9. QED
  BY <1>1, <1>7, <1>8 DEF EdgesAre, r

-----------------------------------------------------------------------------
(* Counting the edges and the bytes. *)

LEMMA IntervalSize ==
  ASSUME NEW k \in Nat
  PROVE  IsFiniteSet(1..k) /\ Cardinality(1..k) = k
<1>1. IsFiniteSet(1..k) /\ Cardinality(1..k) = IF 1 > k THEN 0 ELSE k - 1 + 1
  BY FS_Interval
<1>2. QED
  BY <1>1

\* A set that is listed in ascending order has as many elements as the list.
LEMMA AscendingCount ==
  ASSUME NEW k \in Nat, NEW s, DOMAIN s = 1..k, NEW S, S \subseteq Nat,
         s \in [1..k -> S], InAscendingOrder(s, S)
  PROVE  IsFiniteSet(S) /\ Cardinality(S) = k
<1>1. \A a, b \in 1..k : s[a] = s[b] => a = b
  <2> SUFFICES ASSUME NEW a \in 1..k, NEW b \in 1..k, s[a] = s[b], a # b
               PROVE  FALSE
    OBVIOUS
  <2>1. a < b \/ b < a
    OBVIOUS
  <2>2. s[a] < s[b] \/ s[b] < s[a]
    BY <2>1 DEF InAscendingOrder
  <2>3. s[a] \in Nat /\ s[b] \in Nat
    OBVIOUS
  <2>4. QED
    BY <2>2, <2>3
<1>2. \A x \in S : \E i \in 1..k : s[i] = x
  BY DEF InAscendingOrder, ToSet
<1>3. s \in Bijection(1..k, S)
  BY <1>1, <1>2, Fun_IsBij
<1>4. QED
  BY <1>3, IntervalSize, FS_Bijection DEF ExistsBijection

\* The edges of a container are as many as its members.
LEMMA EdgesCounted ==
  ASSUME NEW t \in Seq(Values), NEW b, NEW s, NEW n, EdgesAre(t, b, s, n)
  PROVE  /\ Len(s) \in Nat /\ Len(s) = Cardinality(Members(t, n))
         /\ IsFiniteSet(Members(t, n))
<1> DEFINE children == [i \in DOMAIN s |-> s[i].child]
           k == Len(s)
<1>1. /\ s \in Seq(EdgeShape) /\ k \in Nat /\ DOMAIN s = 1..k
      /\ InAscendingOrder(children, Members(t, n))
  BY DEF EdgesAre
<1>2. Members(t, n) \subseteq Nat
  BY DEF Members
<1>3. DOMAIN children = 1..k /\ children \in [1..k -> Members(t, n)]
  BY <1>1 DEF InAscendingOrder, ToSet
<1> HIDE DEF k, children
<1>4. IsFiniteSet(Members(t, n)) /\ Cardinality(Members(t, n)) = k
  BY <1>1, <1>2, <1>3, AscendingCount
<1>5. QED
  BY <1>1, <1>4 DEF k

LEMMA BytesCounted ==
  ASSUME NEW t \in Seq(Values)
  PROVE  IsFiniteSet(AllBytes(t)) /\ Cardinality(AllBytes(t)) \in Nat
<1> DEFINE part == [n \in DOMAIN t |-> {n} \X (1..BytesIn(t, n))]
           P == {part[n] : n \in DOMAIN t}
<1>1. DOMAIN t = 1..Len(t) /\ Len(t) \in Nat /\ IsFiniteSet(DOMAIN t)
  BY IntervalSize
<1>2. part \in Surjection(DOMAIN t, P)
  BY DEF Surjection
<1>3. IsFiniteSet(P)
  <2> HIDE DEF part, P
  <2>1. QED
    BY <1>1, <1>2, FS_Surjection
<1>4. \A T \in P : IsFiniteSet(T)
  <2> SUFFICES ASSUME NEW n \in DOMAIN t
               PROVE  IsFiniteSet({n} \X (1..BytesIn(t, n)))
    OBVIOUS
  <2>1. BytesIn(t, n) \in Nat
    BY LabelIsLength
  <2>2. IsFiniteSet(1..BytesIn(t, n)) /\ IsFiniteSet({n})
    BY <2>1, IntervalSize, FS_Singleton
  <2>3. QED
    BY <2>2, FS_Product
<1>5. AllBytes(t) = UNION P
  BY DEF AllBytes
<1>6. IsFiniteSet(AllBytes(t))
  <2> HIDE DEF P
  <2>1. QED
    BY <1>3, <1>4, <1>5, FS_UNION
<1>7. QED
  BY <1>6, FS_CardinalityType

LEMMA BytesGrown ==
  ASSUME NEW t, NEW u, Grown(t, u)
  PROVE  Cardinality(AllBytes(u)) = Cardinality(AllBytes(t)) + BytesIn(u, Len(u))
<1> DEFINE n == Len(u)
           k == BytesIn(u, n)
           new == {n} \X (1..k)
<1>1. t \in Seq(Values) /\ u \in Seq(Values)
  BY DEF Grown
<1>2. DOMAIN u = DOMAIN t \cup {n} /\ n \notin DOMAIN t /\ n \in DOMAIN u
  BY GrownShape
<1>3. k \in Nat
  BY <1>1, <1>2, LabelIsLength
<1>4. \A m \in DOMAIN t : BytesIn(u, m) = BytesIn(t, m)
  BY FieldKept
<1>5. AllBytes(u) = AllBytes(t) \cup new
  <2>1. {{m} \X (1..BytesIn(u, m)) : m \in DOMAIN u}
          = {{m} \X (1..BytesIn(t, m)) : m \in DOMAIN t} \cup {new}
    <3> HIDE DEF n
    <3>1. \A m \in DOMAIN t : {m} \X (1..BytesIn(u, m)) = {m} \X (1..BytesIn(t, m))
      BY <1>4
    <3>2. QED
      BY <1>2, <3>1
  <2> HIDE DEF new, n
  <2>2. QED
    BY <2>1 DEF AllBytes
<1>6. AllBytes(t) \cap new = {}
  <2> SUFFICES ASSUME NEW x \in AllBytes(t), x \in new
               PROVE  FALSE
    OBVIOUS
  <2>1. PICK m \in DOMAIN t : x \in {m} \X (1..BytesIn(t, m))
    BY DEF AllBytes
  <2>2. x[1] = m /\ x[1] = n
    BY <2>1
  <2>3. QED
    BY <1>2, <2>2
<1>7. IsFiniteSet(new) /\ Cardinality(new) = k
  <2>1. IsFiniteSet(1..k) /\ Cardinality(1..k) = k
    BY <1>3, IntervalSize
  <2>2. IsFiniteSet({n}) /\ Cardinality({n}) = 1
    BY FS_Singleton
  <2> HIDE DEF k, n
  <2>3. IsFiniteSet(new) /\ Cardinality(new) = 1 * k
    BY ZenonT(30), <2>1, <2>2, FS_Product
  <2>4. QED
    BY <1>3, <2>3
<1> HIDE DEF new, k
<1>8. IsFiniteSet(AllBytes(t)) /\ Cardinality(AllBytes(t)) \in Nat
  BY <1>1, BytesCounted
<1>9. Cardinality(AllBytes(t) \cup new) =
        Cardinality(AllBytes(t)) + Cardinality(new) - Cardinality(AllBytes(t) \cap new)
  BY <1>7, <1>8, FS_Union
<1>10. Cardinality(AllBytes(t) \cap new) = 0
  BY <1>6, FS_EmptySet
<1>11. QED
  BY <1>3, <1>5, <1>7, <1>8, <1>9, <1>10 DEF k

-----------------------------------------------------------------------------
(* A value is opened. *)

LEMMA BytesCopied ==
  ASSUME NEW b \in Seq(Int), NEW length \in Nat, NEW n \in Int
  PROVE  LET c == b \o [i \in 1..length |-> n] IN
         /\ Extended(b, c) /\ Len(c) = Len(b) + length
         /\ Copied(c, Len(b), length, n)
<1> DEFINE d == [i \in 1..length |-> n]
           c == b \o d
<1>1. d \in Seq(Int) /\ Len(d) = length /\ \A i \in 1..length : d[i] = n
  OBVIOUS
<1>2. Len(b) \in Nat
  OBVIOUS
<1> HIDE DEF d
<1>3. /\ c \in Seq(Int) /\ Len(c) = Len(b) + length
      /\ \A i \in 1..(Len(b) + length) : c[i] = IF i <= Len(b) THEN b[i] ELSE d[i - Len(b)]
  BY <1>1, ConcatProperties
<1> HIDE DEF c
<1>4. Extended(b, c)
  BY <1>2, <1>3 DEF Extended
<1>5. Copied(c, Len(b), length, n)
  <2>1. \A i \in 1..length : /\ Len(b) + i \in 1..(Len(b) + length) /\ ~(Len(b) + i <= Len(b))
                             /\ Len(b) + i - Len(b) = i
    BY <1>2
  <2>2. ASSUME NEW i \in 1..length
        PROVE  c[Len(b) + i] = n
    <3> DEFINE j == Len(b) + i
    <3>1. j \in 1..(Len(b) + length) /\ ~(j <= Len(b)) /\ j - Len(b) = i
      BY <2>1
    <3> HIDE DEF j
    <3>2. c[j] = d[j - Len(b)]
      BY <1>3, <3>1
    <3>3. c[j] = n
      BY <1>1, <3>1, <3>2
    <3>4. QED
      BY <3>3 DEF j
  <2>3. QED
    BY <1>2, <1>3, <2>2 DEF Copied
<1>6. QED
  BY <1>3, <1>4, <1>5 DEF c, d

LEMMA ExtendedTwice ==
  ASSUME NEW b, NEW c, NEW d, Extended(b, c), Extended(c, d)
  PROVE  Extended(b, d)
<1>1. /\ b \in Seq(Int) /\ d \in Seq(Int) /\ Len(b) \in Nat /\ Len(c) \in Nat /\ Len(d) \in Nat
      /\ Len(b) <= Len(c) /\ Len(c) <= Len(d)
      /\ \A i \in 1..Len(b) : c[i] = b[i]
      /\ \A i \in 1..Len(c) : d[i] = c[i]
  BY DEF Extended
<1>2. \A i \in 1..Len(b) : i \in 1..Len(c)
  BY <1>1
<1>3. QED
  BY <1>1, <1>2 DEF Extended

Graphs == [nodes : Seq(NodeShape), edges : Seq(EdgeShape), bytes : Seq(Int)]

\* The graph with the key of the new value.
Keyed(u, g) ==
  IF FieldIn(u, Len(u)) THEN CopyBytes(g, -Len(u), u[Len(u)].label) ELSE g

LEMMA KeyedShape ==
  ASSUME NEW u \in Seq(Values), Len(u) \in DOMAIN u, NEW g \in Graphs
  PROVE  /\ Keyed(u, g) \in Graphs
         /\ Keyed(u, g).nodes = g.nodes /\ Keyed(u, g).edges = g.edges
         /\ Extended(g.bytes, Keyed(u, g).bytes)
         /\ Len(Keyed(u, g).bytes)
              = Len(g.bytes) + (IF FieldIn(u, Len(u)) THEN u[Len(u)].label ELSE 0)
         /\ FieldIn(u, Len(u)) =>
              Copied(Keyed(u, g).bytes, Len(g.bytes), u[Len(u)].label, -Len(u))
<1> DEFINE n == Len(u)
           c == g.bytes \o [i \in 1..u[n].label |-> -n]
<1>1. /\ u[n].label \in Nat /\ -n \in Int /\ g.bytes \in Seq(Int) /\ Len(g.bytes) \in Nat
  BY LabelIsLength DEF Graphs
<1>2. CASE FieldIn(u, n)
  <2>1. Keyed(u, g) = [g EXCEPT !.bytes = c]
    BY <1>2 DEF Keyed, CopyBytes
  <2>2. Extended(g.bytes, c) /\ Len(c) = Len(g.bytes) + u[n].label /\ Copied(c, Len(g.bytes), u[n].label, -n)
    BY <1>1, BytesCopied
  <2>3. c \in Seq(Int)
    BY <2>2 DEF Extended
  <2> HIDE DEF c
  <2>4. /\ Keyed(u, g) \in Graphs /\ Keyed(u, g).nodes = g.nodes /\ Keyed(u, g).edges = g.edges
        /\ Keyed(u, g).bytes = c
    BY <2>1, <2>3 DEF Graphs
  <2>5. QED
    BY <1>2, <2>2, <2>4
<1>3. CASE ~FieldIn(u, n)
  <2>1. Keyed(u, g) = g
    BY <1>3 DEF Keyed
  <2>2. Extended(g.bytes, g.bytes)
    BY <1>1 DEF Extended
  <2>3. QED
    BY <1>1, <1>3, <2>1, <2>2
<1>4. QED
  BY <1>2, <1>3

LEMMA WithTextShape ==
  ASSUME NEW g \in Graphs, NEW n \in Int, NEW kind
  PROVE  /\ WithText(g, n, kind) \in Graphs
         /\ WithText(g, n, kind).nodes = g.nodes /\ WithText(g, n, kind).edges = g.edges
         /\ Extended(g.bytes, WithText(g, n, kind).bytes)
         /\ Len(WithText(g, n, kind).bytes)
              = Len(g.bytes) + (IF kind = "text" THEN TextLength ELSE 0)
         /\ kind = "text" => Copied(WithText(g, n, kind).bytes, Len(g.bytes), TextLength, n)
<1> DEFINE c == g.bytes \o [i \in 1..TextLength |-> n]
<1>1. g.bytes \in Seq(Int) /\ Len(g.bytes) \in Nat /\ TextLength \in Nat
  BY DecodeAssumption DEF Graphs, DecodeAssumption
<1>2. CASE kind = "text"
  <2>1. WithText(g, n, kind) = [g EXCEPT !.bytes = c]
    BY <1>2 DEF WithText, CopyBytes
  <2>2. Extended(g.bytes, c) /\ Len(c) = Len(g.bytes) + TextLength /\ Copied(c, Len(g.bytes), TextLength, n)
    BY <1>1, BytesCopied
  <2>3. c \in Seq(Int)
    BY <2>2 DEF Extended
  <2> HIDE DEF c
  <2>4. /\ WithText(g, n, kind) \in Graphs
        /\ WithText(g, n, kind).nodes = g.nodes /\ WithText(g, n, kind).edges = g.edges
        /\ WithText(g, n, kind).bytes = c
    BY <2>1, <2>3 DEF Graphs
  <2>5. QED
    BY <1>2, <2>2, <2>4
<1>3. CASE kind # "text"
  <2>1. WithText(g, n, kind) = g
    BY <1>3 DEF WithText
  <2>2. Extended(g.bytes, g.bytes)
    BY <1>1 DEF Extended
  <2>3. QED
    BY <1>1, <1>3, <2>1, <2>2
<1>4. QED
  BY <1>2, <1>3

\* What the graph is after the new value.
LEMMA OpenedShape ==
  ASSUME NEW u \in Seq(Values), Len(u) \in DOMAIN u, NEW g \in Graphs,
         u[Len(u)].kind \in Containers \cup Plain
  PROVE  LET n == Len(u)
             h == Opened(Keyed(u, g), n, u[n].kind)
         IN /\ h \in Graphs
            /\ h.nodes = Append(g.nodes, [kind |-> u[n].kind, bytes |-> Len(Keyed(u, g).bytes),
                                          edges |-> 0, count |-> 0])
            /\ h.edges = g.edges
            /\ Extended(g.bytes, h.bytes) /\ Len(h.bytes) = Len(g.bytes) + BytesIn(u, n)
            /\ u[n].kind = "text" =>
                 Copied(h.bytes, Len(Keyed(u, g).bytes), TextLength, n)
            /\ FieldIn(u, n) => Copied(h.bytes, Len(g.bytes), u[n].label, -n)
<1> DEFINE n == Len(u)
           k == Keyed(u, g)
           w == WithText(k, n, u[n].kind)
           v == [kind |-> u[n].kind, bytes |-> Len(k.bytes), edges |-> 0, count |-> 0]
           h == Opened(k, n, u[n].kind)
<1>1. /\ k \in Graphs /\ k.nodes = g.nodes /\ k.edges = g.edges /\ Extended(g.bytes, k.bytes)
      /\ Len(k.bytes) = Len(g.bytes) + (IF FieldIn(u, n) THEN u[n].label ELSE 0)
      /\ FieldIn(u, n) => Copied(k.bytes, Len(g.bytes), u[n].label, -n)
  BY KeyedShape
<1>2. n \in Nat /\ u[n].label \in Nat /\ TextLength \in Nat
  BY LabelIsLength
<1>3. /\ w \in Graphs /\ w.nodes = k.nodes /\ w.edges = k.edges /\ Extended(k.bytes, w.bytes)
      /\ Len(w.bytes) = Len(k.bytes) + (IF u[n].kind = "text" THEN TextLength ELSE 0)
      /\ u[n].kind = "text" => Copied(w.bytes, Len(k.bytes), TextLength, n)
  <2>1. n \in Int
    BY <1>2
  <2> HIDE DEF k, n
  <2>2. QED
    BY <1>1, <2>1, WithTextShape
<1>4. h = [w EXCEPT !.nodes = Append(@, v)]
  BY DEF Opened, AppendNode
<1>5. v \in NodeShape
  <2>1. Len(k.bytes) \in Nat
    BY <1>1 DEF Graphs
  <2> HIDE DEF k
  <2>2. QED
    BY <2>1 DEF NodeShape
<1> HIDE DEF k, w, v, h
<1>6. h \in Graphs /\ h.nodes = Append(g.nodes, v) /\ h.edges = g.edges /\ h.bytes = w.bytes
  <2>1. w \in Graphs /\ w.nodes = g.nodes /\ w.edges = g.edges
    BY <1>1, <1>3
  <2>2. Append(w.nodes, v) \in Seq(NodeShape)
    BY <1>5, <2>1, AppendProperties DEF Graphs
  <2>3. QED
    BY <1>4, <2>1, <2>2 DEF Graphs
<1>7. Extended(g.bytes, h.bytes)
  BY <1>1, <1>3, <1>6, ExtendedTwice
<1>8. Len(h.bytes) = Len(g.bytes) + BytesIn(u, n)
  <2>1. Len(g.bytes) \in Nat
    BY DEF Graphs
  <2>2. QED
    BY <1>1, <1>2, <1>3, <1>6, <2>1 DEF BytesIn
<1>9. FieldIn(u, n) => Copied(h.bytes, Len(g.bytes), u[n].label, -n)
  BY <1>1, <1>2, <1>3, <1>6, CopiedKept
<1>10. QED
  BY <1>3, <1>6, <1>7, <1>8, <1>9 DEF h, k, v

LEMMA NoEdges ==
  ASSUME NEW t, NEW b, NEW n, Members(t, n) = {}
  PROVE  EdgesAre(t, b, <<>>, n)
<1>1. <<>> \in Seq(EdgeShape) /\ DOMAIN <<>> = {}
  BY EmptySeq
<1>2. InAscendingOrder([i \in DOMAIN <<>> |-> <<>>[i].child], Members(t, n))
  BY <1>1 DEF InAscendingOrder, ToSet
<1>3. QED
  BY <1>1, <1>2 DEF EdgesAre

\* The graph after value Len(u).
Next1(u, g) == Opened(Keyed(u, g), Len(u), u[Len(u)].kind)

LEMMA BuiltIsGraph ==
  ASSUME NEW t, NEW o, NEW g, Built(t, o, g)
  PROVE  g \in Graphs /\ Len(g.nodes) = Len(t)
BY DEF Built, Graphs

LEMMA LastIs ==
  ASSUME NEW S, NEW s \in Seq(S), s # <<>>
  PROVE  /\ Len(s) \in Nat \ {0} /\ DOMAIN s = 1..Len(s) /\ Len(s) \in DOMAIN s
         /\ Last(s) = s[Len(s)] /\ Last(s) \in S
<1>1. Len(s) \in Nat /\ DOMAIN s = 1..Len(s)
  OBVIOUS
<1>2. Len(s) # 0
  BY NoLength
<1>3. Last(s) = s[Len(s)] /\ Last(s) \in S
  BY FrontAndLast
<1>4. QED
  BY <1>1, <1>2, <1>3

LEMMA SumTimes ==
  ASSUME NEW x \in Nat, NEW y \in Nat, NEW z, z = x + y, NEW k \in Nat
  PROVE  z * k = x * k + y * k
OBVIOUS

LEMMA ToSetAppend ==
  ASSUME NEW S, NEW s \in Seq(S), NEW x \in S
  PROVE  ToSet(Append(s, x)) = ToSet(s) \cup {x}
<1>1. /\ Len(s) \in Nat /\ DOMAIN s = 1..Len(s) /\ DOMAIN Append(s, x) = 1..(Len(s) + 1)
      /\ \A i \in 1..Len(s) : Append(s, x)[i] = s[i]
      /\ Append(s, x)[Len(s) + 1] = x
  BY AppendProperties
<1>2. 1..(Len(s) + 1) = 1..Len(s) \cup {Len(s) + 1}
  BY <1>1
<1>3. QED
  BY <1>1, <1>2 DEF ToSet

LEMMA BuiltGrown ==
  ASSUME NEW t, NEW u, Grown(t, u), NEW o \in Seq(Nat), NEW p,
         p = o \/ p = Append(o, Len(u)),
         u[Len(u)].up = 0 \/ u[Len(u)].up \in ToSet(o),
         u[Len(u)].kind \in Containers \cup Plain,
         NEW g, Built(t, o, g)
  PROVE  Built(u, p, Next1(u, g))
<1> DEFINE n == Len(u)
           h == Next1(u, g)
           v == [kind |-> u[n].kind, bytes |-> Len(Keyed(u, g).bytes), edges |-> 0, count |-> 0]
<1>1. /\ u \in Seq(Values) /\ n \in DOMAIN u /\ g \in Graphs /\ Len(g.nodes) = Len(t)
      /\ n = Len(t) + 1 /\ Len(t) \in Nat /\ DOMAIN t = 1..Len(t) /\ DOMAIN u = DOMAIN t \cup {n}
      /\ n \in Nat
  BY GrownShape, BuiltIsGraph DEF Grown
<1>2. /\ h \in Graphs /\ h.nodes = Append(g.nodes, v) /\ h.edges = g.edges
      /\ Extended(g.bytes, h.bytes)
      /\ u[n].kind = "text" => Copied(h.bytes, v.bytes, TextLength, n)
  BY <1>1, OpenedShape DEF Next1
<1>3. /\ Len(h.nodes) = n /\ h.nodes[n] = v
      /\ \A m \in DOMAIN t : h.nodes[m] = g.nodes[m]
  BY <1>1, <1>2 DEF Graphs
<1>4. ToSet(o) \subseteq ToSet(p)
  <2> HIDE DEF n
  <2>1. p = Append(o, n) => ToSet(p) = ToSet(o) \cup {n}
    BY SMTT(30), <1>1, ToSetAppend
  <2>2. QED
    BY <2>1 DEF n
<1>5. Members(u, n) = {}
  BY MembersGrown
<1> HIDE DEF h
<1>6. InGraph(u, p, h, n)
  <2>1. Ended(h.edges, v) = <<>>
    BY DEF Ended
  <2>2. EdgesAre(u, h.bytes, Ended(h.edges, v), n)
    BY <1>5, <2>1, NoEdges
  <2>3. Len(h.edges) \in Nat
    BY <1>2 DEF Graphs
  <2>4. v.kind = u[n].kind /\ v.edges = 0 /\ v.count = 0 /\ v.kind \in Containers \cup Plain
    OBVIOUS
  <2> HIDE DEF v, n
  <2>5. QED
    BY <1>2, <1>3, <2>2, <2>3, <2>4 DEF InGraph
<1>7. ASSUME NEW m \in DOMAIN t
      PROVE  InGraph(u, p, h, m)
  <2>1. h.nodes[m] = g.nodes[m] /\ u[m] = t[m] /\ h.edges = g.edges /\ InGraph(t, o, g, m)
    BY <1>2, <1>3, GrownOld DEF Built
  <2>2. g.nodes[m].kind = "text" => Copied(h.bytes, g.nodes[m].bytes, TextLength, m)
    <3>1. TextLength \in Nat
      BY DecodeAssumption DEF DecodeAssumption
    <3>2. QED
      BY <1>2, <2>1, <3>1, CopiedKept DEF InGraph
  <2>3. ASSUME m \notin ToSet(p)
        PROVE  /\ g.nodes[m].edges + g.nodes[m].count <= Len(h.edges)
               /\ EdgesAre(u, h.bytes, Ended(h.edges, g.nodes[m]), m)
    <3>1. m \notin ToSet(o) /\ m # u[n].up
      BY <1>1, <1>4, <2>3
    <3>2. /\ g.nodes[m].edges + g.nodes[m].count <= Len(g.edges)
          /\ EdgesAre(t, g.bytes, Ended(g.edges, g.nodes[m]), m)
      BY <2>1, <3>1 DEF InGraph
    <3>3. QED
      BY <1>2, <2>1, <3>1, <3>2, EdgesKept
  <2>4. QED
    BY <2>1, <2>2, <2>3 DEF InGraph
<1>8. QED
  <2>1. h = [nodes |-> h.nodes, edges |-> h.edges, bytes |-> h.bytes]
    BY <1>2 DEF Graphs
  <2>2. \A m \in DOMAIN u : InGraph(u, p, h, m)
    BY <1>1, <1>6, <1>7
  <2>3. QED
    BY <1>2, <1>3, <2>1, <2>2 DEF Built, Graphs, h

LEMMA ExactGrown ==
  ASSUME NEW t, NEW u, Grown(t, u), NEW o \in Seq(Nat), NEW p,
         p = o \/ p = Append(o, Len(u)),
         u[Len(u)].up = 0 \/ u[Len(u)].up \in ToSet(o),
         u[Len(u)].kind \in Containers \cup Plain,
         NEW g, Built(t, o, g), Exact(t, o, g)
  PROVE  Exact(u, p, Next1(u, g))
<1> DEFINE n == Len(u)
           h == Next1(u, g)
           S == {m \in 2..Len(t) : t[m].up \notin ToSet(o)}
           T == {m \in 2..n : u[m].up \notin ToSet(p)}
<1>1. /\ u \in Seq(Values) /\ n \in DOMAIN u /\ g \in Graphs
      /\ n = Len(t) + 1 /\ n \in Nat /\ Len(t) \in Nat
      /\ DOMAIN t = 1..Len(t) /\ DOMAIN u = 1..n
  BY GrownShape, BuiltIsGraph DEF Grown
<1>2. h.edges = g.edges /\ Len(h.bytes) = Len(g.bytes) + BytesIn(u, n)
  BY <1>1, OpenedShape DEF Next1
<1>3. ToSet(p) \subseteq ToSet(o) \cup {n} /\ ToSet(o) \subseteq ToSet(p)
  <2>1. n \in Nat
    BY <1>1
  <2> HIDE DEF n
  <2>2. p = Append(o, n) => ToSet(p) = ToSet(o) \cup {n}
    BY <2>1, ToSetAppend
  <2>3. QED
    BY <2>2 DEF n
<1>4. ASSUME NEW m \in 2..n
      PROVE  m \in T <=> m \in S
  <2>1. m \in DOMAIN u /\ m # 1
    BY <1>1
  <2>2. u[m].up \in Nat /\ u[m].up < m /\ u[m].up # 0
    BY <2>1, GrownEach
  <2>3. CASE m = n
    <3>1. u[m].up \in ToSet(o) /\ m \notin 2..Len(t)
      BY <1>1, <2>2, <2>3
    <3>2. QED
      BY <1>3, <3>1
  <2>4. CASE m # n
    <3>1. m \in DOMAIN t /\ m \in 2..Len(t)
      BY <1>1, <2>4
    <3>2. u[m] = t[m] /\ u[m].up # n
      BY <1>1, <2>2, <3>1, GrownOld
    <3>3. QED
      BY <1>3, <3>1, <3>2
  <2>5. QED
    BY <2>3, <2>4
<1>5. T = S
  <2>1. S \subseteq 2..n /\ T \subseteq 2..n
    BY <1>1
  <2> HIDE DEF S, T
  <2>2. QED
    BY <1>4, <2>1
<1>6. Cardinality(AllBytes(u)) = Cardinality(AllBytes(t)) + BytesIn(u, n)
  BY BytesGrown
<1>7. QED
  BY <1>2, <1>5, <1>6 DEF Exact

\* The edges of the containers that are open, with the one of the new value.
LEMMA FramedGrown ==
  ASSUME NEW t, NEW u, Grown(t, u), NEW o \in Seq(Nat), o # <<>>,
         \A i, k \in DOMAIN o : i < k => o[i] < o[k],
         u[Len(u)].up = Last(o),
         u[Len(u)].kind \in Containers \cup Plain,
         NEW g \in Graphs, NEW f, Framed(t, o, g, f),
         NEW e \in EdgeShape, e.child = Len(u),
         FieldIn(u, Len(u)) => e.key = Len(g.bytes)
  PROVE  Framed(u, o, Next1(u, g), [f EXCEPT ![Len(f)].edges = Append(@, e)])
<1> DEFINE n == Len(u)
           h == Next1(u, g)
           z == Len(f)
           r == [f EXCEPT ![z].edges = Append(@, e)]
           FrameShape == [node : Nat, edges : Seq(EdgeShape)]
<1>1. /\ u \in Seq(Values) /\ n \in DOMAIN u
  BY GrownShape DEF Grown
<1>2. /\ Extended(g.bytes, h.bytes)
      /\ FieldIn(u, n) => Copied(h.bytes, Len(g.bytes), u[n].label, -n)
  BY <1>1, OpenedShape DEF Next1
<1>3. /\ f \in Seq(FrameShape) /\ z = Len(o) /\ z \in Nat \ {0} /\ DOMAIN o = 1..z
      /\ DOMAIN f = 1..z /\ o[z] = Last(o)
      /\ \A i \in 1..z : f[i].node = o[i] /\ EdgesAre(t, g.bytes, f[i].edges, o[i])
  <2>1. /\ f \in Seq(FrameShape) /\ z = Len(o) /\ DOMAIN o = 1..Len(o) /\ DOMAIN f = 1..z
        /\ \A i \in DOMAIN o : f[i].node = o[i] /\ EdgesAre(t, g.bytes, f[i].edges, o[i])
    BY DEF Framed
  <2>2. Len(o) \in Nat \ {0} /\ o[Len(o)] = Last(o)
    BY FrontAndLast
  <2>3. QED
    BY <2>1, <2>2
<1> HIDE DEF h, z
<1>4. f[z] \in FrameShape /\ f[z].edges \in Seq(EdgeShape) /\ Append(f[z].edges, e) \in Seq(EdgeShape)
  <2>1. z \in 1..Len(f)
    BY <1>3 DEF z
  <2>2. f[z] \in FrameShape
    <3> HIDE DEF FrameShape
    <3>1. QED
      BY <1>3, <2>1, ElementOfSeq
  <2>3. QED
    BY <2>2, AppendProperties
<1>5. /\ r \in Seq(FrameShape) /\ Len(r) = z
      /\ r[z] = [f[z] EXCEPT !.edges = Append(@, e)]
      /\ \A i \in 1..z : i # z => r[i] = f[i]
  <2> DEFINE a == [f[z] EXCEPT !.edges = Append(@, e)]
  <2>1. a \in FrameShape /\ r = [f EXCEPT ![z] = a]
    BY <1>3, <1>4
  <2> HIDE DEF a
  <2>2. QED
    <3>1. z \in 1..Len(f) /\ Len(f) = z
      BY <1>3 DEF z
    <3>2. /\ r \in Seq(FrameShape) /\ Len(r) = z
          /\ \A i \in 1..z : r[i] = IF i = z THEN a ELSE f[i]
      <4> HIDE DEF FrameShape, r
      <4>1. f \in Seq(FrameShape) /\ a \in FrameShape /\ z \in 1..Len(f)
        BY <1>3, <2>1, <3>1
      <4>2. /\ [f EXCEPT ![z] = a] \in Seq(FrameShape) /\ Len([f EXCEPT ![z] = a]) = Len(f)
            /\ \A i \in 1..Len(f) : [f EXCEPT ![z] = a][i] = IF i = z THEN a ELSE f[i]
        BY <4>1, ExceptSeq
      <4>3. QED
        BY <2>1, <3>1, <4>2
    <3>3. QED
      BY <1>3, <3>2 DEF a
<1>6. r[z].node = o[z] /\ r[z].edges = Append(f[z].edges, e)
  BY <1>3, <1>4, <1>5
<1> HIDE DEF r
<1>7. ASSUME NEW i \in 1..z
      PROVE  r[i].node = o[i] /\ EdgesAre(u, h.bytes, r[i].edges, o[i])
  <2>1. CASE i = z
    <3>1. KeyCopied(u, h.bytes, e)
      BY <1>2 DEF KeyCopied
    <3>2. EdgesAre(t, g.bytes, f[z].edges, u[n].up)
      BY <1>3
    <3>3. EdgesAre(u, h.bytes, Append(f[z].edges, e), u[n].up)
      BY <1>2, <3>1, <3>2, EdgesGrown
    <3>4. QED
      BY <1>3, <1>6, <2>1, <3>3
  <2>2. CASE i # z
    <3>1. o[i] \in Nat /\ o[z] \in Nat /\ o[i] < o[z]
      <4>1. i \in DOMAIN o /\ z \in DOMAIN o /\ i < z /\ i \in 1..Len(o) /\ z \in 1..Len(o)
        BY <1>3, <2>2
      <4>2. o[i] \in Nat /\ o[z] \in Nat
        BY <4>1, ElementOfSeq
      <4>3. QED
        BY <4>1, <4>2
    <3>2. o[i] # u[n].up
      BY <1>3, <3>1
    <3>3. EdgesAre(u, h.bytes, f[i].edges, o[i])
      BY <1>2, <1>3, <3>2, EdgesKept
    <3>4. QED
      BY <1>3, <1>5, <2>2, <3>3
  <2>3. QED
    BY <2>1, <2>2
<1>8. QED
  BY <1>3, <1>5, <1>7 DEF Framed, r, h, z

\* A container begins: it has no edges yet.
LEMMA FrameAdded ==
  ASSUME NEW u, NEW o \in Seq(Nat), NEW h, NEW f, Framed(u, o, h, f),
         NEW n \in Nat, Members(u, n) = {}
  PROVE  Framed(u, Append(o, n), h, Append(f, [node |-> n, edges |-> <<>>]))
<1> DEFINE FrameShape == [node : Nat, edges : Seq(EdgeShape)]
           a == [node |-> n, edges |-> <<>>]
           p == Append(o, n)
           r == Append(f, a)
           z == Len(o)
<1>1. a \in FrameShape /\ a.node = n /\ a.edges = <<>>
  BY EmptySeq
<1>2. f \in Seq(FrameShape) /\ Len(f) = z /\ z \in Nat /\ DOMAIN o = 1..z
  BY DEF Framed
<1> HIDE DEF a, z
<1>3. /\ r \in Seq(FrameShape) /\ Len(r) = z + 1 /\ r[z + 1] = a
      /\ \A i \in 1..z : r[i] = f[i]
  BY <1>1, <1>2
<1>4. /\ Len(p) = z + 1 /\ DOMAIN p = 1..(z + 1) /\ p[z + 1] = n
      /\ \A i \in 1..z : p[i] = o[i]
  BY <1>2 DEF z
<1> HIDE DEF r, p
<1>5. ASSUME NEW i \in 1..(z + 1)
      PROVE  r[i].node = p[i] /\ EdgesAre(u, h.bytes, r[i].edges, p[i])
  <2>1. CASE i = z + 1
    <3>1. EdgesAre(u, h.bytes, <<>>, n)
      BY NoEdges
    <3>2. QED
      BY <1>1, <1>3, <1>4, <2>1, <3>1
  <2>2. CASE i \in 1..z
    <3>1. f[i].node = o[i] /\ EdgesAre(u, h.bytes, f[i].edges, o[i])
      BY <1>2, <2>2 DEF Framed
    <3>2. QED
      BY <1>3, <1>4, <2>2, <3>1
  <2>3. QED
    BY <1>2, <2>1, <2>2
<1>6. QED
  BY <1>3, <1>4, <1>5 DEF Framed, r, p, a

-----------------------------------------------------------------------------
(* A container ends. *)

Published(g, c, s) ==
  [g EXCEPT !.edges = @ \o s, !.nodes[c].edges = Len(g.edges), !.nodes[c].count = Len(s)]

LEMMA PublishedShape ==
  ASSUME NEW g \in Graphs, NEW c \in 1..Len(g.nodes), NEW s \in Seq(EdgeShape)
  PROVE  LET h == Published(g, c, s) IN
         /\ h \in Graphs /\ Len(h.nodes) = Len(g.nodes) /\ h.bytes = g.bytes
         /\ h.edges = g.edges \o s
         /\ \A m \in 1..Len(g.nodes) : m # c => h.nodes[m] = g.nodes[m]
         /\ h.nodes[c].kind = g.nodes[c].kind /\ h.nodes[c].bytes = g.nodes[c].bytes
         /\ h.nodes[c].edges = Len(g.edges) /\ h.nodes[c].count = Len(s)
<1> DEFINE h == Published(g, c, s)
           v == [kind |-> g.nodes[c].kind, bytes |-> g.nodes[c].bytes,
                 edges |-> Len(g.edges), count |-> Len(s)]
<1>1. /\ g.nodes \in Seq(NodeShape) /\ g.edges \in Seq(EdgeShape) /\ Len(g.edges) \in Nat
      /\ Len(s) \in Nat /\ Len(g.nodes) \in Nat /\ DOMAIN g.nodes = 1..Len(g.nodes)
  BY DEF Graphs
<1>2. g.nodes[c] \in NodeShape
  BY <1>1, ElementOfSeq
<1>3. v \in NodeShape
  BY <1>1, <1>2 DEF NodeShape
<1>4. v = [[g.nodes[c] EXCEPT !.edges = Len(g.edges)] EXCEPT !.count = Len(s)]
  <2> DEFINE x == g.nodes[c]
             w == [x EXCEPT !.edges = Len(g.edges)]
  <2>1. w \in NodeShape /\ w.kind = x.kind /\ w.bytes = x.bytes /\ w.edges = Len(g.edges)
    BY <1>1, <1>2 DEF NodeShape
  <2> HIDE DEF w
  <2>2. /\ [w EXCEPT !.count = Len(s)] \in NodeShape
        /\ [w EXCEPT !.count = Len(s)].kind = x.kind
        /\ [w EXCEPT !.count = Len(s)].bytes = x.bytes
        /\ [w EXCEPT !.count = Len(s)].edges = Len(g.edges)
        /\ [w EXCEPT !.count = Len(s)].count = Len(s)
    BY <1>1, <2>1 DEF NodeShape
  <2>3. v = [w EXCEPT !.count = Len(s)]
    BY <2>2 DEF NodeShape
  <2>4. QED
    BY <2>3 DEF w
<1>5. /\ h.nodes = [[g.nodes EXCEPT ![c].edges = Len(g.edges)] EXCEPT ![c].count = Len(s)]
      /\ h.edges = g.edges \o s /\ h.bytes = g.bytes
      /\ \A N, E, B : h.nodes \in N /\ h.edges \in E /\ h.bytes \in B
           => h \in [nodes : N, edges : E, bytes : B]
  BY DEF Published, Graphs
<1>6. h.nodes = [g.nodes EXCEPT ![c] = v]
  BY <1>1, <1>4, <1>5
<1> HIDE DEF h
<1>7. /\ h.nodes \in Seq(NodeShape) /\ Len(h.nodes) = Len(g.nodes)
      /\ \A m \in 1..Len(g.nodes) : h.nodes[m] = IF m = c THEN v ELSE g.nodes[m]
  <2> HIDE DEF v
  <2>1. QED
    BY <1>1, <1>3, <1>6, ExceptSeq
<1>8. h.edges \in Seq(EdgeShape)
  BY <1>1, <1>5, ConcatProperties
<1>9. h \in Graphs
  <2>1. h.bytes \in Seq(Int)
    BY <1>5 DEF Graphs
  <2>2. QED
    BY <1>5, <1>7, <1>8, <2>1 DEF Graphs
<1>10. h.nodes[c] = v
  BY <1>7
<1>11. \A m \in 1..Len(g.nodes) : m # c => h.nodes[m] = g.nodes[m]
  BY <1>7
<1>12. /\ h.nodes[c].kind = g.nodes[c].kind /\ h.nodes[c].bytes = g.nodes[c].bytes
       /\ h.nodes[c].edges = Len(g.edges) /\ h.nodes[c].count = Len(s)
  BY <1>10
<1> HIDE DEF v
<1>13. QED
  BY <1>5, <1>7, <1>9, <1>11, <1>12, Zenon DEF h

LEMMA EndedKept ==
  ASSUME NEW e \in Seq(EdgeShape), NEW s \in Seq(EdgeShape), NEW node,
         node.edges \in Nat, node.count \in Nat, node.edges + node.count <= Len(e)
  PROVE  Ended(e \o s, node) = Ended(e, node) /\ node.edges + node.count <= Len(e \o s)
<1>1. /\ Len(e) \in Nat /\ Len(s) \in Nat /\ Len(e \o s) = Len(e) + Len(s)
      /\ \A i \in 1..(Len(e) + Len(s)) : (e \o s)[i] = IF i <= Len(e) THEN e[i] ELSE s[i - Len(e)]
  BY ConcatProperties
<1>2. ASSUME NEW i \in 1..node.count
      PROVE  (e \o s)[node.edges + i] = e[node.edges + i]
  <2> DEFINE j == node.edges + i
  <2>1. j \in 1..(Len(e) + Len(s)) /\ j <= Len(e)
    BY <1>1
  <2> HIDE DEF j
  <2>2. (e \o s)[j] = e[j]
    BY <1>1, <2>1
  <2>3. QED
    BY <2>2 DEF j
<1>3. Ended(e \o s, node) = Ended(e, node)
  BY <1>2 DEF Ended
<1>4. QED
  BY <1>1, <1>3

LEMMA EndedNew ==
  ASSUME NEW e \in Seq(EdgeShape), NEW s \in Seq(EdgeShape), NEW node,
         node.edges = Len(e), node.count = Len(s)
  PROVE  Ended(e \o s, node) = s /\ node.edges + node.count <= Len(e \o s)
<1>1. /\ Len(e) \in Nat /\ Len(s) \in Nat /\ Len(e \o s) = Len(e) + Len(s)
      /\ \A i \in 1..(Len(e) + Len(s)) : (e \o s)[i] = IF i <= Len(e) THEN e[i] ELSE s[i - Len(e)]
      /\ DOMAIN s = 1..Len(s) /\ s \in [1..Len(s) -> EdgeShape]
  BY ConcatProperties, LenProperties
<1>2. ASSUME NEW i \in 1..Len(s)
      PROVE  (e \o s)[Len(e) + i] = s[i]
  <2> DEFINE j == Len(e) + i
  <2>1. j \in 1..(Len(e) + Len(s)) /\ ~(j <= Len(e)) /\ j - Len(e) = i
    BY <1>1
  <2> HIDE DEF j
  <2>2. (e \o s)[j] = s[j - Len(e)]
    BY <1>1, <2>1
  <2>3. QED
    BY <2>1, <2>2 DEF j
<1>3. Ended(e \o s, node) = [i \in 1..Len(s) |-> s[i]]
  BY <1>2 DEF Ended
<1>4. [i \in 1..Len(s) |-> s[i]] = s
  BY <1>1
<1>5. QED
  BY <1>1, <1>3, <1>4

LEMMA FrontOf ==
  ASSUME NEW S, NEW s \in Seq(S), s # <<>>,
         \A i, k \in DOMAIN s : i < k => s[i] # s[k]
  PROVE  ToSet(s) = ToSet(Front(s)) \cup {Last(s)} /\ Last(s) \notin ToSet(Front(s))
<1> DEFINE z == Len(s)
<1>1. /\ Front(s) \in Seq(S) /\ Len(Front(s)) = z - 1 /\ z \in Nat \ {0}
      /\ \A i \in 1..(z - 1) : Front(s)[i] = s[i]
      /\ Last(s) = s[z]
      /\ DOMAIN s = 1..z /\ DOMAIN Front(s) = 1..(z - 1)
  <2>1. /\ Front(s) \in Seq(S) /\ Len(Front(s)) = z - 1 /\ z \in Nat \ {0}
        /\ \A i \in 1..(z - 1) : Front(s)[i] = s[i]
        /\ Last(s) = s[z]
    BY FrontAndLast
  <2>2. DOMAIN s = 1..z /\ DOMAIN Front(s) = 1..Len(Front(s))
    BY <2>1
  <2>3. QED
    BY <2>1, <2>2
<1> HIDE DEF z
<1>2. 1..z = 1..(z - 1) \cup {z}
  BY <1>1
<1>3. ToSet(s) = ToSet(Front(s)) \cup {Last(s)}
  BY <1>1, <1>2 DEF ToSet
<1>4. \A i \in 1..(z - 1) : s[i] # s[z]
  BY <1>1
<1>5. Last(s) \notin ToSet(Front(s))
  BY <1>1, <1>4 DEF ToSet
<1>6. QED
  BY <1>3, <1>5

\* The container that is left is the last one that was entered.
LEMMA BuiltEnded ==
  ASSUME NEW t \in Seq(Values), NEW o \in Seq(Nat), o # <<>>, Last(o) \in DOMAIN t,
         \A i, k \in DOMAIN o : i < k => o[i] < o[k],
         NEW g, Built(t, o, g), NEW f, Framed(t, o, g, f)
  PROVE  /\ Built(t, Front(o), Published(g, Last(o), Last(f).edges))
         /\ Framed(t, Front(o), Published(g, Last(o), Last(f).edges), Front(f))
         /\ Last(f).node = Last(o) /\ Last(f).edges \in Seq(EdgeShape) /\ f # <<>>
         /\ EdgesAre(t, g.bytes, Last(f).edges, Last(o))
<1> DEFINE c == Last(o)
           s == Last(f).edges
           h == Published(g, c, s)
           FrameShape == [node : Nat, edges : Seq(EdgeShape)]
           z == Len(o)
<1>1. /\ g \in Graphs /\ Len(g.nodes) = Len(t) /\ DOMAIN t = 1..Len(t) /\ Len(t) \in Nat
      /\ c \in 1..Len(g.nodes)
  BY BuiltIsGraph
<1>2. /\ z \in Nat \ {0} /\ c = o[z] /\ Front(o) \in Seq(Nat) /\ Len(Front(o)) = z - 1
      /\ \A i \in 1..(z - 1) : Front(o)[i] = o[i]
      /\ DOMAIN o = 1..z
  <2>1. DOMAIN o = 1..z
    OBVIOUS
  <2>2. QED
    BY <2>1, FrontAndLast
<1>3. /\ f \in Seq(FrameShape) /\ Len(f) = z
      /\ \A i \in 1..z : f[i].node = o[i] /\ EdgesAre(t, g.bytes, f[i].edges, o[i])
  BY <1>2 DEF Framed
<1>4. f # <<>>
  BY <1>2, <1>3
<1>5. /\ Front(f) \in Seq(FrameShape) /\ Len(Front(f)) = z - 1 /\ Last(f) = f[z]
      /\ \A i \in 1..(z - 1) : Front(f)[i] = f[i]
  <2> HIDE DEF FrameShape, z
  <2>1. QED
    BY <1>3, <1>4, FrontAndLast
<1>6. Last(f).node = c /\ EdgesAre(t, g.bytes, s, c) /\ s \in Seq(EdgeShape)
  <2>1. f[z].node = o[z] /\ EdgesAre(t, g.bytes, f[z].edges, o[z])
    BY SMTT(30), <1>2, <1>3
  <2>2. Last(f).node = c /\ EdgesAre(t, g.bytes, s, c)
    BY <1>2, <1>5, <2>1
  <2>3. QED
    BY <2>2 DEF EdgesAre
<1> HIDE DEF s, c, h
<1>7. /\ h \in Graphs /\ Len(h.nodes) = Len(g.nodes) /\ h.bytes = g.bytes
      /\ h.edges = g.edges \o s
      /\ \A m \in 1..Len(g.nodes) : m # c => h.nodes[m] = g.nodes[m]
      /\ h.nodes[c].kind = g.nodes[c].kind /\ h.nodes[c].bytes = g.nodes[c].bytes
      /\ h.nodes[c].edges = Len(g.edges) /\ h.nodes[c].count = Len(s)
  BY <1>1, <1>6, PublishedShape DEF h
<1>8. g.edges \in Seq(EdgeShape) /\ Len(g.edges) \in Nat /\ Len(s) \in Nat
  BY <1>1, <1>6 DEF Graphs
<1>9. ToSet(o) = ToSet(Front(o)) \cup {c} /\ c \notin ToSet(Front(o))
  <2>1. \A i, k \in DOMAIN o : i < k => o[i] # o[k]
    <3> SUFFICES ASSUME NEW i \in DOMAIN o, NEW k \in DOMAIN o, i < k
                 PROVE  o[i] # o[k]
      OBVIOUS
    <3>1. o[i] < o[k] /\ o[i] \in Nat /\ o[k] \in Nat
      BY <1>2, ElementOfSeq
    <3>2. QED
      BY <3>1
  <2>2. QED
    BY <2>1, FrontOf DEF c
<1>10. ASSUME NEW m \in DOMAIN t
       PROVE  InGraph(t, Front(o), h, m)
  <2>1. InGraph(t, o, g, m)
    BY DEF Built
  <2>2. CASE m = c
    <3>1. /\ Ended(h.edges, h.nodes[c]) = s
          /\ h.nodes[c].edges + h.nodes[c].count <= Len(h.edges)
      BY SMTT(30), <1>6, <1>7, <1>8, EndedNew
    <3>2. EdgesAre(t, h.bytes, Ended(h.edges, h.nodes[c]), c)
      BY <1>6, <1>7, <3>1
    <3>3. QED
      BY <1>7, <1>8, <2>1, <2>2, <3>1, <3>2 DEF InGraph
  <2>3. CASE m # c
    <3>1. h.nodes[m] = g.nodes[m]
      BY <1>1, <1>7, <2>3
    <3>2. ASSUME m \notin ToSet(Front(o))
          PROVE  /\ Ended(h.edges, h.nodes[m]) = Ended(g.edges, g.nodes[m])
                 /\ h.nodes[m].edges + h.nodes[m].count <= Len(h.edges)
                 /\ EdgesAre(t, h.bytes, Ended(h.edges, h.nodes[m]), m)
      <4>1. m \notin ToSet(o)
        BY <1>9, <2>3, <3>2
      <4>2. /\ g.nodes[m].edges \in Nat /\ g.nodes[m].count \in Nat
            /\ g.nodes[m].edges + g.nodes[m].count <= Len(g.edges)
            /\ EdgesAre(t, g.bytes, Ended(g.edges, g.nodes[m]), m)
        BY <2>1, <4>1 DEF InGraph
      <4>3. /\ Ended(g.edges \o s, g.nodes[m]) = Ended(g.edges, g.nodes[m])
            /\ g.nodes[m].edges + g.nodes[m].count <= Len(g.edges \o s)
        BY <1>6, <1>8, <4>2, EndedKept
      <4>4. QED
        BY <1>7, <3>1, <4>2, <4>3
    <3>3. QED
      BY <1>7, <2>1, <3>1, <3>2 DEF InGraph
  <2>4. QED
    BY <2>2, <2>3
<1>11. Built(t, Front(o), h)
  <2>1. h = [nodes |-> h.nodes, edges |-> h.edges, bytes |-> h.bytes]
    BY <1>7 DEF Graphs
  <2>2. QED
    BY <1>1, <1>7, <1>10, <2>1 DEF Built, Graphs
<1>12. Framed(t, Front(o), h, Front(f))
  <2>1. DOMAIN Front(o) = 1..(z - 1)
    BY <1>2
  <2>2. \A i \in 1..(z - 1) : /\ Front(f)[i].node = Front(o)[i]
                              /\ EdgesAre(t, h.bytes, Front(f)[i].edges, Front(o)[i])
    <3> SUFFICES ASSUME NEW i \in 1..(z - 1)
                 PROVE  /\ Front(f)[i].node = Front(o)[i]
                        /\ EdgesAre(t, h.bytes, Front(f)[i].edges, Front(o)[i])
      OBVIOUS
    <3>1. Front(f)[i] = f[i] /\ Front(o)[i] = o[i] /\ i \in 1..z
      BY SMTT(30), <1>2, <1>5
    <3>2. f[i].node = o[i] /\ EdgesAre(t, g.bytes, f[i].edges, o[i])
      BY <1>3, <3>1
    <3>3. QED
      BY <1>7, <3>1, <3>2
  <2>3. QED
    BY <1>2, <1>5, <2>1, <2>2 DEF Framed
<1>13. QED
  BY <1>4, <1>6, <1>11, <1>12 DEF h, s, c

LEMMA ExactEnded ==
  ASSUME NEW t \in Seq(Values), InOrder(t),
         NEW o \in Seq(Nat), o # <<>>, Last(o) \in DOMAIN t,
         \A i, k \in DOMAIN o : i < k => o[i] < o[k],
         NEW g, Built(t, o, g), Exact(t, o, g), NEW s, EdgesAre(t, g.bytes, s, Last(o))
  PROVE  Exact(t, Front(o), Published(g, Last(o), s))
<1> DEFINE c == Last(o)
           h == Published(g, c, s)
           S == {n \in 2..Len(t) : t[n].up \notin ToSet(o)}
           T == {n \in 2..Len(t) : t[n].up \notin ToSet(Front(o))}
           M == Members(t, c)
<1>1. /\ g \in Graphs /\ Len(g.nodes) = Len(t) /\ DOMAIN t = 1..Len(t) /\ Len(t) \in Nat
      /\ c \in 1..Len(g.nodes) /\ s \in Seq(EdgeShape)
  BY BuiltIsGraph DEF EdgesAre
<1>2. h.bytes = g.bytes /\ h.edges = g.edges \o s
  <2> HIDE DEF c
  <2>1. QED
    BY <1>1, PublishedShape
<1>3. Len(h.edges) = Len(g.edges) + Len(s) /\ Len(g.edges) \in Nat /\ Len(s) \in Nat
  BY <1>1, <1>2, ConcatProperties DEF Graphs
<1>4. ToSet(o) = ToSet(Front(o)) \cup {c} /\ c \notin ToSet(Front(o))
  <2>1. \A i, k \in DOMAIN o : i < k => o[i] # o[k]
    <3> SUFFICES ASSUME NEW i \in DOMAIN o, NEW k \in DOMAIN o, i < k
                 PROVE  o[i] # o[k]
      OBVIOUS
    <3>1. o[i] < o[k] /\ o[i] \in Nat /\ o[k] \in Nat
      <4>1. DOMAIN o = 1..Len(o)
        OBVIOUS
      <4>2. QED
        BY <4>1, ElementOfSeq
    <3>2. QED
      BY <3>1
  <2>2. QED
    BY <2>1, FrontOf
<1>5. M \subseteq 2..Len(t)
  <2> SUFFICES ASSUME NEW n \in M
               PROVE  n \in 2..Len(t)
    OBVIOUS
  <2>1. n \in DOMAIN t /\ t[n].up = c /\ c # 0
    BY <1>1 DEF Members
  <2>2. n # 1
    BY <2>1 DEF InOrder
  <2>3. QED
    BY <1>1, <2>1, <2>2
<1>6. T = S \cup M /\ S \cap M = {}
  <2>1. ASSUME NEW n \in 2..Len(t)
        PROVE  (n \in T <=> n \in S \/ n \in M) /\ ~(n \in S /\ n \in M)
    <3>1. n \in M <=> t[n].up = c
      BY <1>1 DEF Members
    <3> HIDE DEF c, M
    <3>2. QED
      BY <1>4, <3>1
  <2>2. S \subseteq 2..Len(t) /\ T \subseteq 2..Len(t)
    OBVIOUS
  <2> HIDE DEF S, T, M
  <2>3. QED
    BY <1>5, <2>1, <2>2
<1>7. IsFiniteSet(S) /\ IsFiniteSet(M)
  <2>1. IsFiniteSet(2..Len(t))
    BY <1>1, FS_Interval
  <2>2. S \subseteq 2..Len(t)
    OBVIOUS
  <2> HIDE DEF S, M
  <2>3. QED
    BY <1>5, <2>1, <2>2, FS_Subset
<1>8. Cardinality(M) = Len(s)
  BY EdgesCounted
<1>9. Cardinality(S) = Len(g.edges) /\ Len(g.bytes) = Cardinality(AllBytes(t))
  BY DEF Exact
<1> HIDE DEF S, M, T
<1>10. Cardinality(T) = Cardinality(S) + Cardinality(M) - Cardinality(S \cap M)
  BY <1>6, <1>7, FS_Union
<1>11. Cardinality(S \cap M) = 0
  BY <1>6, FS_EmptySet
<1>12. Cardinality(T) = Len(h.edges)
  BY <1>3, <1>8, <1>9, <1>10, <1>11
<1>13. QED
  BY <1>2, <1>9, <1>12 DEF Exact, T

-----------------------------------------------------------------------------
(* What a result takes. *)

OutputOf(t) ==
  Len(t) * NodeBytes + (Len(t) - 1) * EdgeBytes + Cardinality(AllBytes(t))

LEMMA OutputIs == OutputBytes = OutputOf(tree)
BY DEF OutputBytes, OutputOf, AllBytes, BytesIn, FieldIn, IsField

LEMMA ProductGrows ==
  ASSUME NEW a \in Nat, NEW b \in Nat, a <= b, NEW k \in Nat
  PROVE  /\ a * k <= b * k /\ a * k \in Nat /\ b * k \in Nat
         /\ (a + 1) * k = a * k + k
         /\ (a + b) * k = a * k + b * k
<1> DEFINE d == b - a
<1>1. d \in Nat /\ b = a + d
  OBVIOUS
<1>2. d * k \in Nat /\ a * k \in Nat /\ b * k \in Nat
  BY <1>1
<1>3. (a + d) * k = a * k + d * k /\ (a + 1) * k = a * k + k /\ (a + b) * k = a * k + b * k
  OBVIOUS
<1>4. b * k = (a + d) * k
  BY <1>1
<1> HIDE DEF d
<1>5. QED
  BY <1>2, <1>3, <1>4

LEMMA EdgesBounded ==
  ASSUME NEW t \in Seq(Values), t # <<>>, InOrder(t), NEW o, NEW g,
         Built(t, o, g), Exact(t, o, g)
  PROVE  /\ Len(g.edges) \in Nat /\ Len(t) \in Nat \ {0} /\ Len(g.edges) <= Len(t) - 1
         /\ ToSet(o) \subseteq {} => Len(g.edges) = Len(t) - 1
<1> DEFINE S == {n \in 2..Len(t) : t[n].up \notin ToSet(o)}
<1>1. Len(g.edges) \in Nat /\ Len(t) \in Nat \ {0}
  BY EmptySeq DEF Built
<1>2. IsFiniteSet(2..Len(t)) /\ Cardinality(2..Len(t)) = Len(t) - 1
  <2> DEFINE z == Len(t)
  <2>1. z \in Int /\ 2 \in Int
    BY <1>1
  <2> HIDE DEF z
  <2>2. IsFiniteSet(2..z) /\ Cardinality(2..z) = IF 2 > z THEN 0 ELSE z - 2 + 1
    BY <2>1, FS_Interval
  <2>3. QED
    BY <1>1, <2>2 DEF z
<1>3. S \subseteq 2..Len(t) /\ Cardinality(S) = Len(g.edges)
  BY DEF Exact
<1>4. ToSet(o) \subseteq {} => S = 2..Len(t)
  OBVIOUS
<1> HIDE DEF S
<1>5. S \in SUBSET (2..Len(t))
  BY <1>3
<1>6. Cardinality(S) <= Cardinality(2..Len(t))
  BY <1>2, <1>5, FS_Subset
<1>7. QED
  BY <1>1, <1>2, <1>3, <1>4, <1>6

LEMMA RetainedIs ==
  ASSUME NEW t \in Seq(Values), NEW o, NEW g, Built(t, o, g), Exact(t, o, g)
  PROVE  /\ RetainedBytes(g) = Len(t) * NodeBytes + Len(g.edges) * EdgeBytes
                                 + Cardinality(AllBytes(t))
         /\ RetainedBytes(g) \in Nat
<1>1. /\ Len(t) \in Nat /\ Len(g.edges) \in Nat /\ Len(g.bytes) \in Nat
      /\ Len(g.nodes) = Len(t) /\ Len(g.bytes) = Cardinality(AllBytes(t))
  BY DEF Built, Exact
<1>2. NodeBytes \in Nat /\ EdgeBytes \in Nat
  BY DecodeAssumption DEF DecodeAssumption
<1>3. Len(t) * NodeBytes \in Nat /\ Len(g.edges) * EdgeBytes \in Nat
  BY <1>1, <1>2, ProductGrows
<1>4. QED
  BY <1>1, <1>3 DEF RetainedBytes

\* No part of the result takes more than the whole of it.
LEMMA OutputBounds ==
  ASSUME NEW t \in Seq(Values), t # <<>>, InOrder(t), NEW o, NEW g,
         Built(t, o, g), Exact(t, o, g)
  PROVE  /\ OutputOf(t) \in Nat /\ RetainedBytes(g) <= OutputOf(t)
         /\ ToSet(o) \subseteq {} => RetainedBytes(g) = OutputOf(t)
<1>1. /\ Len(g.edges) \in Nat /\ Len(t) \in Nat \ {0} /\ Len(g.edges) <= Len(t) - 1
      /\ ToSet(o) \subseteq {} => Len(g.edges) = Len(t) - 1
  BY EdgesBounded
<1>2. NodeBytes \in Nat /\ EdgeBytes \in Nat /\ Cardinality(AllBytes(t)) \in Nat
  BY DecodeAssumption, BytesCounted DEF DecodeAssumption
<1>3. /\ Len(g.edges) * EdgeBytes <= (Len(t) - 1) * EdgeBytes
      /\ Len(g.edges) * EdgeBytes \in Nat /\ (Len(t) - 1) * EdgeBytes \in Nat
  BY <1>1, <1>2, ProductGrows
<1>4. Len(t) * NodeBytes \in Nat
  BY <1>1, <1>2, ProductGrows
<1>5. RetainedBytes(g) = Len(t) * NodeBytes + Len(g.edges) * EdgeBytes
                           + Cardinality(AllBytes(t))
  BY RetainedIs
<1>6. OutputOf(t) = Len(t) * NodeBytes + (Len(t) - 1) * EdgeBytes + Cardinality(AllBytes(t))
  BY DEF OutputOf
<1> DEFINE a == Len(t) * NodeBytes
           b == Len(g.edges) * EdgeBytes
           c == (Len(t) - 1) * EdgeBytes
<1>7. /\ a \in Nat /\ b \in Nat /\ c \in Nat /\ b <= c
      /\ ToSet(o) \subseteq {} => b = c
  BY <1>1, <1>3, <1>4
<1>8. /\ RetainedBytes(g) = a + b + Cardinality(AllBytes(t))
      /\ OutputOf(t) = a + c + Cardinality(AllBytes(t))
  BY <1>5, <1>6
<1> HIDE DEF a, b, c
<1>9. QED
  BY <1>2, <1>7, <1>8

\* With one more value it takes more by the value and its bytes, at least.
LEMMA OutputGrows ==
  ASSUME NEW t, NEW u, Grown(t, u), t # <<>> => InOrder(t), NEW o, NEW g,
         Built(t, o, g), Exact(t, o, g)
  PROVE  /\ RetainedBytes(g) + BytesIn(u, Len(u)) + NodeBytes <= OutputOf(u)
         /\ OutputOf(u) \in Nat
<1>1. /\ t \in Seq(Values) /\ u \in Seq(Values) /\ Len(t) \in Nat /\ Len(u) = Len(t) + 1
      /\ Len(u) \in DOMAIN u
  BY GrownShape DEF Grown
<1>2. /\ NodeBytes \in Nat /\ EdgeBytes \in Nat /\ Cardinality(AllBytes(t)) \in Nat
      /\ BytesIn(u, Len(u)) \in Nat
      /\ Cardinality(AllBytes(u)) = Cardinality(AllBytes(t)) + BytesIn(u, Len(u))
  BY <1>1, DecodeAssumption, BytesCounted, BytesGrown, LabelIsLength DEF DecodeAssumption
<1>3. Len(g.edges) \in Nat /\ Len(g.edges) <= Len(t)
  <2>1. CASE t = <<>>
    <3>1. 2..Len(t) = {}
      BY <1>1, <2>1
    <3>2. {n \in 2..Len(t) : t[n].up \notin ToSet(o)} = {}
      BY <3>1
    <3>3. Len(g.edges) = 0
      BY <3>2, FS_EmptySet DEF Exact
    <3>4. QED
      BY <1>1, <3>3
  <2>2. CASE t # <<>>
    BY <1>1, <2>2, EdgesBounded
  <2>3. QED
    BY <2>1, <2>2
<1>4. /\ Len(g.edges) * EdgeBytes <= Len(t) * EdgeBytes
      /\ Len(g.edges) * EdgeBytes \in Nat /\ Len(t) * EdgeBytes \in Nat
      /\ Len(t) * NodeBytes \in Nat /\ (Len(t) + 1) * NodeBytes = Len(t) * NodeBytes + NodeBytes
  BY SMTT(30), <1>1, <1>2, <1>3, ProductGrows
<1>5. RetainedBytes(g) = Len(t) * NodeBytes + Len(g.edges) * EdgeBytes
                           + Cardinality(AllBytes(t))
  BY <1>1, RetainedIs
<1>6. OutputOf(u) = (Len(t) + 1) * NodeBytes + Len(t) * EdgeBytes + Cardinality(AllBytes(u))
  <2>1. Len(u) - 1 = Len(t)
    BY <1>1
  <2>2. QED
    BY <1>1, <2>1 DEF OutputOf
<1> DEFINE a == Len(t) * NodeBytes
           b == Len(g.edges) * EdgeBytes
           c == Len(t) * EdgeBytes
           m == (Len(t) + 1) * NodeBytes
<1>7. a \in Nat /\ b \in Nat /\ c \in Nat /\ b <= c /\ m = a + NodeBytes
  BY <1>4
<1>8. /\ RetainedBytes(g) = a + b + Cardinality(AllBytes(t))
      /\ OutputOf(u) = m + c + Cardinality(AllBytes(u))
  BY <1>5, <1>6
<1> HIDE DEF a, b, c, m
<1>9. QED
  BY <1>2, <1>7, <1>8

-----------------------------------------------------------------------------
(* The checks that passed, and the one that did not. *)

Passed(s) == \A i \in 1..Len(s) : ~s[i][1]

LEMMA NoFailure ==
  ASSUME NEW S, NEW checks \in Seq(S), \A c \in S : c[1] => c[2] # "ok",
         FirstFailure(checks) = "ok"
  PROVE  Passed(checks)
<1> DEFINE Failed(c) == c[1]
           I == {i \in 1..Len(checks) : Failed(checks[i])}
<1>1. SelectInSeq(checks, Failed) = IF I # {} THEN Min(I) ELSE 0
  BY DEF SelectInSeq
<1>2. FirstFailure(checks) = IF SelectInSeq(checks, Failed) = 0 THEN "ok"
                             ELSE checks[SelectInSeq(checks, Failed)][2]
  BY DEF FirstFailure
<1>3. I = {}
  <2> SUFFICES ASSUME I # {}
               PROVE  FALSE
    OBVIOUS
  <2>1. I \subseteq Nat
    OBVIOUS
  <2>2. Min(I) \in I
    <3> HIDE DEF I
    <3>1. QED
      BY <2>1, LeastExists
  <2>3. PICK i \in 1..Len(checks) : checks[i][1] /\ i = Min(I)
    BY <2>2
  <2>4. checks[i] \in S
    BY ElementOfSeq
  <2>5. checks[i][2] # "ok" /\ i # 0
    BY <2>3, <2>4
  <2>6. FirstFailure(checks) = checks[i][2]
    BY <1>1, <1>2, <2>3, <2>5
  <2>7. QED
    BY <2>5, <2>6
<1>4. QED
  BY <1>3 DEF Passed

LEMMA PassedBoth ==
  ASSUME NEW S, NEW a \in Seq(S), NEW b \in Seq(S), Passed(a \o b)
  PROVE  Passed(a) /\ Passed(b)
<1>1. /\ Len(a) \in Nat /\ Len(b) \in Nat /\ Len(a \o b) = Len(a) + Len(b)
      /\ \A i \in 1..(Len(a) + Len(b)) : (a \o b)[i] = IF i <= Len(a) THEN a[i] ELSE b[i - Len(a)]
  BY ConcatProperties
<1>2. ASSUME NEW i \in 1..Len(a)
      PROVE  ~a[i][1]
  <2>1. i \in 1..(Len(a) + Len(b)) /\ i <= Len(a)
    BY <1>1
  <2>2. (a \o b)[i] = a[i]
    BY <1>1, <2>1
  <2>3. QED
    BY <1>1, <2>1, <2>2 DEF Passed
<1>3. ASSUME NEW i \in 1..Len(b)
      PROVE  ~b[i][1]
  <2> DEFINE j == Len(a) + i
  <2>1. j \in 1..(Len(a) + Len(b)) /\ ~(j <= Len(a)) /\ j - Len(a) = i
    BY <1>1
  <2> HIDE DEF j
  <2>2. (a \o b)[j] = b[i]
    BY <1>1, <2>1
  <2>3. QED
    BY <1>1, <2>1, <2>2 DEF Passed
<1>4. QED
  BY <1>2, <1>3 DEF Passed

LEMMA PassedOne ==
  ASSUME NEW c, Passed(<<c>>)
  PROVE  ~c[1]
BY DEF Passed

LEMMA PassedTwo ==
  ASSUME NEW c, NEW d, Passed(<<c, d>>)
  PROVE  ~c[1] /\ ~d[1]
<1>1. 1 \in 1..Len(<<c, d>>) /\ 2 \in 1..Len(<<c, d>>)
  OBVIOUS
<1>2. QED
  BY <1>1 DEF Passed

LEMMA OpenChecksPass ==
  ASSUME NEW g, NEW n, NEW isRoot, NEW kind \in Containers \cup Leaves \cup {"torn"},
         Passed(OpenChecks(g, n, kind, isRoot))
  PROVE  /\ kind \in Containers \cup Plain
         /\ kind = "text" => ~(TextLength > limits.string)
         /\ BudgetAllows(WithText(g, n, kind), NodeBytes)
<1> DEFINE c1 == <<kind = "strange" /\ ~isRoot, "incorrect_type">>
           c2 == <<Error(kind) # "SUCCESS", DecodeCode(Error(kind))>>
           c3 == <<isRoot /\ ~RootAccepted(kind), DecodeCode("TRAILING_CONTENT")>>
           c4 == <<TextLength > limits.string, "max_string_bytes_exceeded">>
           c5 == <<~BudgetAllows(g, TextLength), "max_output_bytes_exceeded">>
           c6 == <<~BudgetAllows(WithText(g, n, kind), NodeBytes), "max_output_bytes_exceeded">>
           S == {c1, c2, c3, c4, c5, c6}
           m == IF kind = "text" THEN <<c4, c5>> ELSE <<>>
<1>1. OpenChecks(g, n, kind, isRoot) = <<c1, c2>> \o <<c3>> \o m \o <<c6>>
  BY DEF OpenChecks, TokenChecks, CopyChecks
<1>2. /\ ~c2[1] => Error(kind) = "SUCCESS"
      /\ ~c4[1] => ~(TextLength > limits.string)
      /\ ~c6[1] => BudgetAllows(WithText(g, n, kind), NodeBytes)
  BY DEF BudgetAllows
<1>3. c1 \in S /\ c2 \in S /\ c3 \in S /\ c4 \in S /\ c5 \in S /\ c6 \in S
  OBVIOUS
<1> HIDE DEF c1, c2, c3, c4, c5, c6, S
<1>4. <<c1, c2>> \in Seq(S) /\ <<c3>> \in Seq(S) /\ m \in Seq(S) /\ <<c6>> \in Seq(S)
  <2>1. /\ <<c1, c2>> \in Seq(S) /\ <<c3>> \in Seq(S) /\ <<c6>> \in Seq(S)
        /\ <<c4, c5>> \in Seq(S) /\ <<>> \in Seq(S)
    BY <1>3
  <2>2. QED
    BY <2>1
<1>5. /\ Passed(<<c1, c2>>) /\ Passed(m) /\ Passed(<<c6>>)
  <2> DEFINE a == <<c1, c2>>
             b == <<c3>>
  <2>1. a \in Seq(S) /\ b \in Seq(S)
    BY <1>4
  <2> HIDE DEF m, a, b
  <2>2. a \o b \in Seq(S) /\ (a \o b) \o m \in Seq(S)
    BY <1>4, <2>1, ConcatProperties
  <2>3. Passed((a \o b) \o m) /\ Passed(<<c6>>)
    <3>1. Passed(((a \o b) \o m) \o <<c6>>)
      BY <1>1 DEF a, b
    <3>2. QED
      BY <1>4, <2>2, <3>1, PassedBoth
  <2>4. Passed(a \o b) /\ Passed(m)
    BY <1>4, <2>2, <2>3, PassedBoth
  <2>5. Passed(a)
    BY <2>1, <2>4, PassedBoth
  <2>6. QED
    BY <2>3, <2>4, <2>5 DEF a
<1>6. ~c2[1]
  BY <1>5, PassedTwo
<1>7. kind = "text" => ~c4[1]
  BY <1>5, PassedTwo
<1>8. ~c6[1]
  BY <1>5, PassedOne
<1>9. kind \in Containers \cup Plain
  BY <1>2, <1>6 DEF Error, Containers, Leaves, Plain
<1>10. QED
  BY <1>2, <1>7, <1>8, <1>9

LEMMA OpenChecksLimit ==
  ASSUME NEW g, NEW n, NEW isRoot, NEW kind,
         NEW c \in OpenCheckSet(g, n, kind, isRoot), c[1]
  PROVE  /\ c[2] = "max_string_bytes_exceeded" => kind = "text" /\ TextLength > limits.string
         /\ c[2] = "max_output_bytes_exceeded" =>
              \/ kind = "text" /\ ~BudgetAllows(g, TextLength)
              \/ ~BudgetAllows(WithText(g, n, kind), NodeBytes)
         /\ c[2] \notin {"max_depth_exceeded", "max_container_entries_exceeded"}
         /\ c[2] # "ok"
<1>1. CASE c \in {<<isRoot /\ ~RootAccepted(kind), DecodeCode("TRAILING_CONTENT")>>,
                 <<kind = "strange" /\ ~isRoot, "incorrect_type">>}
  <2>1. c[2] \in {"malformed", "incorrect_type"}
    BY <1>1 DEF DecodeCode
  <2>2. QED
    BY <2>1
<1>2. CASE c = <<Error(kind) # "SUCCESS", DecodeCode(Error(kind))>>
  <2>1. c[2] = DecodeCode(Error(kind)) /\ Error(kind) # "SUCCESS"
    BY <1>2
  <2>2. c[2] \in {"number_out_of_range", "malformed"}
    BY <2>1 DEF DecodeCode
  <2>3. QED
    BY <2>2
<1>3. CASE c = <<~BudgetAllows(WithText(g, n, kind), NodeBytes), "max_output_bytes_exceeded">>
  <2>1. c[2] = "max_output_bytes_exceeded" /\ ~BudgetAllows(WithText(g, n, kind), NodeBytes)
    BY <1>3
  <2>2. QED
    BY <2>1
<1>4. CASE kind = "text" /\ c = <<TextLength > limits.string, "max_string_bytes_exceeded">>
  <2>1. c[2] = "max_string_bytes_exceeded" /\ TextLength > limits.string
    BY <1>4
  <2>2. QED
    BY <1>4, <2>1
<1>5. CASE kind = "text" /\ c = <<~BudgetAllows(g, TextLength), "max_output_bytes_exceeded">>
  <2>1. c[2] = "max_output_bytes_exceeded" /\ ~BudgetAllows(g, TextLength)
    BY <1>5
  <2>2. QED
    BY <1>5, <2>1
<1>6. QED
  BY <1>1, <1>2, <1>3, <1>4, <1>5 DEF OpenCheckSet

-----------------------------------------------------------------------------
(* The invariant, and what it says of a finished graph. *)

\* At the beginning nothing is read, and nothing built.
LEMMA NothingBuilt ==
  ASSUME DecodeFlow
  PROVE  /\ Built(<<>>, <<>>, EmptyGraph) /\ Exact(<<>>, <<>>, EmptyGraph)
         /\ Framed(<<>>, <<>>, EmptyGraph, <<>>) /\ Within(<<>>, EmptyGraph)
<1>1. /\ EmptyGraph.nodes = <<>> /\ EmptyGraph.edges = <<>> /\ EmptyGraph.bytes = <<>>
      /\ EmptyGraph = [nodes |-> EmptyGraph.nodes, edges |-> EmptyGraph.edges,
                       bytes |-> EmptyGraph.bytes]
      /\ DOMAIN <<>> = {} /\ Len(<<>>) = 0 /\ 2..0 = {}
  BY DEF EmptyGraph
<1>2. /\ <<>> \in Seq(NodeShape) /\ <<>> \in Seq(EdgeShape) /\ <<>> \in Seq(Int)
      /\ <<>> \in Seq([node : Nat, edges : Seq(EdgeShape)])
  BY EmptySeq
<1>3. Built(<<>>, <<>>, EmptyGraph)
  BY <1>1, <1>2 DEF Built
<1>4. Exact(<<>>, <<>>, EmptyGraph)
  <2>1. {n \in 2..Len(<<>>) : <<>>[n].up \notin ToSet(<<>>)} = {}
    BY <1>1
  <2>2. AllBytes(<<>>) = {}
    BY <1>1 DEF AllBytes
  <2>3. QED
    BY <1>1, <2>1, <2>2, FS_EmptySet DEF Exact
<1>5. Framed(<<>>, <<>>, EmptyGraph, <<>>)
  BY <1>1, <1>2 DEF Framed
<1>6. Within(<<>>, EmptyGraph)
  <2>1. NodeBytes \in Nat /\ EdgeBytes \in Nat /\ limits.output \in Nat
    BY DecodeAssumption DEF DecodeAssumption, DecodeFlow
  <2>2. RetainedBytes(EmptyGraph) = 0
    BY <1>1, <2>1 DEF RetainedBytes
  <2>3. QED
    BY <1>1, <2>1, <2>2 DEF Within
<1>7. QED
  BY <1>3, <1>4, <1>5, <1>6

\* While the decoder reads, it has built what it has read.
LEMMA WhileBuilding ==
  ASSUME IInv, DInv, reader = "materializer"
  PROVE  /\ Built(tree, open, graph) /\ Exact(tree, open, graph)
         /\ Framed(tree, open, graph, frames) /\ Within(tree, graph)
         /\ pos = Len(tree) /\ open \in Seq(Nat)
         /\ pos = 0 => tree = <<>> /\ open = <<>> /\ frames = <<>> /\ graph = EmptyGraph
<1>1. op = "decode" /\ pos = Len(tree) /\ (pos = 0 <=> graph.nodes = <<>>)
  BY DEF IInv, DInv, DecodeFlow, Flow
<1>2. tree \in Seq(Values) /\ (pos > 0 <=> open # <<>>) /\ pos \in Nat
  BY WhileDecoding
<1>3. pos = 0 => tree = <<>> /\ open = <<>> /\ frames = <<>> /\ graph = EmptyGraph
  <2>1. pos = 0 => open = <<>>
    BY <1>2
  <2>2. pos = 0 => tree = <<>>
    BY <1>1, <1>2, NoLength
  <2>3. pos = 0 => graph = EmptyGraph /\ frames = <<>>
    BY <1>1 DEF DInv, DecodeFlow
  <2>4. QED
    BY <2>1, <2>2, <2>3
<1>4. open \in Seq(Nat)
  BY <1>2 DEF IInv, Placed, SourceShape
<1>5. CASE pos = 0
  BY <1>1, <1>3, <1>4, <1>5, NothingBuilt DEF DInv
<1>6. CASE pos # 0
  BY <1>1, <1>3, <1>4, <1>6 DEF DInv, Building
<1>7. QED
  BY <1>5, <1>6

\* Every value of a graph is a plain one.
LEMMA BuiltIsSound ==
  ASSUME Built(tree, open, graph)
  PROVE  ~Malformed /\ ~OutOfRange
<1>1. ASSUME NEW n \in DOMAIN tree
      PROVE  tree[n].kind \notin {"badnumber", "badtoken", "strange", "torn", "bigint", "huge"}
  <2>1. tree[n].kind \in Containers \cup Plain
    BY DEF Built, InGraph
  <2>2. QED
    BY <2>1 DEF Containers, Plain
<1>2. QED
  BY <1>1 DEF Malformed, OutOfRange, Holds

\* A finished graph is within every limit, and they are exact.
LEMMA FinishedIsWithin ==
  ASSUME IInv, DInv, reader = "none", graph.nodes # <<>>
  PROVE  /\ whole /\ ~Malformed /\ ~OutOfRange
         /\ ~DeeperThan(limits.depth) /\ ~MoreEntriesThan(limits.entries)
         /\ ~LongerStringThan(limits.string) /\ OutputBytes <= limits.output
         /\ RetainedBytes(graph) = OutputBytes
<1>1. /\ Built(tree, open, graph) /\ Exact(tree, open, graph) /\ Within(tree, graph)
      /\ whole /\ tree # <<>> /\ open = <<>>
      /\ limits \in [depth : Nat, entries : Nat, string : Nat, output : Nat]
      /\ tree \in Seq(Values) /\ InOrder(tree)
  BY DEF IInv, Placed, SourceShape, Flow, DInv, Building, DecodeFlow
<1>2. ToSet(open) \subseteq {}
  BY <1>1 DEF ToSet
<1>3. /\ OutputOf(tree) \in Nat /\ RetainedBytes(graph) = OutputOf(tree)
      /\ RetainedBytes(graph) <= limits.output
  BY <1>1, <1>2, OutputBounds DEF Within
<1>4. OutputBytes = OutputOf(tree)
  BY OutputIs
<1>5. ~DeeperThan(limits.depth)
  <2>1. ASSUME NEW n \in DOMAIN tree
        PROVE  ~(Depth(tree, n) > limits.depth)
    <3>1. Depth(tree, n) <= limits.depth /\ Depth(tree, n) \in Nat /\ limits.depth \in Nat
      BY <1>1, ValueShape, DepthType DEF Within
    <3>2. QED
      BY <3>1
  <2>2. QED
    BY <2>1 DEF DeeperThan
<1>6. ~MoreEntriesThan(limits.entries)
  <2>1. ASSUME NEW n \in DOMAIN tree
        PROVE  ~(Cardinality(Members(tree, n)) > limits.entries)
    <3>1. Cardinality(Members(tree, n)) <= limits.entries /\ limits.entries \in Nat
      BY <1>1 DEF Within
    <3>2. Cardinality(Members(tree, n)) \in Nat
      <4>1. Members(tree, n) \subseteq 1..Len(tree) /\ Len(tree) \in Nat
        BY <1>1 DEF Members
      <4>2. IsFiniteSet(Members(tree, n))
        BY <4>1, IntervalSize, FS_Subset
      <4>3. QED
        BY <4>2, FS_CardinalityType
    <3>3. QED
      BY <3>1, <3>2
  <2>2. QED
    BY <2>1 DEF MoreEntriesThan
<1>7. ~LongerStringThan(limits.string)
  <2>1. ASSUME NEW n \in DOMAIN tree
        PROVE  /\ tree[n].kind = "text" => ~(TextLength > limits.string)
               /\ IsField(n) => ~(tree[n].label > limits.string)
    <3>1. /\ TextLength \in Nat /\ tree[n].label \in Nat /\ limits.string \in Nat
      BY <1>1, LabelIsLength
    <3>2. /\ tree[n].kind = "text" => TextLength <= limits.string
          /\ FieldIn(tree, n) => tree[n].label <= limits.string
      BY <1>1 DEF Within
    <3>3. QED
      BY <3>1, <3>2 DEF FieldIn, IsField
  <2>2. QED
    BY <2>1 DEF LongerStringThan
<1>8. ~Malformed /\ ~OutOfRange
  BY <1>1, BuiltIsSound
<1>9. QED
  BY <1>1, <1>3, <1>4, <1>5, <1>6, <1>7, <1>8

LEMMA VerdictFollows == IInv /\ DInv => DecodeVerdictIsTrue
BY FinishedIsWithin DEF DecodeVerdictIsTrue, DInv, LimitIsTrue, Answered

\* A slice of the bytes or the edges that is inside of them.
LEMMA SliceIs ==
  ASSUME NEW S, NEW s \in Seq(S), NEW from \in Nat, NEW count \in Nat, from + count <= Len(s)
  PROVE  Slice(s, from, count) = [i \in 1..count |-> s[from + i]]
<1>1. DOMAIN s = 1..Len(s) /\ Len(s) \in Nat
  OBVIOUS
<1>2. \A i \in 1..count : from + i \in DOMAIN s
  BY <1>1
<1>3. QED
  BY <1>2 DEF Slice

LEMMA CopiedSlice ==
  ASSUME NEW b \in Seq(Int), NEW from, NEW count \in Nat, NEW n, Copied(b, from, count, n),
         NEW f, f = [i \in 1..count |-> n]
  PROVE  Slice(b, from, count) = f
<1>1. from \in Nat /\ from + count <= Len(b)
  BY DEF Copied
<1>2. Slice(b, from, count) = [i \in 1..count |-> b[from + i]]
  BY <1>1, SliceIs
<1>3. \A i \in 1..count : b[from + i] = n
  BY DEF Copied
<1>4. QED
  BY <1>2, <1>3

LEMMA FinishedIsSource == IInv /\ DInv => GraphIsSource
<1> SUFFICES ASSUME IInv, DInv, reader = "none", graph.nodes # <<>>
             PROVE  /\ Len(graph.nodes) = Len(tree)
                    /\ Len(graph.edges) = Len(tree) - 1
                    /\ \A n \in DOMAIN tree :
                         LET node == graph.nodes[n]
                         IN /\ node.kind = tree[n].kind
                            /\ node.kind = "text" =>
                                 Slice(graph.bytes, node.bytes, TextLength) =
                                   [i \in 1..TextLength |-> n]
                            /\ InAscendingOrder([i \in DOMAIN EdgesOf(n) |-> EdgesOf(n)[i].child],
                                                Members(tree, n))
                            /\ node.kind = "object" =>
                                 \A e \in ToSet(EdgesOf(n)) :
                                   Slice(graph.bytes, e.key, tree[e.child].label) =
                                     [i \in 1..tree[e.child].label |-> -e.child]
  BY DEF GraphIsSource
<1>1. /\ Built(tree, open, graph) /\ Exact(tree, open, graph) /\ open = <<>> /\ tree # <<>>
      /\ tree \in Seq(Values) /\ InOrder(tree) /\ TextLength \in Nat
  BY DecodeAssumption
     DEF IInv, Placed, SourceShape, Flow, DInv, Building, DecodeFlow, DecodeAssumption
<1>2. ToSet(open) \subseteq {}
  BY <1>1 DEF ToSet
<1>3. /\ Len(graph.nodes) = Len(tree) /\ Len(graph.edges) = Len(tree) - 1
      /\ graph.edges \in Seq(EdgeShape) /\ graph.bytes \in Seq(Int)
  BY <1>1, <1>2, EdgesBounded DEF Built
<1>4. ASSUME NEW n \in DOMAIN tree
      PROVE  LET node == graph.nodes[n]
             IN /\ node.kind = tree[n].kind
                /\ node.kind = "text" =>
                     Slice(graph.bytes, node.bytes, TextLength) = [i \in 1..TextLength |-> n]
                /\ InAscendingOrder([i \in DOMAIN EdgesOf(n) |-> EdgesOf(n)[i].child],
                                    Members(tree, n))
                /\ node.kind = "object" =>
                     \A e \in ToSet(EdgesOf(n)) :
                       Slice(graph.bytes, e.key, tree[e.child].label) =
                         [i \in 1..tree[e.child].label |-> -e.child]
  <2> DEFINE node == graph.nodes[n]
  <2>1. /\ node.kind = tree[n].kind
        /\ node.kind = "text" => Copied(graph.bytes, node.bytes, TextLength, n)
        /\ node.edges \in Nat /\ node.count \in Nat
        /\ node.edges + node.count <= Len(graph.edges)
        /\ EdgesAre(tree, graph.bytes, Ended(graph.edges, node), n)
    <3>1. InGraph(tree, open, graph, n) /\ n \notin ToSet(open)
      BY <1>1, <1>2 DEF Built
    <3>2. QED
      BY <3>1 DEF InGraph
  <2> HIDE DEF node
  <2>2. node.kind = "text" =>
          Slice(graph.bytes, node.bytes, TextLength) = [i \in 1..TextLength |-> n]
    <3> SUFFICES ASSUME node.kind = "text"
                 PROVE  Slice(graph.bytes, node.bytes, TextLength) = [i \in 1..TextLength |-> n]
      OBVIOUS
    <3>1. Copied(graph.bytes, node.bytes, TextLength, n)
      BY <2>1
    <3>2. graph.bytes \in Seq(Int) /\ TextLength \in Nat
      BY <1>1, <1>3
    <3> DEFINE f == [i \in 1..TextLength |-> n]
    <3> HIDE DEF f
    <3>3. Slice(graph.bytes, node.bytes, TextLength) = f
      BY <3>1, <3>2, CopiedSlice DEF f
    <3>4. QED
      BY <3>3 DEF f
  <2>3. EdgesOf(n) = Ended(graph.edges, node)
    <3>1. EdgesOf(n) = Slice(graph.edges, node.edges, node.count)
      BY DEF EdgesOf, node
    <3>2. Slice(graph.edges, node.edges, node.count)
            = [i \in 1..node.count |-> graph.edges[node.edges + i]]
      <4> DEFINE e == graph.edges
                 from == node.edges
                 count == node.count
      <4>1. e \in Seq(EdgeShape) /\ from \in Nat /\ count \in Nat /\ from + count <= Len(e)
        BY <1>3, <2>1
      <4> HIDE DEF e, from, count
      <4>2. Slice(e, from, count) = [i \in 1..count |-> e[from + i]]
        BY <4>1, SliceIs
      <4>3. QED
        BY <4>2 DEF e, from, count
    <3>3. QED
      BY <3>1, <3>2 DEF Ended
  <2>4. InAscendingOrder([i \in DOMAIN EdgesOf(n) |-> EdgesOf(n)[i].child], Members(tree, n))
    BY <2>1, <2>3 DEF EdgesAre
  <2>5. ASSUME node.kind = "object", NEW e \in ToSet(EdgesOf(n))
        PROVE  Slice(graph.bytes, e.key, tree[e.child].label) =
                 [i \in 1..tree[e.child].label |-> -e.child]
    <3> DEFINE s == Ended(graph.edges, node)
    <3>1. PICK i \in DOMAIN s : e = s[i]
      BY <2>3, <2>5 DEF ToSet
    <3>2. KeyCopied(tree, graph.bytes, e)
      BY <2>1, <3>1 DEF EdgesAre
    <3>3. e.child \in Members(tree, n)
      <4> DEFINE children == [k \in DOMAIN s |-> s[k].child]
      <4>1. ToSet(children) = Members(tree, n)
        BY <2>1 DEF EdgesAre, InAscendingOrder
      <4>2. i \in DOMAIN children /\ children[i] = e.child
        BY <3>1
      <4> HIDE DEF children
      <4>3. QED
        BY <4>1, <4>2 DEF ToSet
    <3>4. e.child \in DOMAIN tree /\ tree[e.child].up = n /\ n \in 1..Len(tree)
      BY <1>1, <3>3, ValueShape DEF Members
    <3>5. FieldIn(tree, e.child)
      <4>1. tree[n].kind = "object" /\ n # 0
        BY <2>1, <2>5, <3>4
      <4>2. tree[e.child].up = n
        BY <3>4
      <4>3. QED
        BY Zenon, <4>1, <4>2 DEF FieldIn
    <3>6. Copied(graph.bytes, e.key, tree[e.child].label, -e.child) /\ tree[e.child].label \in Nat
      BY <1>1, <3>2, <3>4, <3>5, LabelIsLength DEF KeyCopied
    <3> DEFINE f == [k \in 1..tree[e.child].label |-> -e.child]
    <3> HIDE DEF f
    <3>7. Slice(graph.bytes, e.key, tree[e.child].label) = f
      BY <1>3, <3>6, CopiedSlice DEF f
    <3>8. QED
      BY <3>7 DEF f
  <2>6. QED
    BY <2>1, <2>2, <2>4, <2>5 DEF node
<1>5. QED
  BY <1>3, <1>4

-----------------------------------------------------------------------------
(* The decoder reads one more value. *)

LEMMA NextValue ==
  ASSUME IInv, DInv, reader = "materializer", Fetch
  PROVE  /\ Grown(tree, tree') /\ pos' = Len(tree') /\ pos' = Len(tree) + 1 /\ pos' \in Nat
         /\ tree'[Len(tree')].up = Parent /\ (Parent = 0 \/ Parent \in ToSet(open))
         /\ Parent = 0 <=> open = <<>>
         /\ open # <<>> => Parent = Last(open)
         /\ Depth(tree', Len(tree')) = Len(open) + 1 /\ Len(open) \in Nat
         /\ tree'[Len(tree')].kind \in Containers \cup Leaves \cup {"torn"}
         /\ (pos = 0 <=> open = <<>>) /\ tail' = tail
<1>1. /\ Placed /\ (pos > 0 <=> open # <<>>) /\ Look /\ pos' = pos + 1 /\ pos = Len(tree)
      /\ tree \in Seq(Values) /\ pos \in Nat /\ SourceShape
  BY WhileDecoding, WhileBuilding DEF Fetch, Placed
<1>2. /\ tree' \in Seq(Values) /\ Len(tree') = pos + 1 /\ InOrder(tree') /\ tail' = tail
      /\ \A m \in 1..Len(tree) : tree'[m] = tree[m]
      /\ tree'[pos + 1].up = Parent /\ pos + 1 \in 1..Len(tree')
  BY <1>1, Looked
<1>3. Depth(tree', pos + 1) = Len(open) + 1
  BY <1>1, DepthOfNext
<1>4. /\ (Parent = 0 <=> open = <<>>)
      /\ open # <<>> => Parent = Last(open) /\ Parent = open[Len(open)] /\ Len(open) \in DOMAIN open
  BY <1>1, ParentShape
<1>5. Parent = 0 \/ Parent \in ToSet(open)
  BY <1>4 DEF ToSet
<1>6. tree'[pos + 1].kind \in Containers \cup Leaves \cup {"torn"} /\ Len(open) \in Nat
  BY <1>1, <1>2, ValueShape DEF SourceShape
<1>7. Grown(tree, tree')
  BY <1>1, <1>2 DEF Grown
<1>8. QED
  BY <1>1, <1>2, <1>3, <1>4, <1>5, <1>6, <1>7

\* What the graph takes on the way.
LEMMA RetainedNext ==
  ASSUME NEW u \in Seq(Values), Len(u) \in DOMAIN u, NEW g \in Graphs
  PROVE  LET n == Len(u)
             k == Keyed(u, g)
             w == WithText(k, n, u[n].kind)
         IN /\ RetainedBytes(g) \in Nat
            /\ RetainedBytes(k) = RetainedBytes(g) + (IF FieldIn(u, n) THEN u[n].label ELSE 0)
            /\ RetainedBytes(w) = RetainedBytes(g) + BytesIn(u, n)
            /\ RetainedBytes(Next1(u, g)) = RetainedBytes(w) + NodeBytes
<1> DEFINE n == Len(u)
           k == Keyed(u, g)
           w == WithText(k, n, u[n].kind)
           h == Next1(u, g)
           v == [kind |-> u[n].kind, bytes |-> Len(k.bytes), edges |-> 0, count |-> 0]
<1>1. /\ k \in Graphs /\ k.nodes = g.nodes /\ k.edges = g.edges
      /\ Len(k.bytes) = Len(g.bytes) + (IF FieldIn(u, n) THEN u[n].label ELSE 0)
  BY KeyedShape
<1>2. n \in Nat /\ u[n].label \in Nat /\ TextLength \in Nat
  BY LabelIsLength
<1>3. /\ w \in Graphs /\ w.nodes = k.nodes /\ w.edges = k.edges
      /\ Len(w.bytes) = Len(k.bytes) + (IF u[n].kind = "text" THEN TextLength ELSE 0)
  <2>1. n \in Int /\ k \in Graphs
    BY <1>1, <1>2
  <2> HIDE DEF k, n
  <2>2. QED
    BY <2>1, WithTextShape
<1>4. h = [w EXCEPT !.nodes = Append(@, v)]
  BY DEF Next1, Opened, AppendNode
<1> HIDE DEF h, w, k, v
<1>5. h.edges = w.edges /\ h.bytes = w.bytes /\ h.nodes = Append(w.nodes, v)
  BY <1>3, <1>4 DEF Graphs
<1>6. Len(h.nodes) = Len(w.nodes) + 1 /\ Len(w.nodes) \in Nat
  BY <1>3, <1>5 DEF Graphs
<1>7. NodeBytes \in Nat /\ EdgeBytes \in Nat
  BY DecodeAssumption DEF DecodeAssumption
<1>8. Len(g.nodes) \in Nat /\ Len(g.edges) \in Nat /\ Len(g.bytes) \in Nat
  BY DEF Graphs
<1> DEFINE a == Len(g.nodes) * NodeBytes
           b == Len(g.edges) * EdgeBytes
           c == Len(h.nodes) * NodeBytes
<1>9. a \in Nat /\ b \in Nat /\ c = a + NodeBytes
  BY <1>1, <1>3, <1>6, <1>7, <1>8, ProductGrows
<1>10. /\ RetainedBytes(g) = a + b + Len(g.bytes)
       /\ RetainedBytes(k) = a + b + Len(k.bytes)
       /\ RetainedBytes(w) = a + b + Len(w.bytes)
       /\ RetainedBytes(h) = c + b + Len(w.bytes)
  BY <1>1, <1>3, <1>5 DEF RetainedBytes
<1> DEFINE x == IF FieldIn(u, n) THEN u[n].label ELSE 0
           y == IF u[n].kind = "text" THEN TextLength ELSE 0
           gb == Len(g.bytes)
           kb == Len(k.bytes)
           wb == Len(w.bytes)
<1>11. x \in Nat /\ y \in Nat /\ BytesIn(u, n) = y + x
  BY <1>2 DEF BytesIn
<1>12. gb \in Nat /\ kb = gb + x /\ wb = kb + y
  BY <1>1, <1>3, <1>8
<1> HIDE DEF a, b, c
<1>13. /\ RetainedBytes(g) = a + b + gb /\ RetainedBytes(k) = a + b + kb
       /\ RetainedBytes(w) = a + b + wb /\ RetainedBytes(h) = c + b + wb
  BY <1>10
<1> HIDE DEF x, y, gb, kb, wb
<1>14. /\ RetainedBytes(g) \in Nat /\ RetainedBytes(k) = RetainedBytes(g) + x
       /\ RetainedBytes(w) = RetainedBytes(g) + BytesIn(u, n)
       /\ RetainedBytes(h) = RetainedBytes(w) + NodeBytes
  BY <1>7, <1>9, <1>11, <1>12, <1>13
<1>15. QED
  BY <1>14 DEF h, w, k, x

LEMMA WithinGrown ==
  ASSUME DecodeFlow, NEW t, NEW u, Grown(t, u), NEW g, Within(t, g),
         NEW h, RetainedBytes(h) <= limits.output,
         Depth(u, Len(u)) <= limits.depth,
         u[Len(u)].up # 0 => Cardinality(Members(u, u[Len(u)].up)) <= limits.entries,
         u[Len(u)].kind = "text" => TextLength <= limits.string,
         FieldIn(u, Len(u)) => u[Len(u)].label <= limits.string
  PROVE  Within(u, h)
<1> DEFINE n == Len(u)
<1>1. /\ DOMAIN u = DOMAIN t \cup {n} /\ DOMAIN t = 1..Len(t) /\ Len(t) \in Nat
      /\ \A m \in 1..Len(t) : u[m] = t[m]
  BY GrownShape DEF Grown
<1>2. ASSUME NEW m \in DOMAIN u
      PROVE  Depth(u, m) <= limits.depth
  <2>1. CASE m = n
    BY <2>1
  <2>2. CASE m \in DOMAIN t
    <3>1. m \in Nat /\ \A i \in 1..m : t[i] = u[i]
      <4>1. m \in 1..Len(t) /\ Len(t) \in Nat
        BY <1>1, <2>2
      <4>2. \A i \in 1..m : i \in 1..Len(t)
        BY <4>1
      <4>3. m \in Nat
        BY <4>1
      <4>4. QED
        BY Zenon, <1>1, <4>2, <4>3
    <3>2. Depth(t, m) = Depth(u, m)
      BY <3>1, DepthKept
    <3>3. QED
      BY <2>2, <3>2 DEF Within
  <2>3. QED
    BY <1>1, <2>1, <2>2
<1>3. ASSUME NEW m \in DOMAIN u
      PROVE  Cardinality(Members(u, m)) <= limits.entries
  <2>1. m \in Nat /\ m # 0 /\ u[n].up \in Nat /\ u[n].up < n
    <3>1. n \in DOMAIN u
      BY GrownShape
    <3>2. QED
      BY <3>1, GrownEach
  <2>2. CASE m = u[n].up
    BY <2>1, <2>2
  <2>3. CASE m # u[n].up /\ m # n
    <3>1. Members(u, m) = Members(t, m) /\ m \in DOMAIN t
      BY <1>1, <2>3, MembersGrown
    <3>2. QED
      BY <3>1 DEF Within
  <2>4. CASE m = n
    <3>1. Members(u, m) = {}
      BY <2>4, MembersGrown
    <3>2. limits.entries \in Nat
      BY DEF DecodeFlow
    <3>3. QED
      BY <3>1, <3>2, FS_EmptySet
  <2>5. QED
    BY <2>2, <2>3, <2>4
<1>4. ASSUME NEW m \in DOMAIN u
      PROVE  /\ u[m].kind = "text" => TextLength <= limits.string
             /\ FieldIn(u, m) => u[m].label <= limits.string
  <2>1. CASE m = n
    BY <2>1
  <2>2. CASE m \in DOMAIN t
    <3>1. FieldIn(u, m) = FieldIn(t, m) /\ u[m] = t[m]
      BY <1>1, <2>2, FieldKept
    <3>2. QED
      BY <2>2, <3>1 DEF Within
  <2>3. QED
    BY <1>1, <2>1, <2>2
<1>5. QED
  BY <1>2, <1>3, <1>4 DEF Within

\* The value is accepted: it is in the graph.
LEMMA ValueAdded ==
  ASSUME IInv, DInv, reader = "materializer", Fetch,
         tree'[Len(tree')].kind \in Containers \cup Plain,
         tree'[Len(tree')].kind = "text" => ~(TextLength > limits.string),
         FieldIn(tree', Len(tree')) => ~(tree'[Len(tree')].label > limits.string),
         ~(Len(open) + 1 > limits.depth),
         open # <<>> => ~(Len(Last(frames).edges) >= limits.entries),
         BudgetAllows(WithText(Keyed(tree', graph), Len(tree'), tree'[Len(tree')].kind), NodeBytes),
         NEW p, p = open \/ p = Append(open, Len(tree'))
  PROVE  /\ Built(tree', p, Next1(tree', graph)) /\ Exact(tree', p, Next1(tree', graph))
         /\ Within(tree', Next1(tree', graph))
         /\ Len(graph.nodes) + 1 = Len(tree')
         /\ Next1(tree', graph).nodes # <<>>
<1> DEFINE u == tree'
           n == Len(u)
           h == Next1(u, graph)
<1>1. /\ Grown(tree, u) /\ u[n].up = Parent /\ (Parent = 0 \/ Parent \in ToSet(open))
      /\ (Parent = 0 <=> open = <<>>) /\ (open # <<>> => Parent = Last(open))
      /\ Depth(u, n) = Len(open) + 1 /\ Len(open) \in Nat
  BY NextValue
<1>2. /\ Built(tree, open, graph) /\ Exact(tree, open, graph)
      /\ Framed(tree, open, graph, frames) /\ Within(tree, graph) /\ open \in Seq(Nat)
      /\ DecodeFlow /\ limits \in [depth : Nat, entries : Nat, string : Nat, output : Nat]
      /\ tree \in Seq(Values)
  BY WhileBuilding, WhileDecoding DEF DInv, DecodeFlow
<1>3. /\ u \in Seq(Values) /\ n \in DOMAIN u /\ graph \in Graphs /\ Len(graph.nodes) = Len(tree)
      /\ n = Len(tree) + 1 /\ Len(tree) \in Nat
  BY <1>1, <1>2, GrownShape, BuiltIsGraph DEF Grown
<1>4. Built(u, p, h) /\ Exact(u, p, h)
  BY <1>1, <1>2, BuiltGrown, ExactGrown
<1>5. RetainedBytes(h) <= limits.output
  <2> DEFINE w == WithText(Keyed(u, graph), n, u[n].kind)
  <2>1. /\ RetainedBytes(graph) \in Nat
        /\ RetainedBytes(w) = RetainedBytes(graph) + BytesIn(u, n)
        /\ RetainedBytes(h) = RetainedBytes(w) + NodeBytes
    BY <1>3, RetainedNext
  <2>2. RetainedBytes(w) + NodeBytes <= limits.output
    BY DEF BudgetAllows
  <2>3. QED
    BY <2>1, <2>2
<1>6. u[n].up # 0 => Cardinality(Members(u, u[n].up)) <= limits.entries
  <2> SUFFICES ASSUME u[n].up # 0
               PROVE  Cardinality(Members(u, Parent)) <= limits.entries
    BY <1>1
  <2>1. open # <<>> /\ Parent = Last(open)
    BY <1>1
  <2>2. EdgesAre(tree, graph.bytes, Last(frames).edges, Parent)
    <3>1. /\ Len(frames) = Len(open) /\ Len(open) \in DOMAIN open /\ Last(open) = open[Len(open)]
          /\ EdgesAre(tree, graph.bytes, frames[Len(open)].edges, open[Len(open)])
      <4>1. Len(open) \in DOMAIN open /\ Last(open) = open[Len(open)]
        BY <1>2, <2>1, LastIs
      <4>2. QED
        BY <1>2, <4>1 DEF Framed
    <3>2. Last(frames) = frames[Len(frames)]
      BY DEF Last
    <3>3. QED
      BY <2>1, <3>1, <3>2
  <2>3. /\ Len(Last(frames).edges) = Cardinality(Members(tree, Parent))
        /\ Len(Last(frames).edges) \in Nat
        /\ IsFiniteSet(Members(tree, Parent))
    BY <1>2, <2>2, EdgesCounted
  <2>4. Members(u, Parent) = Members(tree, Parent) \cup {n} /\ n \notin Members(tree, Parent)
    BY <1>1, <1>3, MembersGrown
  <2>5. Cardinality(Members(u, Parent)) = Len(Last(frames).edges) + 1
    BY <2>3, <2>4, FS_AddElement
  <2>6. limits.entries \in Nat
    BY <1>2
  <2>7. QED
    BY <2>1, <2>3, <2>5, <2>6
<1>7. /\ Depth(u, n) <= limits.depth
      /\ u[n].kind = "text" => TextLength <= limits.string
      /\ FieldIn(u, n) => u[n].label <= limits.string
  <2>1. limits.depth \in Nat /\ limits.string \in Nat
    BY <1>2
  <2>2. u[n].label \in Nat /\ TextLength \in Nat
    BY <1>3, LabelIsLength
  <2>3. QED
    BY <1>1, <2>1, <2>2
<1>8. Within(u, h)
  <2> HIDE DEF h, u
  <2>1. QED
    BY <1>1, <1>2, <1>5, <1>6, <1>7, WithinGrown
<1>9. Len(h.nodes) = n /\ h.nodes \in Seq(NodeShape)
  BY <1>4 DEF Built
<1>10. h.nodes # <<>>
  BY <1>3, <1>9
<1>11. QED
  BY <1>3, <1>4, <1>8, <1>10

-----------------------------------------------------------------------------
(* The steps of the decoder. *)

LEMMA DecodeFails ==
  ASSUME IInv, DInv, reader = "materializer", NEW code, FailDecode(code),
         UNCHANGED <<limits, consumed, op>>, pos' = Len(tree'),
         code = "max_depth_exceeded" => DeeperThan(limits.depth)',
         code = "max_container_entries_exceeded" => MoreEntriesThan(limits.entries)',
         code = "max_string_bytes_exceeded" => LongerStringThan(limits.string)',
         code = "max_output_bytes_exceeded" => (OutputBytes > limits.output)'
  PROVE  DInv'
<1>1. reader' = "none" /\ status'.code = code /\ graph' = EmptyGraph /\ frames' = <<>>
  BY FailedDecode DEF FailDecode
<1>2. graph'.nodes = <<>>
  BY <1>1 DEF EmptyGraph
<1>3. DecodeFlow'
  BY <1>1, <1>2 DEF DInv, DecodeFlow, ConfigValid
<1>4. Building'
  BY <1>2 DEF Building
<1>5. LimitIsTrue'
  BY <1>1 DEF LimitIsTrue
<1>6. QED
  BY <1>3, <1>4, <1>5 DEF DInv

LEMMA StillBuilding ==
  ASSUME IInv, DInv, reader = "materializer", UNCHANGED <<limits, consumed, op>>,
         pos' = Len(tree'), pos' \in Nat \ {0}, graph'.nodes # <<>>,
         reader' = "none" => status'.code = "ok" /\ whole',
         Built(tree', open', graph'), Exact(tree', open', graph'),
         Framed(tree', open', graph', frames'), Within(tree', graph')
  PROVE  DInv'
<1>1. op = "decode"
  BY DEF IInv, Flow
<1>2. tree' # <<>>
  OBVIOUS
<1>3. DecodeFlow'
  BY <1>1, <1>2 DEF DInv, DecodeFlow, ConfigValid
<1>4. Building'
  BY DEF Building, Within
<1>5. LimitIsTrue'
  BY DEF LimitIsTrue, Answered
<1>6. QED
  BY <1>3, <1>4, <1>5 DEF DInv

LEMMA InterruptBuilt ==
  ASSUME IInv, DInv, InterruptDecode, UNCHANGED op
  PROVE  DInv'
<1>1. /\ reader = "materializer" /\ UNCHANGED <<limits, consumed, tree, pos>>
      /\ \E code \in {"out_of_memory", "cancelled"} : FailDecode(code)
  BY DEF InterruptDecode, Decoding
<1>2. pos' = Len(tree')
  BY <1>1, WhileBuilding
<1>3. QED
  BY <1>1, <1>2, DecodeFails

\* What the checks of a value blame on a limit is there.
LEMMA OpeningBlamed ==
  ASSUME IInv, DInv, reader = "materializer", Fetch, limits' = limits,
         NEW isRoot, NEW n, n = Len(tree'),
         NEW c \in OpenCheckSet(Keyed(tree', graph), n, tree'[n].kind, isRoot), c[1]
  PROVE  /\ c[2] = "max_string_bytes_exceeded" => LongerStringThan(limits.string)'
         /\ c[2] = "max_output_bytes_exceeded" => (OutputBytes > limits.output)'
         /\ c[2] \notin {"max_depth_exceeded", "max_container_entries_exceeded"}
<1> DEFINE u == tree'
           k == Keyed(u, graph)
           w == WithText(k, n, u[n].kind)
<1>1. /\ Grown(tree, u) /\ Built(tree, open, graph) /\ Exact(tree, open, graph)
      /\ InOrder(tree) /\ tree \in Seq(Values)
      /\ limits \in [depth : Nat, entries : Nat, string : Nat, output : Nat]
  BY NextValue, WhileBuilding DEF IInv, Placed, SourceShape, DInv, DecodeFlow
<1>2. u \in Seq(Values) /\ n \in DOMAIN u /\ n \in Nat /\ graph \in Graphs
  BY <1>1, GrownShape, BuiltIsGraph DEF Grown
<1>3. /\ RetainedBytes(graph) \in Nat
      /\ RetainedBytes(k) = RetainedBytes(graph) + (IF FieldIn(u, n) THEN u[n].label ELSE 0)
      /\ RetainedBytes(w) = RetainedBytes(graph) + BytesIn(u, n)
  BY <1>2, RetainedNext
<1>4. RetainedBytes(graph) + BytesIn(u, n) + NodeBytes <= OutputOf(u) /\ OutputOf(u) \in Nat
  BY <1>1, OutputGrows
<1>5. OutputBytes' = OutputOf(u)
  BY OutputIs DEF OutputBytes, OutputOf, AllBytes, BytesIn, FieldIn, IsField
<1>6. u[n].label \in Nat /\ TextLength \in Nat /\ BytesIn(u, n) \in Nat /\ NodeBytes \in Nat
  BY <1>2, LabelIsLength, DecodeAssumption DEF DecodeAssumption
<1> HIDE DEF k, w
<1>7. /\ c[2] = "max_string_bytes_exceeded" => u[n].kind = "text" /\ TextLength > limits.string
      /\ c[2] = "max_output_bytes_exceeded" =>
           \/ u[n].kind = "text" /\ ~BudgetAllows(k, TextLength)
           \/ ~BudgetAllows(w, NodeBytes)
      /\ c[2] \notin {"max_depth_exceeded", "max_container_entries_exceeded"}
  BY OpenChecksLimit DEF k, w
<1>8. u[n].kind = "text" /\ ~BudgetAllows(k, TextLength) => OutputOf(u) > limits.output
  <2> DEFINE x == IF FieldIn(u, n) THEN u[n].label ELSE 0
  <2> SUFFICES ASSUME u[n].kind = "text", ~BudgetAllows(k, TextLength)
               PROVE  OutputOf(u) > limits.output
    OBVIOUS
  <2>1. x \in Nat /\ BytesIn(u, n) = TextLength + x /\ RetainedBytes(k) = RetainedBytes(graph) + x
    BY <1>3, <1>6 DEF BytesIn
  <2>2. ~(RetainedBytes(k) + TextLength <= limits.output) /\ limits.output \in Nat
    BY <1>1 DEF BudgetAllows
  <2>3. RetainedBytes(graph) \in Nat /\ ~(RetainedBytes(k) + TextLength <= limits.output)
    BY <1>3, <2>2
  <2> HIDE DEF x
  <2>4. QED
    BY <1>4, <1>6, <2>1, <2>2, <2>3
<1>9. ~BudgetAllows(w, NodeBytes) => OutputOf(u) > limits.output
  BY <1>1, <1>3, <1>4, <1>6 DEF BudgetAllows
<1>10. u[n].kind = "text" /\ TextLength > limits.string => LongerStringThan(limits.string)'
  BY <1>2 DEF LongerStringThan
<1>11. QED
  BY <1>5, <1>7, <1>8, <1>9, <1>10

LEMMA RootBuilt ==
  ASSUME IInv, DInv, OpenRoot, UNCHANGED op
  PROVE  DInv'
<1> DEFINE kind == tree'[1].kind
           checks == OpenChecks(graph, 1, kind, TRUE)
           S == OpenCheckSet(graph, 1, kind, TRUE)
<1>1. /\ reader = "materializer" /\ UNCHANGED <<consumed, limits>> /\ pos = 0 /\ Fetch /\ Look
      /\ \/ \E st : (st = FirstFailure(checks) \/ st = "malformed") /\ FailDecode(st)
         \/ /\ FirstFailure(checks) = "ok" /\ graph' = Opened(graph, 1, kind)
            /\ IF kind \in Containers
               THEN /\ Descend /\ Continue
                    /\ frames' = <<[node |-> 1, edges |-> <<>>]>>
               ELSE Return(Ok) /\ UNCHANGED frames
  BY DEF OpenRoot, Decoding, Fetch, DecodeCode
<1>2. /\ tree = <<>> /\ open = <<>> /\ frames = <<>> /\ graph = EmptyGraph /\ Len(tree) = 0
      /\ pos' = 1 /\ Len(tree') = 1 /\ Grown(tree, tree') /\ tree'[1].up = 0 /\ Len(open) = 0
      /\ kind \in Containers \cup Leaves \cup {"torn"}
  <2>1. tree = <<>> /\ open = <<>> /\ frames = <<>> /\ graph = EmptyGraph
    BY <1>1, WhileBuilding
  <2>2. Len(tree) = 0 /\ Len(open) = 0
    BY <2>1
  <2>3. /\ pos' = Len(tree) + 1 /\ pos' = Len(tree') /\ Grown(tree, tree')
        /\ tree'[Len(tree')].up = Parent /\ (Parent = 0 <=> open = <<>>)
        /\ tree'[Len(tree')].kind \in Containers \cup Leaves \cup {"torn"}
    BY <1>1, NextValue
  <2>4. pos' = 1 /\ Len(tree') = 1
    BY <2>2, <2>3
  <2>5. QED
    BY <2>1, <2>2, <2>3, <2>4
<1>3. ~FieldIn(tree', 1) /\ Keyed(tree', graph) = graph
  BY <1>2 DEF FieldIn, Keyed
<1>4. checks \in Seq(S)
  BY OpenChecksMade
<1>6. ASSUME NEW st, st = FirstFailure(checks) \/ st = "malformed", FailDecode(st)
      PROVE  DInv'
  <2>1. /\ st = "max_string_bytes_exceeded" => LongerStringThan(limits.string)'
        /\ st = "max_output_bytes_exceeded" => (OutputBytes > limits.output)'
        /\ st \notin {"max_depth_exceeded", "max_container_entries_exceeded"}
    <3>1. CASE st = FirstFailure(checks) /\ st # "ok"
      <4>1. PICK c \in S : c[1] /\ c[2] = st
        <5> HIDE DEF checks, S
        <5>1. QED
          BY <1>4, <3>1, FailureIsNamed
      <4>2. QED
        BY <1>1, <1>2, <1>3, <4>1, OpeningBlamed
    <3>2. CASE st \in {"ok", "malformed"}
      BY <3>2
    <3>3. QED
      BY <1>6, <3>1, <3>2
  <2> HIDE DEF checks, S
  <2>2. QED
    BY <1>1, <1>2, <1>6, <2>1, DecodeFails
<1>7. CASE /\ FirstFailure(checks) = "ok" /\ graph' = Opened(graph, 1, kind)
           /\ IF kind \in Containers
              THEN /\ Descend /\ Continue
                   /\ frames' = <<[node |-> 1, edges |-> <<>>]>>
              ELSE Return(Ok) /\ UNCHANGED frames
  <2>1. \A c \in S : c[1] => c[2] # "ok"
    BY OpenChecksLimit
  <2>2. Passed(checks)
    <3> HIDE DEF checks, S
    <3>1. QED
      BY <1>4, <1>7, <2>1, NoFailure
  <2>3. /\ kind \in Containers \cup Plain
        /\ kind = "text" => ~(TextLength > limits.string)
        /\ BudgetAllows(WithText(graph, 1, kind), NodeBytes)
    BY <1>2, <2>2, OpenChecksPass
  <2>4. ~(Len(open) + 1 > limits.depth)
    <3>1. limits.depth \in 1..MaxDepth /\ MaxDepth \in Nat
      BY <1>1, SourceAssumption DEF IInv, Flow, DInv, DecodeFlow, ConfigValid, SourceAssumption
    <3>2. QED
      BY <1>2, <3>1
  <2> DEFINE h == Next1(tree', graph)
  <2>5. graph' = h
    BY <1>1, <1>2, <1>3, <1>7 DEF Next1
  <2>6. /\ \A p : p = open \/ p = Append(open, Len(tree')) =>
             Built(tree', p, h) /\ Exact(tree', p, h) /\ Within(tree', h)
        /\ h.nodes # <<>>
    <3>1. ASSUME NEW p, p = open \/ p = Append(open, Len(tree'))
          PROVE  /\ Built(tree', p, h) /\ Exact(tree', p, h) /\ Within(tree', h)
                 /\ h.nodes # <<>>
      BY <1>1, <1>2, <1>3, <2>3, <2>4, <3>1, ValueAdded
    <3>2. QED
      BY <3>1
  <2>7. Framed(tree', <<>>, h, <<>>)
    BY EmptySeq DEF Framed
  <2> HIDE DEF h
  <2>8. CASE kind \in Containers
    <3>1. /\ open' = Append(open, 1) /\ reader' = reader
          /\ frames' = <<[node |-> 1, edges |-> <<>>]>>
      BY <1>1, <1>2, <1>7, <2>8 DEF Descend, Continue
    <3>2. Framed(tree', Append(<<>>, 1), h, Append(<<>>, [node |-> 1, edges |-> <<>>]))
      <4>1. Members(tree', 1) = {}
        BY <1>2, MembersGrown
      <4>2. <<>> \in Seq(Nat)
        BY EmptySeq
      <4>3. QED
        BY <2>7, <4>1, <4>2, FrameAdded
    <3>3. frames' = Append(<<>>, [node |-> 1, edges |-> <<>>])
      BY <3>1
    <3>4. QED
      BY <1>1, <1>2, <2>5, <2>6, <3>1, <3>2, <3>3, StillBuilding
  <2>9. CASE kind \notin Containers
    <3>1. open' = <<>> /\ reader' = "none" /\ status'.code = "ok" /\ frames' = frames /\ whole'
      <4>1. open' = <<>> /\ reader' = "none" /\ status'.code = "ok" /\ frames' = frames
        BY <1>1, <1>7, <2>9 DEF Return, Ok
      <4>2. tree'[pos + 1].kind \notin Containers
        BY <1>1, <2>9
      <4>3. QED
        BY <1>1, <1>2, <4>1, <4>2 DEF Look
    <3>2. QED
      BY <1>1, <1>2, <2>5, <2>6, <2>7, <3>1, StillBuilding
  <2>10. QED
    BY <2>8, <2>9
<1>8. QED
  BY <1>1, <1>6, <1>7

\* The new value is a field when its container is an object.
LEMMA ChildIsField ==
  ASSUME IInv, DInv, reader = "materializer", Fetch, pos > 0
  PROVE  /\ FieldIn(tree', Len(tree')) <=> tree[Last(open)].kind = "object"
         /\ Parent = Last(open) /\ open # <<>>
<1>1. /\ Grown(tree, tree') /\ tree'[Len(tree')].up = Parent /\ open # <<>> /\ Parent = Last(open)
      /\ Parent # 0
  <2>1. pos # 0
    BY WhileDecoding
  <2>2. QED
    BY <2>1, NextValue
<1>2. Last(open) \in DOMAIN tree
  <2>1. open \in Seq(1..pos) /\ pos = Len(tree) /\ DOMAIN tree = 1..Len(tree)
    BY WhileDecoding, WhileBuilding DEF Placed, SourceShape
  <2>2. Last(open) \in 1..pos
    BY <1>1, <2>1, FrontAndLast
  <2>3. QED
    BY <2>1, <2>2
<1>3. tree'[Last(open)] = tree[Last(open)]
  BY <1>1, <1>2, GrownOld
<1>4. QED
  BY <1>1, <1>3 DEF FieldIn

\* A container that is full gets one more entry.
LEMMA FullBlamed ==
  ASSUME IInv, DInv, reader = "materializer", Fetch, pos > 0, limits' = limits,
         Len(Last(frames).edges) >= limits.entries
  PROVE  MoreEntriesThan(limits.entries)'
<1>1. /\ Grown(tree, tree') /\ tree'[Len(tree')].up = Parent
      /\ open # <<>> /\ Parent = Last(open) /\ Parent # 0
  <2>1. pos # 0
    BY WhileDecoding
  <2>2. QED
    BY <2>1, NextValue
<1>2. /\ Framed(tree, open, graph, frames) /\ open \in Seq(Nat) /\ tree \in Seq(Values)
      /\ limits.entries \in Nat
  BY WhileBuilding, WhileDecoding DEF DInv, DecodeFlow
<1>3. EdgesAre(tree, graph.bytes, Last(frames).edges, Parent)
  <2>1. Len(open) \in DOMAIN open /\ Last(open) = open[Len(open)]
    BY <1>1, <1>2, LastIs
  <2>2. /\ Len(frames) = Len(open)
        /\ EdgesAre(tree, graph.bytes, frames[Len(open)].edges, open[Len(open)])
    BY <1>2, <2>1 DEF Framed
  <2>3. Last(frames) = frames[Len(frames)]
    BY DEF Last
  <2>4. QED
    BY <1>1, <2>1, <2>2, <2>3
<1>4. /\ Len(Last(frames).edges) = Cardinality(Members(tree, Parent))
      /\ Len(Last(frames).edges) \in Nat /\ IsFiniteSet(Members(tree, Parent))
  BY <1>2, <1>3, EdgesCounted
<1>5. /\ Members(tree', Parent) = Members(tree, Parent) \cup {Len(tree')}
      /\ Len(tree') \notin Members(tree, Parent)
  <2>1. Members(tree', Parent) = Members(tree, Parent) \cup {Len(tree')}
    BY <1>1, MembersGrown
  <2>2. Len(tree') \notin DOMAIN tree
    BY <1>1, GrownShape
  <2>3. QED
    BY <2>1, <2>2 DEF Members
<1>6. Cardinality(Members(tree', Parent)) = Len(Last(frames).edges) + 1
  BY <1>4, <1>5, FS_AddElement
<1>7. Parent \in DOMAIN tree'
  <2>1. Len(tree') \in DOMAIN tree' /\ tree'[Len(tree')].up # 0
    BY <1>1, GrownShape
  <2>2. tree'[Len(tree')].up \in DOMAIN tree'
    BY <1>1, <2>1, GrownEach
  <2>3. QED
    BY <1>1, <2>2
<1>8. Cardinality(Members(tree', Parent)) > limits.entries
  BY <1>2, <1>4, <1>6
<1> DEFINE p == Parent
<1> HIDE DEF p
<1>9. p \in DOMAIN tree' /\ Cardinality(Members(tree', p)) > limits'.entries
  BY <1>7, <1>8 DEF p
<1>10. QED
  BY <1>9 DEF MoreEntriesThan

LEMMA ChildBuilt ==
  ASSUME IInv, DInv, ReadChild, UNCHANGED op
  PROVE  DInv'
<1> DEFINE n == Len(tree')
           child == tree'[n]
           isField == FieldIn(tree', n)
           keyed == Keyed(tree', graph)
           entries == Last(frames).edges
           c1 == <<Len(entries) >= limits.entries, "max_container_entries_exceeded">>
           c2 == <<child.kind = "torn", DecodeCode("TAPE_ERROR")>>
           c3 == <<child.label > limits.string, "max_string_bytes_exceeded">>
           c4 == <<~BudgetAllows(graph, child.label), "max_output_bytes_exceeded">>
           c5 == <<Len(open) + 1 > limits.depth, "max_depth_exceeded">>
           key == IF isField THEN <<c3, c4>> ELSE <<>>
           made == OpenChecks(keyed, n, child.kind, FALSE)
           checks == <<c1, c2>> \o key \o <<c5>> \o made
           late == OpenCheckSet(keyed, n, child.kind, FALSE)
           S == {c1, c2, c5} \cup (IF isField THEN {c3, c4} ELSE {})
                  \cup late
           new == Len(graph.nodes) + 1
           edge == [key |-> IF isField THEN Len(graph.bytes) ELSE -1, child |-> new]
           held == [frames EXCEPT ![Len(frames)].edges = Append(@, edge)]
<1>1. /\ reader = "materializer" /\ UNCHANGED <<consumed, limits>> /\ pos > 0 /\ Fetch
  BY DEF ReadChild, Decoding
<1>2. /\ pos' = n /\ n = Len(tree) + 1 /\ n \in Nat \ {0} /\ Grown(tree, tree')
      /\ child.up = Parent /\ Len(open) \in Nat /\ Depth(tree', n) = Len(open) + 1
      /\ child.kind \in Containers \cup Leaves \cup {"torn"}
      /\ open # <<>> /\ Parent = Last(open)
      /\ isField <=> tree[Last(open)].kind = "object"
  <2>1. n = Len(tree) + 1 /\ Len(tree) \in Nat
    BY <1>1, NextValue, GrownShape
  <2>2. QED
    BY <1>1, <2>1, NextValue, ChildIsField
<1>3. IF FirstFailure(checks) # "ok" THEN FailDecode(FirstFailure(checks))
      ELSE /\ graph' = Opened(keyed, n, child.kind)
           /\ Continue
           /\ IF child.kind \in Containers
              THEN Descend /\ frames' = Append(held, [node |-> new, edges |-> <<>>])
              ELSE UNCHANGED open /\ frames' = held
  <2>1. CASE isField
    <3>1. keyed = CopyBytes(graph, -n, child.label) /\ tree[Last(open)].kind = "object"
      BY <1>2, <2>1 DEF Keyed
    <3>2. QED
      BY <1>2, <2>1, <3>1 DEF ReadChild, CopyChecks
  <2>2. CASE ~isField
    <3>1. keyed = graph /\ ~(tree[Last(open)].kind = "object")
      BY <1>2, <2>2 DEF Keyed
    <3>2. QED
      BY <1>2, <2>2, <3>1 DEF ReadChild, CopyChecks
  <2>3. QED
    BY <2>1, <2>2
<1>4. /\ checks \in Seq(S) /\ made \in Seq(S) /\ <<c1, c2>> \in Seq(S) /\ key \in Seq(S)
      /\ <<c5>> \in Seq(S)
  <2>1. made \in Seq(S)
    BY OpenChecksMade
  <2>2. c1 \in S /\ c2 \in S /\ c5 \in S /\ (isField => c3 \in S /\ c4 \in S)
    OBVIOUS
  <2> HIDE DEF c1, c2, c3, c4, c5, made, S, isField
  <2>3. <<c1, c2>> \in Seq(S) /\ (isField => <<c3, c4>> \in Seq(S)) /\ <<>> \in Seq(S) /\ <<c5>> \in Seq(S)
    BY <2>2
  <2>4. key \in Seq(S)
    BY <2>3
  <2> HIDE DEF key
  <2>5. QED
    BY <2>1, <2>3, <2>4
<1>5. /\ c2[2] = "malformed" /\ c1[2] = "max_container_entries_exceeded"
      /\ c3[2] = "max_string_bytes_exceeded" /\ c4[2] = "max_output_bytes_exceeded"
      /\ c5[2] = "max_depth_exceeded"
      /\ c1[1] = (Len(entries) >= limits.entries) /\ c5[1] = (Len(open) + 1 > limits.depth)
      /\ c3[1] = (child.label > limits.string) /\ c4[1] = (~BudgetAllows(graph, child.label))
  BY DEF DecodeCode, BudgetAllows
<1>6. CASE FirstFailure(checks) # "ok"
  <2>1. PICK c \in S : c[1] /\ c[2] = FirstFailure(checks)
    <3> HIDE DEF checks, S
    <3>1. QED
      BY <1>4, <1>6, FailureIsNamed
  <2>2. /\ c[2] = "max_depth_exceeded" => DeeperThan(limits.depth)'
        /\ c[2] = "max_container_entries_exceeded" => MoreEntriesThan(limits.entries)'
        /\ c[2] = "max_string_bytes_exceeded" => LongerStringThan(limits.string)'
        /\ c[2] = "max_output_bytes_exceeded" => (OutputBytes > limits.output)'
    <3>n. n \in DOMAIN tree'
      BY <1>2, GrownShape
    <3>1. CASE c = c1
      <4>1. Len(entries) >= limits.entries /\ c[2] = "max_container_entries_exceeded"
        BY <1>5, <2>1, <3>1
      <4>2. QED
        BY <1>1, <4>1, FullBlamed
    <3>2. CASE c = c2
      BY <1>5, <3>2
    <3>3. CASE isField /\ c = c3
      <4>1. child.label > limits.string /\ c[2] = "max_string_bytes_exceeded"
        BY <1>5, <2>1, <3>3
      <4>2. LongerStringThan(limits.string)'
        BY <1>1, <3>n, <3>3, <4>1 DEF LongerStringThan, FieldIn, IsField
      <4>3. QED
        BY <4>1, <4>2
    <3>4. CASE isField /\ c = c4
      <4>1. ~BudgetAllows(graph, child.label) /\ c[2] = "max_output_bytes_exceeded"
        BY <1>5, <2>1, <3>4
      <4>2. /\ Built(tree, open, graph) /\ Exact(tree, open, graph)
            /\ InOrder(tree) /\ tree \in Seq(Values) /\ limits.output \in Nat
        BY <1>1, WhileBuilding DEF IInv, Placed, SourceShape, DInv, DecodeFlow
      <4>3. /\ RetainedBytes(graph) + BytesIn(tree', n) + NodeBytes <= OutputOf(tree')
            /\ OutputOf(tree') \in Nat
        BY <1>2, <4>2, OutputGrows
      <4>4. /\ child.label \in Nat /\ TextLength \in Nat /\ NodeBytes \in Nat
            /\ tree' \in Seq(Values)
        BY <1>2, <3>n, LabelIsLength, DecodeAssumption DEF DecodeAssumption, Grown
      <4>5. BytesIn(tree', n) \in Nat /\ BytesIn(tree', n) >= child.label
        BY <3>4, <4>4 DEF BytesIn
      <4>6. RetainedBytes(graph) \in Nat
        BY <4>2, RetainedIs
      <4>7. OutputOf(tree') > limits.output
        BY <4>1, <4>2, <4>3, <4>4, <4>5, <4>6 DEF BudgetAllows
      <4>8. OutputBytes' = OutputOf(tree')
        BY OutputIs DEF OutputBytes, OutputOf, AllBytes, BytesIn, FieldIn, IsField
      <4>9. QED
        BY <1>1, <4>1, <4>7, <4>8
    <3>5. CASE c = c5
      <4>1. Len(open) + 1 > limits.depth /\ c[2] = "max_depth_exceeded"
        BY <1>5, <2>1, <3>5
      <4>2. DeeperThan(limits.depth)'
        BY <1>1, <1>2, <3>n, <4>1 DEF DeeperThan
      <4>3. QED
        BY <4>1, <4>2
    <3>6. CASE c \in OpenCheckSet(keyed, n, child.kind, FALSE)
      BY <1>1, <2>1, <3>6, OpeningBlamed
    <3>7. QED
      BY <3>1, <3>2, <3>3, <3>4, <3>5, <3>6
  <2>3. FailDecode(FirstFailure(checks))
    BY <1>3, <1>6
  <2> HIDE DEF checks, S
  <2>4. QED
    BY <1>1, <1>2, <2>1, <2>2, <2>3, DecodeFails
<1>7. CASE FirstFailure(checks) = "ok"
  <2>1. ASSUME NEW c \in S, c[1]
        PROVE  c[2] # "ok"
    <3>1. CASE c \in OpenCheckSet(keyed, n, child.kind, FALSE)
      BY <2>1, <3>1, OpenChecksLimit
    <3>2. CASE c \in {c1, c2, c5} \/ (isField /\ c \in {c3, c4})
      BY <1>5, <3>2
    <3> HIDE DEF late, c1, c2, c3, c4, c5, isField
    <3>3. c \in late \/ c \in {c1, c2, c5} \/ (isField /\ c \in {c3, c4})
      BY <2>1
    <3>4. QED
      BY <3>1, <3>2, <3>3 DEF late
  <2>2. Passed(<<c1, c2>>) /\ Passed(key) /\ Passed(<<c5>>) /\ Passed(made)
    <3> HIDE DEF made, S, c1, c2, c5, key
    <3>1. Passed(<<c1, c2>> \o key \o <<c5>> \o made)
      BY <1>4, <1>7, <2>1, NoFailure
    <3>2. <<c1, c2>> \o key \in Seq(S) /\ (<<c1, c2>> \o key) \o <<c5>> \in Seq(S)
      BY <1>4, ConcatProperties
    <3>3. Passed((<<c1, c2>> \o key) \o <<c5>>) /\ Passed(made)
      BY <1>4, <3>1, <3>2, PassedBoth
    <3>4. Passed(<<c1, c2>> \o key) /\ Passed(<<c5>>)
      BY <1>4, <3>2, <3>3, PassedBoth
    <3>5. Passed(<<c1, c2>>) /\ Passed(key)
      BY <1>4, <3>4, PassedBoth
    <3>6. QED
      BY <3>3, <3>4, <3>5
  <2>3. /\ child.kind \in Containers \cup Plain
        /\ child.kind = "text" => ~(TextLength > limits.string)
        /\ BudgetAllows(WithText(keyed, n, child.kind), NodeBytes)
    BY <1>2, <2>2, OpenChecksPass
  <2>4. /\ ~(Len(entries) >= limits.entries) /\ ~(Len(open) + 1 > limits.depth)
        /\ isField => ~(child.label > limits.string)
    <3>1. ~c1[1] /\ ~c5[1] /\ (isField => ~c3[1])
      <4> HIDE DEF c1, c2, c3, c4, c5, isField
      <4>1. QED
        BY <2>2, PassedOne, PassedTwo
    <3>2. QED
      BY <1>5, <3>1
  <2> DEFINE h == Next1(tree', graph)
  <2>5. graph' = h
    BY <1>3, <1>7 DEF Next1
  <2>6. /\ \A p : p = open \/ p = Append(open, n) =>
             Built(tree', p, h) /\ Exact(tree', p, h) /\ Within(tree', h)
        /\ h.nodes # <<>> /\ new = n
    <3>1. ASSUME NEW p, p = open \/ p = Append(open, n)
          PROVE  /\ Built(tree', p, h) /\ Exact(tree', p, h) /\ Within(tree', h)
                 /\ h.nodes # <<>> /\ new = n
      BY <1>1, <1>2, <2>3, <2>4, <3>1, ValueAdded
    <3>2. QED
      BY <3>1
  <2>7. Framed(tree', open, h, held)
    <3>1. /\ Framed(tree, open, graph, frames) /\ open \in Seq(Nat) /\ Built(tree, open, graph)
          /\ \A i, k \in DOMAIN open : i < k => open[i] < open[k]
      BY <1>1, WhileBuilding DEF IInv, Placed, Nested
    <3>2. graph \in Graphs
      BY <3>1, BuiltIsGraph
    <3>3. Len(graph.bytes) \in Nat
      BY <3>2 DEF Graphs
    <3>4. edge \in EdgeShape /\ edge.child = n /\ (isField => edge.key = Len(graph.bytes))
      BY <1>2, <2>6, <3>3 DEF EdgeShape
    <3> HIDE DEF edge, h
    <3>5. Framed(tree', open, Next1(tree', graph),
                 [frames EXCEPT ![Len(frames)].edges = Append(@, edge)])
      BY <1>2, <2>3, <3>1, <3>2, <3>4, FramedGrown
    <3>6. QED
      BY <3>5 DEF h
  <2> HIDE DEF h, held
  <2>8. CASE child.kind \in Containers
    <3>1. /\ open' = Append(open, n) /\ reader' = reader
          /\ frames' = Append(held, [node |-> n, edges |-> <<>>])
      BY <1>2, <1>3, <1>7, <2>6, <2>8 DEF Descend, Continue
    <3>2. Framed(tree', Append(open, n), h, frames')
      <4>1. Members(tree', n) = {} /\ open \in Seq(Nat)
        BY <1>1, <1>2, MembersGrown, WhileBuilding
      <4>2. QED
        BY <1>2, <2>7, <3>1, <4>1, FrameAdded
    <3>3. QED
      BY <1>1, <1>2, <2>5, <2>6, <3>1, <3>2, StillBuilding
  <2>9. CASE child.kind \notin Containers
    <3>1. open' = open /\ reader' = reader /\ frames' = held
      BY <1>3, <1>7, <2>9 DEF Continue
    <3>2. QED
      BY <1>1, <1>2, <2>5, <2>6, <2>7, <3>1, StillBuilding
  <2>10. QED
    BY <2>8, <2>9
<1>8. QED
  BY <1>6, <1>7

LEMMA RetainedPublished ==
  ASSUME NEW g \in Graphs, NEW c \in 1..Len(g.nodes), NEW s \in Seq(EdgeShape)
  PROVE  RetainedBytes(Published(g, c, s)) = RetainedBytes(g) + Len(s) * EdgeBytes
<1> DEFINE h == Published(g, c, s)
<1>1. Len(h.nodes) = Len(g.nodes) /\ h.bytes = g.bytes /\ h.edges = g.edges \o s
  BY PublishedShape
<1>2. /\ g.edges \in Seq(EdgeShape) /\ Len(g.edges) \in Nat /\ Len(s) \in Nat
      /\ Len(g.nodes) \in Nat /\ Len(g.bytes) \in Nat
  BY DEF Graphs
<1> HIDE DEF h
<1>3. Len(h.edges) = Len(g.edges) + Len(s)
  BY <1>1, <1>2, ConcatProperties
<1>4. NodeBytes \in Nat /\ EdgeBytes \in Nat
  BY DecodeAssumption DEF DecodeAssumption
<1> DEFINE a == Len(g.nodes) * NodeBytes
           b == Len(g.edges) * EdgeBytes
           d == Len(s) * EdgeBytes
           e == Len(h.edges) * EdgeBytes
<1>5. e = b + d
  <2> DEFINE x == Len(g.edges)
             y == Len(s)
             z == Len(h.edges)
  <2>1. x \in Nat /\ y \in Nat /\ z = x + y
    BY <1>2, <1>3
  <2> HIDE DEF x, y, z
  <2>2. z * EdgeBytes = x * EdgeBytes + y * EdgeBytes
    BY <1>4, <2>1, SumTimes
  <2>3. QED
    BY <2>2 DEF x, y, z
<1>6. a \in Nat /\ b \in Nat /\ d \in Nat
  BY <1>2, <1>4, ProductGrows
<1>7. RetainedBytes(g) = a + b + Len(g.bytes) /\ RetainedBytes(h) = a + e + Len(g.bytes)
  BY <1>1 DEF RetainedBytes
<1> HIDE DEF a, b, d, e
<1>8. RetainedBytes(h) = RetainedBytes(g) + d
  <2> DEFINE t == Len(g.bytes)
  <2>1. t \in Nat /\ RetainedBytes(g) = a + b + t /\ RetainedBytes(h) = a + e + t
    BY <1>2, <1>7
  <2> HIDE DEF t
  <2>2. QED
    BY <1>5, <1>6, <2>1
<1>9. QED
  BY <1>8 DEF d, h

\* The container at the end of which the decoder is, published.
LEMMA FrameEnded ==
  ASSUME IInv, DInv, reader = "materializer", open # <<>>
  PROVE  LET h == Published(graph, Last(frames).node, Last(frames).edges)
             count == Len(Last(frames).edges)
         IN /\ Built(tree, Front(open), h) /\ Exact(tree, Front(open), h)
            /\ Framed(tree, Front(open), h, Front(frames))
            /\ RetainedBytes(h) = RetainedBytes(graph) + count * EdgeBytes
            /\ RetainedBytes(h) <= OutputOf(tree) /\ OutputOf(tree) \in Nat
            /\ RetainedBytes(h) \in Nat
            /\ h.nodes # <<>>
<1>1. /\ Built(tree, open, graph) /\ Exact(tree, open, graph)
      /\ Framed(tree, open, graph, frames) /\ open \in Seq(Nat)
      /\ tree \in Seq(Values) /\ InOrder(tree) /\ pos = Len(tree) /\ open \in Seq(1..pos)
      /\ \A i, k \in DOMAIN open : i < k => open[i] < open[k]
  BY WhileBuilding DEF IInv, Placed, Nested, SourceShape
<1>2. Last(open) \in DOMAIN tree /\ Last(open) \in 1..Len(tree)
  <2>1. Last(open) \in 1..pos /\ DOMAIN tree = 1..Len(tree)
    BY <1>1, LastIs
  <2>2. QED
    BY <1>1, <2>1
<1> DEFINE s == Last(frames).edges
           h == Published(graph, Last(open), s)
<1>3. /\ Built(tree, Front(open), h) /\ Framed(tree, Front(open), h, Front(frames))
      /\ Last(frames).node = Last(open) /\ s \in Seq(EdgeShape)
      /\ EdgesAre(tree, graph.bytes, s, Last(open))
  BY <1>1, <1>2, BuiltEnded
<1>4. Exact(tree, Front(open), h)
  <2> HIDE DEF s
  <2>1. QED
    BY <1>1, <1>2, <1>3, ExactEnded
<1>5. graph \in Graphs /\ Len(graph.nodes) = Len(tree)
  BY <1>1, BuiltIsGraph
<1>6. RetainedBytes(h) = RetainedBytes(graph) + Len(s) * EdgeBytes
  <2>1. Last(open) \in 1..Len(graph.nodes)
    BY <1>2, <1>5
  <2> DEFINE c == Last(open)
  <2> HIDE DEF s, c
  <2>2. RetainedBytes(Published(graph, c, s)) = RetainedBytes(graph) + Len(s) * EdgeBytes
    BY <1>3, <1>5, <2>1, RetainedPublished DEF c
  <2>3. QED
    BY <2>2 DEF c
<1> HIDE DEF h, s
<1>7. tree # <<>>
  BY <1>2
<1>8. RetainedBytes(h) <= OutputOf(tree) /\ OutputOf(tree) \in Nat /\ RetainedBytes(h) \in Nat
  BY <1>1, <1>3, <1>4, <1>7, OutputBounds, RetainedIs
<1>9. h.nodes # <<>>
  <2>1. Len(h.nodes) = Len(tree) /\ h.nodes \in Seq(NodeShape)
    BY <1>3 DEF Built
  <2>2. QED
    BY <1>1, <1>2, <2>1
<1>10. QED
  BY <1>3, <1>4, <1>6, <1>8, <1>9 DEF h, s

LEMMA FrameBuilt ==
  ASSUME IInv, DInv, FinalizeFrame, UNCHANGED op
  PROVE  DInv'
<1> DEFINE h == Published(graph, Last(frames).node, Last(frames).edges)
           added == Len(Last(frames).edges) * EdgeBytes
<1>1. /\ reader = "materializer" /\ UNCHANGED <<consumed, limits, tree, pos>> /\ Exhausted
      /\ open # <<>>
      /\ \/ /\ ~BudgetAllows(graph, added)
            /\ FailDecode("max_output_bytes_exceeded")
         \/ /\ BudgetAllows(graph, added) /\ Len(open) > 1
            /\ Ascend /\ Continue
            /\ graph' = h /\ frames' = Front(frames)
         \/ /\ BudgetAllows(graph, added) /\ Len(open) = 1
            /\ Return(Ok) /\ whole' = TRUE
            /\ graph' = h /\ frames' = Front(frames)
  BY DEF FinalizeFrame, Decoding, Exhausted, Published, Ascend
<1>2. /\ Built(tree, Front(open), h) /\ Exact(tree, Front(open), h)
      /\ Framed(tree, Front(open), h, Front(frames))
      /\ RetainedBytes(h) = RetainedBytes(graph) + added
      /\ RetainedBytes(h) <= OutputOf(tree) /\ OutputOf(tree) \in Nat
      /\ RetainedBytes(h) \in Nat
      /\ h.nodes # <<>>
  BY <1>1, FrameEnded
<1>3. /\ pos = Len(tree) /\ pos' = Len(tree') /\ pos \in Nat \ {0} /\ pos' \in Nat \ {0}
      /\ Within(tree, graph) /\ limits.output \in Nat /\ open \in Seq(Nat)
  <2>1. pos = Len(tree) /\ pos \in Nat /\ pos > 0
    BY <1>1, WhileDecoding, WhileBuilding
  <2>2. Within(tree, graph) /\ limits.output \in Nat /\ open \in Seq(Nat)
    BY <1>1, WhileBuilding DEF DInv, DecodeFlow
  <2>3. QED
    BY <1>1, <2>1, <2>2
<1> HIDE DEF h, added
<1>4. CASE ~BudgetAllows(graph, added) /\ FailDecode("max_output_bytes_exceeded")
  <2>1. OutputOf(tree) > limits.output
    BY <1>2, <1>3, <1>4 DEF BudgetAllows
  <2>2. OutputBytes' = OutputOf(tree')
    BY OutputIs DEF OutputBytes, OutputOf, AllBytes, BytesIn, FieldIn, IsField
  <2>3. (OutputBytes > limits.output)'
    BY <1>1, <2>1, <2>2
  <2>4. QED
    BY <1>1, <1>3, <1>4, <2>3, DecodeFails
<1>5. CASE /\ BudgetAllows(graph, added)
           /\ graph' = h /\ frames' = Front(frames)
           /\ \/ Len(open) > 1 /\ Ascend /\ Continue
              \/ Len(open) = 1 /\ Return(Ok) /\ whole' = TRUE
  <2>1. Within(tree, h)
    <3>1. RetainedBytes(h) <= limits.output
      BY <1>2, <1>5 DEF BudgetAllows
    <3>2. QED
      BY <1>3, <3>1 DEF Within
  <2>2. /\ open' = Front(open)
        /\ reader' = "none" => status'.code = "ok" /\ whole'
    <3>1. CASE Len(open) > 1 /\ Ascend /\ Continue
      BY <1>1, <3>1 DEF Ascend, Continue
    <3>2. CASE Len(open) = 1 /\ Return(Ok) /\ whole' = TRUE
      <4>1. Len(Front(open)) = Len(open) - 1 /\ Front(open) \in Seq(Nat)
        BY <1>1, <1>3, FrontAndLast
      <4>2. Front(open) = <<>>
        BY <3>2, <4>1
      <4>3. QED
        BY <3>2, <4>2 DEF Return, Ok
    <3>3. QED
      BY <1>5, <3>1, <3>2
  <2>3. QED
    BY <1>1, <1>2, <1>3, <1>5, <2>1, <2>2, StillBuilding
<1>6. QED
  BY <1>1, <1>4, <1>5

LEMMA DecodeBuilt == IInv /\ DInv /\ Decode => DInv'
BY RootBuilt, ChildBuilt, FrameBuilt, InterruptBuilt DEF Decode, DecodeStep

-----------------------------------------------------------------------------
(* The other steps, and the theorems. *)

LEMMA InitBuilt == Init => DInv
<1> SUFFICES ASSUME Init PROVE DInv
  OBVIOUS
<1>1. /\ tree = <<>> /\ pos = 0 /\ reader = "none" /\ consumed = FALSE /\ graph = EmptyGraph
      /\ frames = <<>>
  BY DEF Init, SourceInit, DecodeInit
<1>2. graph.nodes = <<>>
  BY <1>1 DEF EmptyGraph
<1>3. limits \in [depth : Nat, entries : Nat, string : Nat, output : Nat]
  <2>1. CASE op = "decode"
    BY <2>1, DecodeAssumption DEF Init, DecodeAssumption
  <2>2. CASE op # "decode"
    BY <2>2 DEF Init
  <2>3. QED
    BY <2>1, <2>2
<1>4. QED
  BY <1>1, <1>2, <1>3 DEF DInv, DecodeFlow, Building, LimitIsTrue

\* What is read for another purpose has no graph.
LEMMA OtherReading ==
  ASSUME IInv, DInv, IInv', op # "decode", UNCHANGED <<decodeVars, op>>
  PROVE  DInv'
<1>1. graph.nodes = <<>> /\ reader' # "materializer"
  BY DEF DInv, DecodeFlow, IInv, Flow
<1>2. DecodeFlow'
  BY <1>1 DEF DInv, DecodeFlow, ConfigValid, decodeVars
<1>3. Building' /\ LimitIsTrue'
  BY <1>1 DEF Building, LimitIsTrue, decodeVars
<1>4. QED
  BY <1>2, <1>3 DEF DInv

\* The source and the graph stay, and no limit is reported.
LEMMA NothingRead ==
  ASSUME IInv, DInv, UNCHANGED <<tree, pos, open, whole, limits, graph, frames, op>>,
         consumed' => ConfigValid(limits),
         reader' = "materializer" => graph.nodes = <<>> /\ pos = 0,
         reader' = "none" => reader = "none",
         tree # <<>> => status'.code \notin {"max_depth_exceeded", "max_string_bytes_exceeded",
                                            "max_container_entries_exceeded",
                                            "max_output_bytes_exceeded"}
  PROVE  DInv'
<1>1. DecodeFlow'
  BY DEF DInv, DecodeFlow, ConfigValid
<1>2. Building'
  BY DEF DInv, Building, Within
<1>3. LimitIsTrue'
  BY DEF LimitIsTrue
<1>4. QED
  BY <1>1, <1>2, <1>3 DEF DInv

LEMMA PlanBuilt == IInv /\ DInv /\ MakePlan => DInv'
<1> SUFFICES ASSUME IInv, DInv, MakePlan PROVE DInv'
  OBVIOUS
<1>1. /\ stage = "plan" /\ UNCHANGED <<tree, pos, open, whole, reader, limits, consumed, graph, frames, op>>
  BY DEF MakePlan, source, engineVars, decodeVars
<1>2. reader = "none" /\ tree = <<>>
  BY <1>1 DEF IInv, Flow
<1>3. consumed => ConfigValid(limits)
  BY DEF DInv, DecodeFlow
<1>4. QED
  BY <1>1, <1>2, <1>3, NothingRead

LEMMA OpenBuilt == IInv /\ DInv /\ OpenDocument => DInv'
<1> SUFFICES ASSUME IInv, DInv, OpenDocument PROVE DInv'
  OBVIOUS
<1>1. /\ stage = "open" /\ reader = "none"
      /\ UNCHANGED <<tree, pos, open, whole, limits, consumed, graph, frames, op>>
      /\ reader' \in {"none", "validation"}
  BY DEF OpenDocument, source, engineVars, decodeVars
<1>2. tree = <<>>
  BY <1>1 DEF IInv, Flow
<1>3. consumed => ConfigValid(limits)
  BY DEF DInv, DecodeFlow
<1>4. QED
  BY <1>1, <1>2, <1>3, NothingRead

LEMMA CallBuilt == IInv /\ DInv /\ IInv' /\ Call => DInv'
<1> SUFFICES ASSUME IInv, DInv, IInv', Call PROVE DInv'
  OBVIOUS
<1>1. CASE op # "decode"
  <2>1. UNCHANGED <<decodeVars, op>>
    BY <1>1 DEF Call
  <2>2. QED
    BY <1>1, <2>1, OtherReading
<1>2. CASE op = "decode"
  <2>1. /\ stage = "ready" /\ reader = "none" /\ op' = op
        /\ CreateMaterializer \/ ExecuteDecode
    BY <1>2 DEF Call, Rows
  <2>2. CASE CreateMaterializer
    <3>1. /\ reader' = "none" /\ status'.code = "invalid_argument" /\ graph' = EmptyGraph
          /\ frames' = <<>> /\ UNCHANGED <<tree, pos, limits, consumed>>
      BY <2>2, FailedDecode DEF CreateMaterializer, FailDecode
    <3>2. graph'.nodes = <<>>
      BY <3>1 DEF EmptyGraph
    <3>3. DecodeFlow'
      BY <2>1, <3>1, <3>2 DEF DInv, DecodeFlow, ConfigValid
    <3>4. Building' /\ LimitIsTrue'
      BY <3>1, <3>2 DEF Building, LimitIsTrue
    <3>5. QED
      BY <3>3, <3>4 DEF DInv
  <2>3. CASE ExecuteDecode
    <3>1. /\ ConfigValid(limits) /\ UNCHANGED <<tree, pos, open, whole, limits, graph, frames>>
          /\ \/ /\ status'.code \in {"cancelled", "out_of_memory", "cursor_consumed"}
                /\ reader' = "none"
             \/ ~consumed /\ reader' = "materializer" /\ status'.code = "ok"
      <4>1. /\ ConfigValid(limits) /\ UNCHANGED <<tree, pos, open, whole, limits, graph, frames>>
        BY <2>3 DEF ExecuteDecode, source
      <4>2. CASE \E code \in {"out_of_memory", "cancelled"} :
                   status' = [code |-> code, slot |-> NoSlot] /\ reader' = reader
        BY <2>1, <4>1, <4>2
      <4>3. CASE status' = [code |-> "cursor_consumed", slot |-> NoSlot] /\ reader' = reader
        BY <2>1, <4>1, <4>3
      <4>4. CASE ~consumed /\ reader' = "materializer" /\ status' = Ok
        BY <4>1, <4>4 DEF Ok
      <4>5. QED
        BY <2>3, <4>2, <4>3, <4>4 DEF ExecuteDecode
    <3>2. ~consumed => pos = 0
      BY <1>2, <2>1 DEF IInv, Flow, Rows
    <3>3. pos = 0 => tree = <<>> /\ graph.nodes = <<>>
      <4>1. tree \in Seq(Values) /\ pos = Len(tree)
        BY <1>2 DEF IInv, Placed, SourceShape, DInv, DecodeFlow
      <4>2. pos = 0 => tree = <<>>
        BY <4>1, NoLength
      <4>3. QED
        BY <4>2 DEF DInv, DecodeFlow
    <3>4. QED
      BY <2>1, <3>1, <3>2, <3>3, NothingRead
  <2>4. QED
    BY <2>1, <2>2, <2>3
<1>3. QED
  BY <1>1, <1>2

LEMMA OthersBuilt ==
  ASSUME IInv, DInv, IInv', ValidateRoot \/ ValidateValue \/ ValidateEnd \/ Project
  PROVE  DInv'
<1>1. UNCHANGED <<decodeVars, op>> /\ reader \in {"validation", "projection"}
  BY DEF ValidateRoot, ValidateValue, ValidateEnd, Validating, engineVars, Project, ProjectionStep,
         EnterRoot, ConsumeRootScalar, SkipContainer, SkipScalar, LeaveSkipped, EnterContainer,
         MaterializeScalar, RejectValue, LeaveContainer, ReadNext, CancelProjection, Projecting
<1>2. op # "decode"
  BY <1>1 DEF IInv, Flow
<1>3. QED
  BY <1>1, <1>2, OtherReading

LEMMA StutterBuilt == DInv /\ UNCHANGED vars => DInv'
<1> SUFFICES ASSUME DInv, UNCHANGED vars PROVE DInv'
  OBVIOUS
<1>1. UNCHANGED <<tree, pos, open, whole, reader, status, limits, consumed, graph, frames, op,
                  stage, calls>>
  BY DEF vars, sourceVars, source, decodeVars
<1>2. DecodeFlow'
  BY <1>1 DEF DInv, DecodeFlow, ConfigValid
<1>3. Building'
  BY <1>1 DEF DInv, Building, Within
<1>4. LimitIsTrue'
  BY <1>1 DEF DInv, LimitIsTrue, Answered, DeeperThan, MoreEntriesThan, LongerStringThan,
              OutputBytes, IsField
<1>5. QED
  BY <1>2, <1>3, <1>4 DEF DInv

LEMMA NextBuilt == IInv /\ DInv /\ [Next]_vars => DInv'
<1> SUFFICES ASSUME IInv, DInv, [Next]_vars PROVE DInv'
  OBVIOUS
<1>1. IInv'
  BY NextInvariant
<1>2. QED
  BY <1>1, PlanBuilt, OpenBuilt, CallBuilt, OthersBuilt, DecodeBuilt, StutterBuilt DEF Next, Over

LEMMA DecodeInvariant == Spec => [](IInv /\ DInv)
BY InitInvariant, NextInvariant, InitBuilt, NextBuilt, PTL DEF Spec

\* The result of simd_json_decode_materializer.cpp is the source: a node for each value in
\* document order, with its text, and for each container one slice of the edges that
\* lists its members in order, equal keys included, with the bytes of their keys.
THEOREM TheResultIsTheSource == Spec => []GraphIsSource
BY DecodeInvariant, FinishedIsSource, PTL

\* The four limits of simd_json_decode_materializer.cpp are exact: what is decoded is sound,
\* whole and within each of them, although the edges of the open containers are charged
\* only when they end, and a limit is reported only when what was read exceeds it.
THEOREM TheLimitsAreExact == Spec => []DecodeVerdictIsTrue
BY DecodeInvariant, VerdictFollows, PTL

-----------------------------------------------------------------------------
(* The types of the engines. *)

Outcome == [code : Codes, slot : Nat]

\* What the graph points to is in the source and in the graph.
InBounds(g) ==
  /\ \A i \in DOMAIN g.edges : g.edges[i].child \in DOMAIN g.nodes
  /\ \A i \in DOMAIN g.bytes : g.bytes[i] \in (-MaxValues)..MaxValues

\* The state of the projection, in types.
PassTyped ==
  /\ status \in Outcome /\ pending \in Outcome
  /\ satisfied \subseteq 1..plan.edges
  /\ slots \in [0..(Len(request) - 1) -> 0..Len(tree)]

Typed == PassTyped /\ InBounds(graph) /\ op \in Ops /\ calls <= MaxCalls

LEMMA OutcomeIs ==
  ASSUME NEW code \in Codes
  PROVE  /\ [code |-> code, slot |-> NoSlot] \in Outcome
         /\ Ok \in Outcome
BY SourceAssumption DEF SourceAssumption, Outcome, Ok, Codes

LEMMA Retyped ==
  ASSUME NEW S, NEW s \in Seq(S), NEW T, \A i \in 1..Len(s) : s[i] \in T
  PROVE  s \in Seq(T)
<1>1. s = [i \in 1..Len(s) |-> s[i]] /\ Len(s) \in Nat
  OBVIOUS
<1> DEFINE n == Len(s)
<1>2. s \in [1..n -> T]
  BY <1>1
<1>3. QED
  BY <1>1, <1>2, SeqDef

\* The graph of an answer, in types.
LEMMA DecodeTypes ==
  ASSUME IInv, DInv, InBounds(graph)
  PROVE  DecodeTypeOK
<1>1. consumed \in BOOLEAN
  BY DEF IInv, Flow
<1>2. CASE graph.nodes = <<>>
  <2>1. graph = EmptyGraph /\ frames = <<>>
    BY <1>2 DEF DInv, DecodeFlow
  <2>2. QED
    BY <1>1, <2>1 DEF DecodeTypeOK, EmptyGraph
<1>3. CASE graph.nodes # <<>>
  <2> DEFINE D == DOMAIN graph.nodes
             E == [key : Nat \cup {-1}, child : D]
  <2>1. /\ Built(tree, open, graph) /\ Framed(tree, open, graph, frames)
        /\ tree \in Seq(Values) /\ Len(tree) \in Nat /\ DOMAIN tree = 1..Len(tree)
        /\ open \in Seq(1..pos) /\ pos \in 0..Len(tree)
    BY <1>3 DEF DInv, Building, IInv, Placed, SourceShape
  <2>2. /\ graph.nodes \in Seq(NodeShape) /\ graph.edges \in Seq(EdgeShape)
        /\ graph.bytes \in Seq(Int) /\ D = 1..Len(tree)
    BY <2>1 DEF Built
  <2> HIDE DEF D
  <2>3. graph.nodes \in Seq([kind : Containers \cup Leaves, bytes : Nat, edges : Nat, count : Nat])
    <3>1. NodeShape \subseteq [kind : Containers \cup Leaves, bytes : Nat, edges : Nat, count : Nat]
      BY DEF NodeShape, Plain, Leaves
    <3>2. \A i \in 1..Len(graph.nodes) : graph.nodes[i] \in NodeShape
      BY <2>2
    <3> HIDE DEF E
    <3>3. QED
      BY <2>2, <3>1, <3>2, Retyped
  <2>4. graph.edges \in Seq(E)
    <3>1. ASSUME NEW i \in 1..Len(graph.edges) PROVE graph.edges[i] \in E
      <4>1. graph.edges[i] \in EdgeShape
        BY <2>2, <3>1
      <4>2. graph.edges[i].child \in D
        BY <2>2 DEF InBounds, D
      <4>3. QED
        BY <4>1, <4>2 DEF EdgeShape
    <3> HIDE DEF E
    <3>2. QED
      BY <2>2, <3>1, Retyped
  <2>5. graph.bytes \in Seq((-MaxValues)..MaxValues)
    <3>1. \A i \in 1..Len(graph.bytes) : graph.bytes[i] \in (-MaxValues)..MaxValues
      BY <2>2 DEF InBounds
    <3>2. QED
      BY <2>2, <3>1, Retyped
  <2>6. frames \in Seq([node : D, edges : Seq(E)])
    <3>1. /\ frames \in Seq([node : Nat, edges : Seq(EdgeShape)]) /\ Len(frames) = Len(open)
          /\ \A i \in DOMAIN open : /\ frames[i].node = open[i]
                                    /\ EdgesAre(tree, graph.bytes, frames[i].edges, open[i])
      BY <2>1 DEF Framed
    <3>2. ASSUME NEW i \in 1..Len(frames) PROVE frames[i] \in [node : D, edges : Seq(E)]
      <4>1. i \in DOMAIN open /\ open[i] \in 1..pos /\ frames[i] \in [node : Nat, edges : Seq(EdgeShape)]
        <5>1. i \in 1..Len(open) /\ DOMAIN open = 1..Len(open)
          BY <2>1, <3>1
        <5>2. frames[i] \in [node : Nat, edges : Seq(EdgeShape)]
          BY <3>1, ElementOfSeq
        <5>3. open[i] \in 1..pos
          BY <2>1, <5>1, ElementOfSeq
        <5>4. QED
          BY <5>1, <5>2, <5>3
      <4>2. frames[i].node \in D
        BY <2>1, <2>2, <3>1, <4>1
      <4> DEFINE s == frames[i].edges
      <4>3. s \in Seq(EdgeShape) /\ ToSet([j \in DOMAIN s |-> s[j].child]) \subseteq DOMAIN tree
        BY <3>1, <4>1 DEF EdgesAre, InAscendingOrder, Members
      <4> HIDE DEF s
      <4>4. ASSUME NEW j \in 1..Len(s) PROVE s[j] \in E
        <5>1. s[j] \in EdgeShape /\ j \in DOMAIN s
          BY <4>3, <4>4
        <5>2. s[j].child \in D
          BY <2>1, <2>2, <4>3, <5>1 DEF ToSet
        <5>3. QED
          BY <5>1, <5>2 DEF EdgeShape
      <4>5. s \in Seq(E)
        BY <4>3, <4>4, Retyped
      <4>6. QED
        BY <4>1, <4>2, <4>5 DEF s
    <3> HIDE DEF E
    <3>3. QED
      BY <3>1, <3>2, Retyped
  <2>7. QED
    BY <1>1, <2>3, <2>4, <2>5, <2>6 DEF DecodeTypeOK, D
<1>4. QED
  BY <1>2, <1>3

LEMMA BytesInBounds ==
  ASSUME NEW b \in Seq(Int), \A i \in DOMAIN b : b[i] \in (-MaxValues)..MaxValues,
         NEW x \in (-MaxValues)..MaxValues, NEW l \in Nat
  PROVE  LET c == b \o [i \in 1..l |-> x] IN
         /\ c \in Seq(Int) /\ \A i \in DOMAIN c : c[i] \in (-MaxValues)..MaxValues
<1> DEFINE d == [i \in 1..l |-> x]
           c == b \o d
<1>1. MaxValues \in Nat
  BY SourceAssumption DEF SourceAssumption
<1>2. d \in Seq(Int) /\ Len(d) = l /\ \A i \in 1..l : d[i] = x
  BY <1>1
<1>3. /\ Len(b) \in Nat /\ DOMAIN b = 1..Len(b)
  OBVIOUS
<1> HIDE DEF d
<1>4. /\ c \in Seq(Int) /\ Len(c) = Len(b) + l /\ DOMAIN c = 1..Len(c)
      /\ \A i \in 1..(Len(b) + l) : c[i] = IF i <= Len(b) THEN b[i] ELSE d[i - Len(b)]
  <2>1. /\ c \in Seq(Int) /\ Len(c) = Len(b) + Len(d)
        /\ \A i \in 1..(Len(b) + Len(d)) : c[i] = IF i <= Len(b) THEN b[i] ELSE d[i - Len(b)]
    BY <1>2, ConcatProperties
  <2>2. QED
    BY <1>2, <2>1
<1>5. ASSUME NEW i \in DOMAIN c PROVE c[i] \in (-MaxValues)..MaxValues
  <2>1. i \in 1..(Len(b) + l)
    BY <1>4
  <2>2. CASE i <= Len(b)
    BY <1>3, <1>4, <2>1, <2>2
  <2>3. CASE ~(i <= Len(b))
    <3>1. i - Len(b) \in 1..l
      BY <1>3, <2>1, <2>3
    <3>2. QED
      BY <1>2, <1>4, <2>1, <2>3, <3>1
  <2>4. QED
    BY <2>2, <2>3
<1>6. QED
  BY <1>4, <1>5 DEF d

LEMMA CopyInBounds ==
  ASSUME NEW g \in Graphs, InBounds(g), NEW x \in (-MaxValues)..MaxValues, NEW l \in Nat
  PROVE  CopyBytes(g, x, l) \in Graphs /\ InBounds(CopyBytes(g, x, l))
<1> DEFINE c == g.bytes \o [i \in 1..l |-> x]
<1>1. /\ g.bytes \in Seq(Int)
  BY DEF Graphs
<1>2. /\ c \in Seq(Int) /\ \A i \in DOMAIN c : c[i] \in (-MaxValues)..MaxValues
  BY <1>1, BytesInBounds DEF InBounds
<1>3. CopyBytes(g, x, l) = [g EXCEPT !.bytes = c]
  BY DEF CopyBytes
<1> HIDE DEF c
<1>4. QED
  BY <1>2, <1>3 DEF Graphs, InBounds

LEMMA OpenedInBounds ==
  ASSUME NEW g \in Graphs, InBounds(g), NEW n \in 0..MaxValues, NEW kind
  PROVE  InBounds(Opened(g, n, kind))
<1> DEFINE w == WithText(g, n, kind)
           v == [kind |-> kind, bytes |-> Len(g.bytes), edges |-> 0, count |-> 0]
           h == Opened(g, n, kind)
<1>1. w \in Graphs /\ InBounds(w)
  <2>1. n \in (-MaxValues)..MaxValues /\ TextLength \in Nat
    BY SourceAssumption, DecodeAssumption DEF SourceAssumption, DecodeAssumption
  <2>2. QED
    BY <2>1, CopyInBounds DEF WithText
<1>2. h = [w EXCEPT !.nodes = Append(w.nodes, v)]
  BY DEF Opened, AppendNode
<1> HIDE DEF w, v
<1>3. h.edges = w.edges /\ h.bytes = w.bytes /\ h.nodes = Append(w.nodes, v)
  BY <1>1, <1>2 DEF Graphs
<1>4. w.nodes \in Seq(NodeShape)
  BY <1>1 DEF Graphs
<1>5. DOMAIN w.nodes \subseteq DOMAIN Append(w.nodes, v)
  BY <1>4
<1> HIDE DEF h
<1>6. InBounds(h)
  BY <1>1, <1>3, <1>5 DEF InBounds
<1>7. QED
  BY <1>6 DEF h

LEMMA PublishedInBounds ==
  ASSUME NEW g \in Graphs, InBounds(g), NEW c \in 1..Len(g.nodes), NEW s \in Seq(EdgeShape),
         \A i \in DOMAIN s : s[i].child \in DOMAIN g.nodes
  PROVE  InBounds(Published(g, c, s))
<1> DEFINE h == Published(g, c, s)
<1>1. /\ h \in Graphs /\ Len(h.nodes) = Len(g.nodes) /\ h.bytes = g.bytes
      /\ h.edges = g.edges \o s
  BY PublishedShape
<1>2. /\ DOMAIN h.nodes = DOMAIN g.nodes
  BY <1>1 DEF Graphs
<1>3. g.edges \in Seq(EdgeShape)
  BY DEF Graphs
<1> HIDE DEF h
<1>4. ASSUME NEW i \in DOMAIN h.edges PROVE h.edges[i].child \in DOMAIN g.nodes
  <2>1. /\ Len(s) \in Nat /\ Len(g.edges) \in Nat /\ DOMAIN s = 1..Len(s)
        /\ DOMAIN g.edges = 1..Len(g.edges)
    BY <1>3
  <2>2. /\ i \in 1..(Len(g.edges) + Len(s))
        /\ h.edges[i] = IF i <= Len(g.edges) THEN g.edges[i] ELSE s[i - Len(g.edges)]
    BY <1>1, <1>3, <1>4
  <2>3. CASE i <= Len(g.edges)
    BY <2>1, <2>2, <2>3 DEF InBounds
  <2>4. CASE ~(i <= Len(g.edges))
    <3>1. i - Len(g.edges) \in DOMAIN s
      BY <2>1, <2>2, <2>4
    <3>2. QED
      BY <2>2, <2>4, <3>1
  <2>5. QED
    BY <2>3, <2>4
<1>5. InBounds(h)
  BY <1>1, <1>2, <1>4 DEF InBounds
<1>6. QED
  BY <1>5 DEF h

\* The codes a pass of the decoder can end with.
LEMMA FailureCode ==
  ASSUME NEW S, NEW checks \in Seq(S), \A c \in S : c[2] \in Codes
  PROVE  FirstFailure(checks) \in Codes
BY FailureIsNamed DEF Codes

LEMMA OpenCheckCodes ==
  ASSUME NEW g, NEW n, NEW kind, NEW isRoot, NEW c \in OpenCheckSet(g, n, kind, isRoot)
  PROVE  c[2] \in Codes
<1>1. DecodeCode(Error(kind)) \in Codes
  BY DEF DecodeCode, Codes
<1>2. /\ {"incorrect_type", "max_output_bytes_exceeded", "max_string_bytes_exceeded"} \subseteq Codes
      /\ DecodeCode("TRAILING_CONTENT") \in Codes
  BY DEF Codes, DecodeCode
<1>3. QED
  BY <1>1, <1>2 DEF OpenCheckSet

LEMMA FailedTyped ==
  ASSUME NEW code \in Codes, FailDecode(code)
  PROVE  status' \in Outcome /\ InBounds(graph')
<1>1. status' = [code |-> code, slot |-> NoSlot] /\ graph' = EmptyGraph
  BY DEF FailDecode, Fail, Return
<1>2. QED
  BY <1>1, OutcomeIs DEF InBounds, EmptyGraph

\* The root of a decode.
LEMMA RootTyped ==
  ASSUME IInv, DInv, InBounds(graph), status \in Outcome, OpenRoot, IInv'
  PROVE  status' \in Outcome /\ InBounds(graph')
<1> DEFINE kind == tree'[1].kind
           checks == OpenChecks(graph, 1, kind, TRUE)
           S == OpenCheckSet(graph, 1, kind, TRUE)
<1>1. /\ reader = "materializer"
      /\ \/ \E st \in {FirstFailure(checks), "malformed"} : FailDecode(st)
         \/ graph' = Opened(graph, 1, kind) /\ (Continue \/ Return(Ok))
  BY DEF OpenRoot, Decoding, DecodeCode
<1>2. checks \in Seq(S)
  BY OpenChecksMade
<1>3. \A c \in S : c[2] \in Codes
  BY OpenCheckCodes
<1>4. FirstFailure(checks) \in Codes
  <2> HIDE DEF checks, S
  <2>1. QED
    BY <1>2, <1>3, FailureCode
<1>5. InBounds(Opened(graph, 1, kind))
  <2>1. graph \in Graphs
    BY <1>1, WhileBuilding, BuiltIsGraph
  <2>2. 1 \in 0..MaxValues
    BY SourceAssumption DEF SourceAssumption
  <2>3. QED
    BY <2>1, <2>2, OpenedInBounds
<1> HIDE DEF checks, kind
<1>6. ASSUME NEW st \in {FirstFailure(checks), "malformed"}, FailDecode(st)
      PROVE  status' \in Outcome /\ InBounds(graph')
  <2>1. st \in Codes
    BY <1>4 DEF Codes
  <2>2. QED
    BY <1>6, <2>1, FailedTyped
<1>7. CASE graph' = Opened(graph, 1, kind) /\ (Continue \/ Return(Ok))
  <2>1. status' \in Outcome
    BY <1>7, OutcomeIs DEF Continue, Return, Codes
  <2>2. QED
    BY <1>5, <1>7, <2>1
<1>8. QED
  BY <1>1, <1>6, <1>7

LEMMA ChildTyped ==
  ASSUME IInv, DInv, InBounds(graph), status \in Outcome, ReadChild, IInv'
  PROVE  status' \in Outcome /\ InBounds(graph')
<1> DEFINE n == Len(tree')
           child == tree'[n]
           isField == FieldIn(tree', n)
           keyed == Keyed(tree', graph)
           c1 == <<Len(Last(frames).edges) >= limits.entries, "max_container_entries_exceeded">>
           c2 == <<child.kind = "torn", DecodeCode("TAPE_ERROR")>>
           c3 == <<child.label > limits.string, "max_string_bytes_exceeded">>
           c4 == <<~BudgetAllows(graph, child.label), "max_output_bytes_exceeded">>
           c5 == <<Len(open) + 1 > limits.depth, "max_depth_exceeded">>
           key == IF isField THEN <<c3, c4>> ELSE <<>>
           made == OpenChecks(keyed, n, child.kind, FALSE)
           checks == <<c1, c2>> \o key \o <<c5>> \o made
           S == {c1, c2, c3, c4, c5} \cup OpenCheckSet(keyed, n, child.kind, FALSE)
<1>1. /\ reader = "materializer" /\ pos > 0 /\ Fetch
  BY DEF ReadChild, Decoding
<1>2. /\ pos' = n /\ Grown(tree, tree')
      /\ isField <=> tree[Last(open)].kind = "object"
  BY <1>1, NextValue, ChildIsField
<1>3. IF FirstFailure(checks) # "ok" THEN FailDecode(FirstFailure(checks))
      ELSE graph' = Opened(keyed, n, child.kind) /\ Continue
  <2>1. CASE isField
    <3>1. keyed = CopyBytes(graph, -n, child.label) /\ tree[Last(open)].kind = "object"
      BY <1>2, <2>1 DEF Keyed
    <3>2. QED
      BY <1>2, <2>1, <3>1 DEF ReadChild, CopyChecks
  <2>2. CASE ~isField
    <3>1. keyed = graph /\ ~(tree[Last(open)].kind = "object")
      BY <1>2, <2>2 DEF Keyed
    <3>2. QED
      BY <1>2, <2>2, <3>1 DEF ReadChild, CopyChecks
  <2>3. QED
    BY <2>1, <2>2
<1>4. checks \in Seq(S)
  <2>1. made \in Seq(S)
    BY OpenChecksMade
  <2>2. c1 \in S /\ c2 \in S /\ c3 \in S /\ c4 \in S /\ c5 \in S
    OBVIOUS
  <2> HIDE DEF c1, c2, c3, c4, c5, made, S, isField
  <2>3. <<c1, c2>> \in Seq(S) /\ <<c3, c4>> \in Seq(S) /\ <<>> \in Seq(S) /\ <<c5>> \in Seq(S)
    BY <2>2
  <2>4. key \in Seq(S)
    BY <2>3
  <2> HIDE DEF key
  <2>5. QED
    BY <2>1, <2>3, <2>4
<1>5. \A c \in S : c[2] \in Codes
  <2>1. /\ c1[2] \in Codes /\ c2[2] \in Codes /\ c3[2] \in Codes /\ c4[2] \in Codes
        /\ c5[2] \in Codes
    BY DEF DecodeCode, Codes
  <2> HIDE DEF c1, c2, c3, c4, c5
  <2>2. QED
    BY <2>1, OpenCheckCodes
<1>6. FirstFailure(checks) \in Codes
  <2> HIDE DEF checks, S
  <2>1. QED
    BY <1>4, <1>5, FailureCode
<1>7. InBounds(Opened(keyed, n, child.kind))
  <2>1. graph \in Graphs
    BY <1>1, WhileBuilding, BuiltIsGraph
  <2>2. n \in 0..MaxValues /\ MaxValues \in Nat /\ tree' \in Seq(Values) /\ n \in DOMAIN tree'
    <3>1. (tree \in Seq(Values) /\ Len(tree) <= MaxValues)'
      BY DEF IInv, Placed, SourceShape
    <3>2. n \in DOMAIN tree'
      BY <1>2, GrownShape
    <3>3. QED
      BY <3>1, <3>2, SourceAssumption DEF SourceAssumption
  <2>3. child.label \in Nat /\ -n \in (-MaxValues)..MaxValues
    BY <2>2, LabelIsLength
  <2>4. keyed \in Graphs /\ InBounds(keyed)
    BY <2>1, <2>3, CopyInBounds DEF Keyed
  <2> HIDE DEF keyed
  <2>5. QED
    BY <2>2, <2>4, OpenedInBounds
<1> HIDE DEF checks, keyed, child
<1>8. CASE FirstFailure(checks) # "ok"
  BY <1>3, <1>6, <1>8, FailedTyped
<1>9. CASE FirstFailure(checks) = "ok"
  BY <1>3, <1>7, <1>9 DEF Continue
<1>10. QED
  BY <1>8, <1>9

LEMMA FrameTyped ==
  ASSUME IInv, DInv, InBounds(graph), status \in Outcome, FinalizeFrame
  PROVE  status' \in Outcome /\ InBounds(graph')
<1> DEFINE f == Last(frames)
           h == Published(graph, f.node, f.edges)
<1>1. /\ reader = "materializer" /\ open # <<>>
      /\ \/ FailDecode("max_output_bytes_exceeded")
         \/ (Continue \/ Return(Ok)) /\ graph' = h
  BY DEF FinalizeFrame, Decoding, Exhausted, Published
<1>2. /\ graph \in Graphs
  BY <1>1, WhileBuilding, BuiltIsGraph
<1>3. /\ f.node \in 1..Len(graph.nodes) /\ f.edges \in Seq(EdgeShape)
      /\ \A i \in DOMAIN f.edges : f.edges[i].child \in DOMAIN graph.nodes
  <2> DEFINE D == DOMAIN graph.nodes
             E == [key : Nat \cup {-1}, child : D]
  <2>1. frames \in Seq([node : D, edges : Seq(E)]) /\ D = 1..Len(graph.nodes)
    BY <1>2, DecodeTypes DEF DecodeTypeOK, Graphs
  <2>2. frames # <<>>
    BY <1>1, WhileBuilding DEF Framed
  <2> HIDE DEF D, E
  <2>3. f \in [node : D, edges : Seq(E)]
    BY <2>1, <2>2, FrontAndLast
  <2>4. f.node \in D /\ f.edges \in Seq(E)
    BY <2>3
  <2> HIDE DEF f
  <2>5. \A i \in 1..Len(f.edges) : f.edges[i] \in E /\ f.edges[i] \in EdgeShape
    <3>1. E \subseteq EdgeShape
      BY <2>1 DEF E, EdgeShape
    <3>2. QED
      BY <2>4, <3>1
  <2>6. f.edges \in Seq(EdgeShape)
    BY <2>4, <2>5, Retyped
  <2>7. \A i \in DOMAIN f.edges : f.edges[i].child \in D
    BY <2>4, <2>5 DEF E
  <2>8. QED
    BY <2>1, <2>4, <2>6, <2>7 DEF D
<1>4. InBounds(h)
  BY <1>2, <1>3, PublishedInBounds
<1> HIDE DEF h
<1>5. CASE FailDecode("max_output_bytes_exceeded")
  BY <1>5, FailedTyped DEF Codes
<1>6. CASE (Continue \/ Return(Ok)) /\ graph' = h
  BY <1>4, <1>6, OutcomeIs DEF Continue, Return, Codes
<1>7. QED
  BY <1>1, <1>5, <1>6

\* Every step of the decoder.
LEMMA DecodeTyped ==
  ASSUME IInv, DInv, InBounds(graph), status \in Outcome, Decode
  PROVE  status' \in Outcome /\ InBounds(graph')
<1>1. IInv'
  BY StepDecode
<1>2. CASE InterruptDecode
  <2>1. PICK code \in {"out_of_memory", "cancelled"} : FailDecode(code)
    BY <1>2 DEF InterruptDecode
  <2>2. QED
    BY <2>1, FailedTyped DEF Codes
<1>3. QED
  BY <1>1, <1>2, RootTyped, ChildTyped, FrameTyped DEF Decode, DecodeStep

\* A node of the finished plan, and its edges.
Joined(node) ==
  /\ node \in PlanNode
  /\ \A k \in DOMAIN node.object : /\ node.object[k].child \in DOMAIN plan.nodes
                                   /\ node.object[k].id \in 1..plan.edges
  /\ \A i \in DOMAIN node.array : node.array[i].child \in DOMAIN plan.nodes
Sound ==
  /\ 1 \in DOMAIN plan.nodes
  /\ \A n \in DOMAIN plan.nodes : Joined(plan.nodes[n])

LEMMA PlanSound == PlanInv /\ PlanReady => Sound
<1> SUFFICES ASSUME PlanInv, PlanReady
             PROVE  Sound
  OBVIOUS
<1>1. PICK w : Trie(plan, w) /\ Numbered(plan)
  BY PlanCompiled DEF Compiled
<1>2. /\ DOMAIN plan.nodes = DOMAIN w /\ \A n \in DOMAIN w : plan.nodes[n] \in PlanNode
      /\ DOMAIN w = 1..Len(w) /\ Len(w) \in Nat \ {0}
  BY <1>1, TrieShape
<1>3. 1 \in DOMAIN plan.nodes
  BY <1>2
<1>5. ASSUME NEW n \in DOMAIN plan.nodes
      PROVE  Joined(plan.nodes[n])
  <2> DEFINE node == plan.nodes[n]
  <2>1. n \in DOMAIN w /\ node \in PlanNode
    BY <1>2
  <2>2. \A s \in Segment, c \in Nat : EdgeTo(node, s, c) => c \in DOMAIN plan.nodes
    BY <1>1, <1>2, <2>1 DEF Trie
  <2>3. \A k \in DOMAIN node.object : node.object[k].id \in 1..plan.edges
    BY <1>1, <2>1 DEF Numbered
  <2> HIDE DEF node
  <2>4. ASSUME NEW k \in DOMAIN node.object
        PROVE  node.object[k].child \in DOMAIN plan.nodes
    <3>1. k \in Nat /\ node.object[k].child \in Nat
      BY <2>1, NodeType
    <3> DEFINE s == [tag |-> "key", value |-> k]
    <3>2. s \in Segment /\ EdgeTo(node, s, node.object[k].child)
      BY <3>1 DEF Segment, EdgeTo
    <3>3. QED
      BY <2>2, <3>1, <3>2
  <2>5. ASSUME NEW i \in DOMAIN node.array
        PROVE  node.array[i].child \in DOMAIN plan.nodes
    <3>1. node.array[i].index \in Nat /\ node.array[i].child \in Nat
      BY <2>1, NodeType
    <3> DEFINE s == [tag |-> "index", value |-> node.array[i].index]
    <3>2. s \in Segment /\ EdgeTo(node, s, node.array[i].child)
      BY <3>1 DEF Segment, EdgeTo
    <3>3. QED
      BY <2>2, <3>1, <3>2
  <2>6. Joined(node)
    BY <2>1, <2>3, <2>4, <2>5 DEF Joined
  <2>7. QED
    BY <2>6 DEF node
<1>6. QED
  BY <1>3, <1>5 DEF Sound

LEMMA NodeJoined ==
  ASSUME Sound, NEW n \in {0} \cup DOMAIN plan.nodes
  PROVE  Joined(Node(n))
<1>1. Joined(EmptyNode)
  BY EmptyNodeType DEF Joined
<1>2. QED
  BY <1>1 DEF Sound, Node

\* The least of a set of slots is one.
LEMMA SlotLeast ==
  ASSUME NEW S \in SUBSET Nat
  PROVE  Min({NoSlot} \cup S) \in Nat
<1>1. NoSlot \in Nat
  BY SourceAssumption DEF SourceAssumption
<1> DEFINE T == {NoSlot} \cup S
<1>2. T \subseteq Nat /\ T # {}
  BY <1>1
<1>3. Min(T) \in T
  BY <1>2, LeastExists
<1>4. QED
  BY <1>2, <1>3

LEMMA FirstsAreSlots ==
  ASSUME Sound, NEW node, Joined(node)
  PROVE  /\ FirstSlot(node) \in Nat /\ FirstObjectChildSlot(node, plan.nodes) \in Nat
         /\ FirstArrayChildSlot(node, plan.nodes) \in Nat
<1>1. node \in PlanNode
  BY DEF Joined
<1>2. NoSlot \in Nat
  BY SourceAssumption DEF SourceAssumption
<1>3. \A c \in DOMAIN plan.nodes : plan.nodes[c].first \in Nat
  BY DEF Sound, Joined, PlanNode
<1>4. FirstSlot(node) \in Nat
  <2>1. node.slots \in Seq(Nat)
    BY <1>1, NodeType
  <2>2. node.slots # <<>> => Head(node.slots) \in Nat
    BY <2>1
  <2>3. QED
    BY <1>2, <2>2 DEF FirstSlot
<1>5. FirstObjectChildSlot(node, plan.nodes) \in Nat
  <2> DEFINE S == {plan.nodes[c].first : c \in ObjectChildren(node)}
  <2>1. ObjectChildren(node) \subseteq DOMAIN plan.nodes
    BY DEF ObjectChildren, Joined
  <2>2. S \in SUBSET Nat
    BY <1>3, <2>1
  <2> HIDE DEF S
  <2>3. Min({NoSlot} \cup S) \in Nat
    BY <2>2, SlotLeast
  <2>4. QED
    BY <2>3 DEF FirstObjectChildSlot, S
<1>6. FirstArrayChildSlot(node, plan.nodes) \in Nat
  <2> DEFINE S == {plan.nodes[c].first : c \in ArrayChildren(node)}
  <2>1. ArrayChildren(node) \subseteq DOMAIN plan.nodes
    BY DEF ArrayChildren, Joined, ToSet
  <2>2. S \in SUBSET Nat
    BY <1>3, <2>1
  <2> HIDE DEF S
  <2>3. Min({NoSlot} \cup S) \in Nat
    BY <2>2, SlotLeast
  <2>4. QED
    BY <2>3 DEF FirstArrayChildSlot, S
<1>7. QED
  BY <1>4, <1>5, <1>6

LEMMA RecordedTyped ==
  ASSUME NEW p \in Outcome, NEW code \in Codes, NEW slot \in Nat
  PROVE  RecordPathFailure(p, code, slot) \in Outcome
BY DEF RecordPathFailure, Outcome

\* What a step remembers is a code and a slot.
LEMMA FailuresTyped ==
  ASSUME Sound, NEW p \in Outcome, NEW node, Joined(node)
  PROVE  /\ \A kind : Enter(p, node, kind) \in Outcome
         /\ EnterScalar(p, node) \in Outcome
         /\ LeaveObject(p, node) \in Outcome
         /\ \A wanted \in Nat \ {0} : LeaveArray(p, node, wanted) \in Outcome
<1>1. /\ FirstSlot(node) \in Nat /\ FirstObjectChildSlot(node, plan.nodes) \in Nat
      /\ FirstArrayChildSlot(node, plan.nodes) \in Nat
  BY FirstsAreSlots
<1>2. "incorrect_type" \in Codes /\ "missing_field" \in Codes /\ "index_out_of_bounds" \in Codes
  BY DEF Codes
<1>3. \A c \in DOMAIN plan.nodes : plan.nodes[c].first \in Nat
  BY DEF Sound, Joined, PlanNode
<1>4. ASSUME NEW kind PROVE Enter(p, node, kind) \in Outcome
  <2>1. EnterObject(p, node) \in Outcome
    BY <1>1, <1>2, RecordedTyped DEF EnterObject
  <2>2. EnterArray(p, node) \in Outcome
    BY <1>1, <1>2, RecordedTyped DEF EnterArray
  <2>3. QED
    BY <2>1, <2>2 DEF Enter
<1>5. EnterScalar(p, node) \in Outcome
  <2> DEFINE S == {FirstObjectChildSlot(node, plan.nodes), FirstArrayChildSlot(node, plan.nodes)}
  <2>1. Min(S) \in S
    BY <1>1, LeastExists
  <2>2. Min(S) \in Nat
    BY <1>1, <2>1
  <2>3. QED
    BY <1>2, <2>2, RecordedTyped DEF EnterScalar
<1>6. LeaveObject(p, node) \in Outcome
  <2> DEFINE missed == {e \in {node.object[k] : k \in DOMAIN node.object} : e.id \notin satisfied}
             S == {plan.nodes[e.child].first : e \in missed}
  <2>1. \A e \in missed : e.child \in DOMAIN plan.nodes
    BY DEF Joined
  <2> HIDE DEF missed
  <2>2. S \in SUBSET Nat
    BY <1>3, <2>1
  <2>3. Min({NoSlot} \cup S) \in Nat
    BY <2>2, SlotLeast
  <2>4. RecordPathFailure(p, "missing_field", Min({NoSlot} \cup S)) \in Outcome
    BY <1>2, <2>3, RecordedTyped
  <2>5. QED
    BY <2>4 DEF LeaveObject, missed
<1>7. ASSUME NEW wanted \in Nat \ {0} PROVE LeaveArray(p, node, wanted) \in Outcome
  <2>1. CASE wanted <= Len(node.array)
    <3>1. wanted \in DOMAIN node.array
      BY <2>1, NodeType DEF Joined
    <3>2. plan.nodes[node.array[wanted].child].first \in Nat
      BY <1>3, <3>1 DEF Joined
    <3>3. QED
      BY <1>2, <2>1, <3>2, RecordedTyped DEF LeaveArray
  <2>2. CASE ~(wanted <= Len(node.array))
    BY <2>2 DEF LeaveArray
  <2>3. QED
    BY <2>1, <2>2
<1>8. QED
  BY <1>4, <1>5, <1>6, <1>7

\* The ends of a pass.
LEMMA EmptyTyped ==
  ASSUME IInv, request' = request, NEW u, Len(u) \in Nat
  PROVE  EmptySlots \in [0..(Len(request') - 1) -> 0..Len(u)]
BY DEF EmptySlots

LEMMA FailureTyped ==
  ASSUME IInv, UNCHANGED planVars, Len(tree') \in Nat, NEW code \in Codes, NEW slot \in Nat,
         FailProjection(code, slot)
  PROVE  PassTyped'
<1>1. /\ status' = [code |-> code, slot |-> slot] /\ satisfied' = {} /\ pending' = Ok
      /\ slots' = EmptySlots /\ request' = request
  BY DEF FailProjection, Finish, Return, planVars
<1>2. Ok \in Outcome /\ status' \in Outcome
  BY <1>1, OutcomeIs DEF Outcome, Codes
<1>3. QED
  BY <1>1, <1>2, EmptyTyped DEF PassTyped

LEMMA ConcludeTyped ==
  ASSUME IInv, UNCHANGED planVars, Len(tree') \in Nat, NEW p \in Outcome, NEW filled,
         filled \in [0..(Len(request) - 1) -> 0..Len(tree')], Conclude(p, filled)
  PROVE  PassTyped'
<1>1. NoSlot \in Nat /\ "internal_failure" \in Codes
  BY SourceAssumption DEF SourceAssumption, Codes
<1>2. request' = request /\ Ok \in Outcome
  BY OutcomeIs DEF planVars, Codes
<1>3. CASE p.code # "ok"
  <2>1. status' = p /\ satisfied' = {} /\ pending' = Ok /\ slots' = EmptySlots
    BY <1>3 DEF Conclude, Finish, Return
  <2>2. QED
    BY <1>2, <2>1, EmptyTyped DEF PassTyped
<1>4. CASE p.code = "ok" /\ \E s \in DOMAIN filled : filled[s] = 0
  <2>1. FailProjection("internal_failure", NoSlot)
    BY <1>4 DEF Conclude
  <2>2. QED
    BY <1>1, <2>1, FailureTyped
<1>5. CASE p.code = "ok" /\ ~\E s \in DOMAIN filled : filled[s] = 0
  <2>1. status' = Ok /\ satisfied' = {} /\ pending' = Ok /\ slots' = filled
    BY <1>5 DEF Conclude, Finish, Return
  <2>2. QED
    BY <1>2, <2>1 DEF PassTyped
<1>6. QED
  BY <1>3, <1>4, <1>5

\* What a pass has in hand: a finished plan, and marks at its nodes.
LEMMA InPass ==
  ASSUME IInv, PassInv, PlanInv, reader = "projection"
  PROVE  /\ PlanReady /\ Sound /\ Len(tree) \in Nat
         /\ pos > 0 <=> open # <<>>
         /\ marks # <<>> => /\ Last(marks).node \in {0} \cup DOMAIN plan.nodes
                            /\ Last(marks).wanted \in Nat \ {0}
                            /\ Joined(Node(Last(marks).node))
<1>1. stage = "ready" /\ op # "decode" /\ tree \in Seq(Values)
      /\ marks \in Seq(MarkShape) /\ (open # <<>> <=> marks # <<>>) /\ pos \in Nat
  BY WhileProjecting DEF Projections, Rows
<1>2. PlanReady /\ Sound
  BY <1>1, PlanSound DEF PassInv
<1>3. pos > 0 <=> open # <<>>
  BY ReaderPlaced
<1>4. ASSUME marks # <<>>
      PROVE  /\ Last(marks).node \in {0} \cup DOMAIN plan.nodes
             /\ Last(marks).wanted \in Nat \ {0}
             /\ Joined(Node(Last(marks).node))
  <2> DEFINE mark == Last(marks)
  <2>1. mark \in MarkShape
    BY <1>1, <1>4, FrontAndLast
  <2>2. mark.node \in {0} \cup DOMAIN plan.nodes
    BY <1>2, <2>1 DEF MarkShape, Sound
  <2>3. mark.wanted \in Nat \ {0}
    <3>1. pos # 0
      BY <1>1, <1>3, <1>4
    <3>2. PICK w : PassOf(plan, w, Paths, SoFar, open, marks, satisfied, slots, pending)
      BY <3>1, WithinPass
    <3>3. Cursor(plan, w, SoFar, open, marks)
      BY <3>2 DEF PassOf
    <3>4. mark \in MarkType
      BY <1>1, <1>4, <3>3, CursorShape
    <3>5. QED
      BY <3>4 DEF MarkType
  <2>4. Joined(Node(mark.node))
    BY <1>2, <2>2, NodeJoined
  <2>5. QED
    BY <2>2, <2>3, <2>4
<1>5. QED
  BY <1>1, <1>2, <1>3, <1>4

\* The tree only grows, so what is in a slot stays in the tree.
LEMMA TreeGrows ==
  ASSUME IInv, pos > 0 <=> open # <<>>, Look \/ tree' = tree
  PROVE  Len(tree) \in Nat /\ Len(tree') \in Nat /\ Len(tree) <= Len(tree')
<1>1. Placed /\ tree \in Seq(Values)
  BY DEF IInv, Placed, SourceShape
<1>2. CASE Look
  BY <1>1, <1>2, Looked
<1>3. CASE tree' = tree
  BY <1>1, <1>3
<1>4. QED
  BY <1>2, <1>3

LEMMA SlotsStay ==
  ASSUME Len(tree) \in Nat, NEW n \in Nat, Len(tree) <= n, PassTyped
  PROVE  slots \in [0..(Len(request) - 1) -> 0..n]
<1>1. 0..Len(tree) \subseteq 0..n
  OBVIOUS
<1>2. QED
  BY <1>1 DEF PassTyped

LEMMA MetTyped ==
  ASSUME IInv, PassInv, PlanInv, PassTyped, UNCHANGED planVars, NEW c, ReadNext(c), Met(c)
  PROVE  satisfied' \subseteq 1..plan'.edges
<1>1. reader = "projection" /\ marks # <<>> /\ c = Selected(Last(marks), tree'[pos'].label)
      /\ plan' = plan
  BY DEF ReadNext, Projecting, planVars
<1> DEFINE node == Node(Last(marks).node)
           key == tree'[pos'].label
<1>2. Joined(node)
  BY <1>1, InPass
<1>3. ASSUME c # 0, InObject
      PROVE  node.object[key].id \in 1..plan.edges
  <2>1. c = SelectedField(node, key)
    BY <1>1, <1>3 DEF Selected
  <2>2. key \in DOMAIN node.object
    BY <1>3, <2>1 DEF SelectedField, Unmet
  <2> HIDE DEF node, key
  <2>3. QED
    BY <1>2, <2>2 DEF Joined
<1>4. satisfied' = IF c # 0 /\ InObject THEN satisfied \cup {node.object[key].id} ELSE satisfied
  BY DEF Met
<1> HIDE DEF node, key
<1>5. QED
  BY <1>1, <1>3, <1>4 DEF PassTyped

\* A step within a pass.
LEMMA WithinTyped ==
  ASSUME IInv, PassTyped, UNCHANGED planVars, Continue, pending' \in Outcome,
         satisfied' \subseteq 1..plan'.edges, NEW n, n = Len(tree'),
         slots' \in [0..(Len(request) - 1) -> 0..n]
  PROVE  PassTyped'
BY DEF PassTyped, Continue, planVars

LEMMA FilledTyped ==
  ASSUME PassTyped, Len(tree) \in Nat, NEW n \in Nat, Len(tree) <= n, pos' \in 0..n, NEW node
  PROVE  FillSlots(node) \in [0..(Len(request) - 1) -> 0..n]
<1>1. slots \in [0..(Len(request) - 1) -> 0..n]
  BY SlotsStay
<1>2. QED
  BY <1>1 DEF FillSlots

\* The root of a pass.
LEMMA EnterRootTyped ==
  ASSUME IInv, PassInv, PlanInv, PassTyped, UNCHANGED planVars, NEW isRow, EnterRoot(isRow)
  PROVE  PassTyped'
<1>1. reader = "projection" /\ Look
  BY DEF EnterRoot, Projecting, Fetch
<1>2. Sound /\ (pos > 0 <=> open # <<>>)
  BY <1>1, InPass
<1>3. Len(tree) \in Nat /\ Len(tree') \in Nat /\ Len(tree) <= Len(tree')
  BY <1>1, <1>2, TreeGrows
<1> DEFINE kind == tree'[pos'].kind
<1>4. CASE FailProjection(ProjectionCode("INCOMPLETE_ARRAY_OR_OBJECT"), NoSlot)
  <2>1. ProjectionCode("INCOMPLETE_ARRAY_OR_OBJECT") \in Codes /\ NoSlot \in Nat
    BY SourceAssumption DEF SourceAssumption, ProjectionCode, Codes
  <2>2. QED
    BY <1>3, <1>4, <2>1, FailureTyped
<1>5. CASE /\ Continue /\ pending' = Enter(pending, plan.nodes[1], kind)
           /\ UNCHANGED <<satisfied, slots>>
  <2>1. pending' \in Outcome
    BY <1>2, <1>5, FailuresTyped DEF Sound, PassTyped
  <2>2. satisfied' \subseteq 1..plan'.edges
    BY <1>5 DEF PassTyped, planVars
  <2>3. slots' \in [0..(Len(request) - 1) -> 0..Len(tree')]
    BY <1>3, <1>5, SlotsStay
  <2>4. QED
    BY <1>5, <2>1, <2>2, <2>3, WithinTyped
<1>6. QED
  BY <1>4, <1>5 DEF EnterRoot

LEMMA RootScalarTyped ==
  ASSUME IInv, PassInv, PlanInv, PassTyped, UNCHANGED planVars, NEW isRow, ConsumeRootScalar(isRow)
  PROVE  PassTyped'
<1>1. reader = "projection" /\ Look
  BY DEF ConsumeRootScalar, Projecting, Fetch
<1>2. Sound /\ (pos > 0 <=> open # <<>>)
  BY <1>1, InPass
<1>3. Len(tree) \in Nat /\ Len(tree') \in Nat /\ Len(tree) <= Len(tree')
  BY <1>1, <1>2, TreeGrows
<1> DEFINE kind == tree'[pos'].kind
<1>4. kind \in Leaves
  BY DEF ConsumeRootScalar
<1>5. NoSlot \in Nat /\ ProjectionCode("TRAILING_CONTENT") \in Codes
      /\ ScalarStatus(kind) \in Codes
  BY <1>4, SourceAssumption, ScalarStatuses DEF SourceAssumption, ProjectionCode, Codes
<1>6. CASE FailProjection(ProjectionCode("TRAILING_CONTENT"), NoSlot)
  BY <1>3, <1>5, <1>6, FailureTyped
<1>7. CASE FailProjection(ScalarStatus(kind), NoSlot)
  BY <1>3, <1>5, <1>7, FailureTyped
<1>8. CASE Conclude(EnterScalar(pending, plan.nodes[1]), slots)
  <2>1. EnterScalar(pending, plan.nodes[1]) \in Outcome
    BY <1>2, FailuresTyped DEF Sound, PassTyped
  <2>2. slots \in [0..(Len(request) - 1) -> 0..Len(tree')]
    BY <1>3, SlotsStay
  <2>3. QED
    BY <1>3, <1>8, <2>1, <2>2, ConcludeTyped
<1>9. QED
  BY <1>6, <1>7, <1>8 DEF ConsumeRootScalar

\* The values of a container.
LEMMA ValueTyped ==
  ASSUME IInv, PassInv, PlanInv, PassTyped, UNCHANGED planVars, NEW c, ReadNext(c), Met(c),
         Continue, pending' \in Outcome, slots' = slots \/ slots' = FillSlots(Node(c))
  PROVE  PassTyped'
<1>1. reader = "projection" /\ Look /\ pos' = pos + 1
  BY DEF ReadNext, Projecting, Fetch
<1>2. (pos > 0 <=> open # <<>>) /\ pos \in Nat /\ Placed
  BY <1>1, InPass, WhileProjecting
<1>3. Len(tree) \in Nat /\ Len(tree') \in Nat /\ Len(tree) <= Len(tree')
  BY <1>1, <1>2, TreeGrows
<1>4. pos' \in 0..Len(tree')
  BY <1>1, <1>2, <1>3, Looked
<1>5. slots' \in [0..(Len(request) - 1) -> 0..Len(tree')]
  BY <1>3, <1>4, SlotsStay, FilledTyped
<1>6. satisfied' \subseteq 1..plan'.edges
  BY MetTyped
<1>7. QED
  BY <1>5, <1>6, WithinTyped

LEMMA RejectTyped ==
  ASSUME IInv, PassInv, PlanInv, PassTyped, UNCHANGED planVars,
         NEW c \in {0} \cup DOMAIN plan.nodes, RejectValue(c)
  PROVE  PassTyped'
<1>1. reader = "projection" /\ Look
  BY DEF RejectValue, ReadNext, Projecting, Fetch
<1>2. Sound /\ (pos > 0 <=> open # <<>>)
  BY <1>1, InPass
<1>3. Len(tree') \in Nat
  BY <1>1, <1>2, TreeGrows
<1> DEFINE kind == tree'[pos'].kind
<1>4. PICK code, slot : /\ FailProjection(code, slot)
                        /\ \/ code = ProjectionCode(Error(kind)) /\ kind = "torn" /\ slot = NoSlot
                           \/ code = ProjectionCode("DEPTH_ERROR") /\ slot = NoSlot
                           \/ /\ code = ScalarStatus(kind) /\ kind \in Leaves
                              /\ slot \in {NoSlot, FirstSlot(Node(c))}
  BY DEF RejectValue
<1>5. code \in Codes
  <2>1. kind = "torn" => ProjectionCode(Error(kind)) \in Codes
    BY DEF ProjectionCode, Codes
  <2>2. ProjectionCode("DEPTH_ERROR") \in Codes
    BY DEF ProjectionCode, Codes
  <2>3. kind \in Leaves => ScalarStatus(kind) \in Codes
    BY ScalarStatuses DEF Codes
  <2>4. QED
    BY <1>4, <2>1, <2>2, <2>3
<1>6. slot \in Nat
  <2>1. NoSlot \in Nat
    BY SourceAssumption DEF SourceAssumption
  <2>2. FirstSlot(Node(c)) \in Nat
    BY <1>2, NodeJoined, FirstsAreSlots
  <2>3. QED
    BY <1>4, <2>1, <2>2
<1>7. QED
  BY <1>3, <1>4, <1>5, <1>6, FailureTyped

\* The end of a container.
LEMMA LeftTyped ==
  ASSUME IInv, PassInv, PlanInv, PassTyped, UNCHANGED planVars, LeaveContainer
  PROVE  PassTyped'
<1> DEFINE mark == Last(marks)
           node == Node(mark.node)
           left == IF InObject THEN LeaveObject(pending, node)
                               ELSE LeaveArray(pending, node, mark.wanted)
<1>1. reader = "projection" /\ open # <<>> /\ tree' = tree
  BY DEF LeaveContainer, Projecting, Exhausted, Ascend
<1>2. marks # <<>>
  BY <1>1, WhileProjecting
<1>3. Sound /\ mark.wanted \in Nat \ {0} /\ Joined(node) /\ Len(tree) \in Nat
  BY <1>1, <1>2, InPass
<1>4. left \in Outcome
  BY <1>3, FailuresTyped DEF PassTyped
<1>5. IF Len(open) = 1 THEN Conclude(left, slots)
      ELSE Continue /\ pending' = left /\ UNCHANGED <<satisfied, slots>>
  BY DEF LeaveContainer
<1> HIDE DEF left
<1>6. slots \in [0..(Len(request) - 1) -> 0..Len(tree')]
  BY <1>1 DEF PassTyped
<1>7. CASE Len(open) = 1
  BY <1>1, <1>3, <1>4, <1>5, <1>6, <1>7, ConcludeTyped
<1>8. CASE Len(open) # 1
  <2>1. satisfied' \subseteq 1..plan'.edges
    BY <1>5, <1>8 DEF PassTyped, planVars
  <2>2. QED
    BY <1>4, <1>5, <1>6, <1>8, <2>1, WithinTyped
<1>9. QED
  BY <1>7, <1>8

\* Every step of the projection.
LEMMA ProjectTyped == IInv /\ PassInv /\ PlanInv /\ PassTyped /\ Project => PassTyped'
<1> SUFFICES ASSUME IInv, PassInv, PlanInv, PassTyped, Project
             PROVE  PassTyped'
  OBVIOUS
<1>1. UNCHANGED planVars
  BY DEF Project
<1>2. CASE CancelProjection
  <2>1. reader = "projection" /\ FailProjection("cancelled", NoSlot) /\ tree' = tree
    BY <1>2 DEF CancelProjection, Projecting
  <2>2. Len(tree') \in Nat
    BY <2>1, InPass
  <2>3. NoSlot \in Nat /\ "cancelled" \in Codes
    BY SourceAssumption DEF SourceAssumption, Codes
  <2>4. QED
    BY <1>1, <2>1, <2>2, <2>3, FailureTyped
<1> DEFINE isRow == op \in Rows
<1> HIDE DEF isRow
<1>3. CASE EnterRoot(isRow)
  BY <1>1, <1>3, EnterRootTyped
<1>4. CASE ConsumeRootScalar(isRow)
  BY <1>1, <1>4, RootScalarTyped
<1>5. CASE SkipContainer \/ SkipScalar
  <2>1. /\ ReadNext(0) /\ Met(0) /\ Continue /\ slots' = slots /\ pending' = pending
    BY <1>5 DEF SkipContainer, SkipScalar, Met
  <2>2. QED
    BY <1>1, <2>1, ValueTyped DEF PassTyped
<1>6. CASE LeaveSkipped
  BY <1>1, <1>6 DEF LeaveSkipped, Ascend, Continue, PassTyped, planVars
<1>7. ASSUME NEW n \in DOMAIN plan.nodes, EnterContainer(n) \/ MaterializeScalar(n)
      PROVE  PassTyped'
  <2>1. /\ ReadNext(n) /\ Met(n) /\ Continue /\ (slots' = slots \/ slots' = FillSlots(Node(n)))
        /\ pending' \in {Enter(pending, Node(n), tree'[pos'].kind), EnterScalar(pending, Node(n))}
    BY <1>7 DEF EnterContainer, MaterializeScalar
  <2>2. Sound
    BY <2>1, InPass DEF ReadNext, Projecting
  <2>3. Joined(Node(n))
    BY <2>2, NodeJoined
  <2>4. pending' \in Outcome
    BY <2>1, <2>2, <2>3, FailuresTyped DEF PassTyped
  <2>5. QED
    BY <1>1, <2>1, <2>4, ValueTyped
<1>8. ASSUME NEW n \in {0} \cup DOMAIN plan.nodes, RejectValue(n)
      PROVE  PassTyped'
  BY <1>1, <1>8, RejectTyped
<1>9. CASE LeaveContainer
  BY <1>1, <1>9, LeftTyped
<1>10. QED
  BY <1>2, <1>3, <1>4, <1>5, <1>6, <1>7, <1>8, <1>9 DEF Project, ProjectionStep, isRow

LEMMA OtherTyped ==
  ASSUME PassTyped, Len(tree) \in Nat, Len(tree') \in Nat, Len(tree) <= Len(tree'),
         status' \in Outcome, request' = request, satisfied = {} \/ plan' = plan,
         satisfied' = satisfied, pending' = pending, slots' = slots
  PROVE  PassTyped'
<1>1. slots' \in [0..(Len(request) - 1) -> 0..Len(tree')]
  BY SlotsStay
<1>2. QED
  BY <1>1 DEF PassTyped

\* The initial states, and then the steps one by one.
LEMMA InitTyped == Init => Typed
<1> SUFFICES ASSUME Init PROVE Typed
  OBVIOUS
<1>1. /\ tree = <<>> /\ status = Ok /\ pending = Ok /\ satisfied = {} /\ slots = EmptySlots
      /\ graph = EmptyGraph /\ op \in Ops /\ calls = 0
  BY DEF Init, SourceInit, ProjectionInit, DecodeInit
<1>2. Ok \in Outcome /\ MaxCalls \in Nat
  BY OutcomeIs, OperationAssumption DEF OperationAssumption, Codes
<1>3. Len(tree) \in Nat
  BY <1>1
<1>4. PassTyped
  BY <1>1, <1>2, <1>3 DEF PassTyped, EmptySlots
<1>5. QED
  BY <1>1, <1>2, <1>4 DEF Typed, InBounds, EmptyGraph

LEMMA MakePlanTyped == IInv /\ PassInv /\ Typed /\ MakePlan => Typed'
<1> SUFFICES ASSUME IInv, PassInv, Typed, MakePlan PROVE Typed'
  OBVIOUS
<1>1. /\ stage = "plan" /\ tree' = tree /\ op' = op /\ calls' = calls /\ graph' = graph
      /\ satisfied' = satisfied /\ pending' = pending /\ slots' = slots
      /\ status' = status \/ \E code \in {"out_of_memory", "invalid_argument"} :
                               status' = [code |-> code, slot |-> NoSlot]
      /\ request' = request
  BY DEF MakePlan, source, engineVars, projectionVars, decodeVars, planVars, BeginPlan, PlanSlot,
         PlanLost
<1>2. reader = "none" /\ Len(tree) \in Nat
  BY <1>1 DEF IInv, Flow, Placed, SourceShape
<1>3. satisfied = {}
  BY <1>2 DEF PassInv
<1>4. status' \in Outcome
  BY <1>1, OutcomeIs DEF Typed, PassTyped, Codes
<1>5. PassTyped'
  BY <1>1, <1>2, <1>3, <1>4, OtherTyped DEF Typed
<1>6. QED
  BY <1>1, <1>5 DEF Typed

LEMMA OpenTyped == IInv /\ PassInv /\ Typed /\ OpenDocument => Typed'
<1> SUFFICES ASSUME IInv, PassInv, Typed, OpenDocument PROVE Typed'
  OBVIOUS
<1>1. /\ tree' = tree /\ op' = op /\ calls' = calls /\ graph' = graph
      /\ satisfied' = satisfied /\ pending' = pending /\ slots' = slots
      /\ status' = status \/ \E code \in {"malformed", "out_of_memory"} :
                               status' = [code |-> code, slot |-> NoSlot]
      /\ request' = request /\ plan' = plan
  BY DEF OpenDocument, source, engineVars, projectionVars, decodeVars, planVars
<1>2. Len(tree) \in Nat
  BY DEF IInv, Placed, SourceShape
<1>3. status' \in Outcome
  BY <1>1, OutcomeIs DEF Typed, PassTyped, Codes
<1>4. PassTyped'
  BY <1>1, <1>2, <1>3, OtherTyped DEF Typed
<1>5. QED
  BY <1>1, <1>4 DEF Typed

LEMMA ValidationTyped ==
  IInv /\ PassInv /\ Typed /\ (ValidateRoot \/ ValidateValue \/ ValidateEnd) => Typed'
<1> SUFFICES ASSUME IInv, PassInv, Typed, ValidateRoot \/ ValidateValue \/ ValidateEnd PROVE Typed'
  OBVIOUS
<1>1. /\ Validating /\ (Look \/ tree' = tree)
      /\ status' = status \/ \E code \in {"ok", "malformed", "out_of_memory"} :
                               status' = [code |-> code, slot |-> NoSlot]
  BY DEF ValidateRoot, ValidateValue, ValidateEnd, Validating, Fetch, Ascend, Invalid, Fail, Return,
         Publish, Continue, Ok
<1>2. /\ reader = "validation" /\ op' = op /\ calls' = calls /\ graph' = graph
      /\ satisfied' = satisfied /\ pending' = pending /\ slots' = slots
      /\ request' = request /\ plan' = plan
  BY <1>1 DEF Validating, engineVars, projectionVars, decodeVars, planVars
<1>3. Len(tree) \in Nat /\ Len(tree') \in Nat /\ Len(tree) <= Len(tree')
  <2>1. pos > 0 <=> open # <<>>
    BY <1>2, ReaderPlaced
  <2>2. QED
    BY <1>1, <2>1, TreeGrows
<1>4. status' \in Outcome
  BY <1>1, OutcomeIs DEF Typed, PassTyped, Codes
<1>5. PassTyped'
  BY <1>2, <1>3, <1>4, OtherTyped DEF Typed
<1>6. QED
  BY <1>2, <1>5 DEF Typed

LEMMA CallTyped == IInv /\ PassInv /\ Typed /\ Call => Typed'
<1> SUFFICES ASSUME IInv, PassInv, Typed, Call PROVE Typed'
  OBVIOUS
<1>1. /\ UNCHANGED <<planVars, op, stage>> /\ calls' = calls + 1 /\ calls < Executions
      /\ calls \in Nat /\ Len(tree) \in Nat
  BY DEF Call, IInv, Flow, Placed, SourceShape
<1>a. Executions \in Nat /\ Executions <= MaxCalls /\ MaxCalls \in Nat
  BY OperationAssumption DEF Executions, OperationAssumption
<1>2. op' \in Ops /\ calls' <= MaxCalls
  BY <1>1, <1>a DEF Typed
<1>3. CASE UNCHANGED projectionVars /\ (CreateMaterializer \/ ExecuteDecode)
  <2>1. /\ tree' = tree /\ satisfied' = satisfied /\ pending' = pending /\ slots' = slots
        /\ graph' = graph \/ graph' = EmptyGraph
        /\ \E code \in {"ok", "invalid_argument", "out_of_memory", "cancelled", "cursor_consumed"} :
             status' = [code |-> code, slot |-> NoSlot]
    BY <1>3 DEF CreateMaterializer, ExecuteDecode, FailDecode, Fail, Return, projectionVars, source,
                Ok
  <2>2. status' \in Outcome
    BY <2>1, OutcomeIs DEF Codes
  <2>3. PassTyped'
    BY <1>1, <2>1, <2>2, OtherTyped DEF Typed, planVars
  <2>4. InBounds(graph')
    BY <2>1 DEF Typed, InBounds, EmptyGraph
  <2>5. QED
    BY <1>2, <2>3, <2>4 DEF Typed
<1>4. CASE (Execute \/ ExecuteValue) /\ UNCHANGED decodeVars
  <2>1. /\ tree' = tree /\ satisfied' = satisfied /\ pending' = pending /\ slots' = EmptySlots
        /\ graph' = graph /\ plan' = plan /\ request' = request
        /\ \E code \in {"ok", "out_of_memory", "cancelled", "cursor_consumed"} :
             status' = [code |-> code, slot |-> NoSlot]
    BY <1>1, <1>4 DEF Execute, ExecuteValue, source, decodeVars, planVars, Ok
  <2>2. status' \in Outcome
    BY <2>1, OutcomeIs DEF Codes
  <2>3. slots' \in [0..(Len(request') - 1) -> 0..Len(tree')]
    BY <1>1, <2>1, EmptyTyped
  <2>4. PassTyped'
    BY <2>1, <2>2, <2>3 DEF Typed, PassTyped
  <2>5. QED
    BY <1>2, <2>1, <2>4 DEF Typed
<1>5. QED
  BY <1>3, <1>4 DEF Call

LEMMA DecodeStepTyped == IInv /\ DInv /\ PassInv /\ Typed /\ Decode => Typed'
<1> SUFFICES ASSUME IInv, DInv, PassInv, Typed, Decode PROVE Typed'
  OBVIOUS
<1>1. /\ reader = "materializer" /\ UNCHANGED <<planVars, op, stage, calls>>
      /\ satisfied' = satisfied /\ pending' = pending /\ slots' = slots
  BY DEF Decode, DecodeStep, OpenRoot, ReadChild, FinalizeFrame, InterruptDecode, Decoding,
         projectionVars
<1>2. status' \in Outcome /\ InBounds(graph')
  BY DecodeTyped DEF Typed, PassTyped
<1>3. Len(tree) \in Nat /\ Len(tree') \in Nat /\ Len(tree) <= Len(tree')
  <2>1. Look \/ tree' = tree
    BY DEF Decode, DecodeStep, OpenRoot, ReadChild, FinalizeFrame, InterruptDecode, Fetch, Ascend
  <2>2. pos > 0 <=> open # <<>>
    BY <1>1, ReaderPlaced
  <2>3. QED
    BY <2>1, <2>2, TreeGrows
<1>4. PassTyped'
  BY <1>1, <1>2, <1>3, OtherTyped DEF Typed, planVars
<1>5. QED
  BY <1>1, <1>2, <1>4 DEF Typed

LEMMA ProjectStepTyped == IInv /\ PassInv /\ PlanInv /\ Typed /\ Project => Typed'
<1>1. Project => graph' = graph /\ op' = op /\ calls' = calls
  BY DEF Project, decodeVars
<1>2. QED
  BY <1>1, ProjectTyped DEF Typed

LEMMA StutterTyped == Typed /\ UNCHANGED vars => Typed'
BY DEF Typed, PassTyped, InBounds, vars, sourceVars, source, planVars, projectionVars, decodeVars

LEMMA NextTyped == IInv /\ DInv /\ PassInv /\ PlanInv /\ Typed /\ [Next]_vars => Typed'
BY MakePlanTyped, OpenTyped, ValidationTyped, CallTyped, ProjectStepTyped, DecodeStepTyped,
   StutterTyped DEF Next, Over

\* What the invariants say of the types of the engines.
LEMMA TypesFollow == IInv /\ DInv /\ PassInv /\ PlanInv /\ Typed => EnginesTypeOK
<1> SUFFICES ASSUME IInv, DInv, PassInv, PlanInv, Typed PROVE EnginesTypeOK
  OBVIOUS
<1>1. SourceShape /\ Flow /\ Marked
  BY DEF IInv, Placed
<1>2. SourceTypeOK
  <2>1. Len(tree) \in Nat /\ pos \in 0..Len(tree) /\ open \in Seq(1..pos)
    BY <1>1 DEF SourceShape
  <2>2. open \in Seq(1..Len(tree))
    <3>1. \A i \in 1..Len(open) : open[i] \in 1..Len(tree)
      BY <2>1
    <3>2. QED
      BY <2>1, <3>1, Retyped
  <2>3. status \in [code : Codes, slot : Nat]
    BY DEF Typed, PassTyped, Outcome
  <2>4. reader \in {"none", "validation", "projection", "materializer"}
    BY <1>1 DEF Flow
  <2>5. QED
    BY <1>1, <2>2, <2>3, <2>4 DEF SourceTypeOK, SourceShape
<1>3. ProjectionTypeOK
  <2>1. ASSUME NEW m \in ToSet(marks) PROVE m.node \in {0} \cup DOMAIN plan.nodes
    <3>1. marks \in Seq(MarkShape) /\ marks # <<>>
      BY <1>1, <2>1 DEF Marked, ToSet
    <3>2. m \in MarkShape
      BY <2>1, <3>1, ElementOfSeq DEF ToSet
    <3>3. reader = "projection"
      BY <1>1, <3>1, EmptySeq DEF Marked
    <3>4. 1 \in DOMAIN plan.nodes
      BY <3>3, InPass DEF Sound
    <3>5. QED
      BY <3>2, <3>4 DEF MarkShape
  <2>2. claimed \in BOOLEAN /\ Len(marks) = (IF reader = "projection" THEN Len(open) ELSE 0)
    BY <1>1 DEF Flow, Marked
  <2>3. QED
    BY <2>1, <2>2 DEF ProjectionTypeOK, Typed, PassTyped, Outcome
<1>4. DecodeTypeOK
  BY DecodeTypes DEF Typed
<1>5. op \in Ops /\ stage \in {"plan", "open", "ready", "over"} /\ calls \in 0..MaxCalls
  BY <1>1, OperationAssumption DEF Typed, Flow, OperationAssumption
<1>6. QED
  BY <1>2, <1>3, <1>4, <1>5 DEF EnginesTypeOK

(***************************************************************************)
(* In every state of the specification every variable of the engines has   *)
(* its type: a mark stands for a node the plan has, an edge that was met   *)
(* has one of the plan's numbers, a slot holds a value that was read, and  *)
(* what a decoder has built points nowhere but into its own nodes.         *)
(***************************************************************************)
THEOREM TypeCorrect == Spec => []EnginesTypeOK
<1>1. Init => Typed
  BY InitTyped
<1>2. Spec => [](IInv /\ DInv /\ PassInv /\ PlanInv)
  BY DecodeInvariant, PassAlways, PlanInvAlways, PTL
<1>3. IInv /\ DInv /\ PassInv /\ PlanInv /\ Typed /\ [Next]_vars => Typed'
  BY NextTyped
<1>4. Spec => []Typed
  BY <1>1, <1>2, <1>3, PTL DEF Spec
<1>5. QED
  BY <1>2, <1>4, TypesFollow, PTL
=============================================================================
