-------------------------- MODULE ProjectionProofs --------------------------
(***************************************************************************)
(* Proofs about projections, for any source and any request: what the      *)
(* single pass over the source along the compiled plan answers is what     *)
(* following every path on its own finds.                                  *)
(***************************************************************************)
EXTENDS NativeDocumentProofs

-----------------------------------------------------------------------------
(* Where a path leads in a source. *)

\* The step of Resolve.
Wanted(e) == IF e.tag = "key" THEN "object" ELSE "array"
NoneAt(e) == IF e.tag = "key" THEN "missing_field" ELSE "index_out_of_bounds"
Matching(t, v, e) == {m \in Members(t, v) : t[m].label = e.value}
Stop(r, e, code) == [at |-> r.at, code |-> code, value |-> e.value]
Go(t, r, e) ==
  IF r.code # "ok" THEN r
  ELSE IF t[r.at].kind # Wanted(e) THEN Stop(r, e, "incorrect_type")
  ELSE IF Matching(t, r.at, e) = {} THEN Stop(r, e, NoneAt(e))
  ELSE [r EXCEPT !.at = Min(Matching(t, r.at, e))]

Start == [at |-> 1, code |-> "ok", value |-> 0]
Trace(t, path) == LET Step(r, e) == Go(t, r, e) IN FoldLeft(Step, Start, path)

\* Text is what can be followed; a place is where a path stops.
Text(t) == t \in Seq(Values) /\ t # <<>> /\ InOrder(t)
Place(t) == [at : DOMAIN t, code : {"ok", "incorrect_type", "missing_field", "index_out_of_bounds"},
             value : Nat]

LEMMA TextShape ==
  ASSUME NEW t, Text(t)
  PROVE  /\ Len(t) \in Nat \ {0} /\ DOMAIN t = 1..Len(t) /\ 1 \in DOMAIN t
         /\ \A n \in DOMAIN t : /\ t[n].up \in Nat /\ t[n].up < n /\ (t[n].up = 0 <=> n = 1)
                                /\ n \in Nat \ {0} /\ n <= Len(t)
<1>1. /\ t \in Seq(Values) /\ t # <<>>
      /\ \A n \in DOMAIN t : t[n].up < n /\ (t[n].up = 0 <=> n = 1)
  BY DEF Text, InOrder
<1>2. Len(t) \in Nat \ {0} /\ DOMAIN t = 1..Len(t) /\ 1 \in DOMAIN t
  BY <1>1, EmptySeq
<1>3. \A n \in DOMAIN t : t[n].up \in Nat
  BY <1>1, ValueShape
<1>4. QED
  BY <1>1, <1>2, <1>3

LEMMA MatchingIs ==
  ASSUME NEW t, Text(t), NEW v \in DOMAIN t, NEW e \in Segment
  PROVE  /\ Matching(t, v, e) \subseteq Nat
         /\ \A m \in Matching(t, v, e) : m \in DOMAIN t /\ t[m].up = v /\ t[m].label = e.value
                                         /\ m # v /\ m # 1
         /\ Matching(t, v, e) # {} =>
              /\ Min(Matching(t, v, e)) \in Matching(t, v, e)
              /\ \A m \in Matching(t, v, e) : Min(Matching(t, v, e)) <= m
<1> DEFINE M == Matching(t, v, e)
<1>1. \A m \in M : m \in DOMAIN t /\ t[m].up = v /\ t[m].label = e.value
  BY DEF Matching, Members
<1>2. \A m \in M : m \in Nat /\ m # v /\ m # 1
  BY <1>1, TextShape
<1> HIDE DEF M
<1>3. M # {} => Min(M) \in M /\ \A m \in M : Min(M) <= m
  <2>1. M \subseteq Nat
    BY <1>2
  <2>2. QED
    BY <2>1, MinIs
<1>4. QED
  BY <1>1, <1>2, <1>3 DEF M

LEMMA GoType ==
  ASSUME NEW t, Text(t), NEW r \in Place(t), NEW e \in Segment
  PROVE  Go(t, r, e) \in Place(t)
<1> DEFINE M == Matching(t, r.at, e)
<1>1. r.at \in DOMAIN t /\ e.value \in Nat /\ NoneAt(e) \in {"missing_field", "index_out_of_bounds"}
  BY DEF Place, Segment, NoneAt
<1>2. M # {} => Min(M) \in DOMAIN t
  BY <1>1, MatchingIs
<1> HIDE DEF M
<1>3. M # {} => [r EXCEPT !.at = Min(M)] \in Place(t)
  BY <1>2 DEF Place
<1>4. Stop(r, e, "incorrect_type") \in Place(t) /\ Stop(r, e, NoneAt(e)) \in Place(t)
  BY <1>1 DEF Place, Stop
<1>5. QED
  BY <1>3, <1>4 DEF Go, M

TraceFold(it, t, path) ==
  it = [s \in SUBSET DOMAIN path |->
          IF s = {} THEN Start ELSE Go(t, it[s \ {Max(s)}], path[Max(s)])]

LEMMA TraceIs ==
  ASSUME NEW t, NEW path
  PROVE  Trace(t, path) = (CHOOSE it : TraceFold(it, t, path))[DOMAIN path]
BY DEF Trace, FoldLeft, MapThenFoldSet, TraceFold

LEMMA TraceFoldExists ==
  ASSUME NEW t, Text(t), NEW path \in Path
  PROVE  \E it : TraceFold(it, t, path)
<1> DEFINE V == Place(t)
           F == [z \in V \X Segment |-> Go(t, z[1], z[2])]
           N == Len(path)
<1>1. Start \in V
  BY TextShape DEF Start, Place
<1>2. ASSUME NEW r \in V, NEW seg \in Segment
      PROVE  Go(t, r, seg) \in V
  BY GoType
<1> HIDE DEF V
<1>3. \A z \in V \X Segment : Go(t, z[1], z[2]) \in V
  BY <1>2
<1>4. F \in [V \X Segment -> V] /\ \A r \in V, seg \in Segment : F[<<r, seg>>] = Go(t, r, seg)
  BY <1>3
<1> HIDE DEF F
<1>5. N \in Nat /\ DOMAIN path = 1..N /\ path \in [1..N -> Segment]
  BY DEF Path
<1> HIDE DEF N
<1>6. PICK it : Solved(it, N, V, Start, path, F)
  BY <1>1, <1>4, <1>5, FoldSolved, Zenon
<1>7. /\ it \in [SUBSET (1..N) -> V]
      /\ \A s \in SUBSET (1..N) :
           it[s] = IF s = {} THEN Start ELSE F[<<it[s \ {Max(s)}], path[Max(s)]>>]
  BY <1>6 DEF Solved
<1>8. ASSUME NEW s \in SUBSET (1..N)
      PROVE  it[s] = IF s = {} THEN Start ELSE Go(t, it[s \ {Max(s)}], path[Max(s)])
  <2>1. CASE s = {}
    BY <1>7, <2>1
  <2>2. CASE s # {}
    <3>1. Max(s) \in s
      <4>1. s \subseteq 0..N
        OBVIOUS
      <4>2. QED
        BY <1>5, <2>2, <4>1, MaxIs
    <3>2. path[Max(s)] \in Segment /\ it[s \ {Max(s)}] \in V
      BY <1>5, <1>7, <3>1
    <3>3. F[<<it[s \ {Max(s)}], path[Max(s)]>>] = Go(t, it[s \ {Max(s)}], path[Max(s)])
      BY <1>4, <3>2
    <3>4. QED
      BY <1>7, <2>2, <3>3
  <2>3. QED
    BY <2>1, <2>2
<1>9. TraceFold(it, t, path)
  BY <1>5, <1>7, <1>8 DEF TraceFold
<1>10. QED
  BY <1>9

\* A path is followed step by step.
Run(h, t, path) ==
  /\ h \in [0..Len(path) -> Place(t)] /\ h[0] = Start
  /\ \A i \in 0..(Len(path) - 1) : h[i + 1] = Go(t, h[i], path[i + 1])

LEMMA TraceRuns ==
  ASSUME NEW t, Text(t), NEW path \in Path
  PROVE  \E h : Run(h, t, path) /\ Trace(t, path) = h[Len(path)]
<1> DEFINE N == Len(path)
           it == CHOOSE it : TraceFold(it, t, path)
           h == [i \in 0..N |-> it[1..i]]
           T == {i \in 0..N : h[i] \in Place(t)}
<1>1. TraceFold(it, t, path)
  BY TraceFoldExists
<1>2. N \in Nat /\ DOMAIN path = 1..N /\ \A i \in 1..N : path[i] \in Segment
  BY DEF Path
<1>3. Trace(t, path) = it[1..N]
  BY <1>2, TraceIs
<1> HIDE DEF it, N
<1>4. it[1..0] = Start
  <2>1. 1..0 = {} /\ {} \in SUBSET (1..N)
    OBVIOUS
  <2>2. QED
    BY <1>1, <1>2, <2>1 DEF TraceFold
<1>5. ASSUME NEW i \in 0..(N - 1)
      PROVE  it[1..(i + 1)] = Go(t, it[1..i], path[i + 1])
  <2>1. 1..(i + 1) \in SUBSET (1..N) /\ i \in Nat
    BY <1>2
  <2>2. Max(1..(i + 1)) = i + 1 /\ (1..(i + 1)) \ {i + 1} = 1..i /\ 1..(i + 1) # {}
    BY <2>1, IntervalNext
  <2> DEFINE S == 1..(i + 1)
  <2>3. it[S] = IF S = {} THEN Start ELSE Go(t, it[S \ {Max(S)}], path[Max(S)])
    BY <1>1, <1>2, <2>1 DEF TraceFold
  <2>4. QED
    BY <2>2, <2>3
<1>6. \A i \in 0..N : h[i] = it[1..i]
  OBVIOUS
<1>7. h[0] = Start /\ \A i \in 0..(N - 1) : h[i + 1] = Go(t, h[i], path[i + 1])
  <2>1. 0 \in 0..N /\ \A i \in 0..(N - 1) : i \in 0..N /\ i + 1 \in 0..N
    BY <1>2
  <2>2. QED
    BY <1>4, <1>5, <1>6, <2>1
<1>8. DOMAIN h = 0..N
  OBVIOUS
<1> HIDE DEF h
<1>9. 0 \in T
  BY <1>2, <1>7, TextShape DEF Start, Place
<1>10. ASSUME NEW i \in 0..N, i \in T, i + 1 <= N
       PROVE  i + 1 \in T
  <2>1. i \in 0..(N - 1) /\ i + 1 \in 1..N
    BY <1>2, <1>10
  <2>2. path[i + 1] \in Segment /\ h[i] \in Place(t) /\ h[i + 1] = Go(t, h[i], path[i + 1])
    BY <1>2, <1>7, <1>10, <2>1
  <2>3. h[i + 1] \in Place(t)
    BY <2>2, GoType
  <2>4. QED
    BY <2>1, <2>3
<1> HIDE DEF T
<1>11. \A i \in 0..N : i \in T
  <2>1. \A i \in 0..N : i \in T /\ i + 1 <= N => i + 1 \in T
    BY <1>10
  <2>2. QED
    BY <1>2, <1>9, <2>1, Reached, Zenon
<1>12. h \in [0..N -> Place(t)]
  <2>1. \A i \in 0..N : h[i] \in Place(t)
    BY <1>11 DEF T
  <2>2. h = [i \in 0..N |-> h[i]]
    BY DEF h
  <2>3. QED
    BY <2>1, <2>2
<1>13. Run(h, t, path)
  BY <1>7, <1>12 DEF Run, N
<1>14. Trace(t, path) = h[N]
  BY <1>2, <1>3, <1>6
<1>15. QED
  BY <1>13, <1>14 DEF N

LEMMA TraceEmpty ==
  ASSUME NEW t, Text(t)
  PROVE  Trace(t, <<>>) = Start
<1>1. <<>> \in Path /\ Len(<<>>) = 0
  BY DEF Path
<1>2. PICK h : Run(h, t, <<>>) /\ Trace(t, <<>>) = h[Len(<<>>)]
  BY <1>1, TraceRuns
<1>3. QED
  BY <1>1, <1>2 DEF Run

LEMMA TraceNext ==
  ASSUME NEW t, Text(t), NEW a \in Path, NEW e \in Segment
  PROVE  Trace(t, Append(a, e)) = Go(t, Trace(t, a), e) /\ Trace(t, a) \in Place(t)
<1> DEFINE b == Append(a, e)
           N == Len(a)
<1>1. b \in Path /\ Len(b) = N + 1 /\ N \in Nat /\ b[N + 1] = e
      /\ \A i \in 1..N : b[i] = a[i]
  BY AppendProperties DEF Path
<1> HIDE DEF b
<1>2. PICK g : Run(g, t, a) /\ Trace(t, a) = g[N]
  BY TraceRuns
<1>3. PICK h : Run(h, t, b) /\ Trace(t, b) = h[N + 1]
  BY <1>1, TraceRuns
<1> HIDE DEF N
<1> DEFINE T == {i \in 0..N : g[i] = h[i]}
<1>4. /\ g[0] = Start /\ \A i \in 0..(N - 1) : g[i + 1] = Go(t, g[i], a[i + 1])
      /\ g \in [0..N -> Place(t)]
  BY <1>2 DEF Run, N
<1>5. h[0] = Start /\ \A i \in 0..N : h[i + 1] = Go(t, h[i], b[i + 1])
  BY <1>1, <1>3 DEF Run
<1>6. 0 \in T
  BY <1>1, <1>4, <1>5
<1>7. ASSUME NEW i \in 0..N, i \in T, i + 1 <= N
      PROVE  i + 1 \in T
  <2>1. i \in 0..(N - 1) /\ i + 1 \in 1..N /\ i + 1 \in 0..N
    BY <1>1, <1>7
  <2>2. g[i] = h[i] /\ b[i + 1] = a[i + 1]
    BY <1>1, <1>7, <2>1
  <2>3. g[i + 1] = h[i + 1]
    BY <1>4, <1>5, <2>1, <2>2
  <2>4. QED
    BY <2>1, <2>3
<1> HIDE DEF T
<1>8. \A i \in 0..N : i \in T
  <2>1. \A i \in 0..N : i \in T /\ i + 1 <= N => i + 1 \in T
    BY <1>7
  <2>2. QED
    BY <1>1, <1>6, <2>1, Reached, Zenon
<1>9. g[N] = h[N] /\ N \in 0..N
  BY <1>1, <1>8 DEF T
<1>10. h[N + 1] = Go(t, h[N], b[N + 1]) /\ g[N] \in Place(t)
  BY <1>4, <1>5, <1>9
<1>11. QED
  BY <1>1, <1>2, <1>3, <1>9, <1>10 DEF b

\* The value a path leads to; 0 when it leads nowhere.
Spot(t, path) == IF Trace(t, path).code = "ok" THEN Trace(t, path).at ELSE 0
First(t, v, e) ==
  IF t[v].kind = Wanted(e) /\ Matching(t, v, e) # {} THEN Min(Matching(t, v, e)) ELSE 0

LEMMA SpotRoot ==
  ASSUME NEW t, Text(t)
  PROVE  Spot(t, <<>>) = 1
BY TraceEmpty DEF Spot, Start

LEMMA SpotNext ==
  ASSUME NEW t, Text(t), NEW a \in Path, NEW e \in Segment
  PROVE  /\ Spot(t, a) \in {0} \cup DOMAIN t
         /\ Spot(t, a) = 0 => Spot(t, Append(a, e)) = 0
         /\ Spot(t, a) # 0 => Spot(t, Append(a, e)) = First(t, Spot(t, a), e)
<1> DEFINE r == Trace(t, a)
           q == Trace(t, Append(a, e))
           M == Matching(t, r.at, e)
<1>1. q = Go(t, r, e) /\ r \in Place(t)
  BY TraceNext
<1>2. r.at \in DOMAIN t /\ r.at # 0 /\ r = [at |-> r.at, code |-> r.code, value |-> r.value]
  <2>1. r.at \in DOMAIN t /\ r = [at |-> r.at, code |-> r.code, value |-> r.value]
    BY <1>1 DEF Place
  <2>2. QED
    BY <2>1, TextShape
<1> HIDE DEF r, q
<1>3. Spot(t, a) = (IF r.code = "ok" THEN r.at ELSE 0)
      /\ Spot(t, Append(a, e)) = (IF q.code = "ok" THEN q.at ELSE 0)
  BY DEF Spot, r, q
<1>4. CASE r.code # "ok"
  BY <1>1, <1>2, <1>3, <1>4 DEF Go
<1>5. CASE r.code = "ok" /\ (t[r.at].kind # Wanted(e) \/ M = {})
  <2>1. q = Stop(r, e, "incorrect_type") \/ q = Stop(r, e, NoneAt(e))
    BY <1>1, <1>5 DEF Go
  <2>2. q.code # "ok"
    BY <2>1 DEF Stop, NoneAt
  <2>3. First(t, r.at, e) = 0
    BY <1>5 DEF First
  <2>4. QED
    BY <1>2, <1>3, <1>5, <2>2, <2>3
<1>6. CASE r.code = "ok" /\ t[r.at].kind = Wanted(e) /\ M # {}
  <2>1. q = [r EXCEPT !.at = Min(M)]
    BY <1>1, <1>6 DEF Go
  <2> HIDE DEF M
  <2>2. q.code = "ok" /\ q.at = Min(M)
    BY <1>2, <1>6, <2>1
  <2>3. First(t, r.at, e) = Min(M)
    BY <1>6 DEF First, M
  <2>4. QED
    BY <1>2, <1>3, <1>6, <2>2, <2>3
<1>7. QED
  BY <1>4, <1>5, <1>6

LEMMA FirstIs ==
  ASSUME NEW t, Text(t), NEW v \in DOMAIN t, NEW e \in Segment
  PROVE  LET c == First(t, v, e) IN
         /\ c \in Nat
         /\ c # 0 => /\ c \in DOMAIN t /\ c # 1 /\ t[c].up = v /\ t[c].label = e.value
                     /\ t[v].kind = Wanted(e)
         /\ c = 0 /\ t[v].kind = Wanted(e) =>
              \A m \in DOMAIN t : t[m].up = v => t[m].label # e.value
<1> DEFINE M == Matching(t, v, e)
<1>1. /\ \A m \in M : m \in DOMAIN t /\ t[m].up = v /\ t[m].label = e.value /\ m # 1
      /\ M # {} => Min(M) \in M
  BY MatchingIs, Zenon
<1>2. \A m \in DOMAIN t : t[m].up = v /\ t[m].label = e.value => m \in M
  BY DEF Matching, Members
<1>3. \A m \in DOMAIN t : m \in Nat /\ m # 0
  BY TextShape
<1>4. First(t, v, e) = IF t[v].kind = Wanted(e) /\ M # {} THEN Min(M) ELSE 0
  BY DEF First
<1> HIDE DEF M
<1>5. CASE t[v].kind = Wanted(e) /\ M # {}
  <2>1. First(t, v, e) = Min(M) /\ Min(M) \in M
    BY <1>1, <1>4, <1>5
  <2>2. QED
    BY <1>1, <1>3, <1>5, <2>1
<1>6. CASE ~(t[v].kind = Wanted(e) /\ M # {})
  <2>1. First(t, v, e) = 0
    BY <1>4, <1>6
  <2>2. QED
    BY <1>2, <1>6, <2>1
<1>7. QED
  BY <1>5, <1>6

\* The new value is the first one only where there was none.
LEMMA FirstGrows ==
  ASSUME NEW t, NEW u, Grown(t, u), Text(t), NEW v \in DOMAIN t, NEW e \in Segment
  PROVE  LET n == Len(u) IN
         /\ First(t, v, e) # 0 => First(u, v, e) = First(t, v, e)
         /\ First(t, v, e) = 0 =>
              First(u, v, e) = IF u[n].up = v /\ u[n].label = e.value /\ t[v].kind = Wanted(e)
                               THEN n ELSE 0
<1> DEFINE n == Len(u)
           M == Matching(t, v, e)
           U == Matching(u, v, e)
           new == u[n].up = v /\ u[n].label = e.value
<1>1. /\ n \in Nat \ {0} /\ v \in DOMAIN u /\ u[v] = t[v] /\ v # n
      /\ DOMAIN u = DOMAIN t \cup {n} /\ n \notin DOMAIN t
      /\ \A m \in DOMAIN t : u[m] = t[m] /\ m < n /\ m \in Nat
  <2>1. \A m \in DOMAIN t : m \in DOMAIN u /\ u[m] = t[m] /\ m < Len(u) /\ m \in Nat
    BY GrownOld
  <2>2. n \in Nat /\ DOMAIN u = DOMAIN t \cup {n} /\ n \notin DOMAIN t
    BY GrownShape
  <2>3. v \in Nat /\ v # 0 /\ v < Len(u)
    BY <2>1, TextShape
  <2>v. v \in DOMAIN u /\ u[v] = t[v]
    BY <2>1
  <2> DEFINE l == Len(u)
  <2>l. l \in Nat
    BY <2>2
  <2>r. v < l
    BY <2>3
  <2> HIDE DEF l
  <2>4. v # l /\ l # 0
    BY <2>3, <2>l, <2>r
  <2>5. \A m \in DOMAIN t : u[m] = t[m] /\ m < Len(u) /\ m \in Nat
    BY <2>1
  <2>6. QED
    BY <2>2, <2>v, <2>4, <2>5 DEF l
<1>2. M = {m \in DOMAIN t : t[m].up = v /\ t[m].label = e.value}
      /\ U = {m \in DOMAIN u : u[m].up = v /\ u[m].label = e.value}
  BY DEF Matching, Members
<1> HIDE DEF n
<1>3. U = IF new THEN M \cup {n} ELSE M
  <2>1. ASSUME NEW m
        PROVE  m \in U <=> m \in M \/ (new /\ m = n)
    BY <1>1, <1>2
  <2> HIDE DEF M, U, new
  <2>2. QED
    BY <2>1
<1>4. \A m \in M : m < n /\ m \in Nat
  BY <1>1, <1>2
<1>5. /\ First(t, v, e) = IF t[v].kind = Wanted(e) /\ M # {} THEN Min(M) ELSE 0
      /\ First(u, v, e) = IF t[v].kind = Wanted(e) /\ U # {} THEN Min(U) ELSE 0
  BY <1>1 DEF First
<1>6. \A m \in M : m # 0
  BY MatchingIs, TextShape
<1> HIDE DEF M, U
<1>7. CASE M # {}
  <2>1. Min(M) \in M /\ \A m \in M : Min(M) <= m
    <3>1. M \subseteq Nat
      BY <1>4
    <3>2. QED
      BY <1>7, <3>1, MinIs
  <2>2. Min(U) \in U /\ \A m \in U : Min(U) <= m
    <3>1. U \subseteq Nat /\ U # {}
      BY <1>1, <1>3, <1>4, <1>7
    <3>2. QED
      BY <3>1, MinIs
  <2>3. Min(U) = Min(M)
    <3> DEFINE a == Min(M)
               b == Min(U)
    <3> HIDE DEF a, b
    <3>1. a \in M /\ a \in U /\ b \in U /\ b <= a /\ \A m \in M : a <= m
      BY <1>3, <2>1, <2>2 DEF a, b
    <3>2. b \in M
      BY <1>1, <1>3, <1>4, <3>1
    <3>3. a <= b /\ a \in Nat /\ b \in Nat
      BY <1>4, <3>1, <3>2
    <3>4. a = b
      BY <3>1, <3>3
    <3>5. QED
      BY <3>4 DEF a, b
  <2>4. U # {}
    BY <1>3, <1>7
  <2>5. First(t, v, e) = First(u, v, e)
    BY <1>5, <1>7, <2>3, <2>4
  <2>6. First(t, v, e) = 0 => t[v].kind # Wanted(e)
    BY <1>5, <1>6, <1>7, <2>1
  <2>7. QED
    BY <2>5, <2>6 DEF n, new
<1>8. CASE M = {}
  <2>1. First(t, v, e) = 0
    BY <1>5, <1>8
  <2>2. U = IF new THEN {n} ELSE {}
    BY <1>3, <1>8
  <2>3. Min({n}) = n
    <3>1. {n} \subseteq Nat /\ n \in {n}
      BY <1>1
    <3>2. Min({n}) \in {n}
      BY <3>1, MinIs
    <3>3. QED
      BY <3>2
  <2>4. First(u, v, e) = IF new /\ t[v].kind = Wanted(e) THEN n ELSE 0
    BY <1>5, <2>2, <2>3
  <2>5. QED
    BY <2>1, <2>4 DEF n, new
<1>9. QED
  BY <1>7, <1>8

\* Nothing is in the new value yet.
LEMMA NewIsEmpty ==
  ASSUME NEW t, NEW u, Grown(t, u), NEW e
  PROVE  First(u, Len(u), e) = 0
<1>1. Members(u, Len(u)) = {}
  BY MembersGrown
<1>2. Matching(u, Len(u), e) = {}
  BY <1>1 DEF Matching
<1>3. QED
  BY <1>2 DEF First

LEMMA GrownText ==
  ASSUME NEW t, NEW u, Grown(t, u)
  PROVE  Text(u)
BY GrownShape, EmptySeq DEF Grown, Text

\* Where a path led it leads, and it may newly lead to the new value.
LEMMA SpotGrows ==
  ASSUME NEW t, NEW u, Grown(t, u), Text(t), NEW path \in Path
  PROVE  \/ Spot(u, path) = Spot(t, path)
         \/ Spot(t, path) = 0 /\ Spot(u, path) = Len(u)
<1> DEFINE N == Len(path)
           q(i) == SubSeq(path, 1, i)
           T == {i \in 0..N : \/ Spot(u, q(i)) = Spot(t, q(i))
                              \/ Spot(t, q(i)) = 0 /\ Spot(u, q(i)) = Len(u)}
<1>1. N \in Nat /\ Text(u) /\ Len(u) \in Nat \ {0}
  BY GrownText, TextShape DEF Path
<1>2. 0 \in T
  <2>1. q(0) = <<>> /\ 0 \in 0..N
    BY <1>1, PrefixNone
  <2>2. Spot(u, <<>>) = 1 /\ Spot(t, <<>>) = 1
    BY <1>1, SpotRoot
  <2>3. QED
    BY <2>1, <2>2
<1>3. ASSUME NEW i \in 0..N, i \in T, i + 1 <= N
      PROVE  i + 1 \in T
  <2> DEFINE a == q(i)
             b == q(i + 1)
             e == path[i + 1]
             v == Spot(t, a)
  <2>1. i \in Nat /\ i + 1 \in 0..N /\ i + 1 <= Len(path)
    BY <1>1, <1>3
  <2>2. b = Append(a, e) /\ a \in Path /\ e \in Segment
    BY <2>1, PrefixNext
  <2>3. Spot(u, a) = v \/ (v = 0 /\ Spot(u, a) = Len(u))
    BY <1>3
  <2> HIDE DEF q, N, e
  <2> HIDE DEF a, b
  <2>4. /\ v \in {0} \cup DOMAIN t
        /\ v = 0 => Spot(t, b) = 0
        /\ v # 0 => Spot(t, b) = First(t, v, e)
    BY <2>2, SpotNext
  <2>5. /\ Spot(u, a) = 0 => Spot(u, b) = 0
        /\ Spot(u, a) # 0 => Spot(u, b) = First(u, Spot(u, a), e)
    BY <1>1, <2>2, SpotNext
  <2> HIDE DEF v
  <2>6. Spot(u, b) = Spot(t, b) \/ (Spot(t, b) = 0 /\ Spot(u, b) = Len(u))
    <3>1. CASE v = 0 /\ Spot(u, a) = 0
      BY <2>4, <2>5, <3>1
    <3>2. CASE v = 0 /\ Spot(u, a) = Len(u)
      <4>1. First(u, Len(u), e) = 0
        BY NewIsEmpty
      <4>2. QED
        BY <1>1, <2>4, <2>5, <3>2, <4>1
    <3>3. CASE v # 0
      <4>1. v \in DOMAIN t /\ Spot(u, a) = v
        BY <2>3, <2>4, <3>3
      <4>2. /\ First(t, v, e) # 0 => First(u, v, e) = First(t, v, e)
            /\ First(t, v, e) = 0 => First(u, v, e) \in {0, Len(u)}
        BY <2>2, <4>1, FirstGrows
      <4>3. Spot(u, b) = First(u, v, e) /\ Spot(t, b) = First(t, v, e)
        BY <2>4, <2>5, <3>3, <4>1
      <4>4. QED
        BY <4>2, <4>3
    <3>4. QED
      BY <2>3, <3>1, <3>2, <3>3
  <2>7. QED
    BY <2>1, <2>6 DEF b
<1> HIDE DEF T
<1>4. \A i \in 0..N : i \in T
  <2>1. \A i \in 0..N : i \in T /\ i + 1 <= N => i + 1 \in T
    BY <1>3
  <2>2. QED
    BY <1>1, <1>2, <2>1, Reached, Zenon
<1>5. N \in 0..N
  BY <1>1
<1>6. q(N) = path
  BY SubSeqFull DEF Path
<1>7. QED
  BY <1>4, <1>5, <1>6 DEF T

-----------------------------------------------------------------------------
(* A compiled request. *)

\* The slots whose paths end at the node n, and those whose paths come by.
Ends(w, P, n) == {s \in DOMAIN P : P[s] = w[n]}
Passes(w, P, n) == {s \in DOMAIN P : IsPrefix(w[n], P[s])}

\* x is the least slot of S.
Least(x, S) == (S = {} /\ x = NoSlot) \/ (x \in S /\ \A s \in S : x <= s)

\* p is the plan of the paths P, and w the paths of its nodes.
Compiled(p, w, P) ==
  /\ Trie(p, w) /\ Ascending(p) /\ Numbered(p)
  /\ NoSlot \in Nat /\ \E k \in 1..NoSlot : P \in [0..(k - 1) -> Path]
  /\ \A s \in DOMAIN P :
       /\ P[s] # <<>>
       /\ \A i \in 0..Len(P[s]) : \E n \in DOMAIN w : w[n] = SubSeq(P[s], 1, i)
  /\ \A n \in DOMAIN w :
       /\ InAscendingOrder(p.nodes[n].slots, Ends(w, P, n))
       /\ Passes(w, P, n) # {} /\ Least(p.nodes[n].first, Passes(w, P, n))

\* The edge from n for the segment e leads to c.
Hangs(w, n, e, c) == n \in DOMAIN w /\ c \in DOMAIN w /\ e \in Segment /\ w[c] = Append(w[n], e)

LEMMA EdgeIs ==
  ASSUME NEW p, NEW w, Trie(p, w), NEW n \in DOMAIN w, NEW e \in Segment, NEW c
  PROVE  (c \in Nat /\ EdgeTo(p.nodes[n], e, c)) <=> Hangs(w, n, e, c)
<1>1. ASSUME c \in Nat, EdgeTo(p.nodes[n], e, c)
      PROVE  Hangs(w, n, e, c)
  BY <1>1 DEF Trie, Hangs
<1>2. ASSUME Hangs(w, n, e, c)
      PROVE  c \in Nat /\ EdgeTo(p.nodes[n], e, c)
  <2>1. c \in DOMAIN w /\ w[c] = Append(w[n], e)
    BY <1>2 DEF Hangs
  <2>2. Leads(p, n, e, c)
    BY <2>1, FollowIs
  <2>3. c \in Nat
    BY <2>1, TrieShape
  <2>4. QED
    BY <2>2, <2>3 DEF Leads
<1>3. QED
  BY <1>1, <1>2

LEMMA KeyEdge ==
  ASSUME NEW p, NEW w, Trie(p, w), NEW n \in DOMAIN w, NEW k \in DOMAIN p.nodes[n].object
  PROVE  LET e == [tag |-> "key", value |-> k] IN
         e \in Segment /\ Wanted(e) = "object" /\ Hangs(w, n, e, p.nodes[n].object[k].child)
<1> DEFINE e == [tag |-> "key", value |-> k]
           node == p.nodes[n]
           c == node.object[k].child
<1>1. node \in PlanNode
  BY TrieShape
<1>2. k \in Nat /\ c \in Nat
  BY <1>1, NodeType
<1>3. e \in Segment /\ e.tag = "key" /\ e.value = k /\ Wanted(e) = "object"
  BY <1>2 DEF Segment, Wanted
<1> HIDE DEF e
<1>4. EdgeTo(node, e, c)
  BY <1>3 DEF EdgeTo
<1>5. Hangs(w, n, e, c)
  BY <1>2, <1>3, <1>4, EdgeIs
<1>6. QED
  BY <1>3, <1>5 DEF e

LEMMA IndexEdge ==
  ASSUME NEW p, NEW w, Trie(p, w), NEW n \in DOMAIN w, NEW j \in DOMAIN p.nodes[n].array
  PROVE  LET e == [tag |-> "index", value |-> p.nodes[n].array[j].index] IN
         e \in Segment /\ Wanted(e) = "array" /\ Hangs(w, n, e, p.nodes[n].array[j].child)
<1> DEFINE node == p.nodes[n]
           k == node.array[j].index
           e == [tag |-> "index", value |-> k]
           c == node.array[j].child
<1>1. node \in PlanNode
  BY TrieShape
<1>2. k \in Nat /\ c \in Nat
  BY <1>1, NodeType
<1>3. e \in Segment /\ e.tag = "index" /\ e.value = k /\ Wanted(e) = "array"
  BY <1>2 DEF Segment, Wanted
<1> HIDE DEF e
<1>4. EdgeTo(node, e, c)
  BY <1>3 DEF EdgeTo
<1>5. Hangs(w, n, e, c)
  BY <1>2, <1>3, <1>4, EdgeIs
<1>6. QED
  BY <1>3, <1>5 DEF e

\* Every edge is one of the two.
LEMMA HangsBy ==
  ASSUME NEW p, NEW w, Trie(p, w), NEW n, NEW e, NEW c, Hangs(w, n, e, c)
  PROVE  /\ n \in DOMAIN w /\ c \in DOMAIN w /\ e \in Segment /\ c # 1
         /\ \/ /\ e.tag = "key" /\ Wanted(e) = "object" /\ e.value \in DOMAIN p.nodes[n].object
               /\ p.nodes[n].object[e.value].child = c
            \/ /\ e.tag = "index" /\ Wanted(e) = "array"
               /\ \E j \in DOMAIN p.nodes[n].array :
                    p.nodes[n].array[j].index = e.value /\ p.nodes[n].array[j].child = c
<1>1. n \in DOMAIN w /\ c \in DOMAIN w /\ e \in Segment /\ w[c] = Append(w[n], e)
  BY DEF Hangs
<1>2. EdgeTo(p.nodes[n], e, c)
  BY <1>1, EdgeIs
<1>3. c # 1
  <2>1. w[n] \in Path /\ w[1] = <<>>
    BY <1>1, TrieShape DEF Trie
  <2>2. Append(w[n], e) # <<>>
    BY <1>1, <2>1, NotEmpty
  <2>3. QED
    BY <1>1, <2>1, <2>2
<1>4. QED
  BY <1>1, <1>2, <1>3 DEF EdgeTo, Wanted

\* A node but the root hangs below one node by one edge.
LEMMA HangsOnce ==
  ASSUME NEW p, NEW w, Trie(p, w), NEW c \in DOMAIN w
  PROVE  /\ c # 1 => \E n, e : Hangs(w, n, e, c)
         /\ \A n, e, m, f : Hangs(w, n, e, c) /\ Hangs(w, m, f, c) => n = m /\ e = f
<1>1. c # 1 => \E n, e : Hangs(w, n, e, c)
  <2> SUFFICES ASSUME c # 1
               PROVE  \E n, e : Hangs(w, n, e, c)
    OBVIOUS
  <2>1. PICK n \in 1..(c - 1), e \in Segment : w[c] = Append(w[n], e)
    BY DEF Trie
  <2>2. n \in DOMAIN w
    BY TrieShape
  <2>3. QED
    BY <2>1, <2>2 DEF Hangs
<1>2. ASSUME NEW n, NEW e, NEW m, NEW f, Hangs(w, n, e, c), Hangs(w, m, f, c)
      PROVE  n = m /\ e = f
  <2>1. n \in DOMAIN w /\ m \in DOMAIN w /\ e \in Segment /\ f \in Segment
        /\ Append(w[n], e) = Append(w[m], f)
    BY <1>2 DEF Hangs
  <2>2. w[n] \in Path /\ w[m] \in Path
    BY <2>1, TrieShape
  <2>3. w[n] = w[m] /\ e = f
    BY <2>1, <2>2, PathsDiffer
  <2>4. QED
    BY <2>1, <2>3 DEF Trie
<1>3. QED
  BY <1>1, <1>2

-----------------------------------------------------------------------------
(* The least of the slots that fail. *)

LEMMA SlotsAre ==
  ASSUME NEW p, NEW w, NEW P, Compiled(p, w, P)
  PROVE  /\ NoSlot \in Nat /\ \A s \in DOMAIN P : s \in Nat /\ s < NoSlot /\ P[s] \in Path
         /\ \A n : Ends(w, P, n) \subseteq DOMAIN P /\ Passes(w, P, n) \subseteq DOMAIN P
<1>1. PICK k \in 1..NoSlot : P \in [0..(k - 1) -> Path]
  BY DEF Compiled
<1>2. NoSlot \in Nat
  BY DEF Compiled
<1>3. \A s \in DOMAIN P : s \in Nat /\ s < NoSlot /\ P[s] \in Path
  BY <1>1, <1>2
<1>4. QED
  BY <1>2, <1>3 DEF Ends, Passes

LEMMA LeastEnd ==
  ASSUME NEW p, NEW w, NEW P, Compiled(p, w, P), NEW n \in DOMAIN w
  PROVE  Least(FirstSlot(p.nodes[n]), Ends(w, P, n))
<1> DEFINE s == p.nodes[n].slots
           S == Ends(w, P, n)
<1>1. InAscendingOrder(s, S) /\ s \in Seq(Nat)
  <2>1. p.nodes[n] \in PlanNode
    BY TrieShape DEF Compiled
  <2>2. s \in Seq(Nat)
    BY <2>1, NodeType
  <2>3. QED
    BY <2>2 DEF Compiled
<1>2. FirstSlot(p.nodes[n]) = IF s = <<>> THEN NoSlot ELSE Head(s)
  BY DEF FirstSlot
<1> HIDE DEF s
<1>3. Len(s) \in Nat /\ DOMAIN s = 1..Len(s) /\ (s = <<>> <=> Len(s) = 0)
      /\ \A i \in 1..Len(s) : s[i] \in Nat
  BY <1>1, EmptySeq
<1>4. S = {s[i] : i \in DOMAIN s} /\ \A i, k \in DOMAIN s : i < k => s[i] < s[k]
  BY <1>1 DEF InAscendingOrder, ToSet
<1>5. CASE s = <<>>
  <2>1. S = {}
    BY <1>3, <1>4, <1>5
  <2>2. QED
    BY <1>2, <1>5, <2>1 DEF Least
<1>6. CASE s # <<>>
  <2>1. Head(s) = s[1] /\ 1 \in DOMAIN s
    BY <1>1, <1>3, <1>6
  <2>2. s[1] \in S
    BY <1>4, <2>1
  <2>3. ASSUME NEW i \in DOMAIN s
        PROVE  s[1] <= s[i]
    <3>1. i = 1 \/ 1 < i
      BY <1>3
    <3>2. s[1] \in Nat /\ s[i] \in Nat
      BY <1>3, <2>1
    <3>3. 1 < i => s[1] < s[i]
      BY <1>4, <2>1
    <3>4. QED
      BY <3>1, <3>2, <3>3
  <2>4. \A x \in S : s[1] <= x
    BY <1>4, <2>3
  <2> HIDE DEF S
  <2>5. QED
    BY <1>2, <1>6, <2>1, <2>2, <2>4 DEF Least, S
<1>7. QED
  BY <1>5, <1>6

\* The least of several sets is the least of their least ones.
Lots(C, f, H) ==
  \A c \in C : /\ H[c] # {} /\ Least(f[c], H[c])
               /\ \A s \in H[c] : s \in Nat /\ s < NoSlot

LEMMA LeastOfAll ==
  ASSUME NoSlot \in Nat, NEW C, NEW f, NEW H, Lots(C, f, H),
         NEW A, A = {NoSlot} \cup {f[c] : c \in C}, NEW U, U = UNION {H[c] : c \in C}
  PROVE  Least(Min(A), U)
<1>1. \A c \in C : f[c] \in H[c] /\ f[c] \in Nat /\ f[c] < NoSlot /\ \A s \in H[c] : f[c] <= s
  BY DEF Least, Lots
<1>2. A \subseteq Nat /\ NoSlot \in A
  BY <1>1
<1>3. Min(A) \in A /\ \A y \in A : Min(A) <= y
  BY <1>2, MinIs
<1>4. CASE C = {}
  <2>1. U = {} /\ A = {NoSlot}
    BY <1>4
  <2>2. Min(A) = NoSlot
    BY <1>3, <2>1
  <2>3. QED
    BY <2>1, <2>2 DEF Least
<1>5. CASE C # {}
  <2>1. PICK d \in C : TRUE
    BY <1>5
  <2>2. f[d] \in A
    BY <2>1
  <2> DEFINE m == Min(A)
  <2>3. m \in A /\ m <= f[d] /\ \A c \in C : m <= f[c]
    BY <1>3, <2>2
  <2> HIDE DEF m
  <2>4. m # NoSlot
    BY <1>1, <2>1, <2>3
  <2>5. PICK c \in C : m = f[c]
    BY <2>3, <2>4
  <2>6. m \in U /\ m \in Nat
    BY <1>1, <2>5
  <2>7. ASSUME NEW s \in U
        PROVE  m <= s
    <3>1. PICK b \in C : s \in H[b]
      OBVIOUS
    <3>2. f[b] <= s /\ m <= f[b] /\ f[b] \in Nat /\ s \in Nat
      BY <1>1, <2>3, <3>1 DEF Lots
    <3>3. QED
      BY <2>6, <3>2
  <2>8. Least(m, U)
    BY <2>6, <2>7 DEF Least
  <2>9. QED
    BY <2>8 DEF m
<1>6. QED
  BY <1>4, <1>5

\* The slots whose paths go on at n with a segment for values of the kind.
Turning(w, P, kind, n) ==
  {s \in DOMAIN P : \E e, c : Hangs(w, n, e, c) /\ Wanted(e) = kind /\ s \in Passes(w, P, c)}

LEMMA LeastTurn ==
  ASSUME NEW p, NEW w, NEW P, Compiled(p, w, P), NEW n \in DOMAIN w
  PROVE  /\ Least(FirstObjectChildSlot(p.nodes[n], p.nodes), Turning(w, P, "object", n))
         /\ Least(FirstArrayChildSlot(p.nodes[n], p.nodes), Turning(w, P, "array", n))
<1> DEFINE node == p.nodes[n]
           f == [c \in DOMAIN w |-> p.nodes[c].first]
           H == [c \in DOMAIN w |-> Passes(w, P, c)]
<1>0. Trie(p, w)
  BY DEF Compiled
<1>1. ASSUME NEW c \in DOMAIN w
      PROVE  /\ H[c] # {} /\ Least(f[c], H[c])
             /\ \A s \in H[c] : s \in Nat /\ s < NoSlot
  <2>1. Passes(w, P, c) # {} /\ Least(p.nodes[c].first, Passes(w, P, c))
    BY DEF Compiled
  <2>2. Passes(w, P, c) \subseteq DOMAIN P
    BY SlotsAre
  <2>3. \A s \in DOMAIN P : s \in Nat /\ s < NoSlot
    BY SlotsAre
  <2>4. QED
    BY <2>1, <2>2, <2>3
<1>2. NoSlot \in Nat
  BY SlotsAre
<1>3. ASSUME NEW c
      PROVE  /\ c \in ObjectChildren(node) <=> \E e : Hangs(w, n, e, c) /\ Wanted(e) = "object"
             /\ c \in ArrayChildren(node) <=> \E e : Hangs(w, n, e, c) /\ Wanted(e) = "array"
  <2>1. ASSUME c \in ObjectChildren(node)
        PROVE  \E e : Hangs(w, n, e, c) /\ Wanted(e) = "object"
    <3>1. PICK k \in DOMAIN node.object : c = node.object[k].child
      BY <2>1 DEF ObjectChildren
    <3>2. QED
      BY <1>0, <3>1, KeyEdge
  <2>2. ASSUME c \in ArrayChildren(node)
        PROVE  \E e : Hangs(w, n, e, c) /\ Wanted(e) = "array"
    <3>1. PICK j \in DOMAIN node.array : c = node.array[j].child
      BY <2>2 DEF ArrayChildren, ToSet
    <3>2. QED
      BY <1>0, <3>1, IndexEdge
  <2>3. ASSUME NEW e, Hangs(w, n, e, c)
        PROVE  /\ Wanted(e) = "object" => c \in ObjectChildren(node)
               /\ Wanted(e) = "array" => c \in ArrayChildren(node)
    <3>1. \/ /\ Wanted(e) = "object" /\ e.value \in DOMAIN node.object
             /\ node.object[e.value].child = c
          \/ /\ Wanted(e) = "array"
             /\ \E j \in DOMAIN node.array : node.array[j].index = e.value /\ node.array[j].child = c
      BY <1>0, <2>3, HangsBy
    <3>2. QED
      BY <3>1 DEF ObjectChildren, ArrayChildren, ToSet
  <2>4. QED
    BY <2>1, <2>2, <2>3
<1>4. ObjectChildren(node) \subseteq DOMAIN w /\ ArrayChildren(node) \subseteq DOMAIN w
  BY <1>3 DEF Hangs
<1>5. /\ FirstObjectChildSlot(node, p.nodes)
           = Min({NoSlot} \cup {p.nodes[c].first : c \in ObjectChildren(node)})
      /\ FirstArrayChildSlot(node, p.nodes)
           = Min({NoSlot} \cup {p.nodes[c].first : c \in ArrayChildren(node)})
  BY DEF FirstObjectChildSlot, FirstArrayChildSlot
<1>6. ASSUME NEW C, C \subseteq DOMAIN w, NEW kind,
             \A c : c \in C <=> \E e : Hangs(w, n, e, c) /\ Wanted(e) = kind
      PROVE  Least(Min({NoSlot} \cup {p.nodes[c].first : c \in C}), Turning(w, P, kind, n))
  <2>1. Least(Min({NoSlot} \cup {f[c] : c \in C}), UNION {H[c] : c \in C})
    <3>1. Lots(C, f, H)
      BY <1>1, <1>6 DEF Lots
    <3> DEFINE A == {NoSlot} \cup {f[c] : c \in C}
               U == UNION {H[c] : c \in C}
    <3>2. A = {NoSlot} \cup {f[c] : c \in C} /\ U = UNION {H[c] : c \in C}
      OBVIOUS
    <3> HIDE DEF f, H, A, U
    <3>3. Least(Min(A), U)
      BY <1>2, <3>1, <3>2, LeastOfAll
    <3>4. QED
      BY <3>3 DEF A, U
  <2>2. {f[c] : c \in C} = {p.nodes[c].first : c \in C}
    BY <1>6
  <2>3. UNION {H[c] : c \in C} = Turning(w, P, kind, n)
    <3>1. ASSUME NEW s
          PROVE  s \in UNION {H[c] : c \in C} <=> \E c \in C : s \in Passes(w, P, c)
      BY <1>6
    <3>2. ASSUME NEW s
          PROVE  s \in Turning(w, P, kind, n) <=> \E c \in C : s \in Passes(w, P, c)
      <4>1. \A c : s \in Passes(w, P, c) => s \in DOMAIN P
        BY DEF Passes
      <4>2. QED
        BY <1>6, <4>1 DEF Turning
    <3> HIDE DEF H
    <3>3. QED
      BY <3>1, <3>2
  <2>4. QED
    BY <2>1, <2>2, <2>3
<1> HIDE DEF node
<1>7. QED
  BY <1>3, <1>4, <1>5, <1>6 DEF node

-----------------------------------------------------------------------------
(* A failure is remembered. *)

\* From a to b the failures of the slots S were noted with the code.
Recorded(b, a, code, S) ==
  /\ b = a \/ (b.code = code /\ b.slot \in S)
  /\ a.code # "ok" => b.code # "ok" /\ b.slot <= a.slot
  /\ \A s \in S : b.code # "ok" /\ b.slot <= s

Memory(a) == a.code # "ok" => a.slot \in Nat

LEMMA RecordIs ==
  ASSUME NoSlot \in Nat, NEW a, Memory(a), NEW code, code # "ok", NEW S,
         \A s \in S : s \in Nat /\ s < NoSlot, NEW x, Least(x, S)
  PROVE  LET b == RecordPathFailure(a, code, x) IN Recorded(b, a, code, S) /\ Memory(b)
<1> DEFINE b == RecordPathFailure(a, code, x)
<1>1. CASE S = {}
  <2>1. x = NoSlot
    BY <1>1 DEF Least
  <2>2. b = a
    BY <2>1 DEF RecordPathFailure, Replaces
  <2>3. a.code # "ok" => a.slot <= a.slot
    BY DEF Memory
  <2> HIDE DEF b
  <2>4. Recorded(b, a, code, S) /\ Memory(b)
    BY <1>1, <2>2, <2>3 DEF Recorded
  <2>5. QED
    BY <2>4 DEF b
<1>2. CASE S # {}
  <2>1. x \in S /\ x \in Nat /\ x # NoSlot /\ \A s \in S : x <= s /\ s \in Nat
    BY <1>2 DEF Least
  <2>2. CASE a.code = "ok" \/ x < a.slot
    <3>1. b = [code |-> code, slot |-> x]
      BY <2>1, <2>2 DEF RecordPathFailure, Replaces
    <3> HIDE DEF b
    <3>2. b.code = code /\ b.slot = x
      BY <3>1
    <3>3. a.code # "ok" => x <= a.slot
      BY <2>1, <2>2 DEF Memory
    <3>4. Recorded(b, a, code, S) /\ Memory(b)
      BY <2>1, <3>2, <3>3 DEF Recorded, Memory
    <3>5. QED
      BY <3>4 DEF b
  <2>3. CASE a.code # "ok" /\ ~(x < a.slot)
    <3>1. b = a
      BY <2>3 DEF RecordPathFailure, Replaces
    <3> HIDE DEF b
    <3>2. a.slot \in Nat /\ a.slot <= x /\ a.slot <= a.slot
      BY <2>1, <2>3 DEF Memory
    <3>3. \A s \in S : a.slot <= s
      BY <2>1, <3>2
    <3>4. Recorded(b, a, code, S) /\ Memory(b)
      BY <2>3, <3>1, <3>2, <3>3 DEF Recorded, Memory
    <3>5. QED
      BY <3>4 DEF b
  <2>4. QED
    BY <2>2, <2>3
<1>3. QED
  BY <1>1, <1>2

LEMMA RecordedTwice ==
  ASSUME NEW a, NEW b, NEW c, Memory(a), Memory(b), Memory(c), NEW code, NEW S, NEW T,
         \A s \in S : s \in Nat,
         Recorded(b, a, code, S), Recorded(c, b, code, T)
  PROVE  Recorded(c, a, code, S \cup T)
<1>1. c = a \/ (c.code = code /\ c.slot \in S \cup T)
  BY DEF Recorded
<1>2. a.code # "ok" => c.code # "ok" /\ c.slot <= a.slot
  BY DEF Recorded, Memory
<1>3. \A s \in T : c.code # "ok" /\ c.slot <= s
  BY DEF Recorded
<1>4. ASSUME NEW s \in S
      PROVE  c.code # "ok" /\ c.slot <= s
  <2>1. b.code # "ok" /\ b.slot <= s /\ s \in Nat
    BY DEF Recorded
  <2>2. c.code # "ok" /\ c.slot <= b.slot
    BY <2>1 DEF Recorded
  <2>3. b.slot \in Nat /\ c.slot \in Nat
    BY <2>1, <2>2 DEF Memory
  <2>4. QED
    BY <2>1, <2>2, <2>3
<1>5. QED
  BY <1>1, <1>2, <1>3, <1>4 DEF Recorded

\* The slots that fail where a value of the kind is what the node n stands
\* for: those that end at a container, or go on with the other kind of segment.
Astray(w, P, kind, n) ==
  {s \in DOMAIN P : \/ kind \in Containers /\ P[s] = w[n]
                    \/ \E e, c : /\ Hangs(w, n, e, c) /\ Wanted(e) # kind
                                 /\ s \in Passes(w, P, c)}

LEMMA WantedKind ==
  ASSUME NEW e
  PROVE  Wanted(e) \in {"object", "array"} /\ Containers = {"object", "array"}
BY DEF Wanted, Containers

LEMMA AstrayIs ==
  ASSUME NEW p, NEW w, NEW P, Compiled(p, w, P), NEW n
  PROVE  /\ Astray(w, P, "object", n) = Ends(w, P, n) \cup Turning(w, P, "array", n)
         /\ Astray(w, P, "array", n) = Ends(w, P, n) \cup Turning(w, P, "object", n)
         /\ \A kind : kind \notin Containers =>
              Astray(w, P, kind, n) = Turning(w, P, "object", n) \cup Turning(w, P, "array", n)
         /\ \A kind : Astray(w, P, kind, n) \subseteq DOMAIN P
         /\ \A kind : Turning(w, P, kind, n) \subseteq DOMAIN P
<1>1. ASSUME NEW s, NEW kind
      PROVE  /\ s \in Astray(w, P, kind, n) <=>
                  s \in DOMAIN P /\ \/ kind \in Containers /\ s \in Ends(w, P, n)
                                    \/ "object" # kind /\ s \in Turning(w, P, "object", n)
                                    \/ "array" # kind /\ s \in Turning(w, P, "array", n)
             /\ s \in Turning(w, P, kind, n) => s \in DOMAIN P
             /\ s \in Ends(w, P, n) => s \in DOMAIN P
  <2>1. \A e : Wanted(e) \in {"object", "array"}
    BY WantedKind
  <2>2. \A c : s \in Passes(w, P, c) => s \in DOMAIN P
    BY DEF Passes
  <2>3. s \in Turning(w, P, "object", n) <=>
          \E e, c : Hangs(w, n, e, c) /\ Wanted(e) = "object" /\ s \in Passes(w, P, c)
    BY <2>2 DEF Turning
  <2>4. s \in Turning(w, P, "array", n) <=>
          \E e, c : Hangs(w, n, e, c) /\ Wanted(e) = "array" /\ s \in Passes(w, P, c)
    BY <2>2 DEF Turning
  <2>5. s \in Ends(w, P, n) <=> s \in DOMAIN P /\ P[s] = w[n]
    BY DEF Ends
  <2>6. s \in Turning(w, P, kind, n) => s \in DOMAIN P
    BY DEF Turning
  <2>7. s \in Astray(w, P, kind, n) <=>
          s \in DOMAIN P /\ \/ kind \in Containers /\ s \in Ends(w, P, n)
                            \/ \E e, c : Hangs(w, n, e, c) /\ Wanted(e) # kind /\ s \in Passes(w, P, c)
    BY <2>5 DEF Astray
  <2>8. (\E e, c : Hangs(w, n, e, c) /\ Wanted(e) # kind /\ s \in Passes(w, P, c))
          <=> \/ "object" # kind /\ s \in Turning(w, P, "object", n)
              \/ "array" # kind /\ s \in Turning(w, P, "array", n)
    BY <2>1, <2>3, <2>4
  <2>9. QED
    BY <2>5, <2>6, <2>7, <2>8
<1>2. "object" # "array" /\ "object" \in Containers /\ "array" \in Containers
  BY DEF Containers
<1>3. \A kind : kind \notin Containers => kind # "object" /\ kind # "array"
  BY <1>2
<1>4. QED
  BY <1>1, <1>2, <1>3

LEMMA LeastOfTwo ==
  ASSUME NoSlot \in Nat, NEW S, NEW T, \A s \in S \cup T : s \in Nat /\ s < NoSlot,
         NEW x, Least(x, S), NEW y, Least(y, T)
  PROVE  Least(Min({x, y}), S \cup T)
<1>1. {x, y} \subseteq Nat
  BY DEF Least
<1>2. Min({x, y}) \in {x, y} /\ Min({x, y}) <= x /\ Min({x, y}) <= y
  <2>1. x \in {x, y}
    OBVIOUS
  <2>2. Min({x, y}) \in {x, y} /\ \A z \in {x, y} : Min({x, y}) <= z
    BY <1>1, <2>1, MinIs
  <2>3. QED
    BY <2>2
<1> DEFINE m == Min({x, y})
<1>3. m \in {x, y} /\ m <= x /\ m <= y
  BY <1>2
<1> HIDE DEF m
<1>4. Least(m, S \cup T)
  BY <1>1, <1>3 DEF Least
<1>5. QED
  BY <1>4 DEF m

\* Enter and EnterScalar note what fails at the value.
LEMMA EnterRecords ==
  ASSUME NEW w, NEW P, Compiled(plan, w, P), NEW n \in DOMAIN w, NEW a, Memory(a),
         NEW kind \in Containers
  PROVE  LET b == Enter(a, plan.nodes[n], kind) IN
         Recorded(b, a, "incorrect_type", Astray(w, P, kind, n)) /\ Memory(b)
<1> DEFINE code == "incorrect_type"
           node == plan.nodes[n]
           E == Ends(w, P, n)
           O == Turning(w, P, "object", n)
           A == Turning(w, P, "array", n)
           b == RecordPathFailure(a, code, FirstSlot(node))
           x == FirstObjectChildSlot(node, plan.nodes)
           y == FirstArrayChildSlot(node, plan.nodes)
           c == RecordPathFailure(b, code, x)
           d == RecordPathFailure(b, code, y)
<1>1. NoSlot \in Nat /\ \A s \in E \cup O \cup A : s \in Nat /\ s < NoSlot
  <2>1. NoSlot \in Nat /\ \A s \in DOMAIN P : s \in Nat /\ s < NoSlot
    BY SlotsAre
  <2>2. E \subseteq DOMAIN P
    BY SlotsAre
  <2>3. O \subseteq DOMAIN P /\ A \subseteq DOMAIN P
    BY AstrayIs
  <2>4. QED
    BY <2>1, <2>2, <2>3
<1>2. Least(FirstSlot(node), E)
  BY LeastEnd
<1>3. Least(x, O) /\ Least(y, A)
  BY LeastTurn
<1>4. code # "ok"
  OBVIOUS
<1>5. Astray(w, P, "object", n) = E \cup A /\ Astray(w, P, "array", n) = E \cup O
  BY AstrayIs
<1>6. Enter(a, node, "object") = d /\ Enter(a, node, "array") = c
  BY DEF Enter, EnterObject, EnterArray
<1> HIDE DEF E, O, A, x, y, node, code
<1>7. Recorded(b, a, code, E) /\ Memory(b)
  BY <1>1, <1>2, <1>4, RecordIs
<1> HIDE DEF b
<1>8. Recorded(c, b, code, O) /\ Memory(c)
  BY <1>1, <1>3, <1>4, <1>7, RecordIs
<1>9. Recorded(d, b, code, A) /\ Memory(d)
  BY <1>1, <1>3, <1>4, <1>7, RecordIs
<1> HIDE DEF c, d
<1>10. Recorded(c, a, code, E \cup O) /\ Recorded(d, a, code, E \cup A)
  BY <1>1, <1>7, <1>8, <1>9, RecordedTwice
<1>11. CASE kind = "object"
  BY <1>5, <1>6, <1>9, <1>10, <1>11 DEF code, node
<1>12. CASE kind = "array"
  BY <1>5, <1>6, <1>8, <1>10, <1>12 DEF code, node
<1>13. QED
  BY <1>11, <1>12 DEF Containers

LEMMA EnterScalarRecords ==
  ASSUME NEW w, NEW P, Compiled(plan, w, P), NEW n \in DOMAIN w, NEW a, Memory(a),
         NEW kind, kind \notin Containers
  PROVE  LET b == EnterScalar(a, plan.nodes[n]) IN
         Recorded(b, a, "incorrect_type", Astray(w, P, kind, n)) /\ Memory(b)
<1> DEFINE node == plan.nodes[n]
           O == Turning(w, P, "object", n)
           A == Turning(w, P, "array", n)
           x == FirstObjectChildSlot(node, plan.nodes)
           y == FirstArrayChildSlot(node, plan.nodes)
           m == Min({x, y})
           b == RecordPathFailure(a, "incorrect_type", m)
<1>1. NoSlot \in Nat /\ \A s \in O \cup A : s \in Nat /\ s < NoSlot
  <2>1. NoSlot \in Nat /\ \A s \in DOMAIN P : s \in Nat /\ s < NoSlot
    BY SlotsAre
  <2>2. O \subseteq DOMAIN P /\ A \subseteq DOMAIN P
    BY AstrayIs
  <2>3. QED
    BY <2>1, <2>2
<1>2. Least(x, O) /\ Least(y, A)
  BY LeastTurn
<1>3. Astray(w, P, kind, n) = O \cup A
  BY AstrayIs
<1>4. EnterScalar(a, node) = b
  BY DEF EnterScalar
<1> HIDE DEF O, A, x, y, node
<1>5. Least(m, O \cup A)
  BY <1>1, <1>2, LeastOfTwo
<1> HIDE DEF m
<1>6. Recorded(b, a, "incorrect_type", O \cup A) /\ Memory(b)
  BY <1>1, <1>5, RecordIs
<1>7. QED
  BY <1>3, <1>4, <1>6 DEF node

\* LeaveObject notes the slots of the edges that were not met, LeaveArray
\* those of the first one.
Missed(p, w, P, n, met) ==
  {s \in DOMAIN P : \E k \in DOMAIN p.nodes[n].object :
                      /\ p.nodes[n].object[k].id \notin met
                      /\ s \in Passes(w, P, p.nodes[n].object[k].child)}

LEMMA PassesLeast ==
  ASSUME NEW p, NEW w, NEW P, Compiled(p, w, P), NEW c \in DOMAIN w
  PROVE  /\ Passes(w, P, c) # {} /\ Least(p.nodes[c].first, Passes(w, P, c))
         /\ \A s \in Passes(w, P, c) : s \in Nat /\ s < NoSlot
<1>1. Passes(w, P, c) # {} /\ Least(p.nodes[c].first, Passes(w, P, c))
  BY DEF Compiled
<1>2. Passes(w, P, c) \subseteq DOMAIN P /\ \A s \in DOMAIN P : s \in Nat /\ s < NoSlot
  BY SlotsAre
<1>3. QED
  BY <1>1, <1>2

LEMMA LeaveObjectRecords ==
  ASSUME NEW w, NEW P, Compiled(plan, w, P), NEW n \in DOMAIN w, NEW a, Memory(a)
  PROVE  LET b == LeaveObject(a, plan.nodes[n]) IN
         Recorded(b, a, "missing_field", Missed(plan, w, P, n, satisfied)) /\ Memory(b)
<1> DEFINE node == plan.nodes[n]
           C == {e \in {node.object[k] : k \in DOMAIN node.object} : e.id \notin satisfied}
           f == [e \in C |-> plan.nodes[e.child].first]
           H == [e \in C |-> Passes(w, P, e.child)]
           A == {NoSlot} \cup {f[e] : e \in C}
           U == UNION {H[e] : e \in C}
           B == {NoSlot} \cup {plan.nodes[e.child].first : e \in C}
           b == RecordPathFailure(a, "missing_field", Min(B))
           S == Missed(plan, w, P, n, satisfied)
<1>1. NoSlot \in Nat /\ \A s \in DOMAIN P : s \in Nat /\ s < NoSlot
  BY SlotsAre
<1>2. LeaveObject(a, node) = b
  BY DEF LeaveObject
<1>3. Lots(C, f, H)
  <2>1. ASSUME NEW e \in C
        PROVE  e.child \in DOMAIN w
    <3>1. PICK k \in DOMAIN node.object : e = node.object[k]
      OBVIOUS
    <3>2. Trie(plan, w)
      BY DEF Compiled
    <3>3. QED
      BY <3>1, <3>2, KeyEdge DEF Hangs
  <2>2. ASSUME NEW e \in C
        PROVE  /\ H[e] # {} /\ Least(f[e], H[e])
               /\ \A s \in H[e] : s \in Nat /\ s < NoSlot
    <3>1. /\ Passes(w, P, e.child) # {} /\ Least(plan.nodes[e.child].first, Passes(w, P, e.child))
          /\ \A s \in Passes(w, P, e.child) : s \in Nat /\ s < NoSlot
      BY <2>1, PassesLeast
    <3>2. H[e] = Passes(w, P, e.child) /\ f[e] = plan.nodes[e.child].first
      OBVIOUS
    <3> HIDE DEF H, f, C
    <3>3. QED
      BY <3>1, <3>2
  <2> HIDE DEF C, f, H
  <2>3. QED
    BY <2>2 DEF Lots
<1>4. A = B
  OBVIOUS
<1>5. U = S
  <2>1. ASSUME NEW s
        PROVE  s \in U <=> \E e \in C : s \in Passes(w, P, e.child)
    OBVIOUS
  <2>2. ASSUME NEW s
        PROVE  s \in S <=> \E e \in C : s \in Passes(w, P, e.child)
    BY DEF Missed, Passes
  <2> HIDE DEF U, S
  <2>3. QED
    BY <2>1, <2>2
<1>6. A = {NoSlot} \cup {f[e] : e \in C} /\ U = UNION {H[e] : e \in C}
  OBVIOUS
<1>7. \A s \in S : s \in Nat /\ s < NoSlot
  BY <1>1 DEF Missed
<1> HIDE DEF C, f, H, A, U, B, S, node
<1>8. Least(Min(A), U)
  BY <1>1, <1>3, <1>6, LeastOfAll
<1>9. Least(Min(B), S)
  BY <1>4, <1>5, <1>8
<1> DEFINE x == Min(B)
<1> HIDE DEF x
<1>10. Recorded(RecordPathFailure(a, "missing_field", x), a, "missing_field", S)
       /\ Memory(RecordPathFailure(a, "missing_field", x))
  <2>1. Least(x, S)
    BY <1>9 DEF x
  <2>2. QED
    BY <1>1, <1>7, <2>1, RecordIs
<1>11. QED
  BY <1>2, <1>10 DEF x, S, node

LEMMA LeaveArrayRecords ==
  ASSUME NEW w, NEW P, Compiled(plan, w, P), NEW n \in DOMAIN w, NEW a, Memory(a),
         NEW i \in Nat \ {0}
  PROVE  LET b == LeaveArray(a, plan.nodes[n], i)
             node == plan.nodes[n] IN
         /\ Memory(b)
         /\ i \in DOMAIN node.array =>
              Recorded(b, a, "index_out_of_bounds", Passes(w, P, node.array[i].child))
         /\ i \notin DOMAIN node.array => b = a
<1> DEFINE node == plan.nodes[n]
           c == node.array[i].child
           b == RecordPathFailure(a, "index_out_of_bounds", plan.nodes[c].first)
<1>0. Trie(plan, w)
  BY DEF Compiled
<1>1. DOMAIN node.array = 1..Len(node.array) /\ Len(node.array) \in Nat
  <2>1. node \in PlanNode
    BY <1>0, TrieShape
  <2>2. QED
    BY <2>1, NodeType
<1>2. NoSlot \in Nat
  BY SlotsAre
<1>3. CASE i \in DOMAIN node.array
  <2>1. c \in DOMAIN w
    BY <1>0, <1>3, IndexEdge DEF Hangs
  <2>2. Least(plan.nodes[c].first, Passes(w, P, c)) /\ \A s \in Passes(w, P, c) : s \in Nat /\ s < NoSlot
    BY <2>1, PassesLeast
  <2> HIDE DEF c
  <2>3. Recorded(b, a, "index_out_of_bounds", Passes(w, P, c)) /\ Memory(b)
    BY <1>2, <2>2, RecordIs
  <2>4. LeaveArray(a, node, i) = b
    <3>1. i <= Len(node.array)
      BY <1>1, <1>3
    <3>2. QED
      BY <3>1 DEF LeaveArray, c
  <2>5. QED
    BY <1>3, <2>3, <2>4 DEF c
<1>4. CASE i \notin DOMAIN node.array
  <2>1. ~(i <= Len(node.array))
    BY <1>1, <1>4
  <2>2. LeaveArray(a, node, i) = a
    BY <2>1 DEF LeaveArray
  <2>3. QED
    BY <1>4, <2>2
<1>5. QED
  BY <1>3, <1>4

-----------------------------------------------------------------------------
(* The pass and the tree of the paths. *)

\* The node that stands for the value v, 0 when no path leads to v.
Led(w, t, v, node) ==
  /\ node \in {0} \cup DOMAIN w
  /\ \A n \in DOMAIN w : Spot(t, w[n]) = v <=> n = node

\* The place of the pass among the elements of an array and among the edges
\* that want them.
Abreast(p, t, v, mark) ==
  /\ mark.index = Cardinality(Members(t, v))
  /\ \A x : x \in 0..(mark.index - 1) <=> \E k \in Members(t, v) : t[k].label = x
  /\ mark.node # 0 =>
       \A j \in DOMAIN p.nodes[mark.node].array :
         j < mark.wanted <=> p.nodes[mark.node].array[j].index < mark.index

\* The object edges that were met.
AreMet(p, w, t, met) ==
  \A n \in DOMAIN w : \A k \in DOMAIN p.nodes[n].object :
    p.nodes[n].object[k].id \in met <=> Spot(t, w[p.nodes[n].object[k].child]) # 0

MarkType == [node : Nat, wanted : Nat \ {0}, index : Nat]

\* Selected, of a part of the source.
Chosen(p, t, met, v, mark, label) ==
  LET node == IF mark.node = 0 THEN EmptyNode ELSE p.nodes[mark.node] IN
  IF t[v].kind = "object"
  THEN IF label \in DOMAIN node.object /\ node.object[label].id \notin met
       THEN node.object[label].child ELSE 0
  ELSE IF mark.wanted <= Len(node.array) /\ node.array[mark.wanted].index = mark.index
       THEN node.array[mark.wanted].child ELSE 0

\* The edge the new value follows.
Follows(p, w, t, met, v, mark, label, e, c) ==
  /\ mark.node # 0 /\ Hangs(w, mark.node, e, c) /\ Wanted(e) = t[v].kind
  /\ t[v].kind = "object" =>
       /\ e.tag = "key" /\ e.value = label /\ label \in DOMAIN p.nodes[mark.node].object
       /\ p.nodes[mark.node].object[label].child = c
       /\ p.nodes[mark.node].object[label].id \notin met
  /\ t[v].kind = "array" =>
       /\ e.tag = "index" /\ e.value = mark.index
       /\ mark.wanted \in DOMAIN p.nodes[mark.node].array
       /\ p.nodes[mark.node].array[mark.wanted].child = c
       /\ p.nodes[mark.node].array[mark.wanted].index = mark.index

LEMMA ChosenFollows ==
  ASSUME NEW p, NEW w, Trie(p, w), NEW t, NEW met, NEW v, t[v].kind \in Containers,
         NEW mark \in MarkType, mark.node \in {0} \cup DOMAIN w, NEW label, NEW c,
         c = Chosen(p, t, met, v, mark, label), c # 0
  PROVE  \E e : Follows(p, w, t, met, v, mark, label, e, c)
<1> DEFINE node == IF mark.node = 0 THEN EmptyNode ELSE p.nodes[mark.node]
<1>1. mark.wanted \in Nat \ {0} /\ mark.index \in Nat
  BY DEF MarkType
<1>2. CASE t[v].kind = "object"
  <2>1. label \in DOMAIN node.object /\ node.object[label].id \notin met
        /\ node.object[label].child = c
    BY <1>2 DEF Chosen
  <2>2. mark.node # 0 /\ mark.node \in DOMAIN w
    BY <2>1 DEF EmptyNode
  <2>3. node = p.nodes[mark.node]
    BY <2>2
  <2> DEFINE e == [tag |-> "key", value |-> label]
  <2>4. Wanted(e) = "object" /\ Hangs(w, mark.node, e, c)
    BY <2>1, <2>2, <2>3, KeyEdge
  <2>5. e.tag = "key" /\ e.value = label
    OBVIOUS
  <2> HIDE DEF e, node
  <2>6. Follows(p, w, t, met, v, mark, label, e, c)
    BY <1>2, <2>1, <2>2, <2>3, <2>4, <2>5 DEF Follows
  <2>7. QED
    BY <2>6
<1>3. CASE t[v].kind # "object"
  <2>0. t[v].kind = "array"
    BY <1>3 DEF Containers
  <2>1. mark.wanted <= Len(node.array) /\ node.array[mark.wanted].index = mark.index
        /\ node.array[mark.wanted].child = c
    BY <1>3 DEF Chosen
  <2>2. mark.node # 0
    <3> SUFFICES ASSUME mark.node = 0
                 PROVE  FALSE
      OBVIOUS
    <3>1. Len(node.array) = 0
      BY DEF EmptyNode
    <3>2. QED
      BY <1>1, <2>1, <3>1
  <2>3. node = p.nodes[mark.node] /\ mark.node \in DOMAIN w
    BY <2>2
  <2> HIDE DEF node
  <2>4. mark.wanted \in DOMAIN node.array
    <3>1. node \in PlanNode
      BY <2>3, TrieShape
    <3>2. DOMAIN node.array = 1..Len(node.array) /\ Len(node.array) \in Nat
      BY <3>1, NodeType
    <3>3. QED
      BY <1>1, <2>1, <3>2
  <2> DEFINE e == [tag |-> "index", value |-> mark.index]
  <2>5. Wanted(e) = "array" /\ Hangs(w, mark.node, e, c)
    <3> DEFINE j == mark.wanted
               f == [tag |-> "index", value |-> p.nodes[mark.node].array[j].index]
    <3>1. mark.node \in DOMAIN w /\ j \in DOMAIN p.nodes[mark.node].array
      BY <2>3, <2>4
    <3>2. f = e /\ p.nodes[mark.node].array[j].child = c
      BY <2>1, <2>3
    <3> HIDE DEF j
    <3>3. Wanted(f) = "array" /\ Hangs(w, mark.node, f, p.nodes[mark.node].array[j].child)
      BY <3>1, IndexEdge
    <3>4. QED
      BY <3>2, <3>3
  <2>6. e.tag = "index" /\ e.value = mark.index
    OBVIOUS
  <2> HIDE DEF e
  <2>7. Follows(p, w, t, met, v, mark, label, e, c)
    BY <2>0, <2>1, <2>2, <2>3, <2>4, <2>5, <2>6 DEF Follows
  <2>8. QED
    BY <2>7
<1>4. QED
  BY <1>2, <1>3

\* What would follow an edge is not overlooked.
LEMMA FollowsChosen ==
  ASSUME NEW p, NEW w, Trie(p, w), NEW t, NEW met, NEW v,
         NEW mark \in MarkType, NEW label, NEW e, NEW c,
         Follows(p, w, t, met, v, mark, label, e, c)
  PROVE  c = Chosen(p, t, met, v, mark, label)
<1>1. mark.node # 0 /\ mark.node \in DOMAIN w /\ t[v].kind \in {"object", "array"}
  BY WantedKind DEF Follows, Hangs
<1>2. CASE t[v].kind = "object"
  BY <1>1, <1>2 DEF Follows, Chosen
<1>3. CASE t[v].kind = "array"
  <2> DEFINE node == p.nodes[mark.node]
  <2>1. /\ mark.wanted \in DOMAIN node.array /\ node.array[mark.wanted].child = c
        /\ node.array[mark.wanted].index = mark.index
    BY <1>3 DEF Follows
  <2>2. mark.wanted <= Len(node.array)
    <3>1. node \in PlanNode
      BY <1>1, TrieShape
    <3>2. DOMAIN node.array = 1..Len(node.array) /\ Len(node.array) \in Nat
      BY <3>1, NodeType
    <3>3. QED
      BY <2>1, <3>2
  <2>3. QED
    BY <1>1, <1>3, <2>1, <2>2 DEF Chosen
<1>4. QED
  BY <1>1, <1>2, <1>3

\* The new value is what the source has at a place no path led to yet.
NewAt(t, u, v) == u[Len(u)].up = v

LEMMA SelectedIs ==
  ASSUME NEW p, NEW w, Trie(p, w), Ascending(p),
         NEW t, NEW u, Text(t), Grown(t, u), NEW v \in DOMAIN t, NewAt(t, u, v),
         t[v].kind \in Containers, NEW met, AreMet(p, w, t, met),
         NEW mark \in MarkType, Led(w, t, v, mark.node),
         t[v].kind = "array" => Abreast(p, t, v, mark) /\ u[Len(u)].label = mark.index,
         NEW c, c = Chosen(p, t, met, v, mark, u[Len(u)].label)
  PROVE  Led(w, u, Len(u), c)
<1> DEFINE n == Len(u)
           l == u[n].label
<1>1. mark.node \in {0} \cup DOMAIN w /\ \A m \in DOMAIN w : Spot(t, w[m]) = v <=> m = mark.node
  BY DEF Led
<1>2. \A m \in DOMAIN w : w[m] \in Path
  BY TrieShape
<1>3. v # 0 /\ v # n /\ n # 0 /\ n # 1 /\ u[v] = t[v] /\ n \notin DOMAIN t
  <2>1. v \in Nat \ {0} /\ v < n /\ u[v] = t[v]
    BY TextShape, GrownOld
  <2>2. n \notin DOMAIN t /\ n \in Nat
    BY GrownShape
  <2> HIDE DEF n
  <2>3. QED
    BY <2>1, <2>2
<1>4. Text(u)
  BY GrownText
<1>5. ASSUME NEW m \in DOMAIN w
      PROVE  /\ Spot(t, w[m]) \in {0} \cup DOMAIN t
             /\ Spot(t, w[m]) # 0 => Spot(u, w[m]) = Spot(t, w[m])
             /\ Spot(u, w[m]) = Spot(t, w[m]) \/ (Spot(t, w[m]) = 0 /\ Spot(u, w[m]) = n)
  <2>1. Spot(u, w[m]) = Spot(t, w[m]) \/ (Spot(t, w[m]) = 0 /\ Spot(u, w[m]) = n)
    BY <1>2, SpotGrows
  <2>2. Spot(t, w[m]) \in {0} \cup DOMAIN t
    <3>1. [tag |-> "key", value |-> 0] \in Segment
      BY DEF Segment
    <3>2. QED
      BY <1>2, <3>1, SpotNext
  <2>3. QED
    BY <2>1, <2>2
<1>6. ASSUME NEW m, NEW e, NEW d, Hangs(w, m, e, d), Spot(t, w[m]) # 0
      PROVE  /\ Spot(t, w[d]) = First(t, Spot(t, w[m]), e)
             /\ Spot(u, w[d]) = First(u, Spot(t, w[m]), e)
  <2>1. m \in DOMAIN w /\ e \in Segment /\ w[d] = Append(w[m], e)
    BY <1>6 DEF Hangs
  <2>2. Spot(u, w[m]) = Spot(t, w[m])
    BY <1>5, <1>6, <2>1
  <2>3. Spot(t, w[d]) = First(t, Spot(t, w[m]), e)
    BY <1>2, <1>6, <2>1, SpotNext
  <2>4. Spot(u, w[d]) = First(u, Spot(u, w[m]), e)
    BY <1>2, <1>4, <1>6, <2>1, <2>2, SpotNext
  <2>5. QED
    BY <2>2, <2>3, <2>4
<1>7. c # 0 => c \in DOMAIN w /\ Spot(u, w[c]) = n
  <2> SUFFICES ASSUME c # 0
               PROVE  c \in DOMAIN w /\ Spot(u, w[c]) = n
    OBVIOUS
  <2>1. PICK e : Follows(p, w, t, met, v, mark, l, e, c)
    BY <1>1, ChosenFollows
  <2>2. mark.node # 0 /\ Hangs(w, mark.node, e, c) /\ Wanted(e) = t[v].kind
    BY <2>1 DEF Follows
  <2>3. c \in DOMAIN w /\ e \in Segment
    BY <2>2 DEF Hangs
  <2>4. Spot(t, w[mark.node]) = v
    BY <1>1, <2>2
  <2>5. Spot(t, w[c]) = First(t, v, e) /\ Spot(u, w[c]) = First(u, v, e)
    BY <1>3, <1>6, <2>2, <2>4
  <2>6. First(t, v, e) = 0 /\ u[n].up = v /\ u[n].label = e.value
    <3>1. CASE t[v].kind = "object"
      <4>1. /\ e.value = l /\ l \in DOMAIN p.nodes[mark.node].object
            /\ p.nodes[mark.node].object[l].child = c
            /\ p.nodes[mark.node].object[l].id \notin met
        BY <2>1, <3>1 DEF Follows
      <4>2. mark.node \in DOMAIN w
        BY <2>2 DEF Hangs
      <4>3. Spot(t, w[c]) = 0
        BY <4>1, <4>2 DEF AreMet
      <4>4. QED
        BY <2>5, <4>1, <4>3 DEF NewAt
    <3>2. CASE t[v].kind = "array"
      <4>1. e.value = mark.index /\ u[n].label = mark.index
        BY <2>1, <3>2 DEF Follows
      <4>2. \A k \in Members(t, v) : t[k].label \in 0..(mark.index - 1)
        BY <3>2 DEF Abreast
      <4>3. mark.index \in Nat
        BY DEF MarkType
      <4>4. First(t, v, e) # 0 =>
              First(t, v, e) \in Members(t, v) /\ t[First(t, v, e)].label = mark.index
        BY <2>3, <4>1, FirstIs DEF Members
      <4>5. First(t, v, e) = 0
        BY <4>2, <4>3, <4>4
      <4>6. QED
        BY <4>1, <4>5 DEF NewAt
    <3>3. QED
      BY <3>1, <3>2 DEF Containers
  <2>7. First(u, v, e) = n
    BY <2>2, <2>3, <2>6, FirstGrows
  <2>8. QED
    BY <2>3, <2>5, <2>7
<1>8. ASSUME NEW m \in DOMAIN w, Spot(u, w[m]) = n
      PROVE  m = c
  <2>1. Spot(t, w[m]) = 0
    BY <1>3, <1>5, <1>8
  <2>2. m # 1
    <3>1. w[1] = <<>>
      BY DEF Trie
    <3>2. QED
      BY <1>3, <1>4, <1>8, <3>1, SpotRoot
  <2>3. PICK a, e : Hangs(w, a, e, m)
    BY <2>2, HangsOnce
  <2>4. a \in DOMAIN w /\ e \in Segment /\ w[m] = Append(w[a], e)
    BY <2>3 DEF Hangs
  <2>5. Spot(u, w[a]) # 0 /\ n = First(u, Spot(u, w[a]), e)
    BY <1>2, <1>3, <1>4, <1>8, <2>4, SpotNext
  <2>6. Spot(u, w[a]) # n
    BY <1>3, <2>5, NewIsEmpty
  <2> DEFINE b == Spot(t, w[a])
  <2>7. b # 0 /\ b \in DOMAIN t /\ Spot(u, w[a]) = b
    BY <1>5, <2>4, <2>5, <2>6
  <2>8. First(t, b, e) = 0 /\ First(u, b, e) = n
    BY <1>6, <2>1, <2>3, <2>5, <2>7
  <2> HIDE DEF b
  <2>9. u[n].up = b /\ u[n].label = e.value /\ t[b].kind = Wanted(e)
    BY <1>3, <2>4, <2>7, <2>8, FirstGrows
  <2>10. b = v /\ a = mark.node /\ mark.node # 0
    <3>1. b = v
      BY <2>9 DEF NewAt
    <3>2. a = mark.node
      BY <1>1, <2>4, <3>1 DEF b
    <3>3. a # 0
      BY <2>4, TrieShape
    <3>4. QED
      BY <3>1, <3>2, <3>3
  <2>11. Follows(p, w, t, met, v, mark, l, e, m)
    <3>1. CASE t[v].kind = "object"
      <4>1. e.tag = "key" /\ e.value \in DOMAIN p.nodes[a].object /\ p.nodes[a].object[e.value].child = m
        BY <2>3, <2>9, <2>10, <3>1, HangsBy
      <4>2. p.nodes[a].object[e.value].id \notin met
        BY <2>1, <2>4, <4>1 DEF AreMet
      <4>3. QED
        BY <2>3, <2>9, <2>10, <3>1, <4>1, <4>2 DEF Follows
    <3>2. CASE t[v].kind = "array"
      <4>1. PICK j \in DOMAIN p.nodes[a].array :
              p.nodes[a].array[j].index = e.value /\ p.nodes[a].array[j].child = m
        BY <2>3, <2>9, <2>10, <3>2, HangsBy
      <4> DEFINE s == p.nodes[a].array
      <4>2. e.tag = "index" /\ e.value = mark.index
        BY <2>3, <2>9, <2>10, <3>2, HangsBy
      <4>3. \A i \in DOMAIN s : i < mark.wanted <=> s[i].index < mark.index
        BY <2>10, <3>2 DEF Abreast
      <4>4. \A i, k \in DOMAIN s : i < k => s[i].index < s[k].index
        BY <2>4, TrieShape DEF Ascending
      <4>5. DOMAIN s = 1..Len(s) /\ Len(s) \in Nat /\ \A i \in DOMAIN s : s[i].index \in Nat
        <5>1. p.nodes[a] \in PlanNode
          BY <2>4, TrieShape
        <5>2. QED
          BY <5>1, NodeType
      <4>6. mark.wanted \in Nat \ {0} /\ mark.index \in Nat
        BY DEF MarkType
      <4>7. j \in DOMAIN s /\ s[j].index = mark.index /\ s[j].child = m
        BY <4>1, <4>2
      <4> HIDE DEF s
      <4>8. ~(j < mark.wanted) /\ j \in 1..Len(s)
        BY <4>3, <4>5, <4>6, <4>7
      <4>9. mark.wanted \in DOMAIN s
        BY <4>5, <4>6, <4>8
      <4>10. ~(mark.wanted < j)
        <5> SUFFICES ASSUME mark.wanted < j
                     PROVE  FALSE
          OBVIOUS
        <5>1. s[mark.wanted].index < mark.index
          BY <4>4, <4>7, <4>9
        <5>2. QED
          BY <4>3, <4>6, <4>9, <5>1
      <4>11. j = mark.wanted
        BY <4>5, <4>6, <4>8, <4>10
      <4>12. QED
        BY <2>3, <2>9, <2>10, <3>2, <4>2, <4>7, <4>9, <4>11 DEF Follows, s
    <3>3. QED
      BY <3>1, <3>2 DEF Containers
  <2>12. QED
    BY <2>11, FollowsChosen
<1>9. \A m \in DOMAIN w : Spot(u, w[m]) = n <=> m = c
  <2>1. 0 \notin DOMAIN w
    BY TrieShape
  <2>2. QED
    BY <1>7, <1>8, <2>1
<1>10. c \in {0} \cup DOMAIN w
  BY <1>7
<1>11. QED
  BY <1>9, <1>10 DEF Led

\* A step of the pass in the source t, which u extends by a value in v.
Step(p, w, t, u, v, met, mark, c) ==
  /\ Trie(p, w) /\ Ascending(p) /\ Numbered(p)
  /\ Text(t) /\ Grown(t, u) /\ v \in DOMAIN t /\ NewAt(t, u, v) /\ t[v].kind \in Containers
  /\ AreMet(p, w, t, met)
  /\ mark \in MarkType /\ Led(w, t, v, mark.node)
  /\ t[v].kind = "array" => Abreast(p, t, v, mark) /\ u[Len(u)].label = mark.index
  /\ c = Chosen(p, t, met, v, mark, u[Len(u)].label)

LEMMA StepLed ==
  ASSUME NEW p, NEW w, NEW t, NEW u, NEW v, NEW met, NEW mark, NEW c,
         Step(p, w, t, u, v, met, mark, c)
  PROVE  /\ Led(w, u, Len(u), c) /\ c \in {0} \cup DOMAIN w
         /\ c # 0 => \E e : Follows(p, w, t, met, v, mark, u[Len(u)].label, e, c)
<1>1. Led(w, u, Len(u), c)
  <2>1. t[v].kind = "array" => Abreast(p, t, v, mark) /\ u[Len(u)].label = mark.index
    BY DEF Step
  <2>2. QED
    BY <2>1, SelectedIs DEF Step
<1>2. mark.node \in {0} \cup DOMAIN w
  BY DEF Step, Led
<1>3. c # 0 => \E e : Follows(p, w, t, met, v, mark, u[Len(u)].label, e, c)
  BY <1>2, ChosenFollows DEF Step
<1>4. QED
  BY <1>1, <1>3 DEF Led

\* Met: the edge is numbered as met.
MetAfter(p, t, u, v, met, mark, c, met2) ==
  met2 = IF c # 0 /\ t[v].kind = "object"
         THEN met \cup {p.nodes[mark.node].object[u[Len(u)].label].id} ELSE met

LEMMA MetNext ==
  ASSUME NEW p, NEW w, NEW t, NEW u, NEW v, NEW met, NEW mark, NEW c,
         Step(p, w, t, u, v, met, mark, c),
         NEW met2, MetAfter(p, t, u, v, met, mark, c, met2)
  PROVE  AreMet(p, w, u, met2)
<1>0. met2 = IF c # 0 /\ t[v].kind = "object"
             THEN met \cup {p.nodes[mark.node].object[u[Len(u)].label].id} ELSE met
  BY DEF MetAfter
<1> DEFINE l == u[Len(u)].label
<1>1. /\ Led(w, u, Len(u), c) /\ c \in {0} \cup DOMAIN w
      /\ c # 0 => \E e : Follows(p, w, t, met, v, mark, l, e, c)
  BY StepLed
<1>2. /\ Trie(p, w) /\ Numbered(p) /\ Text(t) /\ Grown(t, u) /\ AreMet(p, w, t, met)
      /\ t[v].kind \in {"object", "array"}
  BY DEF Step, Containers
<1>3. /\ \A m \in DOMAIN w : w[m] \in Path
      /\ DOMAIN p.nodes = DOMAIN w /\ 0 \notin DOMAIN w
  BY <1>2, TrieShape
<1>4. Len(u) # 0
  <2>1. Len(t) \in Nat /\ Len(u) = Len(t) + 1
    BY <1>2, GrownShape
  <2>2. QED
    BY <2>1
<1> SUFFICES ASSUME NEW n \in DOMAIN w, NEW k \in DOMAIN p.nodes[n].object
             PROVE  p.nodes[n].object[k].id \in met2
                      <=> Spot(u, w[p.nodes[n].object[k].child]) # 0
  BY DEF AreMet
<1> DEFINE d == p.nodes[n].object[k].child
           id == p.nodes[n].object[k].id
           key == [tag |-> "key", value |-> k]
<1>5. Hangs(w, n, key, d) /\ d \in DOMAIN w
  <2>1. n \in DOMAIN w /\ k \in DOMAIN p.nodes[n].object /\ d = p.nodes[n].object[k].child
    OBVIOUS
  <2> HIDE DEF d
  <2>2. Hangs(w, n, key, d)
    BY <1>2, <2>1, KeyEdge
  <2>3. QED
    BY <2>2 DEF Hangs
<1>6. id \in met <=> Spot(t, w[d]) # 0
  BY <1>2 DEF AreMet
<1>7. Spot(u, w[d]) # 0 <=> Spot(t, w[d]) # 0 \/ d = c
  <2>1. Spot(u, w[d]) = Len(u) <=> d = c
    BY <1>1, <1>5 DEF Led
  <2>2. Spot(u, w[d]) = Spot(t, w[d]) \/ (Spot(t, w[d]) = 0 /\ Spot(u, w[d]) = Len(u))
    BY <1>2, <1>3, <1>5, SpotGrows
  <2> HIDE DEF d
  <2>3. QED
    BY <1>4, <2>1, <2>2
<1>8. CASE c = 0
  <2>1. met2 = met /\ d # c
    BY <1>0, <1>3, <1>5, <1>8
  <2>2. QED
    BY <1>6, <1>7, <2>1
<1>9. CASE c # 0 /\ t[v].kind = "array"
  <2>1. PICK e : Follows(p, w, t, met, v, mark, l, e, c)
    BY <1>1, <1>9
  <2>2. Hangs(w, mark.node, e, c) /\ e.tag = "index"
    BY <1>9, <2>1 DEF Follows
  <2>3. d # c
    <3>1. key.tag = "key"
      OBVIOUS
    <3>2. e # key
      BY <2>2, <3>1
    <3>3. c \in DOMAIN w
      BY <1>1, <1>9
    <3> HIDE DEF key, d
    <3>4. QED
      BY <1>2, <1>5, <2>2, <3>2, <3>3, HangsOnce
  <2>4. met2 = met
    BY <1>0, <1>9
  <2>5. QED
    BY <1>6, <1>7, <2>3, <2>4
<1>10. CASE c # 0 /\ t[v].kind = "object"
  <2>1. PICK e : Follows(p, w, t, met, v, mark, l, e, c)
    BY <1>1, <1>10
  <2>2. /\ Hangs(w, mark.node, e, c) /\ e.tag = "key" /\ e.value = l
        /\ l \in DOMAIN p.nodes[mark.node].object
        /\ p.nodes[mark.node].object[l].child = c
    BY <1>10, <2>1 DEF Follows
  <2>3. mark.node \in DOMAIN w /\ c \in DOMAIN w
    BY <2>2 DEF Hangs
  <2> DEFINE new == p.nodes[mark.node].object[l].id
  <2>4. met2 = met \cup {new}
    BY <1>0, <1>10
  <2>5. id = new <=> d = c
    <3>1. id = new => n = mark.node /\ k = l
      <4>1. \A n1, n2 \in DOMAIN w :
              \A k1 \in DOMAIN p.nodes[n1].object, k2 \in DOMAIN p.nodes[n2].object :
                p.nodes[n1].object[k1].id = p.nodes[n2].object[k2].id => n1 = n2 /\ k1 = k2
        BY <1>2, <1>3 DEF Numbered
      <4>2. QED
        BY <2>2, <2>3, <4>1
    <3>2. n = mark.node /\ k = l => id = new /\ d = c
      BY <2>2
    <3>3. d = c => n = mark.node /\ k = l
      <4> SUFFICES ASSUME d = c
                   PROVE  n = mark.node /\ k = l
        OBVIOUS
      <4>1. key.value = k
        OBVIOUS
      <4> HIDE DEF key, d, id, l
      <4>2. n = mark.node /\ key = e
        BY <1>2, <1>5, <2>2, <2>3, HangsOnce
      <4>3. QED
        BY <2>2, <4>1, <4>2
    <3>4. QED
      BY <3>1, <3>2, <3>3
  <2> HIDE DEF id, new, d
  <2>6. id \in met2 <=> Spot(u, w[d]) # 0
    BY <1>6, <1>7, <2>4, <2>5
  <2>7. QED
    BY <2>6 DEF id, d
<1>11. QED
  BY <1>2, <1>8, <1>9, <1>10

\* What an open container and its mark are to the part of the source that was read.
At(p, w, t, v, mark) ==
  /\ t[v].kind \in Containers /\ Led(w, t, v, mark.node)
  /\ t[v].kind = "array" => Abreast(p, t, v, mark)

Cursor(p, w, t, o, m) ==
  /\ o \in Seq(DOMAIN t) /\ m \in Seq(MarkType) /\ Len(m) = Len(o)
  /\ \A i, k \in DOMAIN o : i < k => o[i] < o[k]
  /\ \A i \in DOMAIN o : At(p, w, t, o[i], m[i])

Moved(mark, isObject, c) ==
  [mark EXCEPT !.index = @ + 1, !.wanted = IF c # 0 /\ ~isObject THEN @ + 1 ELSE @]

LEMMA LedKept ==
  ASSUME NEW p, NEW w, Trie(p, w), NEW t, NEW u, Text(t), Grown(t, u),
         NEW v \in DOMAIN t, NEW c, Led(w, t, v, c)
  PROVE  Led(w, u, v, c)
<1>1. v # 0 /\ v # Len(u)
  BY TextShape, GrownOld
<1>2. ASSUME NEW n \in DOMAIN w
      PROVE  Spot(u, w[n]) = v <=> Spot(t, w[n]) = v
  <2>1. w[n] \in Path
    BY TrieShape
  <2>2. Spot(u, w[n]) = Spot(t, w[n]) \/ (Spot(t, w[n]) = 0 /\ Spot(u, w[n]) = Len(u))
    BY <2>1, SpotGrows
  <2>3. QED
    BY <1>1, <2>2
<1>3. QED
  BY <1>2 DEF Led

LEMMA AtKept ==
  ASSUME NEW p, NEW w, Trie(p, w), NEW t, NEW u, Text(t), Grown(t, u),
         NEW v \in DOMAIN t, v # u[Len(u)].up, NEW mark, At(p, w, t, v, mark)
  PROVE  At(p, w, u, v, mark)
<1>1. u[v] = t[v] /\ Members(u, v) = Members(t, v)
  BY GrownOld, MembersGrown
<1>2. Led(w, u, v, mark.node)
  BY LedKept DEF At
<1>3. ASSUME Abreast(p, t, v, mark)
      PROVE  Abreast(p, u, v, mark)
  <2>1. \A k \in Members(t, v) : u[k].label = t[k].label
    <3>1. \A k \in Members(t, v) : k \in DOMAIN t
      BY DEF Members
    <3>2. QED
      BY <3>1, GrownOld
  <2>2. \A x : x \in 0..(mark.index - 1) <=> \E k \in Members(u, v) : u[k].label = x
    BY <1>1, <1>3, <2>1 DEF Abreast
  <2>3. QED
    BY <1>1, <1>3, <2>2 DEF Abreast
<1>4. QED
  BY <1>1, <1>2, <1>3 DEF At

LEMMA MovedType ==
  ASSUME NEW mark \in MarkType, NEW isObject \in BOOLEAN, NEW c
  PROVE  LET next == Moved(mark, isObject, c) IN
         /\ next \in MarkType /\ next.node = mark.node /\ next.index = mark.index + 1
         /\ c # 0 /\ ~isObject => next.wanted = mark.wanted + 1
         /\ c = 0 \/ isObject => next.wanted = mark.wanted
<1>1. mark = [node |-> mark.node, wanted |-> mark.wanted, index |-> mark.index]
  BY DEF MarkType
<1>2. mark.node \in Nat /\ mark.wanted \in Nat \ {0} /\ mark.index \in Nat
  BY DEF MarkType
<1> DEFINE old == mark.wanted
           new == IF c # 0 /\ ~isObject THEN old + 1 ELSE old
<1>3. Moved(mark, isObject, c) = [node |-> mark.node, wanted |-> new, index |-> mark.index + 1]
  <2>1. Moved(mark, isObject, c) = [mark EXCEPT !.index = mark.index + 1, !.wanted = new]
    BY DEF Moved
  <2> HIDE DEF new
  <2>2. QED
    BY <1>1, <2>1
<1>4. QED
  BY <1>2, <1>3 DEF MarkType

\* The next array edge that is wanted, after an element.
LEMMA WantedNext ==
  ASSUME NEW p, NEW w, NEW t, NEW u, NEW v, NEW met, NEW mark, NEW c,
         Step(p, w, t, u, v, met, mark, c), t[v].kind = "array", mark.node # 0,
         NEW next, next.index = mark.index + 1,
         next.wanted = IF c # 0 THEN mark.wanted + 1 ELSE mark.wanted
  PROVE  \A j \in DOMAIN p.nodes[mark.node].array :
           j < next.wanted <=> p.nodes[mark.node].array[j].index < next.index
<1> DEFINE s == p.nodes[mark.node].array
<1>1. /\ Trie(p, w) /\ Ascending(p) /\ mark \in MarkType /\ Abreast(p, t, v, mark)
      /\ c = Chosen(p, t, met, v, mark, u[Len(u)].label)
  BY DEF Step
<1>2. mark.node \in DOMAIN w
  BY DEF Step, Led
<1>3. DOMAIN s = 1..Len(s) /\ Len(s) \in Nat /\ \A i \in DOMAIN s : s[i].index \in Nat
  <2>1. p.nodes[mark.node] \in PlanNode
    BY <1>1, <1>2, TrieShape
  <2>2. QED
    BY <2>1, NodeType
<1>4. \A i, k \in DOMAIN s : i < k => s[i].index < s[k].index
  BY <1>1, <1>2, TrieShape DEF Ascending
<1>5. \A i \in DOMAIN s : i < mark.wanted <=> s[i].index < mark.index
  BY <1>1 DEF Abreast
<1>6. mark.wanted \in Nat \ {0} /\ mark.index \in Nat
  BY <1>1 DEF MarkType
<1>7. /\ next.index = mark.index + 1
      /\ c # 0 => next.wanted = mark.wanted + 1
      /\ c = 0 => next.wanted = mark.wanted
  OBVIOUS
<1>8. c # 0 <=> mark.wanted <= Len(s) /\ s[mark.wanted].index = mark.index
  <2>1. c = IF mark.wanted <= Len(s) /\ s[mark.wanted].index = mark.index
            THEN s[mark.wanted].child ELSE 0
    BY <1>1 DEF Chosen
  <2>2. \A j \in DOMAIN s : s[j].child # 0
    <3>1. \A j \in DOMAIN s : s[j].child \in DOMAIN w
      BY <1>1, <1>2, IndexEdge DEF Hangs
    <3>2. 0 \notin DOMAIN w
      BY <1>1, TrieShape
    <3>3. QED
      BY <3>1, <3>2
  <2>3. mark.wanted <= Len(s) => mark.wanted \in DOMAIN s
    BY <1>3, <1>6
  <2> HIDE DEF s
  <2>4. QED
    BY <2>1, <2>2, <2>3
<1> SUFFICES ASSUME NEW j \in DOMAIN s
             PROVE  j < next.wanted <=> s[j].index < next.index
  OBVIOUS
<1> HIDE DEF s
<1>9. j \in Nat /\ s[j].index \in Nat /\ (j < mark.wanted <=> s[j].index < mark.index)
  BY <1>3, <1>5
<1>10. mark.wanted <= Len(s) => mark.wanted \in DOMAIN s
  BY <1>3, <1>6
<1>11. CASE c # 0
  <2>1. mark.wanted \in DOMAIN s /\ s[mark.wanted].index = mark.index
    BY <1>8, <1>10, <1>11
  <2>2. /\ j < mark.wanted => s[j].index < s[mark.wanted].index
        /\ mark.wanted < j => s[mark.wanted].index < s[j].index
    BY <1>4, <2>1
  <2>3. j = mark.wanted => s[j].index = mark.index
    BY <2>1
  <2>4. QED
    BY <1>6, <1>7, <1>9, <1>11, <2>1, <2>2, <2>3
<1>12. CASE c = 0
  <2>1. s[j].index # mark.index
    <3> SUFFICES ASSUME s[j].index = mark.index
                 PROVE  FALSE
      OBVIOUS
    <3>1. ~(j < mark.wanted)
      BY <1>6, <1>9
    <3>2. mark.wanted <= Len(s) /\ mark.wanted \in DOMAIN s
      <4>1. j \in 1..Len(s)
        BY <1>3
      <4>2. QED
        BY <1>3, <1>6, <1>10, <3>1, <4>1
    <3>3. j # mark.wanted
      BY <1>8, <1>12, <3>2
    <3>4. mark.wanted < j
      BY <1>3, <1>6, <1>9, <3>1, <3>3
    <3>5. s[mark.wanted].index < mark.index
      BY <1>4, <3>2, <3>4
    <3>6. mark.wanted < mark.wanted
      BY <1>5, <3>2, <3>5
    <3>7. QED
      BY <1>6, <3>6
  <2>2. QED
    BY <1>6, <1>7, <1>9, <1>12, <2>1
<1>13. QED
  BY <1>11, <1>12

\* The container the new value is in.
LEMMA AtNext ==
  ASSUME NEW p, NEW w, NEW t, NEW u, NEW v, NEW met, NEW mark, NEW c,
         Step(p, w, t, u, v, met, mark, c), At(p, w, t, v, mark),
         NEW next, next = Moved(mark, t[v].kind = "object", c)
  PROVE  At(p, w, u, v, next) /\ next \in MarkType
<1>1. /\ Trie(p, w) /\ Text(t) /\ Grown(t, u) /\ v \in DOMAIN t /\ u[Len(u)].up = v
      /\ mark \in MarkType
      /\ t[v].kind = "array" => Abreast(p, t, v, mark) /\ u[Len(u)].label = mark.index
  BY DEF Step, NewAt
<1>2. next \in MarkType /\ next.node = mark.node /\ next.index = mark.index + 1
  BY <1>1, MovedType
<1>3. u[v] = t[v] /\ Members(u, v) = Members(t, v) \cup {Len(u)}
      /\ Members(t, v) \subseteq 1..Len(t)
  BY <1>1, GrownOld, MembersGrown
<1>4. Led(w, u, v, next.node)
  BY <1>1, <1>2, LedKept DEF At
<1>5. ASSUME t[v].kind = "array"
      PROVE  Abreast(p, u, v, next)
  <2>1. Abreast(p, t, v, mark) /\ u[Len(u)].label = mark.index /\ mark.index \in Nat
    BY <1>1, <1>5 DEF MarkType
  <2>2. Len(u) \notin Members(t, v) /\ IsFiniteSet(Members(t, v)) /\ Len(t) \in Nat
    <3>1. Len(u) \notin DOMAIN t /\ Len(t) \in Nat
      BY <1>1, GrownShape
    <3>2. Len(u) \notin Members(t, v)
      BY <3>1 DEF Members
    <3>3. IsFiniteSet(1..Len(t))
      BY <3>1, FS_Interval
    <3>4. QED
      BY <1>3, <3>1, <3>2, <3>3, FS_Subset
  <2>3. next.index = Cardinality(Members(u, v))
    <3>1. Cardinality(Members(t, v) \cup {Len(u)}) = Cardinality(Members(t, v)) + 1
      BY <2>2, FS_AddElement
    <3>2. QED
      BY <1>2, <1>3, <2>1, <3>1 DEF Abreast
  <2>4. ASSUME NEW x
        PROVE  x \in 0..(next.index - 1) <=> \E k \in Members(u, v) : u[k].label = x
    <3>1. \A k \in Members(t, v) : u[k].label = t[k].label
      <4>1. \A k \in Members(t, v) : k \in DOMAIN t
        BY DEF Members
      <4>2. QED
        BY <1>1, <4>1, GrownOld
    <3>2. x \in 0..(mark.index - 1) <=> \E k \in Members(t, v) : t[k].label = x
      BY <2>1 DEF Abreast
    <3>3. (\E k \in Members(u, v) : u[k].label = x)
            <=> (x = mark.index \/ \E k \in Members(t, v) : t[k].label = x)
      BY <1>3, <2>1, <3>1
    <3>4. x \in 0..(next.index - 1) <=> x = mark.index \/ x \in 0..(mark.index - 1)
      BY <1>2, <2>1
    <3>5. QED
      BY <3>2, <3>3, <3>4
  <2>5. next.node # 0 =>
          \A j \in DOMAIN p.nodes[next.node].array :
            j < next.wanted <=> p.nodes[next.node].array[j].index < next.index
    <3>1. next.wanted = IF c # 0 THEN mark.wanted + 1 ELSE mark.wanted
      <4>1. t[v].kind # "object"
        BY <1>5
      <4> DEFINE b == t[v].kind = "object"
      <4>2. ~b /\ b \in BOOLEAN
        BY <4>1
      <4> HIDE DEF b
      <4>3. /\ c # 0 => Moved(mark, b, c).wanted = mark.wanted + 1
            /\ c = 0 => Moved(mark, b, c).wanted = mark.wanted
        BY <1>1, <4>2, MovedType, Zenon
      <4>4. QED
        BY <4>3 DEF b
    <3> HIDE DEF Moved
    <3>2. QED
      BY <1>2, <1>5, <3>1, WantedNext
  <2>6. QED
    BY <2>3, <2>4, <2>5 DEF Abreast
<1>6. QED
  BY <1>2, <1>3, <1>4, <1>5 DEF At

LEMMA CursorShape ==
  ASSUME NEW p, NEW w, NEW t, NEW o, NEW m, Cursor(p, w, t, o, m)
  PROVE  /\ Len(o) \in Nat /\ DOMAIN o = 1..Len(o) /\ Len(m) = Len(o) /\ DOMAIN m = DOMAIN o
         /\ \A i \in DOMAIN o : o[i] \in DOMAIN t /\ m[i] \in MarkType
         /\ o # <<>> => /\ Len(o) \in DOMAIN o /\ m # <<>>
                        /\ Last(o) = o[Len(o)] /\ Last(m) = m[Len(o)]
                        /\ Last(o) \in DOMAIN t /\ Last(m) \in MarkType
                        /\ At(p, w, t, Last(o), Last(m))
<1>1. o \in Seq(DOMAIN t) /\ m \in Seq(MarkType) /\ Len(m) = Len(o)
      /\ \A i \in DOMAIN o : At(p, w, t, o[i], m[i])
  BY DEF Cursor
<1>2. Len(o) \in Nat /\ DOMAIN o = 1..Len(o) /\ DOMAIN m = 1..Len(m)
      /\ (\A i \in 1..Len(o) : o[i] \in DOMAIN t) /\ (\A i \in 1..Len(m) : m[i] \in MarkType)
  BY <1>1
<1>3. o # <<>> => /\ Len(o) \in Nat \ {0} /\ m # <<>>
                  /\ Last(o) = o[Len(o)] /\ Last(m) = m[Len(o)]
  <2> SUFFICES ASSUME o # <<>>
               PROVE  Len(o) \in Nat \ {0} /\ m # <<>>
                      /\ Last(o) = o[Len(o)] /\ Last(m) = m[Len(o)]
    OBVIOUS
  <2>1. Len(o) \in Nat \ {0} /\ Last(o) = o[Len(o)]
    BY <1>1, FrontAndLast
  <2>2. m # <<>>
    BY <1>1, <2>1
  <2>3. Last(m) = m[Len(m)]
    BY <1>1, <2>2, FrontAndLast
  <2>4. QED
    BY <1>1, <2>1, <2>2, <2>3
<1>4. Len(o) \in Nat \ {0} => Len(o) \in 1..Len(o)
  OBVIOUS
<1>5. QED
  BY <1>1, <1>2, <1>3, <1>4

\* A cursor whose last mark was moved.
LEMMA MarkMoved ==
  ASSUME NEW S, NEW m \in Seq(S), m # <<>>, NEW x \in S
  PROVE  LET k == Append(Front(m), x) IN
         /\ k \in Seq(S) /\ Len(k) = Len(m) /\ k[Len(m)] = x
         /\ \A i \in 1..(Len(m) - 1) : k[i] = m[i]
<1>1. /\ Front(m) \in Seq(S) /\ Len(Front(m)) = Len(m) - 1 /\ Len(m) \in Nat \ {0}
      /\ \A i \in 1..(Len(m) - 1) : Front(m)[i] = m[i]
  BY FrontAndLast
<1> DEFINE f == Front(m)
           l == Len(m)
<1> HIDE DEF f, l
<1>2. f \in Seq(S) /\ Len(f) = l - 1 /\ l \in Nat \ {0} /\ \A i \in 1..(l - 1) : f[i] = m[i]
  BY <1>1 DEF f, l
<1> DEFINE k == Append(f, x)
<1>4. k \in Seq(S) /\ Len(k) = l /\ k[l] = x /\ \A i \in 1..(l - 1) : k[i] = f[i]
  BY <1>2
<1>5. QED
  <2> HIDE DEF k
  <2>1. k \in Seq(S) /\ Len(k) = l /\ k[l] = x /\ \A i \in 1..(l - 1) : k[i] = m[i]
    BY <1>2, <1>4
  <2>2. QED
    BY <2>1 DEF k, l, f

LEMMA CursorNext ==
  ASSUME NEW p, NEW w, NEW t, NEW u, NEW o, NEW m, Cursor(p, w, t, o, m), o # <<>>,
         NEW met, NEW c, Step(p, w, t, u, Last(o), met, Last(m), c),
         NEW next \in MarkType, At(p, w, u, Last(o), next),
         NEW k, k = Append(Front(m), next)
  PROVE  Cursor(p, w, u, o, k)
<1>1. /\ Len(o) \in Nat /\ DOMAIN o = 1..Len(o) /\ Len(m) = Len(o) /\ DOMAIN m = DOMAIN o
      /\ \A i \in DOMAIN o : o[i] \in DOMAIN t /\ m[i] \in MarkType
      /\ Len(o) \in DOMAIN o /\ m # <<>>
      /\ Last(o) = o[Len(o)] /\ At(p, w, t, Last(o), Last(m))
  BY CursorShape
<1>2. /\ o \in Seq(DOMAIN t) /\ m \in Seq(MarkType)
      /\ \A i, j \in DOMAIN o : i < j => o[i] < o[j]
      /\ \A i \in DOMAIN o : At(p, w, t, o[i], m[i])
  BY DEF Cursor
<1>3. At(p, w, u, Last(o), next) /\ next \in MarkType
  OBVIOUS
<1>4. /\ k \in Seq(MarkType) /\ Len(k) = Len(m) /\ k[Len(m)] = next
      /\ \A i \in 1..(Len(m) - 1) : k[i] = m[i]
  <2>1. m \in Seq(MarkType) /\ m # <<>> /\ next \in MarkType
    BY <1>1, <1>2
  <2>2. QED
    BY <2>1, MarkMoved
<1>5. Trie(p, w) /\ Text(t) /\ Grown(t, u) /\ u[Len(u)].up = Last(o)
  BY DEF Step, NewAt
<1>6. o \in Seq(DOMAIN u)
  <2>1. DOMAIN t \subseteq DOMAIN u
    BY <1>5, GrownOld
  <2> DEFINE A == DOMAIN t
             B == DOMAIN u
  <2> HIDE DEF A, B
  <2>2. o \in Seq(A) /\ A \subseteq B
    BY <1>2, <2>1 DEF A, B
  <2>3. o \in Seq(B)
    BY <2>2, SeqDef
  <2>4. QED
    BY <2>3 DEF B
<1>7. ASSUME NEW i \in DOMAIN o
      PROVE  At(p, w, u, o[i], k[i])
  <2>1. CASE i = Len(o)
    BY <1>1, <1>3, <1>4, <2>1
  <2>2. CASE i # Len(o)
    <3>1. i \in 1..(Len(m) - 1) /\ i < Len(o)
      BY <1>1, <2>2
    <3>2. o[i] < o[Len(o)] /\ o[i] \in DOMAIN t
      BY <1>1, <1>2, <3>1
    <3>3. o[i] # Last(o)
      <4>1. o[i] \in Nat /\ o[Len(o)] \in Nat
        BY <1>1, <1>5, GrownOld
      <4>2. QED
        BY <1>1, <3>2, <4>1
    <3>4. At(p, w, t, o[i], m[i])
      BY <1>2
    <3>5. At(p, w, u, o[i], m[i])
      BY <1>5, <3>2, <3>3, <3>4, AtKept
    <3>6. QED
      BY <1>4, <3>1, <3>5
  <2>3. QED
    BY <2>1, <2>2
<1>8. QED
  BY <1>1, <1>2, <1>4, <1>6, <1>7 DEF Cursor

LEMMA CursorInto ==
  ASSUME NEW p, NEW w, NEW t, NEW u, Grown(t, u), NEW o, NEW m, Cursor(p, w, u, o, m),
         \A i \in DOMAIN o : o[i] # Len(u),
         u[Len(u)].kind \in Containers, NEW c, Led(w, u, Len(u), c), Trie(p, w),
         NEW x, x = Mark(c)
  PROVE  Cursor(p, w, u, Append(o, Len(u)), Append(m, x))
<1>1. /\ Len(o) \in Nat /\ DOMAIN o = 1..Len(o) /\ Len(m) = Len(o)
      /\ \A i \in DOMAIN o : o[i] \in DOMAIN u
  BY CursorShape
<1>2. /\ o \in Seq(DOMAIN u) /\ m \in Seq(MarkType)
      /\ \A i, j \in DOMAIN o : i < j => o[i] < o[j]
      /\ \A i \in DOMAIN o : At(p, w, u, o[i], m[i])
  BY DEF Cursor
<1>3. Len(u) \in DOMAIN u /\ Len(u) \in Nat /\ DOMAIN u = 1..Len(u)
  BY GrownShape
<1>4. c \in {0} \cup DOMAIN w /\ DOMAIN w = 1..Len(w) /\ Len(w) \in Nat
  BY TrieShape DEF Led
<1>5. x.node = c /\ x.wanted = 1 /\ x.index = 0 /\ x \in MarkType
  BY <1>4 DEF Mark, MarkType
<1>6. At(p, w, u, Len(u), x)
  <2>1. Members(u, Len(u)) = {}
    BY MembersGrown
  <2>2. Abreast(p, u, Len(u), x)
    <3>1. x.index = Cardinality(Members(u, Len(u)))
      BY <1>5, <2>1, FS_EmptySet
    <3>2. \A y : y \in 0..(x.index - 1) <=> \E k \in Members(u, Len(u)) : u[k].label = y
      BY <1>5, <2>1
    <3>3. x.node # 0 =>
            \A j \in DOMAIN p.nodes[x.node].array :
              j < x.wanted <=> p.nodes[x.node].array[j].index < x.index
      <4> SUFFICES ASSUME x.node # 0, NEW j \in DOMAIN p.nodes[c].array
                   PROVE  j < 1 <=> p.nodes[c].array[j].index < 0
        BY <1>5
      <4>1. p.nodes[c] \in PlanNode
        BY <1>4, <1>5, TrieShape
      <4>2. j \in 1..Len(p.nodes[c].array) /\ p.nodes[c].array[j].index \in Nat
        BY <4>1, NodeType
      <4>3. QED
        BY <4>2
    <3>4. QED
      BY <3>1, <3>2, <3>3 DEF Abreast
  <2>3. QED
    BY <1>5, <2>2 DEF At
<1> DEFINE n == Len(u)
           q == Append(o, n)
           k == Append(m, x)
           D == DOMAIN u
<1>7. /\ q \in Seq(D) /\ DOMAIN q = 1..(Len(o) + 1) /\ Len(q) = Len(o) + 1
      /\ \A i \in 1..Len(o) : q[i] = o[i]
      /\ q[Len(o) + 1] = n
  <2> HIDE DEF n, D
  <2>1. o \in Seq(D) /\ n \in D
    BY <1>2, <1>3 DEF n, D
  <2>2. QED
    BY <2>1
<1>8. /\ k \in Seq(MarkType) /\ Len(k) = Len(m) + 1
      /\ \A i \in 1..Len(o) : k[i] = m[i]
      /\ k[Len(o) + 1] = x
  BY <1>1, <1>2, <1>5
<1> HIDE DEF q, k
<1>9. ASSUME NEW i \in DOMAIN q
      PROVE  At(p, w, u, q[i], k[i])
  <2>1. CASE i = Len(o) + 1
    BY <1>6, <1>7, <1>8, <2>1
  <2>2. CASE i # Len(o) + 1
    <3>1. i \in 1..Len(o)
      BY <1>1, <1>7, <2>2
    <3>2. QED
      BY <1>1, <1>2, <1>7, <1>8, <3>1
  <2>3. QED
    BY <2>1, <2>2
<1>10. ASSUME NEW i \in DOMAIN q, NEW j \in DOMAIN q, i < j
       PROVE  q[i] < q[j]
  <2>1. i \in 1..Len(o) /\ (j = Len(o) + 1 \/ j \in 1..Len(o))
    BY <1>1, <1>7, <1>10
  <2>2. CASE j \in 1..Len(o)
    BY <1>1, <1>2, <1>7, <1>10, <2>1, <2>2
  <2>3. CASE j = Len(o) + 1
    <3>1. q[i] = o[i] /\ q[j] = Len(u)
      BY <1>7, <2>1, <2>3
    <3>2. o[i] \in 1..Len(u) /\ o[i] # Len(u)
      BY <1>1, <1>3, <2>1
    <3>3. QED
      BY <1>3, <3>1, <3>2
  <2>4. QED
    BY <2>1, <2>2, <2>3
<1>11. Cursor(p, w, u, q, k)
  BY <1>1, <1>7, <1>8, <1>9, <1>10 DEF Cursor
<1>12. QED
  BY <1>11 DEF q, k

LEMMA CursorOut ==
  ASSUME NEW p, NEW w, NEW t, NEW o, NEW m, Cursor(p, w, t, o, m), o # <<>>
  PROVE  Cursor(p, w, t, Front(o), Front(m))
<1>1. /\ Len(o) \in Nat /\ DOMAIN o = 1..Len(o) /\ Len(m) = Len(o) /\ m # <<>>
  BY CursorShape
<1>2. /\ o \in Seq(DOMAIN t) /\ m \in Seq(MarkType)
      /\ \A i, j \in DOMAIN o : i < j => o[i] < o[j]
      /\ \A i \in DOMAIN o : At(p, w, t, o[i], m[i])
  BY DEF Cursor
<1>3. /\ Front(o) \in Seq(DOMAIN t) /\ Len(Front(o)) = Len(o) - 1
      /\ \A i \in 1..(Len(o) - 1) : Front(o)[i] = o[i]
  BY <1>2, FrontAndLast
<1>4. /\ Front(m) \in Seq(MarkType) /\ Len(Front(m)) = Len(m) - 1
      /\ \A i \in 1..(Len(m) - 1) : Front(m)[i] = m[i]
  BY <1>1, <1>2, FrontAndLast
<1> DEFINE q == Front(o)
           k == Front(m)
           D == DOMAIN t
<1>5. DOMAIN q = 1..(Len(o) - 1)
  <2> HIDE DEF q, D
  <2>1. q \in Seq(D) /\ Len(q) = Len(o) - 1
    BY <1>3 DEF q, D
  <2>2. QED
    BY <2>1
<1>6. \A i \in 1..(Len(o) - 1) : i \in DOMAIN o
  BY <1>1
<1> HIDE DEF q, k
<1>7. q \in Seq(DOMAIN t) /\ k \in Seq(MarkType) /\ Len(k) = Len(q)
  BY <1>1, <1>3, <1>4 DEF q, k
<1>8. \A i \in DOMAIN q : i \in DOMAIN o /\ q[i] = o[i] /\ k[i] = m[i]
  BY <1>1, <1>3, <1>4, <1>5, <1>6 DEF q, k
<1>9. \A i, j \in DOMAIN q : i < j => q[i] < q[j]
  BY <1>2, <1>8
<1>10. \A i \in DOMAIN q : At(p, w, t, q[i], k[i])
  BY <1>2, <1>8
<1>11. Cursor(p, w, t, q, k)
  BY <1>7, <1>9, <1>10 DEF Cursor
<1>12. QED
  BY <1>11 DEF q, k

-----------------------------------------------------------------------------
(* What has failed so far. *)

\* The edge was looked for in vain: its container is over.
Absent(w, t, o, n, e, c) ==
  /\ Hangs(w, n, e, c) /\ Spot(t, w[n]) # 0 /\ Spot(t, w[n]) \notin ToSet(o)
  /\ t[Spot(t, w[n])].kind = Wanted(e) /\ Spot(t, w[c]) = 0

Wrong(w, P, t, s) ==
  \E n \in DOMAIN w : Spot(t, w[n]) # 0 /\ s \in Astray(w, P, t[Spot(t, w[n])].kind, n)
Verdict(w, P, t, o, s, code) ==
  \/ code = "incorrect_type" /\ Wrong(w, P, t, s)
  \/ \E n, e, c : Absent(w, t, o, n, e, c) /\ s \in Passes(w, P, c) /\ code = NoneAt(e)

\* An index that is out of bounds, and not the lowest one of its array.
Excused(w, P, t, o, s) ==
  \E n, e, c, f, d :
    /\ Absent(w, t, o, n, e, c) /\ Absent(w, t, o, n, f, d)
    /\ e.tag = "index" /\ f.tag = "index" /\ f.value < e.value /\ s \in Passes(w, P, c)

Remembered(w, P, t, o, a) ==
  /\ a.code # "ok" => Verdict(w, P, t, o, a.slot, a.code)
  /\ \A s, code : Verdict(w, P, t, o, s, code) =>
       a.code # "ok" /\ (a.slot <= s \/ Excused(w, P, t, o, s))

LEMMA VerdictSlot ==
  ASSUME NEW p, NEW w, NEW P, Compiled(p, w, P), NEW t, NEW o, NEW s, NEW code,
         Verdict(w, P, t, o, s, code)
  PROVE  s \in DOMAIN P /\ s \in Nat /\ s < NoSlot
         /\ code \in {"incorrect_type", "missing_field", "index_out_of_bounds"}
<1>1. s \in DOMAIN P
  <2>1. \A kind, n : Astray(w, P, kind, n) \subseteq DOMAIN P
    BY AstrayIs
  <2>2. \A c : Passes(w, P, c) \subseteq DOMAIN P
    BY SlotsAre
  <2>3. QED
    BY <2>1, <2>2 DEF Verdict, Wrong
<1>2. code \in {"incorrect_type", "missing_field", "index_out_of_bounds"}
  BY DEF Verdict, NoneAt
<1>3. QED
  BY <1>1, <1>2, SlotsAre

LEMMA RememberedMemory ==
  ASSUME NEW p, NEW w, NEW P, Compiled(p, w, P), NEW t, NEW o, NEW a, Remembered(w, P, t, o, a)
  PROVE  Memory(a)
BY VerdictSlot DEF Remembered, Memory

\* A step keeps what has failed and notes what it makes fail.
LEMMA RememberedNext ==
  ASSUME NEW p, NEW w, NEW P, Compiled(p, w, P), NEW t, NEW o, NEW a, Remembered(w, P, t, o, a),
         NEW u, NEW q, NEW code, NEW S, NEW b, Recorded(b, a, code, S), Memory(b),
         \A s, x : Verdict(w, P, t, o, s, x) => Verdict(w, P, u, q, s, x),
         \A s : Excused(w, P, t, o, s) => Excused(w, P, u, q, s),
         \A s \in S : Verdict(w, P, u, q, s, code),
         \A s, x : Verdict(w, P, u, q, s, x) =>
                     \/ Verdict(w, P, t, o, s, x) \/ s \in S
                     \/ S # {} /\ Excused(w, P, u, q, s)
  PROVE  Remembered(w, P, u, q, b)
<1>1. Memory(a)
  BY RememberedMemory
<1>2. ASSUME b.code # "ok"
      PROVE  Verdict(w, P, u, q, b.slot, b.code)
  <2>1. b = a \/ (b.code = code /\ b.slot \in S)
    BY DEF Recorded
  <2>2. CASE b = a
    BY <1>2, <2>2 DEF Remembered
  <2>3. CASE b.code = code /\ b.slot \in S
    BY <2>3
  <2>4. QED
    BY <2>1, <2>2, <2>3
<1>3. ASSUME NEW s, NEW x, Verdict(w, P, u, q, s, x)
      PROVE  b.code # "ok" /\ (b.slot <= s \/ Excused(w, P, u, q, s))
  <2>1. s \in Nat
    BY <1>3, VerdictSlot
  <2>2. CASE Verdict(w, P, t, o, s, x)
    <3>1. a.code # "ok" /\ (a.slot <= s \/ Excused(w, P, t, o, s))
      BY <2>2 DEF Remembered
    <3>2. b.code # "ok" /\ b.slot <= a.slot
      BY <3>1 DEF Recorded
    <3>3. a.slot \in Nat /\ b.slot \in Nat
      BY <1>1, <3>1, <3>2 DEF Memory
    <3>4. a.slot <= s => b.slot <= s
      BY <2>1, <3>2, <3>3
    <3>5. QED
      BY <3>1, <3>2, <3>4
  <2>3. CASE s \in S
    BY <2>3 DEF Recorded
  <2>4. CASE S # {} /\ Excused(w, P, u, q, s)
    BY <2>4 DEF Recorded
  <2>5. QED
    BY <1>3, <2>2, <2>3, <2>4
<1>4. QED
  BY <1>2, <1>3 DEF Remembered

\* The containers of q are those of o and the new value if it is one.
Entered(u, o, q) ==
  /\ ToSet(o) \subseteq ToSet(q) /\ ToSet(q) \subseteq ToSet(o) \cup {Len(u)}
  /\ u[Len(u)].kind \in Containers => Len(u) \in ToSet(q)

\* A new value neither ends a container nor is met in one that has ended.
LEMMA AbsentSame ==
  ASSUME NEW p, NEW w, Trie(p, w), NEW t, NEW u, Text(t), Grown(t, u), NEW o, NEW q,
         Entered(u, o, q), u[Len(u)].up \in ToSet(o), NEW n, NEW e, NEW c
  PROVE  Absent(w, u, q, n, e, c) <=> Absent(w, t, o, n, e, c)
<1> DEFINE z == Len(u)
<1>1. CASE ~Hangs(w, n, e, c)
  BY <1>1 DEF Absent
<1>2. CASE Hangs(w, n, e, c)
  <2>1. /\ n \in DOMAIN w /\ c \in DOMAIN w /\ e \in Segment
        /\ w[n] \in Path /\ w[c] \in Path /\ w[c] = Append(w[n], e)
    BY <1>2, TrieShape DEF Hangs
  <2> DEFINE b == Spot(t, w[n])
  <2>2. b \in {0} \cup DOMAIN t
        /\ (b = 0 => Spot(t, w[c]) = 0) /\ (b # 0 => Spot(t, w[c]) = First(t, b, e))
    BY <2>1, SpotNext
  <2>3. Text(u)
    BY GrownText
  <2>4. Spot(u, w[n]) = b \/ (b = 0 /\ Spot(u, w[n]) = z)
    BY <2>1, SpotGrows
  <2>5. z # 0 /\ z \notin DOMAIN t
    <3>1. Len(t) \in Nat /\ z = Len(t) + 1 /\ z \notin DOMAIN t
      BY GrownShape
    <3>2. QED
      BY <3>1
  <2>6. Wanted(e) \in Containers
    BY WantedKind
  <2>7. CASE b = 0
    <3>1. ~Absent(w, t, o, n, e, c)
      BY <2>7 DEF Absent
    <3>2. ~Absent(w, u, q, n, e, c)
      <4> SUFFICES ASSUME Absent(w, u, q, n, e, c)
                   PROVE  FALSE
        OBVIOUS
      <4>1. Spot(u, w[n]) = z
        BY <2>4, <2>7 DEF Absent
      <4>2. u[z].kind = Wanted(e) /\ z \notin ToSet(q)
        BY <4>1 DEF Absent
      <4>3. QED
        BY <2>6, <4>2 DEF Entered
    <3>3. QED
      BY <3>1, <3>2
  <2>8. CASE b # 0
    <3>1. Spot(u, w[n]) = b /\ b \in DOMAIN t /\ b # z
      BY <2>2, <2>4, <2>5, <2>8
    <3>2. u[b] = t[b]
      BY <3>1, GrownOld
    <3>3. b \in ToSet(q) <=> b \in ToSet(o)
      BY <3>1 DEF Entered
    <3>4. Spot(u, w[c]) = First(u, b, e)
      BY <2>1, <2>3, <2>8, <3>1, SpotNext
    <3>5. b \notin ToSet(o) => (First(u, b, e) = 0 <=> First(t, b, e) = 0)
      <4> SUFFICES ASSUME b \notin ToSet(o)
                   PROVE  First(u, b, e) = 0 <=> First(t, b, e) = 0
        OBVIOUS
      <4>1. u[z].up # b
        OBVIOUS
      <4> HIDE DEF b
      <4>2. /\ First(t, b, e) # 0 => First(u, b, e) = First(t, b, e)
            /\ First(t, b, e) = 0 =>
                 First(u, b, e) = IF u[z].up = b /\ u[z].label = e.value /\ t[b].kind = Wanted(e)
                                  THEN z ELSE 0
        BY <2>1, <3>1, FirstGrows
      <4>3. QED
        BY <4>1, <4>2
    <3> DEFINE nt == Spot(t, w[c])
               nu == Spot(u, w[c])
    <3>6. b \notin ToSet(o) => (nu = 0 <=> nt = 0)
      BY <2>2, <2>8, <3>4, <3>5
    <3>7. Absent(w, t, o, n, e, c) <=> b \notin ToSet(o) /\ t[b].kind = Wanted(e) /\ nt = 0
      BY <1>2, <2>8 DEF Absent
    <3>8. Absent(w, u, q, n, e, c) <=> b \notin ToSet(q) /\ u[b].kind = Wanted(e) /\ nu = 0
      BY <1>2, <2>8, <3>1 DEF Absent
    <3> HIDE DEF b, nt, nu
    <3>9. QED
      BY <3>2, <3>3, <3>6, <3>7, <3>8
  <2>9. QED
    BY <2>7, <2>8
<1>3. QED
  BY <1>1, <1>2

\* What goes wrong at the new value.
LEMMA WrongGrows ==
  ASSUME NEW p, NEW w, Trie(p, w), NEW P, NEW t, NEW u, Text(t), Grown(t, u),
         NEW c, Led(w, u, Len(u), c), NEW s
  PROVE  Wrong(w, P, u, s) <=> Wrong(w, P, t, s) \/ (c # 0 /\ s \in Astray(w, P, u[Len(u)].kind, c))
<1> DEFINE z == Len(u)
<1>1. z # 0 /\ z \notin DOMAIN t
  <2>1. Len(t) \in Nat /\ z = Len(t) + 1 /\ z \notin DOMAIN t
    BY GrownShape
  <2>2. QED
    BY <2>1
<1>2. c \in {0} \cup DOMAIN w /\ 0 \notin DOMAIN w /\ \A n \in DOMAIN w : Spot(u, w[n]) = z <=> n = c
  BY TrieShape DEF Led
<1>3. ASSUME NEW n \in DOMAIN w
      PROVE  /\ Spot(t, w[n]) # 0 => Spot(u, w[n]) = Spot(t, w[n]) /\ u[Spot(t, w[n])] = t[Spot(t, w[n])]
             /\ Spot(t, w[n]) = 0 => Spot(u, w[n]) \in {0, z}
             /\ Spot(t, w[n]) # z
  <2>1. w[n] \in Path /\ [tag |-> "key", value |-> 0] \in Segment
    BY TrieShape DEF Segment
  <2>2. Spot(u, w[n]) = Spot(t, w[n]) \/ (Spot(t, w[n]) = 0 /\ Spot(u, w[n]) = z)
    BY <2>1, SpotGrows
  <2>3. Spot(t, w[n]) \in {0} \cup DOMAIN t
    BY <2>1, SpotNext
  <2>4. QED
    BY <1>1, <2>2, <2>3, GrownOld
<1>4. ASSUME Wrong(w, P, u, s)
      PROVE  Wrong(w, P, t, s) \/ (c # 0 /\ s \in Astray(w, P, u[z].kind, c))
  <2>1. PICK n \in DOMAIN w : Spot(u, w[n]) # 0 /\ s \in Astray(w, P, u[Spot(u, w[n])].kind, n)
    BY <1>4 DEF Wrong
  <2>2. CASE Spot(t, w[n]) # 0
    <3>1. Spot(u, w[n]) = Spot(t, w[n]) /\ u[Spot(t, w[n])] = t[Spot(t, w[n])]
      BY <1>3, <2>2
    <3>2. QED
      BY <2>1, <2>2, <3>1 DEF Wrong
  <2>3. CASE Spot(t, w[n]) = 0
    <3>1. Spot(u, w[n]) = z
      BY <1>3, <2>1, <2>3
    <3>2. n = c
      BY <1>2, <3>1
    <3>3. QED
      BY <1>2, <2>1, <3>1, <3>2
  <2>4. QED
    BY <2>2, <2>3
<1>5. ASSUME Wrong(w, P, t, s)
      PROVE  Wrong(w, P, u, s)
  <2>1. PICK n \in DOMAIN w : Spot(t, w[n]) # 0 /\ s \in Astray(w, P, t[Spot(t, w[n])].kind, n)
    BY <1>5 DEF Wrong
  <2>2. Spot(u, w[n]) = Spot(t, w[n]) /\ u[Spot(t, w[n])] = t[Spot(t, w[n])]
    BY <1>3, <2>1
  <2>3. QED
    BY <2>1, <2>2 DEF Wrong
<1>6. ASSUME c # 0, s \in Astray(w, P, u[z].kind, c)
      PROVE  Wrong(w, P, u, s)
  <2>1. c \in DOMAIN w /\ Spot(u, w[c]) = z
    BY <1>2, <1>6
  <2>2. QED
    BY <1>1, <1>6, <2>1 DEF Wrong
<1>7. QED
  BY <1>4, <1>5, <1>6

\* A value was read.
LEMMA RememberedRead ==
  ASSUME NEW p, NEW w, NEW P, Compiled(p, w, P), NEW t, NEW u, Text(t), Grown(t, u), NEW o, NEW q,
         Entered(u, o, q), u[Len(u)].up \in ToSet(o), NEW c, Led(w, u, Len(u), c),
         NEW a, Remembered(w, P, t, o, a), NEW b, Memory(b),
         c = 0 => b = a,
         c # 0 => Recorded(b, a, "incorrect_type", Astray(w, P, u[Len(u)].kind, c))
  PROVE  Remembered(w, P, u, q, b)
<1> DEFINE S == IF c = 0 THEN {} ELSE Astray(w, P, u[Len(u)].kind, c)
<1>1. Trie(p, w)
  BY DEF Compiled
<1>2. Recorded(b, a, "incorrect_type", S)
  <2>1. CASE c # 0
    BY <2>1
  <2>2. CASE c = 0
    <3>1. b = a /\ S = {} /\ (a.code # "ok" => a.slot \in Nat)
      BY <2>2, RememberedMemory DEF Memory
    <3>2. a.code # "ok" => a.slot <= a.slot
      BY <3>1
    <3>3. QED
      BY <3>1, <3>2 DEF Recorded
  <2>3. QED
    BY <2>1, <2>2
<1>3. \A n, e, d : Absent(w, u, q, n, e, d) <=> Absent(w, t, o, n, e, d)
  BY <1>1, AbsentSame
<1>4. \A s : Wrong(w, P, u, s) <=> Wrong(w, P, t, s) \/ s \in S
  BY <1>1, WrongGrows
<1>5. \A s : Excused(w, P, t, o, s) => Excused(w, P, u, q, s)
  BY <1>3 DEF Excused
<1> HIDE DEF S
<1>6. \A s, x : Verdict(w, P, t, o, s, x) => Verdict(w, P, u, q, s, x)
  BY <1>3, <1>4 DEF Verdict
<1>7. \A s \in S : Verdict(w, P, u, q, s, "incorrect_type")
  BY <1>4 DEF Verdict
<1>8. \A s, x : Verdict(w, P, u, q, s, x) => Verdict(w, P, t, o, s, x) \/ s \in S
  BY <1>3, <1>4 DEF Verdict
<1>9. QED
  BY <1>2, <1>5, <1>6, <1>7, <1>8, RememberedNext

\* The edge finds nothing in the container v.
Lacks(w, t, v, n, e, c) ==
  Hangs(w, n, e, c) /\ Spot(t, w[n]) = v /\ t[v].kind = Wanted(e) /\ Spot(t, w[c]) = 0

LEMMA AbsentOut ==
  ASSUME NEW w, NEW t, NEW o, NEW q, NEW v, v # 0,
         ToSet(o) = ToSet(q) \cup {v}, v \notin ToSet(q), NEW n, NEW e, NEW c
  PROVE  Absent(w, t, q, n, e, c) <=> Absent(w, t, o, n, e, c) \/ Lacks(w, t, v, n, e, c)
<1>1. CASE Spot(t, w[n]) = v
  BY <1>1 DEF Absent, Lacks
<1>2. CASE Spot(t, w[n]) # v
  BY <1>2 DEF Absent, Lacks
<1>3. QED
  BY <1>1, <1>2

\* S is what to note when v is over: the slots of the edges that lack, save
\* those of an index that is not the lowest.
Noticed(w, P, t, v, S, code) ==
  /\ \A s \in S : \E n, e, c : Lacks(w, t, v, n, e, c) /\ s \in Passes(w, P, c) /\ code = NoneAt(e)
  /\ \A n, e, c : Lacks(w, t, v, n, e, c) =>
       \/ Passes(w, P, c) \subseteq S
       \/ S # {} /\ \E f, d : /\ Lacks(w, t, v, n, f, d) /\ f.tag = "index" /\ e.tag = "index"
                              /\ f.value < e.value

\* A container is left.
LEMMA RememberedLeft ==
  ASSUME NEW p, NEW w, NEW P, Compiled(p, w, P), NEW t, NEW o, NEW q, NEW v, v # 0,
         ToSet(o) = ToSet(q) \cup {v}, v \notin ToSet(q),
         NEW a, Remembered(w, P, t, o, a), NEW b, Memory(b), NEW code, NEW S,
         Recorded(b, a, code, S), Noticed(w, P, t, v, S, code)
  PROVE  Remembered(w, P, t, q, b)
<1>1. \A n, e, c : Absent(w, t, q, n, e, c) <=> Absent(w, t, o, n, e, c) \/ Lacks(w, t, v, n, e, c)
  BY AbsentOut
<1>2. \A s, x : Verdict(w, P, t, o, s, x) => Verdict(w, P, t, q, s, x)
  BY <1>1 DEF Verdict
<1>3. \A s : Excused(w, P, t, o, s) => Excused(w, P, t, q, s)
  BY <1>1 DEF Excused
<1>4. \A s \in S : Verdict(w, P, t, q, s, code)
  BY <1>1 DEF Verdict, Noticed
<1>5. ASSUME NEW s, NEW x, Verdict(w, P, t, q, s, x), ~Verdict(w, P, t, o, s, x)
      PROVE  s \in S \/ (S # {} /\ Excused(w, P, t, q, s))
  <2>1. PICK n, e, c : Absent(w, t, q, n, e, c) /\ s \in Passes(w, P, c) /\ x = NoneAt(e)
    BY <1>5 DEF Verdict
  <2>2. ~Absent(w, t, o, n, e, c)
    BY <1>5, <2>1 DEF Verdict
  <2>3. Lacks(w, t, v, n, e, c)
    BY <1>1, <2>1, <2>2
  <2>4. CASE Passes(w, P, c) \subseteq S
    BY <2>1, <2>4
  <2>5. CASE S # {} /\ \E f, d : /\ Lacks(w, t, v, n, f, d) /\ f.tag = "index" /\ e.tag = "index"
                                 /\ f.value < e.value
    <3>1. PICK f, d : Lacks(w, t, v, n, f, d) /\ f.tag = "index" /\ e.tag = "index" /\ f.value < e.value
      BY <2>5
    <3>2. Absent(w, t, q, n, f, d)
      BY <1>1, <3>1
    <3>3. QED
      BY <2>1, <2>5, <3>1, <3>2 DEF Excused
  <2>6. QED
    BY <2>3, <2>4, <2>5 DEF Noticed
<1>6. QED
  BY <1>2, <1>3, <1>4, <1>5, RememberedNext

\* A container no path leads to has no edges.
LEMMA NothingLacks ==
  ASSUME NEW p, NEW w, NEW P, Compiled(p, w, P), NEW t, NEW o, NEW q, NEW v, v # 0,
         ToSet(o) = ToSet(q) \cup {v}, v \notin ToSet(q),
         NEW a, Remembered(w, P, t, o, a), Led(w, t, v, 0)
  PROVE  Remembered(w, P, t, q, a)
<1>1. ASSUME NEW n, NEW e, NEW c, Lacks(w, t, v, n, e, c)
      PROVE  FALSE
  <2>1. n \in DOMAIN w /\ Spot(t, w[n]) = v
    BY <1>1 DEF Lacks, Hangs
  <2>2. n = 0
    BY <2>1 DEF Led
  <2>3. 0 \notin DOMAIN w
    BY TrieShape DEF Compiled
  <2>4. QED
    BY <2>1, <2>2, <2>3
<1>2. Memory(a)
  BY RememberedMemory
<1>3. Recorded(a, a, "missing_field", {})
  BY <1>2 DEF Recorded, Memory
<1>4. Noticed(w, P, t, v, {}, "missing_field")
  BY <1>1 DEF Noticed
<1>5. QED
  BY <1>2, <1>3, <1>4, RememberedLeft

\* LeaveObject
LEMMA ObjectLeft ==
  ASSUME NEW w, NEW P, Compiled(plan, w, P), NEW t, NEW o, NEW q, NEW v, v # 0,
         ToSet(o) = ToSet(q) \cup {v}, v \notin ToSet(q), t[v].kind = "object",
         NEW a, Remembered(w, P, t, o, a), NEW n \in DOMAIN w, Led(w, t, v, n),
         AreMet(plan, w, t, satisfied)
  PROVE  Remembered(w, P, t, q, LeaveObject(a, plan.nodes[n]))
<1> DEFINE b == LeaveObject(a, plan.nodes[n])
           S == Missed(plan, w, P, n, satisfied)
<1>1. Memory(a) /\ Trie(plan, w)
  BY RememberedMemory DEF Compiled
<1>2. Recorded(b, a, "missing_field", S) /\ Memory(b)
  BY <1>1, LeaveObjectRecords
<1>3. \A k \in DOMAIN plan.nodes[n].object :
        plan.nodes[n].object[k].id \notin satisfied <=> Spot(t, w[plan.nodes[n].object[k].child]) = 0
  BY DEF AreMet
<1>4. Spot(t, w[n]) = v
  BY DEF Led
<1>5. ASSUME NEW s \in S
      PROVE  \E m, e, c : /\ Lacks(w, t, v, m, e, c) /\ s \in Passes(w, P, c)
                          /\ "missing_field" = NoneAt(e)
  <2>1. PICK k \in DOMAIN plan.nodes[n].object :
          /\ plan.nodes[n].object[k].id \notin satisfied
          /\ s \in Passes(w, P, plan.nodes[n].object[k].child)
    BY DEF Missed
  <2> DEFINE e == [tag |-> "key", value |-> k]
             c == plan.nodes[n].object[k].child
  <2>2. Wanted(e) = "object" /\ Hangs(w, n, e, c)
    BY <1>1, KeyEdge
  <2>3. NoneAt(e) = "missing_field"
    BY DEF NoneAt
  <2>4. Spot(t, w[c]) = 0
    BY <1>3, <2>1
  <2> HIDE DEF e
  <2>5. Lacks(w, t, v, n, e, c)
    BY <1>4, <2>2, <2>4 DEF Lacks
  <2>6. QED
    BY <2>1, <2>3, <2>5
<1>6. ASSUME NEW m, NEW e, NEW c, Lacks(w, t, v, m, e, c)
      PROVE  Passes(w, P, c) \subseteq S
  <2>1. Hangs(w, m, e, c) /\ Spot(t, w[m]) = v /\ Wanted(e) = "object" /\ Spot(t, w[c]) = 0
    BY <1>6 DEF Lacks
  <2>2. m = n
    BY <2>1 DEF Led, Hangs
  <2>3. e.value \in DOMAIN plan.nodes[n].object /\ plan.nodes[n].object[e.value].child = c
    BY <1>1, <2>1, <2>2, HangsBy
  <2>4. plan.nodes[n].object[e.value].id \notin satisfied
    BY <1>3, <2>1, <2>3
  <2>5. Passes(w, P, c) \subseteq DOMAIN P
    BY SlotsAre
  <2>6. QED
    BY <2>3, <2>4, <2>5 DEF Missed
<1> HIDE DEF S, b
<1>7. Noticed(w, P, t, v, S, "missing_field")
  BY <1>5, <1>6 DEF Noticed
<1>8. Remembered(w, P, t, q, b)
  BY <1>2, <1>7, RememberedLeft
<1>9. QED
  BY <1>8 DEF b

\* LeaveArray
LEMMA ArrayLeft ==
  ASSUME NEW w, NEW P, Compiled(plan, w, P), NEW t, NEW o, NEW q, NEW v, v \in DOMAIN t,
         ToSet(o) = ToSet(q) \cup {v}, v \notin ToSet(q), t[v].kind = "array", Text(t),
         NEW a, Remembered(w, P, t, o, a), NEW mark \in MarkType, mark.node \in DOMAIN w,
         Led(w, t, v, mark.node), Abreast(plan, t, v, mark)
  PROVE  Remembered(w, P, t, q, LeaveArray(a, plan.nodes[mark.node], mark.wanted))
<1> DEFINE n == mark.node
           i == mark.wanted
           s == plan.nodes[n].array
           b == LeaveArray(a, plan.nodes[n], i)
<1>1. Memory(a) /\ Trie(plan, w) /\ Ascending(plan) /\ v # 0
  BY RememberedMemory, TextShape DEF Compiled
<1>2. i \in Nat \ {0} /\ mark.index \in Nat
  BY DEF MarkType
<1>3. /\ Memory(b)
      /\ i \in DOMAIN s => Recorded(b, a, "index_out_of_bounds", Passes(w, P, s[i].child))
      /\ i \notin DOMAIN s => b = a
  BY <1>1, <1>2, LeaveArrayRecords
<1>4. \A j \in DOMAIN s : j < i <=> s[j].index < mark.index
  <2>1. n # 0
    BY <1>1, TrieShape
  <2>2. QED
    BY <2>1 DEF Abreast
<1>5. DOMAIN s = 1..Len(s) /\ Len(s) \in Nat /\ \A j \in DOMAIN s : s[j].index \in Nat
  <2>1. plan.nodes[n] \in PlanNode
    BY <1>1, TrieShape
  <2>2. QED
    BY <2>1, NodeType
<1>6. \A j, k \in DOMAIN s : j < k => s[j].index < s[k].index
  BY <1>1, TrieShape DEF Ascending
<1>7. Spot(t, w[n]) = v
  BY DEF Led

<1>8. ASSUME NEW j \in DOMAIN s
      PROVE  LET e == [tag |-> "index", value |-> s[j].index] IN
             /\ e.tag = "index" /\ e.value = s[j].index
             /\ Hangs(w, n, e, s[j].child)
             /\ Lacks(w, t, v, n, e, s[j].child) <=> j >= i
  <2> DEFINE e == [tag |-> "index", value |-> s[j].index]
             c == s[j].child
  <2>1. e \in Segment /\ Wanted(e) = "array" /\ Hangs(w, n, e, c)
    BY <1>1, IndexEdge
  <2>2. e.tag = "index" /\ e.value = s[j].index
    OBVIOUS
  <2> HIDE DEF e
  <2>3. w[n] \in Path /\ w[c] = Append(w[n], e)
    BY <1>1, <2>1, TrieShape DEF Hangs
  <2>4. Spot(t, w[c]) = First(t, v, e)
    <3>1. Spot(t, w[n]) # 0
      BY <1>1, <1>7
    <3>2. Spot(t, Append(w[n], e)) = First(t, Spot(t, w[n]), e)
      BY <2>1, <2>3, <3>1, SpotNext
    <3>3. QED
      BY <1>7, <2>3, <3>2
  <2>5. First(t, v, e) = 0 <=> ~\E k \in Members(t, v) : t[k].label = s[j].index
    <3>1. /\ First(t, v, e) # 0 => /\ First(t, v, e) \in DOMAIN t /\ t[First(t, v, e)].up = v
                                   /\ t[First(t, v, e)].label = e.value
          /\ First(t, v, e) = 0 /\ t[v].kind = Wanted(e) =>
               \A m \in DOMAIN t : t[m].up = v => t[m].label # e.value
      BY <2>1, FirstIs
    <3>2. QED
      BY <2>1, <2>2, <3>1 DEF Members
  <2>6. (\E k \in Members(t, v) : t[k].label = s[j].index) <=> s[j].index \in 0..(mark.index - 1)
    BY DEF Abreast
  <2>7. s[j].index \in 0..(mark.index - 1) <=> j < i
    <3>1. s[j].index \in Nat /\ j \in Nat /\ (j < i <=> s[j].index < mark.index)
      BY <1>4, <1>5
    <3>2. QED
      BY <1>2, <3>1
  <2>8. Lacks(w, t, v, n, e, c) <=> j >= i
    <3>1. j >= i <=> ~(j < i)
      BY <1>2, <1>5
    <3>2. QED
      BY <1>7, <2>1, <2>4, <2>5, <2>6, <2>7, <3>1 DEF Lacks
  <2>9. QED
    BY <2>1, <2>2, <2>8 DEF e
<1>9. ASSUME NEW m, NEW e, NEW c, Lacks(w, t, v, m, e, c)
      PROVE  /\ m = n
             /\ \E j \in DOMAIN s : /\ s[j].index = e.value /\ s[j].child = c /\ e.tag = "index" /\ j >= i
  <2>1. Hangs(w, m, e, c) /\ Spot(t, w[m]) = v /\ Wanted(e) = "array"
    BY <1>9 DEF Lacks
  <2>2. m = n
    BY <2>1 DEF Led, Hangs
  <2>3. e.tag = "index" /\ e \in Segment /\ \E j \in DOMAIN s : s[j].index = e.value /\ s[j].child = c
    BY <1>1, <2>1, <2>2, HangsBy
  <2>4. PICK j \in DOMAIN s : s[j].index = e.value /\ s[j].child = c
    BY <2>3
  <2>5. e = [tag |-> "index", value |-> s[j].index]
    BY <2>3, <2>4 DEF Segment
  <2>6. j >= i
    BY <1>8, <1>9, <2>2, <2>4, <2>5
  <2>7. QED
    BY <2>2, <2>3, <2>4, <2>6
<1> HIDE DEF s, n, i, b
<1>10. CASE i \notin DOMAIN s
  <2>1. \A m, e, c : ~Lacks(w, t, v, m, e, c)
    <3> SUFFICES ASSUME NEW m, NEW e, NEW c, Lacks(w, t, v, m, e, c)
                 PROVE  FALSE
      OBVIOUS
    <3>1. PICK j \in DOMAIN s : j >= i
      BY <1>9
    <3>2. i \in DOMAIN s
      BY <1>2, <1>5, <3>1 DEF i
    <3>3. QED
      BY <1>10, <3>2
  <2>2. Recorded(b, a, "index_out_of_bounds", {})
    BY <1>1, <1>3, <1>10 DEF Recorded, Memory
  <2>3. Noticed(w, P, t, v, {}, "index_out_of_bounds")
    BY <2>1 DEF Noticed
  <2>5. Remembered(w, P, t, q, b)
    BY <1>1, <1>3, <2>2, <2>3, RememberedLeft
  <2>6. QED
    BY <2>5 DEF b, n, i
<1>11. CASE i \in DOMAIN s
  <2> DEFINE f == [tag |-> "index", value |-> s[i].index]
             d == s[i].child
             S == Passes(w, P, d)
  <2>1. Lacks(w, t, v, n, f, d) /\ f.tag = "index" /\ f.value = s[i].index
    <3>1. i >= i
      BY <1>2 DEF i
    <3>2. QED
      BY <1>8, <1>11, <3>1
  <2>2. NoneAt(f) = "index_out_of_bounds"
    BY <2>1 DEF NoneAt
  <2> HIDE DEF f
  <2>3. S # {}
    <3>1. d \in DOMAIN w
      BY <2>1 DEF Lacks, Hangs
    <3>2. QED
      BY <3>1, PassesLeast
  <2>4. Recorded(b, a, "index_out_of_bounds", S)
    BY <1>3, <1>11
  <2>5. \A x \in S : \E m, e, c : /\ Lacks(w, t, v, m, e, c) /\ x \in Passes(w, P, c)
                                  /\ "index_out_of_bounds" = NoneAt(e)
    BY <2>1, <2>2
  <2>6. ASSUME NEW m, NEW e, NEW c, Lacks(w, t, v, m, e, c)
        PROVE  \/ Passes(w, P, c) \subseteq S
               \/ S # {} /\ \E g, h : /\ Lacks(w, t, v, m, g, h) /\ g.tag = "index" /\ e.tag = "index"
                                      /\ g.value < e.value
    <3>1. m = n
      BY <1>9, <2>6
    <3>2. PICK j \in DOMAIN s : s[j].index = e.value /\ s[j].child = c /\ e.tag = "index" /\ j >= i
      BY <1>9, <2>6
    <3>3. CASE j = i
      BY <3>2, <3>3
    <3>4. CASE j # i
      <4>1. i < j
        BY <1>2, <1>5, <3>2, <3>4 DEF i
      <4>2. s[i].index < s[j].index
        BY <1>6, <1>11, <4>1
      <4>3. f.value < e.value
        BY <2>1, <3>2, <4>2
      <4>4. QED
        BY <2>1, <2>3, <3>1, <3>2, <4>3
    <3>5. QED
      BY <3>3, <3>4
  <2> HIDE DEF S, d
  <2>7. Noticed(w, P, t, v, S, "index_out_of_bounds")
    BY <2>5, <2>6 DEF Noticed
  <2>8. Remembered(w, P, t, q, b)
    BY <1>1, <1>3, <2>4, <2>7, RememberedLeft
  <2>9. QED
    BY <2>8 DEF b, n, i
<1>12. QED
  BY <1>10, <1>11

\* The slots hold the values their paths lead to.
InSlots(P, t, sl) ==
  /\ DOMAIN sl = DOMAIN P
  /\ \A s \in DOMAIN P :
       sl[s] = IF Spot(t, P[s]) # 0 /\ t[Spot(t, P[s])].kind \notin Containers
               THEN Spot(t, P[s]) ELSE 0

\* A path is that of a node.
LEMMA SlotNode ==
  ASSUME NEW p, NEW w, NEW P, Compiled(p, w, P), NEW s \in DOMAIN P
  PROVE  /\ P[s] \in Path /\ P[s] # <<>>
         /\ \E n \in DOMAIN w : w[n] = P[s]
         /\ \A i \in 0..Len(P[s]) : \E n \in DOMAIN w : w[n] = SubSeq(P[s], 1, i)
<1>1. P[s] \in Path
  BY SlotsAre
<1>2. P[s] # <<>> /\ \A i \in 0..Len(P[s]) : \E n \in DOMAIN w : w[n] = SubSeq(P[s], 1, i)
  BY DEF Compiled
<1>3. \E n \in DOMAIN w : w[n] = P[s]
  <2> DEFINE a == P[s]
             l == Len(a)
  <2>1. l \in 0..Len(a) /\ l \in Nat
    BY <1>1 DEF Path
  <2>2. PICK n \in DOMAIN w : w[n] = SubSeq(a, 1, l)
    BY <1>2, <2>1
  <2>3. SubSeq(a, 1, l) = a
    <3>1. IsPrefix(a, a)
      BY <1>1, PrefixSelf
    <3>2. QED
      BY <1>1, <3>1, PrefixIs
  <2>4. QED
    BY <2>2, <2>3
<1>4. QED
  BY <1>1, <1>2, <1>3

LEMMA SlotsRead ==
  ASSUME NEW p, NEW w, NEW P, Compiled(p, w, P), NEW t, NEW u, Text(t), Grown(t, u),
         NEW c, Led(w, u, Len(u), c), NEW sl, InSlots(P, t, sl), NEW sk, DOMAIN sk = DOMAIN sl,
         \A s \in DOMAIN sl :
           sk[s] = IF c # 0 /\ u[Len(u)].kind \notin Containers /\ s \in ToSet(p.nodes[c].slots)
                   THEN Len(u) ELSE sl[s]
  PROVE  InSlots(P, u, sk)
<1> DEFINE z == Len(u)
<1>1. z # 0 /\ z \notin DOMAIN t
  <2>1. Len(t) \in Nat /\ z = Len(t) + 1 /\ z \notin DOMAIN t
    BY GrownShape
  <2>2. QED
    BY <2>1
<1>2. DOMAIN sl = DOMAIN P
  BY DEF InSlots
<1>3. Trie(p, w) /\ 0 \notin DOMAIN w
  BY TrieShape DEF Compiled
<1>4. ASSUME NEW s \in DOMAIN P
      PROVE  sk[s] = IF Spot(u, P[s]) # 0 /\ u[Spot(u, P[s])].kind \notin Containers
                     THEN Spot(u, P[s]) ELSE 0
  <2>1. P[s] \in Path /\ [tag |-> "key", value |-> 0] \in Segment
    BY SlotNode DEF Segment
  <2>2. PICK n \in DOMAIN w : w[n] = P[s]
    BY SlotNode
  <2>3. Spot(u, P[s]) = Spot(t, P[s]) \/ (Spot(t, P[s]) = 0 /\ Spot(u, P[s]) = z)
    BY <2>1, SpotGrows
  <2>4. Spot(t, P[s]) \in {0} \cup DOMAIN t
    BY <2>1, SpotNext
  <2>5. Spot(u, P[s]) = z <=> n = c
    BY <2>2 DEF Led
  <2>6. c # 0 => (s \in ToSet(p.nodes[c].slots) <=> n = c)
    <3> SUFFICES ASSUME c # 0
                 PROVE  s \in ToSet(p.nodes[c].slots) <=> n = c
      OBVIOUS
    <3>1. c \in DOMAIN w
      BY DEF Led
    <3>2. ToSet(p.nodes[c].slots) = Ends(w, P, c)
      BY <3>1 DEF Compiled, InAscendingOrder
    <3>3. s \in Ends(w, P, c) <=> w[n] = w[c]
      BY <2>2 DEF Ends
    <3>4. w[n] = w[c] => n = c
      BY <1>3, <2>2, <3>1 DEF Trie
    <3>5. QED
      BY <3>2, <3>3, <3>4
  <2>7. sl[s] = IF Spot(t, P[s]) # 0 /\ t[Spot(t, P[s])].kind \notin Containers
                THEN Spot(t, P[s]) ELSE 0
    BY DEF InSlots
  <2> DEFINE a == Spot(t, P[s])
             b == Spot(u, P[s])
             K == c # 0 /\ u[z].kind \notin Containers /\ s \in ToSet(p.nodes[c].slots)
  <2>8. sk[s] = IF K THEN z ELSE sl[s]
    BY <1>2
  <2>9. CASE n = c
    <3>1. b = z /\ c # 0 /\ a = 0
      BY <1>1, <1>3, <2>3, <2>4, <2>5, <2>9
    <3>2. sl[s] = 0 /\ (K <=> u[z].kind \notin Containers)
      BY <2>6, <2>7, <2>9, <3>1
    <3> HIDE DEF K, z
    <3>3. sk[s] = IF u[z].kind \notin Containers THEN z ELSE 0
      BY <2>8, <3>2
    <3>4. QED
      BY <1>1, <3>1, <3>3
  <2>10. CASE n # c
    <3>1. b = a
      BY <2>3, <2>5, <2>10
    <3>2. ~K
      BY <2>6, <2>10
    <3>3. a # 0 => u[a] = t[a]
      BY <2>4, GrownOld
    <3> HIDE DEF K
    <3>4. sk[s] = sl[s]
      BY <2>8, <3>2
    <3>5. QED
      BY <2>7, <3>1, <3>3, <3>4
  <2>11. QED
    BY <2>9, <2>10
<1>5. QED
  BY <1>2, <1>4 DEF InSlots

\* The root is where the empty path leads, and no other path leads anywhere yet.
LEMMA RootSpot ==
  ASSUME NEW p, NEW w, Trie(p, w), NEW t, Text(t), Len(t) = 1, NEW n \in DOMAIN w
  PROVE  Spot(t, w[n]) = IF n = 1 THEN 1 ELSE 0
<1>1. DOMAIN t = {1}
  BY TextShape
<1>2. CASE n = 1
  <2>1. w[1] = <<>>
    BY DEF Trie
  <2>2. QED
    BY <1>2, <2>1, SpotRoot
<1>3. CASE n # 1
  <2>1. PICK m, e : Hangs(w, m, e, n)
    BY <1>3, HangsOnce
  <2>2. m \in DOMAIN w /\ e \in Segment /\ w[n] = Append(w[m], e) /\ w[m] \in Path
    BY <2>1, TrieShape DEF Hangs
  <2>3. /\ Spot(t, w[m]) \in {0} \cup DOMAIN t
        /\ Spot(t, w[m]) = 0 => Spot(t, w[n]) = 0
        /\ Spot(t, w[m]) # 0 => Spot(t, w[n]) = First(t, Spot(t, w[m]), e)
    BY <2>2, SpotNext
  <2>4. First(t, 1, e) # 0 => First(t, 1, e) \in DOMAIN t /\ First(t, 1, e) # 1
    <3>1. 1 \in DOMAIN t /\ e \in Segment
      BY <1>1, <2>2
    <3> DEFINE v == 1
    <3> HIDE DEF v
    <3>2. v \in DOMAIN t
      BY <3>1 DEF v
    <3>3. First(t, v, e) # 0 => First(t, v, e) \in DOMAIN t /\ First(t, v, e) # 1
      BY <3>1, <3>2, FirstIs
    <3>4. QED
      BY <3>3 DEF v
  <2>5. QED
    BY <1>1, <1>3, <2>3, <2>4
<1>4. QED
  BY <1>2, <1>3

LEMMA RootLed ==
  ASSUME NEW p, NEW w, NEW P, Compiled(p, w, P), NEW t, Text(t), Len(t) = 1
  PROVE  /\ Led(w, t, 1, 1) /\ 1 \in DOMAIN w
         /\ AreMet(p, w, t, {})
         /\ InSlots(P, t, [s \in DOMAIN P |-> 0])
<1>1. Trie(p, w)
  BY DEF Compiled
<1>2. 1 \in DOMAIN w
  BY <1>1, TrieShape
<1>3. \A n \in DOMAIN w : Spot(t, w[n]) = IF n = 1 THEN 1 ELSE 0
  BY <1>1, RootSpot
<1>4. Led(w, t, 1, 1)
  BY <1>2, <1>3 DEF Led
<1>5. AreMet(p, w, t, {})
  <2> SUFFICES ASSUME NEW n \in DOMAIN w, NEW k \in DOMAIN p.nodes[n].object
               PROVE  Spot(t, w[p.nodes[n].object[k].child]) = 0
    BY DEF AreMet
  <2> DEFINE e == [tag |-> "key", value |-> k]
             c == p.nodes[n].object[k].child
  <2>1. Hangs(w, n, e, c)
    BY <1>1, KeyEdge
  <2> HIDE DEF e
  <2>2. c \in DOMAIN w /\ c # 1
    BY <1>1, <2>1, HangsBy
  <2>3. QED
    BY <1>3, <2>2
<1>6. ASSUME NEW s \in DOMAIN P
      PROVE  Spot(t, P[s]) = 0
  <2>1. P[s] # <<>>
    BY SlotNode
  <2>2. PICK n \in DOMAIN w : w[n] = P[s]
    BY SlotNode
  <2>3. n # 1
    <3>1. w[1] = <<>>
      BY <1>1 DEF Trie
    <3>2. QED
      BY <2>1, <2>2, <3>1
  <2>4. QED
    BY <1>3, <2>2, <2>3
<1>7. InSlots(P, t, [s \in DOMAIN P |-> 0])
  <2> DEFINE sl == [s \in DOMAIN P |-> 0]
  <2>1. DOMAIN sl = DOMAIN P /\ \A s \in DOMAIN P : sl[s] = 0
    OBVIOUS
  <2> HIDE DEF sl
  <2>2. InSlots(P, t, sl)
    BY <1>6, <2>1 DEF InSlots
  <2>3. QED
    BY <2>2 DEF sl
<1>8. QED
  BY <1>2, <1>4, <1>5, <1>7

LEMMA RootRemembered ==
  ASSUME NEW p, NEW w, NEW P, Compiled(p, w, P), NEW t, Text(t), Len(t) = 1, NEW q,
         t[1].kind \in Containers => 1 \in ToSet(q),
         NEW b, Recorded(b, Ok, "incorrect_type", Astray(w, P, t[1].kind, 1))
  PROVE  Remembered(w, P, t, q, b)
<1>1. Trie(p, w) /\ 1 \in DOMAIN w
  BY RootLed DEF Compiled
<1>2. \A n \in DOMAIN w : Spot(t, w[n]) = IF n = 1 THEN 1 ELSE 0
  BY <1>1, RootSpot
<1>3. \A n, e, c : ~Absent(w, t, q, n, e, c)
  <2> SUFFICES ASSUME NEW n, NEW e, NEW c, Absent(w, t, q, n, e, c)
               PROVE  FALSE
    OBVIOUS
  <2>1. n \in DOMAIN w /\ Spot(t, w[n]) # 0 /\ Spot(t, w[n]) \notin ToSet(q)
        /\ t[Spot(t, w[n])].kind = Wanted(e)
    BY DEF Absent, Hangs
  <2>2. Spot(t, w[n]) = 1
    BY <1>2, <2>1
  <2>3. Wanted(e) \in Containers
    BY WantedKind
  <2>4. QED
    BY <2>1, <2>2, <2>3
<1> DEFINE S == Astray(w, P, t[1].kind, 1)
<1>4. \A s : Wrong(w, P, t, s) <=> s \in S
  BY <1>1, <1>2 DEF Wrong
<1> HIDE DEF S
<1>5. \A s, x : Verdict(w, P, t, q, s, x) <=> x = "incorrect_type" /\ s \in S
  BY <1>3, <1>4 DEF Verdict
<1>6. /\ b = Ok \/ (b.code = "incorrect_type" /\ b.slot \in S)
      /\ \A s \in S : b.code # "ok" /\ b.slot <= s
  BY DEF Recorded, S
<1>7. Ok.code = "ok"
  BY DEF Ok
<1>8. QED
  BY <1>5, <1>6, <1>7 DEF Remembered

-----------------------------------------------------------------------------
(* The end of the source. *)

\* Resolve, in any source.
ResolveIn(t, path) ==
  LET end == Trace(t, path)
  IN IF end.code = "ok" /\ t[end.at].kind \in Containers
     THEN [end EXCEPT !.code = "incorrect_type"] ELSE end

LEMMA ResolveIs ==
  ASSUME NEW path
  PROVE  Resolve(path) = ResolveIn(tree, path)
BY DEF Resolve, ResolveIn, Trace, FoldLeft, MapThenFoldSet, Go, Wanted, NoneAt, Stop, Matching, Start

LEMMA ResolveNext ==
  ASSUME NEW path
  PROVE  Resolve(path)' = ResolveIn(tree', path)
BY DEF Resolve, ResolveIn, Trace, FoldLeft, MapThenFoldSet, Go, Wanted, NoneAt, Stop, Matching, Start,
       Members

\* A path that has failed goes no further.
LEMMA TraceStays ==
  ASSUME NEW t, Text(t), NEW a \in Path, NEW b \in Path, IsPrefix(a, b), Trace(t, a).code # "ok"
  PROVE  Trace(t, b) = Trace(t, a)
<1> DEFINE L == Len(b)
           k == Len(a)
           Cut(i) == SubSeq(b, 1, i)
           T == {i \in 0..L : i >= k => Trace(t, Cut(i)) = Trace(t, a)}
<1>1. L \in Nat /\ k \in 0..L /\ a = Cut(k) /\ k \in Nat
  <2>1. L \in Nat
    BY DEF Path
  <2>2. k \in 0..L /\ a = Cut(k)
    BY PrefixIs
  <2>3. QED
    BY <2>1, <2>2
<1>2. Cut(L) = b
  <2>1. IsPrefix(b, b)
    BY PrefixSelf
  <2>2. QED
    BY <2>1, PrefixIs
<1>3. \A i \in 0..(L - 1) : /\ Cut(i + 1) = Append(Cut(i), b[i + 1])
                            /\ b[i + 1] \in Segment /\ Cut(i) \in Path
  <2> SUFFICES ASSUME NEW i \in 0..(L - 1)
               PROVE  /\ Cut(i + 1) = Append(Cut(i), b[i + 1])
                      /\ b[i + 1] \in Segment /\ Cut(i) \in Path
    OBVIOUS
  <2>1. i \in Nat /\ i + 1 <= Len(b)
    BY <1>1
  <2>2. QED
    BY <2>1, PrefixNext
<1> HIDE DEF L, k, Cut
<1>4. 0 \in T
  BY <1>1
<1>5. ASSUME NEW i \in 0..L, i \in T, i + 1 <= L
      PROVE  i + 1 \in T
  <2>1. i + 1 \in 0..L /\ i \in 0..(L - 1) /\ i \in Nat
    BY <1>1, <1>5
  <2>2. CASE i + 1 = k
    BY <1>1, <2>1, <2>2
  <2>3. CASE i >= k
    <3>1. Trace(t, Cut(i)) = Trace(t, a)
      BY <1>5, <2>3
    <3>2. Trace(t, Cut(i + 1)) = Go(t, Trace(t, Cut(i)), b[i + 1])
      BY <1>3, <2>1, TraceNext
    <3>3. Trace(t, Cut(i + 1)) = Trace(t, a)
      BY <3>1, <3>2 DEF Go
    <3>4. QED
      BY <2>1, <3>3
  <2>4. CASE i + 1 < k
    BY <1>1, <2>1, <2>4
  <2>5. QED
    BY <1>1, <2>1, <2>2, <2>3, <2>4
<1> HIDE DEF T
<1>6. L \in T
  <2>1. \A i \in 0..L : i \in T
    BY <1>1, <1>4, <1>5, Reached
  <2>2. QED
    BY <1>1, <2>1
<1>7. QED
  BY <1>1, <1>2, <1>6 DEF T

\* Where a path fails.
LEMMA TraceFails ==
  ASSUME NEW t, Text(t), NEW b \in Path, Trace(t, b).code # "ok"
  PROVE  \E i \in 0..(Len(b) - 1) :
           /\ Trace(t, SubSeq(b, 1, i)).code = "ok" /\ Trace(t, SubSeq(b, 1, i + 1)).code # "ok"
           /\ SubSeq(b, 1, i) \in Path /\ b[i + 1] \in Segment
           /\ SubSeq(b, 1, i + 1) = Append(SubSeq(b, 1, i), b[i + 1])
<1> DEFINE L == Len(b)
           Cut(i) == SubSeq(b, 1, i)
           T == {i \in 0..L : Trace(t, Cut(i)).code = "ok"}
<1>1. L \in Nat
  BY DEF Path
<1>2. Cut(L) = b
  <2>1. IsPrefix(b, b)
    BY PrefixSelf
  <2>2. QED
    BY <2>1, PrefixIs
<1>3. ASSUME NEW i \in 0..(L - 1)
      PROVE  /\ Cut(i + 1) = Append(Cut(i), b[i + 1])
             /\ b[i + 1] \in Segment /\ Cut(i) \in Path
  <2>1. i \in Nat /\ i + 1 <= Len(b)
    BY <1>1
  <2>2. QED
    BY <2>1, PrefixNext
<1>4. Trace(t, Cut(0)).code = "ok"
  <2>1. Cut(0) = <<>>
    BY PrefixNone
  <2>2. Trace(t, <<>>) = Start /\ Start.code = "ok"
    BY TraceEmpty DEF Start
  <2> HIDE DEF Cut
  <2>3. QED
    BY <2>1, <2>2
<1> HIDE DEF L, Cut
<1> SUFFICES ASSUME \A i \in 0..(L - 1) : Trace(t, Cut(i)).code = "ok" => Trace(t, Cut(i + 1)).code = "ok"
             PROVE  FALSE
  BY <1>3 DEF L, Cut
<1>5. 0 \in T
  BY <1>1, <1>4
<1>6. ASSUME NEW i \in 0..L, i \in T, i + 1 <= L
      PROVE  i + 1 \in T
  <2>1. i + 1 \in 0..L /\ i \in 0..(L - 1)
    BY <1>1, <1>6
  <2>2. QED
    BY <1>6, <2>1
<1> HIDE DEF T
<1>7. L \in T
  <2>1. \A i \in 0..L : i \in T
    BY <1>1, <1>5, <1>6, Reached
  <2>2. QED
    BY <1>1, <2>1
<1>8. QED
  BY <1>2, <1>7 DEF T

LEMMA SpotIs ==
  ASSUME NEW t, Text(t), NEW a \in Path
  PROVE  /\ Trace(t, a) \in Place(t) /\ Trace(t, a).at \in DOMAIN t /\ Trace(t, a).at # 0
         /\ Spot(t, a) # 0 <=> Trace(t, a).code = "ok"
         /\ Trace(t, a).code = "ok" => Spot(t, a) = Trace(t, a).at
<1>1. [tag |-> "key", value |-> 0] \in Segment
  BY DEF Segment
<1>2. Trace(t, a) \in Place(t)
  BY <1>1, TraceNext
<1>3. Trace(t, a).at \in DOMAIN t /\ Trace(t, a).at # 0
  BY <1>2, TextShape DEF Place
<1>4. QED
  BY <1>2, <1>3 DEF Spot

\* An edge that is absent is where the paths through it fail.
LEMMA AbsentTrue ==
  ASSUME NEW p, NEW w, NEW P, Compiled(p, w, P), NEW t, Text(t), NEW o,
         NEW n, NEW e, NEW c, Absent(w, t, o, n, e, c), NEW s \in Passes(w, P, c)
  PROVE  /\ ResolveIn(t, P[s]).at = Spot(t, w[n]) /\ ResolveIn(t, P[s]).code = NoneAt(e)
         /\ ResolveIn(t, P[s]).value = e.value /\ s \in DOMAIN P
<1>1. /\ Hangs(w, n, e, c) /\ Spot(t, w[n]) # 0
      /\ t[Spot(t, w[n])].kind = Wanted(e) /\ Spot(t, w[c]) = 0
  BY DEF Absent
<1>2. /\ n \in DOMAIN w /\ c \in DOMAIN w /\ e \in Segment /\ w[c] = Append(w[n], e)
      /\ w[n] \in Path /\ w[c] \in Path
  BY <1>1, TrieShape DEF Hangs, Compiled
<1>3. s \in DOMAIN P /\ IsPrefix(w[c], P[s]) /\ P[s] \in Path
  BY SlotNode DEF Passes
<1> DEFINE r == Trace(t, w[n])
           q == Trace(t, w[c])
<1>4. r.code = "ok" /\ r.at = Spot(t, w[n]) /\ q.code # "ok"
  BY <1>1, <1>2, SpotIs
<1>5. q = Go(t, r, e)
  BY <1>2, TraceNext
<1>6. Trace(t, P[s]) = q
  BY <1>2, <1>3, <1>4, TraceStays
<1> HIDE DEF r, q
<1>7. q = Stop(r, e, NoneAt(e))
  <2>1. t[r.at].kind = Wanted(e)
    BY <1>1, <1>4
  <2>2. Matching(t, r.at, e) = {}
    <3> SUFFICES ASSUME Matching(t, r.at, e) # {}
                 PROVE  FALSE
      OBVIOUS
    <3>1. q = [r EXCEPT !.at = Min(Matching(t, r.at, e))]
      BY <1>4, <1>5, <2>1 DEF Go
    <3>2. q.code = r.code
      <4> DEFINE x == Min(Matching(t, r.at, e))
      <4> HIDE DEF x
      <4>1. r \in Place(t)
        BY <1>2, SpotIs DEF r
      <4>2. q = [r EXCEPT !.at = x]
        BY <3>1 DEF x
      <4>3. QED
        BY <4>1, <4>2 DEF Place
    <3>3. QED
      BY <1>4, <3>2
  <2>3. QED
    BY <1>4, <1>5, <2>1, <2>2 DEF Go
<1>8. q.at = Spot(t, w[n]) /\ q.code = NoneAt(e) /\ q.value = e.value
  BY <1>4, <1>7 DEF Stop
<1>9. ResolveIn(t, P[s]) = q
  BY <1>4, <1>6 DEF ResolveIn
<1>10. QED
  BY <1>3, <1>8, <1>9

LEMMA WrongTrue ==
  ASSUME NEW p, NEW w, NEW P, Compiled(p, w, P), NEW t, Text(t), NEW s, Wrong(w, P, t, s)
  PROVE  s \in DOMAIN P /\ ResolveIn(t, P[s]).code = "incorrect_type"
<1>1. PICK n \in DOMAIN w : Spot(t, w[n]) # 0 /\ s \in Astray(w, P, t[Spot(t, w[n])].kind, n)
  BY DEF Wrong
<1>2. w[n] \in Path /\ s \in DOMAIN P /\ P[s] \in Path
  BY <1>1, TrieShape, SlotNode DEF Astray, Compiled
<1> DEFINE r == Trace(t, w[n])
<1>3. r.code = "ok" /\ r.at = Spot(t, w[n]) /\ r \in Place(t)
  BY <1>1, <1>2, SpotIs
<1>4. CASE t[Spot(t, w[n])].kind \in Containers /\ P[s] = w[n]
  <2>1. ResolveIn(t, P[s]) = [r EXCEPT !.code = "incorrect_type"]
    BY <1>3, <1>4 DEF ResolveIn
  <2> HIDE DEF r
  <2>2. QED
    BY <1>2, <1>3, <2>1 DEF Place
<1>5. CASE \E e, c : /\ Hangs(w, n, e, c) /\ Wanted(e) # t[Spot(t, w[n])].kind
                     /\ s \in Passes(w, P, c)
  <2>1. PICK e, c : /\ Hangs(w, n, e, c) /\ Wanted(e) # t[Spot(t, w[n])].kind
                    /\ s \in Passes(w, P, c)
    BY <1>5
  <2>2. e \in Segment /\ w[c] = Append(w[n], e) /\ w[c] \in Path /\ IsPrefix(w[c], P[s])
    BY <2>1, TrieShape DEF Hangs, Compiled, Passes
  <2>3. Trace(t, w[c]) = Go(t, r, e)
    BY <1>2, <2>2, TraceNext
  <2>4. Trace(t, w[c]) = Stop(r, e, "incorrect_type")
    BY <1>3, <2>1, <2>3 DEF Go
  <2>5. Trace(t, w[c]).code = "incorrect_type"
    BY <2>4 DEF Stop
  <2>6. Trace(t, P[s]) = Trace(t, w[c])
    BY <1>2, <2>2, <2>5, TraceStays
  <2>7. QED
    BY <1>2, <2>5, <2>6 DEF ResolveIn
<1>6. QED
  BY <1>1, <1>4, <1>5 DEF Astray

\* What was noted is true.
LEMMA VerdictTrue ==
  ASSUME NEW p, NEW w, NEW P, Compiled(p, w, P), NEW t, Text(t), NEW o, NEW s, NEW code,
         Verdict(w, P, t, o, s, code)
  PROVE  s \in DOMAIN P /\ ResolveIn(t, P[s]).code = code
<1>1. CASE code = "incorrect_type" /\ Wrong(w, P, t, s)
  BY <1>1, WrongTrue
<1>2. CASE \E n, e, c : Absent(w, t, o, n, e, c) /\ s \in Passes(w, P, c) /\ code = NoneAt(e)
  BY <1>2, AbsentTrue
<1>3. QED
  BY <1>1, <1>2 DEF Verdict

LEMMA ExcusedTrue ==
  ASSUME NEW p, NEW w, NEW P, Compiled(p, w, P), NEW t, Text(t), NEW o, NEW s,
         Excused(w, P, t, o, s)
  PROVE  /\ ResolveIn(t, P[s]).code = "index_out_of_bounds"
         /\ \E x \in DOMAIN P : /\ ResolveIn(t, P[x]).code = "index_out_of_bounds"
                                /\ ResolveIn(t, P[x]).at = ResolveIn(t, P[s]).at
                                /\ ResolveIn(t, P[x]).value < ResolveIn(t, P[s]).value
<1>1. PICK n, e, c, f, d :
        /\ Absent(w, t, o, n, e, c) /\ Absent(w, t, o, n, f, d)
        /\ e.tag = "index" /\ f.tag = "index" /\ f.value < e.value /\ s \in Passes(w, P, c)
  BY DEF Excused
<1>2. NoneAt(e) = "index_out_of_bounds" /\ NoneAt(f) = "index_out_of_bounds"
  BY <1>1 DEF NoneAt
<1>3. d \in DOMAIN w
  BY <1>1 DEF Absent, Hangs
<1>4. PICK x : x \in Passes(w, P, d)
  BY <1>3, PassesLeast
<1>5. /\ ResolveIn(t, P[s]).at = Spot(t, w[n]) /\ ResolveIn(t, P[s]).code = NoneAt(e)
      /\ ResolveIn(t, P[s]).value = e.value
  BY <1>1, AbsentTrue
<1>6. /\ ResolveIn(t, P[x]).at = Spot(t, w[n]) /\ ResolveIn(t, P[x]).code = NoneAt(f)
      /\ ResolveIn(t, P[x]).value = f.value /\ x \in DOMAIN P
  BY <1>1, <1>4, AbsentTrue
<1>7. QED
  BY <1>1, <1>2, <1>5, <1>6

\* Whatever fails was noted, once every container is over.
LEMMA VerdictFound ==
  ASSUME NEW p, NEW w, NEW P, Compiled(p, w, P), NEW t, Text(t), NEW o, ToSet(o) = {},
         NEW s \in DOMAIN P, ResolveIn(t, P[s]).code # "ok"
  PROVE  \E code : Verdict(w, P, t, o, s, code)
<1>1. Trie(p, w) /\ P[s] \in Path
  BY SlotNode DEF Compiled
<1>2. CASE Trace(t, P[s]).code = "ok"
  <2>1. t[Trace(t, P[s]).at].kind \in Containers
    BY <1>2 DEF ResolveIn
  <2>2. PICK n \in DOMAIN w : w[n] = P[s]
    BY SlotNode
  <2>3. Spot(t, w[n]) # 0 /\ Spot(t, w[n]) = Trace(t, P[s]).at
    BY <1>1, <1>2, <2>2, SpotIs
  <2>4. s \in Astray(w, P, t[Spot(t, w[n])].kind, n)
    BY <2>1, <2>2, <2>3 DEF Astray
  <2>5. Wrong(w, P, t, s)
    BY <2>3, <2>4 DEF Wrong
  <2>6. QED
    BY <2>5 DEF Verdict
<1>3. CASE Trace(t, P[s]).code # "ok"
  <2> DEFINE b == P[s]
  <2>1. PICK i \in 0..(Len(b) - 1) :
           /\ Trace(t, SubSeq(b, 1, i)).code = "ok" /\ Trace(t, SubSeq(b, 1, i + 1)).code # "ok"
           /\ SubSeq(b, 1, i) \in Path /\ b[i + 1] \in Segment
           /\ SubSeq(b, 1, i + 1) = Append(SubSeq(b, 1, i), b[i + 1])
    BY <1>1, <1>3, TraceFails
  <2>2. i \in 0..Len(b) /\ i + 1 \in 0..Len(b)
    BY <1>1 DEF Path
  <2>3. PICK n \in DOMAIN w : w[n] = SubSeq(b, 1, i)
    BY <2>2, SlotNode
  <2>4. PICK c \in DOMAIN w : w[c] = SubSeq(b, 1, i + 1)
    BY <2>2, SlotNode
  <2> DEFINE e == b[i + 1]
  <2>5. Hangs(w, n, e, c) /\ e \in Segment /\ w[n] \in Path /\ w[c] \in Path /\ w[c] = Append(w[n], e)
    BY <1>1, <2>1, <2>3, <2>4, TrieShape DEF Hangs
  <2>6. s \in Passes(w, P, c)
    <3>1. Len(w[c]) = i + 1
      BY <1>1, <2>2, <2>4, PrefixShape DEF Path
    <3>2. IsPrefix(w[c], b)
      BY <1>1, <2>2, <2>4, <2>5, <3>1, PrefixIs
    <3>3. QED
      BY <3>2 DEF Passes
  <2> DEFINE r == Trace(t, w[n])
             v == Spot(t, w[n])
  <2>7. r.code = "ok" /\ v # 0 /\ r.at = v /\ Spot(t, w[c]) = 0
    BY <2>1, <2>3, <2>4, <2>5, SpotIs
  <2> HIDE DEF e, r
  <2>8. CASE t[v].kind # Wanted(e)
    <3>1. s \in Astray(w, P, t[v].kind, n)
      BY <2>5, <2>6, <2>8 DEF Astray
    <3>2. Wrong(w, P, t, s)
      BY <2>7, <3>1 DEF Wrong
    <3>3. QED
      BY <3>2 DEF Verdict
  <2>9. CASE t[v].kind = Wanted(e)
    <3>1. Absent(w, t, o, n, e, c)
      BY <2>5, <2>7, <2>9 DEF Absent
    <3>2. QED
      BY <2>6, <3>1 DEF Verdict
  <2>10. QED
    BY <2>8, <2>9
<1>4. QED
  BY <1>2, <1>3

\* A slot whose path does not fail is filled with the value it leads to.
LEMMA SlotTrue ==
  ASSUME NEW p, NEW w, NEW P, Compiled(p, w, P), NEW t, Text(t), NEW sl, InSlots(P, t, sl),
         NEW s \in DOMAIN P, ResolveIn(t, P[s]).code = "ok"
  PROVE  sl[s] = ResolveIn(t, P[s]).at /\ sl[s] # 0
<1>1. P[s] \in Path
  BY SlotNode
<1> DEFINE r == Trace(t, P[s])
<1>2. r.code = "ok" /\ t[r.at].kind \notin Containers /\ ResolveIn(t, P[s]) = r
  <2>1. r \in Place(t)
    BY <1>1, SpotIs
  <2>2. CASE r.code = "ok" /\ t[r.at].kind \in Containers
    <3>1. ResolveIn(t, P[s]) = [r EXCEPT !.code = "incorrect_type"]
      BY <2>2 DEF ResolveIn
    <3> HIDE DEF r
    <3>2. [r EXCEPT !.code = "incorrect_type"].code = "incorrect_type"
      BY <2>1 DEF Place
    <3>3. QED
      BY <3>1, <3>2
  <2>3. CASE ~(r.code = "ok" /\ t[r.at].kind \in Containers)
    <3>1. ResolveIn(t, P[s]) = r
      BY <2>3 DEF ResolveIn
    <3>2. QED
      BY <2>3, <3>1
  <2>4. QED
    BY <2>2, <2>3
<1>3. Spot(t, P[s]) = r.at /\ Spot(t, P[s]) # 0
  BY <1>1, <1>2, SpotIs
<1>4. QED
  BY <1>2, <1>3 DEF InSlots

-----------------------------------------------------------------------------
(* The pass. *)

\* What a pass has made of the part t of a source when the containers o are
\* open: where it is, what it has met and filled, and what it remembers.
PassOf(p, w, P, t, o, m, met, sl, a) ==
  /\ Text(t) /\ Cursor(p, w, t, o, m) /\ AreMet(p, w, t, met)
  /\ InSlots(P, t, sl) /\ Remembered(w, P, t, o, a)

\* The next value is u's last, in the innermost container, and leads to c.
Reads(p, t, u, o, m, met, c) ==
  /\ o # <<>> /\ Grown(t, u) /\ NewAt(t, u, Last(o))
  /\ t[Last(o)].kind = "array" => u[Len(u)].label = Cardinality(Members(t, Last(o)))
  /\ c = Chosen(p, t, met, Last(o), Last(m), u[Len(u)].label)

LEMMA ReadIsStep ==
  ASSUME NEW p, NEW w, NEW P, Compiled(p, w, P), NEW t, NEW o, NEW m, NEW met, NEW sl, NEW a,
         PassOf(p, w, P, t, o, m, met, sl, a), NEW u, NEW c, Reads(p, t, u, o, m, met, c)
  PROVE  Step(p, w, t, u, Last(o), met, Last(m), c) /\ At(p, w, t, Last(o), Last(m))
<1>1. Trie(p, w) /\ Ascending(p) /\ Numbered(p)
  BY DEF Compiled
<1>2. Text(t) /\ Cursor(p, w, t, o, m) /\ AreMet(p, w, t, met)
  BY DEF PassOf
<1>3. o # <<>> /\ Grown(t, u) /\ NewAt(t, u, Last(o))
      /\ c = Chosen(p, t, met, Last(o), Last(m), u[Len(u)].label)
  BY DEF Reads
<1>4. /\ Last(o) \in DOMAIN t /\ Last(m) \in MarkType /\ At(p, w, t, Last(o), Last(m))
  BY <1>2, <1>3, CursorShape
<1>5. /\ t[Last(o)].kind \in Containers /\ Led(w, t, Last(o), Last(m).node)
      /\ t[Last(o)].kind = "array" => Abreast(p, t, Last(o), Last(m))
  BY <1>4 DEF At
<1>6. t[Last(o)].kind = "array" => u[Len(u)].label = Last(m).index
  BY <1>5 DEF Reads, Abreast
<1>7. QED
  BY <1>1, <1>2, <1>3, <1>4, <1>5, <1>6 DEF Step

\* The marks and the edges met, after the value.
MarksRead(p, w, t, u, o, m, met, c, next, met2) ==
  /\ next \in MarkType /\ At(p, w, u, Last(o), next)
  /\ MetAfter(p, t, u, Last(o), met, Last(m), c, met2)

\* The value is in the slots of c if it is no container.
SlotsFilled(p, u, sl, c, sk) ==
  /\ DOMAIN sk = DOMAIN sl
  /\ \A s \in DOMAIN sl :
       sk[s] = IF c # 0 /\ u[Len(u)].kind \notin Containers /\ s \in ToSet(p.nodes[c].slots)
               THEN Len(u) ELSE sl[s]

\* From a to b what fails at the value was noted.
FailuresNoted(w, P, u, c, a, b) ==
  /\ Memory(b) /\ (c = 0 => b = a)
  /\ c # 0 => Recorded(b, a, "incorrect_type", Astray(w, P, u[Len(u)].kind, c))

LEMMA AppendedSet ==
  ASSUME NEW S, NEW s \in Seq(S), NEW x
  PROVE  ToSet(Append(s, x)) = ToSet(s) \cup {x}
<1> DEFINE q == Append(s, x)
<1>1. Len(s) \in Nat /\ DOMAIN s = 1..Len(s) /\ DOMAIN q = 1..(Len(s) + 1)
      /\ (\A i \in 1..Len(s) : q[i] = s[i]) /\ q[Len(s) + 1] = x
  <2>1. s \in Seq(S \cup {x}) /\ x \in S \cup {x}
    BY SeqDef
  <2>2. QED
    BY <2>1
<1>2. ToSet(s) = {s[i] : i \in DOMAIN s} /\ ToSet(q) = {q[i] : i \in DOMAIN q}
  BY DEF ToSet
<1> HIDE DEF q
<1>3. 1..(Len(s) + 1) = 1..Len(s) \cup {Len(s) + 1}
  BY <1>1
<1>4. ASSUME NEW y \in ToSet(q)
      PROVE  y \in ToSet(s) \cup {x}
  <2>1. PICK i \in DOMAIN q : y = q[i]
    BY <1>2, <1>4
  <2>2. CASE i \in 1..Len(s)
    BY <1>1, <1>2, <2>1, <2>2
  <2>3. CASE i = Len(s) + 1
    BY <1>1, <2>1, <2>3
  <2>4. QED
    BY <1>1, <1>3, <2>2, <2>3
<1>5. ASSUME NEW y \in ToSet(s)
      PROVE  y \in ToSet(q)
  <2>1. PICK i \in DOMAIN s : y = s[i]
    BY <1>2, <1>5
  <2>2. i \in 1..Len(s) /\ i \in DOMAIN q /\ y = q[i]
    BY <1>1, <1>3, <2>1
  <2>3. QED
    BY <1>2, <2>2
<1>6. x \in ToSet(q)
  <2>1. Len(s) + 1 \in DOMAIN q
    BY <1>1
  <2>2. QED
    BY <1>1, <1>2, <2>1
<1>7. ToSet(q) = ToSet(s) \cup {x}
  BY <1>4, <1>5, <1>6
<1>8. QED
  BY <1>7 DEF q

\* The pass has read a value that is no container, ...
LEMMA PassOver ==
  ASSUME NEW p, NEW w, NEW P, Compiled(p, w, P), NEW t, NEW o, NEW m, NEW met, NEW sl, NEW a,
         PassOf(p, w, P, t, o, m, met, sl, a), NEW u, NEW c, Reads(p, t, u, o, m, met, c),
         u[Len(u)].kind \notin Containers,
         NEW next, NEW met2, MarksRead(p, w, t, u, o, m, met, c, next, met2),
         NEW sk, SlotsFilled(p, u, sl, c, sk), NEW b, FailuresNoted(w, P, u, c, a, b)
  PROVE  PassOf(p, w, P, u, o, Append(Front(m), next), met2, sk, b)
<1>1. /\ Text(t) /\ Cursor(p, w, t, o, m) /\ AreMet(p, w, t, met)
      /\ InSlots(P, t, sl) /\ Remembered(w, P, t, o, a)
  BY DEF PassOf
<1>2. o # <<>> /\ Grown(t, u) /\ NewAt(t, u, Last(o))
  BY DEF Reads
<1>3. Step(p, w, t, u, Last(o), met, Last(m), c)
  BY ReadIsStep
<1>4. Led(w, u, Len(u), c)
  BY <1>3, StepLed
<1>5. Text(u)
  BY <1>2, GrownText
<1>6. Cursor(p, w, u, o, Append(Front(m), next))
  BY <1>1, <1>2, <1>3, CursorNext DEF MarksRead
<1>7. AreMet(p, w, u, met2)
  BY <1>3, MetNext DEF MarksRead
<1>8. InSlots(P, u, sk)
  BY <1>1, <1>2, <1>4, SlotsRead DEF SlotsFilled
<1>9. u[Len(u)].up \in ToSet(o)
  <2>1. Len(o) \in DOMAIN o /\ Last(o) = o[Len(o)]
    BY <1>1, <1>2, CursorShape
  <2>2. QED
    BY <1>2, <2>1 DEF NewAt, ToSet
<1>10. Entered(u, o, o)
  BY DEF Entered
<1>11. Remembered(w, P, u, o, b)
  BY <1>1, <1>2, <1>4, <1>9, <1>10, RememberedRead DEF FailuresNoted
<1>12. QED
  BY <1>5, <1>6, <1>7, <1>8, <1>11 DEF PassOf

\* ... or one that is, and goes into it.
LEMMA PassInto ==
  ASSUME NEW p, NEW w, NEW P, Compiled(p, w, P), NEW t, NEW o, NEW m, NEW met, NEW sl, NEW a,
         PassOf(p, w, P, t, o, m, met, sl, a), NEW u, NEW c, Reads(p, t, u, o, m, met, c),
         u[Len(u)].kind \in Containers,
         NEW next, NEW met2, MarksRead(p, w, t, u, o, m, met, c, next, met2),
         NEW sk, SlotsFilled(p, u, sl, c, sk), NEW b, FailuresNoted(w, P, u, c, a, b)
  PROVE  PassOf(p, w, P, u, Append(o, Len(u)), Append(Append(Front(m), next), Mark(c)), met2, sk, b)
<1> DEFINE q == Append(o, Len(u))
           k == Append(Front(m), next)
<1>1. /\ Text(t) /\ Cursor(p, w, t, o, m) /\ AreMet(p, w, t, met)
      /\ InSlots(P, t, sl) /\ Remembered(w, P, t, o, a)
  BY DEF PassOf
<1>2. o # <<>> /\ Grown(t, u) /\ NewAt(t, u, Last(o))
  BY DEF Reads
<1>3. Step(p, w, t, u, Last(o), met, Last(m), c)
  BY ReadIsStep
<1>4. Led(w, u, Len(u), c)
  BY <1>3, StepLed
<1>5. Text(u)
  BY <1>2, GrownText
<1>6. Cursor(p, w, u, o, k)
  BY <1>1, <1>2, <1>3, CursorNext DEF MarksRead
<1>7. AreMet(p, w, u, met2)
  BY <1>3, MetNext DEF MarksRead
<1>8. InSlots(P, u, sk)
  BY <1>1, <1>2, <1>4, SlotsRead DEF SlotsFilled
<1>9. /\ u[Len(u)].up \in ToSet(o) /\ o \in Seq(DOMAIN t)
      /\ \A i \in DOMAIN o : o[i] \in DOMAIN t
  <2>1. Len(o) \in DOMAIN o /\ Last(o) = o[Len(o)] /\ \A i \in DOMAIN o : o[i] \in DOMAIN t
    BY <1>1, <1>2, CursorShape
  <2>2. QED
    BY <1>1, <1>2, <2>1 DEF NewAt, ToSet, Cursor
<1>10. ToSet(q) = ToSet(o) \cup {Len(u)}
  BY <1>9, AppendedSet
<1>11. Entered(u, o, q)
  BY <1>10 DEF Entered
<1>12. Remembered(w, P, u, q, b)
  BY <1>1, <1>2, <1>4, <1>9, <1>11, RememberedRead DEF FailuresNoted
<1>13. \A i \in DOMAIN o : o[i] # Len(u)
  <2>1. Len(u) \notin DOMAIN t
    BY <1>2, GrownShape
  <2>2. QED
    BY <1>9, <2>1
<1>14. Trie(p, w)
  BY DEF Compiled
<1> HIDE DEF k
<1>15. Cursor(p, w, u, q, Append(k, Mark(c)))
  BY <1>2, <1>4, <1>6, <1>13, <1>14, CursorInto
<1>16. PassOf(p, w, P, u, q, Append(k, Mark(c)), met2, sk, b)
  BY <1>5, <1>7, <1>8, <1>12, <1>15 DEF PassOf
<1>17. QED
  BY <1>16 DEF k

\* The pass begins in a container.
LEMMA PassBegun ==
  ASSUME NEW p, NEW w, NEW P, Compiled(p, w, P), NEW t, Text(t), Len(t) = 1,
         t[1].kind \in Containers,
         NEW b, Recorded(b, Ok, "incorrect_type", Astray(w, P, t[1].kind, 1))
  PROVE  PassOf(p, w, P, t, <<1>>, <<Mark(1)>>, {}, [s \in DOMAIN P |-> 0], b)
<1>1. Trie(p, w) /\ 1 \in DOMAIN w /\ Led(w, t, 1, 1) /\ AreMet(p, w, t, {})
      /\ InSlots(P, t, [s \in DOMAIN P |-> 0])
  BY RootLed DEF Compiled
<1> DEFINE x == Mark(1)
           o == <<1>>
           m == <<x>>
<1>2. x.node = 1 /\ x.wanted = 1 /\ x.index = 0 /\ x \in MarkType
  BY DEF Mark, MarkType
<1>3. 1 \in DOMAIN t /\ DOMAIN t = {1} /\ t \in Seq(Values) /\ \A n \in DOMAIN t : t[n].up < n /\ t[n].up \in Nat
  BY TextShape DEF Text
<1>4. Members(t, 1) = {}
  BY <1>3 DEF Members
<1>5. Abreast(p, t, 1, x)
  <2>1. x.index = Cardinality(Members(t, 1))
    BY <1>2, <1>4, FS_EmptySet
  <2>2. \A y : y \in 0..(x.index - 1) <=> \E k \in Members(t, 1) : t[k].label = y
    BY <1>2, <1>4
  <2>3. \A j \in DOMAIN p.nodes[1].array : j < 1 <=> p.nodes[1].array[j].index < 0
    <3> SUFFICES ASSUME NEW j \in DOMAIN p.nodes[1].array
                 PROVE  j < 1 <=> p.nodes[1].array[j].index < 0
      OBVIOUS
    <3>1. p.nodes[1] \in PlanNode
      BY <1>1, TrieShape
    <3>2. j \in 1..Len(p.nodes[1].array) /\ p.nodes[1].array[j].index \in Nat
      BY <3>1, NodeType
    <3>3. QED
      BY <3>2
  <2> HIDE DEF x
  <2>4. x.node # 0 =>
          \A j \in DOMAIN p.nodes[x.node].array :
            j < x.wanted <=> p.nodes[x.node].array[j].index < x.index
    BY <1>2, <2>3
  <2>5. QED
    BY <2>1, <2>2, <2>4 DEF Abreast
<1>6. At(p, w, t, 1, x)
  BY <1>1, <1>2, <1>5 DEF At
<1> HIDE DEF x
<1>7. o \in Seq({1}) /\ m \in Seq(MarkType) /\ Len(m) = Len(o) /\ DOMAIN o = {1} /\ o[1] = 1 /\ m[1] = x
  BY <1>2
<1>8. o \in Seq(DOMAIN t)
  BY <1>3, <1>7
<1> HIDE DEF o, m
<1>9. Cursor(p, w, t, o, m)
  BY <1>6, <1>7, <1>8 DEF Cursor
<1>10. Remembered(w, P, t, o, b)
  <2>1. 1 \in ToSet(o)
    BY <1>7 DEF ToSet
  <2>2. QED
    BY <2>1, RootRemembered
<1>11. PassOf(p, w, P, t, o, m, {}, [s \in DOMAIN P |-> 0], b)
  BY <1>1, <1>9, <1>10 DEF PassOf
<1>12. QED
  BY <1>11 DEF o, m, x

-----------------------------------------------------------------------------
(* The projection in every state. *)

\* The paths of the request by their slots.
Paths == [s \in 0..(Len(request) - 1) |-> PathOf(request, s)]

\* The finished plan is compiled from the paths.
LEMMA PlanCompiled == PlanInv /\ PlanReady => \E w : Compiled(plan, w, Paths)
<1> SUFFICES ASSUME PlanInv, PlanReady
             PROVE  \E w : Compiled(plan, w, Paths)
  OBVIOUS
<1> DEFINE k == Len(request)
           P == Paths
<1>1. Planned /\ planned = k
  <2>1. plan # NoPlan
    BY DEF PlanReady, NoPlan
  <2>2. QED
    BY <2>1 DEF PlanInv, PlanReady
<1>2. PICK w : Tree(plan, w, k) /\ Covers(w, k) /\ \A n \in DOMAIN w : Totals(plan.nodes, w, k, n)
  BY <1>1 DEF Planned
<1>3. /\ k \in Nat \ {0} /\ NoSlot \in Nat /\ k <= NoSlot
      /\ \A s \in 0..(k - 1) : PathOf(request, s) \in Path /\ PathOf(request, s) # <<>>
  BY <1>1, RequestNamed DEF Planned
<1>4. Named(k)
  BY <1>3 DEF Named
<1>5. DOMAIN P = 0..(k - 1) /\ \A s \in DOMAIN P : P[s] = PathOf(request, s)
  BY DEF Paths
<1>6. \A n : Ends(w, P, n) = Ending(k, w[n]) /\ Passes(w, P, n) = Through(k, w[n])
  BY <1>5, Zenon DEF Ends, Ending, Passes, Through
<1> HIDE DEF k, P
<1>7. Trie(plan, w) /\ Ascending(plan) /\ Numbered(plan) /\ Filled(plan, w, k)
  BY <1>2 DEF Tree
<1>8. \E l \in 1..NoSlot : P \in [0..(l - 1) -> Path]
  <2>1. k \in 1..NoSlot
    BY <1>3
  <2>2. P \in [0..(k - 1) -> Path]
    <3>1. P = [s \in 0..(k - 1) |-> PathOf(request, s)]
      BY DEF P, k, Paths
    <3>2. QED
      BY <1>3, <3>1
  <2>3. QED
    BY <2>1, <2>2
<1>9. ASSUME NEW s \in DOMAIN P
      PROVE  P[s] # <<>> /\ \A i \in 0..Len(P[s]) : \E n \in DOMAIN w : w[n] = SubSeq(P[s], 1, i)
  <2>1. P[s] \in Path /\ P[s] # <<>> /\ s \in 0..(k - 1) /\ P[s] = PathOf(request, s)
    BY <1>3, <1>5
  <2> DEFINE path == PathOf(request, s)
  <2>2. ASSUME NEW i \in 0..Len(path)
        PROVE  \E n \in DOMAIN w : w[n] = SubSeq(path, 1, i)
    <3>1. SubSeq(path, 1, i) \in Prefixes(path)
      BY DEF Prefixes
    <3>2. SubSeq(path, 1, i) \in RequestedPrefixes(request, k)
      BY <2>1, <3>1, Zenon DEF RequestedPrefixes
    <3>3. QED
      BY <1>2, <3>2 DEF Covers
  <2>3. QED
    BY <2>1, <2>2
<1>10. ASSUME NEW n \in DOMAIN w
       PROVE  /\ InAscendingOrder(plan.nodes[n].slots, Ends(w, P, n))
              /\ Passes(w, P, n) # {} /\ Least(plan.nodes[n].first, Passes(w, P, n))
  <2> DEFINE S == Through(k, w[n])
  <2>1. S # {} /\ S \subseteq Nat
    BY <1>2, <1>3, <1>4, <1>7, ThroughFound, ThroughType
  <2>2. plan.nodes[n].first = Min(S)
    BY <1>2 DEF Totals
  <2> HIDE DEF S
  <2>3. Min(S) \in S /\ \A y \in S : Min(S) <= y
    BY <2>1, MinIs
  <2>4. Passes(w, P, n) = S
    BY <1>6 DEF S
  <2>5. InAscendingOrder(plan.nodes[n].slots, Ending(k, w[n]))
    BY <1>7 DEF Filled
  <2>6. QED
    BY <1>6, <2>1, <2>2, <2>3, <2>4, <2>5 DEF Least
<1>11. Compiled(plan, w, P)
  BY <1>3, <1>7, <1>8, <1>9, <1>10 DEF Compiled
<1>12. QED
  BY <1>11 DEF P

\* The elements of arrays are labelled with their positions.
Ranked(t) ==
  \A n \in DOMAIN t : n # 1 /\ t[t[n].up].kind = "array" => t[n].label = Rank(t, n)

LEMMA RankKept ==
  ASSUME NEW t \in Seq(Values), NEW u \in Seq(Values), Len(t) <= Len(u),
         \A m \in 1..Len(t) : u[m] = t[m], NEW n \in DOMAIN t
  PROVE  Rank(u, n) = Rank(t, n)
<1>1. DOMAIN t = 1..Len(t) /\ DOMAIN u = 1..Len(u) /\ Len(t) \in Nat /\ Len(u) \in Nat
  OBVIOUS
<1>2. u[n] = t[n]
  BY <1>1
<1>3. \A m : (m \in DOMAIN u /\ m < n) <=> (m \in DOMAIN t /\ m < n)
  BY <1>1
<1>4. \A m \in DOMAIN t : u[m] = t[m]
  BY <1>1
<1>5. {m \in Members(u, u[n].up) : m < n} = {m \in Members(t, t[n].up) : m < n}
  BY <1>2, <1>3, <1>4 DEF Members
<1>6. QED
  BY <1>5 DEF Rank

\* Look adds a value with its position.
LEMMA RankedNext ==
  ASSUME Placed, pos > 0 <=> open # <<>>, Look, Ranked(tree)
  PROVE  Ranked(tree')
<1>1. /\ tree' \in Seq(Values) /\ Len(tree) <= Len(tree')
      /\ \A m \in 1..Len(tree) : tree'[m] = tree[m]
      /\ \/ pos < Len(tree) /\ tree' = tree
         \/ pos = Len(tree) /\ Len(tree') = pos + 1
      /\ tree'[pos + 1].up = Parent /\ InOrder(tree')
  BY Looked
<1>2. tree \in Seq(Values) /\ pos \in Nat /\ DOMAIN tree = 1..Len(tree) /\ DOMAIN tree' = 1..Len(tree')
      /\ Len(tree) \in Nat /\ Len(tree') \in Nat
  BY <1>1 DEF Placed, SourceShape
<1>3. CASE tree' = tree
  BY <1>3
<1>4. CASE tree' # tree
  <2>1. pos = Len(tree) /\ Len(tree') = pos + 1
    BY <1>1, <1>4
  <2>2. PICK k \in Kinds, l \in Labels :
          tree' = Append(tree, [kind |-> k, up |-> Parent, label |-> l])
    BY <1>4 DEF Look
  <2>3. tree'[pos + 1].label = l
    BY <1>2, <2>1, <2>2
  <2>4. InOrder(tree)
    BY DEF Placed
  <2> SUFFICES ASSUME NEW n \in DOMAIN tree', n # 1, tree'[tree'[n].up].kind = "array"
               PROVE  tree'[n].label = Rank(tree', n)
    BY DEF Ranked
  <2>5. CASE n \in DOMAIN tree
    <3>1. tree'[n] = tree[n] /\ tree[n].up \in DOMAIN tree
      <4>1. tree[n].up \in Nat /\ tree[n].up < n /\ tree[n].up # 0
        BY <1>2, <2>4, <2>5, ValueShape DEF InOrder
      <4>2. n \in Nat /\ n <= Len(tree) /\ n \in 1..Len(tree)
        BY <1>2, <2>5
      <4>3. tree[n].up \in 1..Len(tree)
        BY <1>2, <4>1, <4>2
      <4>4. QED
        BY <1>1, <1>2, <4>2, <4>3
    <3>2. tree'[tree[n].up] = tree[tree[n].up]
      BY <1>1, <1>2, <3>1
    <3>3. Rank(tree', n) = Rank(tree, n)
      BY <1>1, <1>2, <2>5, RankKept
    <3>4. QED
      BY <2>5, <3>1, <3>2, <3>3 DEF Ranked
  <2>6. CASE n \notin DOMAIN tree
    <3>1. n = pos + 1
      BY <1>2, <2>1, <2>6
    <3>2. Parent # 0 /\ Parent \in DOMAIN tree
      <4>1. tree'[n].up # 0 /\ tree'[n].up \in Nat /\ tree'[n].up < n
        BY <1>1, <1>2, ValueShape DEF InOrder
      <4>2. QED
        BY <1>1, <1>2, <2>1, <3>1, <4>1
    <3>3. tree'[Parent] = tree[Parent]
      BY <1>1, <1>2, <3>2
    <3>4. l = Cardinality(Members(tree, Parent))
      BY <1>1, <2>2, <3>1, <3>2, <3>3 DEF Labels
    <3>5. {m \in Members(tree', tree'[n].up) : m < n} = Members(tree, Parent)
      <4>1. \A m : (m \in DOMAIN tree' /\ m < n) <=> m \in DOMAIN tree
        BY <1>2, <2>1, <3>1
      <4>2. \A m \in DOMAIN tree : tree'[m] = tree[m]
        BY <1>1, <1>2
      <4>3. QED
        BY <1>1, <3>1, <4>1, <4>2 DEF Members
    <3>6. QED
      BY <2>3, <3>1, <3>4, <3>5 DEF Rank
  <2>7. QED
    BY <2>5, <2>6
<1>5. QED
  BY <1>3, <1>4

\* ProjectionMatchesReference, of any source, paths, slots and status.
Matches(t, P, sl, st) ==
  /\ st.code = "ok" =>
       \A s \in DOMAIN P : ResolveIn(t, P[s]).code = "ok" /\ ResolveIn(t, P[s]).at = sl[s]
  /\ st.code \in PathFailures =>
       /\ st.slot \in DOMAIN P /\ ResolveIn(t, P[st.slot]).code = st.code
       /\ \A s \in 0..(st.slot - 1) :
            LET r == ResolveIn(t, P[s]) IN
            \/ r.code = "ok"
            \/ /\ r.code = "index_out_of_bounds"
               /\ \E x \in DOMAIN P : /\ ResolveIn(t, P[x]).code = "index_out_of_bounds"
                                      /\ ResolveIn(t, P[x]).at = r.at
                                      /\ ResolveIn(t, P[x]).value < r.value
  /\ st.code # "ok" => \A s \in DOMAIN P : sl[s] = 0
  /\ st.code # "internal_failure"

LEMMA MatchesNow ==
  DOMAIN slots = DOMAIN Paths /\ Matches(tree, Paths, slots, status) => ProjectionMatchesReference
<1> SUFFICES ASSUME DOMAIN slots = DOMAIN Paths, Matches(tree, Paths, slots, status)
             PROVE  ProjectionMatchesReference
  OBVIOUS
<1>1. \A s : ResolveSlot(s) = ResolveIn(tree, PathOf(request, s))
  BY ResolveIs DEF ResolveSlot
<1>2. DOMAIN Paths = 0..(Len(request) - 1) /\ \A s \in DOMAIN Paths : Paths[s] = PathOf(request, s)
  BY DEF Paths
<1>3. \A s \in DOMAIN Paths : ResolveSlot(s) = ResolveIn(tree, Paths[s])
  BY <1>1, <1>2
<1>4. Len(request) \in Nat
  BY DEF Len
<1>5. LeastSlotReported
  <2> SUFFICES ASSUME status.code \in PathFailures, NEW s \in 0..(status.slot - 1)
               PROVE  LET r == ResolveSlot(s) IN
                      \/ r.code = "ok"
                      \/ /\ r.code = "index_out_of_bounds"
                         /\ \E t \in DOMAIN slots :
                              /\ ResolveSlot(t).code = "index_out_of_bounds"
                              /\ ResolveSlot(t).at = r.at /\ ResolveSlot(t).value < r.value
    BY DEF LeastSlotReported
  <2>1. status.slot \in DOMAIN Paths
    BY DEF Matches
  <2>2. s \in DOMAIN Paths
    BY <1>2, <1>4, <2>1
  <2>3. LET r == ResolveIn(tree, Paths[s]) IN
        \/ r.code = "ok"
        \/ /\ r.code = "index_out_of_bounds"
           /\ \E x \in DOMAIN Paths : /\ ResolveIn(tree, Paths[x]).code = "index_out_of_bounds"
                                      /\ ResolveIn(tree, Paths[x]).at = r.at
                                      /\ ResolveIn(tree, Paths[x]).value < r.value
    BY DEF Matches
  <2>4. QED
    BY <1>3, <2>2, <2>3
<1>6. status.code = "ok" =>
        \A s \in DOMAIN slots : ResolveSlot(s).code = "ok" /\ ResolveSlot(s).at = slots[s]
  BY <1>3 DEF Matches
<1>7. status.code \in PathFailures => ResolveSlot(status.slot).code = status.code
  BY <1>3 DEF Matches
<1>8. QED
  BY <1>5, <1>6, <1>7 DEF ProjectionMatchesReference, Matches

LEMMA MatchesNext ==
  (DOMAIN slots = DOMAIN Paths /\ Matches(tree, Paths, slots, status) => ProjectionMatchesReference)'
BY MatchesNow, PTL

\* What is remembered at the end is what following every path finds.
LEMMA EndIsReference ==
  ASSUME NEW p, NEW w, NEW P, Compiled(p, w, P), NEW t, Text(t), NEW o, ToSet(o) = {},
         NEW sl, InSlots(P, t, sl), NEW a, Remembered(w, P, t, o, a)
  PROVE  /\ a.code = "ok" => Matches(t, P, sl, Ok) /\ \A s \in DOMAIN sl : sl[s] # 0
         /\ a.code # "ok" => \A sk : (\A s \in DOMAIN P : sk[s] = 0) => Matches(t, P, sk, a)
<1>1. \A s : s \in DOMAIN P => s \in Nat
  BY SlotsAre
<1>2. DOMAIN sl = DOMAIN P
  BY DEF InSlots
<1>3. ASSUME a.code = "ok"
      PROVE  Matches(t, P, sl, Ok) /\ \A s \in DOMAIN sl : sl[s] # 0
  <2>1. ASSUME NEW s \in DOMAIN P
        PROVE  /\ ResolveIn(t, P[s]).code = "ok" /\ ResolveIn(t, P[s]).at = sl[s] /\ sl[s] # 0
    <3>1. ResolveIn(t, P[s]).code = "ok"
      <4>1. ASSUME ResolveIn(t, P[s]).code # "ok" PROVE FALSE
        <5>1. PICK code : Verdict(w, P, t, o, s, code)
          BY <4>1, VerdictFound
        <5>2. QED
          BY <1>3, <5>1 DEF Remembered
      <4>2. QED
        BY <4>1
    <3>2. QED
      BY <3>1, SlotTrue
  <2>2. Ok.code = "ok" /\ Ok.code \notin PathFailures
    BY DEF Ok, PathFailures
  <2>3. QED
    BY <1>2, <2>1, <2>2 DEF Matches
<1>4. ASSUME a.code # "ok", NEW sk, \A s \in DOMAIN P : sk[s] = 0
      PROVE  Matches(t, P, sk, a)
  <2>1. Verdict(w, P, t, o, a.slot, a.code)
    BY <1>4 DEF Remembered
  <2>2. /\ a.slot \in DOMAIN P /\ a.slot \in Nat
        /\ a.code \in {"incorrect_type", "missing_field", "index_out_of_bounds"}
    BY <2>1, VerdictSlot
  <2>3. ResolveIn(t, P[a.slot]).code = a.code
    BY <2>1, VerdictTrue
  <2>4. PICK k \in 1..NoSlot : P \in [0..(k - 1) -> Path]
    BY DEF Compiled
  <2>5. NoSlot \in Nat
    BY SlotsAre
  <2>6. ASSUME NEW s \in 0..(a.slot - 1)
        PROVE  LET r == ResolveIn(t, P[s]) IN
               \/ r.code = "ok"
               \/ /\ r.code = "index_out_of_bounds"
                  /\ \E x \in DOMAIN P : /\ ResolveIn(t, P[x]).code = "index_out_of_bounds"
                                         /\ ResolveIn(t, P[x]).at = r.at
                                         /\ ResolveIn(t, P[x]).value < r.value
    <3>1. s \in DOMAIN P /\ s < a.slot /\ s \in Nat
      BY <2>2, <2>4, <2>5
    <3>2. CASE ResolveIn(t, P[s]).code # "ok"
      <4>1. PICK code : Verdict(w, P, t, o, s, code)
        BY <3>1, <3>2, VerdictFound
      <4>2. a.slot <= s \/ Excused(w, P, t, o, s)
        BY <4>1 DEF Remembered
      <4>3. ~(a.slot <= s)
        BY <2>2, <3>1
      <4>4. Excused(w, P, t, o, s)
        BY <4>2, <4>3
      <4>5. QED
        BY <4>4, ExcusedTrue
    <3>3. QED
      BY <3>2
  <2>7. a.code # "internal_failure"
    BY <2>2
  <2>8. QED
    BY <1>4, <2>2, <2>3, <2>6, <2>7 DEF Matches
<1>5. QED
  BY <1>3, <1>4

\* The pass is over.
LEMMA ConcludedRight ==
  ASSUME NEW w, Compiled(plan, w, Paths), NEW t, tree' = t, Text(t), NEW o, ToSet(o) = {},
         NEW sl, InSlots(Paths, t, sl), NEW a, Remembered(w, Paths, t, o, a),
         Conclude(a, sl), request' = request
  PROVE  ProjectionMatchesReference' /\ satisfied' = {} /\ pending' = Ok /\ reader' = "none"
<1>1. Paths' = Paths
  BY DEF Paths
<1>2. DOMAIN sl = DOMAIN Paths /\ DOMAIN EmptySlots = DOMAIN Paths
      /\ \A s \in DOMAIN Paths : EmptySlots[s] = 0
  BY DEF InSlots, EmptySlots, Paths
<1>3. CASE a.code # "ok"
  <2>1. /\ status' = a /\ slots' = EmptySlots /\ satisfied' = {} /\ pending' = Ok
        /\ reader' = "none"
    BY <1>3 DEF Conclude, Finish, Return
  <2>2. Matches(t, Paths, EmptySlots, a)
    BY <1>2, <1>3, EndIsReference
  <2>3. (DOMAIN slots = DOMAIN Paths /\ Matches(tree, Paths, slots, status))'
    BY <1>1, <1>2, <2>1, <2>2
  <2>4. QED
    BY <2>1, <2>3, MatchesNext
<1>4. CASE a.code = "ok"
  <2>1. Matches(t, Paths, sl, Ok) /\ \A s \in DOMAIN sl : sl[s] # 0
    BY <1>4, EndIsReference
  <2>2. status' = Ok /\ slots' = sl /\ satisfied' = {} /\ pending' = Ok /\ reader' = "none"
    BY <1>4, <2>1 DEF Conclude, Finish, Return
  <2>3. (DOMAIN slots = DOMAIN Paths /\ Matches(tree, Paths, slots, status))'
    BY <1>1, <1>2, <2>1, <2>2
  <2>4. QED
    BY <2>2, <2>3, MatchesNext
<1>5. QED
  BY <1>3, <1>4

\* The part of the source that the pass has read.
SoFar == SubSeq(tree, 1, pos)

PassNow ==
  \E w : /\ Compiled(plan, w, Paths)
         /\ PassOf(plan, w, Paths, SoFar, open, marks, satisfied, slots, pending)

\* Between two passes nothing is remembered, and a pass that has begun is at
\* the place, and has met, filled and noted what the part it has read makes it.
PassInv ==
  /\ Ranked(tree)
  /\ op # "decode" /\ stage \in {"open", "ready"} => PlanReady
  /\ reader # "projection" => satisfied = {} /\ pending = Ok
  /\ reader = "projection" /\ pos = 0 => satisfied = {} /\ pending = Ok /\ slots = EmptySlots
  /\ reader = "projection" /\ pos > 0 => open # <<>> /\ PassNow
  /\ ProjectionMatchesReference

LEMMA PartOf ==
  ASSUME NEW t \in Seq(Values), InOrder(t), NEW n \in 1..Len(t)
  PROVE  LET r == SubSeq(t, 1, n) IN
         /\ Text(r) /\ r \in Seq(Values) /\ Len(r) = n /\ DOMAIN r = 1..n
         /\ \A m \in 1..n : r[m] = t[m]
<1> DEFINE r == SubSeq(t, 1, n)
<1>1. n \in 0..Len(t) /\ n \in Nat \ {0} /\ DOMAIN t = 1..Len(t) /\ Len(t) \in Nat
  OBVIOUS
<1>2. r \in Seq(Values) /\ Len(r) = n /\ \A m \in 1..n : r[m] = t[m]
  BY <1>1, PrefixShape
<1> HIDE DEF r
<1>3. DOMAIN r = 1..n /\ r # <<>>
  BY <1>1, <1>2
<1>4. \A m \in 1..n : /\ m \in DOMAIN t /\ t[m].up \in Nat /\ t[m].up < m
                      /\ (t[m].up = 0 <=> m = 1)
  BY <1>1, ValueShape DEF InOrder
<1>5. \A m \in DOMAIN r : r[m].up < m /\ (r[m].up = 0 <=> m = 1)
  BY <1>2, <1>3, <1>4
<1>6. ASSUME NEW m \in DOMAIN r, m # 1
      PROVE  r[r[m].up].kind \in Containers
  <2>1. t[m].up \in 1..n /\ r[m] = t[m] /\ m \in DOMAIN t
    BY <1>1, <1>2, <1>3, <1>4, <1>6
  <2>2. r[t[m].up] = t[t[m].up]
    BY <1>2, <2>1
  <2>3. QED
    BY <1>6, <2>1, <2>2 DEF InOrder
<1>7. ASSUME NEW m \in DOMAIN r, NEW k \in (r[m].up + 1)..(m - 1)
      PROVE  r[k].up >= r[m].up
  <2>1. r[m] = t[m] /\ m \in DOMAIN t /\ m \in 1..n
    BY <1>2, <1>3, <1>4
  <2>2. t[m].up \in Nat /\ k \in (t[m].up + 1)..(m - 1)
    BY <1>4, <1>7, <2>1
  <2>3. k \in 1..n
    BY <1>1, <2>1, <2>2
  <2>4. r[k] = t[k]
    BY <1>2, <2>3
  <2>5. QED
    BY <2>1, <2>2, <2>4 DEF InOrder
<1>8. InOrder(r)
  BY <1>5, <1>6, <1>7 DEF InOrder
<1>9. QED
  BY <1>2, <1>3, <1>8 DEF Text, r

\* The pass reads the next value of a container.
LEMMA Reading ==
  ASSUME IInv, Ranked(tree), reader = "projection", Fetch, pos # 0, open # <<>>
  PROVE  LET t == SoFar
             u == SubSeq(tree', 1, pos')
             v == Last(open)
         IN /\ Text(t) /\ Grown(t, u) /\ NewAt(t, u, v) /\ Len(u) = pos' /\ Len(t) = pos
            /\ u[Len(u)] = tree'[pos']
            /\ v \in DOMAIN t /\ t[v] = tree[v]
            /\ t[v].kind = "array" => u[Len(u)].label = Cardinality(Members(t, v))
            /\ Ranked(tree')
<1> DEFINE t == SoFar
           u == SubSeq(tree', 1, pos')
           v == Last(open)
<1>1. Placed /\ pos > 0 /\ Look /\ pos' = pos + 1 /\ (pos > 0 <=> open # <<>>) /\ SourceShape
  BY DEF IInv, Fetch, Placed, SourceShape
<1>2. /\ tree' \in Seq(Values) /\ pos + 1 \in 1..Len(tree') /\ Len(tree) <= Len(tree')
      /\ \A m \in 1..Len(tree) : tree'[m] = tree[m]
      /\ tree'[pos + 1].up = Parent /\ InOrder(tree')
  BY <1>1, Looked
<1>3. /\ tree \in Seq(Values) /\ pos \in 1..Len(tree) /\ InOrder(tree) /\ Len(tree) \in Nat
      /\ Len(tree') \in Nat /\ pos \in Nat
  BY <1>1, <1>2 DEF Placed, SourceShape
<1>4. /\ Text(t) /\ t \in Seq(Values) /\ Len(t) = pos /\ DOMAIN t = 1..pos
      /\ \A m \in 1..pos : t[m] = tree[m]
  BY <1>3, PartOf DEF SoFar
<1>5. /\ Text(u) /\ u \in Seq(Values) /\ Len(u) = pos + 1 /\ DOMAIN u = 1..(pos + 1)
      /\ \A m \in 1..(pos + 1) : u[m] = tree'[m]
  BY <1>1, <1>2, PartOf
<1> HIDE DEF t, u
<1>6. Grown(t, u)
  <2>1. \A m \in 1..pos : u[m] = t[m]
    <3> SUFFICES ASSUME NEW m \in 1..pos PROVE u[m] = t[m]
      OBVIOUS
    <3>1. m \in 1..(pos + 1) /\ m \in 1..Len(tree)
      BY <1>3
    <3>2. QED
      BY <1>2, <1>4, <1>5, <3>1
  <2>2. QED
    BY <1>4, <1>5, <2>1 DEF Grown, Text
<1>7. v \in 1..pos /\ Parent = v
  <2>1. Parent \in 0..pos /\ (Parent = 0 <=> open = <<>>) /\ Parent = v
    BY <1>1, ParentShape
  <2>2. QED
    BY <1>3, <2>1
<1> HIDE DEF v
<1>8. u[Len(u)] = tree'[pos'] /\ u[Len(u)].up = v
  BY <1>1, <1>2, <1>3, <1>5, <1>7
<1>9. v \in DOMAIN t /\ t[v] = tree[v]
  BY <1>4, <1>7
<1>10. Ranked(tree')
  BY <1>1, RankedNext
<1>11. ASSUME t[v].kind = "array"
       PROVE  u[Len(u)].label = Cardinality(Members(t, v))
  <2> DEFINE n == pos + 1
  <2>1. n \in DOMAIN tree' /\ n # 1 /\ n = pos'
    BY <1>1, <1>2, <1>3
  <2>2. tree'[n].up = v /\ tree'[v] = tree[v]
    BY <1>2, <1>3, <1>7
  <2>3. tree'[n].label = Rank(tree', n)
    BY <1>9, <1>10, <1>11, <2>1, <2>2 DEF Ranked
  <2>4. {m \in Members(tree', v) : m < n} = Members(t, v)
    <3>1. \A m : (m \in DOMAIN tree' /\ m < n) <=> m \in DOMAIN t
      BY <1>2, <1>3, <1>4
    <3>2. \A m \in DOMAIN t : tree'[m] = t[m]
      BY <1>2, <1>3, <1>4
    <3>3. QED
      BY <3>1, <3>2 DEF Members
  <2>5. QED
    BY <1>8, <2>1, <2>2, <2>3, <2>4 DEF Rank
<1>12. QED
  BY <1>1, <1>4, <1>5, <1>6, <1>8, <1>9, <1>10, <1>11 DEF NewAt, t, u, v

\* ReadNext, Met and Advance are the step of the pass.
LEMMA NextRead ==
  ASSUME IInv, PassInv, NEW c, ReadNext(c), Met(c), open # <<>>,
         NEW w, Compiled(plan, w, Paths),
         PassOf(plan, w, Paths, SoFar, open, marks, satisfied, slots, pending)
  PROVE  LET u == SubSeq(tree', 1, pos')
             next == Advance(Last(marks), c)
         IN /\ Reads(plan, SoFar, u, open, marks, satisfied, c)
            /\ MarksRead(plan, w, SoFar, u, open, marks, satisfied, c, next, satisfied')
            /\ c \in {0} \cup DOMAIN w /\ Len(u) = pos' /\ u[Len(u)] = tree'[pos']
            /\ Ranked(tree') /\ pos' > 0 /\ pos' = pos + 1
<1> DEFINE t == SoFar
           u == SubSeq(tree', 1, pos')
           v == Last(open)
           mark == Last(marks)
           label == u[Len(u)].label
           next == Advance(mark, c)
<1>1. reader = "projection" /\ Fetch /\ pos # 0 /\ Ranked(tree)
      /\ c = Selected(mark, tree'[pos'].label)
  BY DEF ReadNext, Projecting, AtRoot, PassInv
<1>2. /\ Text(t) /\ Grown(t, u) /\ NewAt(t, u, v) /\ Len(u) = pos' /\ Len(t) = pos
      /\ u[Len(u)] = tree'[pos']
      /\ v \in DOMAIN t /\ t[v] = tree[v]
      /\ t[v].kind = "array" => u[Len(u)].label = Cardinality(Members(t, v))
      /\ Ranked(tree')
  BY <1>1, Reading
<1>3. pos' > 0 /\ pos' = pos + 1
  BY <1>1 DEF Fetch, IInv, Placed, SourceShape
<1> HIDE DEF u
<1>4. InObject <=> t[v].kind = "object"
  BY <1>2 DEF InObject
<1>5. c = Chosen(plan, t, satisfied, v, mark, label)
  BY <1>1, <1>2, <1>4 DEF Selected, SelectedField, SelectedElement, Unmet, Node, Chosen
<1>6. Reads(plan, t, u, open, marks, satisfied, c)
  BY <1>2, <1>5 DEF Reads
<1>7. Step(plan, w, t, u, v, satisfied, mark, c) /\ At(plan, w, t, v, mark)
  BY <1>6, ReadIsStep
<1>8. c \in {0} \cup DOMAIN w /\ (c # 0 => mark.node # 0)
  <2>1. /\ c \in {0} \cup DOMAIN w
        /\ c # 0 => \E e : Follows(plan, w, t, satisfied, v, mark, u[Len(u)].label, e, c)
    BY <1>7, StepLed
  <2>2. QED
    BY <2>1 DEF Follows
<1>9. next = Moved(mark, t[v].kind = "object", c)
  BY <1>4 DEF Advance, Moved
<1>10. At(plan, w, u, v, next) /\ next \in MarkType
  <2> HIDE DEF next
  <2>1. QED
    BY <1>7, <1>9, AtNext
<1>11. MetAfter(plan, t, u, v, satisfied, mark, c, satisfied')
  BY <1>2, <1>4, <1>8 DEF MetAfter, Met, Node
<1>12. MarksRead(plan, w, t, u, open, marks, satisfied, c, next, satisfied')
  BY <1>10, <1>11 DEF MarksRead
<1>13. QED
  BY <1>2, <1>3, <1>6, <1>8, <1>12 DEF u

\* The slots a scalar is put into.
LEMMA Filling ==
  ASSUME NEW w, Compiled(plan, w, Paths), DOMAIN slots = DOMAIN Paths,
         NEW u, Len(u) = pos', NEW c, NEW kind, kind = u[Len(u)].kind,
         \/ (c = 0 \/ kind \in Containers) /\ slots' = slots
         \/ c # 0 /\ kind \notin Containers /\ slots' = FillSlots(Node(c))
  PROVE  SlotsFilled(plan, u, slots, c, slots')
BY DEF SlotsFilled, FillSlots, Node

\* What is noted at a value.
LEMMA Noting ==
  ASSUME NEW w, Compiled(plan, w, Paths), NEW c \in {0} \cup DOMAIN w, NEW u, Memory(pending),
         NEW kind, kind = u[Len(u)].kind,
         \/ c = 0 /\ pending' = pending
         \/ c # 0 /\ kind \in Containers /\ pending' = Enter(pending, Node(c), kind)
         \/ c # 0 /\ kind \notin Containers /\ pending' = EnterScalar(pending, Node(c))
  PROVE  FailuresNoted(w, Paths, u, c, pending, pending')
<1>1. 0 \notin DOMAIN w
  <2>1. Trie(plan, w)
    BY DEF Compiled
  <2>2. QED
    BY <2>1, TrieShape
<1>2. CASE c = 0
  BY <1>2 DEF FailuresNoted
<1>3. CASE c # 0 /\ kind \in Containers
  <2>1. c \in DOMAIN w /\ Node(c) = plan.nodes[c]
    BY <1>3 DEF Node
  <2>2. Recorded(pending', pending, "incorrect_type", Astray(w, Paths, kind, c)) /\ Memory(pending')
    BY <1>3, <2>1, EnterRecords
  <2>3. QED
    BY <1>3, <2>2 DEF FailuresNoted
<1>4. CASE c # 0 /\ kind \notin Containers
  <2>1. c \in DOMAIN w /\ Node(c) = plan.nodes[c]
    BY <1>4 DEF Node
  <2>2. Recorded(pending', pending, "incorrect_type", Astray(w, Paths, kind, c)) /\ Memory(pending')
    BY <1>4, <2>1, EnterScalarRecords
  <2>3. QED
    BY <1>4, <2>2 DEF FailuresNoted
<1>5. QED
  BY <1>2, <1>3, <1>4

\* A pass goes on.
LEMMA PassGoesOn ==
  ASSUME PassInv, UNCHANGED <<planVars, op, stage>>, reader = "projection", reader' = reader,
         pos' > 0, open' # <<>>, Ranked(tree'), NEW w, Compiled(plan, w, Paths),
         PassOf(plan, w, Paths, SubSeq(tree', 1, pos'), open', marks', satisfied', slots', pending')
  PROVE  PassInv'
<1>1. plan' = plan /\ Paths' = Paths /\ (PlanReady' <=> PlanReady)
  BY DEF planVars, Paths, PlanReady
<1>2. SoFar' = SubSeq(tree', 1, pos')
  BY DEF SoFar
<1>3. PassNow'
  BY <1>1, <1>2 DEF PassNow
<1>4. ProjectionMatchesReference'
  BY DEF ProjectionMatchesReference, Answered
<1>5. op' = op /\ stage' = stage /\ reader' = "projection" /\ ~(pos' = 0)
  <2>1. \A x : x > 0 => ~(x = 0)
    BY DEF PassInv
  <2>2. QED
    BY <2>1
<1>6. QED
  BY <1>1, <1>3, <1>4, <1>5 DEF PassInv

\* What is known inside the source.
LEMMA WithinPass ==
  ASSUME PassInv, reader = "projection", pos # 0, IInv
  PROVE  /\ open # <<>>
         /\ \E w : /\ Compiled(plan, w, Paths)
                   /\ PassOf(plan, w, Paths, SoFar, open, marks, satisfied, slots, pending)
                   /\ DOMAIN slots = DOMAIN Paths /\ Memory(pending)
<1>1. pos > 0
  BY DEF IInv, Placed, SourceShape
<1>2. open # <<>> /\ PassNow
  BY <1>1 DEF PassInv
<1>3. PICK w : /\ Compiled(plan, w, Paths)
               /\ PassOf(plan, w, Paths, SoFar, open, marks, satisfied, slots, pending)
  BY <1>2 DEF PassNow
<1>4. DOMAIN slots = DOMAIN Paths
  BY <1>3 DEF PassOf, InSlots
<1>5. Remembered(w, Paths, SoFar, open, pending)
  BY <1>3 DEF PassOf
<1>6. Memory(pending)
  BY <1>3, <1>5, RememberedMemory
<1>7. QED
  BY <1>2, <1>3, <1>4, <1>6

\* SkipScalar and MaterializeScalar.
LEMMA ScalarRead ==
  ASSUME IInv, PassInv, UNCHANGED <<planVars, op, stage>>,
         NEW c, ReadNext(c), Met(c), Continue,
         NEW kind, kind = tree'[pos'].kind, kind \notin Containers,
         open' = open, marks' = Advanced(c),
         \/ c = 0 /\ slots' = slots /\ pending' = pending
         \/ c # 0 /\ slots' = FillSlots(Node(c)) /\ pending' = EnterScalar(pending, Node(c))
  PROVE  PassInv'
<1> DEFINE u == SubSeq(tree', 1, pos')
           next == Advance(Last(marks), c)
<1>1. reader = "projection" /\ pos # 0 /\ reader' = reader
  BY DEF ReadNext, Projecting, AtRoot, Continue
<1>2. PICK w : /\ Compiled(plan, w, Paths)
               /\ PassOf(plan, w, Paths, SoFar, open, marks, satisfied, slots, pending)
               /\ DOMAIN slots = DOMAIN Paths /\ Memory(pending)
  BY <1>1, WithinPass
<1>3. open # <<>>
  BY <1>1, WithinPass
<1>4. /\ Reads(plan, SoFar, u, open, marks, satisfied, c)
      /\ MarksRead(plan, w, SoFar, u, open, marks, satisfied, c, next, satisfied')
      /\ c \in {0} \cup DOMAIN w /\ Len(u) = pos' /\ u[Len(u)] = tree'[pos']
      /\ Ranked(tree') /\ pos' > 0
  BY <1>2, <1>3, NextRead
<1> HIDE DEF u, next
<1>5. kind = u[Len(u)].kind
  BY <1>4
<1>6. SlotsFilled(plan, u, slots, c, slots')
  BY <1>2, <1>4, <1>5, Filling
<1>7. FailuresNoted(w, Paths, u, c, pending, pending')
  BY <1>2, <1>4, <1>5, Noting
<1>8. PassOf(plan, w, Paths, u, open, Append(Front(marks), next), satisfied', slots', pending')
  BY <1>2, <1>4, <1>5, <1>6, <1>7, PassOver
<1>9. marks' = Append(Front(marks), next)
  BY DEF Advanced, next
<1>10. PassOf(plan, w, Paths, u, open', marks', satisfied', slots', pending')
  BY <1>8, <1>9
<1>11. QED
  BY <1>1, <1>2, <1>3, <1>4, <1>10, PassGoesOn DEF u

\* SkipContainer and EnterContainer.
LEMMA ContainerRead ==
  ASSUME IInv, PassInv, UNCHANGED <<planVars, op, stage>>,
         NEW c, ReadNext(c), Met(c), Continue,
         NEW kind, kind = tree'[pos'].kind, kind \in Containers,
         open' = Append(open, pos'), marks' = Append(Advanced(c), Mark(c)), slots' = slots,
         \/ c = 0 /\ pending' = pending
         \/ c # 0 /\ pending' = Enter(pending, Node(c), kind)
  PROVE  PassInv'
<1> DEFINE u == SubSeq(tree', 1, pos')
           next == Advance(Last(marks), c)
           o == Append(open, Len(u))
<1>1. reader = "projection" /\ pos # 0 /\ reader' = reader
  BY DEF ReadNext, Projecting, AtRoot, Continue
<1>2. PICK w : /\ Compiled(plan, w, Paths)
               /\ PassOf(plan, w, Paths, SoFar, open, marks, satisfied, slots, pending)
               /\ DOMAIN slots = DOMAIN Paths /\ Memory(pending)
  BY <1>1, WithinPass
<1>3. open # <<>>
  BY <1>1, WithinPass
<1>4. /\ Reads(plan, SoFar, u, open, marks, satisfied, c)
      /\ MarksRead(plan, w, SoFar, u, open, marks, satisfied, c, next, satisfied')
      /\ c \in {0} \cup DOMAIN w /\ Len(u) = pos' /\ u[Len(u)] = tree'[pos']
      /\ Ranked(tree') /\ pos' > 0
  BY <1>2, <1>3, NextRead
<1> HIDE DEF u, next
<1>5. kind = u[Len(u)].kind
  BY <1>4
<1>6. SlotsFilled(plan, u, slots, c, slots')
  BY <1>2, <1>4, <1>5, Filling
<1>7. FailuresNoted(w, Paths, u, c, pending, pending')
  BY <1>2, <1>4, <1>5, Noting
<1>8. PassOf(plan, w, Paths, u, Append(open, Len(u)), Append(Append(Front(marks), next), Mark(c)),
             satisfied', slots', pending')
  BY <1>2, <1>4, <1>5, <1>6, <1>7, PassInto
<1>9. marks' = Append(Append(Front(marks), next), Mark(c)) /\ open' = Append(open, Len(u))
  BY <1>4 DEF Advanced, next
<1>10. PassOf(plan, w, Paths, u, open', marks', satisfied', slots', pending')
  BY <1>8, <1>9
<1>11. open' # <<>>
  <2>1. open \in Seq(1..pos) /\ pos' = pos + 1 /\ pos \in Nat
    BY DEF IInv, Placed, SourceShape, ReadNext, Fetch
  <2>2. open \in Seq(Nat) /\ pos' \in Nat
    BY <2>1
  <2>3. QED
    BY <2>2
<1>12. QED
  BY <1>1, <1>2, <1>4, <1>10, <1>11, PassGoesOn DEF u

\* The innermost container comes after the others.
LEMMA Innermost ==
  ASSUME NEW p, NEW w, NEW t, Text(t), NEW o, NEW m, Cursor(p, w, t, o, m), o # <<>>
  PROVE  /\ ToSet(o) = ToSet(Front(o)) \cup {Last(o)} /\ Last(o) \notin ToSet(Front(o))
         /\ Last(o) # 0
         /\ Front(o) = <<>> <=> Len(o) = 1
<1> DEFINE l == Len(o)
           q == Front(o)
           v == Last(o)
<1>1. /\ o \in Seq(DOMAIN t) /\ l \in Nat /\ DOMAIN o = 1..l
      /\ \A i, k \in DOMAIN o : i < k => o[i] < o[k]
      /\ \A i \in DOMAIN o : o[i] \in DOMAIN t
      /\ l \in DOMAIN o /\ v = o[l] /\ v \in DOMAIN t
  <2>1. o \in Seq(DOMAIN t) /\ \A i, k \in DOMAIN o : i < k => o[i] < o[k]
    BY DEF Cursor
  <2>2. /\ l \in Nat /\ DOMAIN o = 1..l /\ \A i \in DOMAIN o : o[i] \in DOMAIN t
        /\ l \in DOMAIN o /\ v = o[l] /\ v \in DOMAIN t
    BY CursorShape
  <2>3. QED
    BY <2>1, <2>2
<1>2. \A i \in DOMAIN o : o[i] \in Nat \ {0}
  BY <1>1, TextShape
<1>3. q \in Seq(DOMAIN t) /\ Len(q) = l - 1 /\ \A i \in 1..(l - 1) : q[i] = o[i]
  BY <1>1, FrontAndLast
<1>4. DOMAIN q = 1..(l - 1)
  BY <1>1, <1>3
<1>5. ToSet(o) = {o[i] : i \in DOMAIN o} /\ ToSet(q) = {q[i] : i \in DOMAIN q}
  BY DEF ToSet
<1> HIDE DEF l, q, v
<1>6. v \notin ToSet(q)
  <2> SUFFICES ASSUME NEW i \in DOMAIN q PROVE q[i] # v
    BY <1>5
  <2>1. i \in DOMAIN o /\ i < l /\ q[i] = o[i]
    BY <1>1, <1>3, <1>4
  <2>2. o[i] < o[l] /\ o[i] \in Nat /\ o[l] \in Nat
    BY <1>1, <1>2, <2>1
  <2>3. QED
    BY <1>1, <2>1, <2>2
<1>7. \A y : y \in ToSet(o) <=> y \in ToSet(q) \/ y = v
  <2> SUFFICES ASSUME NEW y PROVE y \in ToSet(o) <=> y \in ToSet(q) \/ y = v
    OBVIOUS
  <2>1. ASSUME y \in ToSet(o) PROVE y \in ToSet(q) \/ y = v
    <3>1. PICK i \in DOMAIN o : y = o[i]
      BY <1>5, <2>1
    <3>2. i = l \/ i \in 1..(l - 1)
      BY <1>1
    <3>3. CASE i = l
      BY <1>1, <3>1, <3>3
    <3>4. CASE i \in 1..(l - 1)
      BY <1>3, <1>4, <1>5, <3>1, <3>4
    <3>5. QED
      BY <3>2, <3>3, <3>4
  <2>2. ASSUME y \in ToSet(q) PROVE y \in ToSet(o)
    <3>1. PICK i \in DOMAIN q : y = q[i]
      BY <1>5, <2>2
    <3>2. i \in DOMAIN o /\ q[i] = o[i]
      BY <1>1, <1>3, <1>4
    <3>3. QED
      BY <1>5, <3>1, <3>2
  <2>3. v \in ToSet(o)
    BY <1>1, <1>5
  <2>4. QED
    BY <2>1, <2>2, <2>3
<1>8. ToSet(o) = ToSet(q) \cup {v}
  BY <1>7
<1>9. v # 0
  BY <1>1, <1>2
<1>10. q = <<>> <=> l = 1
  BY <1>1, <1>3
<1>11. QED
  BY <1>6, <1>8, <1>9, <1>10 DEF q, v, l

\* The pass leaves the innermost container.
LEMMA PassOut ==
  ASSUME NEW p, NEW w, NEW P, Compiled(p, w, P), NEW t, NEW o, NEW m, NEW met, NEW sl, NEW a,
         PassOf(p, w, P, t, o, m, met, sl, a), o # <<>>,
         NEW b, Remembered(w, P, t, Front(o), b)
  PROVE  PassOf(p, w, P, t, Front(o), Front(m), met, sl, b)
<1>1. Cursor(p, w, t, o, m)
  BY DEF PassOf
<1>2. Cursor(p, w, t, Front(o), Front(m))
  BY <1>1, CursorOut
<1>3. QED
  BY <1>2 DEF PassOf

\* What is noted when a container is left.
Left(mark) ==
  IF mark.node = 0 THEN pending
  ELSE IF InObject THEN LeaveObject(pending, Node(mark.node))
                   ELSE LeaveArray(pending, Node(mark.node), mark.wanted)

LEMMA LeftNoted ==
  ASSUME NEW w, Compiled(plan, w, Paths), NEW t, t[Last(open)] = tree[Last(open)],
         PassOf(plan, w, Paths, t, open, marks, satisfied, slots, pending), open # <<>>
  PROVE  Remembered(w, Paths, t, Front(open), Left(Last(marks)))
<1> DEFINE v == Last(open)
           mark == Last(marks)
           q == Front(open)
<1>1. /\ Text(t) /\ Cursor(plan, w, t, open, marks) /\ AreMet(plan, w, t, satisfied)
      /\ Remembered(w, Paths, t, open, pending)
  BY DEF PassOf
<1>2. v \in DOMAIN t /\ mark \in MarkType /\ At(plan, w, t, v, mark)
  BY <1>1, CursorShape
<1>3. ToSet(open) = ToSet(q) \cup {v} /\ v \notin ToSet(q) /\ v # 0
  BY <1>1, Innermost
<1>4. /\ t[v].kind \in Containers /\ Led(w, t, v, mark.node)
      /\ t[v].kind = "array" => Abreast(plan, t, v, mark)
      /\ mark.node \in {0} \cup DOMAIN w
  BY <1>2 DEF At, Led
<1>5. InObject <=> t[v].kind = "object"
  BY DEF InObject
<1> HIDE DEF v, mark, q
<1>6. CASE mark.node = 0
  <2>1. Led(w, t, v, 0)
    BY <1>4, <1>6
  <2>2. Remembered(w, Paths, t, q, pending)
    BY <1>1, <1>3, <2>1, NothingLacks
  <2>3. Left(mark) = pending
    BY <1>6 DEF Left
  <2>4. QED
    BY <2>2, <2>3 DEF mark, q
<1>7. CASE mark.node # 0 /\ t[v].kind = "object"
  <2>1. mark.node \in DOMAIN w
    BY <1>4, <1>7
  <2>2. Remembered(w, Paths, t, q, LeaveObject(pending, plan.nodes[mark.node]))
    BY <1>1, <1>3, <1>4, <1>7, <2>1, ObjectLeft
  <2>3. Left(mark) = LeaveObject(pending, plan.nodes[mark.node])
    BY <1>5, <1>7 DEF Left, Node
  <2>4. QED
    BY <2>2, <2>3 DEF mark, q
<1>8. CASE mark.node # 0 /\ t[v].kind = "array"
  <2>1. mark.node \in DOMAIN w
    BY <1>4, <1>8
  <2>2. Remembered(w, Paths, t, q, LeaveArray(pending, plan.nodes[mark.node], mark.wanted))
    BY <1>1, <1>2, <1>3, <1>4, <1>8, <2>1, ArrayLeft
  <2>3. Left(mark) = LeaveArray(pending, plan.nodes[mark.node], mark.wanted)
    BY <1>5, <1>8 DEF Left, Node
  <2>4. QED
    BY <2>2, <2>3 DEF mark, q
<1>9. QED
  BY <1>4, <1>6, <1>7, <1>8 DEF Containers

\* A pass is over, or none was there.
LEMMA PassReturns ==
  ASSUME PassInv, UNCHANGED <<planVars, op, stage>>, reader' # "projection",
         satisfied' = {}, pending' = Ok, Ranked(tree'), ProjectionMatchesReference'
  PROVE  PassInv'
<1>1. PlanReady' <=> PlanReady
  BY DEF planVars, PlanReady
<1>2. QED
  BY <1>1 DEF PassInv

\* The end of a container: where the pass is.
LEMMA AtTheEndOf ==
  ASSUME IInv, PassInv, Projecting, Exhausted
  PROVE  /\ open # <<>> /\ pos # 0 /\ SoFar[Last(open)] = tree[Last(open)] /\ 1 \in ToSet(open)
         /\ Text(SoFar)
         /\ Len(open) = 1 => pos = Len(tree) /\ SoFar = tree
<1>1. Placed /\ reader = "projection" /\ open # <<>>
  BY DEF IInv, Projecting, Exhausted
<1>2. pos \in 1..Len(tree) /\ Last(open) \in 1..pos
  BY <1>1, Beyond
<1>3. tree \in Seq(Values) /\ InOrder(tree) /\ Len(tree) \in Nat
  BY <1>1 DEF Placed, SourceShape
<1>4. /\ Text(SoFar) /\ SoFar \in Seq(Values) /\ Len(SoFar) = pos
      /\ \A m \in 1..pos : SoFar[m] = tree[m]
  BY <1>2, <1>3, PartOf DEF SoFar
<1>5. 1 \in ToSet(open)
  <2>1. 1 \in Around(tree, pos)
    <3>1. \A m \in 2..pos : tree[m].up \in Nat /\ tree[m].up # 0
      <4> SUFFICES ASSUME NEW m \in 2..pos PROVE tree[m].up \in Nat /\ tree[m].up # 0
        OBVIOUS
      <4>1. m \in DOMAIN tree /\ m # 1
        BY <1>2, <1>3
      <4>2. QED
        BY <1>3, <4>1, ValueShape DEF InOrder
    <3>2. \A m \in (1 + 1)..pos : tree[m].up >= 1
      BY <3>1
    <3>3. QED
      BY <1>2, <3>2 DEF Around
  <2>2. 1 <= Last(open)
    BY <1>2
  <2>3. QED
    BY <1>1, <2>1, <2>2 DEF Placed, Nested
<1>6. ASSUME Len(open) = 1
      PROVE  pos = Len(tree) /\ SoFar = tree
  <2>1. pos = Len(tree)
    BY <1>1, <1>6, EndReached
  <2> DEFINE t == SoFar
  <2>2. t \in Seq(Values) /\ Len(t) = Len(tree) /\ \A m \in 1..Len(tree) : t[m] = tree[m]
    BY <1>4, <2>1
  <2> HIDE DEF t
  <2>3. t = tree
    BY <1>3, <2>2
  <2>4. QED
    BY <2>1, <2>3 DEF t
<1>7. QED
  BY <1>1, <1>2, <1>4, <1>5, <1>6

\* A container inside another is left: LeaveSkipped and LeaveContainer.
LEMMA ContainerLeft ==
  ASSUME IInv, PassInv, UNCHANGED <<planVars, op, stage>>, Projecting, Exhausted, Ascend, Continue,
         marks' = Front(marks), satisfied' = satisfied, slots' = slots,
         pending' = Left(Last(marks)), Len(open) # 1
  PROVE  PassInv'
<1>1. /\ open # <<>> /\ pos # 0 /\ SoFar[Last(open)] = tree[Last(open)] /\ Text(SoFar)
  BY AtTheEndOf
<1>2. reader = "projection" /\ reader' = reader /\ tree' = tree /\ pos' = pos /\ open' = Front(open)
  BY DEF Projecting, Continue, Ascend
<1>3. PICK w : /\ Compiled(plan, w, Paths)
               /\ PassOf(plan, w, Paths, SoFar, open, marks, satisfied, slots, pending)
  BY <1>1, <1>2, WithinPass
<1>4. Remembered(w, Paths, SoFar, Front(open), Left(Last(marks)))
  BY <1>1, <1>3, LeftNoted
<1>5. PassOf(plan, w, Paths, SoFar, Front(open), Front(marks), satisfied, slots, Left(Last(marks)))
  BY <1>1, <1>3, <1>4, PassOut
<1>6. Front(open) # <<>>
  <2>1. Cursor(plan, w, SoFar, open, marks)
    BY <1>3 DEF PassOf
  <2>2. QED
    BY <1>1, <2>1, Innermost
<1>7. Ranked(tree') /\ pos' > 0
  BY <1>1, <1>2 DEF PassInv, IInv, Placed, SourceShape
<1>8. SoFar = SubSeq(tree', 1, pos')
  BY <1>2 DEF SoFar
<1>9. PassOf(plan, w, Paths, SubSeq(tree', 1, pos'), open', marks', satisfied', slots', pending')
  BY <1>2, <1>5, <1>8
<1>10. QED
  BY <1>2, <1>3, <1>6, <1>7, <1>9, PassGoesOn

\* The root is never skipped.
LEMMA RootSelected ==
  ASSUME IInv, PassInv, Projecting, Exhausted, Len(open) = 1
  PROVE  Last(marks).node # 0
<1>1. open # <<>> /\ pos # 0 /\ 1 \in ToSet(open) /\ Text(SoFar)
  BY AtTheEndOf
<1>2. reader = "projection"
  BY DEF Projecting
<1>3. PICK w : /\ Compiled(plan, w, Paths)
               /\ PassOf(plan, w, Paths, SoFar, open, marks, satisfied, slots, pending)
  BY <1>1, <1>2, WithinPass
<1>4. Trie(plan, w) /\ Cursor(plan, w, SoFar, open, marks)
  BY <1>3 DEF Compiled, PassOf
<1>5. Last(open) = 1
  <2>1. Last(open) = open[1] /\ DOMAIN open = 1..1
    BY <1>1, <1>4, CursorShape
  <2>2. QED
    BY <1>1, <2>1 DEF ToSet
<1>6. Led(w, SoFar, 1, Last(marks).node)
  BY <1>1, <1>4, <1>5, CursorShape DEF At
<1>7. 1 \in DOMAIN w /\ w[1] = <<>> /\ 0 \notin DOMAIN w
  BY <1>4, TrieShape DEF Trie
<1>8. Spot(SoFar, w[1]) = 1
  BY <1>1, <1>7, SpotRoot
<1>9. QED
  BY <1>6, <1>7, <1>8 DEF Led

\* The root is over.
LEMMA RootLeft ==
  ASSUME IInv, PassInv, UNCHANGED <<planVars, op, stage>>, Projecting, Exhausted,
         Len(open) = 1, Conclude(Left(Last(marks)), slots), tree' = tree
  PROVE  PassInv'
<1>1. /\ open # <<>> /\ pos # 0 /\ SoFar[Last(open)] = tree[Last(open)] /\ Text(SoFar)
      /\ SoFar = tree
  BY AtTheEndOf
<1>2. reader = "projection"
  BY DEF Projecting
<1>3. PICK w : /\ Compiled(plan, w, Paths)
               /\ PassOf(plan, w, Paths, SoFar, open, marks, satisfied, slots, pending)
  BY <1>1, <1>2, WithinPass
<1>4. Remembered(w, Paths, tree, Front(open), Left(Last(marks)))
  BY <1>1, <1>3, LeftNoted
<1>5. InSlots(Paths, tree, slots) /\ Cursor(plan, w, tree, open, marks)
  BY <1>1, <1>3 DEF PassOf
<1>6. ToSet(Front(open)) = {}
  <2>1. Front(open) = <<>>
    BY <1>1, <1>5, Innermost
  <2>2. QED
    BY <2>1 DEF ToSet
<1>7. request' = request /\ Text(tree)
  BY <1>1 DEF planVars
<1> DEFINE left == Left(Last(marks))
<1>8. Conclude(left, slots) /\ Remembered(w, Paths, tree, Front(open), left)
  BY <1>4
<1> HIDE DEF left
<1>9. ProjectionMatchesReference' /\ satisfied' = {} /\ pending' = Ok /\ reader' = "none"
  BY <1>3, <1>5, <1>6, <1>7, <1>8, ConcludedRight
<1>10. Ranked(tree') /\ reader' # "projection"
  BY <1>9 DEF PassInv
<1>11. QED
  BY <1>9, <1>10, PassReturns

\* The place of any reader, for Look.
LEMMA ReaderPlaced ==
  ASSUME IInv, PassInv, reader # "none"
  PROVE  Placed /\ (pos > 0 <=> open # <<>>)
<1>1. Placed /\ SourceShape
  BY DEF IInv, Placed
<1>2. pos \in Nat /\ (pos = 0 => open = <<>>)
  BY <1>1, RootIsOpen DEF SourceShape
<1>3. pos > 0 => open # <<>>
  BY DEF IInv, Flow, PassInv
<1>4. QED
  BY <1>1, <1>2, <1>3

LEMMA LookRanked ==
  ASSUME IInv, PassInv, reader # "none", Look \/ tree' = tree
  PROVE  Ranked(tree')
<1>1. Placed /\ (pos > 0 <=> open # <<>>) /\ Ranked(tree)
  BY ReaderPlaced DEF PassInv
<1>2. QED
  BY <1>1, RankedNext

\* A projection that fails for another reason than its paths.
LEMMA FailedRight ==
  ASSUME IInv, PassInv, UNCHANGED <<planVars, op, stage>>, reader = "projection",
         Look \/ tree' = tree, NEW code, NEW slot, FailProjection(code, slot),
         code \in {"malformed", "number_out_of_range", "cancelled"}
  PROVE  PassInv'
<1>1. Ranked(tree')
  BY LookRanked
<1>2. /\ reader' = "none" /\ satisfied' = {} /\ pending' = Ok /\ slots' = EmptySlots
      /\ status' = [code |-> code, slot |-> slot]
  BY DEF FailProjection, Finish, Return
<1>3. Paths' = Paths
  BY DEF Paths, planVars
<1>4. DOMAIN EmptySlots = DOMAIN Paths /\ \A s \in DOMAIN Paths : EmptySlots[s] = 0
  BY DEF EmptySlots, Paths
<1>5. \A t : Matches(t, Paths, EmptySlots, [code |-> code, slot |-> slot])
  BY <1>4 DEF Matches, PathFailures
<1>6. (DOMAIN slots = DOMAIN Paths /\ Matches(tree, Paths, slots, status))'
  BY <1>2, <1>3, <1>4, <1>5
<1>7. ProjectionMatchesReference'
  BY <1>6, MatchesNext
<1>8. QED
  BY <1>1, <1>2, <1>7, PassReturns

LEMMA PassCancelled ==
  ASSUME IInv, PassInv, UNCHANGED <<planVars, op, stage>>, CancelProjection
  PROVE  PassInv'
<1>1. reader = "projection" /\ FailProjection("cancelled", NoSlot) /\ tree' = tree
  BY DEF CancelProjection, Projecting
<1>2. QED
  BY <1>1, FailedRight

LEMMA PassRejectValue ==
  ASSUME IInv, PassInv, UNCHANGED <<planVars, op, stage>>, NEW c, RejectValue(c)
  PROVE  PassInv'
<1>1. reader = "projection" /\ Look
  BY DEF RejectValue, ReadNext, Projecting, Fetch
<1>2. \E code \in {"malformed", "number_out_of_range", "cancelled"} :
        \E slot : FailProjection(code, slot)
  <2> DEFINE kind == tree'[pos'].kind
  <2>1. CASE kind = "torn" /\ FailProjection(ProjectionCode(Error(kind)), NoSlot)
    <3>1. ProjectionCode(Error(kind)) = "malformed"
      BY <2>1 DEF ProjectionCode, Error
    <3>2. QED
      BY <2>1, <3>1
  <2>2. CASE FailProjection(ProjectionCode("DEPTH_ERROR"), NoSlot)
    <3>1. ProjectionCode("DEPTH_ERROR") = "malformed"
      BY DEF ProjectionCode
    <3>2. QED
      BY <2>2, <3>1
  <2>3. CASE /\ kind \in Leaves /\ ScalarStatus(kind) # "ok"
             /\ \E slot : FailProjection(ScalarStatus(kind), slot)
    <3>1. ScalarStatus(kind) \in {"malformed", "number_out_of_range", "cancelled"}
      BY <2>3, ScalarStatuses
    <3>2. QED
      BY <2>3, <3>1
  <2>4. QED
    BY <2>1, <2>2, <2>3 DEF RejectValue
<1>3. PICK code \in {"malformed", "number_out_of_range", "cancelled"} :
        \E slot : FailProjection(code, slot)
  BY <1>2
<1>4. PICK slot : FailProjection(code, slot)
  BY <1>3
<1>5. QED
  BY <1>1, <1>4, FailedRight

\* The root: the pass begins, or ends with it.
LEMMA PassRoot ==
  ASSUME IInv, PassInv, PlanInv, reader = "projection", pos = 0, Fetch
  PROVE  /\ open = <<>> /\ pending = Ok /\ satisfied = {} /\ slots = EmptySlots
         /\ pos' = 1 /\ Ranked(tree') /\ tree' \in Seq(Values) /\ InOrder(tree')
         /\ 1 \in 1..Len(tree') /\ Look /\ Memory(Ok)
         /\ \E w : Compiled(plan, w, Paths)
<1>1. stage = "ready" /\ op # "decode"
  BY DEF IInv, Flow
<1>2. \E w : Compiled(plan, w, Paths)
  BY <1>1, PlanCompiled DEF PassInv
<1>3. Placed /\ (pos > 0 <=> open # <<>>)
  BY ReaderPlaced
<1>4. Look /\ pos' = 1
  BY DEF Fetch
<1>5. Ranked(tree')
  BY <1>4, LookRanked
<1>6. tree' \in Seq(Values) /\ pos + 1 \in 1..Len(tree') /\ InOrder(tree')
  BY <1>3, <1>4, Looked
<1>7. open = <<>> /\ pending = Ok /\ satisfied = {} /\ slots = EmptySlots
  BY <1>3 DEF PassInv
<1>8. QED
  BY <1>2, <1>4, <1>5, <1>6, <1>7 DEF Memory, Ok

LEMMA PassEnterRoot ==
  ASSUME IInv, PassInv, PlanInv, UNCHANGED <<planVars, op, stage>>, NEW isRow \in BOOLEAN,
         EnterRoot(isRow)
  PROVE  PassInv'
<1> DEFINE kind == tree'[pos'].kind
           u == SubSeq(tree', 1, pos')
<1>1. reader = "projection" /\ pos = 0 /\ Fetch /\ kind \in Containers
  BY DEF EnterRoot, Projecting, AtRoot
<1>2. /\ open = <<>> /\ pending = Ok /\ satisfied = {} /\ slots = EmptySlots
      /\ pos' = 1 /\ Ranked(tree') /\ tree' \in Seq(Values) /\ InOrder(tree')
      /\ 1 \in 1..Len(tree') /\ Look /\ Memory(Ok)
  BY <1>1, PassRoot
<1>3. PICK w : Compiled(plan, w, Paths)
  BY <1>1, PassRoot
<1>4. Text(u) /\ Len(u) = 1 /\ u[1].kind = kind
  BY <1>2, PartOf
<1> HIDE DEF u
<1>5. CASE FailProjection(ProjectionCode("INCOMPLETE_ARRAY_OR_OBJECT"), NoSlot)
  <2>1. ProjectionCode("INCOMPLETE_ARRAY_OR_OBJECT") = "malformed"
    BY DEF ProjectionCode
  <2>2. QED
    BY <1>1, <1>2, <1>5, <2>1, FailedRight
<1>6. CASE /\ Descend /\ Continue /\ marks' = <<Mark(1)>>
           /\ pending' = Enter(pending, plan.nodes[1], kind) /\ UNCHANGED <<satisfied, slots>>
  <2> DEFINE b == Enter(Ok, plan.nodes[1], kind)
             n == 1
  <2>1. 1 \in DOMAIN w
    <3>1. Trie(plan, w)
      BY <1>3 DEF Compiled
    <3>2. QED
      BY <3>1, TrieShape
  <2>2. Recorded(b, Ok, "incorrect_type", Astray(w, Paths, kind, 1))
    <3>1. n \in DOMAIN w
      BY <2>1
    <3> HIDE DEF n
    <3>2. Recorded(Enter(Ok, plan.nodes[n], kind), Ok, "incorrect_type", Astray(w, Paths, kind, n))
      BY <1>1, <1>2, <1>3, <3>1, EnterRecords
    <3>3. QED
      BY <3>2 DEF n
  <2> HIDE DEF b
  <2>3. PassOf(plan, w, Paths, u, <<1>>, <<Mark(1)>>, {}, [s \in DOMAIN Paths |-> 0], b)
    BY <1>1, <1>3, <1>4, <2>2, PassBegun
  <2>4. EmptySlots = [s \in DOMAIN Paths |-> 0]
    BY DEF EmptySlots, Paths
  <2>5. /\ open' = <<1>> /\ marks' = <<Mark(1)>> /\ satisfied' = {} /\ slots' = EmptySlots
        /\ pending' = b /\ reader' = reader /\ open' # <<>>
    BY <1>2, <1>6 DEF Descend, Continue, b
  <2>6. PassOf(plan, w, Paths, u, open', marks', satisfied', slots', pending')
    BY <2>3, <2>4, <2>5
  <2>7. pos' > 0
    BY <1>2
  <2>8. QED
    BY <1>1, <1>2, <1>3, <2>5, <2>6, <2>7, PassGoesOn DEF u
<1>7. QED
  BY <1>5, <1>6 DEF EnterRoot

LEMMA PassRootScalar ==
  ASSUME IInv, PassInv, PlanInv, UNCHANGED <<planVars, op, stage>>, NEW isRow \in BOOLEAN,
         ConsumeRootScalar(isRow)
  PROVE  PassInv'
<1> DEFINE kind == tree'[pos'].kind
<1>1. reader = "projection" /\ pos = 0 /\ Fetch /\ kind \in Leaves
  BY DEF ConsumeRootScalar, Projecting, AtRoot
<1>2. /\ open = <<>> /\ pending = Ok /\ satisfied = {} /\ slots = EmptySlots
      /\ pos' = 1 /\ Ranked(tree') /\ tree' \in Seq(Values) /\ InOrder(tree')
      /\ 1 \in 1..Len(tree') /\ Look /\ Memory(Ok)
  BY <1>1, PassRoot
<1>3. PICK w : Compiled(plan, w, Paths)
  BY <1>1, PassRoot
<1>4. CASE FailProjection(ProjectionCode("TRAILING_CONTENT"), NoSlot)
  <2>1. ProjectionCode("TRAILING_CONTENT") = "malformed"
    BY DEF ProjectionCode
  <2>2. QED
    BY <1>1, <1>2, <1>4, <2>1, FailedRight
<1>5. CASE ScalarStatus(kind) # "ok" /\ FailProjection(ScalarStatus(kind), NoSlot)
  <2>1. ScalarStatus(kind) \in {"malformed", "number_out_of_range", "cancelled"}
    BY <1>1, <1>5, ScalarStatuses
  <2>2. QED
    BY <1>1, <1>2, <1>5, <2>1, FailedRight
<1>6. CASE Conclude(EnterScalar(pending, plan.nodes[1]), slots)
  <2> DEFINE b == EnterScalar(Ok, plan.nodes[1])
             t == tree'
             o == <<>>
             n == 1
  <2>1. Trie(plan, w) /\ kind \notin Containers
    BY <1>1, <1>3, ScalarStatuses DEF Compiled
  <2>2. 1 \in DOMAIN w
    BY <2>1, TrieShape
  <2>3. t \in Seq(Values) /\ Len(t) = 1 /\ t[1].kind = kind /\ InOrder(t) /\ t # <<>>
    <3>1. Placed /\ tree'[1].kind \notin Containers
      BY <1>2, <2>1 DEF IInv
    <3>2. Len(tree') = 1 /\ tree' # <<>>
      BY <1>1, <1>2, <3>1, RootAlone
    <3>3. QED
      BY <1>2, <3>2
  <2>4. Recorded(b, Ok, "incorrect_type", Astray(w, Paths, kind, 1))
    <3>1. n \in DOMAIN w
      BY <2>2
    <3> HIDE DEF n
    <3>2. Recorded(EnterScalar(Ok, plan.nodes[n]), Ok, "incorrect_type", Astray(w, Paths, kind, n))
      BY <1>2, <1>3, <2>1, <3>1, EnterScalarRecords
    <3>3. QED
      BY <3>2 DEF n
  <2> HIDE DEF t
  <2>5. Text(t)
    BY <2>3 DEF Text
  <2>6. Remembered(w, Paths, t, o, b)
    <3> HIDE DEF b, o
    <3>1. QED
      BY <1>3, <2>1, <2>3, <2>4, <2>5, RootRemembered
  <2>7. InSlots(Paths, t, slots)
    <3>1. InSlots(Paths, t, [s \in DOMAIN Paths |-> 0])
      BY <1>3, <2>3, <2>5, RootLed
    <3>2. EmptySlots = [s \in DOMAIN Paths |-> 0]
      BY DEF EmptySlots, Paths
    <3>3. QED
      BY <1>2, <3>1, <3>2
  <2>8. ToSet(o) = {}
    BY DEF ToSet
  <2>9. Conclude(b, slots) /\ request' = request /\ tree' = t
    BY <1>2, <1>6 DEF planVars, t
  <2> HIDE DEF b, o
  <2>10. ProjectionMatchesReference' /\ satisfied' = {} /\ pending' = Ok /\ reader' = "none"
    BY <1>3, <2>5, <2>6, <2>7, <2>8, <2>9, ConcludedRight
  <2>11. reader' # "projection"
    BY <2>10
  <2>12. QED
    BY <1>2, <2>10, <2>11, PassReturns
<1>7. QED
  BY <1>2, <1>4, <1>5, <1>6 DEF ConsumeRootScalar

LEMMA PassProject == IInv /\ PassInv /\ PlanInv /\ Project => PassInv'
<1> SUFFICES ASSUME IInv, PassInv, PlanInv, Project
             PROVE  PassInv'
  OBVIOUS
<1>1. UNCHANGED <<planVars, op, stage>>
  BY DEF Project
<1>2. CASE CancelProjection
  BY <1>1, <1>2, PassCancelled
<1> DEFINE isRow == op \in Rows
<1>0. isRow \in BOOLEAN
  OBVIOUS
<1> HIDE DEF isRow
<1>3. CASE EnterRoot(isRow)
  BY <1>0, <1>1, <1>3, PassEnterRoot
<1>4. CASE ConsumeRootScalar(isRow)
  BY <1>0, <1>1, <1>4, PassRootScalar
<1>5. ASSUME NEW c, ReadNext(c)
      PROVE  open # <<>> /\ reader = "projection" /\ pos # 0
  <2>1. reader = "projection" /\ pos # 0
    BY <1>5 DEF ReadNext, Projecting, AtRoot
  <2>2. QED
    BY <2>1, WithinPass
<1>6. CASE SkipContainer
  <2>1. /\ ReadNext(0) /\ Met(0) /\ Continue /\ tree'[pos'].kind \in Containers
        /\ open' = Append(open, pos') /\ marks' = Append(Advanced(0), Mark(0)) /\ slots' = slots
        /\ pending' = pending
    BY <1>6 DEF SkipContainer, Met, Descend
  <2>2. QED
    BY <1>1, <2>1, ContainerRead
<1>7. CASE SkipScalar
  <2>1. /\ ReadNext(0) /\ Met(0) /\ Continue /\ tree'[pos'].kind \in Leaves
        /\ open' = open /\ marks' = Advanced(0) /\ slots' = slots /\ pending' = pending
    BY <1>7 DEF SkipScalar, Met
  <2>2. tree'[pos'].kind \notin Containers
    BY <2>1, ScalarStatuses
  <2>3. QED
    BY <1>1, <2>1, <2>2, ScalarRead
<1>8. CASE LeaveSkipped
  <2>1. /\ Projecting /\ Exhausted /\ Ascend /\ Continue /\ marks' = Front(marks)
        /\ satisfied' = satisfied /\ slots' = slots /\ pending' = pending /\ Last(marks).node = 0
    BY <1>8 DEF LeaveSkipped
  <2>2. Len(open) # 1
    BY <2>1, RootSelected
  <2>3. pending' = Left(Last(marks))
    BY <2>1 DEF Left
  <2>4. QED
    BY <1>1, <2>1, <2>2, <2>3, ContainerLeft
<1>9. ASSUME NEW n \in DOMAIN plan.nodes, EnterContainer(n)
      PROVE  PassInv'
  <2>1. /\ n # 0 /\ ReadNext(n) /\ Met(n) /\ Continue /\ tree'[pos'].kind \in Containers
        /\ open' = Append(open, pos') /\ marks' = Append(Advanced(n), Mark(n)) /\ slots' = slots
        /\ pending' = Enter(pending, Node(n), tree'[pos'].kind)
    BY <1>9 DEF EnterContainer, Descend
  <2>2. QED
    BY <1>1, <2>1, ContainerRead
<1>10. ASSUME NEW n \in DOMAIN plan.nodes, MaterializeScalar(n)
       PROVE  PassInv'
  <2>1. /\ n # 0 /\ ReadNext(n) /\ Met(n) /\ Continue /\ tree'[pos'].kind \in Leaves
        /\ open' = open /\ marks' = Advanced(n) /\ slots' = FillSlots(Node(n))
        /\ pending' = EnterScalar(pending, Node(n))
    BY <1>10 DEF MaterializeScalar
  <2>2. tree'[pos'].kind \notin Containers
    BY <2>1, ScalarStatuses
  <2>3. QED
    BY <1>1, <2>1, <2>2, ScalarRead
<1>11. ASSUME NEW n \in {0} \cup DOMAIN plan.nodes, RejectValue(n)
       PROVE  PassInv'
  BY <1>1, <1>11, PassRejectValue
<1>12. CASE LeaveContainer
  <2> DEFINE mark == Last(marks)
             left == IF InObject THEN LeaveObject(pending, Node(mark.node))
                                 ELSE LeaveArray(pending, Node(mark.node), mark.wanted)
  <2>1. Projecting /\ Exhausted /\ mark.node # 0
    BY <1>12 DEF LeaveContainer
  <2>2. left = Left(mark)
    BY <2>1 DEF Left
  <2>3. CASE Len(open) = 1
    <3>1. Conclude(left, slots) /\ tree' = tree
      BY <1>12, <2>3 DEF LeaveContainer
    <3>2. Conclude(Left(Last(marks)), slots)
      BY <2>2, <3>1
    <3>3. QED
      BY <1>1, <2>1, <2>3, <3>1, <3>2, RootLeft
  <2>4. CASE Len(open) # 1
    <3>1. /\ Ascend /\ Continue /\ marks' = Front(marks) /\ pending' = left
          /\ satisfied' = satisfied /\ slots' = slots
      BY <1>12, <2>4 DEF LeaveContainer
    <3>2. QED
      BY <1>1, <2>1, <2>2, <2>4, <3>1, ContainerLeft
  <2>5. QED
    BY <2>3, <2>4
<1>13. QED
  BY <1>2, <1>3, <1>4, <1>6, <1>7, <1>8, <1>9, <1>10, <1>11, <1>12
     DEF Project, ProjectionStep, isRow

\* Outside the projection nothing of it changes.
LEMMA PassElsewhere ==
  ASSUME PassInv, reader # "projection", reader' # "projection", op' = op,
         satisfied' = satisfied, pending' = pending, Ranked(tree'),
         op # "decode" /\ stage' \in {"open", "ready"} => PlanReady',
         ProjectionMatchesReference'
  PROVE  PassInv'
BY DEF PassInv

\* The initial states, and then the steps one by one.
LEMMA PassInit == Init => PassInv
<1> SUFFICES ASSUME Init PROVE PassInv
  OBVIOUS
<1>1. /\ tree = <<>> /\ reader = "none" /\ satisfied = {} /\ pending = Ok /\ calls = 0
      /\ op # "decode" => stage = "plan"
  BY DEF Init, SourceInit, ProjectionInit
<1>2. Ranked(tree)
  BY <1>1 DEF Ranked
<1>3. ProjectionMatchesReference
  BY <1>1 DEF ProjectionMatchesReference, Answered
<1>4. QED
  BY <1>1, <1>2, <1>3 DEF PassInv

LEMMA PassMakePlan == IInv /\ PassInv /\ MakePlan => PassInv'
<1> SUFFICES ASSUME IInv, PassInv, MakePlan PROVE PassInv'
  OBVIOUS
<1>1. /\ stage = "plan" /\ tree' = tree /\ reader' = reader /\ op' = op
      /\ satisfied' = satisfied /\ pending' = pending
      /\ stage' \in {"plan", "open", "over"}
      /\ stage' = "open" => PlanReady /\ UNCHANGED planVars
  BY DEF MakePlan, source, engineVars, projectionVars
<1>2. reader = "none"
  BY <1>1 DEF IInv, Flow
<1>3. ProjectionMatchesReference'
  BY <1>1 DEF ProjectionMatchesReference, Answered
<1>4. stage' \in {"open", "ready"} => PlanReady'
  BY <1>1 DEF PlanReady, planVars
<1>5. Ranked(tree')
  BY <1>1 DEF PassInv
<1>6. QED
  BY <1>1, <1>2, <1>3, <1>4, <1>5, PassElsewhere

LEMMA PassOpenDocument == IInv /\ PassInv /\ OpenDocument => PassInv'
<1> SUFFICES ASSUME IInv, PassInv, OpenDocument PROVE PassInv'
  OBVIOUS
<1>1. /\ stage = "open" /\ reader = "none" /\ tree' = tree /\ op' = op /\ calls' = calls
      /\ satisfied' = satisfied /\ pending' = pending /\ UNCHANGED planVars
      /\ reader' \in {"none", "validation"}
  BY DEF OpenDocument, source, engineVars, projectionVars
<1>2. calls = 0
  BY <1>1 DEF IInv, Flow
<1>3. ProjectionMatchesReference'
  BY <1>1, <1>2 DEF ProjectionMatchesReference, Answered
<1>4. op # "decode" => PlanReady'
  BY <1>1 DEF PassInv, PlanReady, planVars
<1>5. Ranked(tree')
  BY <1>1 DEF PassInv
<1>6. QED
  BY <1>1, <1>3, <1>4, <1>5, PassElsewhere

\* The validation.
LEMMA PassValidation ==
  IInv /\ PassInv /\ (ValidateRoot \/ ValidateValue \/ ValidateEnd) => PassInv'
<1> SUFFICES ASSUME IInv, PassInv, ValidateRoot \/ ValidateValue \/ ValidateEnd PROVE PassInv'
  OBVIOUS
<1>1. Validating /\ (Look \/ tree' = tree) /\ reader' \in {"none", "validation"}
  BY DEF ValidateRoot, ValidateValue, ValidateEnd, Validating, Fetch, Ascend, Invalid, Fail, Return,
         Publish, Continue
<1>2. /\ reader = "validation" /\ op' = op /\ calls' = calls
      /\ satisfied' = satisfied /\ pending' = pending /\ UNCHANGED planVars
  BY <1>1 DEF Validating, engineVars, projectionVars
<1>3. calls = 0 /\ stage = "open"
  BY <1>2 DEF IInv, Flow
<1>4. ProjectionMatchesReference'
  BY <1>2, <1>3 DEF ProjectionMatchesReference, Answered
<1>5. op # "decode" => PlanReady'
  BY <1>2, <1>3 DEF PassInv, PlanReady, planVars
<1>6. Ranked(tree')
  BY <1>1, <1>2, LookRanked
<1>7. QED
  BY <1>1, <1>2, <1>4, <1>5, <1>6, PassElsewhere

LEMMA PassCall == IInv /\ PassInv /\ Call => PassInv'
<1> SUFFICES ASSUME IInv, PassInv, Call PROVE PassInv'
  OBVIOUS
<1>1. /\ stage = "ready" /\ reader = "none" /\ UNCHANGED <<planVars, op, stage>>
      /\ op \in Operations
  BY DEF Call, IInv, Flow
<1>2. satisfied = {} /\ pending = Ok /\ Ranked(tree)
  BY <1>1 DEF PassInv
<1>3. PlanReady' <=> PlanReady
  BY <1>1 DEF PlanReady, planVars
<1>4. /\ pos = 0 \/ claimed \/ consumed \/ (op \in Rows /\ calls > 0)
      /\ claimed => op \in {"select", "binary"}
      /\ consumed => op = "decode"
  BY <1>1 DEF IInv, Flow
<1>5. CASE op = "decode"
  <2>1. UNCHANGED projectionVars /\ (CreateMaterializer \/ ExecuteDecode)
    BY <1>5 DEF Call, Rows
  <2>2. tree' = tree /\ satisfied' = satisfied /\ pending' = pending
        /\ reader' \in {"none", "materializer"}
    BY <1>1, <2>1 DEF CreateMaterializer, ExecuteDecode, FailDecode, Fail, Return,
                      projectionVars, source
  <2>3. ProjectionMatchesReference'
    BY <1>1, <1>5 DEF ProjectionMatchesReference
  <2>4. Ranked(tree')
    BY <1>2, <2>2
  <2>5. QED
    BY <1>1, <1>5, <2>2, <2>3, <2>4, PassElsewhere
<1>6. CASE op # "decode"
  <2>1. \/ op \in {"select", "binary"} /\ Execute
        \/ op \in Rows /\ calls = 0 /\ ExecuteValue
    <3>1. op \in Rows /\ calls < Executions => calls = 0
      BY DEF IInv, Flow, Executions, Rows
    <3>2. calls < Executions
      BY Zenon DEF Call
    <3>3. QED
      BY <1>6, <3>1, <3>2, Zenon DEF Call
  <2>2. /\ slots' = EmptySlots /\ tree' = tree /\ pos' = pos
        /\ satisfied' = satisfied /\ pending' = pending
        /\ \/ /\ reader' = reader
              /\ \E code \in {"cancelled", "out_of_memory", "cursor_consumed"} :
                   status' = [code |-> code, slot |-> NoSlot]
           \/ reader' = "projection" /\ pos = 0
    <3>1. CASE op \in {"select", "binary"} /\ Execute
      BY <1>4, <3>1 DEF Execute, source, Unclaimed, Rows
    <3>2. CASE op \in Rows /\ calls = 0 /\ ExecuteValue
      BY <1>4, <3>2 DEF ExecuteValue, source, Rows
    <3>3. QED
      BY <2>1, <3>1, <3>2
  <2>3. Ranked(tree')
    BY <1>2, <2>2
  <2>4. CASE reader' = "projection" /\ pos = 0
    <3>1. ProjectionMatchesReference'
      BY <2>4 DEF ProjectionMatchesReference, Answered
    <3>2. EmptySlots' = EmptySlots /\ ~(pos' > 0)
      BY <1>1, <2>2, <2>4 DEF EmptySlots, planVars
    <3>3. op # "decode" /\ stage \in {"open", "ready"} => PlanReady
      BY DEF PassInv
    <3>4. QED
      BY <1>1, <1>2, <1>3, <2>2, <2>3, <2>4, <3>1, <3>2, <3>3 DEF PassInv
  <2>5. CASE reader' = reader /\ \E code \in {"cancelled", "out_of_memory", "cursor_consumed"} :
                                   status' = [code |-> code, slot |-> NoSlot]
    <3>1. PICK code \in {"cancelled", "out_of_memory", "cursor_consumed"} :
            status' = [code |-> code, slot |-> NoSlot]
      BY <2>5
    <3>2. Paths' = Paths /\ DOMAIN EmptySlots = DOMAIN Paths
          /\ \A s \in DOMAIN Paths : EmptySlots[s] = 0
      BY <1>1 DEF Paths, EmptySlots, planVars
    <3>3. \A t : Matches(t, Paths, EmptySlots, [code |-> code, slot |-> NoSlot])
      BY <3>2 DEF Matches, PathFailures
    <3>4. (DOMAIN slots = DOMAIN Paths /\ Matches(tree, Paths, slots, status))'
      BY <2>2, <3>1, <3>2, <3>3
    <3>5. ProjectionMatchesReference'
      BY <3>4, MatchesNext
    <3>6. op # "decode" => PlanReady'
      BY <1>1, <1>3 DEF PassInv
    <3>7. QED
      BY <1>1, <2>2, <2>3, <2>5, <3>5, <3>6, PassElsewhere
  <2>6. QED
    BY <2>2, <2>4, <2>5
<1>7. QED
  BY <1>5, <1>6

LEMMA PassDecode == IInv /\ PassInv /\ Decode => PassInv'
<1> SUFFICES ASSUME IInv, PassInv, Decode PROVE PassInv'
  OBVIOUS
<1>1. /\ reader = "materializer" /\ UNCHANGED <<planVars, op, stage>>
      /\ satisfied' = satisfied /\ pending' = pending
  BY DEF Decode, DecodeStep, OpenRoot, ReadChild, FinalizeFrame, InterruptDecode, Decoding,
         projectionVars
<1>2. op = "decode"
  BY <1>1 DEF IInv, Flow
<1>3. IInv'
  BY StepDecode
<1>4. reader' # "projection"
  BY <1>1, <1>2, <1>3 DEF IInv, Flow
<1>5. Look \/ tree' = tree
  BY DEF Decode, DecodeStep, OpenRoot, ReadChild, FinalizeFrame, InterruptDecode, Fetch, Ascend
<1>6. Ranked(tree')
  BY <1>1, <1>5, LookRanked
<1>7. ProjectionMatchesReference'
  BY <1>1, <1>2 DEF ProjectionMatchesReference
<1>8. QED
  BY <1>1, <1>2, <1>4, <1>6, <1>7, PassElsewhere

LEMMA PassStutter == PassInv /\ UNCHANGED vars => PassInv'
<1> SUFFICES ASSUME PassInv, UNCHANGED vars PROVE PassInv'
  OBVIOUS
<1>1. /\ UNCHANGED <<tree, pos, open, reader, status, request, planned, plan, op, stage, calls>>
      /\ UNCHANGED <<marks, satisfied, slots, pending>>
  BY DEF vars, sourceVars, source, planVars, projectionVars
<1>2. Paths' = Paths /\ SoFar' = SoFar /\ EmptySlots' = EmptySlots /\ (PlanReady' <=> PlanReady)
  BY <1>1 DEF Paths, SoFar, EmptySlots, PlanReady
<1>3. PassNow' <=> PassNow
  BY <1>1, <1>2 DEF PassNow
<1>4. ProjectionMatchesReference'
  <2>1. \A s : ResolveSlot(s)' = ResolveSlot(s)
    <3>1. \A path : Resolve(path)' = Resolve(path)
      <4>1. ASSUME NEW path PROVE Resolve(path)' = Resolve(path)
        <5>1. Resolve(path)' = ResolveIn(tree', path)
          BY ResolveNext
        <5>2. QED
          BY <1>1, <5>1, ResolveIs
      <4>2. QED
        BY <4>1
    <3>2. \A s : PathOf(request, s)' = PathOf(request, s)
      BY <1>1 DEF PathOf
    <3>3. QED
      BY <3>1, <3>2 DEF ResolveSlot
  <2>2. QED
    BY <1>1, <2>1 DEF PassInv, ProjectionMatchesReference, Answered, LeastSlotReported
<1>5. QED
  BY <1>1, <1>2, <1>3, <1>4 DEF PassInv

\* Every step.
LEMMA PassNext == IInv /\ PassInv /\ PlanInv /\ [Next]_vars => PassInv'
BY PassMakePlan, PassOpenDocument, PassValidation, PassCall, PassProject, PassDecode, PassStutter
   DEF Next, Over

LEMMA PassAlways == Spec => []PassInv
BY Invariant, PlanInvAlways, PassInit, PassNext, PTL DEF Spec

(***************************************************************************)
(* In every state of the specification, of any source, any request and any *)
(* sequence of calls, what the single pass of                              *)
(* simd_json_projection.cpp answers is what following each path on its own *)
(* finds: on success every slot holds the value its path leads to, the     *)
(* first of the members that have a repeated key; a failure names a slot   *)
(* whose path fails with that code, and no lower slot fails save one whose *)
(* index is beyond a lower one that is out of the same array's bounds; a   *)
(* failed call leaves no slot filled.                                      *)
(***************************************************************************)
THEOREM TheProjectionIsTheReference == Spec => []ProjectionMatchesReference
<1>1. PassInv => ProjectionMatchesReference
  BY DEF PassInv
<1>2. QED
  BY <1>1, PassAlways, PTL
=============================================================================
