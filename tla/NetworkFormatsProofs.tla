----------------------- MODULE NetworkFormatsProofs ------------------------
(***************************************************************************)
(* Proofs about NetworkFormats, for any files and any network that is      *)
(* written, as NetworkAssumption describes them.                           *)
(***************************************************************************)
EXTENDS NetworkFormats, ListTheorems

-----------------------------------------------------------------------------
\* One more entry in a map keeps what was there.
LEMMA MapGrows ==
  ASSUME NEW m, NEW a, NEW b
  PROVE  /\ DOMAIN Emplaced(m, a, b) = DOMAIN m \cup {a}
         /\ \A x \in DOMAIN m : Emplaced(m, a, b)[x] = m[x]
         /\ a \notin DOMAIN m => Emplaced(m, a, b)[a] = b
BY DEF Emplaced

LEMMA PairIs ==
  ASSUME NEW a, NEW b
  PROVE  IsList(<< a, b >>) /\ Len(<< a, b >>) = 2 /\ << a, b >> = [k \in 1..2 |-> IF k = 1 THEN a ELSE b]
<1>1. << a, b >> \in Seq({a, b})
  OBVIOUS
<1>2. ToSet(<< a, b >>) = {a, b}
  BY DEF ToSet
<1> QED
  BY <1>1, <1>2 DEF IsList

LEMMA ListIs ==
  ASSUME NEW s, IsList(s)
  PROVE  /\ Len(s) \in Nat /\ DOMAIN s = 1..Len(s) /\ s = [i \in 1..Len(s) |-> s[i]]
         /\ s # << >> => Len(s) >= 1
<1>1. s \in Seq(ToSet(s))
  BY DEF IsList
<1> QED
  BY <1>1, LenProperties, EmptySeq

LEMMA ListOf ==
  ASSUME NEW S, NEW s \in Seq(S)
  PROVE  IsList(s)
<1>1. s \in [1..Len(s) -> S] /\ Len(s) \in Nat /\ DOMAIN s = 1..Len(s)
  BY LenProperties
<1>2. \A i \in 1..Len(s) : s[i] \in ToSet(s)
  BY <1>1 DEF ToSet
<1> HIDE DEF ToSet
<1>3. s \in [1..Len(s) -> ToSet(s)]
  BY <1>1, <1>2
<1> QED
  BY <1>1, <1>3, SeqDef DEF IsList

LEMMA ListGrows ==
  ASSUME NEW s, IsList(s), NEW x
  PROVE  /\ IsList(Append(s, x)) /\ Len(Append(s, x)) = Len(s) + 1 /\ DOMAIN Append(s, x) = 1..Len(s) + 1
         /\ Append(s, x)[Len(s) + 1] = x /\ \A i \in 1..Len(s) : Append(s, x)[i] = s[i]
<1> DEFINE S == ToSet(s) \cup {x}
           t == Append(s, x)
<1>1. s \in Seq(ToSet(s)) /\ ToSet(s) \in SUBSET S /\ x \in S
  BY DEF IsList
<1> HIDE DEF S
<1>2. s \in Seq(S)
  BY <1>1, SeqMonotonic
<1>3. /\ t \in Seq(S) /\ Len(t) = Len(s) + 1 /\ t[Len(s) + 1] = x
      /\ \A i \in 1..Len(s) : t[i] = s[i]
  BY <1>1, <1>2, AppendProperties
<1>4. IsList(t) /\ DOMAIN t = 1..Len(s) + 1
  BY <1>3, ListOf, LenProperties
<1> QED
  BY <1>3, <1>4

LEMMA ListsJoin ==
  ASSUME NEW s, IsList(s), NEW t, IsList(t)
  PROVE  /\ IsList(s \o t) /\ Len(s \o t) = Len(s) + Len(t) /\ DOMAIN (s \o t) = 1..Len(s) + Len(t)
         /\ \A i \in 1..Len(s) : (s \o t)[i] = s[i]
         /\ \A i \in 1..Len(t) : (s \o t)[Len(s) + i] = t[i]
<1> DEFINE S == ToSet(s) \cup ToSet(t)
<1>1. s \in Seq(S) /\ t \in Seq(S)
  <2>1. s \in Seq(ToSet(s)) /\ t \in Seq(ToSet(t)) /\ ToSet(s) \in SUBSET S /\ ToSet(t) \in SUBSET S
    BY DEF IsList
  <2> HIDE DEF S
  <2> QED
    BY <2>1, SeqMonotonic
<1> HIDE DEF S
<1> DEFINE u == s \o t
<1>2. /\ u \in Seq(S) /\ Len(u) = Len(s) + Len(t)
      /\ \A i \in 1..Len(s) + Len(t) : u[i] = IF i <= Len(s) THEN s[i] ELSE t[i - Len(s)]
  BY <1>1, ConcatProperties
<1>3. IsList(u) /\ DOMAIN u = 1..Len(s) + Len(t)
  BY <1>2, ListOf, LenProperties
<1>4. Len(s) \in Nat /\ Len(t) \in Nat
  BY ListIs
<1> HIDE DEF u
<1>5. \A i \in 1..Len(s) : u[i] = s[i]
  BY <1>2, <1>4
<1>6. ASSUME NEW i \in 1..Len(t) PROVE u[Len(s) + i] = t[i]
  <2>1. Len(s) + i \in 1..Len(s) + Len(t) /\ ~(Len(s) + i <= Len(s)) /\ (Len(s) + i) - Len(s) = i
    BY <1>4
  <2> QED
    BY <1>2, <2>1
<1> QED
  BY <1>2, <1>3, <1>5, <1>6 DEF u

\* A line that is driven back.
LEMMA LineTurns ==
  ASSUME NEW s, IsLine(s)
  PROVE  IsLine(Reverse(s)) /\ Reverse(s)[1] = Last(s) /\ Last(Reverse(s)) = s[1]
<1> DEFINE n == Len(s)
           t == Reverse(s)
<1>1. n \in Nat /\ n >= 1 /\ DOMAIN s = 1..n
  BY ListIs DEF IsLine
<1>2. t = [i \in 1..n |-> s[(n - i) + 1]]
  BY DEF Reverse
<1> HIDE DEF n, t
<1>3. t \in [1..n -> ToSet(s)]
  BY <1>1, <1>2 DEF ToSet
<1>4. t \in Seq(ToSet(s)) /\ Len(t) = n
  BY <1>1, <1>3, SeqDef, LenProperties
<1>5. IsLine(t)
  BY <1>1, <1>4, ListOf, EmptySeq DEF IsLine
<1>6. t[1] = s[n] /\ t[n] = s[1]
  BY <1>1, <1>2
<1> QED
  BY <1>4, <1>5, <1>6 DEF Last, n, t

\* The recursion in FlattenSeq.
LEMMA FlattenUnfolds ==
  ASSUME NEW ss, Len(ss) \in Nat, Len(ss) # 0
  PROVE  \E r : /\ FlattenSeq(ss) = r[Len(ss)] /\ r[1] = ss[1]
                /\ \A n \in 2..Len(ss) : r[n] = r[n - 1] \o ss[n]
<1> DEFINE Op(n, x) == x \o ss[n]
           base == ss[1]
           N == Len(ss)
           F(v) == [i \in 1..N |-> IF i = 1 THEN ss[i] ELSE v[i - 1] \o ss[i]]
           rec == CHOOSE v : v = F(v)
           Good(m, v) == v[1] = base /\ \A n \in 2..m : v[n] = Op(n, v[n - 1])
           T == { m \in Nat : \E v : Good(m + 1, v) }
<1>1. FlattenSeq(ss) = rec[N]
  BY DEF FlattenSeq
<1>2. N \in Nat /\ N >= 1 /\ N - 1 \in Nat /\ (N - 1) + 1 = N
  OBVIOUS
<1>3. \A v : F(v) = [i \in 1..N |-> IF i = 1 THEN base ELSE Op(i, v[i - 1])]
  OBVIOUS
<1> HIDE DEF Op, base, N
<1>4. 0 \in T
  <2>1. Good(1, [n \in 1..1 |-> base]) /\ 0 + 1 = 1
    OBVIOUS
  <2> HIDE DEF Good
  <2> QED
    BY <2>1
<1>5. ASSUME NEW m \in T PROVE m + 1 \in T
  <2> DEFINE k == m + 1
  <2>1. PICK v : Good(k, v)
    OBVIOUS
  <2>2. k \in Nat /\ k >= 1 /\ k + 1 # 1 /\ k + 1 \in 1..k + 1 /\ (k + 1) - 1 = k
    OBVIOUS
  <2> HIDE DEF k
  <2> DEFINE h == [n \in 1..k + 1 |-> IF n = k + 1 THEN Op(k + 1, v[k]) ELSE v[n]]
  <2>3. h[k + 1] = Op(k + 1, v[k]) /\ \A n \in 1..k : h[n] = v[n]
    BY <2>2
  <2> HIDE DEF h
  <2>4. ASSUME NEW n \in 2..k + 1 PROVE h[n] = Op(n, h[n - 1])
    <3>1. n - 1 \in 1..k
      BY <2>2
    <3>2. h[n - 1] = v[n - 1]
      BY <2>3, <3>1
    <3>3. CASE n = k + 1
      <4>1. h[n - 1] = v[k]
        BY <2>2, <3>2, <3>3
      <4> QED
        BY <2>3, <3>3, <4>1
    <3>4. CASE n # k + 1
      <4>1. n \in 2..k /\ n \in 1..k
        BY <2>2, <3>4
      <4>2. h[n] = v[n] /\ v[n] = Op(n, v[n - 1])
        BY <2>1, <2>3, <4>1
      <4> QED
        BY <3>2, <4>2
    <3> QED
      BY <3>3, <3>4
  <2>5. h[1] = base
    BY <2>1, <2>2, <2>3
  <2>6. Good(k + 1, h)
    BY <2>4, <2>5
  <2> HIDE DEF Good
  <2> QED
    BY <2>2, <2>6 DEF k
<1>6. T = Nat
  <2>1. T \in SUBSET Nat
    OBVIOUS
  <2> HIDE DEF T
  <2> QED
    BY <1>4, <1>5, <2>1, Induction
<1>7. PICK v : Good(N, v)
  BY <1>2, <1>6
<1> DEFINE f == [n \in 1..N |-> v[n]]
           G(x) == [i \in 1..N |-> IF i = 1 THEN base ELSE Op(i, x[i - 1])]
<1>8. f = G(f)
  <2>1. ASSUME NEW n \in 1..N PROVE f[n] = IF n = 1 THEN base ELSE Op(n, f[n - 1])
    <3>1. CASE n = 1
      BY <1>7, <3>1
    <3>2. CASE n # 1
      <4>1. n \in 2..N /\ n - 1 \in 1..N
        BY <1>2, <3>2
      <4>2. f[n] = v[n] /\ f[n - 1] = v[n - 1]
        BY <4>1
      <4> HIDE DEF f
      <4> QED
        BY <1>7, <3>2, <4>1, <4>2
    <3> QED
      BY <3>1, <3>2
  <2>2. f = [n \in 1..N |-> f[n]]
    OBVIOUS
  <2> HIDE DEF f
  <2> QED
    BY <2>1, <2>2
<1>9. rec = G(rec)
  <2>1. F(f) = G(f)
    BY <1>3
  <2>2. f = F(f)
    BY <1>8, <2>1
  <2>3. rec = F(rec)
    <3> HIDE DEF f, F, G
    <3> QED
      BY <2>2
  <2>4. F(rec) = G(rec)
    <3> HIDE DEF rec
    <3> QED
      BY <1>3
  <2> HIDE DEF rec, F, G
  <2> QED
    BY <2>3, <2>4
<1> HIDE DEF rec, F
<1>10. rec[1] = base /\ \A n \in 2..N : rec[n] = Op(n, rec[n - 1])
  <2>1. \A n \in 1..N : rec[n] = IF n = 1 THEN base ELSE Op(n, rec[n - 1])
    BY <1>9
  <2>2. 1 \in 1..N /\ \A n \in 2..N : n \in 1..N /\ n # 1
    BY <1>2
  <2> QED
    BY <2>1, <2>2
<1> QED
  BY <1>1, <1>10 DEF Op, base, N

\* All entries of the lists are in the one list that they are put into.
LEMMA FlatHasAll ==
  ASSUME NEW ss, IsList(ss), \A i \in DOMAIN ss : IsList(ss[i])
  PROVE  IsList(FlattenSeq(ss)) /\ \A i \in DOMAIN ss : ToSet(ss[i]) \in SUBSET ToSet(FlattenSeq(ss))
<1>1. Len(ss) \in Nat /\ DOMAIN ss = 1..Len(ss)
  BY ListIs
<1>2. CASE Len(ss) = 0
  BY <1>1, <1>2 DEF FlattenSeq
<1>3. CASE Len(ss) # 0
  <2>1. PICK r : /\ FlattenSeq(ss) = r[Len(ss)] /\ r[1] = ss[1]
                 /\ \A n \in 2..Len(ss) : r[n] = r[n - 1] \o ss[n]
    BY <1>1, <1>3, FlattenUnfolds
  <2> DEFINE Fits(n) == IsList(r[n]) /\ \A i \in 1..n : ToSet(ss[i]) \in SUBSET ToSet(r[n])
             T == { n \in Nat : n + 1 <= Len(ss) => Fits(n + 1) }
  <2>2. 0 \in T
    <3>1. Fits(1)
      BY <1>1, <1>3, <2>1
    <3> QED
      BY <3>1
  <2>3. ASSUME NEW n \in T PROVE n + 1 \in T
    <3> DEFINE m == n + 1
    <3> SUFFICES ASSUME m + 1 <= Len(ss) PROVE Fits(m + 1)
      OBVIOUS
    <3>1. n \in Nat /\ m \in Nat /\ m <= Len(ss) /\ m + 1 \in 2..Len(ss) /\ (m + 1) - 1 = m /\ m + 1 \in DOMAIN ss
      BY <1>1
    <3>2. IsList(r[m]) /\ \A i \in 1..m : ToSet(ss[i]) \in SUBSET ToSet(r[m])
      BY <3>1
    <3> HIDE DEF m
    <3>3. r[m + 1] = r[m] \o ss[m + 1] /\ IsList(ss[m + 1])
      BY <2>1, <3>1
    <3> DEFINE a == r[m]
               b == ss[m + 1]
               c == a \o b
    <3>13. IsList(a) /\ IsList(b)
      BY <3>2, <3>3
    <3>4. /\ IsList(c) /\ DOMAIN c = 1..Len(a) + Len(b)
          /\ \A i \in 1..Len(a) : c[i] = a[i]
          /\ \A i \in 1..Len(b) : c[Len(a) + i] = b[i]
      <4> HIDE DEF a, b
      <4> QED
        BY <3>13, ListsJoin
    <3>5. Len(a) \in Nat /\ Len(b) \in Nat /\ DOMAIN a = 1..Len(a) /\ DOMAIN b = 1..Len(b)
      BY <3>2, <3>3, ListIs
    <3>6. r[m + 1] = c
      BY <3>3
    <3>7. IsList(a) /\ \A i \in 1..m : ToSet(ss[i]) \in SUBSET ToSet(a)
      BY <3>2
    <3>8. b = ss[m + 1]
      OBVIOUS
    <3> HIDE DEF a, b, c
    <3>9. ToSet(a) \in SUBSET ToSet(c)
      BY <3>4, <3>5 DEF ToSet
    <3>10. ToSet(b) \in SUBSET ToSet(c)
      <4> SUFFICES ASSUME NEW i \in 1..Len(b) PROVE b[i] \in ToSet(c)
        BY <3>5 DEF ToSet
      <4>1. Len(a) + i \in DOMAIN c /\ c[Len(a) + i] = b[i]
        BY <3>4, <3>5
      <4> QED
        BY <4>1 DEF ToSet
    <3>11. \A i \in 1..m + 1 : i \in 1..m \/ i = m + 1
      BY <3>1
    <3>12. \A i \in 1..m + 1 : ToSet(ss[i]) \in SUBSET ToSet(c)
      BY <3>7, <3>8, <3>9, <3>10, <3>11
    <3> QED
      BY <3>4, <3>6, <3>12
  <2>4. T = Nat
    <3>1. T \in SUBSET Nat
      OBVIOUS
    <3> HIDE DEF T
    <3> QED
      BY <2>2, <2>3, <3>1, Induction
  <2>5. Fits(Len(ss))
    <3>1. Len(ss) - 1 \in Nat /\ (Len(ss) - 1) + 1 = Len(ss)
      BY <1>1, <1>3
    <3>2. Len(ss) - 1 \in T
      BY <2>4, <3>1
    <3> HIDE DEF Fits
    <3> QED
      BY <1>1, <3>1, <3>2
  <2> QED
    BY <1>1, <2>1, <2>5
<1> QED
  BY <1>2, <1>3

\* The numbers of points tell them apart.
LEMMA NumbersDiffer ==
  ASSUME IsList(Drawn), NEW p \in ToSet(Drawn), NEW q \in ToSet(Drawn), PointNumber(p) = PointNumber(q)
  PROVE  p = q
<1> DEFINE d == Drawn
           n == Len(d)
           At(x) == { k \in DOMAIN d : d[k] = x }
           first(x) == Min(At(x))
           before(x) == { d[k] : k \in 1..first(x) - 1 }
<1>1. n \in Nat /\ DOMAIN d = 1..n
  BY ListIs
<1>2. PointNumber(p) = Cardinality(before(p)) /\ PointNumber(q) = Cardinality(before(q))
  BY DEF PointNumber
<1>3. p \in ToSet(d) /\ q \in ToSet(d)
  OBVIOUS
<1> HIDE DEF d, n
<1>4. ASSUME NEW x \in ToSet(d)
      PROVE  first(x) \in 1..n /\ d[first(x)] = x /\ x \notin before(x) /\ IsFiniteSet(before(x))
  <2>1. At(x) # {} /\ At(x) \in SUBSET (1..n) /\ At(x) \in SUBSET Nat
    BY <1>1 DEF ToSet
  <2>2. \E k \in At(x) : \A j \in At(x) : k <= j
    <3>1. PICK k \in At(x) : \A j \in At(x) \ {k} : ~(<<j, k>> \in OpToRel(<, Nat))
      BY <2>1, NatLessThanWellFounded, WFMin
    <3>2. \A j \in At(x) : j \in Nat /\ k \in Nat
      BY <2>1
    <3> HIDE DEF At
    <3>3. \A j \in At(x) : j # k => ~(j < k)
      BY <3>1, <3>2 DEF OpToRel
    <3> QED
      BY <3>2, <3>3
  <2>3. first(x) \in At(x) /\ \A j \in At(x) : first(x) <= j
    <3> HIDE DEF At
    <3> QED
      BY <2>2 DEF Min
  <2>4. first(x) \in 1..n /\ d[first(x)] = x
    BY <2>1, <2>3
  <2> HIDE DEF first
  <2>5. \A k \in 1..first(x) - 1 : k \in 1..n /\ k < first(x)
    BY <1>1, <2>4
  <2>6. x \notin before(x)
    BY <1>1, <2>3, <2>4, <2>5
  <2>7. IsFiniteSet(1..first(x) - 1)
    BY <1>1, <2>4, FS_Interval
  <2>8. IsFiniteSet(before(x))
    <3> DEFINE I == 1..first(x) - 1
               f == [k \in I |-> d[k]]
    <3>1. f \in Surjection(I, before(x))
      BY DEF Surjection
    <3> QED
      BY <2>7, <3>1, FS_Surjection DEF ExistsSurjection
  <2> QED
    BY <2>4, <2>6, <2>8
<1>5. ASSUME NEW x \in ToSet(d), NEW y \in ToSet(d), Cardinality(before(x)) = Cardinality(before(y)), first(x) < first(y)
      PROVE  FALSE
  <2>1. /\ first(x) \in 1..n /\ d[first(x)] = x /\ x \notin before(x) /\ IsFiniteSet(before(x))
        /\ first(y) \in 1..n /\ IsFiniteSet(before(y))
    BY <1>4
  <2> HIDE DEF first
  <2>2. before(x) \in SUBSET before(y) /\ x \in before(y)
    BY <1>1, <1>5, <2>1
  <2> HIDE DEF before
  <2>3. before(x) = before(y)
    BY <1>5, <2>1, <2>2, FS_Subset
  <2> QED
    BY <2>1, <2>2, <2>3
<1>6. first(p) \in 1..n /\ first(q) \in 1..n /\ d[first(p)] = p /\ d[first(q)] = q
  BY <1>3, <1>4
<1>7. ~(first(p) < first(q)) /\ ~(first(q) < first(p))
  <2> HIDE DEF first, before
  <2> QED
    BY <1>2, <1>3, <1>5
<1> HIDE DEF first
<1>8. first(p) = first(q)
  BY <1>1, <1>6, <1>7
<1> QED
  BY <1>6, <1>8

\* The files that are read are as the code takes them.
FromFiles == NetworkAssumption /\ input \in NetworkInputs

EdgesFit ==
  \A e \in DOMAIN netEdges :
    {netEdges[e].from, netEdges[e].to} \subseteq DOMAIN netVertices /\ IsLine(netEdges[e].line)
MapFits == \A id \in DOMAIN vertexMap : vertexMap[id] \in DOMAIN netVertices
GraphFits == IsList(netVertices) /\ IsList(netEdges) /\ EdgesFit /\ MapFits

\* The rows that become edges, and those of them that were read.
EdgeRows == Rows("arcs") \cup Rows("geometry") \cup Rows("roads")
IsDone(p) == p[1] < nextRow[1] \/ (p[1] = nextRow[1] /\ p[2] < nextRow[2])
Mine(p) == { e \in DOMAIN netEdges : netEdges[e].file = p }
IsTwo(p) == PartOf(p[1]) = "roads" /\ RowOf(p).two

RowsFit ==
  /\ \A e \in DOMAIN netEdges : netEdges[e].file \in EdgeRows /\ IsDone(netEdges[e].file)
  /\ \A p \in EdgeRows : IsDone(p) =>
       IF IsTwo(p) THEN \E e, f \in DOMAIN netEdges : e # f /\ Mine(p) = {e, f}
       ELSE \E e \in DOMAIN netEdges : Mine(p) = {e}

\* What is known of a node is where the files say that it is.
PlaceOf(id) == {netVertices[vertexMap[id]].at}
NodesFit ==
  IF input.format = "seattle"
  THEN \A id \in DOMAIN vertexMap : \E p \in Rows("roads"), i \in 1..2 : EndNames(p)[i] = id /\ NodesOf(p)[i] = PlaceOf(id)
  ELSE \A id \in DOMAIN vertexMap : Named(nextRow[1], id) = PlaceOf(id)
NumbersFit ==
  input.format = "arc_node" /\ PartOf(nextRow[1]) = "nodes" => DOMAIN vertexMap = 0..nextRow[2] - 2
EndsFit ==
  \A id \in DOMAIN edgeMap : \E p \in Rows("ends") : RowOf(p).id = id /\ edgeMap[id] = << RowOf(p).from, RowOf(p).to >>

Joins(e) ==
  LET there == << {netVertices[netEdges[e].from].at}, {netVertices[netEdges[e].to].at} >>
      row == netEdges[e].file
  IN  /\ \/ there = NodesOf(row)
         \/ PartOf(row[1]) = "roads" /\ RowOf(row).two /\ Reverse(there) = NodesOf(row)
      /\ {netEdges[e].line[1]} = there[1] /\ {Last(netEdges[e].line)} = there[2]

ReadingFits ==
  /\ FromFiles
  /\ nextRow \in (Nat \ {0}) \X (Nat \ {0})
  /\ netStage \in {"writing", "written"} => nextRow[1] > LastFile
  /\ RowsFit /\ NumbersFit /\ EndsFit
  /\ FilesAgree => NodesFit /\ \A e \in DOMAIN netEdges : Joins(e)

\* What is written of a graph.
AllNodes ==
  { [id |-> NodeNumber(v.at), at |-> v.at] : v \in ToSet(netVertices) }
    \cup { [id |-> PointNumber(p), at |-> p] : p \in ToSet(Drawn) }
Is(w, e) == w = Way(e)
HasWay(e) == \E w \in ToSet(written.ways) : Is(w, e)
WritingFits ==
  /\ netStage \in {"reading", "threw"} => written = NothingWritten
  /\ DOMAIN written = {"nodes", "ways", "reversed", "next"}
  /\ IsList(written.ways) /\ written.next \in Nat \ {0}
  /\ written.nodes = {} \/ written.nodes = AllNodes
  /\ \A w \in ToSet(written.ways) : \E e \in DOMAIN netEdges : Is(w, e)
  /\ \A f \in written.reversed : \E e \in DOMAIN netEdges : HasWay(e) /\ f \in Backward(e)
  /\ \A e \in DOMAIN netEdges : e < written.next => HasWay(e) \/ e \in written.reversed
  /\ netStage = "written" => written.next > Len(netEdges) /\ (written.nodes # {} \/ netVertices = << >>)

FormatInv ==
  /\ netStage \in {"reading", "threw", "writing", "written"}
  /\ GraphFits /\ WritingFits
  /\ ReadingFits \/ (input.format = "other" /\ netStage \in {"writing", "written"})
LEMMA AllIsDrawn ==
  ASSUME GraphFits
  PROVE  IsList(Drawn) /\ \A e \in DOMAIN netEdges : ToSet(netEdges[e].line) \in SUBSET ToSet(Drawn)
<1> DEFINE ss == [e \in DOMAIN netEdges |-> netEdges[e].line]
<1>1. Len(netEdges) \in Nat /\ DOMAIN netEdges = 1..Len(netEdges) /\ \A e \in DOMAIN netEdges : IsList(netEdges[e].line)
  BY ListIs DEF GraphFits, EdgesFit, IsLine
<1>2. DOMAIN ss = DOMAIN netEdges /\ \A e \in DOMAIN netEdges : ss[e] = netEdges[e].line
  OBVIOUS
<1>3. Drawn = FlattenSeq(ss)
  BY DEF Drawn
<1>4. IsList(ss)
  <2>1. ss \in [1..Len(netEdges) -> ToSet(ss)]
    BY <1>1 DEF ToSet
  <2>2. ss \in Seq(ToSet(ss))
    <3> HIDE DEF ss
    <3> QED
      BY <1>1, <2>1, SeqDef
  <2> QED
    BY <2>2 DEF IsList
<1> HIDE DEF ss
<1>5. IsList(FlattenSeq(ss)) /\ \A e \in DOMAIN ss : ToSet(ss[e]) \in SUBSET ToSet(FlattenSeq(ss))
  BY <1>1, <1>2, <1>4, FlatHasAll
<1> QED
  BY <1>2, <1>3, <1>5

LEMMA FileSaysNetwork ==
  ASSUME GraphFits, WritingFits
  PROVE  ExportIsFaithful
<1> SUFFICES ASSUME netStage = "written", ~ReturnHidden, Isolated = {}
             PROVE  Drivable = { netEdges[e].line : e \in DOMAIN netEdges }
  BY DEF ExportIsFaithful
<1> DEFINE at(ref) == CHOOSE p \in { n.at : n \in { m \in written.nodes : m.id = ref } } : TRUE
           Path(w) == [k \in DOMAIN w.refs |-> at(w.refs[k])]
           ways == ToSet(written.ways)
           Line(e) == netEdges[e].line
           lines == { Path(w) : w \in ways }
           both == { Path(w) : w \in { v \in ways : ~v.oneway } }
<1>1. Drivable = lines \cup { Reverse(l) : l \in both }
  BY DEF Drivable
<1>2. /\ IsList(netVertices) /\ IsList(netEdges)
      /\ \A e \in DOMAIN netEdges : {netEdges[e].from, netEdges[e].to} \subseteq DOMAIN netVertices /\ IsLine(Line(e))
  BY DEF GraphFits, EdgesFit
<1>3. IsList(Drawn) /\ \A e \in DOMAIN netEdges : ToSet(Line(e)) \in SUBSET ToSet(Drawn)
  BY AllIsDrawn
<1>4. ASSUME NEW p \in ToSet(Drawn), written.nodes = AllNodes PROVE at(PointNumber(p)) = p
  <2> DEFINE found == { n.at : n \in { m \in written.nodes : m.id = PointNumber(p) } }
  <2>1. p \in found
    <3> DEFINE n == [id |-> PointNumber(p), at |-> p]
    <3>1. n \in written.nodes
      BY <1>4 DEF AllNodes
    <3> QED
      BY <3>1
  <2>2. ASSUME NEW n \in written.nodes, n.id = PointNumber(p) PROVE n.at = p
    <3>1. CASE \E q \in ToSet(Drawn) : n = [id |-> PointNumber(q), at |-> q]
      <4>1. PICK q \in ToSet(Drawn) : n = [id |-> PointNumber(q), at |-> q]
        BY <3>1
      <4>2. PointNumber(p) = PointNumber(q)
        BY <2>2, <4>1
      <4> QED
        BY <1>3, <4>1, <4>2, NumbersDiffer
    <3>2. CASE \E v \in ToSet(netVertices) : n = [id |-> NodeNumber(v.at), at |-> v.at]
      <4>1. PICK k \in DOMAIN netVertices : n = [id |-> NodeNumber(netVertices[k].at), at |-> netVertices[k].at]
        BY <3>2 DEF ToSet
      <4> DEFINE q == netVertices[k].at
      <4>2. q \in ToSet(Drawn)
        BY DEF Isolated
      <4>3. n.id = PointNumber(q) /\ n.at = q
        BY <4>1, <4>2 DEF NodeNumber
      <4> QED
        BY <1>3, <2>2, <4>2, <4>3, NumbersDiffer
    <3> QED
      BY <1>4, <3>1, <3>2 DEF AllNodes
  <2>3. found = {p}
    BY <2>1, <2>2
  <2> QED
    BY <2>3
<1> HIDE DEF at
<1>5. ASSUME NEW e \in DOMAIN netEdges PROVE Path(Way(e)) = Line(e)
  <2>1. netVertices # << >>
    BY <1>2
  <2>2. written.nodes = AllNodes
    BY <2>1 DEF WritingFits
  <2>3. Len(Line(e)) \in Nat /\ DOMAIN Line(e) = 1..Len(Line(e)) /\ Line(e) = [k \in 1..Len(Line(e)) |-> Line(e)[k]]
    BY <1>2, ListIs DEF IsLine
  <2>4. \A k \in DOMAIN Line(e) : Line(e)[k] \in ToSet(Drawn)
    BY <1>3 DEF ToSet
  <2>5. \A k \in DOMAIN Line(e) : at(PointNumber(Line(e)[k])) = Line(e)[k]
    BY <1>4, <2>2, <2>4
  <2>6. Way(e).refs = [k \in DOMAIN Line(e) |-> PointNumber(Line(e)[k])]
    BY DEF Way
  <2> HIDE DEF Line
  <2> QED
    BY <2>3, <2>5, <2>6
<1>6. \A e \in DOMAIN netEdges : Way(e).oneway <=> netEdges[e].id \in OnewayTags \/ Backward(e) = {}
  BY DEF Way
<1>7. /\ \A w \in ways : \E e \in DOMAIN netEdges : w = Way(e)
      /\ \A f \in written.reversed : \E e \in DOMAIN netEdges : Way(e) \in ways /\ f \in Backward(e)
      /\ \A e \in DOMAIN netEdges : Way(e) \in ways \/ e \in written.reversed
  <2>1. \A e \in DOMAIN netEdges : e < written.next
    BY <1>2, ListIs DEF WritingFits
  <2> QED
    BY <2>1 DEF WritingFits, HasWay, Is
<1>8. \A e \in DOMAIN netEdges : \A f \in Backward(e) : f \in DOMAIN netEdges /\ Line(f) = Reverse(Line(e))
  BY DEF Backward
<1> DEFINE all == { Line(e) : e \in DOMAIN netEdges }
<1> HIDE DEF Path, Line, ways
<1>9. \A l \in lines : l \in all
  BY <1>5, <1>7
<1>10. ASSUME NEW w \in ways, ~w.oneway PROVE Reverse(Path(w)) \in all
  <2>1. PICK e \in DOMAIN netEdges : w = Way(e)
    BY <1>7
  <2>2. Path(w) = Line(e) /\ Backward(e) # {}
    BY <1>5, <1>6, <1>10, <2>1
  <2> QED
    BY <1>8, <2>2
<1>11. ASSUME NEW e \in DOMAIN netEdges PROVE Line(e) \in lines \cup { Reverse(l) : l \in both }
  <2>1. CASE Way(e) \in ways
    BY <1>5, <2>1
  <2>2. CASE e \in written.reversed
    <3>1. PICK f \in DOMAIN netEdges : Way(f) \in ways /\ e \in Backward(f)
      BY <1>7, <2>2
    <3>2. ~Way(f).oneway
      BY <1>6, <3>1 DEF ReturnHidden, ways
    <3>3. Path(Way(f)) \in both /\ Path(Way(f)) = Line(f)
      BY <1>5, <3>1, <3>2
    <3>4. Line(e) = Reverse(Line(f))
      BY <1>8, <3>1
    <3> HIDE DEF both
    <3> QED
      BY <3>3, <3>4
  <2> QED
    BY <1>7, <2>1, <2>2
<1>12. \A l \in both : Reverse(l) \in all
  BY <1>10
<1>13. all = lines \cup { Reverse(l) : l \in both }
  <2> HIDE DEF lines, both
  <2> QED
    BY <1>9, <1>11, <1>12
<1> QED
  BY <1>1, <1>13 DEF Line

LEMMA NothingFits == GraphFits /\ written = NothingWritten /\ netStage # "written" => WritingFits
<1> SUFFICES ASSUME GraphFits, written = NothingWritten, netStage # "written" PROVE WritingFits
  OBVIOUS
<1>1. /\ written.nodes = {} /\ written.ways = << >> /\ written.reversed = {} /\ written.next = 1
  BY DEF NothingWritten
<1>4. DOMAIN written = {"nodes", "ways", "reversed", "next"}
  BY DEF NothingWritten
<1>2. IsList(<< >>) /\ ToSet(<< >>) = {}
  <2>1. ToSet(<< >>) = {}
    BY DEF ToSet
  <2>2. << >> \in Seq({})
    OBVIOUS
  <2> QED
    BY <2>1, <2>2, ListOf
<1>3. \A e \in DOMAIN netEdges : ~(e < 1)
  BY ListIs DEF GraphFits
<1> QED
  BY <1>1, <1>2, <1>3, <1>4 DEF WritingFits

NetworkStays == UNCHANGED << input, nextRow, netVertices, netEdges, vertexMap, edgeMap >>

LEMMA GraphStays ==
  ASSUME UNCHANGED << netVertices, netEdges >>
  PROVE  /\ AllNodes' = AllNodes /\ Len(netEdges)' = Len(netEdges) /\ DOMAIN netEdges' = DOMAIN netEdges
         /\ \A e : Way(e)' = Way(e) /\ Backward(e)' = Backward(e)
         /\ EdgesFit => EdgesFit'
<1>1. AllNodes' = AllNodes
  BY DEF AllNodes, NodeNumber, PointNumber, Drawn
<1>2. \A e : Way(e)' = Way(e) /\ Backward(e)' = Backward(e)
  BY DEF Way, Backward, PointNumber, Drawn
<1>3. EdgesFit => EdgesFit'
  BY DEF EdgesFit
<1> QED
  BY <1>1, <1>2, <1>3

LEMMA NodesKeep ==
  ASSUME GraphFits, WritingFits, WriteNodes
  PROVE  WritingFits'
<1>1. /\ written'.nodes = AllNodes /\ written'.ways = written.ways /\ written'.reversed = written.reversed
      /\ written'.next = written.next /\ DOMAIN written' = DOMAIN written /\ netStage = "writing" /\ netStage' = netStage
  BY DEF WritingFits, WriteNodes, AllNodes
<1>2. /\ AllNodes' = AllNodes /\ Len(netEdges)' = Len(netEdges) /\ DOMAIN netEdges' = DOMAIN netEdges
      /\ \A e : Way(e)' = Way(e) /\ Backward(e)' = Backward(e)
  BY GraphStays DEF WriteNodes
<1>3. \A e : HasWay(e)' <=> HasWay(e)
  BY <1>1, <1>2 DEF HasWay, Is
<1> QED
  BY <1>1, <1>2, <1>3 DEF WritingFits, Is

LEMMA WayKeeps ==
  ASSUME GraphFits, WritingFits, WriteWay
  PROVE  WritingFits'
<1>6. PICK e : e = written.next
  OBVIOUS
<1>1. /\ netStage = "writing" /\ netStage' = netStage /\ e \in DOMAIN netEdges
      /\ DOMAIN written = {"nodes", "ways", "reversed", "next"} /\ e \in Nat \ {0}
  <2>1. DOMAIN netEdges = 1..Len(netEdges) /\ Len(netEdges) \in Nat
    BY ListIs DEF GraphFits
  <2> QED
    BY <1>6, <2>1 DEF WritingFits, WriteWay
<1>2. /\ AllNodes' = AllNodes /\ Len(netEdges)' = Len(netEdges) /\ DOMAIN netEdges' = DOMAIN netEdges
      /\ \A f : Way(f)' = Way(f) /\ Backward(f)' = Backward(f)
  BY GraphStays DEF WriteWay
<1>3. DOMAIN netEdges = 1..Len(netEdges) /\ Len(netEdges) \in Nat
  BY ListIs DEF GraphFits
<1>4. CASE e \in written.reversed
  <2>1. /\ written'.nodes = written.nodes /\ written'.ways = written.ways /\ written'.reversed = written.reversed
        /\ written'.next = e + 1 /\ DOMAIN written' = DOMAIN written
    BY <1>1, <1>4, <1>6 DEF WriteWay
  <2>2. \A f : HasWay(f)' <=> HasWay(f)
    BY <1>2, <2>1 DEF HasWay, Is
  <2>3. \A f \in DOMAIN netEdges : f < e + 1 => f < e \/ f = e
    BY <1>1, <1>3
  <2> QED
    BY <1>1, <1>2, <1>4, <1>6, <2>1, <2>2, <2>3 DEF WritingFits, Is
<1>5. CASE e \notin written.reversed
  <2>1. /\ written'.nodes = written.nodes /\ written'.ways = Append(written.ways, Way(e))
        /\ written'.reversed = written.reversed \cup Backward(e)
        /\ written'.next = e + 1 /\ DOMAIN written' = DOMAIN written
    BY <1>1, <1>5, <1>6 DEF WriteWay
  <2>2. IsList(written.ways)
    BY DEF WritingFits
  <2>3. IsList(written'.ways) /\ ToSet(written'.ways) = ToSet(written.ways) \cup {Way(e)}
    <3>1. /\ IsList(written'.ways) /\ DOMAIN written'.ways = 1..Len(written.ways) + 1
          /\ written'.ways[Len(written.ways) + 1] = Way(e)
          /\ \A i \in 1..Len(written.ways) : written'.ways[i] = written.ways[i]
      BY <2>1, <2>2, ListGrows
    <3>2. DOMAIN written.ways = 1..Len(written.ways) /\ Len(written.ways) \in Nat
      BY <2>2, ListIs
    <3> QED
      BY <3>1, <3>2 DEF ToSet
  <2>4. \A f : HasWay(f) => HasWay(f)'
    BY <1>2, <2>3 DEF HasWay, Is
  <2>5. HasWay(e)'
    BY <1>2, <2>3 DEF HasWay, Is
  <2>6. \A f \in DOMAIN netEdges : f < e + 1 => f < e \/ f = e
    BY <1>1, <1>3
  <2>7. \A w \in ToSet(written'.ways) : \E f \in DOMAIN netEdges : Is(w, f)'
    BY <1>1, <1>2, <2>3 DEF WritingFits, Is
  <2>8. \A f \in written'.reversed : \E g \in DOMAIN netEdges : HasWay(g)' /\ f \in Backward(g)
    BY <1>1, <2>1, <2>4, <2>5 DEF WritingFits
  <2>9. \A f \in DOMAIN netEdges : f < e + 1 => HasWay(f)' \/ f \in written'.reversed
    BY <1>6, <2>1, <2>4, <2>5, <2>6 DEF WritingFits
  <2>10. written'.nodes = {} \/ written'.nodes = AllNodes'
    BY <1>2, <2>1 DEF WritingFits
  <2>11. written'.next \in Nat \ {0}
    BY <1>1, <2>1
  <2>12. \A w \in ToSet(written.ways)' : \E f \in DOMAIN netEdges' : Is(w, f)'
    BY <1>2, <2>7
  <2>13. \A f \in written'.reversed : \E g \in DOMAIN netEdges' : HasWay(g)' /\ f \in Backward(g)'
    BY <1>2, <2>8
  <2>14. \A f \in DOMAIN netEdges' : f < written'.next => HasWay(f)' \/ f \in written'.reversed
    BY <1>2, <2>1, <2>9
  <2> QED
    BY <1>1, <2>1, <2>3, <2>10, <2>11, <2>12, <2>13, <2>14, Zenon DEF WritingFits
<1> QED
  BY <1>4, <1>5

LEMMA EndKeeps ==
  ASSUME GraphFits, WritingFits, EndWriting
  PROVE  WritingFits'
<1>1. /\ AllNodes' = AllNodes /\ Len(netEdges)' = Len(netEdges) /\ DOMAIN netEdges' = DOMAIN netEdges
      /\ \A e : Way(e)' = Way(e) /\ Backward(e)' = Backward(e)
  BY GraphStays DEF EndWriting
<1>2. written' = written /\ netVertices' = netVertices /\ netStage' = "written"
      /\ written.next > Len(netEdges) /\ (written.nodes # {} \/ netVertices = << >>)
  BY DEF EndWriting
<1>3. \A e : HasWay(e)' <=> HasWay(e)
  BY <1>1, <1>2 DEF HasWay, Is
<1> QED
  BY <1>1, <1>2, <1>3 DEF WritingFits, Is

\* What is written stays true of the graph.
LEMMA WritingKeeps ==
  GraphFits /\ WritingFits /\ NetworkNext /\ GraphFits' => WritingFits'
<1> SUFFICES ASSUME GraphFits, WritingFits, NetworkNext, GraphFits' PROVE WritingFits'
  OBVIOUS
<1>1. CASE WriteNodes \/ WriteWay \/ EndWriting
  BY <1>1, NodesKeep, WayKeeps, EndKeeps
<1>2. CASE ~(WriteNodes \/ WriteWay \/ EndWriting)
  <2>1. netStage = "reading" /\ netStage' # "written" /\ written' = written
    BY <1>2
    DEF NetworkNext, OpenMissing, ReadVertex, ReadArc, KeepEnds, ReadGeometry, ReadRoad, FileDone, EndReading, Throw, RowRead, AtRowOf
  <2>2. written' = NothingWritten
    BY <2>1 DEF WritingFits, NothingWritten
  <2>3. (GraphFits /\ written = NothingWritten /\ netStage # "written" => WritingFits)'
    BY NothingFits, PTL
  <2> QED
    BY <2>1, <2>2, <2>3 DEF NothingWritten
<1> QED
  BY <1>1, <1>2

\* The files of an import, by groups.
LEMMA FormatIs ==
  ASSUME FromFiles
  PROVE  /\ input.format \in {"arc_node", "giscup", "melbourne", "seattle"} /\ input.format # "other"
         /\ IsList(input.files) /\ Len(input.files) \in Nat /\ DOMAIN input.files = 1..Len(input.files)
         /\ \A n \in DOMAIN input.files : input.files[n] = Missing \/ IsFile(PartOf(n), input.files[n])
BY ListIs DEF PartOf, FromFiles, NetworkAssumption

LEMMA PartsAre ==
  ASSUME NEW n \in Nat \ {0}
  PROVE  /\ input.format = "arc_node" =>
              GroupSize = 2 /\ PartOf(n) = IF (n - 1) % 2 = 0 THEN "nodes" ELSE "arcs"
         /\ input.format = "giscup" => GroupSize = 3 /\ PartOf(n) \in {"nodes", "ends", "geometry"}
         /\ input.format = "melbourne" => GroupSize = 3 /\ PartOf(n) \in {"nodes", "arcs", "streets"}
         /\ input.format = "seattle" => GroupSize = 1 /\ PartOf(n) = "roads"
<1> DEFINE k == n - 1
<1>0. k \in Nat /\ k % 2 \in 0..1 /\ k % 3 \in 0..2 /\ k % 1 = 0
  OBVIOUS
<1> HIDE DEF k
<1>1. CASE input.format = "arc_node"
  <2>1. FormatParts(input.format) = << "nodes", "arcs" >>
    BY <1>1 DEF FormatParts
  <2>2. PartOf(n) = << "nodes", "arcs" >>[1 + (k % 2)] /\ GroupSize = 2
    BY <2>1 DEF PartOf, PartIn, GroupSize, k
  <2> QED
    BY <1>0, <1>1, <2>2 DEF k
<1>2. CASE input.format = "giscup"
  <2>1. FormatParts(input.format) = << "nodes", "ends", "geometry" >>
    BY <1>2 DEF FormatParts
  <2>2. PartOf(n) = << "nodes", "ends", "geometry" >>[1 + (k % 3)] /\ GroupSize = 3
    BY <2>1 DEF PartOf, PartIn, GroupSize, k
  <2> QED
    BY <1>0, <1>2, <2>2
<1>3. CASE input.format = "melbourne"
  <2>1. FormatParts(input.format) = << "nodes", "arcs", "streets" >>
    BY <1>3 DEF FormatParts
  <2>2. PartOf(n) = << "nodes", "arcs", "streets" >>[1 + (k % 3)] /\ GroupSize = 3
    BY <2>1 DEF PartOf, PartIn, GroupSize, k
  <2> QED
    BY <1>0, <1>3, <2>2
<1>4. CASE input.format = "seattle"
  <2>1. FormatParts(input.format) = << "roads" >>
    BY <1>4 DEF FormatParts
  <2>2. PartOf(n) = << "roads" >>[1 + (k % 1)] /\ GroupSize = 1
    BY <2>1 DEF PartOf, PartIn, GroupSize, k
  <2> QED
    BY <1>0, <1>4, <2>2
<1> QED
  BY <1>1, <1>2, <1>3, <1>4

LEMMA FilesAre ==
  ASSUME FromFiles
  PROVE  LastFile \in Nat /\ LastFile <= Len(input.files)
<1>1. Len(input.files) \in Nat /\ GroupSize \in {1, 2, 3}
  <2>1. 1 \in Nat \ {0}
    OBVIOUS
  <2> QED
    BY <2>1, FormatIs, PartsAre
<1>2. \A n \in Nat : (n \div 1) * 1 \in Nat /\ (n \div 1) * 1 <= n
  OBVIOUS
<1>3. \A n \in Nat : (n \div 2) * 2 \in Nat /\ (n \div 2) * 2 <= n
  OBVIOUS
<1>4. \A n \in Nat : (n \div 3) * 3 \in Nat /\ (n \div 3) * 3 <= n
  OBVIOUS
<1>5. LastFile = (Len(input.files) \div GroupSize) * GroupSize
  BY DEF LastFile
<1>6. CASE GroupSize = 1
  BY <1>1, <1>2, <1>5, <1>6
<1>7. CASE GroupSize = 2
  BY <1>1, <1>3, <1>5, <1>7
<1>8. CASE GroupSize = 3
  BY <1>1, <1>4, <1>5, <1>8
<1> QED
  BY <1>1, <1>6, <1>7, <1>8

LEMMA RowsAre ==
  ASSUME NEW part, NEW p
  PROVE  p \in Rows(part) <=>
           /\ PartOf(p[1]) = part
           /\ \E n \in 1..LastFile : input.files[n] # Missing /\ \E k \in DOMAIN input.files[n] : p = << n, k >>
<1> DEFINE here(n) == { << n, k >> : k \in DOMAIN input.files[n] }
           open == { n \in 1..LastFile : input.files[n] # Missing }
<1>1. Rows(part) = { q \in UNION { here(n) : n \in open } : PartOf(q[1]) = part }
  BY DEF Rows
<1>2. p \in UNION { here(n) : n \in open } <=> \E n \in open : p \in here(n)
  <2> HIDE DEF here, open
  <2> QED
    OBVIOUS
<1>3. p \in Rows(part) <=> PartOf(p[1]) = part /\ \E n \in open : p \in here(n)
  <2> HIDE DEF here, open
  <2> QED
    BY <1>1, <1>2
<1> QED
  BY <1>3

\* A place in the files.
LEMMA PlaceIs ==
  ASSUME FromFiles, NEW part, NEW p \in Rows(part)
  PROVE  /\ p = << p[1], p[2] >> /\ p[1] \in 1..LastFile /\ p[1] \in Nat \ {0} /\ p[2] \in Nat \ {0}
         /\ input.files[p[1]] # Missing /\ p[2] \in DOMAIN input.files[p[1]] /\ PartOf(p[1]) = part
         /\ RowOf(p) = input.files[p[1]][p[2]] /\ IsFile(part, input.files[p[1]])
<1>1. PICK n \in 1..LastFile : input.files[n] # Missing /\ \E k \in DOMAIN input.files[n] : p = << n, k >>
  BY RowsAre
<1>2. PICK k \in DOMAIN input.files[n] : p = << n, k >>
  BY <1>1
<1>3. PartOf(n) = part
  BY <1>2, RowsAre
<1>4. LastFile \in Nat /\ LastFile <= Len(input.files)
  BY FilesAre
<1>5. IsFile(part, input.files[n])
  BY <1>1, <1>3, <1>4, FormatIs
<1>6. DOMAIN input.files[n] = 1..Len(input.files[n]) /\ Len(input.files[n]) \in Nat
  BY <1>5, ListIs DEF IsFile
<1> QED
  BY <1>1, <1>2, <1>3, <1>4, <1>5, <1>6 DEF RowOf

\* What only the files say stays as they do.
LEMMA FilesStay ==
  ASSUME input' = input
  PROVE  /\ \A part : Rows(part)' = Rows(part)
         /\ EdgeRows' = EdgeRows /\ LastFile' = LastFile
         /\ \A n : PartOf(n)' = PartOf(n)
         /\ \A p : RowOf(p)' = RowOf(p) /\ EndNames(p)' = EndNames(p) /\ NodesOf(p)' = NodesOf(p) /\ (IsTwo(p)' <=> IsTwo(p))
         /\ \A n, id : Named(n, id)' = Named(n, id)
         /\ FilesAgree' <=> FilesAgree
BY DEF EdgeRows, Rows, LastFile, GroupSize, PartOf, RowOf, EndNames, NodesOf, IsTwo, Named, GroupAt, FilesAgree

LEMMA NextRowIs ==
  ASSUME ReadingFits, NEW part, AtRowOf(part)
  PROVE  /\ nextRow \in Rows(part) /\ RowOf(nextRow) = ThisRow /\ PartOf(nextRow[1]) = part /\ ~IsDone(nextRow)
         /\ nextRow = << nextRow[1], nextRow[2] >> /\ nextRow[1] \in Nat \ {0} /\ nextRow[2] \in Nat \ {0}
<1>1. nextRow = << nextRow[1], nextRow[2] >> /\ nextRow[1] \in Nat \ {0} /\ nextRow[2] \in Nat \ {0}
  BY DEF ReadingFits
<1>2. FromFiles /\ nextRow[1] <= LastFile /\ PartOf(nextRow[1]) = part /\ ThisFile # Missing /\ nextRow[2] <= Len(ThisFile)
  BY DEF ReadingFits, AtRowOf
<1>3. LastFile \in Nat /\ LastFile <= Len(input.files)
  BY <1>2, FilesAre
<1>4. IsFile(part, ThisFile) /\ nextRow[1] \in 1..LastFile
  BY <1>1, <1>2, <1>3, FormatIs DEF ThisFile
<1>5. nextRow[2] \in DOMAIN ThisFile
  BY <1>1, <1>2, <1>4, ListIs DEF IsFile
<1>6. nextRow \in Rows(part)
  BY <1>1, <1>2, <1>4, <1>5, RowsAre DEF ThisFile
<1> QED
  BY <1>1, <1>2, <1>6 DEF RowOf, ThisRow, ThisFile, IsDone

LEMMA DoneGrows ==
  ASSUME ReadingFits, NEW part, AtRowOf(part), RowRead
  PROVE  /\ input' = input /\ nextRow' = << nextRow[1], nextRow[2] + 1 >> /\ nextRow'[1] = nextRow[1] /\ nextRow'[2] = nextRow[2] + 1
         /\ nextRow' \in (Nat \ {0}) \X (Nat \ {0})
         /\ \A other : \A q \in Rows(other) : IsDone(q)' <=> IsDone(q) \/ q = nextRow
<1> DEFINE f == nextRow[1]
           k == nextRow[2]
<1>1. nextRow = << f, k >> /\ f \in Nat \ {0} /\ k \in Nat \ {0}
  BY NextRowIs
<1>2. nextRow' = << f, k + 1 >> /\ input' = input
  BY <1>1 DEF RowRead
<1>3. nextRow'[1] = f /\ nextRow'[2] = k + 1 /\ nextRow' \in (Nat \ {0}) \X (Nat \ {0})
  BY <1>1, <1>2
<1>4. ASSUME NEW other, NEW q \in Rows(other) PROVE IsDone(q)' <=> IsDone(q) \/ q = nextRow
  <2>1. q = << q[1], q[2] >> /\ q[1] \in Nat /\ q[2] \in Nat
    BY PlaceIs DEF ReadingFits
  <2>2. IsDone(q)' <=> q[1] < f \/ (q[1] = f /\ q[2] < k + 1)
    BY <1>3 DEF IsDone
  <2>3. IsDone(q) <=> q[1] < f \/ (q[1] = f /\ q[2] < k)
    BY DEF IsDone
  <2>4. q = nextRow <=> q[1] = f /\ q[2] = k
    BY <1>1, <2>1
  <2> HIDE DEF f, k
  <2>5. q[2] < k + 1 <=> q[2] < k \/ q[2] = k
    BY <1>1, <2>1
  <2> QED
    BY <2>2, <2>3, <2>4, <2>5
<1> QED
  BY <1>2, <1>3, <1>4

LEMMA FileIsDone ==
  ASSUME ReadingFits, FileDone
  PROVE  /\ input' = input /\ nextRow' = << nextRow[1] + 1, 1 >> /\ nextRow'[1] = nextRow[1] + 1 /\ nextRow'[2] = 1
         /\ nextRow' \in (Nat \ {0}) \X (Nat \ {0})
         /\ \A q \in EdgeRows : IsDone(q)' <=> IsDone(q)
<1> DEFINE f == nextRow[1]
           k == nextRow[2]
<1>1. nextRow = << f, k >> /\ f \in Nat \ {0} /\ k \in Nat \ {0} /\ FromFiles
  BY DEF ReadingFits
<1>2. nextRow' = << f + 1, 1 >> /\ input' = input
  BY DEF FileDone
<1>3. nextRow'[1] = f + 1 /\ nextRow'[2] = 1 /\ nextRow' \in (Nat \ {0}) \X (Nat \ {0})
  BY <1>1, <1>2
<1>4. ASSUME NEW q \in EdgeRows PROVE IsDone(q)' <=> IsDone(q)
  <2>1. PICK part \in {"arcs", "geometry", "roads"} : q \in Rows(part)
    BY DEF EdgeRows
  <2>2. /\ q[1] \in Nat \ {0} /\ q[2] \in Nat \ {0} /\ q[2] \in DOMAIN input.files[q[1]] /\ PartOf(q[1]) = part
        /\ IsFile(part, input.files[q[1]])
    BY <1>1, <2>1, PlaceIs
  <2>3. q[2] <= Len(input.files[q[1]]) /\ Len(input.files[q[1]]) \in Nat
    BY <2>2, ListIs DEF IsFile
  <2>4. PartOf(f) # "streets" => k > Len(input.files[f])
    BY DEF FileDone, ThisFile
  <2>5. IsDone(q)' <=> q[1] < f + 1 \/ (q[1] = f + 1 /\ q[2] < 1)
    BY <1>3 DEF IsDone
  <2>6. IsDone(q) <=> q[1] < f \/ (q[1] = f /\ q[2] < k)
    BY DEF IsDone
  <2> HIDE DEF f, k
  <2>7. q[1] = f => q[2] < k
    BY <1>1, <2>1, <2>2, <2>3, <2>4
  <2> QED
    BY <1>1, <2>2, <2>5, <2>6, <2>7
<1> QED
  BY <1>2, <1>3, <1>4

LEMMA RowsStay ==
  ASSUME RowsFit, input' = input, netEdges' = netEdges, \A q \in EdgeRows : IsDone(q)' <=> IsDone(q)
  PROVE  RowsFit'
<1>1. EdgeRows' = EdgeRows /\ \A p : IsTwo(p)' <=> IsTwo(p)
  BY FilesStay
<1>2. \A p : Mine(p)' = Mine(p)
  BY DEF Mine
<1> QED
  BY <1>1, <1>2 DEF RowsFit

\* The edges of the row that is next.
LEMMA RowsGrow ==
  ASSUME ReadingFits, NEW part \in {"arcs", "geometry", "roads"}, AtRowOf(part), RowRead,
         IsList(netEdges), IsList(netEdges'),
         Len(netEdges') = Len(netEdges) + IF IsTwo(nextRow) THEN 2 ELSE 1,
         \A e \in DOMAIN netEdges : netEdges'[e] = netEdges[e],
         \A e \in DOMAIN netEdges' : e \notin DOMAIN netEdges => netEdges'[e].file = nextRow
  PROVE  RowsFit'
<1>0. PICK row, n : row = nextRow /\ n = Len(netEdges)
  OBVIOUS
<1>1. n \in Nat /\ DOMAIN netEdges = 1..n /\ DOMAIN netEdges' = 1..Len(netEdges')
  BY <1>0, ListIs
<1>2. DOMAIN netEdges' = IF IsTwo(row) THEN 1..n + 2 ELSE 1..n + 1
  BY <1>0, <1>1
<1>3. /\ RowsFit /\ row \in EdgeRows /\ ~IsDone(row)
      /\ \A q \in EdgeRows : IsDone(q)' <=> IsDone(q) \/ q = row
  BY <1>0, NextRowIs, DoneGrows DEF EdgeRows, ReadingFits
<1>4. EdgeRows' = EdgeRows /\ \A p : IsTwo(p)' <=> IsTwo(p)
  BY FilesStay, DoneGrows
<1>5. \A e \in DOMAIN netEdges : netEdges[e].file # row
  BY <1>3 DEF RowsFit
<1>6. \A e \in DOMAIN netEdges : e \in DOMAIN netEdges'
  BY <1>1, <1>2
<1>7. \A q : Mine(q)' = { e \in DOMAIN netEdges' : netEdges'[e].file = q }
  BY DEF Mine
<1>8. \A q : q # row => Mine(q)' = Mine(q)
  BY <1>0, <1>6, <1>7 DEF Mine
<1>9. Mine(row)' = DOMAIN netEdges' \ DOMAIN netEdges
  BY <1>0, <1>5, <1>7
<1>10. ASSUME NEW e \in DOMAIN netEdges' PROVE netEdges'[e].file \in EdgeRows' /\ IsDone(netEdges[e].file)'
  <2>1. \E q \in EdgeRows : netEdges'[e].file = q /\ IsDone(q)'
    BY <1>0, <1>3 DEF RowsFit
  <2> QED
    BY <1>4, <2>1 DEF IsDone
<1>11. ASSUME NEW p \in EdgeRows', IsDone(p)'
       PROVE  IF IsTwo(p)' THEN \E e, f \in DOMAIN netEdges' : e # f /\ Mine(p)' = {e, f}
              ELSE \E e \in DOMAIN netEdges' : Mine(p)' = {e}
  <2>1. CASE p = row
    <3>1. CASE IsTwo(row)
      <4>1. Mine(row)' = {n + 1, n + 2} /\ n + 1 # n + 2 /\ {n + 1, n + 2} \subseteq DOMAIN netEdges'
        BY <1>1, <1>2, <1>9, <3>1
      <4> QED
        BY <1>4, <2>1, <3>1, <4>1
    <3>2. CASE ~IsTwo(row)
      <4>1. Mine(row)' = {n + 1} /\ n + 1 \in DOMAIN netEdges'
        BY <1>1, <1>2, <1>9, <3>2
      <4> QED
        BY <1>4, <2>1, <3>2, <4>1
    <3> QED
      BY <3>1, <3>2
  <2>2. CASE p # row
    <3>1. p \in EdgeRows /\ IsDone(p) /\ Mine(p)' = Mine(p)
      BY <1>3, <1>4, <1>8, <1>11, <2>2
    <3>2. IF IsTwo(p) THEN \E e, f \in DOMAIN netEdges : e # f /\ Mine(p) = {e, f}
          ELSE \E e \in DOMAIN netEdges : Mine(p) = {e}
      BY <1>3, <3>1 DEF RowsFit
    <3> QED
      BY <1>4, <1>6, <3>1, <3>2
  <2> QED
    BY <2>1, <2>2
<1>12. \A e \in DOMAIN netEdges' : netEdges'[e].file \in EdgeRows' /\ IsDone(netEdges[e].file)'
  BY <1>10
<1> QED
  BY <1>11, <1>12, Zenon DEF RowsFit

VerticesGrow ==
  /\ IsList(netVertices')
  /\ \A v \in DOMAIN netVertices : v \in DOMAIN netVertices' /\ netVertices'[v] = netVertices[v]
EdgesGrow ==
  /\ IsList(netEdges')
  /\ \A e \in DOMAIN netEdges : e \in DOMAIN netEdges' /\ netEdges'[e] = netEdges[e]

LEMMA EdgesFitStill ==
  ASSUME EdgesFit, VerticesGrow, EdgesGrow,
         \A e \in DOMAIN netEdges' : e \notin DOMAIN netEdges =>
           netEdges'[e].from \in DOMAIN netVertices' /\ netEdges'[e].to \in DOMAIN netVertices' /\ IsLine(netEdges'[e].line)
  PROVE  EdgesFit'
<1> SUFFICES ASSUME NEW e \in DOMAIN netEdges'
             PROVE  netEdges'[e].from \in DOMAIN netVertices' /\ netEdges'[e].to \in DOMAIN netVertices' /\ IsLine(netEdges'[e].line)
  BY DEF EdgesFit
<1>1. CASE e \in DOMAIN netEdges
  BY <1>1 DEF EdgesFit, VerticesGrow, EdgesGrow
<1> QED
  BY <1>1

LEMMA EdgeJoinsStill ==
  ASSUME EdgesFit, VerticesGrow, EdgesGrow, input' = input, NEW e \in DOMAIN netEdges, Joins(e)
  PROVE  Joins(e)'
<1>1. /\ \A n : PartOf(n)' = PartOf(n)
      /\ \A p : RowOf(p)' = RowOf(p) /\ NodesOf(p)' = NodesOf(p)
  BY FilesStay
<1>2. netEdges'[e] = netEdges[e]
  BY DEF EdgesGrow
<1>3. netVertices'[netEdges[e].from] = netVertices[netEdges[e].from] /\ netVertices'[netEdges[e].to] = netVertices[netEdges[e].to]
  BY DEF EdgesFit, VerticesGrow
<1> QED
  BY <1>1, <1>2, <1>3 DEF Joins

LEMMA PlaceStays ==
  ASSUME MapFits, VerticesGrow, NEW id \in DOMAIN vertexMap, vertexMap'[id] = vertexMap[id]
  PROVE  PlaceOf(id)' = PlaceOf(id) /\ vertexMap'[id] \in DOMAIN netVertices'
BY DEF MapFits, VerticesGrow, PlaceOf

\* The number or the id of the node in the next row belongs to no other row.
LEMMA NameIsNew ==
  ASSUME ReadingFits, AtRowOf("nodes"), FilesAgree, KeyOf(ThisRow) \notin DOMAIN vertexMap
  PROVE  Named(nextRow[1], KeyOf(ThisRow)) = {ThisRow.at}
<1> DEFINE f == nextRow[1]
           k == nextRow[2]
           key == KeyOf(ThisRow)
<1>1. /\ nextRow \in Rows("nodes") /\ RowOf(nextRow) = ThisRow /\ PartOf(f) = "nodes"
      /\ nextRow = << f, k >> /\ f \in Nat \ {0} /\ k \in Nat \ {0} /\ FromFiles
  BY NextRowIs DEF ReadingFits
<1>2. input.format \in {"arc_node", "giscup", "melbourne", "seattle"} /\ input.format # "seattle"
  BY <1>1, FormatIs, PartsAre
<1>3. CASE input.format = "arc_node"
  <2>1. DOMAIN vertexMap = 0..k - 2
    BY <1>1, <1>3 DEF ReadingFits, NumbersFit
  <2>2. Cardinality(0..k - 2) = k - 1
    <3>1. 0 \in Int /\ k - 2 \in Int
      BY <1>1
    <3>2. Cardinality(0..k - 2) = IF 0 > k - 2 THEN 0 ELSE k - 2 - 0 + 1
      BY <3>1, FS_Interval
    <3> QED
      BY <1>1, <3>2
  <2>3. key = k - 1
    BY <1>3, <2>1, <2>2 DEF KeyOf
  <2>4. ASSUME NEW q \in Rows("nodes"), GroupAt(q[1]) = GroupAt(f), q[2] - 1 = k - 1 PROVE q = nextRow
    <3>1. q = << q[1], q[2] >> /\ q[1] \in Nat \ {0} /\ q[2] \in Nat \ {0} /\ PartOf(q[1]) = "nodes"
      BY <1>1, PlaceIs
    <3>2. q[2] = k
      BY <1>1, <2>4, <3>1
    <3>3. (q[1] - 1) \div 2 = (f - 1) \div 2
      BY <1>1, <1>3, <2>4, PartsAre DEF GroupAt
    <3>4. (q[1] - 1) % 2 = 0 /\ (f - 1) % 2 = 0
      BY <1>1, <1>3, <3>1, PartsAre
    <3>5. q[1] = f
      <4> HIDE DEF f
      <4> QED
        BY <1>1, <3>1, <3>3, <3>4
    <3> QED
      BY <1>1, <3>1, <3>2, <3>5
  <2>5. GroupAt(nextRow[1]) = GroupAt(f) /\ nextRow[2] - 1 = k - 1
    OBVIOUS
  <2>6. Named(f, key) = { RowOf(p).at : p \in { q \in Rows("nodes") : GroupAt(q[1]) = GroupAt(f) /\ q[2] - 1 = k - 1 } }
    BY <1>3, <2>3 DEF Named
  <2> HIDE DEF f, k, key
  <2>7. { q \in Rows("nodes") : GroupAt(q[1]) = GroupAt(f) /\ q[2] - 1 = k - 1 } = {nextRow}
    BY <1>1, <2>4, <2>5
  <2> QED
    BY <1>1, <2>6, <2>7 DEF f, key
<1>4. CASE input.format # "arc_node"
  <2>1. key = ThisRow.id
    BY <1>4 DEF KeyOf
  <2>2. ASSUME NEW q \in Rows("nodes"), RowOf(q).id = ThisRow.id PROVE q = nextRow
    <3>1. PartOf(q[1]) = "nodes" /\ PartOf(nextRow[1]) = "nodes"
      BY <1>1, PlaceIs
    <3> QED
      BY <1>1, <1>2, <1>4, <2>2, <3>1 DEF FilesAgree
  <2>3. { q \in Rows("nodes") : RowOf(q).id = key } = {nextRow}
    BY <1>1, <2>1, <2>2
  <2>4. Named(f, key) = { RowOf(p).at : p \in { q \in Rows("nodes") : RowOf(q).id = key } }
    BY <1>4 DEF Named
  <2> QED
    BY <1>1, <2>3, <2>4
<1> QED
  BY <1>3, <1>4

LEMMA NodeKeeps ==
  ASSUME GraphFits, ReadingFits, ReadVertex
  PROVE  GraphFits' /\ ReadingFits'
<1>0. PICK n, key : n = Len(netVertices) /\ key = KeyOf(ThisRow)
  OBVIOUS
<1>1. /\ AtRowOf("nodes") /\ RowRead /\ netEdges' = netEdges /\ edgeMap' = edgeMap /\ netStage' = netStage
      /\ netVertices' = Append(netVertices, [id |-> VertexId(ThisRow), at |-> ThisRow.at])
      /\ vertexMap' = Emplaced(vertexMap, key, Len(netVertices'))
  BY <1>0 DEF ReadVertex
<1>2. /\ nextRow \in Rows("nodes") /\ PartOf(nextRow[1]) = "nodes" /\ FromFiles
      /\ netStage = "reading" /\ nextRow[1] \in Nat \ {0} /\ nextRow[2] \in Nat \ {0}
  BY <1>1, NextRowIs DEF ReadingFits, AtRowOf
<1>3. /\ input' = input /\ nextRow'[1] = nextRow[1] /\ nextRow'[2] = nextRow[2] + 1
      /\ nextRow' \in (Nat \ {0}) \X (Nat \ {0})
      /\ \A other : \A q \in Rows(other) : IsDone(q)' <=> IsDone(q) \/ q = nextRow
  BY <1>1, DoneGrows
<1>4. /\ n \in Nat /\ DOMAIN netVertices = 1..n
      /\ IsList(netVertices') /\ Len(netVertices') = n + 1 /\ DOMAIN netVertices' = 1..n + 1
      /\ netVertices'[n + 1] = [id |-> VertexId(ThisRow), at |-> ThisRow.at] /\ \A i \in 1..n : netVertices'[i] = netVertices[i]
  BY <1>0, <1>1, ListGrows, ListIs DEF GraphFits
<1>5. VerticesGrow /\ EdgesGrow
  BY <1>1, <1>4 DEF VerticesGrow, EdgesGrow, GraphFits
<1>6. /\ DOMAIN vertexMap' = DOMAIN vertexMap \cup {key}
      /\ \A id \in DOMAIN vertexMap : vertexMap'[id] = vertexMap[id]
      /\ key \notin DOMAIN vertexMap => vertexMap'[key] = n + 1
  <2>1. vertexMap' = Emplaced(vertexMap, key, n + 1)
    BY <1>1, <1>4
  <2>2. /\ DOMAIN Emplaced(vertexMap, key, n + 1) = DOMAIN vertexMap \cup {key}
        /\ \A id \in DOMAIN vertexMap : Emplaced(vertexMap, key, n + 1)[id] = vertexMap[id]
        /\ key \notin DOMAIN vertexMap => Emplaced(vertexMap, key, n + 1)[key] = n + 1
    BY MapGrows
  <2> QED
    BY <2>1, <2>2
<1>7. GraphFits'
  <2>1. EdgesFit'
    BY <1>1, <1>5, EdgesFitStill DEF GraphFits
  <2>2. MapFits'
    BY <1>4, <1>6 DEF GraphFits, MapFits
  <2> QED
    BY <1>1, <1>4, <2>1, <2>2 DEF GraphFits
<1>8. RowsFit'
  <2>1. nextRow \notin EdgeRows
    <3>1. \A part : nextRow \in Rows(part) => part = "nodes"
      BY <1>2, RowsAre
    <3> QED
      BY <3>1 DEF EdgeRows
  <2>2. \A q \in EdgeRows : IsDone(q)' <=> IsDone(q)
    BY <1>3, <2>1 DEF EdgeRows
  <2> QED
    BY <1>1, <1>3, <2>2, RowsStay DEF ReadingFits
<1>9. NumbersFit'
  <2> SUFFICES ASSUME input.format = "arc_node" PROVE DOMAIN vertexMap' = 0..nextRow'[2] - 2
    BY <1>3 DEF NumbersFit
  <2> PICK k : k = nextRow[2]
    OBVIOUS
  <2>1. DOMAIN vertexMap = 0..k - 2 /\ k \in Nat \ {0}
    BY <1>2 DEF ReadingFits, NumbersFit
  <2>2. Cardinality(0..k - 2) = k - 1
    <3>1. 0 \in Int /\ k - 2 \in Int
      BY <2>1
    <3>2. Cardinality(0..k - 2) = IF 0 > k - 2 THEN 0 ELSE k - 2 - 0 + 1
      BY <3>1, FS_Interval
    <3> QED
      BY <2>1, <3>2
  <2>3. key = k - 1
    BY <1>0, <2>1, <2>2 DEF KeyOf
  <2>4. DOMAIN vertexMap' = (0..k - 2) \cup {k - 1} /\ nextRow'[2] = k + 1
    BY <1>3, <1>6, <2>1, <2>3
  <2> QED
    BY <2>1, <2>4
<1>10. EndsFit'
  BY <1>1, <1>3, FilesStay DEF ReadingFits, EndsFit
<1>11. ASSUME FilesAgree PROVE NodesFit'
  <2>1. input.format # "seattle"
    BY <1>2, PartsAre
  <2>2. ASSUME NEW id \in DOMAIN vertexMap PROVE Named(nextRow[1], id) = PlaceOf(id)'
    <3>1. Named(nextRow[1], id) = PlaceOf(id)
      BY <1>11, <2>1 DEF ReadingFits, NodesFit
    <3> QED
      BY <1>5, <1>6, <3>1, PlaceStays DEF GraphFits
  <2>3. key \notin DOMAIN vertexMap => Named(nextRow[1], key) = PlaceOf(key)'
    <3> SUFFICES ASSUME key \notin DOMAIN vertexMap PROVE Named(nextRow[1], key) = PlaceOf(key)'
      OBVIOUS
    <3>1. Named(nextRow[1], key) = {ThisRow.at}
      BY <1>0, <1>1, <1>11, NameIsNew
    <3>2. PlaceOf(key)' = {netVertices'[n + 1].at}
      BY <1>6 DEF PlaceOf
    <3> QED
      BY <1>4, <3>1, <3>2
  <2>4. \A id \in DOMAIN vertexMap' : Named(nextRow[1], id) = PlaceOf(id)'
    BY <1>6, <2>2, <2>3
  <2>5. \A id : Named(nextRow[1], id)' = Named(nextRow[1], id)
    BY <1>3 DEF Named, Rows, RowOf, GroupAt, GroupSize, PartOf, LastFile
  <2> QED
    BY <1>3, <2>1, <2>4, <2>5 DEF NodesFit
<1>12. FilesAgree' => NodesFit' /\ \A e \in DOMAIN netEdges' : Joins(e)'
  <2>1. FilesAgree' <=> FilesAgree
    BY <1>3, FilesStay
  <2>2. ASSUME FilesAgree, NEW e \in DOMAIN netEdges PROVE Joins(e)'
    BY <1>3, <1>5, <2>2, EdgeJoinsStill DEF GraphFits, ReadingFits
  <2> QED
    BY <1>1, <1>11, <2>1, <2>2
<1> QED
  BY <1>1, <1>2, <1>3, <1>7, <1>8, <1>9, <1>10, <1>12 DEF ReadingFits, FromFiles

\* A row becomes edges; what is left to show is about them and about the nodes.
LEMMA RowKeeps ==
  ASSUME GraphFits, ReadingFits, NEW part \in {"arcs", "geometry", "roads"}, AtRowOf(part), RowRead,
         netStage' = netStage, edgeMap' = edgeMap, VerticesGrow, EdgesGrow, MapFits',
         Len(netEdges') = Len(netEdges) + IF IsTwo(nextRow) THEN 2 ELSE 1,
         \A e \in DOMAIN netEdges' : e \notin DOMAIN netEdges =>
           /\ netEdges'[e].from \in DOMAIN netVertices' /\ netEdges'[e].to \in DOMAIN netVertices'
           /\ IsLine(netEdges'[e].line) /\ netEdges'[e].file = nextRow
           /\ FilesAgree => Joins(e)',
         FilesAgree => NodesFit'
  PROVE  GraphFits' /\ ReadingFits'
<1>1. /\ PartOf(nextRow[1]) = part /\ FromFiles /\ netStage = "reading"
      /\ input' = input /\ nextRow'[1] = nextRow[1] /\ nextRow' \in (Nat \ {0}) \X (Nat \ {0})
  BY NextRowIs, DoneGrows DEF ReadingFits, AtRowOf
<1>2. GraphFits'
  <2>1. EdgesFit'
    BY EdgesFitStill DEF GraphFits
  <2> QED
    BY <2>1 DEF GraphFits, VerticesGrow, EdgesGrow
<1>3. RowsFit'
  BY RowsGrow DEF GraphFits, EdgesGrow
<1>4. NumbersFit'
  <2>1. PartOf(nextRow[1])' = part
    BY <1>1 DEF PartOf
  <2> QED
    BY <2>1 DEF NumbersFit
<1>5. EndsFit'
  BY <1>1, FilesStay DEF ReadingFits, EndsFit
<1>6. FilesAgree' => NodesFit' /\ \A e \in DOMAIN netEdges' : Joins(e)'
  <2>1. FilesAgree' <=> FilesAgree
    BY <1>1, FilesStay
  <2>2. ASSUME FilesAgree, NEW e \in DOMAIN netEdges PROVE Joins(e)'
    BY <1>1, <2>2, EdgeJoinsStill DEF GraphFits, ReadingFits
  <2>3. ASSUME FilesAgree, NEW e \in DOMAIN netEdges' PROVE Joins(e)'
    BY <2>2, <2>3
  <2> QED
    BY <2>1, <2>3
<1> QED
  BY <1>1, <1>2, <1>3, <1>4, <1>5, <1>6 DEF ReadingFits, FromFiles

LEMMA NodesStay ==
  ASSUME MapFits, VerticesGrow, vertexMap' = vertexMap, input' = input, nextRow'[1] = nextRow[1], NodesFit
  PROVE  NodesFit' /\ MapFits'
<1>1. ASSUME NEW id \in DOMAIN vertexMap PROVE PlaceOf(id)' = PlaceOf(id) /\ vertexMap'[id] \in DOMAIN netVertices'
  BY PlaceStays
<1>2. \A n, id : Named(n, id)' = Named(n, id)
  BY FilesStay
<1>3. /\ Rows("roads")' = Rows("roads")
      /\ \A p : EndNames(p)' = EndNames(p) /\ NodesOf(p)' = NodesOf(p)
  BY FilesStay
<1>4. MapFits'
  BY <1>1 DEF MapFits
<1>5. CASE input.format = "seattle"
  <2>1. ASSUME NEW id \in DOMAIN vertexMap
        PROVE  \E p \in Rows("roads")', i \in 1..2 : EndNames(p)'[i] = id /\ NodesOf(p)'[i] = PlaceOf(id)'
    <3>1. PICK p \in Rows("roads"), i \in 1..2 : EndNames(p)[i] = id /\ NodesOf(p)[i] = PlaceOf(id)
      BY <1>5 DEF NodesFit
    <3> QED
      BY <1>1, <1>3, <3>1
  <2>2. \A id \in DOMAIN vertexMap' :
          \E p \in Rows("roads")', i \in 1..2 : EndNames(p)'[i] = id /\ NodesOf(p)'[i] = PlaceOf(id)'
    BY <2>1
  <2>3. input'.format = "seattle"
    BY <1>5
  <2>4. NodesFit'
    BY <2>2, <2>3, Zenon DEF NodesFit
  <2> QED
    BY <1>4, <2>4
<1>6. CASE input.format # "seattle"
  <2>1. \A id \in DOMAIN vertexMap' : Named(nextRow[1], id) = PlaceOf(id)'
    BY <1>1, <1>6 DEF NodesFit
  <2>2. \A id : Named(nextRow[1], id)' = Named(nextRow[1], id)
    BY DEF Named, Rows, RowOf, GroupAt, GroupSize, PartOf, LastFile
  <2>3. \A id \in DOMAIN vertexMap' : Named(nextRow[1], id)' = PlaceOf(id)'
    BY <2>1, <2>2
  <2>4. input'.format # "seattle"
    BY <1>6
  <2>5. NodesFit'
    BY <2>3, <2>4, Zenon DEF NodesFit
  <2> QED
    BY <1>4, <2>5
<1> QED
  BY <1>4, <1>5, <1>6

\* A row that becomes one edge between nodes that are known.
LEMMA EdgeKeeps ==
  ASSUME GraphFits, ReadingFits, NEW part \in {"arcs", "geometry"}, AtRowOf(part), RowRead,
         UNCHANGED << netVertices, vertexMap, edgeMap, netStage >>,
         NEW id, NEW from \in DOMAIN netVertices, NEW to \in DOMAIN netVertices, NEW drawn, IsLine(drawn),
         netEdges' = Append(netEdges, NewEdge(id, from, to, drawn)),
         FilesAgree => /\ NodesOf(nextRow) = << {netVertices[from].at}, {netVertices[to].at} >>
                       /\ drawn[1] = netVertices[from].at /\ Last(drawn) = netVertices[to].at
  PROVE  GraphFits' /\ ReadingFits'
<1>0. PICK n, edge, row : n = Len(netEdges) /\ edge = NewEdge(id, from, to, drawn) /\ row = nextRow
  OBVIOUS
<1>1. edge.from = from /\ edge.to = to /\ edge.line = drawn /\ edge.file = row
  BY <1>0 DEF NewEdge
<1>2. /\ n \in Nat /\ DOMAIN netEdges = 1..n
      /\ IsList(netEdges') /\ Len(netEdges') = n + 1 /\ DOMAIN netEdges' = 1..n + 1
      /\ netEdges'[n + 1] = edge /\ \A i \in 1..n : netEdges'[i] = netEdges[i]
  BY <1>0, ListGrows, ListIs DEF GraphFits
<1>3. VerticesGrow /\ EdgesGrow
  BY <1>2 DEF VerticesGrow, EdgesGrow, GraphFits
<1>4. input' = input /\ nextRow'[1] = nextRow[1] /\ PartOf(nextRow[1]) = part
  BY DoneGrows, NextRowIs
<1>5. ~IsTwo(nextRow)
  BY <1>4 DEF IsTwo
<1>6. MapFits'
  BY DEF GraphFits, MapFits
<1>7. FilesAgree => NodesFit'
  BY <1>3, <1>4, NodesStay DEF GraphFits, ReadingFits
<1>8. ASSUME NEW e \in DOMAIN netEdges', e \notin DOMAIN netEdges
      PROVE  /\ netEdges'[e].from \in DOMAIN netVertices' /\ netEdges'[e].to \in DOMAIN netVertices'
             /\ IsLine(netEdges'[e].line) /\ netEdges'[e].file = nextRow
             /\ FilesAgree => Joins(e)'
  <2>1. netEdges'[e] = edge
    BY <1>2, <1>8
  <2>2. ASSUME FilesAgree PROVE Joins(e)'
    <3>1. NodesOf(row)' = << {netVertices[from].at}, {netVertices[to].at} >>
      BY <1>0, <1>4, <2>2, FilesStay
    <3> QED
      BY <1>1, <2>1, <2>2, <3>1 DEF Joins
  <2> QED
    BY <1>0, <1>1, <2>1, <2>2
<1>9. Len(netEdges') = Len(netEdges) + IF IsTwo(nextRow) THEN 2 ELSE 1
  BY <1>0, <1>2, <1>5
<1> QED
  BY <1>3, <1>6, <1>7, <1>8, <1>9, RowKeeps

LEMMA GraphIsKept ==
  ASSUME NetworkStays, GraphFits
  PROVE  GraphFits'
<1>1. netVertices' = netVertices /\ netEdges' = netEdges /\ vertexMap' = vertexMap
  BY DEF NetworkStays
<1>2. EdgesFit' <=> EdgesFit
  BY <1>1 DEF EdgesFit
<1>3. MapFits' <=> MapFits
  BY <1>1 DEF MapFits
<1> QED
  BY <1>1, <1>2, <1>3 DEF GraphFits

LEMMA FilesAreKept ==
  ASSUME NetworkStays, GraphFits, ReadingFits, netStage' \in {"writing", "written"} => nextRow[1] > LastFile
  PROVE  GraphFits' /\ ReadingFits'
<1>1. /\ input' = input /\ nextRow' = nextRow /\ netVertices' = netVertices /\ netEdges' = netEdges
      /\ vertexMap' = vertexMap /\ edgeMap' = edgeMap
  BY DEF NetworkStays
<1>2. GraphFits'
  BY GraphIsKept
<1>3. VerticesGrow /\ EdgesGrow
  BY <1>1 DEF VerticesGrow, EdgesGrow, GraphFits
<1>5. /\ \A part : Rows(part)' = Rows(part)
      /\ EdgeRows' = EdgeRows /\ LastFile' = LastFile
      /\ \A p : RowOf(p)' = RowOf(p)
      /\ FilesAgree' <=> FilesAgree
  BY <1>1, FilesStay
<1>6. RowsFit'
  <2>1. \A q : IsDone(q)' <=> IsDone(q)
    BY <1>1 DEF IsDone
  <2> QED
    BY <1>1, <2>1, RowsStay DEF ReadingFits
<1>7. NumbersFit'
  BY <1>1 DEF ReadingFits, NumbersFit, PartOf
<1>8. EndsFit'
  BY <1>1, <1>5 DEF ReadingFits, EndsFit
<1>9. NodesFit => NodesFit'
  <2>1. nextRow'[1] = nextRow[1]
    BY <1>1
  <2> QED
    BY <1>1, <1>3, <2>1, NodesStay DEF GraphFits
<1>10. \A e \in DOMAIN netEdges : Joins(e) => Joins(e)'
  BY <1>1, <1>3, EdgeJoinsStill DEF GraphFits
<1>11. FilesAgree' => NodesFit' /\ \A e \in DOMAIN netEdges' : Joins(e)'
  BY <1>1, <1>5, <1>9, <1>10 DEF ReadingFits
<1>12. FromFiles' /\ nextRow' \in (Nat \ {0}) \X (Nat \ {0})
  BY <1>1 DEF ReadingFits, FromFiles
<1>13. netStage' \in {"writing", "written"} => nextRow'[1] > LastFile'
  BY <1>1, <1>5
<1> QED
  BY <1>2, <1>6, <1>7, <1>8, <1>11, <1>12, <1>13, Zenon DEF ReadingFits

LEMMA ThrowKeeps ==
  ASSUME GraphFits, ReadingFits, Throw
  PROVE  GraphFits' /\ ReadingFits'
<1>1. NetworkStays /\ netStage' = "threw"
  BY DEF Throw, NetworkStays
<1> QED
  BY <1>1, FilesAreKept

LEMMA ArcKeeps ==
  ASSUME GraphFits, ReadingFits, ReadArc
  PROVE  GraphFits' /\ ReadingFits'
<1>1. AtRowOf("arcs")
  BY DEF ReadArc
<1>2. /\ nextRow \in Rows("arcs") /\ RowOf(nextRow) = ThisRow /\ PartOf(nextRow[1]) = "arcs"
      /\ nextRow[1] \in Nat \ {0} /\ FromFiles
  BY <1>1, NextRowIs DEF ReadingFits
<1>3. CASE {ThisRow.from, ThisRow.to} \subseteq DOMAIN vertexMap
  <2> PICK from, to, drawn : from = vertexMap[ThisRow.from] /\ to = vertexMap[ThisRow.to] /\ drawn = Straight(from, to)
    OBVIOUS
  <2>1. /\ RowRead /\ UNCHANGED << netVertices, vertexMap, edgeMap, netStage >>
        /\ netEdges' = Append(netEdges, NewEdge(VertexId(ThisRow), from, to, drawn))
    BY <1>3 DEF ReadArc
  <2>2. from \in DOMAIN netVertices /\ to \in DOMAIN netVertices
    BY <1>3 DEF GraphFits, MapFits
  <2>3. IsLine(drawn) /\ drawn[1] = netVertices[from].at /\ Last(drawn) = netVertices[to].at
    <3> PICK a, b : a = netVertices[from].at /\ b = netVertices[to].at
      OBVIOUS
    <3>1. drawn = << a, b >>
      BY DEF Straight
    <3>2. IsList(<< a, b >>) /\ Len(<< a, b >>) = 2
      BY PairIs
    <3> QED
      BY <3>1, <3>2 DEF IsLine, Last
  <2>4. ASSUME FilesAgree PROVE NodesOf(nextRow) = << {netVertices[from].at}, {netVertices[to].at} >>
    <3>1. input.format # "seattle"
      BY <1>2, PartsAre
    <3>2. Named(nextRow[1], ThisRow.from) = PlaceOf(ThisRow.from) /\ Named(nextRow[1], ThisRow.to) = PlaceOf(ThisRow.to)
      BY <1>3, <2>4, <3>1 DEF ReadingFits, NodesFit
    <3>3. EndNames(nextRow) = << ThisRow.from, ThisRow.to >>
      BY <1>2 DEF EndNames
    <3>4. NodesOf(nextRow) = [k \in 1..2 |-> Named(nextRow[1], EndNames(nextRow)[k])]
      BY <1>2 DEF NodesOf
    <3>5. NodesOf(nextRow) = << Named(nextRow[1], ThisRow.from), Named(nextRow[1], ThisRow.to) >>
      BY <3>3, <3>4
    <3> QED
      BY <3>2, <3>5 DEF PlaceOf
  <2> QED
    BY <1>1, <2>1, <2>2, <2>3, <2>4, EdgeKeeps
<1>4. CASE ~({ThisRow.from, ThisRow.to} \subseteq DOMAIN vertexMap)
  BY <1>4, ThrowKeeps DEF ReadArc
<1> QED
  BY <1>3, <1>4

LEMMA EndsKeep ==
  ASSUME GraphFits, ReadingFits, KeepEnds
  PROVE  GraphFits' /\ ReadingFits'
<1>1. /\ AtRowOf("ends") /\ RowRead /\ UNCHANGED << netVertices, netEdges, vertexMap, netStage >>
      /\ edgeMap' = Emplaced(edgeMap, ThisRow.id, << ThisRow.from, ThisRow.to >>)
  BY DEF KeepEnds
<1>2. /\ nextRow \in Rows("ends") /\ RowOf(nextRow) = ThisRow /\ PartOf(nextRow[1]) = "ends"
      /\ nextRow[1] \in Nat \ {0} /\ FromFiles /\ netStage = "reading"
  BY <1>1, NextRowIs DEF ReadingFits, AtRowOf
<1>3. /\ input' = input /\ nextRow'[1] = nextRow[1] /\ nextRow' \in (Nat \ {0}) \X (Nat \ {0})
      /\ \A other : \A q \in Rows(other) : IsDone(q)' <=> IsDone(q) \/ q = nextRow
  BY <1>1, DoneGrows
<1>4. GraphFits'
  <2>1. EdgesFit' <=> EdgesFit
    BY <1>1 DEF EdgesFit
  <2>2. MapFits' <=> MapFits
    BY <1>1 DEF MapFits
  <2> QED
    BY <1>1, <2>1, <2>2 DEF GraphFits
<1>5. RowsFit'
  <2>1. nextRow \notin EdgeRows
    <3>1. \A part : nextRow \in Rows(part) => part = "ends"
      BY <1>2, RowsAre
    <3> QED
      BY <3>1 DEF EdgeRows
  <2>2. \A q \in EdgeRows : IsDone(q)' <=> IsDone(q)
    BY <1>3, <2>1 DEF EdgeRows
  <2> QED
    BY <1>1, <1>3, <2>2, RowsStay DEF ReadingFits
<1>6. NumbersFit'
  <2>1. PartOf(nextRow[1])' = "ends"
    BY <1>2, <1>3 DEF PartOf
  <2> QED
    BY <2>1 DEF NumbersFit
<1>7. EndsFit'
  <2>1. /\ DOMAIN edgeMap' = DOMAIN edgeMap \cup {ThisRow.id}
        /\ \A x \in DOMAIN edgeMap : edgeMap'[x] = edgeMap[x]
        /\ ThisRow.id \notin DOMAIN edgeMap => edgeMap'[ThisRow.id] = << ThisRow.from, ThisRow.to >>
    <3> PICK old, id, ends : old = edgeMap /\ id = ThisRow.id /\ ends = << ThisRow.from, ThisRow.to >>
      OBVIOUS
    <3>1. /\ DOMAIN Emplaced(old, id, ends) = DOMAIN old \cup {id}
          /\ \A x \in DOMAIN old : Emplaced(old, id, ends)[x] = old[x]
          /\ id \notin DOMAIN old => Emplaced(old, id, ends)[id] = ends
      BY DEF Emplaced
    <3> QED
      BY <1>1, <3>1
  <2>2. ASSUME NEW id \in DOMAIN edgeMap'
        PROVE  \E p \in Rows("ends") : RowOf(p).id = id /\ edgeMap'[id] = << RowOf(p).from, RowOf(p).to >>
    <3>1. CASE id \in DOMAIN edgeMap
      BY <2>1, <3>1 DEF ReadingFits, EndsFit
    <3>2. CASE id \notin DOMAIN edgeMap
      BY <1>2, <2>1, <2>2, <3>2
    <3> QED
      BY <3>1, <3>2
  <2>3. Rows("ends")' = Rows("ends") /\ \A p : RowOf(p)' = RowOf(p)
    BY <1>3, FilesStay
  <2> QED
    BY <2>2, <2>3 DEF EndsFit
<1>8. VerticesGrow /\ EdgesGrow
  BY <1>1 DEF VerticesGrow, EdgesGrow, GraphFits
<1>9. FilesAgree' => NodesFit' /\ \A e \in DOMAIN netEdges' : Joins(e)'
  <2>1. FilesAgree' <=> FilesAgree
    BY <1>3, FilesStay
  <2>2. ASSUME FilesAgree, NEW e \in DOMAIN netEdges PROVE Joins(e)'
    BY <1>3, <1>8, <2>2, EdgeJoinsStill DEF GraphFits, ReadingFits
  <2>3. FilesAgree => NodesFit'
    BY <1>1, <1>3, <1>8, NodesStay DEF GraphFits, ReadingFits
  <2> QED
    BY <1>1, <2>1, <2>2, <2>3
<1> QED
  BY <1>1, <1>2, <1>3, <1>4, <1>5, <1>6, <1>7, <1>9 DEF ReadingFits, FromFiles

LEMMA GeometryKeeps ==
  ASSUME GraphFits, ReadingFits, ReadGeometry
  PROVE  GraphFits' /\ ReadingFits'
<1>1. AtRowOf("geometry")
  BY DEF ReadGeometry
<1>2. /\ nextRow \in Rows("geometry") /\ RowOf(nextRow) = ThisRow /\ PartOf(nextRow[1]) = "geometry"
      /\ nextRow[1] \in Nat \ {0} /\ FromFiles
  BY <1>1, NextRowIs DEF ReadingFits
<1>3. CASE ThisRow.id \in DOMAIN edgeMap /\ ToSet(edgeMap[ThisRow.id]) \subseteq DOMAIN vertexMap
  <2>0. PICK p \in Rows("ends") : RowOf(p).id = ThisRow.id /\ edgeMap[ThisRow.id] = << RowOf(p).from, RowOf(p).to >>
    BY <1>3 DEF ReadingFits, EndsFit
  <2> PICK a, b : a = RowOf(p).from /\ b = RowOf(p).to
    OBVIOUS
  <2> PICK from, to : from = vertexMap[a] /\ to = vertexMap[b]
    OBVIOUS
  <2>1. edgeMap[ThisRow.id] = << a, b >> /\ {a, b} \subseteq DOMAIN vertexMap
    <3>1. edgeMap[ThisRow.id] = << a, b >>
      BY <2>0
    <3>2. ToSet(<< a, b >>) = {a, b}
      BY DEF ToSet
    <3> QED
      BY <1>3, <3>1, <3>2
  <2>2. /\ RowRead /\ UNCHANGED << netVertices, vertexMap, edgeMap, netStage >>
        /\ netEdges' = Append(netEdges, NewEdge(ThisRow.id, from, to, ThisRow.line))
    BY <1>3, <2>1 DEF ReadGeometry
  <2>3. from \in DOMAIN netVertices /\ to \in DOMAIN netVertices
    BY <2>1 DEF GraphFits, MapFits
  <2>4. IsLine(ThisRow.line)
    <3>1. nextRow[2] \in DOMAIN input.files[nextRow[1]] /\ IsFile("geometry", input.files[nextRow[1]])
          /\ RowOf(nextRow) = input.files[nextRow[1]][nextRow[2]]
      BY <1>2, PlaceIs
    <3> QED
      BY <1>2, <3>1 DEF IsFile
  <2>5. ASSUME FilesAgree
        PROVE  /\ NodesOf(nextRow) = << {netVertices[from].at}, {netVertices[to].at} >>
               /\ ThisRow.line[1] = netVertices[from].at /\ Last(ThisRow.line) = netVertices[to].at
    <3>1. input.format = "giscup"
      BY <1>2, FormatIs, PartsAre
    <3>2. Named(nextRow[1], a) = PlaceOf(a) /\ Named(nextRow[1], b) = PlaceOf(b)
      BY <2>1, <2>5, <3>1 DEF ReadingFits, NodesFit
    <3>3. ASSUME NEW q \in Rows("ends"), RowOf(q).id = ThisRow.id PROVE q = p
      <4>1. PartOf(q[1]) = "ends" /\ PartOf(p[1]) = "ends"
        BY <1>2, PlaceIs
      <4> QED
        BY <2>0, <2>5, <3>1, <3>3, <4>1 DEF FilesAgree
    <3>4. EndNames(nextRow) = << a, b >>
      <4> DEFINE row == CHOOSE q \in Rows("ends") : RowOf(q).id = RowOf(nextRow).id
      <4>1. row = p
        BY <1>2, <2>0, <3>3
      <4>2. EndNames(nextRow) = << RowOf(row).from, RowOf(row).to >>
        BY <1>2 DEF EndNames
      <4> QED
        BY <4>1, <4>2
    <3>5. NodesOf(nextRow) = [k \in 1..2 |-> Named(nextRow[1], EndNames(nextRow)[k])]
      BY <1>2 DEF NodesOf
    <3>6. NodesOf(nextRow) = << Named(nextRow[1], a), Named(nextRow[1], b) >>
      BY <3>4, <3>5
    <3>7. NodesOf(nextRow) = << {netVertices[from].at}, {netVertices[to].at} >>
      BY <3>2, <3>6 DEF PlaceOf
    <3>8. NodesOf(nextRow) = << {ThisRow.line[1]}, {Last(ThisRow.line)} >>
      BY <1>2, <2>5 DEF FilesAgree
    <3>9. {ThisRow.line[1]} = {netVertices[from].at} /\ {Last(ThisRow.line)} = {netVertices[to].at}
      BY <3>7, <3>8
    <3> QED
      BY <3>7, <3>9
  <2> QED
    BY <1>1, <2>2, <2>3, <2>4, <2>5, EdgeKeeps
<1>4. CASE ~(ThisRow.id \in DOMAIN edgeMap /\ ToSet(edgeMap[ThisRow.id]) \subseteq DOMAIN vertexMap)
  BY <1>4, ThrowKeeps DEF ReadGeometry
<1> QED
  BY <1>3, <1>4

LEMMA PairTurns ==
  ASSUME NEW a, NEW b
  PROVE  Reverse(<< a, b >>) = << b, a >>
<1>1. Len(<< a, b >>) = 2
  OBVIOUS
<1>2. Reverse(<< a, b >>) = [i \in 1..2 |-> << a, b >>[(2 - i) + 1]]
  BY <1>1 DEF Reverse
<1>3. << b, a >> = [i \in 1..2 |-> IF i = 1 THEN b ELSE a]
  BY PairIs
<1>4. \A i \in 1..2 : << a, b >>[(2 - i) + 1] = IF i = 1 THEN b ELSE a
  OBVIOUS
<1> QED
  BY <1>2, <1>3, <1>4

LEMMA OneIs ==
  ASSUME NEW a
  PROVE  IsList(<< a >>) /\ Len(<< a >>) = 1 /\ << a >>[1] = a
<1>1. << a >> \in Seq({a})
  OBVIOUS
<1> QED
  BY <1>1, ListOf

LEMMA NoneIs == IsList(<< >>) /\ Len(<< >>) = 0
<1>1. << >> \in Seq({})
  OBVIOUS
<1> QED
  BY <1>1, ListOf

LEMMA MeetIs ==
  ASSUME NEW vs, IsList(vs), NEW map, \A x \in DOMAIN map : map[x] \in DOMAIN vs,
         NEW id, NEW at, NEW m, m = Meet(vs, map, id, at)
  PROVE  /\ IsList(m.vertices) /\ \A v \in DOMAIN vs : v \in DOMAIN m.vertices /\ m.vertices[v] = vs[v]
         /\ DOMAIN m.map = DOMAIN map \cup {id} /\ \A x \in DOMAIN map : m.map[x] = map[x]
         /\ \A x \in DOMAIN m.map : m.map[x] \in DOMAIN m.vertices
         /\ id \notin DOMAIN map => m.vertices[m.map[id]].at = at
<1>1. CASE id \in DOMAIN map
  <2>1. m.vertices = vs /\ m.map = map
    BY <1>1 DEF Meet, Met
  <2> QED
    BY <1>1, <2>1
<1>2. CASE id \notin DOMAIN map
  <2> DEFINE n == Len(vs)
             v == [id |-> id, at |-> at]
             grown == Append(vs, v)
             known == Emplaced(map, id, n + 1)
  <2>1. m.vertices = grown /\ m.map = known
    BY <1>2 DEF Meet
  <2>2. /\ n \in Nat /\ DOMAIN vs = 1..n
        /\ IsList(grown) /\ DOMAIN grown = 1..n + 1 /\ grown[n + 1] = v /\ \A i \in 1..n : grown[i] = vs[i]
    BY ListIs, ListGrows
  <2>3. /\ DOMAIN known = DOMAIN map \cup {id}
        /\ \A x \in DOMAIN map : known[x] = map[x]
        /\ known[id] = n + 1
    BY <1>2 DEF Emplaced
  <2>4. v.at = at
    OBVIOUS
  <2> HIDE DEF n, v, grown, known
  <2>5. \A i \in 1..n : i \in 1..n + 1
    BY <2>2
  <2>6. n + 1 \in 1..n + 1
    BY <2>2
  <2> QED
    BY <2>1, <2>2, <2>3, <2>4, <2>5, <2>6
<1> QED
  BY <1>1, <1>2

LEMMA RoadKeeps ==
  ASSUME GraphFits, ReadingFits, ReadRoad
  PROVE  GraphFits' /\ ReadingFits'
<1>1. AtRowOf("roads") /\ RowRead /\ UNCHANGED << edgeMap, netStage >>
  BY DEF ReadRoad
<1>2. /\ nextRow \in Rows("roads") /\ RowOf(nextRow) = ThisRow /\ PartOf(nextRow[1]) = "roads"
      /\ nextRow[1] \in Nat \ {0} /\ FromFiles
  BY <1>1, NextRowIs DEF ReadingFits
<1>3. input.format = "seattle"
  BY <1>2, FormatIs, PartsAre
<1>31. PICK row, n : row = nextRow /\ n = Len(netEdges)
  OBVIOUS
<1>32. PICK id, a, b, line, two : id = ThisRow.id /\ a = ThisRow.from /\ b = ThisRow.to /\ line = ThisRow.line /\ two = ThisRow.two
  OBVIOUS
<1>33. PICK one : one = Meet(netVertices, vertexMap, a, line[1])
  OBVIOUS
<1>34. PICK both : both = Meet(one.vertices, one.map, b, Last(line))
  OBVIOUS
<1>35. PICK from, to : from = both.map[a] /\ to = both.map[b]
  OBVIOUS
<1>36. PICK there, back : there = NewEdge(id, from, to, line) /\ back = NewEdge(id, to, from, Reverse(line))
  OBVIOUS
<1>37. PICK rest : rest = IF two THEN << back >> ELSE << >>
  OBVIOUS
<1>38. PICK m : m = Len(rest)
  OBVIOUS
<1>4. netVertices' = both.vertices /\ vertexMap' = both.map /\ netEdges' = (netEdges \o << there >>) \o rest
  BY <1>31, <1>32, <1>33, <1>34, <1>35, <1>36, <1>37 DEF ReadRoad
<1>5. IsLine(line) /\ two \in BOOLEAN
  <2>1. nextRow[2] \in DOMAIN input.files[nextRow[1]] /\ IsFile("roads", input.files[nextRow[1]])
        /\ RowOf(nextRow) = input.files[nextRow[1]][nextRow[2]]
    BY <1>2, PlaceIs
  <2> QED
    BY <1>2, <1>32, <2>1 DEF IsFile
<1>6. IsTwo(nextRow) <=> two
  BY <1>2, <1>5, <1>32 DEF IsTwo
<1>7. /\ IsList(one.vertices) /\ \A v \in DOMAIN netVertices : v \in DOMAIN one.vertices /\ one.vertices[v] = netVertices[v]
      /\ DOMAIN one.map = DOMAIN vertexMap \cup {a} /\ \A x \in DOMAIN vertexMap : one.map[x] = vertexMap[x]
      /\ \A x \in DOMAIN one.map : one.map[x] \in DOMAIN one.vertices
      /\ a \notin DOMAIN vertexMap => one.vertices[one.map[a]].at = line[1]
  <2>1. IsList(netVertices) /\ \A x \in DOMAIN vertexMap : vertexMap[x] \in DOMAIN netVertices
    BY DEF GraphFits, MapFits
  <2>2. PICK vs, map, at : vs = netVertices /\ map = vertexMap /\ at = line[1]
    OBVIOUS
  <2>3. one = Meet(vs, map, a, at)
    BY <1>33, <2>2
  <2>4. IsList(vs) /\ \A x \in DOMAIN map : map[x] \in DOMAIN vs
    BY <2>1, <2>2
  <2>5. /\ IsList(one.vertices) /\ \A v \in DOMAIN vs : v \in DOMAIN one.vertices /\ one.vertices[v] = vs[v]
        /\ DOMAIN one.map = DOMAIN map \cup {a} /\ \A x \in DOMAIN map : one.map[x] = map[x]
        /\ \A x \in DOMAIN one.map : one.map[x] \in DOMAIN one.vertices
        /\ a \notin DOMAIN map => one.vertices[one.map[a]].at = at
    BY <2>3, <2>4, MeetIs
  <2> QED
    BY <2>2, <2>5
<1>8. /\ IsList(both.vertices) /\ \A v \in DOMAIN one.vertices : v \in DOMAIN both.vertices /\ both.vertices[v] = one.vertices[v]
      /\ DOMAIN both.map = DOMAIN one.map \cup {b} /\ \A x \in DOMAIN one.map : both.map[x] = one.map[x]
      /\ \A x \in DOMAIN both.map : both.map[x] \in DOMAIN both.vertices
      /\ b \notin DOMAIN one.map => both.vertices[both.map[b]].at = Last(line)
  <2>1. PICK vs, map, at : vs = one.vertices /\ map = one.map /\ at = Last(line)
    OBVIOUS
  <2>2. both = Meet(vs, map, b, at)
    BY <1>34, <2>1
  <2>3. IsList(vs) /\ \A x \in DOMAIN map : map[x] \in DOMAIN vs
    BY <1>7, <2>1
  <2>4. /\ IsList(both.vertices) /\ \A v \in DOMAIN vs : v \in DOMAIN both.vertices /\ both.vertices[v] = vs[v]
        /\ DOMAIN both.map = DOMAIN map \cup {b} /\ \A x \in DOMAIN map : both.map[x] = map[x]
        /\ \A x \in DOMAIN both.map : both.map[x] \in DOMAIN both.vertices
        /\ b \notin DOMAIN map => both.vertices[both.map[b]].at = at
    BY <2>2, <2>3, MeetIs
  <2> QED
    BY <2>1, <2>4
<1>9. from \in DOMAIN netVertices' /\ to \in DOMAIN netVertices' /\ {a, b} \subseteq DOMAIN vertexMap'
  BY <1>4, <1>7, <1>8, <1>35
<1>10. VerticesGrow /\ MapFits'
  BY <1>4, <1>7, <1>8 DEF VerticesGrow, MapFits
<1>11. /\ IsList(netEdges') /\ n \in Nat /\ DOMAIN netEdges = 1..n
       /\ Len(netEdges') = n + 1 + m /\ DOMAIN netEdges' = 1..n + 1 + m
       /\ two => m = 1
       /\ ~two => m = 0
       /\ \A e \in 1..n : netEdges'[e] = netEdges[e]
       /\ netEdges'[n + 1] = there
       /\ two => netEdges'[n + 2] = back
  <2>1. IsList(netEdges) /\ n \in Nat /\ DOMAIN netEdges = 1..n
    BY <1>31, ListIs DEF GraphFits
  <2>2. IsList(<< there >>) /\ Len(<< there >>) = 1 /\ << there >>[1] = there
    BY OneIs
  <2>3. /\ IsList(rest)
        /\ two => m = 1 /\ rest[1] = back
        /\ ~two => m = 0
    BY <1>5, <1>37, <1>38, OneIs, NoneIs
  <2>10. PICK s, t : s = netEdges /\ t = << there >>
    OBVIOUS
  <2>11. PICK u : u = s \o t
    OBVIOUS
  <2>4. /\ IsList(u) /\ Len(u) = n + 1 /\ u[n + 1] = there
        /\ \A e \in 1..n : u[e] = s[e]
    <3>1. /\ IsList(s \o t) /\ Len(s \o t) = Len(s) + Len(t)
          /\ \A i \in 1..Len(s) : (s \o t)[i] = s[i]
          /\ \A i \in 1..Len(t) : (s \o t)[Len(s) + i] = t[i]
      BY <2>1, <2>2, <2>10, ListsJoin
    <3>2. Len(s) = n /\ Len(t) = 1 /\ 1 \in 1..1
      BY <1>31, <2>2, <2>10
    <3>3. u[n + 1] = there
      BY <2>2, <2>10, <2>11, <3>1, <3>2
    <3> QED
      BY <2>11, <3>1, <3>2, <3>3
  <2>5. netEdges' = u \o rest
    BY <1>4, <2>10, <2>11
  <2>6. /\ IsList(u \o rest) /\ Len(u \o rest) = n + 1 + m /\ DOMAIN (u \o rest) = 1..n + 1 + m
        /\ \A i \in 1..n + 1 : (u \o rest)[i] = u[i]
        /\ \A i \in 1..m : (u \o rest)[n + 1 + i] = rest[i]
    <3>1. IsList(u) /\ IsList(rest)
      BY <2>3, <2>4
    <3>2. /\ IsList(u \o rest) /\ Len(u \o rest) = Len(u) + Len(rest) /\ DOMAIN (u \o rest) = 1..Len(u) + Len(rest)
          /\ \A i \in 1..Len(u) : (u \o rest)[i] = u[i]
          /\ \A i \in 1..Len(rest) : (u \o rest)[Len(u) + i] = rest[i]
      BY <3>1, ListsJoin
    <3>3. Len(u) = n + 1
      BY <2>4
    <3> QED
      BY <1>38, <3>2, <3>3
  <2>7. netEdges'[n + 1] = there /\ \A e \in 1..n : netEdges'[e] = netEdges[e]
    <3>1. n + 1 \in 1..n + 1 /\ \A e \in 1..n : e \in 1..n + 1
      BY <2>1
    <3> QED
      BY <2>4, <2>5, <2>6, <2>10, <3>1
  <2>8. two => netEdges'[n + 2] = back
    <3> SUFFICES ASSUME two PROVE netEdges'[n + 2] = back
      OBVIOUS
    <3>1. n + 1 + 1 = n + 2
      BY <2>1
    <3>2. m = 1 /\ rest[1] = back /\ 1 \in 1..m
      BY <2>3
    <3>3. (u \o rest)[n + 1 + 1] = rest[1]
      BY <2>6, <3>2
    <3> QED
      BY <2>5, <3>1, <3>2, <3>3
  <2>9. IsList(netEdges') /\ Len(netEdges') = n + 1 + m /\ DOMAIN netEdges' = 1..n + 1 + m
    BY <2>5, <2>6
  <2> QED
    BY <2>1, <2>3, <2>7, <2>8, <2>9
<1>39. m \in {0, 1} /\ (two <=> m = 1)
  BY <1>5, <1>11
<1>12. EdgesGrow
  BY <1>11, <1>39 DEF EdgesGrow
<1>13. input' = input /\ nextRow'[1] = nextRow[1]
  BY <1>1, DoneGrows
<1>14. /\ \A p : EndNames(p)' = EndNames(p) /\ NodesOf(p)' = NodesOf(p)
       /\ Rows("roads")' = Rows("roads") /\ \A p : IsTwo(p)' <=> IsTwo(p)
  BY <1>13, FilesStay
<1>15. EndNames(nextRow) = << a, b >> /\ NodesOf(nextRow) = << {line[1]}, {Last(line)} >>
  BY <1>2, <1>32 DEF EndNames, NodesOf
<1>16. \A x : PlaceOf(x)' = {both.vertices[both.map[x]].at}
  BY <1>4 DEF PlaceOf
<1>17. ASSUME FilesAgree, NEW x \in DOMAIN vertexMap'
       PROVE  \E p \in Rows("roads"), i \in 1..2 : EndNames(p)[i] = x /\ NodesOf(p)[i] = PlaceOf(x)'
  <2>1. CASE x \in DOMAIN vertexMap
    <3>1. vertexMap'[x] = vertexMap[x]
      BY <1>4, <1>7, <1>8, <2>1
    <3>2. PlaceOf(x)' = PlaceOf(x)
      BY <1>10, <2>1, <3>1, PlaceStays DEF GraphFits
    <3>3. PICK p \in Rows("roads"), i \in 1..2 : EndNames(p)[i] = x /\ NodesOf(p)[i] = PlaceOf(x)
      BY <1>3, <1>17, <2>1 DEF ReadingFits, NodesFit
    <3> QED
      BY <3>2, <3>3
  <2>2. CASE x \notin DOMAIN vertexMap /\ x = a
    <3>1. both.vertices[both.map[x]].at = line[1]
      BY <1>7, <1>8, <2>2
    <3>2. EndNames(nextRow)[1] = x /\ NodesOf(nextRow)[1] = PlaceOf(x)' /\ 1 \in 1..2
      BY <1>15, <1>16, <2>2, <3>1
    <3> QED
      BY <1>2, <3>2
  <2>3. CASE x \notin DOMAIN vertexMap /\ x # a
    <3>1. x = b /\ b \notin DOMAIN one.map
      BY <1>4, <1>7, <1>8, <1>17, <2>3
    <3>2. both.vertices[both.map[x]].at = Last(line)
      BY <1>8, <3>1
    <3>3. EndNames(nextRow)[2] = x /\ NodesOf(nextRow)[2] = PlaceOf(x)' /\ 2 \in 1..2
      BY <1>15, <1>16, <3>1, <3>2
    <3> QED
      BY <1>2, <3>3
  <2> QED
    BY <2>1, <2>2, <2>3
<1>18. FilesAgree => NodesFit'
  <2> SUFFICES ASSUME FilesAgree PROVE NodesFit'
    OBVIOUS
  <2>1. \A x \in DOMAIN vertexMap' :
          \E p \in Rows("roads")', i \in 1..2 : EndNames(p)'[i] = x /\ NodesOf(p)'[i] = PlaceOf(x)'
    BY <1>14, <1>17
  <2>2. input'.format = "seattle"
    BY <1>3, <1>13
  <2> QED
    BY <2>1, <2>2, Zenon DEF NodesFit
<1>19. ASSUME FilesAgree PROVE both.vertices[from].at = line[1] /\ both.vertices[to].at = Last(line)
  <2>1. \A p, q \in Rows("roads") : \A i, k \in 1..2 : EndNames(p)[i] = EndNames(q)[k] => NodesOf(p)[i] = NodesOf(q)[k]
    BY <1>19 DEF FilesAgree
  <2>2. ASSUME NEW x \in DOMAIN vertexMap', NEW k \in 1..2, EndNames(nextRow)[k] = x
        PROVE  NodesOf(nextRow)[k] = PlaceOf(x)'
    <3>1. PICK p \in Rows("roads"), i \in 1..2 : EndNames(p)[i] = x /\ NodesOf(p)[i] = PlaceOf(x)'
      BY <1>17, <1>19
    <3> QED
      BY <1>2, <2>1, <2>2, <3>1
  <2>3. EndNames(nextRow)[1] = a /\ EndNames(nextRow)[2] = b /\ 1 \in 1..2 /\ 2 \in 1..2
    BY <1>15
  <2>4. NodesOf(nextRow)[1] = PlaceOf(a)' /\ NodesOf(nextRow)[2] = PlaceOf(b)'
    BY <1>9, <2>2, <2>3
  <2>5. {line[1]} = {both.vertices[from].at} /\ {Last(line)} = {both.vertices[to].at}
    BY <1>15, <1>16, <1>35, <2>4
  <2> QED
    BY <2>5
<1>20. /\ there.from = from /\ there.to = to /\ there.line = line /\ there.file = row
       /\ back.from = to /\ back.to = from /\ back.line = Reverse(line) /\ back.file = row
  BY <1>31, <1>36 DEF NewEdge
<1>21. IsLine(Reverse(line)) /\ Reverse(line)[1] = Last(line) /\ Last(Reverse(line)) = line[1]
  BY <1>5, LineTurns
<1>22. NodesOf(row)' = << {line[1]}, {Last(line)} >>
  BY <1>14, <1>15, <1>31
<1>23. two => PartOf(row[1])' = "roads" /\ RowOf(row)'.two
  <2>1. \A x : PartOf(x)' = PartOf(x)
    BY <1>13, FilesStay
  <2>2. \A x : RowOf(x)' = RowOf(x)
    BY <1>13, FilesStay
  <2> QED
    BY <1>2, <1>31, <1>32, <2>1, <2>2
<1>24. ASSUME NEW e \in DOMAIN netEdges', e \notin DOMAIN netEdges
       PROVE  /\ netEdges'[e].from \in DOMAIN netVertices' /\ netEdges'[e].to \in DOMAIN netVertices'
              /\ IsLine(netEdges'[e].line) /\ netEdges'[e].file = nextRow
              /\ FilesAgree => Joins(e)'
  <2>1. e = n + 1 \/ (two /\ e = n + 2)
    BY <1>11, <1>24, <1>39
  <2>2. CASE e = n + 1
    <3>1. netEdges'[e] = there
      BY <1>11, <2>2
    <3>2. ASSUME FilesAgree PROVE Joins(e)'
      BY <1>4, <1>19, <1>20, <1>22, <3>1, <3>2 DEF Joins
    <3> QED
      BY <1>5, <1>9, <1>20, <1>31, <3>1, <3>2
  <2>3. CASE two /\ e = n + 2
    <3>1. netEdges'[e] = back
      BY <1>11, <2>3
    <3>2. ASSUME FilesAgree PROVE Joins(e)'
      <4>1. Reverse(<< {Last(line)}, {line[1]} >>) = NodesOf(row)'
        BY <1>22, PairTurns
      <4>2. netVertices'[back.from].at = Last(line) /\ netVertices'[back.to].at = line[1]
        BY <1>4, <1>19, <1>20, <3>2
      <4> QED
        BY <1>20, <1>21, <1>23, <2>3, <3>1, <4>1, <4>2 DEF Joins
    <3> QED
      BY <1>9, <1>20, <1>21, <1>31, <3>1, <3>2
  <2> QED
    BY <2>1, <2>2, <2>3
<1>25. Len(netEdges') = Len(netEdges) + IF IsTwo(nextRow) THEN 2 ELSE 1
  <2>1. CASE two
    <3>1. Len(netEdges') = n + 2
      BY <1>11, <2>1
    <3> QED
      BY <1>6, <1>31, <2>1, <3>1
  <2>2. CASE ~two
    <3>1. Len(netEdges') = n + 1
      BY <1>11, <2>2
    <3> QED
      BY <1>6, <1>31, <2>2, <3>1
  <2> QED
    BY <2>1, <2>2
<1> QED
  BY <1>1, <1>10, <1>12, <1>18, <1>24, <1>25, RowKeeps

\* What a node is called stays while a group of files is read.
LEMMA NamesStay ==
  ASSUME FromFiles, NEW f \in Nat \ {0}, NEW id, ~(input.format = "arc_node" /\ PartOf(f) = "arcs")
  PROVE  Named(f + 1, id) = Named(f, id)
<1>1. CASE input.format = "arc_node"
  <2>1. PartOf(f) = (IF (f - 1) % 2 = 0 THEN "nodes" ELSE "arcs") /\ GroupSize = 2
    BY <1>1, PartsAre
  <2>2. (f - 1) % 2 = 0
    BY <1>1, <2>1
  <2>3. ((f + 1) - 1) \div 2 = (f - 1) \div 2
    BY <2>2
  <2>4. GroupAt(f + 1) = GroupAt(f)
    BY <2>1, <2>3 DEF GroupAt
  <2> QED
    BY <2>4 DEF Named
<1>2. CASE input.format # "arc_node"
  BY <1>2 DEF Named
<1> QED
  BY <1>1, <1>2

LEMMA FileKeeps ==
  ASSUME GraphFits, ReadingFits, FileDone
  PROVE  GraphFits' /\ ReadingFits'
<1> PICK f : f = nextRow[1]
  OBVIOUS
<1>1. /\ netStage = "reading" /\ netStage' = "reading" /\ netVertices' = netVertices /\ netEdges' = netEdges /\ edgeMap' = edgeMap
      /\ vertexMap' = NextMap
  BY DEF FileDone
<1>2. FromFiles /\ f \in Nat \ {0}
  BY DEF ReadingFits
<1>3. /\ input' = input /\ nextRow'[1] = f + 1 /\ nextRow'[2] = 1
      /\ nextRow' \in (Nat \ {0}) \X (Nat \ {0})
      /\ \A q \in EdgeRows : IsDone(q)' <=> IsDone(q)
  BY FileIsDone
<1> DEFINE Ended == input.format = "arc_node" /\ PartOf(f) = "arcs"
<1>4. /\ Ended => vertexMap' = << >> /\ DOMAIN vertexMap' = {}
      /\ ~Ended => vertexMap' = vertexMap
  BY <1>1 DEF NextMap, NoMap
<1>5. VerticesGrow /\ EdgesGrow
  BY <1>1 DEF VerticesGrow, EdgesGrow, GraphFits
<1>6. GraphFits'
  <2>1. EdgesFit'
    BY <1>1 DEF GraphFits, EdgesFit
  <2>2. MapFits'
    BY <1>1, <1>4 DEF GraphFits, MapFits
  <2> QED
    BY <1>1, <2>1, <2>2 DEF GraphFits
<1>7. RowsFit'
  BY <1>1, <1>3, RowsStay DEF ReadingFits
<1>8. NumbersFit'
  <2> SUFFICES ASSUME input.format = "arc_node", PartOf(f + 1) = "nodes" PROVE DOMAIN vertexMap' = 0..1 - 2
    BY <1>3 DEF NumbersFit, PartOf
  <2>1. PartOf(f) = IF (f - 1) % 2 = 0 THEN "nodes" ELSE "arcs"
    BY <1>2, PartsAre
  <2>2. f + 1 \in Nat \ {0}
    BY <1>2
  <2>3. PartOf(f + 1) = IF ((f + 1) - 1) % 2 = 0 THEN "nodes" ELSE "arcs"
    BY <2>2, PartsAre
  <2>4. ((f + 1) - 1) % 2 = 0
    BY <2>3
  <2>5. (f - 1) % 2 # 0
    BY <1>2, <2>4
  <2>6. Ended
    BY <2>1, <2>5
  <2>7. 0..1 - 2 = {}
    OBVIOUS
  <2> QED
    BY <1>4, <2>6, <2>7
<1>9. EndsFit'
  BY <1>1, <1>3, FilesStay DEF ReadingFits, EndsFit
<1>10. ASSUME FilesAgree PROVE NodesFit'
  <2>1. CASE Ended
    <3>1. input'.format # "seattle"
      BY <1>3, <2>1
    <3>2. \A id \in DOMAIN vertexMap' : Named(nextRow[1], id)' = PlaceOf(id)'
      BY <1>4, <2>1
    <3> QED
      BY <3>1, <3>2, Zenon DEF NodesFit
  <2>2. CASE ~Ended /\ input.format # "seattle"
    <3>1. \A id \in DOMAIN vertexMap : PlaceOf(id)' = PlaceOf(id)
      BY <1>4, <1>5, <2>2, PlaceStays DEF GraphFits
    <3>2. \A id \in DOMAIN vertexMap : Named(f, id) = PlaceOf(id)
      BY <1>10, <2>2 DEF ReadingFits, NodesFit
    <3>3. \A id : Named(f + 1, id) = Named(f, id)
      BY <1>2, <2>2, NamesStay
    <3>4. \A id : Named(nextRow[1], id)' = Named(f + 1, id)
      BY <1>3 DEF Named, Rows, RowOf, GroupAt, GroupSize, PartOf, LastFile
    <3>5. \A id \in DOMAIN vertexMap' : Named(nextRow[1], id)' = PlaceOf(id)'
      BY <1>4, <2>2, <3>1, <3>2, <3>3, <3>4
    <3>6. input'.format # "seattle"
      BY <1>3, <2>2
    <3> QED
      BY <3>5, <3>6, Zenon DEF NodesFit
  <2>3. CASE input.format = "seattle"
    <3>1. vertexMap' = vertexMap
      BY <1>4, <2>3
    <3>2. /\ Rows("roads")' = Rows("roads")
          /\ \A p : EndNames(p)' = EndNames(p) /\ NodesOf(p)' = NodesOf(p)
      BY <1>3, FilesStay
    <3>3. \A id \in DOMAIN vertexMap : PlaceOf(id)' = PlaceOf(id)
      BY <1>5, <3>1, PlaceStays DEF GraphFits
    <3>4. \A id \in DOMAIN vertexMap : \E p \in Rows("roads"), i \in 1..2 : EndNames(p)[i] = id /\ NodesOf(p)[i] = PlaceOf(id)
      BY <1>10, <2>3 DEF ReadingFits, NodesFit
    <3>5. \A id \in DOMAIN vertexMap' :
            \E p \in Rows("roads")', i \in 1..2 : EndNames(p)'[i] = id /\ NodesOf(p)'[i] = PlaceOf(id)'
      BY <3>1, <3>2, <3>3, <3>4
    <3>6. input'.format = "seattle"
      BY <1>3, <2>3
    <3> QED
      BY <3>5, <3>6, Zenon DEF NodesFit
  <2> QED
    BY <2>1, <2>2, <2>3
<1>11. FilesAgree' => NodesFit' /\ \A e \in DOMAIN netEdges' : Joins(e)'
  <2>1. FilesAgree' <=> FilesAgree
    BY <1>3, FilesStay
  <2>2. ASSUME FilesAgree, NEW e \in DOMAIN netEdges PROVE Joins(e)'
    BY <1>3, <1>5, <2>2, EdgeJoinsStill DEF GraphFits, ReadingFits
  <2> QED
    BY <1>1, <1>10, <2>1, <2>2
<1> QED
  BY <1>1, <1>2, <1>3, <1>6, <1>7, <1>8, <1>9, <1>11 DEF ReadingFits, FromFiles

\* The graph of another importer is only written.
LEMMA StepKeeps ==
  ASSUME FormatInv, NetworkNext
  PROVE  FormatInv'
<1>1. netStage' \in {"reading", "threw", "writing", "written"}
  BY DEF FormatInv, NetworkNext, OpenMissing, ReadVertex, ReadArc, KeepEnds, ReadGeometry, ReadRoad, FileDone, EndReading,
         WriteNodes, WriteWay, EndWriting, Throw
<1>2. CASE ReadingFits
  <2>1. GraphFits
    BY DEF FormatInv
  <2>2. GraphFits' /\ ReadingFits'
    <3>1. CASE OpenMissing
      BY <1>2, <2>1, <3>1, ThrowKeeps DEF OpenMissing
    <3>2. CASE ReadVertex
      BY <1>2, <2>1, <3>2, NodeKeeps
    <3>3. CASE ReadArc
      BY <1>2, <2>1, <3>3, ArcKeeps
    <3>4. CASE KeepEnds
      BY <1>2, <2>1, <3>4, EndsKeep
    <3>5. CASE ReadGeometry
      BY <1>2, <2>1, <3>5, GeometryKeeps
    <3>6. CASE ReadRoad
      BY <1>2, <2>1, <3>6, RoadKeeps
    <3>7. CASE FileDone
      BY <1>2, <2>1, <3>7, FileKeeps
    <3>8. CASE EndReading
      <4>1. NetworkStays /\ nextRow[1] > LastFile
        BY <3>8 DEF EndReading, NetworkStays
      <4> QED
        BY <1>2, <2>1, <4>1, FilesAreKept
    <3>9. CASE WriteNodes \/ WriteWay \/ EndWriting
      <4>1. NetworkStays /\ netStage = "writing"
        BY <3>9 DEF WriteNodes, WriteWay, EndWriting, NetworkStays
      <4>2. nextRow[1] > LastFile
        BY <1>2, <4>1 DEF ReadingFits
      <4> QED
        BY <1>2, <2>1, <4>1, <4>2, FilesAreKept
    <3> QED
      BY <3>1, <3>2, <3>3, <3>4, <3>5, <3>6, <3>7, <3>8, <3>9 DEF NetworkNext
  <2>3. WritingFits'
    BY <2>2, WritingKeeps DEF FormatInv
  <2> QED
    BY <1>1, <2>2, <2>3 DEF FormatInv
<1>3. CASE input.format = "other" /\ netStage \in {"writing", "written"}
  <2>1. WriteNodes \/ WriteWay \/ EndWriting
    BY <1>3 DEF NetworkNext, OpenMissing, ReadVertex, ReadArc, KeepEnds, ReadGeometry, ReadRoad, FileDone, EndReading, AtRowOf
  <2>2. NetworkStays /\ netStage' \in {"writing", "written"} /\ input' = input
    BY <1>3, <2>1 DEF WriteNodes, WriteWay, EndWriting, NetworkStays
  <2>3. GraphFits'
    BY <2>2, GraphIsKept DEF FormatInv
  <2>4. WritingFits'
    BY <2>3, WritingKeeps DEF FormatInv
  <2> QED
    BY <1>1, <1>3, <2>2, <2>3, <2>4 DEF FormatInv
<1> QED
  BY <1>2, <1>3 DEF FormatInv

LEMMA StutterKeeps ==
  ASSUME FormatInv, UNCHANGED networkVars
  PROVE  FormatInv'
<1>1. NetworkStays /\ netStage' = netStage /\ written' = written
  BY DEF networkVars, NetworkStays
<1>2. GraphFits'
  BY <1>1, GraphIsKept DEF FormatInv
<1>3. WritingFits'
  <2>1. /\ AllNodes' = AllNodes /\ Len(netEdges)' = Len(netEdges) /\ DOMAIN netEdges' = DOMAIN netEdges
        /\ \A e : Way(e)' = Way(e) /\ Backward(e)' = Backward(e)
    BY <1>1, GraphStays DEF NetworkStays
  <2>2. \A e : HasWay(e)' <=> HasWay(e)
    BY <1>1, <2>1 DEF HasWay, Is
  <2> QED
    BY <1>1, <2>1, <2>2 DEF FormatInv, WritingFits, Is, NetworkStays, NothingWritten
<1>4. CASE ReadingFits
  <2>1. netStage' \in {"writing", "written"} => nextRow[1] > LastFile
    BY <1>1, <1>4 DEF ReadingFits
  <2>2. ReadingFits'
    BY <1>1, <1>4, <2>1, FilesAreKept DEF FormatInv
  <2> QED
    BY <1>1, <1>2, <1>3, <2>2 DEF FormatInv
<1>5. CASE input.format = "other" /\ netStage \in {"writing", "written"}
  BY <1>1, <1>2, <1>3, <1>5 DEF FormatInv, NetworkStays
<1> QED
  BY <1>4, <1>5 DEF FormatInv

LEMMA InitFits ==
  ASSUME NetworkAssumption, NetworkInit
  PROVE  FormatInv
<1>1. vertexMap = << >> /\ edgeMap = << >> /\ nextRow = << 1, 1 >> /\ written = NothingWritten
  BY DEF NetworkInit, NoMap
<1>2. DOMAIN vertexMap = {} /\ DOMAIN edgeMap = {} /\ nextRow[1] = 1 /\ nextRow[2] = 1
  BY <1>1
<1>3. MapFits
  BY <1>2 DEF MapFits
<1>4. CASE input \in NetworkInputs /\ netStage = "reading" /\ netVertices = << >> /\ netEdges = << >>
  <2>0. FromFiles
    BY <1>4 DEF FromFiles
  <2>1. IsList(netVertices) /\ IsList(netEdges) /\ DOMAIN netEdges = {}
    BY <1>4, NoneIs
  <2>2. GraphFits
    BY <1>3, <2>1 DEF GraphFits, EdgesFit
  <2>3. WritingFits
    BY <1>1, <1>4, <2>2, NothingFits
  <2>4. RowsFit
    <3>1. ASSUME NEW p \in EdgeRows PROVE ~IsDone(p)
      <4>1. PICK part : p \in Rows(part)
        BY DEF EdgeRows
      <4>2. p[1] \in Nat \ {0} /\ p[2] \in Nat \ {0}
        BY <2>0, <4>1, PlaceIs
      <4> QED
        BY <1>2, <4>2 DEF IsDone
    <3> QED
      BY <2>1, <3>1 DEF RowsFit
  <2>5. NumbersFit
    <3>1. 0..1 - 2 = {}
      OBVIOUS
    <3> QED
      BY <1>2, <3>1 DEF NumbersFit
  <2>6. EndsFit /\ NodesFit
    BY <1>2 DEF EndsFit, NodesFit
  <2>7. nextRow \in (Nat \ {0}) \X (Nat \ {0})
    BY <1>1
  <2>8. ReadingFits
    BY <1>4, <2>0, <2>1, <2>4, <2>5, <2>6, <2>7 DEF ReadingFits
  <2> QED
    BY <1>4, <2>2, <2>3, <2>8 DEF FormatInv
<1>5. CASE /\ input = [format |-> "other", files |-> << >>] /\ netStage = "writing"
           /\ \E g \in Imported : netVertices = g.vertices /\ netEdges = g.edges
  <2>1. PICK g \in Imported : netVertices = g.vertices /\ netEdges = g.edges
    BY <1>5
  <2>2. /\ IsList(g.vertices) /\ IsList(g.edges)
        /\ \A e \in DOMAIN g.edges : {g.edges[e].from, g.edges[e].to} \subseteq DOMAIN g.vertices /\ IsLine(g.edges[e].line)
    BY DEF NetworkAssumption
  <2>3. GraphFits
    BY <1>3, <2>1, <2>2 DEF GraphFits, EdgesFit
  <2>4. WritingFits
    BY <1>1, <1>5, <2>3, NothingFits
  <2>5. input.format = "other" /\ netStage = "writing"
    BY <1>5
  <2> QED
    BY <2>3, <2>4, <2>5 DEF FormatInv
<1> QED
  BY <1>4, <1>5 DEF NetworkInit

\* When all files are read, every row has its edges.
LEMMA NetworkIsRead ==
  ASSUME FormatInv
  PROVE  EdgesJoinTheirNodes
<1> SUFFICES ASSUME netStage = "writing", input.format # "other", FilesAgree
             PROVE  /\ \A p \in EdgeRows : Cardinality(Mine(p)) = IF IsTwo(p) THEN 2 ELSE 1
                    /\ \A e \in DOMAIN netEdges : Joins(e)
  BY Zenon DEF EdgesJoinTheirNodes, EdgeRows, Mine, IsTwo, Joins
<1>1. ReadingFits
  BY DEF FormatInv
<1>2. ASSUME NEW p \in EdgeRows PROVE Cardinality(Mine(p)) = IF IsTwo(p) THEN 2 ELSE 1
  <2>1. PICK part : p \in Rows(part)
    BY DEF EdgeRows
  <2>2. p[1] \in 1..LastFile /\ LastFile \in Nat
    BY <1>1, <2>1, PlaceIs, FilesAre DEF ReadingFits
  <2>3. nextRow[1] \in Nat /\ nextRow[1] > LastFile
    BY <1>1 DEF ReadingFits
  <2>4. IsDone(p)
    BY <2>2, <2>3 DEF IsDone
  <2>5. CASE IsTwo(p)
    <3>1. PICK e, f \in DOMAIN netEdges : e # f /\ Mine(p) = {e, f}
      BY <1>1, <2>4, <2>5 DEF ReadingFits, RowsFit
    <3>2. IsFiniteSet({e}) /\ Cardinality({e}) = 1
      BY FS_Singleton
    <3>3. Cardinality({e} \cup {f}) = 2
      BY <3>1, <3>2, FS_AddElement
    <3>4. {e} \cup {f} = {e, f}
      OBVIOUS
    <3> QED
      BY <2>5, <3>1, <3>3, <3>4
  <2>6. CASE ~IsTwo(p)
    <3>1. PICK e \in DOMAIN netEdges : Mine(p) = {e}
      BY <1>1, <2>4, <2>6 DEF ReadingFits, RowsFit
    <3> QED
      BY <2>6, <3>1, FS_Singleton
  <2> QED
    BY <2>5, <2>6
<1>3. \A e \in DOMAIN netEdges : Joins(e)
  BY <1>1 DEF ReadingFits
<1> QED
  BY <1>2, <1>3

\* A network is what the files say, and a file that is written of it says the network
\* (the importers in io/network and osm_exporter.hpp).
THEOREM NetworkIsFaithful ==
  ASSUME NetworkAssumption
  PROVE  NetworkSpec => []FormatsAreFaithful
<1>1. NetworkInit => FormatInv
  BY InitFits
<1>2. FormatInv /\ [NetworkNext]_networkVars => FormatInv'
  BY StepKeeps, StutterKeeps
<1>3. FormatInv => FormatsAreFaithful
  BY NetworkIsRead, FileSaysNetwork DEF FormatInv, FormatsAreFaithful
<1> QED
  BY <1>1, <1>2, <1>3, PTL DEF NetworkSpec
=============================================================================
