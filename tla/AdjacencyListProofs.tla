------------------------ MODULE AdjacencyListProofs ------------------------
(***************************************************************************)
(* Proofs about AdjacencyList, for any finite sets of addresses and any    *)
(* kind of graph.                                                          *)
(***************************************************************************)
EXTENDS AdjacencyList, ListTheorems

-----------------------------------------------------------------------------
(* Lists.                                                                  *)

LEMMA Appended ==
  ASSUME NEW S, NEW s \in Seq(S), NEW x \in S
  PROVE  /\ Append(s, x) \in Seq(S)
         /\ Len(s) \in Nat /\ DOMAIN s = 1..Len(s) /\ \A k \in 1..Len(s) : s[k] \in S
         /\ Len(Append(s, x)) = Len(s) + 1
         /\ DOMAIN Append(s, x) = 1..(Len(s) + 1)
         /\ \A k \in 1..Len(s) : Append(s, x)[k] = s[k]
         /\ Append(s, x)[Len(s) + 1] = x
         /\ Members(Append(s, x)) = Members(s) \cup {x}
<1>1. /\ Append(s, x) \in Seq(S)
      /\ Len(Append(s, x)) = Len(s) + 1
      /\ \A k \in 1..Len(s) : Append(s, x)[k] = s[k]
      /\ Append(s, x)[Len(s) + 1] = x
  BY AppendProperties
<1>2. Len(s) \in Nat /\ DOMAIN s = 1..Len(s) /\ \A k \in 1..Len(s) : s[k] \in S
  BY LenProperties, ElementOfSeq
<1>3. DOMAIN Append(s, x) = 1..(Len(s) + 1)
  BY <1>1, LenProperties
<1>4. \A k \in 1..(Len(s) + 1) : k \in 1..Len(s) \/ k = Len(s) + 1
  BY <1>2
<1>5. 1..Len(s) \subseteq 1..(Len(s) + 1) /\ Len(s) + 1 \in 1..(Len(s) + 1)
  BY <1>2
<1>6. Members(Append(s, x)) = Members(s) \cup {x}
  <2> DEFINE t == Append(s, x)
             n == Len(s)
  <2> HIDE DEF t, n
  <2> QED
    BY <1>1, <1>2, <1>3, <1>4, <1>5 DEF Members, t, n
<1> QED
  BY <1>1, <1>2, <1>3, <1>6

\* r[n] is what is left of the first n elements of s.
Sifts(r, s, dead, S) ==
    /\ r \in [0..Len(s) -> Seq(S)]
    /\ Without(s, dead) = r[Len(s)]
    /\ r[0] = <<>>
    /\ \A n \in 1..Len(s) :
          r[n] = IF s[n] \in dead THEN r[n - 1] ELSE Append(r[n - 1], s[n])

\* The recursion in Without.
LEMMA WithoutUnfolds ==
  ASSUME NEW S, NEW s \in Seq(S), NEW dead
  PROVE  \E r : Sifts(r, s, dead, S)
<1> DEFINE N == Len(s)
           step == [x \in Nat \X Seq(S) |-> IF x[1] \in 1..N /\ s[x[1]] \notin dead
                                            THEN Append(x[2], s[x[1]]) ELSE x[2]]
           F(g) == [n \in 0..Len(s) |->
                       IF n = 0 THEN <<>>
                       ELSE IF s[n] \in dead THEN g[n - 1] ELSE Append(g[n - 1], s[n])]
           rest == CHOOSE g : g = F(g)
<1>1. N \in Nat /\ (\A n \in 1..N : s[n] \in S) /\ <<>> \in Seq(S)
  BY LenProperties, ElementOfSeq
<1>2. step \in [Nat \X Seq(S) -> Seq(S)]
  BY <1>1, AppendProperties
<1>3. PICK g \in [0..N -> Seq(S)] : Steps(g, <<>>, step, N)
  BY <1>1, <1>2, Recursion
<1>4. ASSUME NEW n \in 1..N
      PROVE  g[n] = IF s[n] \in dead THEN g[n - 1] ELSE Append(g[n - 1], s[n])
  <2>1. n - 1 \in 0..N /\ n \in Nat
    BY <1>1
  <2>2. g[n - 1] \in Seq(S)
    BY <1>3, <2>1
  <2>3. <<n, g[n - 1]>> \in Nat \X Seq(S)
    BY <2>1, <2>2
  <2>4. step[<<n, g[n - 1]>>] = IF n \in 1..N /\ s[n] \notin dead
                                THEN Append(g[n - 1], s[n]) ELSE g[n - 1]
    BY <2>3
  <2>5. g[n] = step[<<n, g[n - 1]>>]
    BY <1>3 DEF Steps
  <2> HIDE DEF step
  <2>6. g[n] = IF n \in 1..N /\ s[n] \notin dead THEN Append(g[n - 1], s[n]) ELSE g[n - 1]
    BY <2>4, <2>5
  <2> QED
    BY <2>6
<1>5. g = F(g)
  <2>1. ASSUME NEW n \in 0..N PROVE g[n] = F(g)[n]
    <3>1. n = 0 \/ (n # 0 /\ n \in 1..N)
      BY <1>1
    <3>2. F(g)[n] = IF n = 0 THEN <<>>
                    ELSE IF s[n] \in dead THEN g[n - 1] ELSE Append(g[n - 1], s[n])
      OBVIOUS
    <3> HIDE DEF F
    <3> QED
      BY <1>3, <1>4, <3>1, <3>2 DEF Steps
  <2>2. g = [n \in 0..N |-> g[n]]
    BY <1>3
  <2>3. F(g) = [n \in 0..N |-> F(g)[n]]
    OBVIOUS
  <2> HIDE DEF F
  <2> QED
    BY <2>1, <2>2, <2>3
<1>6. rest = F(rest)
  <2> HIDE DEF F
  <2> QED
    BY <1>5
<1>7. Without(s, dead) = rest[N]
  BY DEF Without
<1> HIDE DEF rest
<1>8. \A n \in 0..N : rest[n] = IF n = 0 THEN <<>>
          ELSE IF s[n] \in dead THEN rest[n - 1] ELSE Append(rest[n - 1], s[n])
  BY <1>6
<1>9. /\ rest[0] = <<>>
      /\ \A n \in 1..N : rest[n] = IF s[n] \in dead THEN rest[n - 1] ELSE Append(rest[n - 1], s[n])
  <2>1. 0 \in 0..N /\ \A n \in 1..N : n \in 0..N /\ n # 0
    BY <1>1
  <2> QED
    BY <1>8, <2>1
<1> DEFINE T == {m \in Nat : m \in 0..N => rest[m] \in Seq(S)}
<1>10. 0 \in T
  BY <1>1, <1>9
<1>11. ASSUME NEW m \in T PROVE m + 1 \in T
  <2> SUFFICES ASSUME m + 1 \in 0..N PROVE rest[m + 1] \in Seq(S)
    OBVIOUS
  <2>1. m \in 0..N /\ m + 1 \in 1..N /\ (m + 1) - 1 = m /\ rest[m] \in Seq(S)
    BY <1>1
  <2>2. rest[m + 1] = IF s[m + 1] \in dead THEN rest[m] ELSE Append(rest[m], s[m + 1])
    BY <1>9, <2>1
  <2>3. Append(rest[m], s[m + 1]) \in Seq(S)
    BY <1>1, <2>1, AppendProperties
  <2> QED
    BY <2>1, <2>2, <2>3
<1>12. T = Nat
  <2>1. T \in SUBSET Nat
    OBVIOUS
  <2> HIDE DEF T
  <2> QED
    BY <1>10, <1>11, <2>1, Induction
<1>13. \A m \in 0..N : rest[m] \in Seq(S)
  BY <1>1, <1>12
<1>14. rest \in [0..N -> Seq(S)]
  <2>1. rest = [n \in 0..N |-> rest[n]]
    BY <1>6
  <2> QED
    BY <1>13, <2>1
<1> QED
  BY <1>7, <1>9, <1>14 DEF Sifts


Distinct(s) == \A i, j \in DOMAIN s : s[i] = s[j] => i = j

\* x comes before y in a list; s has the order of a list.
Before(x, y, list) == \E k, l \in DOMAIN list : k < l /\ list[k] = x /\ list[l] = y
Ordered(s, list) == \A i, j \in DOMAIN s : i < j => Before(s[i], s[j], list)

LEMMA WithoutNothing == ASSUME NEW dead PROVE Without(<<>>, dead) = <<>>
<1>1. PICK r : Sifts(r, <<>>, dead, {})
  BY WithoutUnfolds, EmptySeq
<1> QED
  BY <1>1, EmptySeq DEF Sifts

\* The first n elements are treated the same in a longer list.
LEMMA SiftsSame ==
  ASSUME NEW S, NEW s \in Seq(S), NEW x \in S, NEW dead, NEW q, NEW r,
         Sifts(q, s, dead, S), Sifts(r, Append(s, x), dead, S)
  PROVE  r[Len(s)] = q[Len(s)]
<1> DEFINE N == Len(s)
           t == Append(s, x)
           T == {n \in Nat : n <= N => r[n] = q[n]}
<1>1. N \in Nat /\ Len(t) = N + 1 /\ \A n \in 1..N : t[n] = s[n]
  BY Appended
<1>2. 0 \in T
  BY DEF Sifts
<1>3. ASSUME NEW n \in T PROVE n + 1 \in T
  <2> SUFFICES ASSUME n + 1 <= N PROVE r[n + 1] = q[n + 1]
    OBVIOUS
  <2>1. n + 1 \in 1..N /\ n + 1 \in 1..Len(t) /\ (n + 1) - 1 = n /\ r[n] = q[n] /\ t[n + 1] = s[n + 1]
    BY <1>1
  <2> HIDE DEF t, N
  <2>2. q[n + 1] = IF s[n + 1] \in dead THEN q[n] ELSE Append(q[n], s[n + 1])
    BY <2>1 DEF Sifts, N
  <2>3. r[n + 1] = IF t[n + 1] \in dead THEN r[n] ELSE Append(r[n], t[n + 1])
    BY <2>1 DEF Sifts, t
  <2> QED
    BY <2>1, <2>2, <2>3
<1>4. T = Nat
  <2>1. T \in SUBSET Nat
    OBVIOUS
  <2> HIDE DEF T
  <2> QED
    BY <1>2, <1>3, <2>1, Induction
<1> QED
  BY <1>1, <1>4

LEMMA WithoutAppended ==
  ASSUME NEW S, NEW s \in Seq(S), NEW x \in S, NEW dead
  PROVE  Without(Append(s, x), dead) = IF x \in dead THEN Without(s, dead)
                                       ELSE Append(Without(s, dead), x)
<1> DEFINE t == Append(s, x)
<1>1. t \in Seq(S) /\ Len(s) \in Nat /\ Len(t) = Len(s) + 1 /\ t[Len(s) + 1] = x
  BY Appended
<1>2. PICK q : Sifts(q, s, dead, S)
  BY WithoutUnfolds
<1>3. PICK r : Sifts(r, t, dead, S)
  BY <1>1, WithoutUnfolds
<1>4. r[Len(s)] = q[Len(s)]
  BY <1>2, <1>3, SiftsSame
<1> HIDE DEF t
<1>5. Len(s) + 1 \in 1..Len(t) /\ (Len(s) + 1) - 1 = Len(s)
  BY <1>1
<1>6. r[Len(s) + 1] = IF x \in dead THEN r[Len(s)] ELSE Append(r[Len(s)], x)
  BY <1>1, <1>3, <1>5 DEF Sifts
<1>7. Without(t, dead) = r[Len(s) + 1] /\ Without(s, dead) = q[Len(s)]
  BY <1>1, <1>2, <1>3 DEF Sifts
<1> QED
  BY <1>4, <1>6, <1>7 DEF t

LEMMA EmptyList ==
  Members(<<>>) = {} /\ Distinct(<<>>) /\ \A x, y : ~Before(x, y, <<>>)
<1>1. DOMAIN <<>> = {}
  OBVIOUS
<1> QED
  BY <1>1 DEF Members, Distinct, Before

LEMMA NoMembers ==
  ASSUME NEW S, NEW s \in Seq(S), Members(s) = {}
  PROVE  s = <<>>
<1>1. Len(s) \in Nat /\ DOMAIN s = 1..Len(s)
  BY LenProperties
<1>2. DOMAIN s = {}
  BY DEF Members
<1>3. Len(s) = 0
  BY <1>1, <1>2
<1> QED
  BY <1>3, EmptySeq

LEMMA DistinctAppended ==
  ASSUME NEW S, NEW s \in Seq(S), NEW x \in S
  PROVE  Distinct(Append(s, x)) <=> Distinct(s) /\ x \notin Members(s)
<1> DEFINE t == Append(s, x)
<1>1. /\ Len(s) \in Nat /\ DOMAIN s = 1..Len(s) /\ DOMAIN t = 1..(Len(s) + 1)
      /\ \A k \in 1..Len(s) : t[k] = s[k]
      /\ t[Len(s) + 1] = x
  BY Appended
<1> HIDE DEF t
<1>2. 1..Len(s) \subseteq 1..(Len(s) + 1) /\ Len(s) + 1 \in 1..(Len(s) + 1)
  BY <1>1
<1>3. \A k \in 1..(Len(s) + 1) : k \in 1..Len(s) \/ k = Len(s) + 1
  BY <1>1
<1>4. \A k \in 1..Len(s) : k # Len(s) + 1
  BY <1>1
<1>5. Distinct(t) <=> Distinct(s) /\ \A k \in 1..Len(s) : s[k] # x
  BY <1>1, <1>2, <1>3, <1>4 DEF Distinct
<1>6. x \notin Members(s) <=> \A k \in 1..Len(s) : s[k] # x
  BY <1>1 DEF Members
<1> QED
  BY <1>5, <1>6 DEF t

LEMMA BeforeAppended ==
  ASSUME NEW S, NEW s \in Seq(S), NEW z \in S, NEW x, NEW y
  PROVE  Before(x, y, Append(s, z)) <=> Before(x, y, s) \/ (x \in Members(s) /\ y = z)
<1> DEFINE t == Append(s, z)
           n == Len(s)
<1>1. /\ n \in Nat /\ DOMAIN s = 1..n /\ DOMAIN t = 1..(n + 1)
      /\ \A k \in 1..n : t[k] = s[k]
      /\ t[n + 1] = z
  BY Appended
<1> HIDE DEF t, n
<1>2. ASSUME Before(x, y, t) PROVE Before(x, y, s) \/ (x \in Members(s) /\ y = z)
  <2>1. PICK k \in 1..(n + 1), l \in 1..(n + 1) : k < l /\ t[k] = x /\ t[l] = y
    BY <1>1, <1>2 DEF Before
  <2>2. k \in 1..n /\ (l \in 1..n \/ l = n + 1)
    BY <1>1, <2>1
  <2> QED
    BY <1>1, <2>1, <2>2 DEF Before, Members
<1>3. ASSUME Before(x, y, s) PROVE Before(x, y, t)
  <2>1. PICK k \in 1..n, l \in 1..n : k < l /\ s[k] = x /\ s[l] = y
    BY <1>1, <1>3 DEF Before
  <2>2. k \in 1..(n + 1) /\ l \in 1..(n + 1)
    BY <1>1
  <2> QED
    BY <1>1, <2>1, <2>2 DEF Before
<1>4. ASSUME x \in Members(s), y = z PROVE Before(x, y, t)
  <2>1. PICK k \in 1..n : s[k] = x
    BY <1>1, <1>4 DEF Members
  <2>2. k \in 1..(n + 1) /\ n + 1 \in 1..(n + 1) /\ k < n + 1
    BY <1>1
  <2> QED
    BY <1>1, <1>4, <2>1, <2>2 DEF Before
<1> QED
  BY <1>2, <1>3, <1>4 DEF t

\* Removal keeps the type, the other elements, that they are distinct, and their order.
LEMMA WithoutKeeps ==
  ASSUME NEW S, NEW s \in Seq(S), NEW dead
  PROVE  /\ Without(s, dead) \in Seq(S)
         /\ Members(Without(s, dead)) = Members(s) \ dead
         /\ Distinct(s) => Distinct(Without(s, dead))
         /\ \A x, y : Before(x, y, Without(s, dead)) => Before(x, y, s)
<1> DEFINE Kept(w, v) == /\ v \in Seq(S) /\ Members(v) = Members(w) \ dead
                         /\ Distinct(w) => Distinct(v)
                         /\ \A x, y : Before(x, y, v) => Before(x, y, w)
           T == {w \in Seq(S) : Kept(w, Without(w, dead))}
<1>1. <<>> \in T
  <2>1. Without(<<>>, dead) = <<>> /\ <<>> \in Seq(S)
    BY WithoutNothing, EmptySeq
  <2>2. Kept(<<>>, <<>>)
    BY <2>1, EmptyList
  <2> HIDE DEF Kept
  <2> QED
    BY <2>1, <2>2
<1>2. ASSUME NEW w \in T, NEW x \in S PROVE Append(w, x) \in T
  <2> DEFINE v == Without(w, dead)
             t == Append(w, x)
  <2>1. Kept(w, v)
    OBVIOUS
  <2> HIDE DEF v
  <2>2. Without(t, dead) = IF x \in dead THEN v ELSE Append(v, x)
    BY WithoutAppended DEF v
  <2>3. t \in Seq(S) /\ Members(t) = Members(w) \cup {x}
    BY Appended
  <2>4. /\ Distinct(t) <=> Distinct(w) /\ x \notin Members(w)
        /\ \A a, b : Before(a, b, t) <=> Before(a, b, w) \/ (a \in Members(w) /\ b = x)
    BY DistinctAppended, BeforeAppended
  <2>5. CASE x \in dead
    <3>1. Kept(t, v)
      <4> HIDE DEF t
      <4> QED
        BY <2>1, <2>3, <2>4, <2>5
    <3> QED
      BY <2>2, <2>3, <2>5, <3>1
  <2>6. CASE x \notin dead
    <3> DEFINE u == Append(v, x)
    <3>1. u \in Seq(S) /\ Members(u) = Members(v) \cup {x}
      BY <2>1, Appended
    <3>2. /\ Distinct(u) <=> Distinct(v) /\ x \notin Members(v)
          /\ \A a, b : Before(a, b, u) <=> Before(a, b, v) \/ (a \in Members(v) /\ b = x)
      BY <2>1, DistinctAppended, BeforeAppended
    <3>3. Kept(t, u)
      <4> HIDE DEF t, u
      <4> QED
        BY <2>1, <2>3, <2>4, <2>6, <3>1, <3>2
    <3> QED
      BY <2>2, <2>3, <2>6, <3>3
  <2> QED
    BY <2>5, <2>6
<1>3. T = Seq(S)
  <2>1. T \in SUBSET Seq(S)
    OBVIOUS
  <2> HIDE DEF T
  <2> QED
    BY <1>1, <1>2, <2>1, ListInduction
<1> QED
  BY <1>3

\* Only what the list holds matters.
LEMMA WithoutSame ==
  ASSUME NEW S, NEW s \in Seq(S), NEW A, NEW B, \A x \in Members(s) : x \in A <=> x \in B
  PROVE  Without(s, A) = Without(s, B)
<1> DEFINE Same(w) == (\A x \in Members(w) : x \in A <=> x \in B) => Without(w, A) = Without(w, B)
           T == {w \in Seq(S) : Same(w)}
<1>1. <<>> \in T
  BY WithoutNothing, EmptySeq
<1>2. ASSUME NEW w \in T, NEW x \in S PROVE Append(w, x) \in T
  <2>1. Append(w, x) \in Seq(S) /\ Members(Append(w, x)) = Members(w) \cup {x}
    BY Appended
  <2>2. /\ Without(Append(w, x), A) = IF x \in A THEN Without(w, A) ELSE Append(Without(w, A), x)
        /\ Without(Append(w, x), B) = IF x \in B THEN Without(w, B) ELSE Append(Without(w, B), x)
    BY WithoutAppended
  <2> QED
    BY <2>1, <2>2
<1>3. T = Seq(S)
  <2>1. T \in SUBSET Seq(S)
    OBVIOUS
  <2> HIDE DEF T
  <2> QED
    BY <1>1, <1>2, <2>1, ListInduction
<1> QED
  BY <1>3

LEMMA WithoutTwice ==
  ASSUME NEW S, NEW s \in Seq(S), NEW A, NEW B
  PROVE  Without(Without(s, A), B) = Without(s, A \cup B)
<1> DEFINE T == {w \in Seq(S) : Without(Without(w, A), B) = Without(w, A \cup B)}
<1>1. <<>> \in T
  BY WithoutNothing, EmptySeq
<1>2. ASSUME NEW w \in T, NEW x \in S PROVE Append(w, x) \in T
  <2> DEFINE v == Without(w, A)
  <2>1. Append(w, x) \in Seq(S) /\ v \in Seq(S)
    BY Appended, WithoutKeeps
  <2>2. /\ Without(Append(w, x), A) = IF x \in A THEN Without(w, A) ELSE Append(Without(w, A), x)
        /\ Without(Append(w, x), A \cup B) = IF x \in A \cup B THEN Without(w, A \cup B)
                                             ELSE Append(Without(w, A \cup B), x)
    BY WithoutAppended
  <2>3. Without(Append(v, x), B) = IF x \in B THEN Without(v, B) ELSE Append(Without(v, B), x)
    <3> HIDE DEF v
    <3> QED
      BY <2>1, WithoutAppended
  <2> QED
    BY <2>1, <2>2, <2>3
<1>3. T = Seq(S)
  <2>1. T \in SUBSET Seq(S)
    OBVIOUS
  <2> HIDE DEF T
  <2> QED
    BY <1>1, <1>2, <2>1, ListInduction
<1> QED
  BY <1>3

-----------------------------------------------------------------------------
(* The inductive invariant.                                                *)

Kinds == {"undirected", "directional", "bidirectional"}
Ends  == Vertices \cup {NoVertex}

USE DEF Kinds, Ends, EdgeEnds, OutLists, InLists

EachOnce(g) == Distinct(g.vertices) /\ Distinct(g.edges)

EndsExist(g) == \A e \in Members(g.edges) :
    g.source[e] \in Members(g.vertices) /\ g.target[e] \in Members(g.vertices)

\* The lists of a vertex are the edge list without the edges of other vertices.
ListsFollow(g) == \A v \in Vertices :
    /\ g.out[v] = Without(g.edges, Edges \ OutOf(g, v))
    /\ g.in[v]  = Without(g.edges, Edges \ Into(g, v))

FreeIsBlank(g) == \A e \in Edges \ Members(g.edges) :
    g.eindex[e] = 0 /\ g.source[e] = NoVertex /\ g.target[e] = NoVertex

GraphOK(g) == g \in Graphs /\ EachOnce(g) /\ EndsExist(g) /\ ListsFollow(g) /\ FreeIsBlank(g)

LEMMA EmptyGraphOK ==
  ASSUME NEW d \in Kinds
  PROVE  GraphOK(EmptyGraph(d))
<1> DEFINE g == EmptyGraph(d)
<1>1. g \in Graphs /\ g.edges = <<>> /\ g.vertices = <<>>
  BY EmptySeq DEF Graphs, EmptyGraph, Ends
<1>2. EachOnce(g) /\ EndsExist(g)
  BY <1>1, EmptyList DEF EachOnce, EndsExist
<1>3. ListsFollow(g)
  BY <1>1, WithoutNothing DEF ListsFollow, EmptyGraph
<1>4. FreeIsBlank(g)
  BY DEF FreeIsBlank, EmptyGraph
<1> QED
  BY <1>1, <1>2, <1>3, <1>4 DEF GraphOK

LEMMA PlacesAre ==
  ASSUME NEW g, NEW s, NEW t
  PROVE  /\ Undirected(g) /\ s # t => Places(g, s, t) = <<"edges", "out", "far out">>
         /\ Bidirectional(g) => Places(g, s, t) = <<"edges", "out", "in">>
         /\ ~(Undirected(g) /\ s # t) /\ ~Bidirectional(g) => Places(g, s, t) = <<"edges", "out">>
  BY DEF Places, Undirected, Bidirectional

\* What add_vertex and add_edge leave in each field.
LEMMA WithVertexFields ==
  ASSUME NEW g \in Graphs, NEW v \in Vertices
  PROVE  LET h == WithVertex(g, v)
         IN  /\ h \in Graphs
             /\ h.direction = g.direction /\ h.edges = g.edges /\ h.eindex = g.eindex
             /\ h.source = g.source /\ h.target = g.target /\ h.out = g.out /\ h.in = g.in
             /\ h.vertices = Append(g.vertices, v)
             /\ h.vindex = [g.vindex EXCEPT ![v] = Len(g.vertices)]
<1>1. g.vertices \in Seq(Vertices)
  BY DEF Graphs
<1>2. Append(g.vertices, v) \in Seq(Vertices) /\ Len(g.vertices) \in Nat
  BY <1>1, Appended
<1> QED
  BY <1>2 DEF Graphs, WithVertex

EdgeIn(g, h, e, s, t) ==
    /\ h \in Graphs
    /\ h.direction = g.direction /\ h.vertices = g.vertices /\ h.vindex = g.vindex
    /\ h.edges  = Append(g.edges, e)
    /\ h.eindex = [g.eindex EXCEPT ![e] = Len(g.edges)]
    /\ h.source = [g.source EXCEPT ![e] = s]
    /\ h.target = [g.target EXCEPT ![e] = t]
    /\ \A u \in Vertices :
          /\ h.out[u] = IF u = s \/ (Undirected(g) /\ u = t) THEN Append(g.out[u], e) ELSE g.out[u]
          /\ h.in[u]  = IF Bidirectional(g) /\ u = t THEN Append(g.in[u], e) ELSE g.in[u]

LEMMA WithEdgeFields ==
  ASSUME NEW g \in Graphs, NEW e \in Edges, NEW s \in Vertices, NEW t \in Vertices
  PROVE  EdgeIn(g, WithEdge(g, e, s, t), e, s, t)
<1> DEFINE p  == Places(g, s, t)
           g1 == [g EXCEPT !.edges = Append(@, e), !.eindex[e] = Len(g.edges),
                           !.source[e] = s, !.target[e] = t]
           g2 == [g1 EXCEPT !.out[s] = Append(@, e)]
<1>1. /\ Append(g.edges, e) \in Seq(Edges) /\ Len(g.edges) \in Nat
      /\ \A u \in Vertices : Append(g.out[u], e) \in Seq(Edges) /\ Append(g.in[u], e) \in Seq(Edges)
  <2>1. g.edges \in Seq(Edges) /\ \A u \in Vertices : g.out[u] \in Seq(Edges) /\ g.in[u] \in Seq(Edges)
    BY DEF Graphs
  <2> QED
    BY <2>1, Appended
<1>2. g1 \in Graphs /\ g1.out = g.out /\ g1.in = g.in
  BY <1>1 DEF Graphs, Ends
<1>3. g2 \in Graphs /\ g2.in = g.in /\ g2.out = [g.out EXCEPT ![s] = Append(g.out[s], e)]
  BY <1>1, <1>2 DEF Graphs
<1>4. /\ g2.direction = g.direction /\ g2.vertices = g.vertices /\ g2.vindex = g.vindex
      /\ g2.edges  = Append(g.edges, e)
      /\ g2.eindex = [g.eindex EXCEPT ![e] = Len(g.edges)]
      /\ g2.source = [g.source EXCEPT ![e] = s]
      /\ g2.target = [g.target EXCEPT ![e] = t]
  BY DEF Graphs
<1>5. /\ p = <<"edges", "out">> => WithEdge(g, e, s, t) = g2
      /\ p = <<"edges", "out", "far out">> => WithEdge(g, e, s, t) = [g2 EXCEPT !.out[t] = Append(@, e)]
      /\ p = <<"edges", "out", "in">> => WithEdge(g, e, s, t) = [g2 EXCEPT !.in[t] = Append(@, e)]
  <2>1. Put(g, e, s, t, "edges") = g1 /\ Put(g1, e, s, t, "out") = g2
    BY DEF Put
  <2>2. /\ Put(g2, e, s, t, "far out") = [g2 EXCEPT !.out[t] = Append(@, e)]
        /\ Put(g2, e, s, t, "in") = [g2 EXCEPT !.in[t] = Append(@, e)]
    BY DEF Put
  <2> HIDE DEF g1, g2
  <2>3. ASSUME p = <<"edges", "out">> PROVE WithEdge(g, e, s, t) = g2
    <3>1. Len(p) = 2 /\ p[1] = "edges" /\ p[2] = "out"
      BY <2>3
    <3> QED
      BY <2>1, <3>1 DEF WithEdge, PutInto
  <2>4. ASSUME NEW last, p = <<"edges", "out", last>> PROVE WithEdge(g, e, s, t) = Put(g2, e, s, t, last)
    <3>1. Len(p) = 3 /\ p[1] = "edges" /\ p[2] = "out" /\ p[3] = last
      BY <2>4
    <3> QED
      BY <2>1, <3>1 DEF WithEdge, PutInto
  <2> QED
    BY <2>2, <2>3, <2>4
<1> HIDE DEF g1, g2
<1>6. CASE Undirected(g) /\ s # t
  <2> DEFINE h == [g2 EXCEPT !.out[t] = Append(@, e)]
  <2>1. WithEdge(g, e, s, t) = h
    BY <1>5, <1>6, PlacesAre, ZenonT(40)
  <2>2. ~Bidirectional(g)
    BY <1>6 DEF Undirected, Bidirectional
  <2>3. g2.out[t] = g.out[t]
    BY <1>3, <1>6 DEF Graphs
  <2>4. h \in Graphs /\ h.out = [g2.out EXCEPT ![t] = Append(g.out[t], e)] /\ h.in = g2.in
    BY <1>1, <1>3, <2>3 DEF Graphs
  <2>5. /\ h.direction = g2.direction /\ h.vertices = g2.vertices /\ h.vindex = g2.vindex
        /\ h.edges = g2.edges /\ h.eindex = g2.eindex /\ h.source = g2.source /\ h.target = g2.target
    BY <1>3 DEF Graphs
  <2> HIDE DEF h
  <2>6. \A u \in Vertices : h.out[u] = IF u = s \/ u = t THEN Append(g.out[u], e) ELSE g.out[u]
    BY <1>3, <2>4 DEF Graphs
  <2> QED
    BY <1>3, <1>4, <1>6, <2>1, <2>2, <2>4, <2>5, <2>6 DEF EdgeIn
<1>7. CASE Bidirectional(g)
  <2> DEFINE h == [g2 EXCEPT !.in[t] = Append(@, e)]
  <2>1. WithEdge(g, e, s, t) = h
    BY <1>5, <1>7, PlacesAre, ZenonT(40)
  <2>2. ~Undirected(g)
    BY <1>7 DEF Undirected, Bidirectional
  <2>4. h \in Graphs /\ h.in = [g.in EXCEPT ![t] = Append(g.in[t], e)] /\ h.out = g2.out
    BY <1>1, <1>3 DEF Graphs
  <2>5. /\ h.direction = g2.direction /\ h.vertices = g2.vertices /\ h.vindex = g2.vindex
        /\ h.edges = g2.edges /\ h.eindex = g2.eindex /\ h.source = g2.source /\ h.target = g2.target
    BY <1>3 DEF Graphs
  <2> HIDE DEF h
  <2>6. \A u \in Vertices : /\ h.in[u] = IF u = t THEN Append(g.in[u], e) ELSE g.in[u]
                            /\ h.out[u] = IF u = s THEN Append(g.out[u], e) ELSE g.out[u]
    BY <1>3, <2>4, ZenonT(40) DEF Graphs
  <2> QED
    BY <1>4, <1>7, <2>1, <2>2, <2>4, <2>5, <2>6 DEF EdgeIn
<1>8. CASE ~(Undirected(g) /\ s # t) /\ ~Bidirectional(g)
  <2>1. WithEdge(g, e, s, t) = g2
    BY <1>5, <1>8, PlacesAre
  <2>2. \A u \in Vertices : g2.out[u] = IF u = s THEN Append(g.out[u], e) ELSE g.out[u]
    BY <1>3 DEF Graphs
  <2> QED
    BY <1>3, <1>4, <1>8, <2>1, <2>2 DEF EdgeIn
<1> QED
  BY <1>6, <1>7, <1>8

LEMMA WithVertexOK ==
  ASSUME NEW g, GraphOK(g), NEW v \in FreeVertices(g)
  PROVE  GraphOK(WithVertex(g, v))
<1> DEFINE h == WithVertex(g, v)
<1>1. g \in Graphs /\ v \in Vertices /\ v \notin Members(g.vertices) /\ g.vertices \in Seq(Vertices)
  BY DEF GraphOK, FreeVertices, Graphs
<1>2. /\ h \in Graphs
      /\ h.direction = g.direction /\ h.edges = g.edges /\ h.eindex = g.eindex
      /\ h.source = g.source /\ h.target = g.target /\ h.out = g.out /\ h.in = g.in
      /\ h.vertices = Append(g.vertices, v)
  BY <1>1, WithVertexFields
<1> HIDE DEF h
<1>3. EachOnce(h)
  BY <1>1, <1>2, DistinctAppended DEF EachOnce, GraphOK
<1>4. EndsExist(h)
  <2>1. Members(h.vertices) = Members(g.vertices) \cup {v}
    BY <1>1, <1>2, Appended
  <2> QED
    BY <1>2, <2>1 DEF EndsExist, GraphOK
<1>5. ListsFollow(h)
  <2>1. \A u \in Vertices : OutOf(h, u) = OutOf(g, u) /\ Into(h, u) = Into(g, u)
    BY <1>2 DEF OutOf, Into, Undirected, Bidirectional
  <2> QED
    BY <1>2, <2>1 DEF ListsFollow, GraphOK
<1>6. FreeIsBlank(h)
  BY <1>2 DEF FreeIsBlank, GraphOK
<1> QED
  BY <1>2, <1>3, <1>4, <1>5, <1>6 DEF GraphOK, h

LEMMA WithEdgeOK ==
  ASSUME NEW g, GraphOK(g), NEW e \in FreeEdges(g),
         NEW s \in Members(g.vertices), NEW t \in Members(g.vertices)
  PROVE  GraphOK(WithEdge(g, e, s, t))
<1> DEFINE h == WithEdge(g, e, s, t)
<1>1. /\ g \in Graphs /\ e \in Edges /\ e \notin Members(g.edges) /\ g.edges \in Seq(Edges)
      /\ s \in Vertices /\ t \in Vertices
  <2>1. g \in Graphs
    BY DEF GraphOK
  <2>2. g.edges \in Seq(Edges) /\ g.vertices \in Seq(Vertices)
    BY <2>1 DEF Graphs
  <2>3. Members(g.vertices) \subseteq Vertices
    BY <2>2, LenProperties, ElementOfSeq DEF Members
  <2> QED
    BY <2>1, <2>2, <2>3 DEF FreeEdges
<1>2. EdgeIn(g, h, e, s, t)
  BY <1>1, WithEdgeFields
<1> HIDE DEF h
<1>3. h.edges = Append(g.edges, e) /\ Members(h.edges) = Members(g.edges) \cup {e}
  BY <1>1, <1>2, Appended DEF EdgeIn
<1>4. EachOnce(h)
  BY <1>1, <1>2, DistinctAppended DEF EachOnce, GraphOK, EdgeIn
<1>5. /\ h.source[e] = s /\ h.target[e] = t
      /\ \A x \in Edges \ {e} : /\ h.source[x] = g.source[x] /\ h.target[x] = g.target[x]
                               /\ h.eindex[x] = g.eindex[x]
  BY <1>1, <1>2 DEF EdgeIn, Graphs
<1>6. Members(g.edges) \subseteq Edges \ {e}
  BY <1>1, LenProperties, ElementOfSeq DEF Members
<1>7. EndsExist(h)
  BY <1>2, <1>3, <1>5, <1>6 DEF EndsExist, GraphOK, EdgeIn
<1>8. ListsFollow(h)
  <2> SUFFICES ASSUME NEW u \in Vertices
               PROVE  /\ h.out[u] = Without(h.edges, Edges \ OutOf(h, u))
                      /\ h.in[u]  = Without(h.edges, Edges \ Into(h, u))
    BY DEF ListsFollow
  <2>1. (Undirected(h) <=> Undirected(g)) /\ (Bidirectional(h) <=> Bidirectional(g))
    BY <1>2 DEF EdgeIn, Undirected, Bidirectional
  <2> DEFINE A == Edges \ OutOf(h, u)
             B == Edges \ OutOf(g, u)
             C == Edges \ Into(h, u)
             D == Edges \ Into(g, u)
  <2>0. \A x \in Members(g.edges) : (x \in A <=> x \in B) /\ (x \in C <=> x \in D)
    BY <1>3, <1>5, <1>6, <2>1 DEF OutOf, Into
  <2>2. /\ e \in OutOf(h, u) <=> u = s \/ (Undirected(g) /\ u = t)
        /\ e \in Into(h, u) <=> Bidirectional(g) /\ u = t
    BY <1>3, <1>5, <1>6, <2>1 DEF OutOf, Into
  <2>3. /\ Without(g.edges, Edges \ OutOf(h, u)) = g.out[u]
        /\ Without(g.edges, Edges \ Into(h, u)) = g.in[u]
    <3>1. /\ g.out[u] = Without(g.edges, Edges \ OutOf(g, u))
          /\ g.in[u]  = Without(g.edges, Edges \ Into(g, u))
      BY DEF GraphOK, ListsFollow
    <3> HIDE DEF A, B, C, D
    <3>3. Without(g.edges, A) = Without(g.edges, B) /\ Without(g.edges, C) = Without(g.edges, D)
      BY <1>1, <2>0, WithoutSame
    <3> QED
      BY <3>1, <3>3 DEF A, B, C, D
  <2>4. /\ Without(h.edges, Edges \ OutOf(h, u)) =
              IF e \in Edges \ OutOf(h, u) THEN g.out[u] ELSE Append(g.out[u], e)
        /\ Without(h.edges, Edges \ Into(h, u)) =
              IF e \in Edges \ Into(h, u) THEN g.in[u] ELSE Append(g.in[u], e)
    <3> HIDE DEF A, C
    <3> DEFINE list == g.edges
    <3>1. list \in Seq(Edges) /\ e \in Edges
      BY <1>1
    <3> HIDE DEF list
    <3>2. /\ Without(Append(list, e), A) = IF e \in A THEN Without(list, A) ELSE Append(Without(list, A), e)
          /\ Without(Append(list, e), C) = IF e \in C THEN Without(list, C) ELSE Append(Without(list, C), e)
      BY <3>1, WithoutAppended
    <3> QED
      BY <1>3, <2>3, <3>2 DEF A, C, list
  <2> QED
    BY <1>1, <1>2, <2>2, <2>4 DEF EdgeIn
<1>9. FreeIsBlank(h)
  BY <1>3, <1>5 DEF FreeIsBlank, GraphOK
<1> QED
  BY <1>2, <1>4, <1>7, <1>8, <1>9 DEF GraphOK, EdgeIn, h

\* The fields after edges were taken out of the lists and erased.
Removed(g, h, dead, deadOut, deadIn) ==
    /\ h \in Graphs
    /\ h.direction = g.direction /\ h.vertices = g.vertices /\ h.vindex = g.vindex
    /\ h.edges = Without(g.edges, dead)
    /\ \A e \in Edges \ dead : h.eindex[e] = g.eindex[e] /\ h.source[e] = g.source[e] /\ h.target[e] = g.target[e]
    /\ \A e \in Edges \cap dead : h.eindex[e] = 0 /\ h.source[e] = NoVertex /\ h.target[e] = NoVertex
    /\ \A u \in Vertices : /\ h.out[u] = Without(g.out[u], deadOut[u])
                          /\ h.in[u] = Without(g.in[u], deadIn[u])

LEMMA RemovedFields ==
  ASSUME NEW g \in Graphs, NEW dead, NEW deadOut, NEW deadIn
  PROVE  Removed(g, Erased(Unlisted(g, deadOut, deadIn), dead), dead, deadOut, deadIn)
<1> DEFINE u1 == Unlisted(g, deadOut, deadIn)
           h == Erased(u1, dead)
<1>1. /\ Without(g.edges, dead) \in Seq(Edges)
      /\ \A u \in Vertices : Without(g.out[u], deadOut[u]) \in Seq(Edges)
                           /\ Without(g.in[u], deadIn[u]) \in Seq(Edges)
  <2>1. g.edges \in Seq(Edges) /\ \A u \in Vertices : g.out[u] \in Seq(Edges) /\ g.in[u] \in Seq(Edges)
    BY DEF Graphs
  <2> QED
    BY <2>1, WithoutKeeps
<1>2. /\ u1 \in Graphs
      /\ u1.direction = g.direction /\ u1.vertices = g.vertices /\ u1.vindex = g.vindex
      /\ u1.edges = g.edges /\ u1.eindex = g.eindex /\ u1.source = g.source /\ u1.target = g.target
      /\ \A u \in Vertices : /\ u1.out[u] = Without(g.out[u], deadOut[u])
                            /\ u1.in[u] = Without(g.in[u], deadIn[u])
  BY <1>1 DEF Unlisted, Graphs
<1> HIDE DEF u1
<1>3. /\ h.direction = u1.direction /\ h.vertices = u1.vertices /\ h.vindex = u1.vindex
      /\ h.out = u1.out /\ h.in = u1.in
      /\ h.edges = Without(g.edges, dead)
      /\ \A e \in Edges \ dead : h.eindex[e] = g.eindex[e] /\ h.source[e] = g.source[e] /\ h.target[e] = g.target[e]
      /\ \A e \in Edges \cap dead : h.eindex[e] = 0 /\ h.source[e] = NoVertex /\ h.target[e] = NoVertex
  <2>1. /\ h.direction = u1.direction /\ h.vertices = u1.vertices /\ h.vindex = u1.vindex
        /\ h.out = u1.out /\ h.in = u1.in
        /\ h.edges = Without(u1.edges, dead)
        /\ h.eindex = [e \in Edges |-> IF e \in dead THEN 0 ELSE u1.eindex[e]]
        /\ h.source = [e \in Edges |-> IF e \in dead THEN NoVertex ELSE u1.source[e]]
        /\ h.target = [e \in Edges |-> IF e \in dead THEN NoVertex ELSE u1.target[e]]
    BY <1>2 DEF Erased, Graphs
  <2> HIDE DEF h
  <2> QED
    BY <1>2, <2>1
<1>4. h \in Graphs
  BY <1>1, <1>2 DEF Erased, Graphs, Ends
<1> HIDE DEF h
<1>5. Removed(g, h, dead, deadOut, deadIn)
  BY <1>2, <1>3, <1>4 DEF Removed
<1> QED
  BY <1>5 DEF h, u1

\* An edge leaves every list it is in if it leaves the graph.
LEMMA RemovalKeeps ==
  ASSUME NEW g, GraphOK(g), NEW dead, NEW deadOut, NEW deadIn,
         \A u \in Vertices : /\ \A e \in OutOf(g, u) : e \in deadOut[u] <=> e \in dead
                           /\ \A e \in Into(g, u) : e \in deadIn[u] <=> e \in dead
  PROVE  GraphOK(Erased(Unlisted(g, deadOut, deadIn), dead))
<1> DEFINE h == Erased(Unlisted(g, deadOut, deadIn), dead)
<1>1. g \in Graphs /\ g.edges \in Seq(Edges) /\ Members(g.edges) \subseteq Edges
  <2>1. g \in Graphs /\ g.edges \in Seq(Edges)
    BY DEF GraphOK, Graphs
  <2> QED
    BY <2>1, LenProperties, ElementOfSeq DEF Members
<1>2. Removed(g, h, dead, deadOut, deadIn)
  BY <1>1, RemovedFields
<1> HIDE DEF h
<1>3. /\ h.edges = Without(g.edges, dead) /\ Members(h.edges) = Members(g.edges) \ dead
      /\ Distinct(g.edges) => Distinct(h.edges)
  BY <1>1, <1>2, WithoutKeeps DEF Removed
<1>0. /\ h.direction = g.direction /\ h.vertices = g.vertices
      /\ \A e \in Edges \ dead : h.eindex[e] = g.eindex[e] /\ h.source[e] = g.source[e] /\ h.target[e] = g.target[e]
      /\ \A e \in Edges \cap dead : h.eindex[e] = 0 /\ h.source[e] = NoVertex /\ h.target[e] = NoVertex
  BY <1>2 DEF Removed
<1>4. EachOnce(h)
  BY <1>0, <1>3 DEF EachOnce, GraphOK
<1>5. EndsExist(h)
  BY <1>0, <1>1, <1>3 DEF EndsExist, GraphOK
<1>6. ListsFollow(h)
  <2> SUFFICES ASSUME NEW u \in Vertices
               PROVE  /\ h.out[u] = Without(h.edges, Edges \ OutOf(h, u))
                      /\ h.in[u]  = Without(h.edges, Edges \ Into(h, u))
    BY DEF ListsFollow
  <2>1. (Undirected(h) <=> Undirected(g)) /\ (Bidirectional(h) <=> Bidirectional(g))
    BY <1>2 DEF Removed, Undirected, Bidirectional
  <2>2. OutOf(h, u) = OutOf(g, u) \ dead /\ Into(h, u) = Into(g, u) \ dead
    <3>1. \A x \in Members(g.edges) \ dead : h.source[x] = g.source[x] /\ h.target[x] = g.target[x]
      BY <1>0, <1>1
    <3> QED
      BY <1>3, <2>1, <3>1 DEF OutOf, Into
  <2>3. OutOf(g, u) \subseteq Members(g.edges) /\ Into(g, u) \subseteq Members(g.edges)
    BY DEF OutOf, Into
  <2>4. /\ h.out[u] = Without(g.edges, (Edges \ OutOf(g, u)) \cup deadOut[u])
        /\ h.in[u]  = Without(g.edges, (Edges \ Into(g, u)) \cup deadIn[u])
    <3>1. /\ g.out[u] = Without(g.edges, Edges \ OutOf(g, u))
          /\ g.in[u]  = Without(g.edges, Edges \ Into(g, u))
      BY DEF GraphOK, ListsFollow
    <3>2. h.out[u] = Without(g.out[u], deadOut[u]) /\ h.in[u] = Without(g.in[u], deadIn[u])
      BY <1>2 DEF Removed
    <3> QED
      BY <1>1, <3>1, <3>2, WithoutTwice
  <2>5. /\ Without(h.edges, Edges \ OutOf(h, u)) = Without(g.edges, dead \cup (Edges \ OutOf(h, u)))
        /\ Without(h.edges, Edges \ Into(h, u)) = Without(g.edges, dead \cup (Edges \ Into(h, u)))
    BY <1>1, <1>3, WithoutTwice
  <2>6. \A x \in Members(g.edges) :
           /\ x \in (Edges \ OutOf(g, u)) \cup deadOut[u] <=> x \in dead \cup (Edges \ OutOf(h, u))
           /\ x \in (Edges \ Into(g, u)) \cup deadIn[u] <=> x \in dead \cup (Edges \ Into(h, u))
    BY <1>1, <2>2
  <2>7. /\ Without(g.edges, (Edges \ OutOf(g, u)) \cup deadOut[u]) = Without(g.edges, dead \cup (Edges \ OutOf(h, u)))
        /\ Without(g.edges, (Edges \ Into(g, u)) \cup deadIn[u]) = Without(g.edges, dead \cup (Edges \ Into(h, u)))
    BY <1>1, <2>6, WithoutSame
  <2> QED
    BY <2>4, <2>5, <2>7
<1>7. FreeIsBlank(h)
  BY <1>0, <1>3 DEF FreeIsBlank, GraphOK
<1> QED
  BY <1>2, <1>4, <1>5, <1>6, <1>7 DEF GraphOK, Removed, h

\* What the lists of a vertex hold.
LEMMA ListsHold ==
  ASSUME NEW g, GraphOK(g), NEW v \in Vertices
  PROVE  /\ g.out[v] \in Seq(Edges) /\ g.in[v] \in Seq(Edges)
         /\ Members(g.out[v]) = OutOf(g, v) /\ Members(g.in[v]) = Into(g, v)
         /\ Distinct(g.out[v]) /\ Distinct(g.in[v])
         /\ \A x, y : Before(x, y, g.out[v]) \/ Before(x, y, g.in[v]) => Before(x, y, g.edges)
<1> DEFINE A == Edges \ OutOf(g, v)
           B == Edges \ Into(g, v)
           list == g.edges
<1>1. list \in Seq(Edges) /\ Distinct(list) /\ Members(list) \subseteq Edges
  <2>1. list \in Seq(Edges) /\ Distinct(list)
    BY DEF GraphOK, Graphs, EachOnce
  <2> QED
    BY <2>1, LenProperties, ElementOfSeq DEF Members
<1>2. g.out[v] = Without(list, A) /\ g.in[v] = Without(list, B)
  BY DEF GraphOK, ListsFollow
<1>3. Members(list) \ A = OutOf(g, v) /\ Members(list) \ B = Into(g, v)
  BY <1>1 DEF OutOf, Into
<1> HIDE DEF A, B, list
<1>4. /\ Without(list, A) \in Seq(Edges) /\ Without(list, B) \in Seq(Edges)
      /\ Members(Without(list, A)) = Members(list) \ A /\ Members(Without(list, B)) = Members(list) \ B
      /\ Distinct(Without(list, A)) /\ Distinct(Without(list, B))
      /\ \A x, y : Before(x, y, Without(list, A)) => Before(x, y, list)
      /\ \A x, y : Before(x, y, Without(list, B)) => Before(x, y, list)
  BY <1>1, WithoutKeeps
<1> QED
  BY <1>2, <1>3, <1>4 DEF list

LEMMA WithoutVertexOK ==
  ASSUME NEW g, GraphOK(g), NEW v \in Members(g.vertices),
         \A e \in Members(g.edges) : v \notin {g.source[e], g.target[e]}
  PROVE  GraphOK(WithoutVertex(g, v))
<1> DEFINE h == WithoutVertex(g, v)
<1>1. g \in Graphs /\ g.vertices \in Seq(Vertices) /\ v \in Vertices
  <2>1. g \in Graphs /\ g.vertices \in Seq(Vertices)
    BY DEF GraphOK, Graphs
  <2> QED
    BY <2>1, LenProperties, ElementOfSeq DEF Members
<1>2. /\ Without(g.vertices, {v}) \in Seq(Vertices)
      /\ Members(Without(g.vertices, {v})) = Members(g.vertices) \ {v}
      /\ Distinct(g.vertices) => Distinct(Without(g.vertices, {v}))
  BY <1>1, WithoutKeeps
<1>3. /\ h \in Graphs
      /\ h.direction = g.direction /\ h.edges = g.edges /\ h.eindex = g.eindex
      /\ h.source = g.source /\ h.target = g.target /\ h.out = g.out
      /\ h.vertices = Without(g.vertices, {v})
      /\ h.in = [g.in EXCEPT ![v] = <<>>]
  BY <1>1, <1>2, EmptySeq DEF Graphs, WithoutVertex
<1> HIDE DEF h
<1>4. EachOnce(h) /\ EndsExist(h) /\ FreeIsBlank(h)
  <2>1. EachOnce(h)
    BY <1>2, <1>3 DEF EachOnce, GraphOK
  <2>2. EndsExist(h)
    BY <1>2, <1>3, ZenonT(40) DEF EndsExist, GraphOK
  <2>3. FreeIsBlank(h)
    BY <1>3 DEF FreeIsBlank, GraphOK
  <2> QED
    BY <2>1, <2>2, <2>3
<1>5. \A u \in Vertices : OutOf(h, u) = OutOf(g, u) /\ Into(h, u) = Into(g, u)
  BY <1>3 DEF OutOf, Into, Undirected, Bidirectional
<1>6. g.in[v] = <<>>
  <2>1. Members(g.in[v]) = Into(g, v) /\ g.in[v] \in Seq(Edges)
    BY <1>1, ListsHold
  <2>2. Into(g, v) = {}
    BY DEF Into
  <2> QED
    BY <2>1, <2>2, NoMembers
<1>7. h.in = g.in
  BY <1>1, <1>3, <1>6 DEF Graphs
<1>8. ListsFollow(h)
  BY <1>3, <1>5, <1>7 DEF ListsFollow, GraphOK
<1> QED
  BY <1>3, <1>4, <1>8 DEF GraphOK, h

\* Edges that leave s are all that remove_edge takes away.
LEMMA RemoveEdgesOK ==
  ASSUME NEW g, GraphOK(g), NEW s, NEW dead, \A e \in dead : g.source[e] = s
  PROVE  GraphOK(RemoveEdgesOf(g, s, dead))
<1> DEFINE deadOut == [u \in Vertices |-> {e \in dead : u = s \/ (Undirected(g) /\ u = g.target[e])}]
           deadIn  == [u \in Vertices |-> {e \in dead : Bidirectional(g) /\ u = g.target[e]}]
<1>1. \A u \in Vertices : /\ \A e \in OutOf(g, u) : e \in deadOut[u] <=> e \in dead
                        /\ \A e \in Into(g, u) : e \in deadIn[u] <=> e \in dead
  BY DEF OutOf, Into
<1>2. RemoveEdgesOf(g, s, dead) = Erased(Unlisted(g, deadOut, deadIn), dead)
  BY DEF RemoveEdgesOf
<1> HIDE DEF deadOut, deadIn
<1> QED
  BY <1>1, <1>2, RemovalKeeps

LEMMA ClearedOK ==
  ASSUME NEW g, GraphOK(g), NEW v \in Members(g.vertices)
  PROVE  GraphOK(Cleared(g, v))
<1> DEFINE mine     == Members(g.out[v])
           ingoing  == {e \in Edges : /\ ~Undirected(g)
                                      /\ \E u \in Members(g.vertices) \ {v} : e \in Members(g.out[u])
                                      /\ g.target[e] = v}
           Ends2(e) == IF Undirected(g) THEN {g.source[e], g.target[e]} ELSE {g.target[e]}
           deadOut  == [u \in Vertices |-> IF u = v THEN mine
                                          ELSE {e \in mine : u \in Ends2(e)} \cup ingoing]
           deadIn   == [u \in Vertices |-> IF u = v THEN Members(g.in[v])
                                          ELSE {e \in mine : u = g.target[e]}]
           dead     == mine \cup ingoing
<1>1. Members(g.vertices) \subseteq Vertices /\ Members(g.edges) \subseteq Edges
  <2>1. g.vertices \in Seq(Vertices) /\ g.edges \in Seq(Edges)
    BY DEF GraphOK, Graphs
  <2> QED
    BY <2>1, LenProperties, ElementOfSeq DEF Members
<1>2. \A u \in Vertices : Members(g.out[u]) = OutOf(g, u) /\ Members(g.in[u]) = Into(g, u)
  BY ListsHold
<1>3. v \in Vertices /\ mine = OutOf(g, v) /\ Members(g.in[v]) = Into(g, v)
  BY <1>1, <1>2
<1>4. ingoing = {e \in Edges : /\ ~Undirected(g)
                               /\ \E u \in Members(g.vertices) \ {v} : e \in OutOf(g, u)
                               /\ g.target[e] = v}
  BY <1>1, <1>2
<1>5. \A e \in Members(g.edges) : g.source[e] \in Members(g.vertices)
  BY DEF GraphOK, EndsExist
<1>6. ASSUME NEW u \in Vertices, NEW e \in OutOf(g, u) PROVE e \in deadOut[u] <=> e \in dead
  BY <1>3, <1>4, <1>6 DEF OutOf
<1>7. ASSUME NEW u \in Vertices, NEW e \in Into(g, u) PROVE e \in deadIn[u] <=> e \in dead
  <2>1. /\ e \in Members(g.edges) /\ e \in Edges /\ g.target[e] = u
        /\ ~Undirected(g) /\ g.source[e] \in Members(g.vertices)
    BY <1>1, <1>5 DEF Into, Undirected, Bidirectional
  <2>2. CASE u = v
    <3>1. e \in deadIn[u]
      BY <1>3, <2>2
    <3>2. CASE g.source[e] = v
      BY <1>3, <2>1, <3>1, <3>2 DEF OutOf
    <3>3. CASE g.source[e] # v
      <4>1. e \in OutOf(g, g.source[e])
        BY <2>1 DEF OutOf
      <4>2. e \in ingoing
        BY <1>4, <2>1, <2>2, <3>3, <4>1
      <4> QED
        BY <3>1, <4>2
    <3> QED
      BY <3>2, <3>3
  <2>3. CASE u # v
    <3>1. e \notin ingoing
      BY <2>1, <2>3
    <3>2. deadIn[u] = {x \in mine : u = g.target[x]}
      BY <2>3
    <3> HIDE DEF ingoing, mine, deadIn
    <3> QED
      BY <2>1, <3>1, <3>2
  <2> QED
    BY <2>2, <2>3
<1>8. Cleared(g, v) = Erased(Unlisted(g, deadOut, deadIn), dead)
  BY DEF Cleared
<1> HIDE DEF deadOut, deadIn, dead
<1> QED
  BY <1>6, <1>7, <1>8, RemovalKeeps

-----------------------------------------------------------------------------
(* Positions.                                                              *)

LEMMA PlaceIs ==
  ASSUME NEW S, NEW s \in Seq(S), Distinct(s)
  PROVE  /\ \A i \in DOMAIN s : Place(s[i], s) = i - 1
         /\ \A x \in Members(s) : Place(x, s) \in Nat /\ Place(x, s) + 1 \in DOMAIN s
                                /\ s[Place(x, s) + 1] = x
<1>1. Len(s) \in Nat /\ DOMAIN s = 1..Len(s)
  BY LenProperties
<1>2. ASSUME NEW i \in DOMAIN s PROVE Place(s[i], s) = i - 1
  <2> DEFINE k == CHOOSE k \in DOMAIN s : s[k] = s[i]
  <2>1. k \in DOMAIN s /\ s[k] = s[i]
    OBVIOUS
  <2>2. k = i
    BY <2>1 DEF Distinct
  <2> QED
    BY <2>2 DEF Place
<1>3. ASSUME NEW x \in Members(s)
      PROVE  Place(x, s) \in Nat /\ Place(x, s) + 1 \in DOMAIN s /\ s[Place(x, s) + 1] = x
  <2>1. PICK i \in DOMAIN s : s[i] = x
    BY DEF Members
  <2>2. Place(x, s) = i - 1 /\ i \in 1..Len(s)
    BY <1>1, <1>2, <2>1
  <2>3. (i - 1) + 1 = i /\ i - 1 \in Nat
    BY <1>1, <2>2
  <2> QED
    BY <2>1, <2>2, <2>3
<1> QED
  BY <1>2, <1>3

LEMMA PlaceAppended ==
  ASSUME NEW S, NEW s \in Seq(S), NEW x \in S, Distinct(Append(s, x))
  PROVE  /\ \A y \in Members(s) : Place(y, Append(s, x)) = Place(y, s) /\ y # x
         /\ Place(x, Append(s, x)) = Len(s)
<1> DEFINE t == Append(s, x)
<1>1. Distinct(s) /\ x \notin Members(s)
  BY DistinctAppended
<1>2. /\ t \in Seq(S) /\ Len(s) \in Nat /\ DOMAIN s = 1..Len(s) /\ DOMAIN t = 1..(Len(s) + 1)
      /\ \A k \in 1..Len(s) : t[k] = s[k]
      /\ t[Len(s) + 1] = x
  BY Appended
<1> HIDE DEF t
<1>3. (\A i \in DOMAIN s : Place(s[i], s) = i - 1) /\ (\A i \in DOMAIN t : Place(t[i], t) = i - 1)
  BY <1>1, <1>2, PlaceIs DEF t
<1>4. ASSUME NEW y \in Members(s) PROVE Place(y, t) = Place(y, s)
  <2>1. PICK i \in DOMAIN s : s[i] = y
    BY DEF Members
  <2>2. i \in DOMAIN t /\ t[i] = y
    BY <1>2, <2>1
  <2> QED
    BY <1>3, <2>1, <2>2
<1>5. Place(x, t) = Len(s)
  <2>1. Len(s) + 1 \in DOMAIN t /\ (Len(s) + 1) - 1 = Len(s)
    BY <1>2
  <2> QED
    BY <1>2, <1>3, <2>1
<1> QED
  BY <1>1, <1>4, <1>5 DEF t

LEMMA DistinctLength ==
  ASSUME NEW S, NEW s \in Seq(S), Distinct(s)
  PROVE  IsFiniteSet(Members(s)) /\ Len(s) = Cardinality(Members(s))
<1> DEFINE Counted(w) == IsFiniteSet(Members(w)) /\ (Distinct(w) => Len(w) = Cardinality(Members(w)))
           T == {w \in Seq(S) : Counted(w)}
<1>1. <<>> \in T
  <2>1. Counted(<<>>)
    BY EmptyList, EmptySeq, FS_EmptySet
  <2> QED
    BY <2>1, EmptySeq
<1>2. ASSUME NEW w \in T, NEW x \in S PROVE Append(w, x) \in T
  <2>1. /\ Append(w, x) \in Seq(S) /\ Len(w) \in Nat /\ Len(Append(w, x)) = Len(w) + 1
        /\ Members(Append(w, x)) = Members(w) \cup {x}
        /\ Distinct(Append(w, x)) <=> Distinct(w) /\ x \notin Members(w)
    BY Appended, DistinctAppended
  <2>2. IsFiniteSet(Members(w) \cup {x})
    BY FS_AddElement
  <2>3. x \notin Members(w) => Cardinality(Members(w) \cup {x}) = Cardinality(Members(w)) + 1
    BY FS_AddElement
  <2> QED
    BY <2>1, <2>2, <2>3
<1>3. T = Seq(S)
  <2>1. T \in SUBSET Seq(S)
    OBVIOUS
  <2> HIDE DEF T
  <2> QED
    BY <1>1, <1>2, <2>1, ListInduction
<1> QED
  BY <1>3

LEMMA FollowsList ==
  ASSUME NEW S, NEW s \in Seq(S), NEW list \in Seq(S), Distinct(list),
         \A x, y : Before(x, y, s) => Before(x, y, list)
  PROVE  Follows(s, list)
<1> SUFFICES ASSUME NEW i \in DOMAIN s, NEW j \in DOMAIN s, i < j
             PROVE  Place(s[i], list) < Place(s[j], list)
  BY DEF Follows
<1>1. Before(s[i], s[j], list)
  BY DEF Before
<1>2. PICK k \in DOMAIN list, l \in DOMAIN list : k < l /\ list[k] = s[i] /\ list[l] = s[j]
  BY <1>1 DEF Before
<1>3. Place(s[i], list) = k - 1 /\ Place(s[j], list) = l - 1
  BY <1>2, PlaceIs
<1>4. k \in Int /\ l \in Int
  BY LenProperties
<1> QED
  BY <1>2, <1>3, <1>4

LEMMA ReindexedOK ==
  ASSUME NEW g, GraphOK(g)
  PROVE  GraphOK(Reindexed(g)) /\ Indexed(Reindexed(g))
<1> DEFINE h == Reindexed(g)
<1>1. /\ g \in Graphs /\ g.vertices \in Seq(Vertices) /\ g.edges \in Seq(Edges)
      /\ Distinct(g.vertices) /\ Distinct(g.edges)
  BY DEF GraphOK, Graphs, EachOnce
<1>2. /\ \A v \in Members(g.vertices) : Place(v, g.vertices) \in Nat
      /\ \A e \in Members(g.edges) : Place(e, g.edges) \in Nat
  BY <1>1, PlaceIs
<1>3. Members(g.vertices) \subseteq Vertices /\ Members(g.edges) \subseteq Edges
  BY <1>1, LenProperties, ElementOfSeq DEF Members
<1>4. /\ h \in Graphs
      /\ h.direction = g.direction /\ h.vertices = g.vertices /\ h.edges = g.edges
      /\ h.source = g.source /\ h.target = g.target /\ h.out = g.out /\ h.in = g.in
  BY <1>1, <1>2 DEF Graphs, Reindexed
<1>5. /\ h.vindex = [v \in Vertices |-> IF v \in Members(g.vertices) THEN Place(v, g.vertices) ELSE 0]
      /\ h.eindex = [e \in Edges |-> IF e \in Members(g.edges) THEN Place(e, g.edges) ELSE 0]
  BY <1>1 DEF Graphs, Reindexed
<1> HIDE DEF h
<1>6. Indexed(h)
  BY <1>3, <1>4, <1>5 DEF Indexed
<1>7. EachOnce(h) /\ EndsExist(h)
  BY <1>4 DEF GraphOK, EachOnce, EndsExist
<1>8. ListsFollow(h)
  <2>1. \A u \in Vertices : OutOf(h, u) = OutOf(g, u) /\ Into(h, u) = Into(g, u)
    BY <1>4 DEF OutOf, Into, Undirected, Bidirectional
  <2> QED
    BY <1>4, <2>1 DEF ListsFollow, GraphOK
<1>9. FreeIsBlank(h)
  BY <1>4, <1>5 DEF GraphOK, FreeIsBlank
<1> QED
  BY <1>4, <1>6, <1>7, <1>8, <1>9 DEF GraphOK, h

\* Additions keep the positions.
LEMMA AdditionsIndexed ==
  ASSUME NEW g, GraphOK(g), Indexed(g)
  PROVE  /\ \A v \in FreeVertices(g) : Indexed(WithVertex(g, v))
         /\ \A e \in FreeEdges(g), s, t \in Members(g.vertices) : Indexed(WithEdge(g, e, s, t))
<1>1. /\ g \in Graphs /\ g.vertices \in Seq(Vertices) /\ g.edges \in Seq(Edges)
      /\ Distinct(g.vertices) /\ Distinct(g.edges)
      /\ g.vindex \in [Vertices -> Nat] /\ g.eindex \in [Edges -> Nat]
  BY DEF GraphOK, Graphs, EachOnce
<1>2. Members(g.vertices) \subseteq Vertices /\ Members(g.edges) \subseteq Edges
  BY <1>1, LenProperties, ElementOfSeq DEF Members
<1>3. ASSUME NEW v \in FreeVertices(g) PROVE Indexed(WithVertex(g, v))
  <2> DEFINE h == WithVertex(g, v)
             list == Append(g.vertices, v)
  <2>1. v \in Vertices /\ v \notin Members(g.vertices)
    BY DEF FreeVertices
  <2>2. /\ h.edges = g.edges /\ h.eindex = g.eindex /\ h.vertices = list
        /\ h.vindex = [g.vindex EXCEPT ![v] = Len(g.vertices)]
    BY <1>1, <2>1, WithVertexFields
  <2>3. Members(list) = Members(g.vertices) \cup {v} /\ Distinct(list)
    BY <1>1, <2>1, Appended, DistinctAppended
  <2>4. /\ \A y \in Members(g.vertices) : Place(y, list) = Place(y, g.vertices) /\ y # v
        /\ Place(v, list) = Len(g.vertices)
    BY <1>1, <2>1, <2>3, PlaceAppended
  <2> HIDE DEF h, list
  <2>5. ASSUME NEW y \in Members(list) PROVE h.vindex[y] = Place(y, list)
    <3>1. CASE y = v
      BY <1>1, <2>1, <2>2, <2>4, <3>1
    <3>2. CASE y \in Members(g.vertices)
      BY <1>1, <1>2, <2>2, <2>4, <3>2 DEF Indexed
    <3> QED
      BY <2>3, <3>1, <3>2
  <2>6. Indexed(h)
    BY <2>2, <2>5 DEF Indexed
  <2> QED
    BY <2>6 DEF h
<1>4. ASSUME NEW e \in FreeEdges(g), NEW s \in Members(g.vertices), NEW t \in Members(g.vertices)
      PROVE  Indexed(WithEdge(g, e, s, t))
  <2> DEFINE h == WithEdge(g, e, s, t)
             list == Append(g.edges, e)
  <2>1. e \in Edges /\ e \notin Members(g.edges) /\ s \in Vertices /\ t \in Vertices
    BY <1>2 DEF FreeEdges
  <2>2. EdgeIn(g, h, e, s, t)
    BY <1>1, <2>1, WithEdgeFields
  <2>3. /\ h.edges = list /\ h.vertices = g.vertices /\ h.vindex = g.vindex
        /\ h.eindex = [g.eindex EXCEPT ![e] = Len(g.edges)]
    BY <2>2 DEF EdgeIn
  <2>4. Members(list) = Members(g.edges) \cup {e} /\ Distinct(list)
    BY <1>1, <2>1, Appended, DistinctAppended
  <2>5. /\ \A y \in Members(g.edges) : Place(y, list) = Place(y, g.edges) /\ y # e
        /\ Place(e, list) = Len(g.edges)
    BY <1>1, <2>1, <2>4, PlaceAppended
  <2> HIDE DEF h, list
  <2>6. ASSUME NEW y \in Members(list) PROVE h.eindex[y] = Place(y, list)
    <3>1. CASE y = e
      BY <1>1, <2>1, <2>3, <2>5, <3>1
    <3>2. CASE y \in Members(g.edges)
      BY <1>1, <1>2, <2>3, <2>5, <3>2 DEF Indexed
    <3> QED
      BY <2>4, <3>1, <3>2
  <2>7. Indexed(h)
    BY <2>3, <2>6 DEF Indexed
  <2> QED
    BY <2>7 DEF h
<1> QED
  BY <1>3, <1>4

LEMMA GraphConsistent ==
  ASSUME NEW g, GraphOK(g)
  PROVE  Consistent(g)
<1>1. g.edges \in Seq(Edges) /\ Distinct(g.edges)
  BY DEF GraphOK, Graphs, EachOnce
<1>2. ASSUME NEW v \in Vertices
      PROVE  /\ Listed(g.out[v], Edges) /\ Members(g.out[v]) = OutOf(g, v)
             /\ Listed(g.in[v], Edges)  /\ Members(g.in[v]) = Into(g, v)
             /\ Follows(g.out[v], g.edges) /\ Follows(g.in[v], g.edges)
  <2> DEFINE o == g.out[v]
             i == g.in[v]
             list == g.edges
  <2>1. /\ o \in Seq(Edges) /\ i \in Seq(Edges) /\ list \in Seq(Edges)
        /\ Members(o) = OutOf(g, v) /\ Members(i) = Into(g, v)
        /\ Distinct(o) /\ Distinct(i) /\ Distinct(list)
        /\ \A x, y : Before(x, y, o) => Before(x, y, list)
        /\ \A x, y : Before(x, y, i) => Before(x, y, list)
    BY <1>1, ListsHold
  <2> HIDE DEF o, i, list
  <2>2. Members(o) \subseteq Edges /\ Members(i) \subseteq Edges
    BY <2>1, LenProperties, ElementOfSeq DEF Members
  <2>3. Len(o) = Cardinality(Members(o)) /\ Len(i) = Cardinality(Members(i))
    BY <2>1, DistinctLength
  <2>4. Follows(o, list) /\ Follows(i, list)
    BY <2>1, FollowsList
  <2> QED
    BY <2>1, <2>2, <2>3, <2>4 DEF Listed, o, i, list
<1>3. \A e \in Members(g.edges) : {g.source[e], g.target[e]} \subseteq Members(g.vertices)
  BY DEF GraphOK, EndsExist
<1> QED
  BY <1>2, <1>3 DEF Consistent

-----------------------------------------------------------------------------
(* An add_edge that throws.                                                *)

LEMMA PopBackAppended ==
  ASSUME NEW S, NEW s \in Seq(S), NEW x \in S
  PROVE  PopBack(Append(s, x), x) = s
<1> DEFINE t == Append(s, x)
<1>1. /\ t \in Seq(S) /\ Len(s) \in Nat /\ Len(t) = Len(s) + 1 /\ t[Len(s) + 1] = x
      /\ \A k \in 1..Len(s) : t[k] = s[k]
  BY Appended
<1>2. t # <<>>
  BY AppendProperties
<1> HIDE DEF t
<1>3. Len(t) - 1 = Len(s) /\ t[Len(t)] = x
  BY <1>1
<1>4. SubSeq(t, 1, Len(s)) = s
  BY <1>1, SMTT(30)
<1> QED
  BY <1>2, <1>3, <1>4 DEF PopBack, Shorter, t

LEMMA SameGraph ==
  ASSUME NEW g \in Graphs, NEW h \in Graphs,
         g.direction = h.direction, g.vertices = h.vertices, g.edges = h.edges,
         g.vindex = h.vindex, g.eindex = h.eindex, g.source = h.source, g.target = h.target,
         g.out = h.out, g.in = h.in
  PROVE  g = h
<1>1. ASSUME NEW x \in Graphs
      PROVE  x = [direction |-> x.direction, vertices |-> x.vertices, edges |-> x.edges,
                  vindex |-> x.vindex, eindex |-> x.eindex,
                  source |-> x.source, target |-> x.target, out |-> x.out, in |-> x.in]
  BY DEF Graphs
<1> DEFINE r(x) == [direction |-> x.direction, vertices |-> x.vertices, edges |-> x.edges,
                    vindex |-> x.vindex, eindex |-> x.eindex,
                    source |-> x.source, target |-> x.target, out |-> x.out, in |-> x.in]
<1>2. r(g) = r(h)
  OBVIOUS
<1> HIDE DEF r
<1>3. g = r(g) /\ h = r(h)
  BY <1>1 DEF r
<1> QED
  BY <1>2, <1>3

LEMMA Restored ==
  ASSUME NEW A, NEW B, NEW f \in [A -> B], NEW x \in A, NEW z
  PROVE  [[f EXCEPT ![x] = z] EXCEPT ![x] = f[x]] = f
  OBVIOUS

LEMMA EdgeFailsSame ==
  ASSUME NEW g, GraphOK(g), NEW e \in FreeEdges(g), NEW s \in Vertices, NEW t \in Vertices,
         NEW n \in 0..(Len(Places(g, s, t)) - 1)
  PROVE  EdgeFails(g, e, s, t, n) = g
<1> DEFINE p  == Places(g, s, t)
           g1 == [g EXCEPT !.edges = Append(@, e), !.eindex[e] = Len(g.edges),
                           !.source[e] = s, !.target[e] = t]
           g2 == [g1 EXCEPT !.out[s] = Append(@, e)]
           b1 == [Forget(g1, e) EXCEPT !.edges = PopBack(@, e)]
           b2 == [g2 EXCEPT !.out[s] = PopBack(@, e)]
<1>1. /\ g \in Graphs /\ e \in Edges /\ g.edges \in Seq(Edges) /\ g.out[s] \in Seq(Edges)
      /\ g.eindex[e] = 0 /\ g.source[e] = NoVertex /\ g.target[e] = NoVertex
  BY DEF GraphOK, Graphs, FreeIsBlank, FreeEdges
<1>2. /\ PopBack(Append(g.edges, e), e) = g.edges
      /\ PopBack(Append(g.out[s], e), e) = g.out[s]
  BY <1>1, PopBackAppended
<1>0. /\ g.eindex \in [Edges -> Nat] /\ g.source \in [Edges -> Ends] /\ g.target \in [Edges -> Ends]
      /\ g.out \in [Vertices -> Seq(Edges)]
      /\ Append(g.edges, e) \in Seq(Edges) /\ Append(g.out[s], e) \in Seq(Edges) /\ Len(g.edges) \in Nat
  BY <1>1, Appended DEF Graphs
<1>9. /\ g1 \in Graphs
      /\ g1.direction = g.direction /\ g1.vertices = g.vertices /\ g1.vindex = g.vindex
      /\ g1.out = g.out /\ g1.in = g.in
      /\ g1.edges = Append(g.edges, e) /\ g1.eindex = [g.eindex EXCEPT ![e] = Len(g.edges)]
      /\ g1.source = [g.source EXCEPT ![e] = s] /\ g1.target = [g.target EXCEPT ![e] = t]
  BY <1>0, <1>1 DEF Graphs, Ends
<1>3. b1 = g
  <2> HIDE DEF g1
  <2>1. /\ b1.direction = g1.direction /\ b1.vertices = g1.vertices /\ b1.vindex = g1.vindex
        /\ b1.out = g1.out /\ b1.in = g1.in
        /\ b1.edges = PopBack(g1.edges, e) /\ b1.eindex = [g1.eindex EXCEPT ![e] = 0]
        /\ b1.source = [g1.source EXCEPT ![e] = NoVertex] /\ b1.target = [g1.target EXCEPT ![e] = NoVertex]
    BY <1>9 DEF Forget, Graphs
  <2>2. PopBack(g1.edges, e) \in Seq(Edges)
    BY <1>1, <1>2, <1>9
  <2>3. b1 \in Graphs
    BY <1>1, <1>9, <2>2 DEF Forget, Graphs, Ends
  <2> HIDE DEF b1
  <2>4. b1.eindex = g.eindex /\ b1.source = g.source /\ b1.target = g.target
    <3>1. /\ [[g.eindex EXCEPT ![e] = Len(g.edges)] EXCEPT ![e] = g.eindex[e]] = g.eindex
          /\ [[g.source EXCEPT ![e] = s] EXCEPT ![e] = g.source[e]] = g.source
          /\ [[g.target EXCEPT ![e] = t] EXCEPT ![e] = g.target[e]] = g.target
      BY <1>0, <1>1, Restored
    <3> QED
      BY <1>1, <1>9, <2>1, <3>1
  <2> QED
    BY <1>1, <1>2, <1>9, <2>1, <2>3, <2>4, SameGraph
<1>4. b2 = g1
  <2> HIDE DEF g1
  <2>1. /\ g2.direction = g1.direction /\ g2.vertices = g1.vertices /\ g2.vindex = g1.vindex
        /\ g2.edges = g1.edges /\ g2.eindex = g1.eindex /\ g2.source = g1.source /\ g2.target = g1.target
        /\ g2.in = g1.in
        /\ g2.out = [g.out EXCEPT ![s] = Append(g.out[s], e)]
        /\ g2 \in Graphs
    BY <1>0, <1>9 DEF Graphs
  <2> HIDE DEF g2
  <2>2. g2.out[s] = Append(g.out[s], e)
    BY <1>0, <2>1
  <2>3. PopBack(g2.out[s], e) = g.out[s]
    BY <1>2, <2>2
  <2>4. /\ b2.direction = g2.direction /\ b2.vertices = g2.vertices /\ b2.vindex = g2.vindex
        /\ b2.edges = g2.edges /\ b2.eindex = g2.eindex /\ b2.source = g2.source /\ b2.target = g2.target
        /\ b2.in = g2.in
        /\ b2.out = [g2.out EXCEPT ![s] = g.out[s]]
        /\ b2 \in Graphs
    BY <1>1, <2>1, <2>3 DEF Graphs
  <2> HIDE DEF b2
  <2>5. b2.out = g.out
    BY <1>0, <2>1, <2>4, Restored
  <2>6. /\ b2.direction = g1.direction /\ b2.vertices = g1.vertices /\ b2.vindex = g1.vindex
        /\ b2.edges = g1.edges /\ b2.eindex = g1.eindex /\ b2.source = g1.source /\ b2.target = g1.target
        /\ b2.in = g1.in /\ b2.out = g1.out
    BY <1>9, <2>1, <2>4, <2>5, Zenon
  <2>7. b2 \in Graphs /\ g1 \in Graphs
    BY <1>9, <2>4
  <2> QED
    BY <2>6, <2>7, SameGraph
<1>5. /\ Put(g, e, s, t, "edges") = g1 /\ Put(g1, e, s, t, "out") = g2
      /\ TakeBack(g1, e, s, t, "edges") = b1 /\ TakeBack(g2, e, s, t, "out") = b2
  BY DEF Put, TakeBack
<1>6. p[1] = "edges" /\ p[2] = "out" /\ Len(p) \in {2, 3}
  BY DEF Places
<1>7. n \in {0, 1, 2}
  <2> DEFINE m == Len(Places(g, s, t))
  <2>1. m \in {2, 3} /\ n \in 0..(m - 1)
    BY <1>6
  <2> HIDE DEF m
  <2> QED
    BY <2>1
<1> HIDE DEF g1, g2, b1, b2
<1>8. /\ n = 0 => PutInto(g, e, s, t, n) = g
      /\ n = 1 => PutInto(g, e, s, t, n) = g1
      /\ n = 2 => PutInto(g, e, s, t, n) = g2
  BY <1>5, <1>6 DEF PutInto
<1> QED
  BY <1>3, <1>4, <1>5, <1>6, <1>7, <1>8 DEF EdgeFails

-----------------------------------------------------------------------------
(* The copy.                                                               *)

LEMMA Prefix ==
  ASSUME NEW S, NEW s \in Seq(S), NEW m \in Nat, m + 1 <= Len(s)
  PROVE  /\ SubSeq(s, 1, m) \in Seq(S) /\ Len(SubSeq(s, 1, m)) = m
         /\ s[m + 1] \in S /\ s[m + 1] \in Members(s)
         /\ SubSeq(s, 1, m + 1) = Append(SubSeq(s, 1, m), s[m + 1])
         /\ Members(SubSeq(s, 1, m)) \subseteq Members(s)
         /\ Distinct(s) => s[m + 1] \notin Members(SubSeq(s, 1, m))
<1> DEFINE t == SubSeq(s, 1, m)
           u == SubSeq(s, 1, m + 1)
<1>1. Len(s) \in Nat /\ DOMAIN s = 1..Len(s) /\ \A k \in 1..Len(s) : s[k] \in S
  BY LenProperties, ElementOfSeq
<1>2. /\ t \in Seq(S) /\ Len(t) = m /\ \A i \in 1..m : t[i] = s[i]
  <2>1. \A i \in 1..m : s[i] \in S
    BY <1>1
  <2>2. /\ t \in Seq(S) /\ Len(t) = (IF 1 <= m THEN m - 1 + 1 ELSE 0)
        /\ \A i \in 1..(m - 1 + 1) : t[i] = s[1 + i - 1]
    BY <2>1, SubSeqProperties
  <2> HIDE DEF t
  <2> QED
    BY <1>1, <2>2
<1>3. /\ u \in Seq(S) /\ Len(u) = m + 1 /\ \A i \in 1..(m + 1) : u[i] = s[i]
  <2>1. \A i \in 1..(m + 1) : s[i] \in S
    BY <1>1
  <2>2. /\ u \in Seq(S) /\ Len(u) = (IF 1 <= m + 1 THEN (m + 1) - 1 + 1 ELSE 0)
        /\ \A i \in 1..((m + 1) - 1 + 1) : u[i] = s[1 + i - 1]
    BY <2>1, SubSeqProperties
  <2> HIDE DEF u
  <2> QED
    BY <1>1, <2>2
<1> HIDE DEF t, u
<1>4. m + 1 \in 1..Len(s) /\ s[m + 1] \in S /\ s[m + 1] \in Members(s)
  BY <1>1 DEF Members
<1>5. u = Append(t, s[m + 1])
  <2> DEFINE v == Append(t, s[m + 1])
  <2>1. v \in Seq(S) /\ Len(v) = m + 1 /\ v[m + 1] = s[m + 1] /\ \A i \in 1..m : v[i] = t[i]
    BY <1>2, <1>4, Appended
  <2> HIDE DEF v
  <2>2. \A i \in 1..(m + 1) : u[i] = v[i]
    BY <1>2, <1>3, <2>1
  <2>3. u = v
    BY <1>3, <2>1, <2>2, SeqEqual
  <2> QED
    BY <2>3 DEF v
<1>6. DOMAIN t = 1..m /\ \A i \in 1..m : i \in DOMAIN s /\ i # m + 1 /\ t[i] = s[i]
  BY <1>1, <1>2, LenProperties
<1>7. Members(t) \subseteq Members(s)
  BY <1>6 DEF Members
<1>8. Distinct(s) => s[m + 1] \notin Members(t)
  BY <1>1, <1>4, <1>6 DEF Members, Distinct
<1> QED
  BY <1>2, <1>4, <1>5, <1>7, <1>8 DEF t, u

LEMMA NoPrefix ==
  ASSUME NEW S, NEW s \in Seq(S)
  PROVE  SubSeq(s, 1, 0) = <<>> /\ SubSeq(s, 1, Len(s)) = s
  BY SubSeqEmpty, SubSeqFull

VertexSteps(r, g) ==
    /\ r \in [0..Len(g.vertices) -> Graphs]
    /\ VerticesCopied(g) = r[Len(g.vertices)]
    /\ r[0] = EmptyGraph(g.direction)
    /\ \A n \in 1..Len(g.vertices) : r[n] = WithVertex(r[n - 1], g.vertices[n])

\* The recursion in VerticesCopied.
LEMMA VerticesUnfold ==
  ASSUME NEW g, GraphOK(g)
  PROVE  \E r : VertexSteps(r, g)
<1> DEFINE N == Len(g.vertices)
           step == [x \in Nat \X Graphs |-> IF x[1] \in 1..N THEN WithVertex(x[2], g.vertices[x[1]]) ELSE x[2]]
           F(f) == [n \in 0..Len(g.vertices) |->
                       IF n = 0 THEN EmptyGraph(g.direction) ELSE WithVertex(f[n - 1], g.vertices[n])]
           rest == CHOOSE f : f = F(f)
<1>1. /\ N \in Nat /\ EmptyGraph(g.direction) \in Graphs
      /\ \A n \in 1..N, h \in Graphs : WithVertex(h, g.vertices[n]) \in Graphs
  <2>1. g.vertices \in Seq(Vertices) /\ g.direction \in Kinds
    BY DEF GraphOK, Graphs
  <2>2. N \in Nat /\ \A n \in 1..N : g.vertices[n] \in Vertices
    BY <2>1, LenProperties, ElementOfSeq
  <2> QED
    BY <2>1, <2>2, WithVertexFields, EmptyGraphOK DEF GraphOK
<1>2. step \in [Nat \X Graphs -> Graphs]
  BY <1>1
<1>3. PICK f \in [0..N -> Graphs] : Steps(f, EmptyGraph(g.direction), step, N)
  BY <1>1, <1>2, Recursion
<1>4. ASSUME NEW n \in 1..N PROVE f[n] = WithVertex(f[n - 1], g.vertices[n])
  <2>1. n - 1 \in 0..N /\ n \in Nat
    BY <1>1
  <2>2. <<n, f[n - 1]>> \in Nat \X Graphs
    BY <1>3, <2>1
  <2>3. step[<<n, f[n - 1]>>] = WithVertex(f[n - 1], g.vertices[n])
    BY <2>2
  <2>4. f[n] = step[<<n, f[n - 1]>>]
    BY <1>3 DEF Steps
  <2> HIDE DEF step
  <2> QED
    BY <2>3, <2>4
<1>5. f = F(f)
  <2>1. ASSUME NEW n \in 0..N PROVE f[n] = F(f)[n]
    <3>1. n = 0 \/ (n # 0 /\ n \in 1..N)
      BY <1>1
    <3>2. F(f)[n] = IF n = 0 THEN EmptyGraph(g.direction) ELSE WithVertex(f[n - 1], g.vertices[n])
      OBVIOUS
    <3> HIDE DEF F
    <3> QED
      BY <1>3, <1>4, <3>1, <3>2 DEF Steps
  <2>2. f = [n \in 0..N |-> f[n]]
    BY <1>3
  <2>3. F(f) = [n \in 0..N |-> F(f)[n]]
    OBVIOUS
  <2> HIDE DEF F
  <2> QED
    BY <2>1, <2>2, <2>3
<1>6. rest = F(rest)
  <2> HIDE DEF F
  <2> QED
    BY <1>5
<1>7. VerticesCopied(g) = rest[N]
  BY DEF VerticesCopied
<1> HIDE DEF rest
<1>8. \A n \in 0..N : rest[n] = IF n = 0 THEN EmptyGraph(g.direction) ELSE WithVertex(rest[n - 1], g.vertices[n])
  BY <1>6
<1>9. rest[0] = EmptyGraph(g.direction) /\ \A n \in 1..N : rest[n] = WithVertex(rest[n - 1], g.vertices[n])
  <2>1. 0 \in 0..N /\ \A n \in 1..N : n \in 0..N /\ n # 0
    BY <1>1
  <2> QED
    BY <1>8, <2>1
<1> DEFINE T == {m \in Nat : m \in 0..N => rest[m] \in Graphs}
<1>10. 0 \in T
  BY <1>1, <1>9
<1>11. ASSUME NEW m \in T PROVE m + 1 \in T
  <2> SUFFICES ASSUME m + 1 \in 0..N PROVE rest[m + 1] \in Graphs
    OBVIOUS
  <2>1. m \in 0..N /\ m + 1 \in 1..N /\ (m + 1) - 1 = m /\ rest[m] \in Graphs
    BY <1>1
  <2>2. rest[m + 1] = WithVertex(rest[m], g.vertices[m + 1])
    BY <1>9, <2>1
  <2> QED
    BY <1>1, <2>1, <2>2
<1>12. T = Nat
  <2>1. T \in SUBSET Nat
    OBVIOUS
  <2> HIDE DEF T
  <2> QED
    BY <1>10, <1>11, <2>1, Induction
<1>13. rest \in [0..N -> Graphs]
  <2>1. rest = [n \in 0..N |-> rest[n]]
    BY <1>6
  <2>2. \A n \in 0..N : rest[n] \in Graphs
    BY <1>1, <1>12
  <2> QED
    BY <2>1, <2>2
<1> QED
  BY <1>7, <1>9, <1>13 DEF VertexSteps

\* A graph that has the vertices of another, and no edges.
Bare(h, g, list) == /\ GraphOK(h) /\ h.direction = g.direction
                    /\ h.vertices = list /\ h.edges = <<>>

LEMMA VerticesCopiedIs ==
  ASSUME NEW g, GraphOK(g)
  PROVE  Bare(VerticesCopied(g), g, g.vertices)
<1> DEFINE N == Len(g.vertices)
<1>1. g.vertices \in Seq(Vertices) /\ Distinct(g.vertices) /\ g.direction \in Kinds /\ N \in Nat
  <2>1. g.vertices \in Seq(Vertices) /\ Distinct(g.vertices) /\ g.direction \in Kinds
    BY DEF GraphOK, Graphs, EachOnce
  <2> QED
    BY <2>1, LenProperties
<1>2. PICK r : VertexSteps(r, g)
  BY VerticesUnfold
<1> DEFINE T == {m \in Nat : m <= N => Bare(r[m], g, SubSeq(g.vertices, 1, m))}
<1>3. 0 \in T
  <2>1. EmptyGraph(g.direction).vertices = <<>> /\ EmptyGraph(g.direction).edges = <<>>
        /\ EmptyGraph(g.direction).direction = g.direction
    BY DEF EmptyGraph
  <2>2. r[0] = EmptyGraph(g.direction)
    BY <1>2 DEF VertexSteps
  <2>3. Bare(r[0], g, SubSeq(g.vertices, 1, 0))
    BY <1>1, <2>1, <2>2, EmptyGraphOK, NoPrefix DEF Bare
  <2> QED
    BY <2>3
<1>4. ASSUME NEW m \in T PROVE m + 1 \in T
  <2> SUFFICES ASSUME m + 1 <= N PROVE Bare(r[m + 1], g, SubSeq(g.vertices, 1, m + 1))
    OBVIOUS
  <2> DEFINE v == g.vertices[m + 1]
             list == SubSeq(g.vertices, 1, m)
  <2>1. m \in Nat /\ m + 1 \in 1..N /\ (m + 1) - 1 = m /\ Bare(r[m], g, list)
    BY <1>1
  <2>2. r[m + 1] = WithVertex(r[m], v)
    BY <1>2, <2>1 DEF VertexSteps
  <2>3. v \in Vertices /\ SubSeq(g.vertices, 1, m + 1) = Append(list, v) /\ v \notin Members(list)
    <3> DEFINE s == g.vertices
    <3>1. s \in Seq(Vertices) /\ Distinct(s) /\ m + 1 <= Len(s) /\ m \in Nat
      BY <1>1, <2>1
    <3> HIDE DEF s
    <3>2. /\ s[m + 1] \in Vertices
          /\ SubSeq(s, 1, m + 1) = Append(SubSeq(s, 1, m), s[m + 1])
          /\ s[m + 1] \notin Members(SubSeq(s, 1, m))
      BY <3>1, Prefix
    <3> QED
      BY <3>2 DEF s
  <2> HIDE DEF v, list
  <2>4. GraphOK(r[m]) /\ r[m] \in Graphs /\ v \in FreeVertices(r[m])
    BY <2>1, <2>3 DEF Bare, FreeVertices, GraphOK
  <2>5. GraphOK(r[m + 1])
    BY <2>2, <2>4, WithVertexOK
  <2>6. r[m + 1].direction = r[m].direction /\ r[m + 1].edges = r[m].edges
        /\ r[m + 1].vertices = Append(r[m].vertices, v)
    <3> DEFINE h == r[m]
    <3>1. h \in Graphs /\ v \in Vertices
      BY <2>3, <2>4
    <3> HIDE DEF h
    <3>2. /\ WithVertex(h, v).direction = h.direction /\ WithVertex(h, v).edges = h.edges
          /\ WithVertex(h, v).vertices = Append(h.vertices, v)
      BY <3>1, WithVertexFields
    <3> QED
      BY <2>2, <3>2 DEF h
  <2> QED
    BY <2>1, <2>3, <2>5, <2>6 DEF Bare
<1>5. T = Nat
  <2>1. T \in SUBSET Nat
    OBVIOUS
  <2> HIDE DEF T
  <2> QED
    BY <1>3, <1>4, <2>1, Induction
<1>6. Bare(r[N], g, SubSeq(g.vertices, 1, N))
  BY <1>1, <1>5
<1> QED
  BY <1>1, <1>2, <1>6, NoPrefix DEF VertexSteps

\* The vertex that vertex_map gives for an end.
VertexAt(g, v) == g.vertices[g.vindex[v] + 1]

LEMMA EndsFound ==
  ASSUME NEW g, GraphOK(g), Indexed(g), NEW e \in Members(g.edges)
  PROVE  /\ VertexAt(g, g.source[e]) = g.source[e] /\ VertexAt(g, g.target[e]) = g.target[e]
         /\ g.source[e] \in Vertices /\ g.target[e] \in Vertices
         /\ g.source[e] \in Members(g.vertices) /\ g.target[e] \in Members(g.vertices)
<1>1. g.vertices \in Seq(Vertices) /\ Distinct(g.vertices)
  BY DEF GraphOK, Graphs, EachOnce
<1>2. g.source[e] \in Members(g.vertices) /\ g.target[e] \in Members(g.vertices)
  BY DEF GraphOK, EndsExist
<1>3. Members(g.vertices) \subseteq Vertices
  BY <1>1, LenProperties, ElementOfSeq DEF Members
<1>4. ASSUME NEW v \in Members(g.vertices) PROVE VertexAt(g, v) = v
  <2>1. g.vindex[v] = Place(v, g.vertices)
    BY DEF Indexed
  <2>2. g.vertices[Place(v, g.vertices) + 1] = v
    BY <1>1, PlaceIs
  <2> QED
    BY <2>1, <2>2 DEF VertexAt
<1> QED
  BY <1>2, <1>3, <1>4

EdgeSteps(r, g) ==
    /\ r \in [0..Len(g.edges) -> Graphs]
    /\ CopyOf(g) = r[Len(g.edges)]
    /\ r[0] = VerticesCopied(g)
    /\ \A n \in 1..Len(g.edges) :
          r[n] = WithEdge(r[n - 1], g.edges[n], VertexAt(g, g.source[g.edges[n]]), VertexAt(g, g.target[g.edges[n]]))

\* The recursion in CopyOf.
LEMMA EdgesUnfold ==
  ASSUME NEW g, GraphOK(g), Indexed(g)
  PROVE  \E r : EdgeSteps(r, g)
<1> DEFINE N == Len(g.edges)
           step == [x \in Nat \X Graphs |-> IF x[1] \in 1..N THEN WithEdge(x[2], g.edges[x[1]], VertexAt(g, g.source[g.edges[x[1]]]), VertexAt(g, g.target[g.edges[x[1]]])) ELSE x[2]]
           F(f) == [n \in 0..Len(g.edges) |->
                       IF n = 0 THEN VerticesCopied(g) ELSE WithEdge(f[n - 1], g.edges[n], VertexAt(g, g.source[g.edges[n]]), VertexAt(g, g.target[g.edges[n]]))]
           rest == CHOOSE f : f = F(f)
<1>1. /\ N \in Nat /\ VerticesCopied(g) \in Graphs
      /\ \A n \in 1..N, h \in Graphs :
            WithEdge(h, g.edges[n], VertexAt(g, g.source[g.edges[n]]), VertexAt(g, g.target[g.edges[n]])) \in Graphs
  <2>1. g.edges \in Seq(Edges)
    BY DEF GraphOK, Graphs
  <2>2. N \in Nat /\ \A n \in 1..N : g.edges[n] \in Edges /\ g.edges[n] \in Members(g.edges)
    BY <2>1, LenProperties, ElementOfSeq DEF Members
  <2>3. \A n \in 1..N : /\ VertexAt(g, g.source[g.edges[n]]) \in Vertices
                       /\ VertexAt(g, g.target[g.edges[n]]) \in Vertices
    BY <2>2, EndsFound
  <2>4. VerticesCopied(g) \in Graphs
    BY VerticesCopiedIs DEF Bare, GraphOK
  <2>5. ASSUME NEW h \in Graphs, NEW e \in Edges, NEW s \in Vertices, NEW t \in Vertices
        PROVE  WithEdge(h, e, s, t) \in Graphs
    BY WithEdgeFields DEF EdgeIn
  <2> QED
    BY <2>2, <2>3, <2>4, <2>5
<1>2. step \in [Nat \X Graphs -> Graphs]
  BY <1>1
<1>3. PICK f \in [0..N -> Graphs] : Steps(f, VerticesCopied(g), step, N)
  BY <1>1, <1>2, Recursion
<1>4. ASSUME NEW n \in 1..N PROVE f[n] = WithEdge(f[n - 1], g.edges[n], VertexAt(g, g.source[g.edges[n]]), VertexAt(g, g.target[g.edges[n]]))
  <2>1. n - 1 \in 0..N /\ n \in Nat
    BY <1>1
  <2>2. <<n, f[n - 1]>> \in Nat \X Graphs
    BY <1>3, <2>1
  <2>3. step[<<n, f[n - 1]>>] = WithEdge(f[n - 1], g.edges[n], VertexAt(g, g.source[g.edges[n]]), VertexAt(g, g.target[g.edges[n]]))
    BY <2>2
  <2>4. f[n] = step[<<n, f[n - 1]>>]
    BY <1>3 DEF Steps
  <2> HIDE DEF step
  <2> QED
    BY <2>3, <2>4
<1>5. f = F(f)
  <2>1. ASSUME NEW n \in 0..N PROVE f[n] = F(f)[n]
    <3>1. n = 0 \/ (n # 0 /\ n \in 1..N)
      BY <1>1
    <3>2. F(f)[n] = IF n = 0 THEN VerticesCopied(g) ELSE WithEdge(f[n - 1], g.edges[n], VertexAt(g, g.source[g.edges[n]]), VertexAt(g, g.target[g.edges[n]]))
      OBVIOUS
    <3> HIDE DEF F
    <3> QED
      BY <1>3, <1>4, <3>1, <3>2 DEF Steps
  <2>2. f = [n \in 0..N |-> f[n]]
    BY <1>3
  <2>3. F(f) = [n \in 0..N |-> F(f)[n]]
    OBVIOUS
  <2> HIDE DEF F
  <2> QED
    BY <2>1, <2>2, <2>3
<1>6. rest = F(rest)
  <2> HIDE DEF F
  <2> QED
    BY <1>5
<1>7. CopyOf(g) = rest[N]
  BY DEF CopyOf, VertexAt
<1> HIDE DEF rest
<1>8. \A n \in 0..N : rest[n] = IF n = 0 THEN VerticesCopied(g) ELSE WithEdge(rest[n - 1], g.edges[n], VertexAt(g, g.source[g.edges[n]]), VertexAt(g, g.target[g.edges[n]]))
  BY <1>6
<1>9. rest[0] = VerticesCopied(g) /\ \A n \in 1..N : rest[n] = WithEdge(rest[n - 1], g.edges[n], VertexAt(g, g.source[g.edges[n]]), VertexAt(g, g.target[g.edges[n]]))
  <2>1. 0 \in 0..N /\ \A n \in 1..N : n \in 0..N /\ n # 0
    BY <1>1
  <2> QED
    BY <1>8, <2>1
<1> DEFINE T == {m \in Nat : m \in 0..N => rest[m] \in Graphs}
<1>10. 0 \in T
  BY <1>1, <1>9
<1>11. ASSUME NEW m \in T PROVE m + 1 \in T
  <2> SUFFICES ASSUME m + 1 \in 0..N PROVE rest[m + 1] \in Graphs
    OBVIOUS
  <2>1. m \in 0..N /\ m + 1 \in 1..N /\ (m + 1) - 1 = m /\ rest[m] \in Graphs
    BY <1>1
  <2>2. rest[m + 1] = WithEdge(rest[m], g.edges[m + 1], VertexAt(g, g.source[g.edges[m + 1]]), VertexAt(g, g.target[g.edges[m + 1]]))
    BY <1>9, <2>1
  <2> QED
    BY <1>1, <2>1, <2>2
<1>12. T = Nat
  <2>1. T \in SUBSET Nat
    OBVIOUS
  <2> HIDE DEF T
  <2> QED
    BY <1>10, <1>11, <2>1, Induction
<1>13. rest \in [0..N -> Graphs]
  <2>1. rest = [n \in 0..N |-> rest[n]]
    BY <1>6
  <2>2. \A n \in 0..N : rest[n] \in Graphs
    BY <1>1, <1>12
  <2> QED
    BY <2>1, <2>2
<1> QED
  BY <1>7, <1>9, <1>13 DEF EdgeSteps

\* A graph with the vertices of another and some of its edges.
Partly(h, g, list) == /\ GraphOK(h) /\ h.direction = g.direction
                      /\ h.vertices = g.vertices /\ h.edges = list
                      /\ \A e \in Members(list) : h.source[e] = g.source[e] /\ h.target[e] = g.target[e]

LEMMA CopyIs ==
  ASSUME NEW g, GraphOK(g), Indexed(g)
  PROVE  Partly(CopyOf(g), g, g.edges)
<1> DEFINE N == Len(g.edges)
<1>1. g.edges \in Seq(Edges) /\ Distinct(g.edges) /\ N \in Nat
  <2>1. g.edges \in Seq(Edges) /\ Distinct(g.edges)
    BY DEF GraphOK, Graphs, EachOnce
  <2> QED
    BY <2>1, LenProperties
<1>2. PICK r : EdgeSteps(r, g)
  BY EdgesUnfold
<1> DEFINE T == {m \in Nat : m <= N => Partly(r[m], g, SubSeq(g.edges, 1, m))}
<1>3. 0 \in T
  <2>1. r[0] = VerticesCopied(g) /\ Bare(VerticesCopied(g), g, g.vertices)
    BY <1>2, VerticesCopiedIs DEF EdgeSteps
  <2>2. SubSeq(g.edges, 1, 0) = <<>>
    BY <1>1, NoPrefix
  <2>3. Partly(r[0], g, SubSeq(g.edges, 1, 0))
    BY <2>1, <2>2, EmptyList DEF Bare, Partly
  <2> QED
    BY <2>3
<1>4. ASSUME NEW m \in T PROVE m + 1 \in T
  <2> SUFFICES ASSUME m + 1 <= N PROVE Partly(r[m + 1], g, SubSeq(g.edges, 1, m + 1))
    OBVIOUS
  <2> DEFINE h == r[m]
             e == g.edges[m + 1]
             s == g.source[e]
             t == g.target[e]
             list == SubSeq(g.edges, 1, m)
  <2>1. m \in Nat /\ m + 1 \in 1..N /\ (m + 1) - 1 = m /\ Partly(h, g, list)
    BY <1>1
  <2>2. /\ e \in Edges /\ e \in Members(g.edges) /\ list \in Seq(Edges)
        /\ SubSeq(g.edges, 1, m + 1) = Append(list, e) /\ e \notin Members(list)
    BY <1>1, <2>1, Prefix
  <2>3. /\ VertexAt(g, s) = s /\ VertexAt(g, t) = t
        /\ s \in Vertices /\ t \in Vertices /\ s \in Members(g.vertices) /\ t \in Members(g.vertices)
    BY <2>2, EndsFound
  <2>4. r[m + 1] = WithEdge(h, e, VertexAt(g, s), VertexAt(g, t))
    BY <1>2, <2>1 DEF EdgeSteps
  <2>5. r[m + 1] = WithEdge(h, e, s, t)
    BY <2>3, <2>4
  <2>6. g.source[e] = s /\ g.target[e] = t
    OBVIOUS
  <2> HIDE DEF h, e, s, t, list
  <2>7. /\ GraphOK(h) /\ h \in Graphs /\ e \in FreeEdges(h)
        /\ s \in Members(h.vertices) /\ t \in Members(h.vertices)
    BY <2>1, <2>2, <2>3 DEF Partly, FreeEdges, GraphOK
  <2>8. GraphOK(r[m + 1])
    BY <2>5, <2>7, WithEdgeOK
  <2>9. EdgeIn(h, r[m + 1], e, s, t)
    BY <2>2, <2>3, <2>5, <2>7, WithEdgeFields
  <2>10. /\ r[m + 1].direction = g.direction /\ r[m + 1].vertices = g.vertices
         /\ r[m + 1].edges = Append(list, e)
    BY <2>1, <2>9 DEF EdgeIn, Partly
  <2>11. ASSUME NEW x \in Members(Append(list, e))
         PROVE  r[m + 1].source[x] = g.source[x] /\ r[m + 1].target[x] = g.target[x]
    <3>1. /\ r[m + 1].source = [h.source EXCEPT ![e] = s] /\ r[m + 1].target = [h.target EXCEPT ![e] = t]
          /\ h.source \in [Edges -> Ends] /\ h.target \in [Edges -> Ends]
      BY <2>7, <2>9 DEF EdgeIn, Graphs
    <3>2. x = e \/ (x \in Members(list) /\ x # e)
      BY <2>2, Appended
    <3>3. Members(list) \subseteq Edges
      BY <2>2, LenProperties, ElementOfSeq DEF Members
    <3>4. \A y \in Members(list) : h.source[y] = g.source[y] /\ h.target[y] = g.target[y]
      BY <2>1 DEF Partly
    <3> QED
      BY <2>2, <2>6, <3>1, <3>2, <3>3, <3>4
  <2> QED
    BY <2>2, <2>8, <2>10, <2>11 DEF Partly
<1>5. T = Nat
  <2>1. T \in SUBSET Nat
    OBVIOUS
  <2> HIDE DEF T
  <2> QED
    BY <1>3, <1>4, <2>1, Induction
<1>6. Partly(r[N], g, SubSeq(g.edges, 1, N))
  BY <1>1, <1>5
<1> QED
  BY <1>1, <1>2, <1>6, NoPrefix DEF EdgeSteps

LEMMA CopyHasShape ==
  ASSUME NEW g, GraphOK(g), Indexed(g)
  PROVE  Shape(CopyOf(g)) = Shape(g)
<1> DEFINE c == CopyOf(g)
<1>1. Partly(c, g, g.edges)
  BY CopyIs
<1> HIDE DEF c
<1>2. /\ GraphOK(c) /\ c.direction = g.direction /\ c.vertices = g.vertices /\ c.edges = g.edges
      /\ \A e \in Members(g.edges) : c.source[e] = g.source[e] /\ c.target[e] = g.target[e]
  BY <1>1 DEF Partly
<1>3. \A v \in Vertices : OutOf(c, v) = OutOf(g, v) /\ Into(c, v) = Into(g, v)
  BY <1>2 DEF OutOf, Into, Undirected, Bidirectional
<1>4. \A v \in Vertices : c.out[v] = g.out[v] /\ c.in[v] = g.in[v]
  BY <1>2, <1>3 DEF GraphOK, ListsFollow
<1>5. \A i \in DOMAIN g.vertices : g.vertices[i] \in Vertices
  <2>1. g.vertices \in Seq(Vertices)
    BY DEF GraphOK, Graphs
  <2> QED
    BY <2>1, LenProperties, ElementOfSeq
<1>6. \A i \in DOMAIN g.edges : g.edges[i] \in Members(g.edges)
  BY DEF Members
<1>7. \A i \in DOMAIN g.edges : /\ c.source[g.edges[i]] = g.source[g.edges[i]]
                              /\ c.target[g.edges[i]] = g.target[g.edges[i]]
  BY <1>2, <1>6
<1>8. \A i \in DOMAIN g.vertices : /\ c.out[g.vertices[i]] = g.out[g.vertices[i]]
                                 /\ c.in[g.vertices[i]] = g.in[g.vertices[i]]
  BY <1>4, <1>5
<1> QED
  BY <1>2, <1>7, <1>8, ZenonT(40) DEF Shape, c

-----------------------------------------------------------------------------
(* The theorems.                                                           *)

GraphInv == GraphOK(graph) /\ (~dirty => Indexed(graph))

LEMMA GraphInitOK == GraphInit => GraphInv
<1> SUFFICES ASSUME GraphInit PROVE GraphInv
  OBVIOUS
<1>1. PICK d \in Directions : graph = EmptyGraph(d)
  BY DEF GraphInit
<1>2. GraphOK(graph)
  BY <1>1, GraphAssumption, EmptyGraphOK DEF Kinds
<1>3. Indexed(graph)
  BY <1>1, EmptyList DEF Indexed, EmptyGraph
<1> QED
  BY <1>2, <1>3 DEF GraphInv

LEMMA AddEdgeThrowsSame ==
  ASSUME GraphInv, AddEdgeThrows
  PROVE  graph' = graph /\ dirty' = dirty
<1>1. PICK s \in Members(graph.vertices), t \in Members(graph.vertices), e \in FreeEdges(graph) :
         \E n \in 0..(Len(Places(graph, s, t)) - 1) :
            graph' = EdgeFails(graph, e, s, t, n) /\ UNCHANGED dirty
  BY DEF AddEdgeThrows
<1>2. PICK n \in 0..(Len(Places(graph, s, t)) - 1) :
         graph' = EdgeFails(graph, e, s, t, n) /\ UNCHANGED dirty
  BY <1>1
<1>3. GraphOK(graph) /\ graph.vertices \in Seq(Vertices)
  BY DEF GraphInv, GraphOK, Graphs
<1>4. s \in Vertices /\ t \in Vertices
  BY <1>3, LenProperties, ElementOfSeq DEF Members
<1>5. EdgeFails(graph, e, s, t, n) = graph
  BY <1>3, <1>4, EdgeFailsSame
<1> QED
  BY <1>2, <1>5

LEMMA GraphStepOK ==
  ASSUME GraphInv, [GraphNext]_graphVars
  PROVE  GraphInv'
<1>1. GraphOK(graph) /\ (~dirty => Indexed(graph))
  BY DEF GraphInv
<1>2. CASE AddVertex
  BY <1>1, <1>2, WithVertexOK, AdditionsIndexed DEF AddVertex, GraphInv
<1>3. CASE AddEdge
  <2>1. PICK s \in Members(graph.vertices), t \in Members(graph.vertices), e \in FreeEdges(graph) :
           graph' = WithEdge(graph, e, s, t) /\ dirty' = dirty
    BY <1>3 DEF AddEdge
  <2> QED
    BY <1>1, <2>1, WithEdgeOK, AdditionsIndexed DEF GraphInv
<1>4. CASE AddEdgeThrows
  BY <1>1, <1>4, AddEdgeThrowsSame DEF GraphInv
<1>5. CASE RemoveVertex
  BY <1>1, <1>5, WithoutVertexOK DEF RemoveVertex, GraphInv
<1>6. CASE ClearVertex
  BY <1>1, <1>6, ClearedOK DEF ClearVertex, GraphInv
<1>7. CASE RemoveEdge
  <2>1. PICK e \in Members(graph.edges) : graph' = WithoutEdge(graph, e) /\ dirty' = TRUE
    BY <1>7 DEF RemoveEdge
  <2> DEFINE s == graph.source[e]
             dead == {e} \cap Members(graph.out[s])
  <2>2. GraphOK(RemoveEdgesOf(graph, s, dead))
    <3>1. \A x \in dead : graph.source[x] = s
      OBVIOUS
    <3> HIDE DEF s, dead
    <3> QED
      BY <1>1, <3>1, RemoveEdgesOK
  <2> QED
    BY <2>1, <2>2 DEF WithoutEdge, GraphInv
<1>8. CASE RemoveEdges
  <2>1. PICK s \in Members(graph.vertices), t \in Members(graph.vertices) :
           graph' = WithoutEdges(graph, s, t) /\ dirty' = TRUE
    BY <1>8 DEF RemoveEdges
  <2> DEFINE dead == {e \in Members(graph.out[s]) : graph.source[e] = s /\ graph.target[e] = t}
  <2>2. GraphOK(RemoveEdgesOf(graph, s, dead))
    <3>1. \A x \in dead : graph.source[x] = s
      OBVIOUS
    <3> HIDE DEF dead
    <3> QED
      BY <1>1, <3>1, RemoveEdgesOK
  <2> QED
    BY <2>1, <2>2 DEF WithoutEdges, GraphInv
<1>9. CASE Reindex
  BY <1>1, <1>9, ReindexedOK DEF Reindex, GraphInv
<1>10. CASE UNCHANGED graphVars
  BY <1>10 DEF graphVars, GraphInv, GraphOK, Indexed, EachOnce, EndsExist, ListsFollow, FreeIsBlank,
              OutOf, Into, Undirected, Bidirectional
<1> QED
  BY <1>2, <1>3, <1>4, <1>5, <1>6, <1>7, <1>8, <1>9, <1>10 DEF GraphNext

\* The graph stays well formed: whatever is added and removed, and in whatever
\* order, the lists of each vertex are those of the edge list (adjacency_list).
THEOREM GraphInvariant == GraphSpec => []GraphInv
<1>1. GraphInit => GraphInv
  BY GraphInitOK
<1>2. GraphInv /\ [GraphNext]_graphVars => GraphInv'
  BY GraphStepOK
<1> QED
  BY <1>1, <1>2, PTL DEF GraphSpec

\* The two directions of every link always agree, and the copy constructor makes
\* the same graph of any reindexed one (add_edge, remove_edge, clear_vertex, copy_from).
THEOREM AlwaysLinked == GraphSpec => []Linked
<1>1. GraphInv => Linked
  BY GraphConsistent, CopyHasShape DEF GraphInv, Linked
<1> QED
  BY <1>1, GraphInvariant, PTL

\* Stored indices are positions as long as nothing was removed since reindex().
THEOREM IndicesArePositions == GraphSpec => []IndexIsPosition
<1>1. GraphInv => IndexIsPosition
  BY DEF GraphInv, IndexIsPosition
<1> QED
  BY <1>1, GraphInvariant, PTL

\* Wherever add_edge throws, its tidy functions leave the graph as it was.
THEOREM ThrowingAddIsUndone == GraphSpec => FailedAddChangesNothing
<1>1. GraphInv /\ [GraphNext]_graphVars => [AddEdgeThrows => UNCHANGED graph]_graphVars
  BY AddEdgeThrowsSame
<1> QED
  BY <1>1, GraphInvariant, PTL DEF GraphSpec, FailedAddChangesNothing

=============================================================================
