----------------------- MODULE NetworkCompressionProofs -----------------------
(***************************************************************************)
(* Proofs about NetworkCompression, for any imports, sizes of files and    *)
(* space on the disk, and about NetworkFiles, for any options, formats and *)
(* match processes and any number of preparations, kills and drops.        *)
(***************************************************************************)
EXTENDS NetworkCompression, NetworkFiles, ListTheorems

-----------------------------------------------------------------------------
(* Imports.                                                                *)

AllEdges(n) == UNION {ToSet(n.out[v]) : v \in 1..Len(n.ids)}
AllIds(n) == ToSet(n.ids) \cup {e.id : e \in AllEdges(n)}
TagSet(n) == UNION {ToSet(n.tags[id]) : id \in AllIds(n)}

LEMMA ListIs ==
  ASSUME NEW s, IsList(s)
  PROVE  /\ Len(s) \in Nat /\ DOMAIN s = 1..Len(s)
         /\ \A T : ToSet(s) \subseteq T => s \in Seq(T)
         /\ \A k \in 1..Len(s) : s[k] \in ToSet(s)
<1>1. s \in Seq(ToSet(s))
  BY DEF IsList
<1>2. Len(s) \in Nat /\ DOMAIN s = 1..Len(s) /\ \A k \in 1..Len(s) : s[k] \in ToSet(s)
  BY <1>1, LenProperties, ElementOfSeq
<1>3. ASSUME NEW T, ToSet(s) \subseteq T PROVE s \in Seq(T)
  <2>1. \A k \in 1..Len(s) : s[k] \in T
    BY <1>2, <1>3
  <2>2. s \in [1..Len(s) -> ToSet(s)]
    BY <1>1, LenProperties
  <2>3. s \in [1..Len(s) -> T]
    BY <2>1, <2>2
  <2> QED
    BY <1>2, <2>3, SeqDef
<1> QED
  BY <1>2, <1>3

LEMMA ImportIs ==
  ASSUME NEW n \in Imports
  PROVE  /\ Len(n.ids) \in Nat /\ DOMAIN n.ids = 1..Len(n.ids) /\ DOMAIN n.out = 1..Len(n.ids)
         /\ \A v \in 1..Len(n.ids) : /\ n.ids[v] \in AllIds(n)
                                     /\ Len(n.out[v]) \in Nat /\ DOMAIN n.out[v] = 1..Len(n.out[v])
         /\ \A v \in 1..Len(n.ids) : \A i \in 1..Len(n.out[v]) : /\ n.out[v][i] \in AllEdges(n)
                                                                  /\ n.out[v][i].id \in AllIds(n)
         /\ \A e \in AllEdges(n) : e.line \in Nat
         /\ \A id \in AllIds(n) : /\ n.tags[id] \in Seq(TagSet(n))
                                  /\ Len(n.tags[id]) \in Nat
                                  /\ DOMAIN n.tags[id] = 1..Len(n.tags[id])
<1>1. /\ IsList(n.ids) /\ IsList(n.out) /\ Len(n.out) = Len(n.ids)
      /\ \A v \in DOMAIN n.ids : /\ IsList(n.out[v]) /\ IsList(n.tags[n.ids[v]])
                                 /\ \A e \in ToSet(n.out[v]) : e.line \in Nat /\ IsList(n.tags[e.id])
  BY CompressionAssumption
<1>2. /\ Len(n.ids) \in Nat /\ DOMAIN n.ids = 1..Len(n.ids) /\ DOMAIN n.out = 1..Len(n.ids)
      /\ \A v \in 1..Len(n.ids) : n.ids[v] \in ToSet(n.ids)
  BY <1>1, ListIs
<1>3. \A v \in 1..Len(n.ids) : IsList(n.out[v])
  BY <1>1, <1>2
<1>4. \A v \in 1..Len(n.ids) : /\ Len(n.out[v]) \in Nat /\ DOMAIN n.out[v] = 1..Len(n.out[v])
                               /\ \A i \in 1..Len(n.out[v]) : n.out[v][i] \in ToSet(n.out[v])
  BY <1>3, ListIs
<1>5. \A v \in 1..Len(n.ids) : \A i \in 1..Len(n.out[v]) : n.out[v][i] \in AllEdges(n)
  BY <1>4 DEF AllEdges
<1>6. \A e \in AllEdges(n) : e.line \in Nat /\ IsList(n.tags[e.id])
  BY <1>1, <1>2 DEF AllEdges
<1>7. \A id \in AllIds(n) : IsList(n.tags[id])
  <2>1. ASSUME NEW id \in ToSet(n.ids) PROVE IsList(n.tags[id])
    <3>1. PICK v \in DOMAIN n.ids : id = n.ids[v]
      BY DEF ToSet
    <3> QED
      BY <1>1, <3>1
  <2> QED
    BY <1>6, <2>1 DEF AllIds
<1>8. ASSUME NEW id \in AllIds(n)
      PROVE  /\ n.tags[id] \in Seq(TagSet(n)) /\ Len(n.tags[id]) \in Nat
             /\ DOMAIN n.tags[id] = 1..Len(n.tags[id])
  <2>1. ToSet(n.tags[id]) \subseteq TagSet(n)
    BY DEF TagSet
  <2> QED
    BY <1>7, <2>1, ListIs
<1> QED
  BY <1>2, <1>4, <1>5, <1>6, <1>8 DEF AllIds

-----------------------------------------------------------------------------
(* The dictionary.                                                         *)

Longer(d, e) == Len(d) <= Len(e) /\ \A i \in 1..Len(d) : e[i] = d[i]

LEMMA InternedIs ==
  ASSUME NEW S, NEW d \in Seq(S), NEW x \in S
  PROVE  Interned(d, x) \in Seq(S) /\ Longer(d, Interned(d, x)) /\ x \in ToSet(Interned(d, x))
<1>1. Len(d) \in Nat
  BY LenProperties
<1>2. CASE x \in ToSet(d)
  BY <1>1, <1>2 DEF Interned, Longer
<1>3. CASE x \notin ToSet(d)
  <2> DEFINE e == Append(d, x)
  <2>1. /\ e \in Seq(S) /\ Len(e) = Len(d) + 1 /\ e[Len(d) + 1] = x
        /\ \A i \in 1..Len(d) : e[i] = d[i]
    BY AppendProperties
  <2>2. Interned(d, x) = e
    BY <1>3 DEF Interned
  <2> HIDE DEF e
  <2>3. DOMAIN e = 1..Len(e)
    BY <2>1, LenProperties
  <2>4. Len(d) + 1 \in DOMAIN e /\ Len(d) <= Len(e)
    BY <1>1, <2>1, <2>3
  <2>5. Longer(d, e)
    BY <2>1, <2>4 DEF Longer
  <2>6. x \in ToSet(e)
    BY <2>1, <2>4 DEF ToSet
  <2> QED
    BY <2>1, <2>2, <2>5, <2>6
<1> QED
  BY <1>2, <1>3

LEMMA LongerIsOrder ==
  ASSUME NEW S, NEW c \in Seq(S), NEW d \in Seq(S), NEW e \in Seq(S), Longer(c, d), Longer(d, e)
  PROVE  Longer(c, e)
<1>1. Len(c) \in Nat /\ Len(d) \in Nat /\ Len(e) \in Nat
  BY LenProperties
<1>2. 1..Len(c) \subseteq 1..Len(d)
  BY <1>1 DEF Longer
<1>3. \A i \in 1..Len(c) : d[i] = c[i] /\ e[i] = d[i]
  BY <1>2 DEF Longer
<1>4. Len(c) <= Len(e)
  BY <1>1 DEF Longer
<1> QED
  BY <1>3, <1>4 DEF Longer

LEMMA LongerHas ==
  ASSUME NEW S, NEW d \in Seq(S), NEW e \in Seq(S), Longer(d, e)
  PROVE  ToSet(d) \subseteq ToSet(e) /\ Longer(d, d) /\ \A i \in DOMAIN d : i \in DOMAIN e /\ e[i] = d[i]
<1>1. /\ Len(d) \in Nat /\ Len(e) \in Nat /\ DOMAIN d = 1..Len(d) /\ DOMAIN e = 1..Len(e)
  BY LenProperties
<1>2. \A i \in DOMAIN d : i \in DOMAIN e /\ e[i] = d[i]
  BY <1>1 DEF Longer
<1> QED
  BY <1>1, <1>2 DEF Longer, ToSet

\* r[n] is the dictionary after the first n tags.
Interns(r, d, list, S) ==
    /\ r \in [0..Len(list) -> Seq(S)]
    /\ r[0] = d
    /\ \A n \in 1..Len(list) : r[n] = Interned(r[n - 1], list[n])
    /\ InternedAll(d, list) = r[Len(list)]

LEMMA InternedAllUnfolds ==
  ASSUME NEW S, NEW d \in Seq(S), NEW list \in Seq(S)
  PROVE  \E r : Interns(r, d, list, S)
<1> DEFINE N == Len(list)
           step == [x \in Nat \X Seq(S) |-> IF x[1] \in 1..N THEN Interned(x[2], list[x[1]]) ELSE x[2]]
           F(g) == [n \in 0..Len(list) |-> IF n = 0 THEN d ELSE Interned(g[n - 1], list[n])]
           rec == CHOOSE g : g = F(g)
<1>1. N \in Nat /\ (\A n \in 1..N : list[n] \in S)
  BY LenProperties, ElementOfSeq
<1>2. step \in [Nat \X Seq(S) -> Seq(S)]
  <2>1. \A x \in Nat \X Seq(S) : x[1] \in 1..N => Interned(x[2], list[x[1]]) \in Seq(S)
    BY <1>1, InternedIs
  <2>2. \A x \in Nat \X Seq(S) : (IF x[1] \in 1..N THEN Interned(x[2], list[x[1]]) ELSE x[2]) \in Seq(S)
    BY <2>1
  <2> QED
    BY <2>2
<1>3. PICK g \in [0..N -> Seq(S)] : Steps(g, d, step, N)
  <2> HIDE DEF step, N
  <2> QED
    BY <1>1, <1>2, Recursion
<1>4. ASSUME NEW n \in 1..N PROVE g[n] = Interned(g[n - 1], list[n])
  <2>1. n - 1 \in 0..N /\ n \in Nat
    BY <1>1
  <2>2. g[n - 1] \in Seq(S)
    BY <1>3, <2>1
  <2>3. <<n, g[n - 1]>> \in Nat \X Seq(S)
    BY <2>1, <2>2
  <2>4. step[<<n, g[n - 1]>>] = Interned(g[n - 1], list[n])
    BY <2>3
  <2>5. g[n] = step[<<n, g[n - 1]>>]
    BY <1>3 DEF Steps
  <2> HIDE DEF step
  <2> QED
    BY <2>4, <2>5
<1>5. g = F(g)
  <2>1. ASSUME NEW n \in 0..N PROVE g[n] = F(g)[n]
    <3>1. n = 0 \/ (n # 0 /\ n \in 1..N)
      BY <1>1
    <3>2. F(g)[n] = IF n = 0 THEN d ELSE Interned(g[n - 1], list[n])
      OBVIOUS
    <3>3. g[0] = d
      BY <1>3 DEF Steps
    <3> HIDE DEF F
    <3> QED
      BY <1>4, <3>1, <3>2, <3>3
  <2>2. g = [n \in 0..N |-> g[n]]
    BY <1>3
  <2>3. F(g) = [n \in 0..N |-> F(g)[n]]
    OBVIOUS
  <2> HIDE DEF F
  <2> QED
    BY <2>1, <2>2, <2>3
<1>6. rec = F(rec)
  <2> HIDE DEF F
  <2> QED
    BY <1>5
<1>7. InternedAll(d, list) = rec[N]
  BY DEF InternedAll
<1> HIDE DEF rec
<1>8. \A n \in 0..N : rec[n] = IF n = 0 THEN d ELSE Interned(rec[n - 1], list[n])
  BY <1>6
<1>9. rec[0] = d /\ \A n \in 1..N : rec[n] = Interned(rec[n - 1], list[n])
  <2>1. 0 \in 0..N /\ \A n \in 1..N : n \in 0..N /\ n # 0
    BY <1>1
  <2> QED
    BY <1>8, <2>1
<1> DEFINE T == {m \in Nat : m \in 0..N => rec[m] \in Seq(S)}
<1>10. 0 \in T
  BY <1>1, <1>9
<1>11. ASSUME NEW m \in T PROVE m + 1 \in T
  <2> SUFFICES ASSUME m + 1 \in 0..N PROVE rec[m + 1] \in Seq(S)
    OBVIOUS
  <2>1. m + 1 \in 1..N /\ m \in 0..N /\ (m + 1) - 1 = m /\ rec[m] \in Seq(S)
    BY <1>1
  <2> QED
    BY <1>1, <1>9, <2>1, InternedIs
<1>12. T = Nat
  <2>1. T \in SUBSET Nat
    OBVIOUS
  <2> HIDE DEF T
  <2> QED
    BY <1>10, <1>11, <2>1, Induction
<1>13. rec \in [0..N -> Seq(S)]
  <2>1. \A m \in 0..N : rec[m] \in Seq(S)
    BY <1>12
  <2>2. rec = [n \in 0..N |-> F(rec)[n]]
    BY <1>6
  <2>3. rec = [n \in 0..N |-> rec[n]]
    BY <1>6, <2>2
  <2> QED
    BY <2>1, <2>3
<1>14. Interns(rec, d, list, S)
  BY <1>7, <1>9, <1>13 DEF Interns
<1> QED
  BY <1>14

LEMMA InternedAllIs ==
  ASSUME NEW S, NEW d \in Seq(S), NEW list \in Seq(S)
  PROVE  /\ InternedAll(d, list) \in Seq(S) /\ Longer(d, InternedAll(d, list))
         /\ ToSet(list) \subseteq ToSet(InternedAll(d, list))
<1>1. PICK r : Interns(r, d, list, S)
  BY InternedAllUnfolds
<1> DEFINE N == Len(list)
           Knows(m) == /\ Longer(d, r[m]) /\ \A k \in 1..m : list[k] \in ToSet(r[m])
           T == {m \in Nat : m <= N => Knows(m)}
<1>2. N \in Nat /\ DOMAIN list = 1..N /\ \A k \in 1..N : list[k] \in S
  BY LenProperties, ElementOfSeq
<1>3. \A m \in 0..N : r[m] \in Seq(S)
  BY <1>1 DEF Interns
<1>4. 0 \in T
  <2>1. Len(d) \in Nat
    BY LenProperties
  <2> QED
    BY <1>1, <2>1 DEF Interns, Longer
<1>5. ASSUME NEW m \in T PROVE m + 1 \in T
  <2> SUFFICES ASSUME m + 1 <= N PROVE Knows(m + 1)
    OBVIOUS
  <2>1. m \in 0..N /\ m + 1 \in 0..N /\ m + 1 \in 1..N /\ (m + 1) - 1 = m /\ m <= N
    BY <1>2
  <2>2. Knows(m)
    BY <2>1
  <2>3. r[m + 1] = Interned(r[m], list[m + 1])
    BY <1>1, <2>1 DEF Interns
  <2>4. r[m] \in Seq(S) /\ r[m + 1] \in Seq(S) /\ list[m + 1] \in S
    BY <1>2, <1>3, <2>1
  <2>5. Longer(r[m], r[m + 1]) /\ list[m + 1] \in ToSet(r[m + 1])
    <3> DEFINE c == r[m]
               x == list[m + 1]
    <3>1. c \in Seq(S) /\ x \in S /\ r[m + 1] = Interned(c, x)
      BY <2>3, <2>4
    <3> HIDE DEF c, x
    <3>2. Longer(c, Interned(c, x)) /\ x \in ToSet(Interned(c, x))
      BY <3>1, InternedIs
    <3> QED
      BY <3>1, <3>2 DEF c, x
  <2>6. Longer(d, r[m + 1])
    BY <2>2, <2>4, <2>5, LongerIsOrder
  <2>7. ToSet(r[m]) \subseteq ToSet(r[m + 1])
    BY <2>4, <2>5, LongerHas
  <2>8. \A k \in 1..(m + 1) : k \in 1..m \/ k = m + 1
    OBVIOUS
  <2> QED
    BY <2>2, <2>5, <2>6, <2>7, <2>8
<1>6. T = Nat
  <2>1. T \in SUBSET Nat
    OBVIOUS
  <2> HIDE DEF T
  <2> QED
    BY <1>4, <1>5, <2>1, Induction
<1>7. Knows(N)
  BY <1>2, <1>6
<1>8. InternedAll(d, list) = r[N] /\ r[N] \in Seq(S)
  BY <1>1, <1>2, <1>3 DEF Interns
<1> QED
  BY <1>2, <1>7, <1>8 DEF ToSet

-----------------------------------------------------------------------------
(* The tags.                                                               *)

TextOK(d, ids, list) ==
    DOMAIN ids = DOMAIN list /\ \A i \in DOMAIN list : ids[i] \in DOMAIN d /\ d[ids[i]] = list[i]

\* What a map says of an id is what the import says.
MapOK(n, d, m) == \A id \in DOMAIN m : id \in AllIds(n) /\ TextOK(d, m[id], n.tags[id])

TagsAre(t, d, nodes, edges, final) ==
    t = [dictionary |-> d, nodes |-> nodes, edges |-> edges, finalized |-> final]

TagsOK(n, t) ==
    /\ TagsAre(t, t.dictionary, t.nodes, t.edges, t.finalized)
    /\ t.dictionary \in Seq(TagSet(n))
    /\ MapOK(n, t.dictionary, t.nodes) /\ MapOK(n, t.dictionary, t.edges)

\* The tags of an id that has some are in the map.
Has(n, m, id) == n.tags[id] = <<>> \/ id \in DOMAIN m

\* u has everything that t has.
Grown(t, u) == DOMAIN t.nodes \subseteq DOMAIN u.nodes /\ DOMAIN t.edges \subseteq DOMAIN u.edges

LEMMA MapInLonger ==
  ASSUME NEW n, NEW d \in Seq(TagSet(n)), NEW e \in Seq(TagSet(n)), Longer(d, e),
         NEW m, MapOK(n, d, m)
  PROVE  MapOK(n, e, m)
<1>1. \A i \in DOMAIN d : i \in DOMAIN e /\ e[i] = d[i]
  BY LongerHas
<1>2. ASSUME NEW id \in DOMAIN m PROVE TextOK(e, m[id], n.tags[id])
  <2>1. TextOK(d, m[id], n.tags[id])
    BY DEF MapOK
  <2> QED
    BY <1>1, <2>1 DEF TextOK
<1> QED
  BY <1>2 DEF MapOK

LEMMA DictionaryGrows ==
  ASSUME NEW n \in Imports, NEW t, TagsOK(n, t), NEW e \in Seq(TagSet(n)), Longer(t.dictionary, e)
  PROVE  /\ TagsOK(n, [t EXCEPT !.dictionary = e])
         /\ Grown(t, [t EXCEPT !.dictionary = e])
         /\ [t EXCEPT !.dictionary = e].finalized = t.finalized
<1> DEFINE u == [t EXCEPT !.dictionary = e]
<1>1. TagsAre(u, e, t.nodes, t.edges, t.finalized)
  BY DEF TagsOK, TagsAre
<1> HIDE DEF u
<1>2. u.dictionary = e /\ u.nodes = t.nodes /\ u.edges = t.edges /\ u.finalized = t.finalized
  BY <1>1 DEF TagsAre
<1>3. MapOK(n, e, t.nodes) /\ MapOK(n, e, t.edges)
  BY MapInLonger DEF TagsOK
<1>4. TagsOK(n, u) /\ Grown(t, u) /\ u.finalized = t.finalized
  BY <1>1, <1>2, <1>3 DEF TagsOK, Grown
<1> QED
  BY <1>4 DEF u

LEMMA IdsOfText ==
  ASSUME NEW S, NEW list \in Seq(S), NEW d \in Seq(S), ToSet(list) \subseteq ToSet(d)
  PROVE  TextOK(d, [i \in DOMAIN list |-> IdOf(d, list[i])], list)
<1>1. ASSUME NEW i \in DOMAIN list PROVE IdOf(d, list[i]) \in DOMAIN d /\ d[IdOf(d, list[i])] = list[i]
  <2>1. \E j \in DOMAIN d : d[j] = list[i]
    BY DEF ToSet
  <2> QED
    BY <2>1 DEF IdOf
<1> QED
  BY <1>1 DEF TextOK

LEMMA MapWith ==
  ASSUME NEW n, NEW d, NEW m, MapOK(n, d, m), NEW id \in AllIds(n), NEW ids, TextOK(d, ids, n.tags[id])
  PROVE  /\ MapOK(n, d, [j \in DOMAIN m \cup {id} |-> IF j = id THEN ids ELSE m[j]])
         /\ DOMAIN [j \in DOMAIN m \cup {id} |-> IF j = id THEN ids ELSE m[j]] = DOMAIN m \cup {id}
BY DEF MapOK

LEMMA ClonedIs ==
  ASSUME NEW n \in Imports, NEW t, TagsOK(n, t), NEW id \in AllIds(n), NEW map \in {"nodes", "edges"}
  PROVE  /\ TagsOK(n, Cloned(t, map, id, n.tags[id]))
         /\ Grown(t, Cloned(t, map, id, n.tags[id]))
         /\ Cloned(t, map, id, n.tags[id]).finalized = t.finalized
         /\ Has(n, Cloned(t, map, id, n.tags[id])[map], id)
<1> DEFINE list == n.tags[id]
           d == InternedAll(t.dictionary, list)
           ids == [i \in DOMAIN list |-> IdOf(d, list[i])]
           more(m) == [j \in DOMAIN m \cup {id} |-> IF j = id THEN ids ELSE m[j]]
           u == Cloned(t, map, id, list)
<1>1. list \in Seq(TagSet(n)) /\ t.dictionary \in Seq(TagSet(n))
  BY ImportIs DEF TagsOK
<1> HIDE DEF list
<1>2. d \in Seq(TagSet(n)) /\ Longer(t.dictionary, d) /\ ToSet(list) \subseteq ToSet(d)
  BY <1>1, InternedAllIs
<1> HIDE DEF d
<1>3. TextOK(d, ids, list)
  BY <1>1, <1>2, IdsOfText
<1> HIDE DEF ids
<1>4. MapOK(n, d, t.nodes) /\ MapOK(n, d, t.edges)
  BY <1>1, <1>2, MapInLonger DEF TagsOK
<1>5. /\ MapOK(n, d, more(t.nodes)) /\ DOMAIN more(t.nodes) = DOMAIN t.nodes \cup {id}
      /\ MapOK(n, d, more(t.edges)) /\ DOMAIN more(t.edges) = DOMAIN t.edges \cup {id}
  BY <1>3, <1>4, MapWith DEF list
<1>6. CASE list = <<>>
  <2>1. u = t
    BY <1>6 DEF Cloned
  <2> QED
    BY <1>6, <2>1 DEF Grown, Has, list
<1>7. CASE list # <<>> /\ id \in DOMAIN t[map]
  <2>1. u = [t EXCEPT !.dictionary = d]
    BY <1>7 DEF Cloned, d
  <2>2. u[map] = t[map]
    BY <2>1 DEF TagsOK, TagsAre
  <2>3. TagsOK(n, u) /\ Grown(t, u) /\ u.finalized = t.finalized
    BY <1>1, <1>2, <2>1, DictionaryGrows
  <2> QED
    BY <1>7, <2>2, <2>3 DEF Has, list
<1>8. CASE list # <<>> /\ id \notin DOMAIN t[map]
  <2>1. u = [t EXCEPT !.dictionary = d, ![map] = more(t[map])]
    BY <1>8 DEF Cloned, d, ids
  <2> HIDE DEF more
  <2>2. CASE map = "nodes"
    <3>1. TagsAre(u, d, more(t.nodes), t.edges, t.finalized)
      BY <2>1, <2>2 DEF TagsOK, TagsAre
    <3> HIDE DEF u
    <3>2. u.dictionary = d /\ u.nodes = more(t.nodes) /\ u.edges = t.edges /\ u.finalized = t.finalized
      BY <3>1 DEF TagsAre
    <3>3. TagsOK(n, u)
      BY <1>2, <1>4, <1>5, <3>1, <3>2 DEF TagsOK
    <3>4. Grown(t, u) /\ Has(n, u[map], id)
      BY <1>5, <2>2, <3>2 DEF Grown, Has
    <3> QED
      BY <3>2, <3>3, <3>4 DEF u, list
  <2>3. CASE map = "edges"
    <3>1. TagsAre(u, d, t.nodes, more(t.edges), t.finalized)
      BY <2>1, <2>3 DEF TagsOK, TagsAre
    <3> HIDE DEF u
    <3>2. u.dictionary = d /\ u.edges = more(t.edges) /\ u.nodes = t.nodes /\ u.finalized = t.finalized
      BY <3>1 DEF TagsAre
    <3>3. TagsOK(n, u)
      BY <1>2, <1>4, <1>5, <3>1, <3>2 DEF TagsOK
    <3>4. Grown(t, u) /\ Has(n, u[map], id)
      BY <1>5, <2>3, <3>2 DEF Grown, Has
    <3> QED
      BY <3>2, <3>3, <3>4 DEF u, list
  <2> QED
    BY <2>2, <2>3
<1> QED
  BY <1>6, <1>7, <1>8 DEF list

-----------------------------------------------------------------------------
(* The rows of the graph.                                                  *)

VertexRows(n) == {VertexRow(id, start) : id \in AllIds(n), start \in Nat}
EdgeRows(n) == {EdgeRow(v, e) : v \in 1..Len(n.ids), e \in AllEdges(n)}

\* So many edges of vertex v are in the graph, when "last" of the last vertex are.
SizeAt(n, vs, last, v) == IF v = Len(vs) THEN last ELSE Len(n.out[v])
EndOf(vs, es, v) == IF v < Len(vs) THEN vs[v + 1].start ELSE Len(es)

RowOK(n, vs, es, last, v) ==
    /\ vs[v].id = n.ids[v]
    /\ vs[v].start + SizeAt(n, vs, last, v) = EndOf(vs, es, v)
    /\ \A i \in 1..SizeAt(n, vs, last, v) : /\ vs[v].start + i <= Len(es)
                                            /\ es[vs[v].start + i] = EdgeRow(v, n.out[v][i])

\* The rows are those of the first vertices and their edges.
RowsOK(n, vs, es, last) ==
    /\ vs \in Seq(VertexRows(n)) /\ es \in Seq(EdgeRows(n))
    /\ Len(vs) <= Len(n.ids) /\ last \in Nat
    /\ \A v \in 1..Len(vs) : RowOK(n, vs, es, last, v)

LastIsWhole(n, vs, last) == Len(vs) > 0 => last = Len(n.out[Len(vs)])

LEMMA VertexRowIs == \A id, start : VertexRow(id, start).id = id /\ VertexRow(id, start).start = start
BY DEF VertexRow

LEMMA NoRows ==
  ASSUME NEW n \in Imports
  PROVE  RowsOK(n, <<>>, <<>>, 0)
<1>1. Len(n.ids) \in Nat /\ Len(<<>>) = 0
  BY ImportIs
<1> QED
  BY <1>1 DEF RowsOK

LEMMA RowsTyped ==
  ASSUME NEW n \in Imports, NEW vs, NEW es, NEW last, RowsOK(n, vs, es, last)
  PROVE  /\ Len(vs) \in Nat /\ Len(es) \in Nat /\ last \in Nat
         /\ \A v \in 1..Len(vs) : vs[v].start \in Nat /\ v \in 1..Len(n.ids) /\ Len(n.out[v]) \in Nat
<1>1. vs \in Seq(VertexRows(n)) /\ es \in Seq(EdgeRows(n)) /\ last \in Nat /\ Len(vs) <= Len(n.ids)
  BY DEF RowsOK
<1>2. Len(vs) \in Nat /\ Len(es) \in Nat /\ \A v \in 1..Len(vs) : vs[v] \in VertexRows(n)
  BY <1>1, LenProperties, ElementOfSeq
<1>3. \A v \in 1..Len(vs) : vs[v].start \in Nat
  BY <1>2, VertexRowIs DEF VertexRows
<1>4. Len(n.ids) \in Nat
  BY ImportIs
<1>5. \A v \in 1..Len(vs) : v \in 1..Len(n.ids)
  BY <1>1, <1>2, <1>4
<1> QED
  BY <1>1, <1>2, <1>3, <1>5, ImportIs

LEMMA RowsVertex ==
  ASSUME NEW n \in Imports, NEW vs, NEW es, NEW last, RowsOK(n, vs, es, last),
         LastIsWhole(n, vs, last), Len(vs) < Len(n.ids)
  PROVE  RowsOK(n, Append(vs, VertexRow(n.ids[Len(vs) + 1], Len(es))), es, 0)
<1> DEFINE V == Len(vs)
           E == Len(es)
           row == VertexRow(n.ids[V + 1], E)
           ws == Append(vs, row)
<1>1. /\ V \in Nat /\ E \in Nat /\ last \in Nat /\ Len(n.ids) \in Nat
      /\ vs \in Seq(VertexRows(n)) /\ es \in Seq(EdgeRows(n))
      /\ \A v \in 1..V : RowOK(n, vs, es, last, v) /\ vs[v].start \in Nat
  BY RowsTyped, ImportIs DEF RowsOK
<1>2. V + 1 \in 1..Len(n.ids) /\ n.ids[V + 1] \in AllIds(n)
  <2>1. V + 1 \in 1..Len(n.ids)
    BY <1>1
  <2>2. \A v \in 1..Len(n.ids) : n.ids[v] \in AllIds(n)
    BY ImportIs
  <2> HIDE DEF V
  <2> QED
    BY <2>1, <2>2
<1>3. row \in VertexRows(n) /\ row.id = n.ids[V + 1] /\ row.start = E
  BY <1>1, <1>2, VertexRowIs DEF VertexRows
<1> HIDE DEF row
<1>4. ws \in Seq(VertexRows(n)) /\ Len(ws) = V + 1 /\ ws[V + 1] = row /\ \A v \in 1..V : ws[v] = vs[v]
  BY <1>1, <1>3, AppendProperties
<1> HIDE DEF ws
<1>5. ASSUME NEW v \in 1..(V + 1) PROVE RowOK(n, ws, es, 0, v)
  <2>1. CASE v = V + 1
    <3>1. SizeAt(n, ws, 0, v) = 0 /\ EndOf(ws, es, v) = E /\ ws[v] = row
      BY <1>1, <1>4, <2>1 DEF SizeAt, EndOf
    <3>2. \A i \in 1..0 : FALSE
      OBVIOUS
    <3> QED
      BY <1>1, <1>3, <2>1, <3>1, <3>2 DEF RowOK
  <2>2. CASE v = V /\ v \in 1..V
    <3>1. last = Len(n.out[v])
      BY <1>1, <2>2 DEF LastIsWhole
    <3>2. SizeAt(n, ws, 0, v) = last /\ SizeAt(n, vs, last, v) = last
      BY <1>1, <1>4, <2>2, <3>1 DEF SizeAt
    <3>3. EndOf(vs, es, v) = E /\ EndOf(ws, es, v) = E
      BY <1>1, <1>3, <1>4, <2>2 DEF EndOf
    <3>4. RowOK(n, vs, es, last, v) /\ ws[v] = vs[v]
      BY <1>1, <1>4, <2>2
    <3> QED
      BY <3>2, <3>3, <3>4 DEF RowOK
  <2>3. CASE v # V /\ v \in 1..V
    <3>1. SizeAt(n, ws, 0, v) = SizeAt(n, vs, last, v)
      BY <1>1, <1>4, <2>3 DEF SizeAt
    <3>2. EndOf(ws, es, v) = EndOf(vs, es, v)
      <4>1. v < V /\ v < V + 1 /\ v + 1 \in 1..V
        BY <1>1, <2>3
      <4>2. ws[v + 1] = vs[v + 1]
        BY <1>4, <4>1
      <4> QED
        BY <1>1, <1>4, <4>1, <4>2 DEF EndOf
    <3>3. RowOK(n, vs, es, last, v) /\ ws[v] = vs[v]
      BY <1>1, <1>4, <2>3
    <3> QED
      BY <3>1, <3>2, <3>3 DEF RowOK
  <2>4. v = V + 1 \/ v \in 1..V
    BY <1>1
  <2> QED
    BY <2>1, <2>2, <2>3, <2>4
<1>6. RowsOK(n, ws, es, 0)
  <2>1. Len(ws) <= Len(n.ids)
    BY <1>1, <1>2, <1>4
  <2> QED
    BY <1>1, <1>4, <1>5, <2>1 DEF RowsOK
<1> QED
  BY <1>6 DEF ws, row

LEMMA RowsEdge ==
  ASSUME NEW n \in Imports, NEW vs, NEW es, NEW last, RowsOK(n, vs, es, last),
         Len(vs) > 0, last < Len(n.out[Len(vs)])
  PROVE  RowsOK(n, vs, Append(es, EdgeRow(Len(vs), n.out[Len(vs)][last + 1])), last + 1)
<1> DEFINE V == Len(vs)
           E == Len(es)
           row == EdgeRow(V, n.out[V][last + 1])
           fs == Append(es, row)
<1>1. /\ V \in Nat /\ E \in Nat /\ last \in Nat /\ V <= Len(n.ids)
      /\ vs \in Seq(VertexRows(n)) /\ es \in Seq(EdgeRows(n))
      /\ \A v \in 1..V : /\ RowOK(n, vs, es, last, v) /\ vs[v].start \in Nat
                         /\ v \in 1..Len(n.ids) /\ Len(n.out[v]) \in Nat
  BY RowsTyped DEF RowsOK
<1>2. V \in 1..V /\ V \in 1..Len(n.ids) /\ last + 1 \in 1..Len(n.out[V])
  BY <1>1
<1>3. row \in EdgeRows(n)
  BY <1>2, ImportIs DEF EdgeRows
<1> HIDE DEF row
<1>4. fs \in Seq(EdgeRows(n)) /\ Len(fs) = E + 1 /\ fs[E + 1] = row /\ \A k \in 1..E : fs[k] = es[k]
  BY <1>1, <1>3, AppendProperties
<1> HIDE DEF fs
<1>5. ASSUME NEW v \in 1..V PROVE RowOK(n, vs, fs, last + 1, v)
  <2> DEFINE start == vs[v].start
  <2>1. RowOK(n, vs, es, last, v) /\ start \in Nat
    BY <1>1
  <2>2. CASE v = V
    <3>1. SizeAt(n, vs, last, v) = last /\ SizeAt(n, vs, last + 1, v) = last + 1
      BY <2>2 DEF SizeAt
    <3>2. EndOf(vs, es, v) = E /\ EndOf(vs, fs, v) = E + 1
      BY <1>1, <1>4, <2>2 DEF EndOf
    <3>3. start + last = E
      BY <2>1, <3>1, <3>2 DEF RowOK
    <3>5. start + (last + 1) = E + 1 /\ start + last + 1 = E + 1
      <4> HIDE DEF start, E
      <4> QED
        BY <1>1, <2>1, <3>3
    <3>4. ASSUME NEW i \in 1..(last + 1)
          PROVE  start + i <= Len(fs) /\ fs[start + i] = EdgeRow(v, n.out[v][i])
      <4>1. CASE i = last + 1
        <5>1. start + i = E + 1
          BY <3>5, <4>1
        <5> QED
          BY <1>1, <1>4, <2>2, <4>1, <5>1 DEF row
      <4>2. CASE i \in 1..last
        <5>1. start + i <= E /\ es[start + i] = EdgeRow(v, n.out[v][i])
          BY <2>1, <3>1, <4>2 DEF RowOK
        <5>2. start + i \in 1..E
          BY <1>1, <2>1, <4>2, <5>1, SMTT(30)
        <5> QED
          BY <1>1, <1>4, <5>1, <5>2, SMTT(30)
      <4> QED
        BY <1>1, <4>1, <4>2
    <3> QED
      BY <2>1, <3>1, <3>2, <3>4, <3>5 DEF RowOK
  <2>3. CASE v # V
    <3>1. SizeAt(n, vs, last + 1, v) = SizeAt(n, vs, last, v) /\ EndOf(vs, fs, v) = EndOf(vs, es, v)
      BY <1>1, <2>3 DEF SizeAt, EndOf
    <3>2. ASSUME NEW i \in 1..SizeAt(n, vs, last, v)
          PROVE  start + i <= Len(fs) /\ fs[start + i] = EdgeRow(v, n.out[v][i])
      <4>1. start + i <= E /\ es[start + i] = EdgeRow(v, n.out[v][i])
        BY <2>1 DEF RowOK
      <4>2. SizeAt(n, vs, last, v) \in Nat
        BY <1>1 DEF SizeAt
      <4>3. start + i \in 1..E
        BY <1>1, <2>1, <4>1, <4>2
      <4> QED
        BY <1>1, <1>4, <4>1, <4>3
    <3> QED
      BY <2>1, <3>1, <3>2 DEF RowOK
  <2> QED
    BY <2>2, <2>3
<1>6. RowsOK(n, vs, fs, last + 1)
  BY <1>1, <1>4, <1>5 DEF RowsOK
<1> QED
  BY <1>6 DEF fs, row

\* The edges that a reader finds between two starts.
LEMMA RowsRead ==
  ASSUME NEW n \in Imports, NEW vs, NEW es, NEW last, RowsOK(n, vs, es, last),
         LastIsWhole(n, vs, last), NEW v \in 1..Len(vs)
  PROVE  SubSeq(es, vs[v].start + 1, EndOf(vs, es, v)) = [i \in 1..Len(n.out[v]) |-> EdgeRow(v, n.out[v][i])]
<1> DEFINE start == vs[v].start
           size == Len(n.out[v])
           part == SubSeq(es, start + 1, EndOf(vs, es, v))
<1>1. RowOK(n, vs, es, last, v)
  BY DEF RowsOK
<1>2. start \in Nat /\ size \in Nat /\ Len(es) \in Nat /\ Len(vs) \in Nat
  BY RowsTyped
<1>3. SizeAt(n, vs, last, v) = size
  BY <1>2 DEF SizeAt, LastIsWhole
<1>4. EndOf(vs, es, v) = start + size
  BY <1>1, <1>3 DEF RowOK
<1>5. \A i \in 1..size : es[start + i] = EdgeRow(v, n.out[v][i])
  BY <1>1, <1>3 DEF RowOK
<1>6. part = [i \in 1..size |-> es[start + i]]
  <2> DEFINE T == {es[i] : i \in (start + 1)..(start + size)}
  <2>1. start + 1 \in Int /\ start + size \in Int /\ (start + size) - (start + 1) + 1 = size
    BY <1>2, SMTT(30)
  <2>2. \A i \in (start + 1)..(start + size) : es[i] \in T
    OBVIOUS
  <2>3. \A i \in 1..size : (start + 1) + i - 1 = start + i
    BY <1>2
  <2>4. IF start + 1 <= start + size THEN size = size ELSE size = 0
    BY <1>2
  <2>5. part = SubSeq(es, start + 1, start + size)
    BY <1>4
  <2> HIDE DEF part, start, size, T
  <2>6. /\ part \in Seq(T)
        /\ Len(part) = IF start + 1 <= start + size THEN (start + size) - (start + 1) + 1 ELSE 0
        /\ \A i \in 1..((start + size) - (start + 1) + 1) : part[i] = es[(start + 1) + i - 1]
    BY <2>1, <2>2, <2>5, SubSeqProperties
  <2>7. Len(part) = size /\ \A i \in 1..size : part[i] = es[start + i]
    BY <2>1, <2>3, <2>4, <2>6
  <2>8. part = [i \in 1..Len(part) |-> part[i]]
    BY <2>6, LenProperties
  <2> QED
    BY <2>7, <2>8
<1> HIDE DEF start, size, part
<1>7. part = [i \in 1..size |-> EdgeRow(v, n.out[v][i])]
  BY <1>5, <1>6
<1> QED
  BY <1>7 DEF part, start, size
-----------------------------------------------------------------------------
(* The list of segments.                                                   *)

SegmentsIn(es, n) == UNION {{<<e, i>> : i \in 1..es[e].line - 1} : e \in 1..n}

\* A list of everything in P, once each.
ListsOnce(s, P) == s \in Seq(Nat \X Nat) /\ IsInjective(s) /\ ToSet(s) = P

HaveLines(es) == IsList(es) /\ \A e \in 1..Len(es) : es[e].line \in Nat

Piece(es, e) == [i \in 1..es[e].line - 1 |-> <<e, i>>]

LEMMA PieceIs ==
  ASSUME NEW es, HaveLines(es), NEW e \in 1..Len(es)
  PROVE  ListsOnce(Piece(es, e), {<<e, i>> : i \in 1..es[e].line - 1})
<1> DEFINE k == es[e].line - 1
           m == IF k > 0 THEN k ELSE 0
           s == [i \in 1..k |-> <<e, i>>]
<1>1. k \in Int /\ m \in Nat /\ 1..k = 1..m /\ e \in Nat
  <2>1. es[e].line \in Nat /\ Len(es) \in Nat
    BY ListIs DEF HaveLines
  <2>2. k \in Int /\ m \in Nat /\ e \in Nat
    BY <2>1
  <2>3. 1..k = 1..m
    BY <2>2
  <2> QED
    BY <2>2, <2>3
<1> HIDE DEF k, m
<1>2. s \in [1..m -> Nat \X Nat] /\ DOMAIN s = 1..k
  BY <1>1
<1>3. s \in Seq(Nat \X Nat)
  BY <1>1, <1>2, SeqDef
<1>4. \A i \in 1..k : s[i] = <<e, i>>
  OBVIOUS
<1>5. IsInjective(s)
  BY <1>2, <1>4 DEF IsInjective
<1>6. ToSet(s) = {<<e, i>> : i \in 1..k}
  BY <1>2, <1>4 DEF ToSet
<1>7. Piece(es, e) = s
  BY DEF Piece, k
<1> QED
  BY <1>3, <1>5, <1>6, <1>7 DEF ListsOnce, k

LEMMA ListsBoth ==
  ASSUME NEW s, NEW t, NEW P, NEW Q, ListsOnce(s, P), ListsOnce(t, Q), P \cap Q = {}
  PROVE  ListsOnce(s \o t, P \cup Q)
<1> DEFINE u == s \o t
           a == Len(s)
           b == Len(t)
<1>1. s \in Seq(Nat \X Nat) /\ t \in Seq(Nat \X Nat)
  BY DEF ListsOnce
<1>2. a \in Nat /\ b \in Nat /\ DOMAIN s = 1..a /\ DOMAIN t = 1..b
  BY <1>1, LenProperties
<1>3. /\ u \in Seq(Nat \X Nat) /\ Len(u) = a + b
      /\ \A i \in 1..(a + b) : u[i] = IF i <= a THEN s[i] ELSE t[i - a]
  BY <1>1, ConcatProperties
<1>4. DOMAIN u = 1..(a + b)
  BY <1>3, LenProperties
<1> HIDE DEF u, a, b
<1>5. \A i \in 1..a : i \in 1..(a + b) /\ u[i] = s[i] /\ s[i] \in P
  <2>1. \A i \in 1..a : s[i] \in P
    BY <1>2 DEF ListsOnce, ToSet
  <2> QED
    BY <1>2, <1>3, <2>1
<1>6. \A i \in 1..b : a + i \in 1..(a + b) /\ u[a + i] = t[i] /\ t[i] \in Q
  <2>1. \A i \in 1..b : t[i] \in Q
    BY <1>2 DEF ListsOnce, ToSet
  <2>2. \A i \in 1..b : a + i \in 1..(a + b) /\ ~(a + i <= a) /\ (a + i) - a = i
    BY <1>2
  <2> QED
    BY <1>3, <2>1, <2>2
<1>7. \A j \in 1..(a + b) : j \in 1..a \/ \E i \in 1..b : j = a + i
  <2> SUFFICES ASSUME NEW j \in 1..(a + b), j \notin 1..a PROVE \E i \in 1..b : j = a + i
    OBVIOUS
  <2>1. j - a \in 1..b /\ j = a + (j - a)
    BY <1>2
  <2> QED
    BY <2>1
<1>8. IsInjective(u)
  <2> SUFFICES ASSUME NEW i \in 1..(a + b), NEW j \in 1..(a + b), u[i] = u[j] PROVE i = j
    BY <1>4 DEF IsInjective
  <2>1. CASE i \in 1..a /\ j \in 1..a
    BY <1>2, <1>5, <2>1 DEF ListsOnce, IsInjective
  <2>2. CASE i \in 1..a /\ j \notin 1..a
    BY <1>5, <1>6, <1>7, <2>2
  <2>3. CASE i \notin 1..a /\ j \in 1..a
    BY <1>5, <1>6, <1>7, <2>3
  <2>4. CASE i \notin 1..a /\ j \notin 1..a
    <3>1. PICK k \in 1..b, l \in 1..b : i = a + k /\ j = a + l
      BY <1>7, <2>4
    <3>2. t[k] = t[l]
      BY <1>6, <3>1
    <3>3. IsInjective(t) /\ DOMAIN t = 1..b
      BY <1>2 DEF ListsOnce
    <3>4. k = l
      BY <3>2, <3>3 DEF IsInjective
    <3> QED
      BY <3>1, <3>4
  <2> QED
    BY <2>1, <2>2, <2>3, <2>4
<1>9. ToSet(u) = P \cup Q
  <2>1. ASSUME NEW x \in ToSet(u) PROVE x \in P \cup Q
    <3>1. PICK j \in 1..(a + b) : x = u[j]
      BY <1>4 DEF ToSet
    <3> QED
      BY <1>5, <1>6, <1>7, <3>1
  <2>2. ASSUME NEW x \in P PROVE x \in ToSet(u)
    <3>1. PICK i \in 1..a : x = s[i]
      BY <1>2 DEF ListsOnce, ToSet
    <3> QED
      BY <1>4, <1>5, <3>1 DEF ToSet
  <2>3. ASSUME NEW x \in Q PROVE x \in ToSet(u)
    <3>1. PICK i \in 1..b : x = t[i]
      BY <1>2 DEF ListsOnce, ToSet
    <3> QED
      BY <1>4, <1>6, <3>1 DEF ToSet
  <2> QED
    BY <2>1, <2>2, <2>3
<1> QED
  BY <1>3, <1>8, <1>9 DEF ListsOnce, u

\* r[n] is the list for the first n edges.
Segments(r, es) ==
    /\ r[0] = <<>>
    /\ \A e \in 1..Len(es) : r[e] = r[e - 1] \o Piece(es, e)
    /\ SegmentsOf(es) = r[Len(es)]

LEMMA SegmentsUnfold ==
  ASSUME NEW es, HaveLines(es)
  PROVE  \E r : Segments(r, es)
<1> DEFINE N == Len(es)
           S == Seq(Nat \X Nat)
           step == [x \in Nat \X S |-> IF x[1] \in 1..N THEN x[2] \o Piece(es, x[1]) ELSE x[2]]
           F(g) == [e \in 0..Len(es) |->
                      IF e = 0 THEN <<>> ELSE g[e - 1] \o [i \in 1..es[e].line - 1 |-> <<e, i>>]]
           rec == CHOOSE g : g = F(g)
<1>1. N \in Nat /\ <<>> \in S
  BY ListIs, EmptySeq DEF HaveLines
<1>2. \A e \in 1..N : Piece(es, e) \in S
  BY PieceIs DEF ListsOnce
<1>3. step \in [Nat \X S -> S]
  <2>1. \A x \in Nat \X S : x[1] \in 1..N => x[2] \o Piece(es, x[1]) \in S
    <3> SUFFICES ASSUME NEW x \in Nat \X S, x[1] \in 1..N PROVE x[2] \o Piece(es, x[1]) \in S
      OBVIOUS
    <3>1. x[2] \in S /\ Piece(es, x[1]) \in S
      BY <1>2
    <3> QED
      BY <3>1, ConcatProperties
  <2> HIDE DEF S
  <2>2. \A x \in Nat \X S : (IF x[1] \in 1..N THEN x[2] \o Piece(es, x[1]) ELSE x[2]) \in S
    BY <2>1
  <2> QED
    BY <2>2
<1>4. PICK g \in [0..N -> S] : Steps(g, <<>>, step, N)
  <2> HIDE DEF step, N, S
  <2> QED
    BY <1>1, <1>3, Recursion
<1>5. ASSUME NEW e \in 1..N PROVE g[e] = g[e - 1] \o Piece(es, e)
  <2>1. e - 1 \in 0..N /\ e \in Nat
    BY <1>1
  <2>2. g[e - 1] \in S
    BY <1>4, <2>1
  <2> HIDE DEF S
  <2>3. <<e, g[e - 1]>> \in Nat \X S
    BY <2>1, <2>2
  <2>4. step[<<e, g[e - 1]>>] = g[e - 1] \o Piece(es, e)
    BY <2>3
  <2>5. g[e] = step[<<e, g[e - 1]>>]
    BY <1>4 DEF Steps
  <2> HIDE DEF step
  <2> QED
    BY <2>4, <2>5
<1>6. g = F(g)
  <2>1. ASSUME NEW e \in 0..N PROVE g[e] = F(g)[e]
    <3>1. e = 0 \/ (e # 0 /\ e \in 1..N)
      BY <1>1
    <3>2. F(g)[e] = IF e = 0 THEN <<>> ELSE g[e - 1] \o Piece(es, e)
      BY DEF Piece
    <3>3. g[0] = <<>>
      BY <1>4 DEF Steps
    <3> HIDE DEF F
    <3> QED
      BY <1>5, <3>1, <3>2, <3>3
  <2>2. g = [e \in 0..N |-> g[e]]
    BY <1>4
  <2>3. F(g) = [e \in 0..N |-> F(g)[e]]
    OBVIOUS
  <2> HIDE DEF F
  <2> QED
    BY <2>1, <2>2, <2>3
<1>7. rec = F(rec)
  <2> HIDE DEF F
  <2> QED
    BY <1>6
<1>8. SegmentsOf(es) = rec[N]
  BY DEF SegmentsOf
<1> HIDE DEF rec
<1>9. \A e \in 0..N : rec[e] = IF e = 0 THEN <<>> ELSE rec[e - 1] \o Piece(es, e)
  BY <1>7 DEF Piece
<1>10. rec[0] = <<>> /\ \A e \in 1..N : rec[e] = rec[e - 1] \o Piece(es, e)
  <2>1. 0 \in 0..N /\ \A e \in 1..N : e \in 0..N /\ e # 0
    BY <1>1
  <2> QED
    BY <1>9, <2>1
<1> QED
  BY <1>8, <1>10 DEF Segments

\* Every segment is listed, and once.
LEMMA SegmentsAreListed ==
  ASSUME NEW es, HaveLines(es)
  PROVE  ListsOnce(SegmentsOf(es), SegmentsIn(es, Len(es)))
<1>1. PICK r : Segments(r, es)
  BY SegmentsUnfold
<1> DEFINE N == Len(es)
           T == {n \in Nat : n <= N => ListsOnce(r[n], SegmentsIn(es, n))}
<1>2. N \in Nat
  BY ListIs DEF HaveLines
<1>3. 0 \in T
  <2>1. SegmentsIn(es, 0) = {}
    BY DEF SegmentsIn
  <2>2. <<>> \in Seq(Nat \X Nat) /\ DOMAIN <<>> = {}
    BY EmptySeq
  <2>3. ListsOnce(<<>>, {})
    BY <2>2 DEF ListsOnce, IsInjective, ToSet
  <2> QED
    BY <1>1, <2>1, <2>3 DEF Segments
<1>4. ASSUME NEW n \in T PROVE n + 1 \in T
  <2> SUFFICES ASSUME n + 1 <= N PROVE ListsOnce(r[n + 1], SegmentsIn(es, n + 1))
    OBVIOUS
  <2>1. n + 1 \in 1..N /\ (n + 1) - 1 = n /\ n \in Nat
    BY <1>2
  <2>2. ListsOnce(r[n], SegmentsIn(es, n))
    BY <1>2, <2>1
  <2> DEFINE Q == {<<n + 1, i>> : i \in 1..es[n + 1].line - 1}
  <2>3. r[n + 1] = r[n] \o Piece(es, n + 1)
    BY <1>1, <2>1 DEF Segments
  <2>4. ListsOnce(Piece(es, n + 1), Q)
    BY <2>1, PieceIs
  <2>5. SegmentsIn(es, n) \cap Q = {}
    <3>1. \A e \in 1..n : e # n + 1
      BY <2>1
    <3>2. \A x \in SegmentsIn(es, n) : \E e \in 1..n : x[1] = e
      BY DEF SegmentsIn
    <3>3. \A x \in Q : x[1] = n + 1
      OBVIOUS
    <3> HIDE DEF Q
    <3> QED
      BY <3>1, <3>2, <3>3
  <2>6. SegmentsIn(es, n + 1) = SegmentsIn(es, n) \cup Q
    <3>1. 1..(n + 1) = 1..n \cup {n + 1}
      BY <2>1
    <3> QED
      BY <3>1 DEF SegmentsIn
  <2> HIDE DEF Q
  <2> QED
    BY <2>2, <2>3, <2>4, <2>5, <2>6, ListsBoth
<1>5. T = Nat
  <2>1. T \in SUBSET Nat
    OBVIOUS
  <2> HIDE DEF T
  <2> QED
    BY <1>3, <1>4, <2>1, Induction
<1>6. ListsOnce(r[N], SegmentsIn(es, N))
  BY <1>2, <1>5
<1> QED
  BY <1>1, <1>6 DEF Segments

-----------------------------------------------------------------------------
(* How far the conversion came.                                            *)

LastOf(n, vs, p, a) ==
    IF p = "edge" THEN a[2] ELSE IF Len(vs) > 0 THEN Len(n.out[Len(vs)]) ELSE 0

\* The tags of the vertices and edges in the graph are in the maps.
TagsKept(n, t, vs, last) ==
    \A v \in 1..Len(vs) : /\ Has(n, t.nodes, n.ids[v])
                          /\ \A i \in 1..SizeAt(n, vs, last, v) : Has(n, t.edges, n.out[v][i].id)

AtOK(n, vs, es, p, a) ==
    /\ a = <<a[1], a[2]>> /\ a[1] \in Nat /\ a[2] \in Nat
    /\ p = "reserve" => vs = <<>> /\ es = <<>> /\ a = <<1, 0>>
    /\ p = "vertex" => a = <<Len(vs) + 1, 0>> /\ Len(vs) < Len(n.ids)
    /\ p = "edge" => a[1] = Len(vs) /\ Len(vs) > 0 /\ a[2] < Len(n.out[Len(vs)])
    /\ p = "finalize" => Len(vs) = Len(n.ids)

Converted(n, t, vs, es, p, a) ==
    /\ RowsOK(n, vs, es, LastOf(n, vs, p, a))
    /\ TagsKept(n, t, vs, LastOf(n, vs, p, a))
    /\ AtOK(n, vs, es, p, a)

LEMMA NothingConverted ==
  ASSUME NEW n \in Imports, NEW t
  PROVE  Converted(n, t, <<>>, <<>>, "reserve", <<1, 0>>)
<1>1. Len(<<>>) = 0 /\ LastOf(n, <<>>, "reserve", <<1, 0>>) = 0
  BY DEF LastOf
<1>2. RowsOK(n, <<>>, <<>>, 0)
  BY NoRows
<1>3. TagsKept(n, t, <<>>, 0)
  BY <1>1 DEF TagsKept
<1>4. AtOK(n, <<>>, <<>>, "reserve", <<1, 0>>)
  BY DEF AtOK
<1> QED
  BY <1>1, <1>2, <1>3, <1>4 DEF Converted

LEMMA ReservedConverted ==
  ASSUME NEW n \in Imports, NEW t, NEW vs, NEW es, NEW a, Converted(n, t, vs, es, "reserve", a)
  PROVE  /\ n.ids = <<>> => Converted(n, t, vs, es, "finalize", a)
         /\ n.ids # <<>> => Converted(n, t, vs, es, "vertex", a)
<1>1. vs = <<>> /\ es = <<>> /\ a = <<1, 0>> /\ Len(vs) = 0
  BY DEF Converted, AtOK
<1>2. Len(n.ids) \in Nat /\ n.ids \in Seq(ToSet(n.ids))
  BY ImportIs, CompressionAssumption DEF IsList
<1>3. (n.ids = <<>> => Len(n.ids) = 0) /\ (n.ids # <<>> => 0 < Len(n.ids))
  BY <1>2, EmptySeq
<1>4. /\ LastOf(n, vs, "reserve", a) = 0 /\ LastOf(n, vs, "vertex", a) = 0
      /\ LastOf(n, vs, "finalize", a) = 0
  BY <1>1 DEF LastOf
<1>5. AtOK(n, vs, es, "reserve", a)
  BY DEF Converted
<1>6. n.ids = <<>> => AtOK(n, vs, es, "finalize", a)
  BY <1>1, <1>3, <1>5 DEF AtOK
<1>7. n.ids # <<>> => AtOK(n, vs, es, "vertex", a)
  BY <1>1, <1>3, <1>5 DEF AtOK
<1> QED
  BY <1>4, <1>6, <1>7 DEF Converted

LEMMA KeptInGrown ==
  ASSUME NEW n, NEW t, NEW u, Grown(t, u), NEW vs, NEW last, TagsKept(n, t, vs, last)
  PROVE  TagsKept(n, u, vs, last)
BY DEF TagsKept, Has, Grown

\* All edges of vertex v are in the graph.
LEMMA OnToNext ==
  ASSUME NEW n \in Imports, NEW t, NEW vs, NEW es, NEW a, Len(vs) > 0, Len(vs) <= Len(n.ids),
         RowsOK(n, vs, es, Len(n.out[Len(vs)])), TagsKept(n, t, vs, Len(n.out[Len(vs)])),
         a = <<a[1], a[2]>>, a[1] = Len(vs), a[2] \in Nat
  PROVE  /\ Len(vs) < Len(n.ids) => Converted(n, t, vs, es, "vertex", <<Len(vs) + 1, 0>>)
         /\ ~(Len(vs) < Len(n.ids)) => Converted(n, t, vs, es, "finalize", a)
<1>1. Len(vs) \in Nat /\ Len(n.ids) \in Nat
  BY ImportIs, RowsTyped
<1>2. \A p, b : p # "edge" => LastOf(n, vs, p, b) = Len(n.out[Len(vs)])
  BY DEF LastOf
<1>3. Len(vs) < Len(n.ids) => AtOK(n, vs, es, "vertex", <<Len(vs) + 1, 0>>)
  BY <1>1 DEF AtOK
<1>4. ~(Len(vs) < Len(n.ids)) => AtOK(n, vs, es, "finalize", a)
  BY <1>1 DEF AtOK
<1>5. /\ LastOf(n, vs, "vertex", <<Len(vs) + 1, 0>>) = Len(n.out[Len(vs)])
      /\ LastOf(n, vs, "finalize", a) = Len(n.out[Len(vs)])
  BY <1>2
<1> QED
  BY <1>3, <1>4, <1>5 DEF Converted

\* A vertex is added, and its tags.
AddsVertex(n, t, u, vs, ws, es, a) ==
    /\ n \in Imports /\ TagsOK(n, t) /\ Converted(n, t, vs, es, "vertex", a)
    /\ u = Cloned(t, "nodes", n.ids[a[1]], n.tags[n.ids[a[1]]])
    /\ ws = Append(vs, VertexRow(n.ids[a[1]], Len(es)))
VertexAdded(n, t, u, ws, es, a) ==
    /\ TagsOK(n, u) /\ u.finalized = t.finalized
    /\ n.out[a[1]] # <<>> => Converted(n, u, ws, es, "edge", a)
    /\ n.out[a[1]] = <<>> /\ a[1] < Len(n.ids) => Converted(n, u, ws, es, "vertex", <<a[1] + 1, 0>>)
    /\ n.out[a[1]] = <<>> /\ ~(a[1] < Len(n.ids)) => Converted(n, u, ws, es, "finalize", a)

LEMMA VertexConverted ==
  ASSUME NEW n, NEW t, NEW u, NEW vs, NEW ws, NEW es, NEW a, AddsVertex(n, t, u, vs, ws, es, a)
  PROVE  VertexAdded(n, t, u, ws, es, a)
<1>0. /\ n \in Imports /\ TagsOK(n, t) /\ Converted(n, t, vs, es, "vertex", a)
      /\ u = Cloned(t, "nodes", n.ids[a[1]], n.tags[n.ids[a[1]]])
      /\ ws = Append(vs, VertexRow(n.ids[a[1]], Len(es)))
  BY DEF AddsVertex
<1> DEFINE v == a[1]
           last == LastOf(n, vs, "vertex", a)
<1>1. /\ RowsOK(n, vs, es, last) /\ TagsKept(n, t, vs, last)
      /\ a = <<v, a[2]>> /\ a[2] = 0 /\ v = Len(vs) + 1 /\ Len(vs) < Len(n.ids)
  <2>1. RowsOK(n, vs, es, last) /\ TagsKept(n, t, vs, last) /\ AtOK(n, vs, es, "vertex", a)
    BY <1>0 DEF Converted
  <2>2. a = <<Len(vs) + 1, 0>> /\ Len(vs) < Len(n.ids)
    BY <2>1 DEF AtOK
  <2>3. a[1] = Len(vs) + 1 /\ a[2] = 0
    BY <2>2
  <2> QED
    BY <2>1, <2>2, <2>3
<1>2. Len(vs) \in Nat /\ Len(n.ids) \in Nat /\ vs \in Seq(VertexRows(n)) /\ es \in Seq(EdgeRows(n)) /\ Len(es) \in Nat
  BY <1>0, <1>1, ImportIs, RowsTyped DEF RowsOK
<1>3. v \in 1..Len(n.ids) /\ v \in Nat /\ v = Len(vs) + 1
  BY <1>1, <1>2
<1>4. n.ids[v] \in AllIds(n) /\ Len(n.out[v]) \in Nat
  BY <1>0, <1>3, ImportIs
<1>5. TagsOK(n, u) /\ Grown(t, u) /\ u.finalized = t.finalized /\ Has(n, u.nodes, n.ids[v])
  BY <1>0, <1>4, ClonedIs
<1>6. LastIsWhole(n, vs, last)
  BY DEF LastIsWhole, LastOf
<1>7. RowsOK(n, ws, es, 0)
  <2>1. ws = Append(vs, VertexRow(n.ids[Len(vs) + 1], Len(es)))
    BY <1>0, <1>3
  <2> HIDE DEF last
  <2> QED
    BY <1>0, <1>1, <1>6, <2>1, RowsVertex
<1> HIDE DEF last
<1>8. Len(ws) = v /\ Len(ws) > 0
  <2>1. VertexRow(n.ids[v], Len(es)) \in VertexRows(n)
    BY <1>2, <1>4 DEF VertexRows
  <2>2. Len(ws) = Len(vs) + 1
    BY <1>0, <1>2, <2>1, AppendProperties
  <2> QED
    BY <1>2, <1>3, <2>2
<1>9. TagsKept(n, u, ws, 0)
  <2>1. TagsKept(n, u, vs, last)
    BY <1>1, <1>5, KeptInGrown
  <2> SUFFICES ASSUME NEW w \in 1..v
               PROVE  /\ Has(n, u.nodes, n.ids[w])
                      /\ \A i \in 1..SizeAt(n, ws, 0, w) : Has(n, u.edges, n.out[w][i].id)
    BY <1>8 DEF TagsKept
  <2>2. CASE w = v
    <3>1. SizeAt(n, ws, 0, w) = 0
      BY <1>8, <2>2 DEF SizeAt
    <3>2. \A i \in 1..0 : FALSE
      OBVIOUS
    <3> QED
      BY <1>5, <2>2, <3>1, <3>2
  <2>3. CASE w # v
    <3>1. w \in 1..Len(vs)
      BY <1>2, <1>3, <2>3
    <3>2. SizeAt(n, ws, 0, w) = Len(n.out[w])
      BY <1>8, <2>3 DEF SizeAt
    <3>3. SizeAt(n, vs, last, w) = Len(n.out[w])
      BY <1>2, <1>6, <3>1 DEF SizeAt, LastIsWhole
    <3> QED
      BY <2>1, <3>1, <3>2, <3>3 DEF TagsKept
  <2> QED
    BY <2>2, <2>3
<1>10. ASSUME n.out[v] # <<>> PROVE Converted(n, u, ws, es, "edge", a)
  <2>1. 0 < Len(n.out[v])
    <3>1. IsList(n.out[v])
      BY <1>0, <1>3, ImportIs, CompressionAssumption
    <3>2. n.out[v] \in Seq(ToSet(n.out[v]))
      BY <3>1 DEF IsList
    <3> QED
      BY <1>4, <1>10, <3>2, EmptySeq
  <2>2. LastOf(n, ws, "edge", a) = 0
    BY <1>1 DEF LastOf
  <2>3. AtOK(n, ws, es, "edge", a)
    BY <1>1, <1>3, <1>8, <2>1 DEF AtOK
  <2> QED
    BY <1>7, <1>9, <2>2, <2>3 DEF Converted
<1>11. ASSUME n.out[v] = <<>>
       PROVE  /\ v < Len(n.ids) => Converted(n, u, ws, es, "vertex", <<v + 1, 0>>)
              /\ ~(v < Len(n.ids)) => Converted(n, u, ws, es, "finalize", a)
  <2>1. Len(n.out[v]) = 0
    BY <1>11
  <2>2. Len(ws) = v /\ Len(ws) <= Len(n.ids)
    BY <1>3, <1>8
  <2> HIDE DEF v
  <2>3. RowsOK(n, ws, es, Len(n.out[Len(ws)])) /\ TagsKept(n, u, ws, Len(n.out[Len(ws)]))
    BY <1>7, <1>9, <2>1, <2>2
  <2>4. a = <<a[1], a[2]>> /\ a[1] = Len(ws) /\ a[2] \in Nat
    BY <1>1, <2>2 DEF v
  <2>5. /\ Len(ws) < Len(n.ids) => Converted(n, u, ws, es, "vertex", <<Len(ws) + 1, 0>>)
        /\ ~(Len(ws) < Len(n.ids)) => Converted(n, u, ws, es, "finalize", a)
    BY <1>0, <1>8, <2>2, <2>3, <2>4, OnToNext
  <2> QED
    BY <2>2, <2>5
<1> QED
  BY <1>5, <1>10, <1>11 DEF VertexAdded

\* An edge is added, and its tags.
AddsEdge(n, t, u, vs, es, fs, a, e) ==
    /\ n \in Imports /\ TagsOK(n, t) /\ Converted(n, t, vs, es, "edge", a)
    /\ e = n.out[a[1]][a[2] + 1]
    /\ u = Cloned(t, "edges", e.id, n.tags[e.id])
    /\ fs = Append(es, EdgeRow(a[1], e))
EdgeAdded(n, t, u, vs, fs, a) ==
    /\ TagsOK(n, u) /\ u.finalized = t.finalized
    /\ a[2] + 1 < Len(n.out[a[1]]) => Converted(n, u, vs, fs, "edge", <<a[1], a[2] + 1>>)
    /\ ~(a[2] + 1 < Len(n.out[a[1]])) =>
          /\ a[1] < Len(n.ids) => Converted(n, u, vs, fs, "vertex", <<a[1] + 1, 0>>)
          /\ ~(a[1] < Len(n.ids)) => Converted(n, u, vs, fs, "finalize", a)

LEMMA EdgeConverted ==
  ASSUME NEW n, NEW t, NEW u, NEW vs, NEW es, NEW fs, NEW a, NEW e, AddsEdge(n, t, u, vs, es, fs, a, e)
  PROVE  EdgeAdded(n, t, u, vs, fs, a)
<1>0. /\ n \in Imports /\ TagsOK(n, t) /\ Converted(n, t, vs, es, "edge", a)
      /\ e = n.out[a[1]][a[2] + 1]
      /\ u = Cloned(t, "edges", e.id, n.tags[e.id])
      /\ fs = Append(es, EdgeRow(a[1], e))
  BY DEF AddsEdge
<1> DEFINE v == a[1]
           last == a[2]
<1>1. /\ RowsOK(n, vs, es, last) /\ TagsKept(n, t, vs, last)
      /\ a = <<v, last>> /\ v \in Nat /\ last \in Nat
      /\ v = Len(vs) /\ Len(vs) > 0 /\ last < Len(n.out[v])
  BY <1>0 DEF Converted, AtOK, LastOf
<1>2. Len(vs) \in Nat /\ Len(n.ids) \in Nat /\ Len(vs) <= Len(n.ids) /\ v \in 1..Len(n.ids)
  <2>1. Len(vs) \in Nat /\ Len(n.ids) \in Nat /\ Len(vs) <= Len(n.ids)
    BY <1>0, <1>1, ImportIs, RowsTyped DEF RowsOK
  <2> QED
    BY <1>1, <2>1
<1>3. Len(n.out[v]) \in Nat
  BY <1>0, <1>2, ImportIs
<1>4. last + 1 \in 1..Len(n.out[v])
  BY <1>1, <1>3
<1>5. e.id \in AllIds(n) /\ e = n.out[v][last + 1]
  BY <1>0, <1>2, <1>4, ImportIs
<1>6. TagsOK(n, u) /\ Grown(t, u) /\ u.finalized = t.finalized /\ Has(n, u.edges, e.id)
  BY <1>0, <1>5, ClonedIs
<1>7. RowsOK(n, vs, fs, last + 1)
  <2>1. fs = Append(es, EdgeRow(Len(vs), n.out[Len(vs)][last + 1])) /\ last < Len(n.out[Len(vs)])
    BY <1>0, <1>1, <1>5
  <2> QED
    BY <1>0, <1>1, <2>1, RowsEdge
<1> HIDE DEF v, last
<1>8. TagsKept(n, u, vs, last + 1)
  <2>1. TagsKept(n, u, vs, last)
    <3>1. TagsKept(n, t, vs, last) /\ Grown(t, u)
      BY <1>1, <1>6
    <3> QED
      BY <3>1, KeptInGrown
  <2> SUFFICES ASSUME NEW w \in 1..Len(vs), NEW i \in 1..SizeAt(n, vs, last + 1, w)
               PROVE  Has(n, u.edges, n.out[w][i].id)
    BY <2>1 DEF TagsKept
  <2>2. CASE w = Len(vs) /\ i = last + 1
    BY <1>1, <1>5, <1>6, <2>2
  <2>3. CASE w = Len(vs) /\ i # last + 1
    <3>1. SizeAt(n, vs, last + 1, w) = last + 1 /\ SizeAt(n, vs, last, w) = last
      BY <2>3 DEF SizeAt
    <3>2. i \in 1..last
      BY <1>1, <2>3, <3>1
    <3> QED
      BY <2>1, <3>1, <3>2 DEF TagsKept
  <2>4. CASE w # Len(vs)
    <3>1. SizeAt(n, vs, last + 1, w) = SizeAt(n, vs, last, w)
      BY <2>4 DEF SizeAt
    <3> QED
      BY <2>1, <3>1 DEF TagsKept
  <2> QED
    BY <2>2, <2>3, <2>4
<1>9. ASSUME last + 1 < Len(n.out[v]) PROVE Converted(n, u, vs, fs, "edge", <<v, last + 1>>)
  <2>1. LastOf(n, vs, "edge", <<v, last + 1>>) = last + 1
    BY DEF LastOf
  <2>2. AtOK(n, vs, fs, "edge", <<v, last + 1>>)
    BY <1>1, <1>9 DEF AtOK
  <2> QED
    BY <1>7, <1>8, <2>1, <2>2 DEF Converted
<1>10. ASSUME ~(last + 1 < Len(n.out[v]))
       PROVE  /\ v < Len(n.ids) => Converted(n, u, vs, fs, "vertex", <<v + 1, 0>>)
              /\ ~(v < Len(n.ids)) => Converted(n, u, vs, fs, "finalize", a)
  <2>1. last + 1 = Len(n.out[Len(vs)])
    BY <1>1, <1>3, <1>10
  <2>2. RowsOK(n, vs, fs, Len(n.out[Len(vs)])) /\ TagsKept(n, u, vs, Len(n.out[Len(vs)]))
    BY <1>7, <1>8, <2>1
  <2>3. a = <<a[1], a[2]>> /\ a[1] = Len(vs) /\ a[2] \in Nat
    BY <1>1 DEF v, last
  <2>4. /\ Len(vs) < Len(n.ids) => Converted(n, u, vs, fs, "vertex", <<Len(vs) + 1, 0>>)
        /\ ~(Len(vs) < Len(n.ids)) => Converted(n, u, vs, fs, "finalize", a)
    BY <1>0, <1>1, <1>2, <2>2, <2>3, OnToNext
  <2> QED
    BY <1>1, <2>4
<1> QED
  BY <1>6, <1>9, <1>10 DEF EdgeAdded, v, last

-----------------------------------------------------------------------------
(* The invariant of the three files.                                       *)

Working == pc \in {"reserve", "vertex", "edge", "finalize"}

GraphRecord == graph = [size |-> graph.size, used |-> graph.used,
                        vertices |-> graph.vertices, edges |-> graph.edges]
IndexRecord == index = [size |-> index.size, points |-> index.points, segments |-> index.segments]

ConvertedUpTo(p) == Converted(import, tags, graph.vertices, graph.edges, p, at)

BuildOf(g) == [points |-> [v \in DOMAIN g.vertices |-> v], segments |-> SegmentsOf(g.edges)]

IndicesOK ==
    /\ pc \in {"points", "segments", "done"} => build = BuildOf(graph)
    /\ pc \in {"segments", "done"} => index.points = build.points
    /\ pc = "done" => index.segments = build.segments

FilesInv ==
    /\ import \in Imports /\ GraphRecord /\ IndexRecord /\ TagsOK(import, tags)
    /\ Working => ~tags.finalized /\ ConvertedUpTo(pc)
    /\ tags.finalized => ConvertedUpTo("finalize")
    /\ pc \in {"list", "points", "segments", "done"} => tags.finalized
    /\ IndicesOK

\* What is converted up to the end is read as it was in the import.
LEMMA ConvertedIsWhole ==
  ASSUME import \in Imports, TagsOK(import, tags), ConvertedUpTo("finalize")
  PROVE  GraphIsWhole
<1> DEFINE n == import
           vs == graph.vertices
           es == graph.edges
           last == LastOf(n, vs, "finalize", at)
<1>1. RowsOK(n, vs, es, last) /\ TagsKept(n, tags, vs, last) /\ Len(vs) = Len(n.ids)
  BY DEF ConvertedUpTo, Converted, AtOK
<1>2. LastIsWhole(n, vs, last)
  BY DEF LastIsWhole, LastOf
<1>3. Len(n.ids) \in Nat /\ DOMAIN n.ids = 1..Len(n.ids) /\ DOMAIN vs = 1..Len(n.ids)
  BY <1>1, ImportIs, LenProperties DEF RowsOK
<1> HIDE DEF last
<1>4. ASSUME NEW v \in 1..Len(n.ids)
      PROVE  /\ vs[v].id = n.ids[v]
             /\ OutEdges(v) = [i \in DOMAIN n.out[v] |->
                                 [source |-> v, target |-> n.out[v][i].target,
                                  id |-> n.out[v][i].id, line |-> n.out[v][i].line]]
             /\ Has(n, tags.nodes, n.ids[v]) /\ n.ids[v] \in AllIds(n)
             /\ \A i \in DOMAIN n.out[v] : Has(n, tags.edges, n.out[v][i].id) /\ n.out[v][i].id \in AllIds(n)
  <2>1. RowOK(n, vs, es, last, v) /\ v \in 1..Len(vs)
    BY <1>1 DEF RowsOK
  <2>2. OutEdges(v) = SubSeq(es, vs[v].start + 1, EndOf(vs, es, v))
    BY DEF OutEdges, EndOf
  <2>3. OutEdges(v) = [i \in 1..Len(n.out[v]) |-> EdgeRow(v, n.out[v][i])]
    <3> HIDE DEF n, vs, es
    <3>1. SubSeq(es, vs[v].start + 1, EndOf(vs, es, v)) = [i \in 1..Len(n.out[v]) |-> EdgeRow(v, n.out[v][i])]
      <4>1. n \in Imports
        BY DEF n
      <4> QED
        BY <1>1, <1>2, <2>1, <4>1, RowsRead, SMTT(30)
    <3> QED
      BY <2>2, <3>1
  <2>4. DOMAIN n.out[v] = 1..Len(n.out[v])
    BY ImportIs
  <2>5. SizeAt(n, vs, last, v) = Len(n.out[v])
    BY <1>1, <1>2, <1>3 DEF SizeAt, LastIsWhole
  <2>6. Has(n, tags.nodes, n.ids[v]) /\ \A i \in 1..Len(n.out[v]) : Has(n, tags.edges, n.out[v][i].id)
    BY <1>1, <2>1, <2>5 DEF TagsKept
  <2>7. n.ids[v] \in AllIds(n) /\ \A i \in 1..Len(n.out[v]) : n.out[v][i].id \in AllIds(n)
    BY ImportIs
  <2>8. vs[v].id = n.ids[v]
    BY <2>1 DEF RowOK
  <2> QED
    BY <2>3, <2>4, <2>6, <2>7, <2>8 DEF EdgeRow
<1>5. ASSUME NEW m, MapOK(n, tags.dictionary, m), NEW id \in AllIds(n), Has(n, m, id)
      PROVE  TextOf(m, id) = n.tags[id]
  <2>1. n.tags[id] \in Seq(TagSet(n))
    BY ImportIs
  <2>2. CASE id \in DOMAIN m
    <3>1. TextOK(tags.dictionary, m[id], n.tags[id])
      BY <1>5, <2>2 DEF MapOK
    <3>2. TextOf(m, id) = [i \in DOMAIN n.tags[id] |-> n.tags[id][i]]
      BY <2>2, <3>1 DEF TextOf, TextOK
    <3>3. n.tags[id] = [i \in DOMAIN n.tags[id] |-> n.tags[id][i]]
      BY <2>1, LenProperties
    <3> QED
      BY <3>2, <3>3
  <2>3. CASE id \notin DOMAIN m
    BY <1>5, <2>3 DEF TextOf, Has
  <2> QED
    BY <2>2, <2>3
<1>6. MapOK(n, tags.dictionary, tags.nodes) /\ MapOK(n, tags.dictionary, tags.edges)
  BY DEF TagsOK
<1>7. ASSUME NEW v \in 1..Len(n.ids)
      PROVE  /\ TextOf(tags.nodes, n.ids[v]) = n.tags[n.ids[v]]
             /\ \A i \in DOMAIN n.out[v] : TextOf(tags.edges, n.out[v][i].id) = n.tags[n.out[v][i].id]
  BY <1>4, <1>5, <1>6
<1> QED
  BY <1>3, <1>4, <1>7 DEF GraphIsWhole

\* The lists that the indices are built from have everything once.
LEMMA BuildIsWhole ==
  ASSUME import \in Imports, ConvertedUpTo("finalize")
  PROVE  /\ IsInjective(BuildOf(graph).points) /\ ToSet(BuildOf(graph).points) = DOMAIN graph.vertices
         /\ IsInjective(BuildOf(graph).segments)
         /\ ToSet(BuildOf(graph).segments) =
              UNION {{<<e, i>> : i \in 1..graph.edges[e].line - 1} : e \in DOMAIN graph.edges}
<1> DEFINE es == graph.edges
           n == import
<1>1. es \in Seq(EdgeRows(n))
  BY DEF ConvertedUpTo, Converted, RowsOK
<1>2. Len(es) \in Nat /\ DOMAIN es = 1..Len(es) /\ es \in [1..Len(es) -> EdgeRows(n)]
  BY <1>1, LenProperties
<1>3. HaveLines(es)
  <2>1. \A e \in 1..Len(es) : es[e] \in ToSet(es)
    BY <1>2 DEF ToSet
  <2>2. es \in [1..Len(es) -> ToSet(es)]
    BY <1>2, <2>1
  <2>3. IsList(es)
    BY <1>2, <2>2, SeqDef DEF IsList
  <2>4. \A x \in EdgeRows(n) : x.line \in Nat
    <3>1. \A e \in AllEdges(n) : e.line \in Nat
      BY ImportIs
    <3>2. \A v, e : EdgeRow(v, e).line = e.line
      BY DEF EdgeRow
    <3> QED
      BY <3>1, <3>2 DEF EdgeRows
  <2> QED
    BY <1>2, <2>3, <2>4 DEF HaveLines
<1>4. ListsOnce(SegmentsOf(es), SegmentsIn(es, Len(es)))
  BY <1>3, SegmentsAreListed
<1>5. SegmentsIn(es, Len(es)) = UNION {{<<e, i>> : i \in 1..es[e].line - 1} : e \in DOMAIN es}
  BY <1>2 DEF SegmentsIn
<1>6. /\ IsInjective([v \in DOMAIN graph.vertices |-> v])
      /\ ToSet([v \in DOMAIN graph.vertices |-> v]) = DOMAIN graph.vertices
  BY DEF IsInjective, ToSet
<1>7. BuildOf(graph).points = [v \in DOMAIN graph.vertices |-> v] /\ BuildOf(graph).segments = SegmentsOf(es)
  BY DEF BuildOf
<1> QED
  BY <1>4, <1>5, <1>6, <1>7 DEF ListsOnce

LEMMA FilesInvMeans == FilesInv => FilesAreWhole
<1> SUFFICES ASSUME FilesInv PROVE FilesAreWhole
  OBVIOUS
<1>1. tags.finalized => GraphIsWhole
  BY ConvertedIsWhole DEF FilesInv
<1>2. FinalizedIsComplete
  BY <1>1 DEF FinalizedIsComplete
<1>3. OpenedIsWhole
  <2> SUFFICES ASSUME pc = "done"
               PROVE  /\ GraphIsWhole
                      /\ IsInjective(index.points) /\ ToSet(index.points) = DOMAIN graph.vertices
                      /\ IsInjective(index.segments)
                      /\ ToSet(index.segments) = UNION {{<<e,
                           i>> : i \in 1..graph.edges[e].line - 1} : e \in DOMAIN graph.edges}
    BY DEF OpenedIsWhole
  <2>1. tags.finalized /\ import \in Imports /\ ConvertedUpTo("finalize")
    BY DEF FilesInv
  <2>2. index.points = BuildOf(graph).points /\ index.segments = BuildOf(graph).segments
    BY DEF FilesInv, IndicesOK
  <2> QED
    BY <1>1, <2>1, <2>2, BuildIsWhole
<1> QED
  BY <1>2, <1>3 DEF FilesAreWhole

LEMMA NoTags ==
  ASSUME NEW n
  PROVE  TagsOK(n, EmptyTags) /\ EmptyTags.finalized = FALSE
<1>1. TagsAre(EmptyTags, <<>>, <<>>, <<>>, FALSE)
  BY DEF EmptyTags, TagsAre
<1>2. /\ EmptyTags.dictionary = <<>> /\ EmptyTags.nodes = <<>> /\ EmptyTags.edges = <<>>
      /\ EmptyTags.finalized = FALSE
  BY DEF EmptyTags
<1>3. <<>> \in Seq(TagSet(n)) /\ DOMAIN <<>> = {}
  BY EmptySeq
<1>4. MapOK(n, <<>>, <<>>)
  BY <1>3 DEF MapOK
<1> QED
  BY <1>1, <1>2, <1>3, <1>4 DEF TagsOK

LEMMA EmptyFiles ==
  \A s : /\ EmptyGraph(s) = [size |-> s, used |-> 0, vertices |-> <<>>, edges |-> <<>>]
         /\ EmptyIndex(s) = [size |-> s, points |-> <<>>, segments |-> <<>>]
BY DEF EmptyGraph, EmptyIndex

LEMMA FilledInit == CompressionInit => FilesInv
<1> SUFFICES ASSUME CompressionInit PROVE FilesInv
  OBVIOUS
<1>1. import \in Imports /\ tags = EmptyTags /\ pc = "reserve" /\ at = <<1, 0>>
  BY DEF CompressionInit
<1>2. PICK s \in Sizes : graph = EmptyGraph(s) /\ index = EmptyIndex(s)
  BY DEF CompressionInit
<1>3. GraphRecord /\ IndexRecord /\ graph.vertices = <<>> /\ graph.edges = <<>>
  BY <1>2, EmptyFiles DEF GraphRecord, IndexRecord
<1>4. TagsOK(import, tags) /\ tags.finalized = FALSE
  BY <1>1, NoTags
<1>5. ConvertedUpTo(pc)
  BY <1>1, <1>3, NothingConverted DEF ConvertedUpTo
<1>6. IndicesOK
  BY <1>1 DEF IndicesOK
<1> QED
  BY <1>1, <1>3, <1>4, <1>5, <1>6 DEF FilesInv

\* The graph file is dropped; the tags stay.
LEMMA DroppedKeeps ==
  ASSUME FilesInv, Working, Dropped, TagsOK(import, tags'), tags'.finalized = tags.finalized
  PROVE  FilesInv'
<1>1. /\ import' = import /\ import \in Imports /\ index' = index /\ build' = build
      /\ graph' = EmptyGraph(2 * graph.size) /\ at' = <<1, 0>>
      /\ pc' \in {"gave up", "reserve"}
  BY DEF Dropped, FilesInv
<1>2. GraphRecord' /\ IndexRecord' /\ graph'.vertices = <<>> /\ graph'.edges = <<>>
  BY <1>1, EmptyFiles DEF FilesInv, GraphRecord, IndexRecord
<1>3. ~tags'.finalized
  BY DEF FilesInv
<1>4. Converted(import, tags', <<>>, <<>>, "reserve", <<1, 0>>)
  BY <1>1, NothingConverted
<1>5. pc' = "reserve" => ConvertedUpTo(pc)'
  BY <1>1, <1>2, <1>4 DEF ConvertedUpTo
<1>6. IndicesOK'
  BY <1>1 DEF IndicesOK
<1> QED
  BY <1>1, <1>2, <1>3, <1>5, <1>6 DEF FilesInv, Working

\* Some of the tags are in the dictionary when cloning fails.
LEMMA PartKept ==
  ASSUME FilesInv, NEW id \in AllIds(import), CloneFails(import.tags[id])
  PROVE  TagsOK(import, tags') /\ tags'.finalized = tags.finalized
<1> DEFINE list == import.tags[id]
<1>1. /\ import \in Imports /\ TagsOK(import, tags) /\ tags.dictionary \in Seq(TagSet(import))
      /\ list \in Seq(TagSet(import)) /\ Len(list) \in Nat
  BY ImportIs DEF FilesInv, TagsOK
<1> HIDE DEF list
<1>2. PICK k \in 0..Len(list) :
        tags' = [tags EXCEPT !.dictionary = InternedAll(@, SubSeq(list, 1, k))]
  BY DEF CloneFails, list
<1>3. SubSeq(list, 1, k) \in Seq(TagSet(import))
  <2>1. k \in Int /\ \A i \in 1..k : i \in 1..Len(list)
    BY <1>1
  <2>2. \A i \in 1..k : list[i] \in TagSet(import)
    BY <1>1, <2>1, ElementOfSeq
  <2> QED
    BY <2>1, <2>2, SubSeqProperties
<1> DEFINE d == InternedAll(tags.dictionary, SubSeq(list, 1, k))
<1>4. d \in Seq(TagSet(import)) /\ Longer(tags.dictionary, d)
  BY <1>1, <1>3, InternedAllIs
<1>5. tags' = [tags EXCEPT !.dictionary = d]
  BY <1>2
<1> HIDE DEF d
<1> QED
  BY <1>1, <1>4, <1>5, DictionaryGrows

\* A step of the conversion that goes on.
LEMMA ConversionKeeps ==
  ASSUME FilesInv, Working, import' = import, index' = index, build' = build,
         TagsOK(import, tags'), tags'.finalized = tags.finalized, GraphRecord',
         pc' \in {"vertex", "edge", "finalize"}, ConvertedUpTo(pc)'
  PROVE  FilesInv'
<1>1. ~tags'.finalized
  BY DEF FilesInv
<1>2. import' \in Imports /\ IndexRecord' /\ IndicesOK'
  BY DEF FilesInv, IndexRecord, IndicesOK
<1>3. ConvertedUpTo(pc)' = ConvertedUpTo(pc)'
  OBVIOUS
<1> QED
  BY <1>1, <1>2 DEF FilesInv, Working

LEMMA VertexAt ==
  ASSUME FilesInv, pc = "vertex"
  PROVE  at[1] \in 1..Len(import.ids) /\ import.ids[at[1]] \in AllIds(import)
<1>1. import \in Imports /\ RowsOK(import, graph.vertices, graph.edges, LastOf(import, graph.vertices, pc, at))
  BY DEF FilesInv, Working, ConvertedUpTo, Converted
<1>2. at = <<Len(graph.vertices) + 1, 0>> /\ Len(graph.vertices) < Len(import.ids)
  BY DEF FilesInv, Working, ConvertedUpTo, Converted, AtOK
<1>3. Len(graph.vertices) \in Nat /\ Len(import.ids) \in Nat
  BY <1>1, RowsTyped, ImportIs
<1>4. at[1] = Len(graph.vertices) + 1
  BY <1>2
<1>5. at[1] \in 1..Len(import.ids)
  BY <1>2, <1>3, <1>4
<1> QED
  BY <1>1, <1>5, ImportIs

LEMMA EdgeAt ==
  ASSUME FilesInv, pc = "edge"
  PROVE  /\ at[1] \in 1..Len(import.ids) /\ at[2] \in Nat /\ Len(import.out[at[1]]) \in Nat
         /\ at[2] < Len(import.out[at[1]]) /\ at[2] + 1 \in 1..Len(import.out[at[1]])
         /\ Edge \in AllEdges(import) /\ Edge.id \in AllIds(import)
<1>1. import \in Imports /\ RowsOK(import, graph.vertices, graph.edges, LastOf(import, graph.vertices, pc, at))
  BY DEF FilesInv, Working, ConvertedUpTo, Converted
<1>2. /\ at[1] = Len(graph.vertices) /\ Len(graph.vertices) > 0 /\ at[2] \in Nat
      /\ at[2] < Len(import.out[Len(graph.vertices)])
  BY DEF FilesInv, Working, ConvertedUpTo, Converted, AtOK
<1>3. Len(graph.vertices) \in Nat /\ Len(import.ids) \in Nat /\ Len(graph.vertices) <= Len(import.ids)
  BY <1>1, RowsTyped, ImportIs DEF RowsOK
<1>4. at[1] \in 1..Len(import.ids)
  BY <1>2, <1>3
<1>5. Len(import.out[at[1]]) \in Nat
  BY <1>1, <1>4, ImportIs
<1>6. at[2] < Len(import.out[at[1]])
  BY <1>2
<1>7. at[2] + 1 \in 1..Len(import.out[at[1]])
  BY <1>2, <1>5, <1>6
<1>8. Edge \in AllEdges(import) /\ Edge.id \in AllIds(import)
  BY <1>1, <1>4, <1>7, ImportIs DEF Edge
<1> QED
  BY <1>2, <1>4, <1>5, <1>6, <1>7, <1>8

LEMMA FilledNext == FilesInv /\ [CompressionNext]_vars => FilesInv'
<1> SUFFICES ASSUME FilesInv, [CompressionNext]_vars PROVE FilesInv'
  OBVIOUS
<1> USE DEF vars, prepareVars
<1>0. import \in Imports /\ TagsOK(import, tags)
  BY DEF FilesInv
<1>1. CASE Reserve
  <2>1. /\ pc = "reserve" /\ import' = import /\ at' = at /\ tags' = tags /\ build' = build /\ index' = index
        /\ graph' = [graph EXCEPT !.used = @ + Reserved(import)]
        /\ pc' = IF import.ids = <<>> THEN "finalize" ELSE "vertex"
    BY <1>1 DEF Reserve
  <2>2. GraphRecord' /\ graph'.vertices = graph.vertices /\ graph'.edges = graph.edges
    BY <2>1 DEF FilesInv, GraphRecord
  <2>3. Converted(import, tags, graph.vertices, graph.edges, "reserve", at)
    BY <2>1 DEF FilesInv, Working, ConvertedUpTo
  <2>4. Converted(import, tags, graph.vertices, graph.edges, pc', at)
    BY <1>0, <2>1, <2>3, ReservedConverted
  <2>5. ConvertedUpTo(pc)' /\ pc' \in {"vertex", "edge", "finalize"}
    BY <2>1, <2>2, <2>4 DEF ConvertedUpTo
  <2> QED
    BY <1>0, <2>1, <2>2, <2>5, ConversionKeeps DEF Working
<1>2. CASE ReserveFails
  <2>1. pc = "reserve" /\ Dropped /\ tags' = tags
    BY <1>2 DEF ReserveFails
  <2> QED
    BY <1>0, <2>1, DroppedKeeps DEF Working
<1>3. CASE ConvertVertex
  <2> DEFINE v == at[1]
             ws == AddVertex(import)
  <2>1. /\ pc = "vertex" /\ import' = import /\ build' = build /\ index' = index
        /\ tags' = Cloned(tags, "nodes", import.ids[v], import.tags[import.ids[v]])
        /\ graph' = [graph EXCEPT !.vertices = ws]
        /\ IF import.out[v] # <<>> THEN at' = at /\ pc' = "edge" ELSE NextVertex
    BY <1>3 DEF ConvertVertex, VertexTags
  <2>2. GraphRecord' /\ graph'.vertices = ws /\ graph'.edges = graph.edges
    BY <2>1 DEF FilesInv, GraphRecord
  <2>3. Converted(import, tags, graph.vertices, graph.edges, "vertex", at)
    BY <2>1 DEF FilesInv, Working, ConvertedUpTo
  <2>4. ws = Append(graph.vertices, VertexRow(import.ids[v], Len(graph.edges)))
    BY DEF AddVertex
  <2> HIDE DEF ws
  <2>5. /\ TagsOK(import, tags') /\ tags'.finalized = tags.finalized
        /\ import.out[v] # <<>> => Converted(import, tags', ws, graph.edges, "edge", at)
        /\ import.out[v] = <<>> /\ v < Len(import.ids) => Converted(import, tags', ws, graph.edges,
             "vertex", <<v + 1, 0>>)
        /\ import.out[v] = <<>> /\ ~(v < Len(import.ids)) => Converted(import, tags', ws, graph.edges, "finalize", at)
    <3>1. AddsVertex(import, tags, tags', graph.vertices, ws, graph.edges, at)
      BY <1>0, <2>1, <2>3, <2>4 DEF AddsVertex
    <3>2. VertexAdded(import, tags, tags', ws, graph.edges, at)
      BY <3>1, VertexConverted
    <3> QED
      BY <3>2 DEF VertexAdded
  <2>6. Converted(import, tags', ws, graph.edges, pc', at') /\ pc' \in {"vertex", "edge", "finalize"}
    BY <2>1, <2>5 DEF NextVertex
  <2>7. ConvertedUpTo(pc)'
    BY <2>1, <2>2, <2>6 DEF ConvertedUpTo
  <2> QED
    BY <2>1, <2>2, <2>5, <2>6, <2>7, ConversionKeeps DEF Working
<1>4. CASE ConvertVertexFails
  <2>1. pc = "vertex" /\ CloneFails(import.tags[import.ids[at[1]]]) /\ Dropped
    BY <1>4 DEF ConvertVertexFails, VertexTags, CloneFails
  <2>2. TagsOK(import, tags') /\ tags'.finalized = tags.finalized
    BY <2>1, VertexAt, PartKept
  <2> QED
    BY <2>1, <2>2, DroppedKeeps DEF Working
<1>5. CASE ConvertEdge
  <2> DEFINE v == at[1]
             fs == Append(graph.edges, EdgeRow(v, Edge))
  <2>1. /\ pc = "edge" /\ import' = import /\ build' = build /\ index' = index
        /\ tags' = Cloned(tags, "edges", Edge.id, import.tags[Edge.id])
        /\ graph' = [graph EXCEPT !.used = @ + Edge.line, !.edges = fs]
        /\ IF at[2] + 1 < Len(import.out[v]) THEN at' = <<v, at[2] + 1>> /\ pc' = "edge" ELSE NextVertex
    BY <1>5 DEF ConvertEdge
  <2> HIDE DEF fs
  <2>2. GraphRecord' /\ graph'.vertices = graph.vertices /\ graph'.edges = fs
    BY <2>1 DEF FilesInv, GraphRecord
  <2>3. Converted(import, tags, graph.vertices, graph.edges, "edge", at)
    BY <2>1 DEF FilesInv, Working, ConvertedUpTo
  <2>4. Edge = import.out[at[1]][at[2] + 1] /\ fs = Append(graph.edges, EdgeRow(v, Edge))
    BY DEF Edge, fs
  <2>5. /\ TagsOK(import, tags') /\ tags'.finalized = tags.finalized
        /\ at[2] + 1 < Len(import.out[v]) => Converted(import, tags', graph.vertices, fs, "edge", <<v, at[2] + 1>>)
        /\ ~(at[2] + 1 < Len(import.out[v])) /\ v < Len(import.ids) => Converted(import, tags',
             graph.vertices, fs, "vertex", <<v + 1, 0>>)
        /\ ~(at[2] + 1 < Len(import.out[v])) /\ ~(v < Len(import.ids)) => Converted(import, tags',
             graph.vertices, fs, "finalize", at)
    <3>1. AddsEdge(import, tags, tags', graph.vertices, graph.edges, fs, at, Edge)
      BY <1>0, <2>1, <2>3, <2>4 DEF AddsEdge
    <3>2. EdgeAdded(import, tags, tags', graph.vertices, fs, at)
      BY <3>1, EdgeConverted
    <3> QED
      BY <3>2 DEF EdgeAdded
  <2>6. Converted(import, tags', graph.vertices, fs, pc', at') /\ pc' \in {"vertex", "edge", "finalize"}
    BY <2>1, <2>5 DEF NextVertex
  <2>7. ConvertedUpTo(pc)'
    BY <2>1, <2>2, <2>6 DEF ConvertedUpTo
  <2> QED
    BY <2>1, <2>2, <2>5, <2>6, <2>7, ConversionKeeps DEF Working
<1>6. CASE ConvertEdgeFails
  <2>1. pc = "edge" /\ CloneFails(import.tags[Edge.id]) /\ Dropped
    BY <1>6 DEF ConvertEdgeFails, CloneFails
  <2>2. TagsOK(import, tags') /\ tags'.finalized = tags.finalized
    BY <2>1, EdgeAt, PartKept
  <2> QED
    BY <2>1, <2>2, DroppedKeeps DEF Working
<1>7. CASE LineFails
  <2>1. pc = "edge" /\ Dropped /\ tags' = Cloned(tags, "edges", Edge.id, import.tags[Edge.id])
    BY <1>7 DEF LineFails
  <2>2. Edge.id \in AllIds(import)
    BY <2>1, EdgeAt
  <2>3. TagsOK(import, tags') /\ tags'.finalized = tags.finalized
    BY <1>0, <2>1, <2>2, ClonedIs
  <2> QED
    BY <2>1, <2>3, DroppedKeeps DEF Working
<1>8. CASE Finalize
  <2>1. /\ pc = "finalize" /\ import' = import /\ at' = at /\ graph' = graph /\ build' = build /\ index' = index
        /\ tags' = [tags EXCEPT !.finalized = TRUE] /\ pc' = "list"
    BY <1>8 DEF Finalize
  <2>2. TagsAre(tags', tags.dictionary, tags.nodes, tags.edges, TRUE)
    BY <1>0, <2>1 DEF TagsOK, TagsAre
  <2>3. /\ tags'.dictionary = tags.dictionary /\ tags'.nodes = tags.nodes
        /\ tags'.edges = tags.edges /\ tags'.finalized = TRUE
    BY <2>2 DEF TagsAre
  <2>4. TagsOK(import, tags')
    BY <1>0, <2>2, <2>3 DEF TagsOK
  <2>5. Converted(import, tags, graph.vertices, graph.edges, "finalize", at)
    BY <2>1 DEF FilesInv, Working, ConvertedUpTo
  <2>6. Converted(import, tags', graph.vertices, graph.edges, "finalize", at)
    BY <2>3, <2>5 DEF Converted, TagsKept, Has
  <2>7. ConvertedUpTo("finalize")'
    BY <2>1, <2>6 DEF ConvertedUpTo
  <2>8. GraphRecord' /\ IndexRecord' /\ IndicesOK' /\ ~Working'
    BY <2>1 DEF FilesInv, GraphRecord, IndexRecord, IndicesOK, Working
  <2> QED
    BY <1>0, <2>1, <2>3, <2>4, <2>7, <2>8 DEF FilesInv
<1>9. CASE ListAll
  <2>1. /\ pc = "list" /\ import' = import /\ at' = at /\ graph' = graph /\ tags' = tags /\ index' = index
        /\ build' = BuildOf(graph) /\ pc' = "points"
    BY <1>9 DEF ListAll, BuildOf
  <2>2. /\ GraphRecord'
        /\ IndexRecord'
        /\ IndicesOK'
        /\ ~Working'
        /\ ConvertedUpTo("finalize")' = ConvertedUpTo("finalize")
    BY <2>1 DEF FilesInv, GraphRecord, IndexRecord, IndicesOK, Working, ConvertedUpTo
  <2> QED
    BY <1>0, <2>1, <2>2 DEF FilesInv
<1>10. CASE ListFails
  <2>1. /\ import' = import /\ at' = at /\ graph' = graph /\ tags' = tags /\ index' = index /\ pc' = "unwound"
    BY <1>10 DEF ListFails
  <2>2. /\ GraphRecord'
        /\ IndexRecord'
        /\ IndicesOK'
        /\ ~Working'
        /\ ConvertedUpTo("finalize")' = ConvertedUpTo("finalize")
    BY <2>1 DEF FilesInv, GraphRecord, IndexRecord, IndicesOK, Working, ConvertedUpTo
  <2> QED
    BY <1>0, <2>1, <2>2 DEF FilesInv
<1>11. CASE BuildPointsIndex
  <2>1. /\ pc = "points" /\ import' = import /\ at' = at /\ graph' = graph /\ tags' = tags /\ build' = build
        /\ index' = [index EXCEPT !.points = build.points] /\ pc' = "segments"
    BY <1>11 DEF BuildPointsIndex
  <2>2. IndexRecord' /\ index'.points = build.points
    BY <2>1 DEF FilesInv, IndexRecord
  <2>3. GraphRecord' /\ IndicesOK' /\ ~Working' /\ ConvertedUpTo("finalize")' = ConvertedUpTo("finalize")
    BY <2>1, <2>2 DEF FilesInv, GraphRecord, IndicesOK, Working, ConvertedUpTo
  <2> QED
    BY <1>0, <2>1, <2>2, <2>3 DEF FilesInv
<1>12. CASE BuildSegmentsIndex
  <2>1. /\ pc = "segments" /\ import' = import /\ at' = at /\ graph' = graph /\ tags' = tags /\ build' = build
        /\ index' = [index EXCEPT !.segments = build.segments] /\ pc' = "done"
    BY <1>12 DEF BuildSegmentsIndex
  <2>2. IndexRecord' /\ index'.segments = build.segments /\ index'.points = index.points
    BY <2>1 DEF FilesInv, IndexRecord
  <2>3. GraphRecord' /\ IndicesOK' /\ ~Working' /\ ConvertedUpTo("finalize")' = ConvertedUpTo("finalize")
    BY <2>1, <2>2 DEF FilesInv, GraphRecord, IndicesOK, Working, ConvertedUpTo
  <2> QED
    BY <1>0, <2>1, <2>2, <2>3 DEF FilesInv
<1>13. CASE IndexFails
  <2>1. /\ pc \in {"points", "segments"} /\ import' = import /\ at' = at /\ graph' = graph /\ tags' = tags
        /\ build' = build /\ index' = EmptyIndex(2 * index.size) /\ pc' \in {"index gave up", "points"}
    BY <1>13 DEF IndexFails
  <2>2. IndexRecord'
    BY <2>1, EmptyFiles DEF IndexRecord
  <2>3. GraphRecord' /\ IndicesOK' /\ ~Working' /\ ConvertedUpTo("finalize")' = ConvertedUpTo("finalize")
    BY <2>1 DEF FilesInv, GraphRecord, IndicesOK, Working, ConvertedUpTo
  <2> QED
    BY <1>0, <2>1, <2>2, <2>3 DEF FilesInv
<1>14. CASE Die
  <2>1. /\ import' = import /\ at' = at /\ graph' = graph /\ tags' = tags /\ index' = index /\ pc' = "died"
    BY <1>14 DEF Die
  <2>2. /\ GraphRecord'
        /\ IndexRecord'
        /\ IndicesOK'
        /\ ~Working'
        /\ ConvertedUpTo("finalize")' = ConvertedUpTo("finalize")
    BY <2>1 DEF FilesInv, GraphRecord, IndexRecord, IndicesOK, Working, ConvertedUpTo
  <2> QED
    BY <1>0, <2>1, <2>2 DEF FilesInv
<1>15. CASE UNCHANGED vars
  BY <1>15 DEF FilesInv, GraphRecord, IndexRecord, IndicesOK, Working, ConvertedUpTo
<1> QED
  BY <1>1, <1>2, <1>3, <1>4, <1>5, <1>6, <1>7, <1>8, <1>9, <1>10, <1>11, <1>12, <1>13, <1>14, <1>15
     DEF CompressionNext

\* Wherever prepare ends, dies or gives up: a tag file that says it is finalized stands
\* beside a graph with every vertex, edge and tag of the import, and when prepare ends
\* well both indices have each vertex and segment once
\* (src/src/library/include/graph/compressed_sparse_row.hpp).
THEOREM FilesWhole == CompressionSpec => []FilesAreWhole
<1>1. CompressionSpec => []FilesInv
  BY FilledInit, FilledNext, PTL DEF CompressionSpec
<1> QED
  BY <1>1, FilesInvMeans, PTL

-----------------------------------------------------------------------------
(* The number of tries.                                                    *)

LEMMA PowerIs ==
  /\ Power[0] = 1
  /\ \A k \in Nat : Power[k] \in Nat /\ Power[k] > 0 /\ Power[k + 1] = 2 * Power[k]
<1> DEFINE step == [x \in Nat \X Nat |-> 2 * x[2]]
           F(g) == [k \in Nat |-> IF k = 0 THEN 1 ELSE 2 * g[k - 1]]
<1>1. step \in [Nat \X Nat -> Nat] /\ 1 \in Nat
  OBVIOUS
<1>2. PICK g : NatSteps(g, Nat, 1, step)
  <2> HIDE DEF step
  <2> QED
    BY <1>1, NatRecursion
<1>3. ASSUME NEW n \in Nat PROVE g[n + 1] = 2 * g[n]
  <2>1. <<n + 1, g[n]>> \in Nat \X Nat
    BY <1>2 DEF NatSteps
  <2>2. step[<<n + 1, g[n]>>] = 2 * g[n]
    BY <2>1
  <2> HIDE DEF step
  <2> QED
    BY <1>2, <2>2 DEF NatSteps
<1>4. g = F(g)
  <2>1. ASSUME NEW n \in Nat PROVE g[n] = F(g)[n]
    <3>1. F(g)[n] = IF n = 0 THEN 1 ELSE 2 * g[n - 1]
      OBVIOUS
    <3>2. n # 0 => n - 1 \in Nat /\ (n - 1) + 1 = n
      OBVIOUS
    <3> HIDE DEF F
    <3> QED
      BY <1>2, <1>3, <3>1, <3>2 DEF NatSteps
  <2>2. F(g) = [n \in Nat |-> F(g)[n]]
    OBVIOUS
  <2>3. g = [n \in Nat |-> g[n]]
    BY <1>2 DEF NatSteps
  <2> HIDE DEF F
  <2> QED
    BY <2>1, <2>2, <2>3
<1>5. Power = F(Power)
  <2> DEFINE rec == CHOOSE h : h = F(h)
  <2>1. rec = F(rec)
    <3> HIDE DEF F
    <3> QED
      BY <1>4
  <2>2. Power = rec
    BY DEF Power
  <2> HIDE DEF rec, F
  <2> QED
    BY <2>1, <2>2
<1>6. \A k \in Nat : Power[k] = IF k = 0 THEN 1 ELSE 2 * Power[k - 1]
  BY <1>5
<1> HIDE DEF F
<1>7. Power[0] = 1 /\ \A k \in Nat : Power[k + 1] = 2 * Power[k]
  <2>1. \A k \in Nat : k + 1 \in Nat /\ k + 1 # 0 /\ (k + 1) - 1 = k
    OBVIOUS
  <2>2. 0 \in Nat
    OBVIOUS
  <2> QED
    BY <1>6, <2>1, <2>2
<1> DEFINE T == {k \in Nat : Power[k] \in Nat /\ Power[k] > 0}
<1>8. 0 \in T /\ \A k \in T : k + 1 \in T
  BY <1>7
<1>9. T = Nat
  <2>1. T \in SUBSET Nat
    OBVIOUS
  <2> HIDE DEF T
  <2> QED
    BY <1>8, <2>1, Induction
<1> HIDE DEF T
<1>10. \A k \in Nat : Power[k] \in Nat /\ Power[k] > 0
  BY <1>9 DEF T
<1> QED
  BY <1>7, <1>10

IsLog(n, k) == Power[k] <= n /\ n < Power[k + 1]

LEMMA Log2Is ==
  ASSUME NEW n \in Nat, n > 0
  PROVE  Log2(n) \in Nat /\ IsLog(n, Log2(n))
<1> DEFINE T == {m \in Nat : m > 0 => \E k \in 0..m : IsLog(m, k)}
<1>1. 0 \in T
  OBVIOUS
<1>2. ASSUME NEW m \in T PROVE m + 1 \in T
  <2>1. CASE m = 0
    <3>1. IsLog(1, 0)
      <4>1. Power[0] = 1 /\ Power[0 + 1] = 2 * Power[0]
        BY PowerIs
      <4> QED
        BY <4>1 DEF IsLog
    <3> QED
      BY <2>1, <3>1
  <2>2. CASE m > 0
    <3>1. PICK k \in 0..m : IsLog(m, k)
      BY <2>2
    <3>2. /\ k \in Nat /\ k + 1 \in Nat /\ Power[k] \in Nat /\ Power[k + 1] \in Nat
          /\ Power[k + 1] > 0 /\ Power[(k + 1) + 1] = 2 * Power[k + 1]
      BY PowerIs
    <3>3. CASE m + 1 < Power[k + 1]
      <4>1. IsLog(m + 1, k) /\ k \in 0..(m + 1)
        BY <3>1, <3>2, <3>3 DEF IsLog
      <4> QED
        BY <4>1
    <3>4. CASE ~(m + 1 < Power[k + 1])
      <4>1. IsLog(m + 1, k + 1) /\ k + 1 \in 0..(m + 1)
        BY <3>1, <3>2, <3>4 DEF IsLog
      <4> QED
        BY <4>1
    <3> QED
      BY <3>3, <3>4
  <2> QED
    BY <2>1, <2>2
<1>3. T = Nat
  <2>1. T \in SUBSET Nat
    OBVIOUS
  <2> HIDE DEF T
  <2> QED
    BY <1>1, <1>2, <2>1, Induction
<1>4. \E k \in 0..n : IsLog(n, k)
  BY <1>3
<1>5. Log2(n) \in 0..n /\ IsLog(n, Log2(n))
  BY <1>4 DEF Log2, IsLog
<1> QED
  BY <1>5

\* The file has grown so many times, and may grow as often as max_retries said.
GrownBy(s, size, try, most, available) ==
    size = s * Power[try] /\ try \in Nat /\ most \in MaxRetries(available, s) /\ try <= most

\* When no try is left, what does not fit has more than half of what was available.
LEMMA NoTryLeft ==
  ASSUME NEW s \in Nat \ {0}, NEW size, NEW try, NEW most, NEW available \in Nat,
         GrownBy(s, size, try, most, available)
  PROVE  /\ size \in Nat
         /\ try + 1 > most => \A need \in Nat : need > size => 2 * need > available
         /\ ~(try + 1 > most) => GrownBy(s, 2 * size, try + 1, most, available)
<1> DEFINE q == available \div s
<1>1. try \in Nat /\ Power[try] \in Nat /\ Power[try] > 0 /\ Power[try + 1] = 2 * Power[try] /\ size = s * Power[try]
  BY PowerIs DEF GrownBy
<1>2. q \in Nat /\ available < s * (q + 1) /\ (~(q > 0) => available < s)
  OBVIOUS
<1>3. size \in Nat /\ s * 1 <= size
  <2> DEFINE p == Power[try]
  <2>1. p \in Nat /\ 1 <= p /\ size = s * p
    BY <1>1
  <2> HIDE DEF p
  <2> QED
    BY <2>1
<1>4. most \in Nat /\ try <= most /\ (q > 0 => most = Log2(q))
  <2>1. most \in (IF q > 0 THEN {Log2(q)} ELSE {0, ManyRetries}) /\ try <= most
    BY DEF GrownBy, MaxRetries
  <2>2. q > 0 => Log2(q) \in Nat
    BY <1>2, Log2Is
  <2> HIDE DEF q
  <2> QED
    BY <2>1, <2>2, CompressionAssumption
<1> HIDE DEF q
<1>5. ASSUME try + 1 > most, NEW need \in Nat, need > size PROVE 2 * need > available
  <2>1. CASE q > 0
    <3>1. try = Log2(q)
      <4>1. try \in Nat /\ try <= most /\ most = Log2(q) /\ most \in Nat
        BY <1>1, <1>4, <2>1
      <4> HIDE DEF IsLog
      <4>2. try = most
        BY <1>5, <4>1
      <4> QED
        BY <4>1, <4>2
    <3>2. q < Power[try + 1]
      BY <1>2, <2>1, <3>1, Log2Is DEF IsLog
    <3> DEFINE p == Power[try]
    <3>3. p \in Nat /\ q + 1 <= 2 * p /\ size = s * p
      BY <1>1, <1>2, <3>2
    <3> HIDE DEF p
    <3>4. s * (q + 1) <= s * (2 * p) /\ s * (2 * p) = 2 * (s * p)
      BY <1>2, <3>3
    <3>5. available < 2 * size
      BY <1>2, <1>3, <3>3, <3>4
    <3> QED
      BY <1>3, <1>5, <3>5
  <2>2. CASE ~(q > 0)
    BY <1>2, <1>3, <1>5, <2>2
  <2> QED
    BY <2>1, <2>2
<1>6. ASSUME ~(try + 1 > most) PROVE GrownBy(s, 2 * size, try + 1, most, available)
  <2>1. try + 1 \in Nat /\ try + 1 <= most
    BY <1>1, <1>4, <1>6
  <2>2. 2 * size = s * Power[try + 1]
    <3> DEFINE p == Power[try]
    <3>1. p \in Nat /\ size = s * p /\ Power[try + 1] = 2 * p
      BY <1>1
    <3> HIDE DEF p
    <3>2. s * (2 * p) = 2 * (s * p)
      BY <3>1
    <3> QED
      BY <3>1, <3>2
  <2> QED
    BY <2>1, <2>2 DEF GrownBy
<1> QED
  BY <1>3, <1>5, <1>6

-----------------------------------------------------------------------------
(* What is used of the graph file.                                         *)

LEMMA TotalIsSum == \A s : Total(s) = SumOf(s)
BY DEF Total, SumOf

LinesOf(n, v) == Total(LineSizes(n.out[v]))
AllLines(n) == [v \in 1..Len(n.ids) |-> LinesOf(n, v)]
LinesBefore(n, v) == Total([w \in 1..v |-> LinesOf(n, w)])
LinesUpTo(n, v, i) == Total([k \in 1..i |-> n.out[v][k].line])

\* The lines of all edges of the vertices before v, and of i of its own.
UsedAt(n, v, i) == Reserved(n) + LinesBefore(n, v - 1) + LinesUpTo(n, v, i)

LEMMA NoSum == \A f : f \in [1..0 -> Nat] => Total(f) = 0
<1> SUFFICES ASSUME NEW f \in [1..0 -> Nat] PROVE Total(f) = 0
  OBVIOUS
<1>1. f \in Seq(Nat)
  BY SeqDef
<1>2. Len(f) = 0
  BY <1>1, LenProperties
<1> QED
  BY <1>1, <1>2, SumIsNat, TotalIsSum

LEMMA LinesAre ==
  ASSUME NEW n \in Imports, NEW v \in 1..Len(n.ids)
  PROVE  /\ Len(n.out[v]) \in Nat /\ v \in Nat
         /\ LineSizes(n.out[v]) \in [1..Len(n.out[v]) -> Nat]
         /\ \A k \in 1..Len(n.out[v]) : LineSizes(n.out[v])[k] = n.out[v][k].line /\ n.out[v][k].line \in Nat
         /\ LinesOf(n, v) \in Nat
<1>1. /\ Len(n.out[v]) \in Nat /\ v \in Nat
      /\ \A k \in 1..Len(n.out[v]) : n.out[v][k].line \in Nat
  <2>1. Len(n.out[v]) \in Nat /\ \A k \in 1..Len(n.out[v]) : n.out[v][k] \in AllEdges(n)
    BY ImportIs
  <2>2. \A e \in AllEdges(n) : e.line \in Nat
    BY ImportIs
  <2>3. v \in Nat
    BY ImportIs
  <2> QED
    BY <2>1, <2>2, <2>3
<1>2. /\ LineSizes(n.out[v]) \in [1..Len(n.out[v]) -> Nat]
      /\ \A k \in 1..Len(n.out[v]) : LineSizes(n.out[v])[k] = n.out[v][k].line
  BY <1>1 DEF LineSizes
<1>3. LineSizes(n.out[v]) \in Seq(Nat)
  BY <1>1, <1>2, SeqDef
<1>4. LinesOf(n, v) \in Nat
  BY <1>3, SumIsNat, TotalIsSum DEF LinesOf
<1> QED
  BY <1>1, <1>2, <1>4

LEMMA ReservedIs ==
  ASSUME NEW n \in Imports
  PROVE  /\ Reserved(n) \in Nat /\ Len(n.ids) \in Nat
         /\ AllLines(n) \in [1..Len(n.ids) -> Nat]
         /\ Needed(n) = Reserved(n) + Total(AllLines(n)) /\ Total(AllLines(n)) \in Nat
<1>1. Len(n.ids) \in Nat /\ \A v \in 1..Len(n.ids) : Len(n.out[v]) \in Nat
  BY ImportIs
<1> DEFINE sizes == [v \in 1..Len(n.ids) |-> Len(n.out[v])]
<1>2. sizes \in [1..Len(n.ids) -> Nat]
  BY <1>1
<1>3. AllLines(n) \in [1..Len(n.ids) -> Nat]
  BY LinesAre DEF AllLines
<1>4. sizes \in Seq(Nat) /\ AllLines(n) \in Seq(Nat)
  BY <1>1, <1>2, <1>3, SeqDef
<1>5. Total(sizes) \in Nat /\ Total(AllLines(n)) \in Nat
  <2> HIDE DEF sizes
  <2> QED
    BY <1>4, SumIsNat, TotalIsSum
<1>6. Reserved(n) = Len(n.ids) + Total(sizes)
  BY DEF Reserved
<1>7. Needed(n) = Reserved(n) + Total(AllLines(n))
  BY DEF Needed, AllLines, LinesOf
<1> HIDE DEF sizes
<1> QED
  BY <1>1, <1>3, <1>5, <1>6, <1>7

LEMMA BeforeIs ==
  ASSUME NEW n \in Imports, NEW v \in 0..Len(n.ids)
  PROVE  /\ LinesBefore(n, v) \in Nat /\ LinesBefore(n, v) <= Total(AllLines(n))
         /\ v < Len(n.ids) => LinesBefore(n, v + 1) = LinesBefore(n, v) + LinesOf(n, v + 1)
<1> DEFINE all == AllLines(n)
           N == Len(n.ids)
           first(m) == [w \in 1..m |-> LinesOf(n, w)]
<1>1. N \in Nat /\ all \in [1..N -> Nat] /\ v \in Nat
  BY ReservedIs
<1>2. \A w \in 1..N : all[w] = LinesOf(n, w) /\ LinesOf(n, w) \in Nat
  BY LinesAre DEF AllLines
<1>3. [w \in 1..v |-> all[w]] = first(v)
  BY <1>1, <1>2
<1> HIDE DEF all
<1>4. Total(first(v)) \in Nat /\ Total(first(v)) <= Total(all)
  <2>1. SumOf([w \in 1..v |-> all[w]]) \in Nat /\ SumOf([w \in 1..v |-> all[w]]) <= SumOf(all)
    <3> HIDE DEF N
    <3> QED
      BY <1>1, SumOfPart DEF N
  <2> HIDE DEF first
  <2> QED
    BY <1>3, <2>1, TotalIsSum
<1>5. ASSUME v < N PROVE Total(first(v + 1)) = Total(first(v)) + LinesOf(n, v + 1)
  <2>1. \A w \in 1..(v + 1) : w \in 1..N
    BY <1>1, <1>5
  <2>2. first(v + 1) \in [1..(v + 1) -> Nat] /\ first(v) \in [1..v -> Nat]
    BY <1>1, <1>2, <2>1
  <2>3. v + 1 \in 1..(v + 1) /\ first(v + 1)[v + 1] = LinesOf(n, v + 1) /\ \A w \in 1..v : first(v)[w] = first(v + 1)[w]
    BY <1>1
  <2> HIDE DEF first
  <2>4. SumOf(first(v + 1)) = SumOf(first(v)) + first(v + 1)[v + 1]
    BY <1>1, <2>2, <2>3, SumLonger
  <2> QED
    BY <2>3, <2>4, TotalIsSum
<1> QED
  BY <1>4, <1>5 DEF LinesBefore, all

LEMMA UpToIs ==
  ASSUME NEW n \in Imports, NEW v \in 1..Len(n.ids), NEW i \in 0..Len(n.out[v])
  PROVE  /\ LinesUpTo(n, v, i) \in Nat /\ LinesUpTo(n, v, i) <= LinesOf(n, v)
         /\ LinesUpTo(n, v, Len(n.out[v])) = LinesOf(n, v)
         /\ i < Len(n.out[v]) => LinesUpTo(n, v, i + 1) = LinesUpTo(n, v, i) + n.out[v][i + 1].line
<1> DEFINE all == LineSizes(n.out[v])
           N == Len(n.out[v])
           first(m) == [k \in 1..m |-> n.out[v][k].line]
<1>1. /\ N \in Nat /\ all \in [1..N -> Nat] /\ i \in Nat
      /\ \A k \in 1..N : all[k] = n.out[v][k].line /\ n.out[v][k].line \in Nat
  <2> HIDE DEF all
  <2>1. /\ N \in Nat /\ all \in [1..N -> Nat]
        /\ \A k \in 1..N : all[k] = n.out[v][k].line /\ n.out[v][k].line \in Nat
    BY LinesAre DEF all
  <2>2. i \in Nat
    BY <2>1
  <2> QED
    BY <2>1, <2>2
<1>2. [k \in 1..i |-> all[k]] = first(i)
  BY <1>1
<1>3. first(N) = all
  BY <1>1
<1> HIDE DEF all
<1>4. Total(first(i)) \in Nat /\ Total(first(i)) <= Total(all)
  <2>1. SumOf([k \in 1..i |-> all[k]]) \in Nat /\ SumOf([k \in 1..i |-> all[k]]) <= SumOf(all)
    <3>1. i \in 0..N
      OBVIOUS
    <3> HIDE DEF N
    <3> QED
      BY <1>1, <3>1, SumOfPart
  <2> HIDE DEF first
  <2> QED
    BY <1>2, <2>1, TotalIsSum
<1>5. ASSUME i < N PROVE Total(first(i + 1)) = Total(first(i)) + n.out[v][i + 1].line
  <2>1. \A k \in 1..(i + 1) : k \in 1..N
    BY <1>1, <1>5
  <2>2. first(i + 1) \in [1..(i + 1) -> Nat] /\ first(i) \in [1..i -> Nat]
    BY <1>1, <2>1
  <2>3. i + 1 \in 1..(i + 1) /\ first(i + 1)[i + 1] =
            n.out[v][i + 1].line /\ \A k \in 1..i : first(i)[k] = first(i + 1)[k]
    BY <1>1
  <2> HIDE DEF first
  <2>4. SumOf(first(i + 1)) = SumOf(first(i)) + first(i + 1)[i + 1]
    BY <1>1, <2>2, <2>3, SumLonger
  <2> QED
    BY <2>3, <2>4, TotalIsSum
<1> QED
  BY <1>3, <1>4, <1>5 DEF LinesUpTo, LinesOf, all

LEMMA FirstUsed ==
  ASSUME NEW n \in Imports
  PROVE  UsedAt(n, 1, 0) = Reserved(n)
<1>1. LinesBefore(n, 1 - 1) = 0
  <2>1. [w \in 1..(1 - 1) |-> LinesOf(n, w)] \in [1..0 -> Nat]
    OBVIOUS
  <2> QED
    BY <2>1, NoSum DEF LinesBefore
<1>2. LinesUpTo(n, 1, 0) = 0
  <2>1. [k \in 1..0 |-> n.out[1][k].line] \in [1..0 -> Nat]
    OBVIOUS
  <2> QED
    BY <2>1, NoSum DEF LinesUpTo
<1> QED
  BY <1>1, <1>2, ReservedIs DEF UsedAt

LEMMA UsedIs ==
  ASSUME NEW n \in Imports, NEW v \in 1..Len(n.ids), NEW i \in 0..Len(n.out[v])
  PROVE  /\ UsedAt(n, v, i) \in Nat /\ Needed(n) \in Nat /\ UsedAt(n, v, i) <= Needed(n)
         /\ i < Len(n.out[v]) => UsedAt(n, v, i + 1) = UsedAt(n, v, i) + n.out[v][i + 1].line
         /\ UsedAt(n, v, Len(n.out[v])) = UsedAt(n, v + 1, 0)
<1>1. /\ Reserved(n) \in Nat /\ Len(n.ids) \in Nat /\ Total(AllLines(n)) \in Nat
      /\ Needed(n) = Reserved(n) + Total(AllLines(n))
  BY ReservedIs
<1>2. v - 1 \in 0..Len(n.ids) /\ v \in 0..Len(n.ids) /\ v - 1 < Len(n.ids) /\ (v - 1) + 1 = v /\ (v + 1) - 1 = v
  BY <1>1
<1>3. /\ LinesBefore(n, v - 1) \in Nat /\ LinesBefore(n, v) \in Nat
      /\ LinesBefore(n, v) <= Total(AllLines(n))
      /\ LinesBefore(n, v) = LinesBefore(n, v - 1) + LinesOf(n, v)
  <2>1. LinesBefore(n, (v - 1) + 1) = LinesBefore(n, v - 1) + LinesOf(n, (v - 1) + 1) /\ LinesBefore(n, v - 1) \in Nat
    BY <1>2, BeforeIs
  <2>2. LinesBefore(n, v) \in Nat /\ LinesBefore(n, v) <= Total(AllLines(n))
    BY <1>2, BeforeIs
  <2> QED
    BY <1>2, <2>1, <2>2
<1>4. /\ LinesUpTo(n, v, i) \in Nat /\ LinesUpTo(n, v, i) <= LinesOf(n, v)
      /\ LinesUpTo(n, v, Len(n.out[v])) = LinesOf(n, v)
      /\ i < Len(n.out[v]) => LinesUpTo(n, v, i + 1) = LinesUpTo(n, v, i) + n.out[v][i + 1].line
  BY UpToIs
<1>5. LinesOf(n, v) \in Nat /\ \A k \in 1..Len(n.out[v]) : n.out[v][k].line \in Nat
  BY LinesAre
<1>6. LinesUpTo(n, v + 1, 0) = 0
  <2>1. [k \in 1..0 |-> n.out[v + 1][k].line] \in [1..0 -> Nat]
    OBVIOUS
  <2> QED
    BY <2>1, NoSum DEF LinesUpTo
<1>7. i < Len(n.out[v]) => UsedAt(n, v, i + 1) = UsedAt(n, v, i) + n.out[v][i + 1].line
  <2> SUFFICES ASSUME i < Len(n.out[v])
               PROVE  UsedAt(n, v, i + 1) = UsedAt(n, v, i) + n.out[v][i + 1].line
    OBVIOUS
  <2>1. i + 1 \in 1..Len(n.out[v])
    BY LinesAre
  <2>2. n.out[v][i + 1].line \in Nat
    BY <1>5, <2>1
  <2>3. LinesUpTo(n, v, i + 1) = LinesUpTo(n, v, i) + n.out[v][i + 1].line
    BY <1>4
  <2> DEFINE line == n.out[v][i + 1].line
             before == LinesBefore(n, v - 1)
  <2>4. /\ UsedAt(n, v, i + 1) = Reserved(n) + before + LinesUpTo(n, v, i + 1)
        /\ UsedAt(n, v, i) = Reserved(n) + before + LinesUpTo(n, v, i)
    BY DEF UsedAt
  <2>5. before \in Nat /\ line \in Nat /\ LinesUpTo(n, v, i + 1) = LinesUpTo(n, v, i) + line
    BY <1>3, <2>2, <2>3
  <2> HIDE DEF line, before
  <2>6. UsedAt(n, v, i + 1) = UsedAt(n, v, i) + line
    BY <1>1, <1>4, <2>4, <2>5
  <2> QED
    BY <2>6 DEF line
<1>8. UsedAt(n, v, Len(n.out[v])) = UsedAt(n, v + 1, 0)
  BY <1>1, <1>2, <1>3, <1>4, <1>5, <1>6 DEF UsedAt
<1>9. UsedAt(n, v, i) \in Nat /\ Needed(n) \in Nat /\ UsedAt(n, v, i) <= Needed(n)
  BY <1>1, <1>3, <1>4, <1>5, SMTT(30) DEF UsedAt
<1> QED
  BY <1>7, <1>8, <1>9

-----------------------------------------------------------------------------
(* The invariant of the sizes, beside that of the files.                   *)

UsedOK ==
    /\ pc = "reserve" => graph.used = 0
    /\ pc = "vertex" => graph.used = UsedAt(import, at[1], 0)
    /\ pc = "edge" => graph.used = UsedAt(import, at[1], at[2])

Growing == \E s \in Sizes : GrownBy(s, graph.size, tries, retries, space)

SizesInv ==
    /\ space \in Nat
    /\ Working => Growing /\ UsedOK
    /\ GivesUpOnlyWhenFull

LEMMA SizesInit == CompressionInit => SizesInv
<1> SUFFICES ASSUME CompressionInit PROVE SizesInv
  OBVIOUS
<1>1. space \in Nat /\ tries = 0 /\ pc = "reserve"
  BY CompressionAssumption DEF CompressionInit
<1>2. PICK s \in Sizes : graph = EmptyGraph(s) /\ retries \in MaxRetries(space, s)
  BY DEF CompressionInit
<1>3. s \in Nat \ {0} /\ graph.size = s /\ graph.used = 0
  BY <1>2, EmptyFiles, CompressionAssumption
<1>4. retries \in Nat
  <2> DEFINE q == space \div s
  <2>1. q \in Nat
    BY <1>1, <1>3
  <2>2. retries \in (IF q > 0 THEN {Log2(q)} ELSE {0, ManyRetries})
    BY <1>2 DEF MaxRetries
  <2>3. q > 0 => Log2(q) \in Nat
    BY <2>1, Log2Is
  <2> HIDE DEF q
  <2> QED
    BY <2>2, <2>3, CompressionAssumption
<1>5. GrownBy(s, graph.size, tries, retries, space)
  <2>1. s * Power[0] = s
    BY <1>3, PowerIs
  <2> QED
    BY <1>1, <1>2, <1>3, <1>4, <2>1 DEF GrownBy
<1>6. Growing /\ UsedOK /\ GivesUpOnlyWhenFull
  BY <1>1, <1>3, <1>5 DEF Growing, UsedOK, GivesUpOnlyWhenFull
<1> QED
  BY <1>1, <1>6 DEF SizesInv

\* The graph file is dropped because it, or the tag file, was full.
LEMMA DroppedGrows ==
  ASSUME FilesInv, SizesInv, Working, Dropped, Needed(import) \in Nat,
         tagsFull' \/ Needed(import) > graph.size
  PROVE  SizesInv'
<1>1. PICK s \in Sizes : GrownBy(s, graph.size, tries, retries, space)
  BY DEF SizesInv, Growing
<1>2. s \in Nat \ {0} /\ space \in Nat
  BY CompressionAssumption DEF SizesInv
<1>3. /\ import' = import /\ space' = space /\ retries' = retries /\ tries' = tries + 1
      /\ graph' = EmptyGraph(2 * graph.size)
      /\ pc' = IF tries + 1 > retries THEN "gave up" ELSE "reserve"
  BY DEF Dropped, OutOfTries
<1>4. graph'.size = 2 * graph.size /\ graph'.used = 0
  BY <1>3, EmptyFiles
<1>5. /\ tries + 1 > retries => \A need \in Nat : need > graph.size => 2 * need > space
      /\ ~(tries + 1 > retries) => GrownBy(s, 2 * graph.size, tries + 1, retries, space)
  BY <1>1, <1>2, NoTryLeft
<1>6. CASE tries + 1 > retries
  <2>1. pc' = "gave up" /\ ~Working'
    BY <1>3, <1>6 DEF Working
  <2>2. tagsFull' \/ 2 * Needed(import) > space
    BY <1>5, <1>6
  <2>3. GivesUpOnlyWhenFull'
    BY <1>3, <2>2 DEF GivesUpOnlyWhenFull
  <2> QED
    BY <1>2, <1>3, <2>1, <2>3 DEF SizesInv
<1>7. CASE ~(tries + 1 > retries)
  <2>1. pc' = "reserve"
    BY <1>3, <1>7
  <2>2. GrownBy(s, graph'.size, tries', retries', space')
    BY <1>3, <1>4, <1>5, <1>7
  <2>3. Growing'
    BY <2>2 DEF Growing
  <2>4. UsedOK' /\ GivesUpOnlyWhenFull'
    BY <1>4, <2>1 DEF UsedOK, GivesUpOnlyWhenFull
  <2> QED
    BY <1>2, <1>3, <2>3, <2>4 DEF SizesInv
<1> QED
  BY <1>6, <1>7

\* The graph file keeps its size.
LEMMA UsedKeeps ==
  ASSUME SizesInv, Working, graph'.size = graph.size, tries' = tries, retries' = retries, space' = space,
         pc' \in {"vertex", "edge", "finalize"}, UsedOK'
  PROVE  SizesInv'
BY DEF SizesInv, Growing, GivesUpOnlyWhenFull

\* A step that is not one of the conversion.
LEMMA OthersKeep ==
  ASSUME SizesInv, ~Working', space' \in Nat, pc' # "gave up"
  PROVE  SizesInv'
BY DEF SizesInv, GivesUpOnlyWhenFull

LEMMA SizesNext == FilesInv /\ SizesInv /\ [CompressionNext]_vars => SizesInv'
<1> SUFFICES ASSUME FilesInv, SizesInv, [CompressionNext]_vars PROVE SizesInv'
  OBVIOUS
<1> USE DEF vars, prepareVars
<1>0. import \in Imports /\ space \in Nat /\ Needed(import) \in Nat /\ Reserved(import) \in Nat
      /\ Reserved(import) <= Needed(import)
  <2>1. import \in Imports /\ space \in Nat
    BY DEF FilesInv, SizesInv
  <2> DEFINE lines == Total(AllLines(import))
  <2>2. Reserved(import) \in Nat /\ lines \in Nat /\ Needed(import) = Reserved(import) + lines
    BY <2>1, ReservedIs
  <2> HIDE DEF lines
  <2> QED
    BY <2>1, <2>2
<1>a. Working => graph.size \in Nat
  <2> SUFFICES ASSUME Working PROVE graph.size \in Nat
    OBVIOUS
  <2>1. PICK s \in Sizes : GrownBy(s, graph.size, tries, retries, space)
    BY DEF SizesInv, Growing
  <2>2. s \in Nat \ {0}
    BY CompressionAssumption
  <2> QED
    BY <1>0, <2>1, <2>2, NoTryLeft
<1>1. CASE Reserve
  <2>1. /\ pc = "reserve" /\ import' = import /\ at' = at /\ space' = space /\ tries' = tries /\ retries' = retries
        /\ graph' = [graph EXCEPT !.used = @ + Reserved(import)]
        /\ pc' = IF import.ids = <<>> THEN "finalize" ELSE "vertex"
    BY <1>1 DEF Reserve
  <2>2. graph.used = 0 /\ graph'.size = graph.size /\ graph'.used = graph.used + Reserved(import)
    BY <2>1 DEF FilesInv, GraphRecord, SizesInv, Working, UsedOK
  <2>3. at = <<1, 0>>
    BY <2>1 DEF FilesInv, Working, ConvertedUpTo, Converted, AtOK
  <2>4. graph'.used = UsedAt(import, at[1], 0)
    BY <1>0, <2>2, <2>3, FirstUsed
  <2>5. UsedOK' /\ pc' \in {"vertex", "edge", "finalize"}
    BY <2>1, <2>4 DEF UsedOK
  <2> QED
    BY <2>1, <2>2, <2>5, UsedKeeps DEF Working
<1>2. CASE ReserveFails
  <2>1. pc = "reserve" /\ Dropped /\ ~(graph.used + Reserved(import) <= graph.size)
    BY <1>2 DEF ReserveFails, Fits
  <2>2. graph.used = 0 /\ Working
    BY <2>1 DEF SizesInv, Working, UsedOK
  <2>3. Needed(import) > graph.size
    BY <1>0, <1>a, <2>1, <2>2
  <2> QED
    BY <1>0, <2>1, <2>2, <2>3, DroppedGrows
<1>3. CASE ConvertVertex
  <2> DEFINE v == at[1]
  <2>1. /\ pc = "vertex" /\ import' = import /\ space' = space /\ tries' = tries /\ retries' = retries
        /\ graph' = [graph EXCEPT !.vertices = AddVertex(import)]
        /\ IF import.out[v] # <<>> THEN at' = at /\ pc' = "edge" ELSE NextVertex
    BY <1>3 DEF ConvertVertex
  <2>2. graph'.size = graph.size /\ graph'.used = graph.used
    BY <2>1 DEF FilesInv, GraphRecord
  <2>3. graph.used = UsedAt(import, v, 0) /\ v \in 1..Len(import.ids)
    BY <2>1, VertexAt DEF SizesInv, Working, UsedOK
  <2>4. at[2] = 0
    <3>1. at = <<Len(graph.vertices) + 1, 0>>
      BY <2>1 DEF FilesInv, Working, ConvertedUpTo, Converted, AtOK
    <3> QED
      BY <3>1
  <2>5. import.out[v] = <<>> => UsedAt(import, v, 0) = UsedAt(import, v + 1, 0)
    <3> SUFFICES ASSUME import.out[v] = <<>> PROVE UsedAt(import, v, 0) = UsedAt(import, v + 1, 0)
      OBVIOUS
    <3>1. Len(import.out[v]) = 0 /\ 0 \in 0..Len(import.out[v])
      OBVIOUS
    <3>2. UsedAt(import, v, Len(import.out[v])) = UsedAt(import, v + 1, 0)
      BY <1>0, <2>3, <3>1, UsedIs
    <3> QED
      BY <3>1, <3>2
  <2>6. UsedOK' /\ pc' \in {"vertex", "edge", "finalize"}
    <3>1. CASE import.out[v] # <<>>
      BY <2>1, <2>2, <2>3, <2>4, <3>1 DEF UsedOK
    <3>2. CASE import.out[v] = <<>> /\ v < Len(import.ids)
      <4>1. pc' = "vertex" /\ at' = <<v + 1, 0>>
        BY <2>1, <3>2 DEF NextVertex
      <4>2. at'[1] = v + 1
        BY <4>1
      <4> QED
        BY <2>1, <2>2, <2>3, <2>5, <3>2, <4>1, <4>2 DEF UsedOK
    <3>3. CASE import.out[v] = <<>> /\ ~(v < Len(import.ids))
      <4>1. pc' = "finalize"
        BY <2>1, <3>3 DEF NextVertex
      <4> QED
        BY <4>1 DEF UsedOK
    <3> QED
      BY <3>1, <3>2, <3>3
  <2> QED
    BY <2>1, <2>2, <2>6, UsedKeeps DEF Working
<1>4. CASE ConvertVertexFails
  <2>1. pc = "vertex" /\ tagsFull' = TRUE /\ Dropped
    BY <1>4 DEF ConvertVertexFails, CloneFails
  <2> QED
    BY <1>0, <2>1, DroppedGrows DEF Working
<1>5. CASE ConvertEdge
  <2> DEFINE v == at[1]
             i == at[2]
             size == Len(import.out[v])
  <2>1. /\ pc = "edge" /\ import' = import /\ space' = space /\ tries' = tries /\ retries' = retries
        /\ graph' = [graph EXCEPT !.used = @ + Edge.line,
                                  !.edges = Append(@, EdgeRow(at[1], Edge))]
        /\ IF i + 1 < size THEN at' = <<v, i + 1>> /\ pc' = "edge" ELSE NextVertex
    BY <1>5 DEF ConvertEdge
  <2>2. graph'.size = graph.size /\ graph'.used = graph.used + Edge.line
    BY <2>1 DEF FilesInv, GraphRecord
  <2>3. graph.used = UsedAt(import, v, i)
    BY <2>1 DEF SizesInv, Working, UsedOK
  <2>4. v \in 1..Len(import.ids) /\ i \in Nat /\ size \in Nat /\ i < size
    BY <2>1, EdgeAt
  <2> HIDE DEF v, i, size
  <2>5. i \in 0..size /\ (~(i + 1 < size) => i + 1 = size)
    BY <2>4
  <2>6. /\ UsedAt(import, v, i + 1) = UsedAt(import, v, i) + Edge.line
        /\ UsedAt(import, v, size) = UsedAt(import, v + 1, 0)
    BY <1>0, <2>4, <2>5, UsedIs DEF Edge, v, i, size
  <2>7. UsedOK' /\ pc' \in {"vertex", "edge", "finalize"}
    <3>1. CASE i + 1 < size
      <4>1. pc' = "edge" /\ at' = <<v, i + 1>>
        BY <2>1, <3>1
      <4>2. at'[1] = v /\ at'[2] = i + 1
        BY <4>1
      <4> QED
        BY <2>1, <2>2, <2>3, <2>6, <4>1, <4>2 DEF UsedOK
    <3>2. CASE ~(i + 1 < size) /\ v < Len(import.ids)
      <4>1. pc' = "vertex" /\ at' = <<v + 1, 0>>
        BY <2>1, <3>2 DEF NextVertex, v
      <4>2. at'[1] = v + 1
        BY <4>1
      <4> QED
        BY <2>1, <2>2, <2>3, <2>5, <2>6, <3>2, <4>1, <4>2 DEF UsedOK
    <3>3. CASE ~(i + 1 < size) /\ ~(v < Len(import.ids))
      <4>1. pc' = "finalize"
        BY <2>1, <3>3 DEF NextVertex, v
      <4> QED
        BY <4>1 DEF UsedOK
    <3> QED
      BY <3>1, <3>2, <3>3
  <2> QED
    BY <2>1, <2>2, <2>7, UsedKeeps DEF Working
<1>6. CASE ConvertEdgeFails
  <2>1. pc = "edge" /\ tagsFull' = TRUE /\ Dropped
    BY <1>6 DEF ConvertEdgeFails, CloneFails
  <2> QED
    BY <1>0, <2>1, DroppedGrows DEF Working
<1>7. CASE LineFails
  <2> DEFINE v == at[1]
             i == at[2]
             size == Len(import.out[v])
  <2>1. pc = "edge" /\ Dropped /\ ~(graph.used + Edge.line <= graph.size) /\ Working
    BY <1>7 DEF LineFails, Fits, Working
  <2>2. graph.used = UsedAt(import, v, i)
    BY <2>1 DEF SizesInv, UsedOK
  <2>3. v \in 1..Len(import.ids) /\ i \in Nat /\ size \in Nat /\ i < size
    BY <2>1, EdgeAt
  <2> HIDE DEF v, i, size
  <2>4. i \in 0..size /\ i + 1 \in 0..size
    BY <2>3
  <2>5. UsedAt(import, v, i + 1) = UsedAt(import, v, i) + Edge.line
    BY <1>0, <2>3, <2>4, UsedIs DEF Edge, v, i, size
  <2>6. UsedAt(import, v, i + 1) <= Needed(import) /\ UsedAt(import, v, i + 1) \in Nat
    BY <1>0, <2>3, <2>4, UsedIs DEF size
  <2>7. Needed(import) > graph.size
    BY <1>0, <1>a, <2>1, <2>2, <2>5, <2>6
  <2> QED
    BY <1>0, <2>1, <2>7, DroppedGrows
<1>8. CASE Finalize
  <2>1. ~Working' /\ space' = space /\ pc' = "list"
    BY <1>8 DEF Finalize, Working
  <2> QED
    BY <1>0, <2>1, OthersKeep
<1>9. CASE ListAll
  <2>1. ~Working' /\ space' \in Nat /\ pc' = "points"
    BY <1>9, CompressionAssumption DEF ListAll, Working
  <2> QED
    BY <2>1, OthersKeep
<1>10. CASE ListFails
  <2>1. ~Working' /\ space' = space /\ pc' = "unwound"
    BY <1>10 DEF ListFails, Working
  <2> QED
    BY <1>0, <2>1, OthersKeep
<1>11. CASE BuildPointsIndex
  <2>1. ~Working' /\ space' = space /\ pc' = "segments"
    BY <1>11 DEF BuildPointsIndex, Working
  <2> QED
    BY <1>0, <2>1, OthersKeep
<1>12. CASE BuildSegmentsIndex
  <2>1. ~Working' /\ space' = space /\ pc' = "done"
    BY <1>12 DEF BuildSegmentsIndex, Working
  <2> QED
    BY <1>0, <2>1, OthersKeep
<1>13. CASE IndexFails
  <2>1. ~Working' /\ space' = space /\ pc' \in {"index gave up", "points"}
    BY <1>13 DEF IndexFails, Working
  <2> QED
    BY <1>0, <2>1, OthersKeep
<1>14. CASE Die
  <2>1. ~Working' /\ space' = space /\ pc' = "died"
    BY <1>14 DEF Die, Working
  <2> QED
    BY <1>0, <2>1, OthersKeep
<1>15. CASE UNCHANGED vars
  BY <1>15 DEF SizesInv, Growing, UsedOK, GivesUpOnlyWhenFull, Working
<1> QED
  BY <1>1, <1>2, <1>3, <1>4, <1>5, <1>6, <1>7, <1>8, <1>9, <1>10, <1>11, <1>12, <1>13, <1>14, <1>15
     DEF CompressionNext

\* The graph is given up only when it needs more than half of what the disk had left, or
\* the tag file was full: max_retries allows as many doublings as there is room for
\* (src/src/library/include/io/memory_mapped/storage/base_storage.hpp).
THEOREM GivesUpWhenFull == CompressionSpec => []GivesUpOnlyWhenFull
<1>1. CompressionSpec => [](FilesInv /\ SizesInv)
  <2>1. CompressionInit => FilesInv /\ SizesInv
    BY FilledInit, SizesInit
  <2>2. FilesInv /\ SizesInv /\ [CompressionNext]_vars => (FilesInv /\ SizesInv)'
    BY FilledNext, SizesNext
  <2> QED
    BY <2>1, <2>2, PTL DEF CompressionSpec
<1>2. SizesInv => GivesUpOnlyWhenFull
  BY DEF SizesInv
<1> QED
  BY <1>1, <1>2, PTL

-----------------------------------------------------------------------------
(* The files of a network.  The condition of a storage says what is in it, *)
(* what its name leads to and which of its pointers are valid; a call      *)
(* takes one storage from one condition to another.                        *)

Conditions == {"off", "gone", "bare", "informed", "new", "blank", "ready", "half", "full", "final",
               "closed", "opened", "dropped", "remade", "reinformed", "truncated", "saved",
               "shut", "shrunk", "kept", "erased", "cleared"}
\* A storage in the middle of its constructor or of its dump: the next call is for it.
Transient == {"bare", "informed", "new", "truncated"}
OpNames == {"destroy", "create", "info", "construct", "constructed", "close", "open", "find", "shrink",
            "release", "fill", "reserve", "points", "segments", "finalize", "truncate", "write",
            "check", "export"}
Calls == [op : OpNames, name : Names]

\* What of a preparation the conditions depend on.
Preparation == [mapped |-> {n \in Names : Mapped(n)}, osm |-> format = "osm", gen |-> gen,
                kills |-> kills, unsaved |-> unsaved]
Maps(p, n) == n \in p.mapped
Used(p, n) == n \in {"osm_tags", "osm_vertices"} => p.osm

NoContent == [form |-> "none", info |-> FALSE, slack |-> FALSE, roots |-> EmptyFunction]
FileAt(files, n, id) == IF id \in DOMAIN files[n] THEN files[n][id] ELSE NoContent
View(n) == [st |-> st[n], dir |-> dir[n], file |-> FileAt(disk, n, st[n].id), entry |-> FileAt(disk, n, dir[n])]

WideFile(roots) == [form |-> "mapped", info |-> TRUE, slack |-> TRUE, roots |-> roots]
TrimFile(roots) == [form |-> "mapped", info |-> TRUE, slack |-> FALSE, roots |-> roots]
MemoryFile(roots) == [form |-> "memory", info |-> TRUE, slack |-> FALSE, roots |-> roots]
DumpFile(roots) == [form |-> "dump", info |-> FALSE, slack |-> FALSE, roots |-> roots]
Blanks(roots, g) == [r \in roots |-> [of |-> g, full |-> FALSE]]
Fulls(roots, g) == [r \in roots |-> [of |-> g, full |-> TRUE]]
\* What a mapped file has at the end.
Remains(n) == IF n = "tags" THEN KeptTags ELSE Roots[n]
PointersAre(n, v, roots, value) == v.st.ptr = [r \in Roots[n] |-> IF r \in roots THEN value ELSE "null"]
PointersHave(n, v, roots) == /\ DOMAIN v.st.ptr = Roots[n]
                             /\ \A r \in roots : v.st.ptr[r] = "valid"

\* The file that is mapped is the one in the directory, and of this preparation.
Mine(p, v) == v.st.id = v.dir /\ v.dir[1] = p.gen /\ v.dir # NoFile /\ v.entry = v.file
HasFile(p, n, v, roots) ==
    IF Maps(p, n) THEN Mine(p, v) /\ v.file = WideFile(roots)
    ELSE v.st.id = <<p.gen, 0>> /\ v.file = MemoryFile(roots)
Counted(n, v) == n \in Temporaries => v.st.on

IsOff(p, n, v) == v.st = Off /\ (n \in Temporaries /\ p.kills = 0 => v.dir = NoFile)
IsDropped(n, v) == v.st.id = NoFile /\ v.dir = NoFile /\ DOMAIN v.st.ptr = Roots[n]
IsGone(n, v) == IsDropped(n, v) /\ PointersAre(n, v, {}, "valid")
IsRemade(p, n, v) == Mine(p, v) /\ v.file = BlankFile /\ DOMAIN v.st.ptr = Roots[n]
IsBare(p, n, v) == IsRemade(p, n, v) /\ PointersAre(n, v, {}, "valid")
IsReinformed(p, n, v) == /\ Mine(p, v) /\ v.file = WideFile(EmptyFunction)
                         /\ DOMAIN v.st.ptr = Roots[n]
IsInformed(p, n, v) == IsReinformed(p, n, v) /\ PointersAre(n, v, {}, "valid")
IsNew(p, n, v) == /\ HasFile(p, n, v, Blanks(Constructed(n), p.gen))
                  /\ PointersAre(n, v, Constructed(n), "valid")
IsBlank(p, n, v) == IsNew(p, n, v) /\ Counted(n, v)
\* The index only.
IsReady(p, n, v) == HasFile(p, n, v, EmptyFunction) /\ PointersHave(n, v, {})
IsHalf(p, n, v) == /\ HasFile(p, n, v, Fulls({"points"}, p.gen))
                   /\ PointersHave(n, v, {"points"})
IsFull(p, n, v) == /\ HasFile(p, n, v, Fulls(Roots[n], p.gen))
                   /\ PointersHave(n, v, Roots[n]) /\ Counted(n, v)
\* The tags only.
IsFinal(p, n, v) == /\ HasFile(p, n, v, Fulls(KeptTags, p.gen))
                    /\ PointersHave(n, v, KeptTags)
IsDone(p, n, v) == IF n = "tags" THEN IsFinal(p, n, v) ELSE IsFull(p, n, v)
Unmapped(p, n, v) ==
    /\ v.dir[1] = p.gen /\ v.dir # NoFile
    /\ v.entry = WideFile(Blanks(Constructed(n), p.gen))
    /\ PointersAre(n, v, Constructed(n), "dangling") /\ Counted(n, v)
IsClosed(p, n, v) == Unmapped(p, n, v) /\ v.st.id = NoFile
IsOpened(p, n, v) == Unmapped(p, n, v) /\ v.st.id = v.dir /\ v.entry = v.file
Dumped(p, n, v, roots) == ~Maps(p, n) /\ v.dir # NoFile /\ v.entry = DumpFile(roots)
IsTruncated(p, n, v) == IsDone(p, n, v) /\ Dumped(p, n, v, EmptyFunction)
Written(p, n, v) == n \in p.unsaved \/ Dumped(p, n, v, Fulls(Kept(n), p.gen))
IsSaved(p, n, v) == IsDone(p, n, v) /\ Written(p, n, v)
Finished(p, v) == v.dir[1] = p.gen /\ v.dir # NoFile
IsShut(p, n, v) == Finished(p, v) /\ v.entry = WideFile(Fulls(Remains(n), p.gen))
IsShrunk(p, n, v) == Finished(p, v) /\ v.entry = TrimFile(Fulls(Remains(n), p.gen))
IsKept(p, n, v) == v.st = Off /\ (IF Maps(p, n) THEN IsShrunk(p, n, v) ELSE Written(p, n, v))

Meets(p, n, s, v) ==
    /\ s = "off" => IsOff(p, n, v)
    /\ s = "gone" => IsGone(n, v)
    /\ s = "bare" => IsBare(p, n, v)
    /\ s = "informed" => IsInformed(p, n, v)
    /\ s = "dropped" => IsDropped(n, v)
    /\ s = "remade" => IsRemade(p, n, v)
    /\ s = "reinformed" => IsReinformed(p, n, v)
    /\ s = "new" => IsNew(p, n, v)
    /\ s = "blank" => IsBlank(p, n, v)
    /\ s = "ready" => IsReady(p, n, v)
    /\ s = "half" => IsHalf(p, n, v)
    /\ s = "full" => IsFull(p, n, v)
    /\ s = "final" => IsFinal(p, n, v)
    /\ s = "closed" => IsClosed(p, n, v)
    /\ s = "opened" => IsOpened(p, n, v)
    /\ s = "truncated" => IsTruncated(p, n, v)
    /\ s = "saved" => IsSaved(p, n, v)
    /\ s = "shut" => IsShut(p, n, v)
    /\ s = "shrunk" => IsShrunk(p, n, v)
    /\ s = "kept" => IsKept(p, n, v)
    /\ s = "erased" => v.dir = NoFile
    /\ s = "cleared" => v.st = Off /\ v.dir = NoFile

Done(n) == IF n = "tags" THEN "final" ELSE "full"
Makes(p, n, s, o, t) ==
    \/ Maps(p, n) /\ s = "off" /\ o = "destroy" /\ t = "gone"
    \/ Maps(p, n) /\ s = "gone" /\ o = "create" /\ t = "bare"
    \/ Maps(p, n) /\ s = "bare" /\ o = "info" /\ t = "informed"
    \/ Maps(p, n) /\ s = "informed" /\ o = "construct" /\ t = "new"
    \/ ~Maps(p, n) /\ s = "off" /\ o = "construct" /\ t = "new"
    \/ s = "new" /\ o = "constructed" /\ t = "blank"
Uses(n, s, o, t) ==
    \/ n # "index" /\ s = "blank" /\ o = "fill" /\ t = "full"
    \/ n = "index" /\ s = "blank" /\ o = "reserve" /\ t = "ready"
    \/ n = "index" /\ s = "ready" /\ o = "points" /\ t = "half"
    \/ n = "index" /\ s = "half" /\ o = "segments" /\ t = "full"
    \/ n = "tags" /\ s = "full" /\ o = "finalize" /\ t = "final"
    \/ n = "graph" /\ s = "off" /\ o = "check" /\ t = "off"
    \/ n = "graph" /\ s \in {"full", "saved"} /\ o = "export" /\ t = s
Grows(p, n, s, o, t) ==
    \/ Maps(p, n) /\ s = "blank" /\ o = "close" /\ t = "closed"
    \/ Maps(p, n) /\ s = "closed" /\ o = "open" /\ t = "opened"
    \/ Maps(p, n) /\ n = "index" /\ s = "opened" /\ o = "find" /\ t = "ready"
    \/ Maps(p, n) /\ n # "index" /\ s = "opened" /\ o = "find" /\ t = "blank"
Drops(p, n, s, o, t) ==
    \/ Maps(p, n) /\ n \in {"graph", "index"} /\ s \in {"blank", "ready", "half"}
       /\ o = "destroy" /\ t = "dropped"
    \/ Maps(p, n) /\ s = "dropped" /\ o = "create" /\ t = "remade"
    \/ Maps(p, n) /\ s = "remade" /\ o = "info" /\ t = "reinformed"
    \/ Maps(p, n) /\ n = "index" /\ s = "reinformed" /\ o = "construct" /\ t = "ready"
    \/ Maps(p, n) /\ n = "graph" /\ s = "reinformed" /\ o = "construct" /\ t = "blank"
Leaves(p, n, s, o, t) ==
    \/ n \in Temporaries /\ Maps(p, n) /\ s \in {"blank", "full"} /\ o = "destroy" /\ t = "erased"
    \/ n \in Temporaries /\ Maps(p, n) /\ s = "erased" /\ o = "release" /\ t = "cleared"
    \/ n \in Temporaries /\ ~Maps(p, n) /\ s \in {"blank", "full"} /\ o = "release" /\ t = "cleared"
    \/ n \in Finals /\ Maps(p, n) /\ s = Done(n) /\ o = "close" /\ t = "shut"
    \/ n \in Finals /\ Maps(p, n) /\ s = "shut" /\ o = "shrink" /\ t = "shrunk"
    \/ n \in Finals /\ Maps(p, n) /\ s = "shrunk" /\ o = "release" /\ t = "kept"
    \/ n \in Finals /\ ~Maps(p, n) /\ s = Done(n) /\ o = "truncate" /\ t = "truncated"
    \/ n \in Finals /\ ~Maps(p, n) /\ s = "truncated" /\ o = "write" /\ t = "saved"
    \/ n \in Finals /\ ~Maps(p, n) /\ s = "saved" /\ o = "release" /\ t = "kept"
Moves(p, n, s, o, t) == \/ Makes(p, n, s, o, t) \/ Uses(n, s, o, t) \/ Grows(p, n, s, o, t)
                        \/ Drops(p, n, s, o, t) \/ Leaves(p, n, s, o, t)

\* Nothing is called while another storage is being constructed, and what is read is there.
Allowed(p, s, call, t) ==
    /\ call.name \in Names /\ Used(p, call.name)
    /\ t = [s EXCEPT ![call.name] = t[call.name]]
    /\ t[call.name] \in Conditions
    /\ Moves(p, call.name, s[call.name], call.op, t[call.name])
    /\ call.op \in {"points", "segments"} => s["index_build"] = "full"
    /\ call.op = "export" => s["tags"] \in {"final", "saved"}
    /\ \A n \in Names \ {call.name} : s[n] \notin Transient
Goal(p) == [n \in Names |-> IF n \in Finals THEN "kept" ELSE IF Used(p, n) THEN "cleared" ELSE "off"]
Standings == [Names -> Conditions]

\* A run of calls through conditions that are all allowed.
Safe(p, s, calls, t) ==
    \E r \in [0..Len(calls) -> Standings] :
        /\ r[0] = s /\ r[Len(calls)] = t
        /\ \A i \in 1..Len(calls) : Allowed(p, r[i - 1], calls[i], r[i])

LEMMA SafeNil ==
  ASSUME NEW p, NEW s \in Standings
  PROVE  Safe(p, s, <<>>, s)
<1> DEFINE r == [i \in 0..0 |-> s]
<1>1. Len(<<>>) = 0 /\ r \in [0..0 -> Standings] /\ r[0] = s
  OBVIOUS
<1>2. \A i \in 1..0 : Allowed(p, r[i - 1], <<>>[i], r[i])
  OBVIOUS
<1> QED
  BY <1>1, <1>2 DEF Safe

LEMMA SafeEnd ==
  ASSUME NEW p, NEW s, NEW t, Safe(p, s, <<>>, t)
  PROVE  s = t
BY DEF Safe

LEMMA SafeCall ==
  ASSUME NEW p, NEW s \in Standings, NEW t \in Standings, NEW call, Allowed(p, s, call, t)
  PROVE  Safe(p, s, <<call>>, t)
<1> DEFINE r == [i \in 0..1 |-> IF i = 0 THEN s ELSE t]
<1>1. Len(<<call>>) = 1 /\ <<call>>[1] = call /\ r \in [0..1 -> Standings] /\ r[0] = s /\ r[1] = t
  OBVIOUS
<1> HIDE DEF r
<1>2. \A i \in 1..1 : i = 1 /\ i - 1 = 0
  OBVIOUS
<1>3. \A i \in 1..1 : Allowed(p, r[i - 1], <<call>>[i], r[i])
  BY <1>1, <1>2
<1> QED
  BY <1>1, <1>3 DEF Safe

LEMMA SafeStands ==
  ASSUME NEW p, NEW s, NEW t, NEW calls \in Seq(Calls), Safe(p, s, calls, t)
  PROVE  s \in Standings /\ t \in Standings
<1>1. Len(calls) \in Nat /\ 0 \in 0..Len(calls) /\ Len(calls) \in 0..Len(calls)
  OBVIOUS
<1> QED
  BY <1>1 DEF Safe

LEMMA SafeJoin ==
  ASSUME NEW p, NEW s, NEW t, NEW u, NEW a \in Seq(Calls), NEW b \in Seq(Calls),
         Safe(p, s, a, t), Safe(p, t, b, u)
  PROVE  Safe(p, s, a \o b, u)
<1>1. PICK q \in [0..Len(a) -> Standings] :
        /\ q[0] = s /\ q[Len(a)] = t
        /\ \A i \in 1..Len(a) : Allowed(p, q[i - 1], a[i], q[i])
  BY DEF Safe
<1>2. PICK r \in [0..Len(b) -> Standings] :
        /\ r[0] = t /\ r[Len(b)] = u
        /\ \A i \in 1..Len(b) : Allowed(p, r[i - 1], b[i], r[i])
  BY DEF Safe
<1> DEFINE m == Len(a)
           n == Len(b)
           c == a \o b
           x == [i \in 0..m + n |-> IF i <= m THEN q[i] ELSE r[i - m]]
<1>3. m \in Nat /\ n \in Nat /\ Len(c) = m + n
  OBVIOUS
<1>4. \A i \in 1..m : c[i] = a[i]
  OBVIOUS
<1>5. \A i \in m + 1..m + n : c[i] = b[i - m]
  OBVIOUS
<1> HIDE DEF m, n, c
<1>6. x \in [0..m + n -> Standings]
  <2>1. ASSUME NEW i \in 0..m + n PROVE (IF i <= m THEN q[i] ELSE r[i - m]) \in Standings
    <3>1. CASE i <= m
      <4>1. i \in 0..m
        BY <1>3, <3>1
      <4> QED
        BY <3>1, <4>1, <1>1 DEF m
    <3>2. CASE ~(i <= m)
      <4>1. i - m \in 0..n
        BY <1>3, <3>2
      <4> QED
        BY <3>2, <4>1, <1>2 DEF n
    <3> QED
      BY <3>1, <3>2
  <2> QED
    BY <2>1
<1>7. x[0] = s
  BY <1>1, <1>3
<1>8. x[m + n] = u
  <2>1. CASE n = 0
    BY <1>1, <1>2, <1>3, <2>1 DEF m, n
  <2>2. CASE n # 0
    <3>1. ~(m + n <= m) /\ (m + n) - m = n /\ m + n \in 0..m + n
      BY <1>3, <2>2
    <3>2. r[n] = u
      BY <1>2 DEF n
    <3> QED
      BY <3>1, <3>2
  <2> QED
    BY <2>1, <2>2
<1>9. ASSUME NEW i \in 1..m + n PROVE Allowed(p, x[i - 1], c[i], x[i])
  <2>1. CASE i <= m
    <3>1. i \in 1..m /\ i - 1 \in 0..m + n /\ i - 1 <= m /\ i \in 0..m + n
      BY <1>3, <2>1
    <3>2. x[i] = q[i] /\ x[i - 1] = q[i - 1] /\ c[i] = a[i]
      BY <1>4, <2>1, <3>1
    <3> QED
      BY <1>1, <3>1, <3>2 DEF m
  <2>2. CASE ~(i <= m)
    <3>1. i - m \in 1..n /\ i \in m + 1..m + n /\ i - 1 \in 0..m + n /\ (i - m) - 1 = (i - 1) - m
      BY <1>3, <2>2
    <3>2. x[i] = r[i - m] /\ c[i] = b[i - m]
      BY <1>5, <2>2, <3>1
    <3>3. x[i - 1] = r[(i - m) - 1]
      <4>1. CASE i - 1 <= m
        <5>1. i - 1 = m /\ (i - m) - 1 = 0
          BY <1>3, <2>2, <4>1
        <5> QED
          BY <1>1, <1>2, <3>1, <4>1, <5>1 DEF m
      <4>2. CASE ~(i - 1 <= m)
        BY <3>1, <4>2
      <4> QED
        BY <4>1, <4>2
    <3> HIDE DEF x
    <3> QED
      BY <1>2, <3>1, <3>2, <3>3 DEF n
  <2> QED
    BY <2>1, <2>2
<1> HIDE DEF x
<1>10. x \in [0..Len(c) -> Standings] /\ x[Len(c)] = u /\ \A i \in 1..Len(c) : Allowed(p, x[i - 1], c[i], x[i])
  BY <1>3, <1>6, <1>8, <1>9
<1>11. Safe(p, s, c, u)
  BY <1>7, <1>10 DEF Safe
<1> QED
  BY <1>11 DEF c

LEMMA SafeNext ==
  ASSUME NEW p, NEW s, NEW t, NEW calls \in Seq(Calls), calls # <<>>, Safe(p, s, calls, t)
  PROVE  /\ s \in Standings
         /\ \E u \in Standings : Allowed(p, s, Head(calls), u) /\ Safe(p, u, Tail(calls), t)
<1> DEFINE n == Len(calls)
           rest == Tail(calls)
<1>1. PICK r \in [0..n -> Standings] :
        /\ r[0] = s /\ r[n] = t
        /\ \A i \in 1..n : Allowed(p, r[i - 1], calls[i], r[i])
  BY DEF Safe
<1>2. n \in Nat /\ n >= 1 /\ Head(calls) = calls[1]
  OBVIOUS
<1>3. Len(rest) = n - 1 /\ \A i \in 1..n - 1 : rest[i] = calls[i + 1]
  OBVIOUS
<1> HIDE DEF n, rest
<1> DEFINE x == [i \in 0..n - 1 |-> r[i + 1]]
<1>4. x \in [0..n - 1 -> Standings] /\ x[0] = r[1] /\ x[n - 1] = t
  <2>1. \A i \in 0..n - 1 : i + 1 \in 0..n
    BY <1>2
  <2>2. 0 \in 0..n - 1 /\ n - 1 \in 0..n - 1 /\ 0 + 1 = 1 /\ (n - 1) + 1 = n
    BY <1>2
  <2> QED
    BY <1>1, <2>1, <2>2
<1>5. ASSUME NEW i \in 1..n - 1 PROVE Allowed(p, x[i - 1], rest[i], x[i])
  <2>1. i + 1 \in 1..n /\ i - 1 \in 0..n - 1 /\ (i - 1) + 1 = (i + 1) - 1 /\ i \in 0..n - 1
    BY <1>2
  <2>2. x[i - 1] = r[(i + 1) - 1] /\ x[i] = r[i + 1] /\ rest[i] = calls[i + 1]
    BY <1>3, <2>1
  <2> HIDE DEF x
  <2> QED
    BY <1>1, <2>1, <2>2
<1> HIDE DEF x
<1>6. Safe(p, r[1], rest, t)
  BY <1>3, <1>4, <1>5 DEF Safe
<1>7. 1 \in 0..n /\ 0 \in 0..n /\ 1 \in 1..n /\ 1 - 1 = 0
  BY <1>2
<1>8. r[1] \in Standings /\ s \in Standings /\ Allowed(p, s, Head(calls), r[1])
  BY <1>1, <1>2, <1>7
<1> QED
  BY <1>6, <1>8 DEF rest

LEMMA OneLonger ==
  ASSUME NEW S, NEW s \in Seq(S), NEW d \in S, NEW t \in Seq(S), Len(t) = Len(s) + 1,
         \A i \in 1..Len(s) : t[i] = s[i], t[Len(s) + 1] = d
  PROVE  s \o <<d>> = t
<1>1. <<d>> \in Seq(S) /\ Len(<<d>>) = 1 /\ <<d>>[1] = d /\ Len(s) \in Nat
  OBVIOUS
<1> DEFINE c == s \o <<d>>
           n == Len(s)
<1>2. c \in Seq(S) /\ Len(c) = n + 1 /\ \A i \in 1..n + 1 : c[i] = IF i <= n THEN s[i] ELSE <<d>>[i - n]
  BY <1>1, ConcatProperties
<1> HIDE DEF c, n
<1>3. ASSUME NEW i \in 1..n + 1 PROVE c[i] = t[i]
  <2>1. CASE i <= n
    BY <1>1, <1>2, <2>1 DEF n
  <2>2. CASE ~(i <= n)
    <3>1. i = n + 1 /\ i - n = 1
      BY <1>1, <2>2 DEF n
    <3> QED
      BY <1>1, <1>2, <2>2, <3>1 DEF n
  <2> QED
    BY <2>1, <2>2
<1>4. c = t
  BY <1>2, <1>3, SeqEqual DEF n
<1> QED
  BY <1>4 DEF c

LEMMA SinglesJoin ==
  ASSUME NEW a, NEW b, NEW c, NEW d
  PROVE  /\ (<<a>> \o <<b>>) \o <<c>> = <<a, b, c>>
         /\ ((<<a>> \o <<b>>) \o <<c>>) \o <<d>> = <<a, b, c, d>>
<1>1. PICK S : S = {a, b, c, d}
  OBVIOUS
<1>2. a \in S /\ b \in S /\ c \in S /\ d \in S
  BY <1>1
<1>3. <<a>> \o <<b>> = <<a, b>>
  <2>1. <<a>> \in Seq(S) /\ Len(<<a>>) = 1 /\ <<a, b>> \in Seq(S) /\ Len(<<a, b>>) = 1 + 1
    BY <1>2
  <2>2. (\A i \in 1..1 : <<a, b>>[i] = <<a>>[i]) /\ <<a, b>>[1 + 1] = b
    OBVIOUS
  <2> QED
    BY <1>2, <2>1, <2>2, OneLonger
<1>4. <<a, b>> \o <<c>> = <<a, b, c>>
  <2>1. <<a, b>> \in Seq(S) /\ Len(<<a, b>>) = 2 /\ <<a, b, c>> \in Seq(S) /\ Len(<<a, b, c>>) = 2 + 1
    BY <1>2
  <2>2. (\A i \in 1..2 : <<a, b, c>>[i] = <<a, b>>[i]) /\ <<a, b, c>>[2 + 1] = c
    OBVIOUS
  <2> QED
    BY <1>2, <2>1, <2>2, OneLonger
<1>5. <<a, b, c>> \o <<d>> = <<a, b, c, d>>
  <2>1. <<a, b, c>> \in Seq(S) /\ Len(<<a, b, c>>) = 3 /\ <<a, b, c, d>> \in Seq(S) /\ Len(<<a, b, c, d>>) = 3 + 1
    BY <1>2
  <2>2. (\A i \in 1..3 : <<a, b, c, d>>[i] = <<a, b, c>>[i]) /\ <<a, b, c, d>>[3 + 1] = d
    OBVIOUS
  <2> QED
    BY <1>2, <2>1, <2>2, OneLonger
<1> QED
  BY <1>3, <1>4, <1>5

-----------------------------------------------------------------------------
(* The calls of one preparation.                                           *)

Agrees(p) == p.mapped = {n \in Names : Mapped(n)} /\ p.osm = (format = "osm")
Quiet(s) == s \in Standings /\ \A n \in Names : s[n] \notin Transient

LEMMA OnCalls ==
  ASSUME NEW n
  PROVE  /\ \A a : On(<<a>>, n) = <<Op(a, n)>>
         /\ \A a, b : On(<<a, b>>, n) = <<Op(a, n), Op(b, n)>>
         /\ \A a, b, c : On(<<a, b, c>>, n) = <<Op(a, n), Op(b, n), Op(c, n)>>
BY DEF On

LEMMA CallIs ==
  ASSUME NEW n \in Names, NEW op \in OpNames
  PROVE  Op(op, n) \in Calls /\ Op(op, n).op = op /\ Op(op, n).name = n
BY DEF Op, Calls

LEMMA SafeStep ==
  ASSUME NEW p, NEW s, s \in Standings, NEW n \in Names, NEW op \in OpNames, NEW c \in Conditions,
         Used(p, n), Moves(p, n, s[n], op, c),
         \A m \in Names \ {n} : s[m] \notin Transient,
         op \in {"points", "segments"} => s["index_build"] = "full",
         op = "export" => s["tags"] \in {"final", "saved"}
  PROVE  /\ Safe(p, s, <<Op(op, n)>>, [s EXCEPT ![n] = c])
         /\ <<Op(op, n)>> \in Seq(Calls)
<1> DEFINE t == [s EXCEPT ![n] = c]
           o == Op(op, n)
<1>1. t \in Standings /\ t[n] = c
  BY DEF Standings
<1>2. o \in Calls /\ o.op = op /\ o.name = n
  BY CallIs
<1>3. t = [s EXCEPT ![n] = t[n]]
  BY <1>1
<1> HIDE DEF t, o
<1>4. Allowed(p, s, o, t)
  BY <1>1, <1>2, <1>3 DEF Allowed
<1>5. Safe(p, s, <<o>>, t)
  BY <1>1, <1>4, SafeCall
<1>6. <<o>> \in Seq(Calls)
  BY <1>2
<1> QED
  BY <1>5, <1>6 DEF t, o

\* Two calls of one storage after each other.
LEMMA SafePair ==
  ASSUME NEW p, NEW s, s \in Standings, NEW n \in Names, NEW a \in Seq(Calls), NEW b \in Seq(Calls),
         NEW c \in Conditions, NEW d \in Conditions,
         Safe(p, s, a, [s EXCEPT ![n] = c]),
         Safe(p, [s EXCEPT ![n] = c], b, [[s EXCEPT ![n] = c] EXCEPT ![n] = d])
  PROVE  Safe(p, s, a \o b, [s EXCEPT ![n] = d])
<1>1. [[s EXCEPT ![n] = c] EXCEPT ![n] = d] = [s EXCEPT ![n] = d]
  BY DEF Standings
<1> QED
  BY <1>1, SafeJoin

LEMMA StandingChanges ==
  ASSUME NEW s, s \in Standings, NEW n \in Names, NEW c \in Conditions
  PROVE  /\ [s EXCEPT ![n] = c] \in Standings
         /\ [s EXCEPT ![n] = c][n] = c
         /\ \A m \in Names \ {n} : [s EXCEPT ![n] = c][m] = s[m]
         /\ \A d \in Conditions : [[s EXCEPT ![n] = c] EXCEPT ![n] = d] = [s EXCEPT ![n] = d]
BY DEF Standings

LEMMA ConstructorIsSafe ==
  ASSUME NEW p, Agrees(p), NEW s, Quiet(s), NEW n \in Names, Used(p, n), s[n] = "off"
  PROVE  /\ Safe(p, s, Constructor(n), [s EXCEPT ![n] = "blank"])
         /\ Constructor(n) \in Seq(Calls)
<1> DEFINE At_(c) == [s EXCEPT ![n] = c]
           m == Maps(p, n)
<1>0. s \in Standings /\ (m <=> Mapped(n))
  BY DEF Quiet, Agrees, Maps
<1>1. \A c \in Conditions : At_(c) \in Standings /\ At_(c)[n] = c
                            /\ \A d \in Conditions : [At_(c) EXCEPT ![n] = d] = At_(d)
  BY <1>0, StandingChanges
<1>2. \A c \in Conditions : \A k \in Names \ {n} : At_(c)[k] \notin Transient
  <2> SUFFICES ASSUME NEW c \in Conditions, NEW k \in Names \ {n} PROVE At_(c)[k] \notin Transient
    OBVIOUS
  <2>1. At_(c)[k] = s[k]
    BY <1>0
  <2> QED
    BY <2>1 DEF Quiet
<1>3. At_("off") = s
  BY <1>0 DEF Standings
<1> HIDE DEF At_
<1>4. ASSUME NEW c \in Conditions, NEW d \in Conditions, NEW op \in OpNames \ {"points", "segments", "export"},
             Moves(p, n, c, op, d)
      PROVE  Safe(p, At_(c), <<Op(op, n)>>, At_(d)) /\ <<Op(op, n)>> \in Seq(Calls)
  <2>1. Safe(p, At_(c), <<Op(op, n)>>, [At_(c) EXCEPT ![n] = d]) /\ <<Op(op, n)>> \in Seq(Calls)
    BY <1>1, <1>2, <1>4, SafeStep
  <2> QED
    BY <1>1, <2>1
<1>5. {"off", "gone", "bare", "informed", "new", "blank"} \subseteq Conditions
      /\ {"destroy", "create", "info", "construct", "constructed"} \subseteq OpNames \ {"points", "segments", "export"}
  BY DEF Conditions, OpNames
<1>6. Moves(p, n, "new", "constructed", "blank")
  BY DEF Moves, Makes
<1>7. Safe(p, At_("new"), <<Op("constructed", n)>>, At_("blank")) /\ <<Op("constructed", n)>> \in Seq(Calls)
  BY <1>4, <1>5, <1>6
<1> DEFINE two == <<Op("construct", n), Op("constructed", n)>>
<1>8. two = <<Op("construct", n)>> \o <<Op("constructed", n)>> /\ On(<<"construct", "constructed">>, n) = two
  BY OnCalls
<1> HIDE DEF two
<1>9. CASE m
  <2>1. /\ Moves(p, n, "off", "destroy", "gone") /\ Moves(p, n, "gone", "create", "bare")
        /\ Moves(p, n, "bare", "info", "informed") /\ Moves(p, n, "informed", "construct", "new")
    BY <1>9 DEF Moves, Makes
  <2>2. Safe(p, At_("off"), <<Op("destroy", n)>>, At_("gone")) /\ <<Op("destroy", n)>> \in Seq(Calls)
    BY <1>4, <1>5, <2>1
  <2>3. Safe(p, At_("gone"), <<Op("create", n)>>, At_("bare")) /\ <<Op("create", n)>> \in Seq(Calls)
    BY <1>4, <1>5, <2>1
  <2>4. Safe(p, At_("bare"), <<Op("info", n)>>, At_("informed")) /\ <<Op("info", n)>> \in Seq(Calls)
    BY <1>4, <1>5, <2>1
  <2>5. Safe(p, At_("informed"), <<Op("construct", n)>>, At_("new")) /\ <<Op("construct", n)>> \in Seq(Calls)
    BY <1>4, <1>5, <2>1
  <2>6. Safe(p, At_("informed"), two, At_("blank")) /\ two \in Seq(Calls)
    BY <1>7, <1>8, <2>5, SafeJoin, ConcatProperties
  <2> DEFINE three == <<Op("destroy", n), Op("create", n), Op("info", n)>>
  <2>7. three = (<<Op("destroy", n)>> \o <<Op("create", n)>>) \o <<Op("info", n)>> /\ DestroyAndCreate(n) = three
    BY OnCalls DEF DestroyAndCreate
  <2> HIDE DEF three
  <2>8. /\ Safe(p, At_("off"), <<Op("destroy", n)>> \o <<Op("create", n)>>, At_("bare"))
        /\ <<Op("destroy", n)>> \o <<Op("create", n)>> \in Seq(Calls)
    BY <2>2, <2>3, SafeJoin, ConcatProperties
  <2>9. Safe(p, At_("off"), three, At_("informed")) /\ three \in Seq(Calls)
    BY <2>4, <2>7, <2>8, SafeJoin, ConcatProperties
  <2>10. Safe(p, At_("off"), three \o two, At_("blank")) /\ three \o two \in Seq(Calls)
    BY <2>6, <2>9, SafeJoin, ConcatProperties
  <2> QED
    BY <1>0, <1>3, <1>8, <1>9, <2>7, <2>10 DEF Constructor, At_
<1>10. CASE ~m
  <2>1. Moves(p, n, "off", "construct", "new")
    BY <1>10 DEF Moves, Makes
  <2>2. Safe(p, At_("off"), <<Op("construct", n)>>, At_("new")) /\ <<Op("construct", n)>> \in Seq(Calls)
    BY <1>4, <1>5, <2>1
  <2>3. Safe(p, At_("off"), two, At_("blank")) /\ two \in Seq(Calls)
    BY <1>7, <1>8, <2>2, SafeJoin, ConcatProperties
  <2>4. <<>> \o two = two
    BY <2>3
  <2> QED
    BY <1>0, <1>3, <1>8, <1>10, <2>3, <2>4 DEF Constructor, At_
<1> QED
  BY <1>9, <1>10

Put(s, n, c) == [s EXCEPT ![n] = c]

LEMMA PutStep ==
  ASSUME NEW p, NEW s, Quiet(s), NEW n \in Names, Used(p, n),
         NEW c \in Conditions, NEW d \in Conditions, NEW op \in OpNames \ {"points", "segments", "export"},
         Moves(p, n, c, op, d)
  PROVE  Safe(p, Put(s, n, c), <<Op(op, n)>>, Put(s, n, d)) /\ <<Op(op, n)>> \in Seq(Calls)
<1>1. /\ Put(s, n, c) \in Standings /\ Put(s, n, c)[n] = c /\ [Put(s, n, c) EXCEPT ![n] = d] = Put(s, n, d)
      /\ \A m \in Names \ {n} : Put(s, n, c)[m] = s[m]
  <2>1. s \in Standings
    BY DEF Quiet
  <2>2. /\ [s EXCEPT ![n] = c] \in Standings
        /\ [s EXCEPT ![n] = c][n] = c
        /\ \A m \in Names \ {n} : [s EXCEPT ![n] = c][m] = s[m]
        /\ [[s EXCEPT ![n] = c] EXCEPT ![n] = d] = [s EXCEPT ![n] = d]
    BY <2>1 DEF Standings
  <2> QED
    BY <2>2 DEF Put
<1>2. \A m \in Names \ {n} : Put(s, n, c)[m] \notin Transient
  BY <1>1 DEF Quiet
<1>3. op \in OpNames /\ op \notin {"points", "segments"} /\ op # "export"
  OBVIOUS
<1>4. PICK q : q = Put(s, n, c)
  OBVIOUS
<1>5. Moves(p, n, q[n], op, d)
  BY <1>1, <1>4
<1>6. Safe(p, q, <<Op(op, n)>>, [q EXCEPT ![n] = d]) /\ <<Op(op, n)>> \in Seq(Calls)
  BY <1>1, <1>2, <1>3, <1>4, <1>5, SafeStep
<1> QED
  BY <1>1, <1>4, <1>6

LEMMA PutSame ==
  ASSUME NEW s, Quiet(s), NEW n \in Names
  PROVE  Put(s, n, s[n]) = s /\ s[n] \in Conditions
BY DEF Put, Quiet, Standings

LEMMA PutIsQuiet ==
  ASSUME NEW s, Quiet(s), NEW n \in Names, NEW c \in Conditions, c \notin Transient
  PROVE  Quiet(Put(s, n, c))
BY DEF Put, Quiet, Standings

Settled(p, n) == IF Maps(p, n) THEN Done(n) ELSE "saved"

LEMMA DestructorIsSafe ==
  ASSUME NEW p, Agrees(p), NEW s, Quiet(s), NEW n \in Names, Used(p, n),
         n \in Temporaries => s[n] \in {"blank", "full"},
         n \in Finals => s[n] = Settled(p, n)
  PROVE  /\ Safe(p, s, Destructor(n), Put(s, n, IF n \in Finals THEN "kept" ELSE "cleared"))
         /\ Destructor(n) \in Seq(Calls)
<1>1. (Maps(p, n) <=> Mapped(n)) /\ Put(s, n, s[n]) = s /\ s[n] \in Conditions
  BY PutSame DEF Agrees, Maps, Maps
<1>2. {"erased", "cleared", "shut", "shrunk", "kept"} \subseteq Conditions
      /\ {"destroy", "release", "close", "shrink"} \subseteq OpNames \ {"points", "segments", "export"}
  BY DEF Conditions, OpNames
<1>3. (n \in Temporaries /\ n \notin Finals) \/ (n \in Finals /\ n \notin Temporaries)
  BY DEF Names, Temporaries, Finals
<1>4. CASE n \in Temporaries /\ Maps(p, n)
  <2>1. Moves(p, n, s[n], "destroy", "erased") /\ Moves(p, n, "erased", "release", "cleared")
    BY <1>4 DEF Moves, Leaves
  <2>2. Safe(p, s, <<Op("destroy", n)>>, Put(s, n, "erased")) /\ <<Op("destroy", n)>> \in Seq(Calls)
    BY <1>1, <1>2, <2>1, PutStep
  <2>3. Safe(p, Put(s, n, "erased"), <<Op("release", n)>>, Put(s, n, "cleared")) /\ <<Op("release", n)>> \in Seq(Calls)
    BY <1>2, <2>1, PutStep
  <2> DEFINE two == <<Op("destroy", n), Op("release", n)>>
  <2>4. two = <<Op("destroy", n)>> \o <<Op("release", n)>> /\ On(<<"destroy", "release">>, n) = two
    BY OnCalls
  <2>5. Destructor(n) = On(<<"destroy", "release">>, n)
    BY <1>1, <1>4 DEF Destructor
  <2> HIDE DEF two
  <2>6. Safe(p, s, two, Put(s, n, "cleared")) /\ two \in Seq(Calls)
    BY <2>2, <2>3, <2>4, SafeJoin, ConcatProperties
  <2> QED
    BY <1>3, <1>4, <2>4, <2>5, <2>6
<1>5. CASE n \in Temporaries /\ ~Maps(p, n)
  <2>1. Moves(p, n, s[n], "release", "cleared")
    BY <1>5 DEF Moves, Leaves
  <2>2. Safe(p, s, <<Op("release", n)>>, Put(s, n, "cleared")) /\ <<Op("release", n)>> \in Seq(Calls)
    BY <1>1, <1>2, <2>1, PutStep
  <2>3. Destructor(n) = On(<<"release">>, n) /\ On(<<"release">>, n) = <<Op("release", n)>>
    BY <1>1, <1>5, OnCalls DEF Destructor
  <2> QED
    BY <1>3, <1>5, <2>2, <2>3
<1>6. CASE n \in Finals /\ Maps(p, n)
  <2>1. /\ Moves(p, n, s[n], "close", "shut") /\ Moves(p, n, "shut", "shrink", "shrunk")
        /\ Moves(p, n, "shrunk", "release", "kept")
    BY <1>6 DEF Moves, Leaves, Settled
  <2>2. Safe(p, s, <<Op("close", n)>>, Put(s, n, "shut")) /\ <<Op("close", n)>> \in Seq(Calls)
    BY <1>1, <1>2, <2>1, PutStep
  <2>3. Safe(p, Put(s, n, "shut"), <<Op("shrink", n)>>, Put(s, n, "shrunk")) /\ <<Op("shrink", n)>> \in Seq(Calls)
    BY <1>2, <2>1, PutStep
  <2>4. Safe(p, Put(s, n, "shrunk"), <<Op("release", n)>>, Put(s, n, "kept")) /\ <<Op("release", n)>> \in Seq(Calls)
    BY <1>2, <2>1, PutStep
  <2> DEFINE three == <<Op("close", n), Op("shrink", n), Op("release", n)>>
  <2>5. /\ three = (<<Op("close", n)>> \o <<Op("shrink", n)>>) \o <<Op("release", n)>>
        /\ On(<<"close", "shrink", "release">>, n) = three
    BY OnCalls
  <2>6. Destructor(n) = On(<<"close", "shrink", "release">>, n)
    BY <1>1, <1>3, <1>6 DEF Destructor
  <2> HIDE DEF three
  <2>7. /\ Safe(p, s, <<Op("close", n)>> \o <<Op("shrink", n)>>, Put(s, n, "shrunk"))
        /\ <<Op("close", n)>> \o <<Op("shrink", n)>> \in Seq(Calls)
    BY <2>2, <2>3, SafeJoin, ConcatProperties
  <2>8. Safe(p, s, three, Put(s, n, "kept")) /\ three \in Seq(Calls)
    BY <2>4, <2>5, <2>7, SafeJoin, ConcatProperties
  <2> QED
    BY <1>6, <2>5, <2>6, <2>8
<1>7. CASE n \in Finals /\ ~Maps(p, n)
  <2>1. Moves(p, n, s[n], "release", "kept")
    BY <1>7 DEF Moves, Leaves, Settled
  <2>2. Safe(p, s, <<Op("release", n)>>, Put(s, n, "kept")) /\ <<Op("release", n)>> \in Seq(Calls)
    BY <1>1, <1>2, <2>1, PutStep
  <2>3. Destructor(n) = On(<<"release">>, n) /\ On(<<"release">>, n) = <<Op("release", n)>>
    BY <1>1, <1>7, OnCalls DEF Destructor
  <2> QED
    BY <1>7, <2>2, <2>3
<1> QED
  BY <1>3, <1>4, <1>5, <1>6, <1>7

LEMMA DumpIsSafe ==
  ASSUME NEW p, Agrees(p), NEW s, Quiet(s), NEW n \in Finals, s[n] = Done(n)
  PROVE  Safe(p, s, Dump(n), Put(s, n, Settled(p, n))) /\ Dump(n) \in Seq(Calls)
<1>1. /\ n \in Names /\ Used(p, n) /\ (Maps(p, n) <=> Mapped(n))
      /\ Put(s, n, s[n]) = s /\ s[n] \in Conditions /\ s \in Standings
  BY PutSame DEF Agrees, Maps, Names, Finals, Used, Quiet
<1>2. {"truncated", "saved"} \subseteq Conditions
      /\ {"truncate", "write"} \subseteq OpNames \ {"points", "segments", "export"}
  BY DEF Conditions, OpNames
<1>3. CASE Maps(p, n)
  <2>1. Dump(n) = <<>> /\ Settled(p, n) = s[n]
    BY <1>1, <1>3 DEF Dump, Settled
  <2> QED
    BY <1>1, <2>1, SafeNil
<1>4. CASE ~Maps(p, n)
  <2>1. Moves(p, n, s[n], "truncate", "truncated") /\ Moves(p, n, "truncated", "write", "saved")
    BY <1>4 DEF Moves, Leaves
  <2>2. Safe(p, s, <<Op("truncate", n)>>, Put(s, n, "truncated")) /\ <<Op("truncate", n)>> \in Seq(Calls)
    BY <1>1, <1>2, <2>1, PutStep
  <2>3. Safe(p, Put(s, n, "truncated"), <<Op("write", n)>>, Put(s, n, "saved")) /\ <<Op("write", n)>> \in Seq(Calls)
    BY <1>1, <1>2, <2>1, PutStep
  <2> DEFINE two == <<Op("truncate", n), Op("write", n)>>
  <2>4. two = <<Op("truncate", n)>> \o <<Op("write", n)>> /\ On(<<"truncate", "write">>, n) = two
    BY OnCalls
  <2>5. Dump(n) = On(<<"truncate", "write">>, n) /\ Settled(p, n) = "saved"
    BY <1>1, <1>4 DEF Dump, Settled
  <2> HIDE DEF two
  <2>6. Safe(p, s, two, Put(s, n, "saved")) /\ two \in Seq(Calls)
    BY <2>2, <2>3, <2>4, SafeJoin, ConcatProperties
  <2> QED
    BY <2>4, <2>5, <2>6
<1> QED
  BY <1>3, <1>4

\* One call that makes its storage what it has to be.
LEMMA UseIsSafe ==
  ASSUME NEW p, NEW s, Quiet(s), NEW n \in Names, Used(p, n), NEW op \in OpNames, NEW c \in Conditions,
         Uses(n, s[n], op, c),
         op \in {"points", "segments"} => s["index_build"] = "full",
         op = "export" => s["tags"] \in {"final", "saved"}
  PROVE  Safe(p, s, <<Op(op, n)>>, Put(s, n, c)) /\ <<Op(op, n)>> \in Seq(Calls)
<1>1. Moves(p, n, s[n], op, c)
  BY DEF Moves
<1>2. s \in Standings /\ \A m \in Names \ {n} : s[m] \notin Transient
  BY DEF Quiet
<1> QED
  BY <1>1, <1>2, SafeStep DEF Put

\* What the eight storages are, in the order in which they are made.
Row(a, b, c, d, e, f, g, h) ==
    [n \in Names |-> CASE n = "tags_import" -> a [] n = "graph_import" -> b
                       [] n = "osm_tags" -> c [] n = "osm_vertices" -> d
                       [] n = "tags" -> e [] n = "index_build" -> f
                       [] n = "index" -> g [] n = "graph" -> h]
Calm == Conditions \ Transient

LEMMA RowIs ==
  ASSUME NEW a, NEW b, NEW c, NEW d, NEW e, NEW f, NEW g, NEW h
  PROVE  /\ a \in Calm /\ b \in Calm /\ c \in Calm /\ d \in Calm /\ e \in Calm /\ f \in Calm /\ g \in Calm /\ h \in Calm
            => Quiet(Row(a, b, c, d, e, f, g, h))
         /\ Row(a, b, c, d, e, f, g, h)["tags_import"] = a
         /\ Row(a, b, c, d, e, f, g, h)["graph_import"] = b
         /\ Row(a, b, c, d, e, f, g, h)["osm_tags"] = c
         /\ Row(a, b, c, d, e, f, g, h)["osm_vertices"] = d
         /\ Row(a, b, c, d, e, f, g, h)["tags"] = e
         /\ Row(a, b, c, d, e, f, g, h)["index_build"] = f
         /\ Row(a, b, c, d, e, f, g, h)["index"] = g
         /\ Row(a, b, c, d, e, f, g, h)["graph"] = h
<1>1. Names = {"tags_import", "graph_import", "osm_tags", "osm_vertices", "tags", "index_build", "index", "graph"}
  BY DEF Names, Temporaries, Finals
<1> DEFINE r == Row(a, b, c, d, e, f, g, h)
<1>2. r["tags_import"] = a
  BY <1>1 DEF Row
<1>3. r["graph_import"] = b
  BY <1>1 DEF Row
<1>4. r["osm_tags"] = c
  BY <1>1 DEF Row
<1>5. r["osm_vertices"] = d
  BY <1>1 DEF Row
<1>6. r["tags"] = e
  BY <1>1 DEF Row
<1>7. r["index_build"] = f
  BY <1>1 DEF Row
<1>8. r["index"] = g
  BY <1>1 DEF Row
<1>9. r["graph"] = h
  BY <1>1 DEF Row
<1>10. r = [n \in Names |-> r[n]]
  <2> DEFINE F(n) == CASE n = "tags_import" -> a [] n = "graph_import" -> b [] n = "osm_tags" -> c
                       [] n = "osm_vertices" -> d [] n = "tags" -> e [] n = "index_build" -> f
                       [] n = "index" -> g [] n = "graph" -> h
  <2>1. r = [n \in Names |-> F(n)]
    BY DEF Row
  <2> HIDE DEF F, r
  <2> QED
    BY <2>1
<1> HIDE DEF r
<1> SUFFICES a \in Calm /\ b \in Calm /\ c \in Calm /\ d \in Calm /\ e \in Calm /\ f \in Calm
               /\ g \in Calm /\ h \in Calm => Quiet(r)
  BY <1>2, <1>3, <1>4, <1>5, <1>6, <1>7, <1>8, <1>9 DEF r
<1> HAVE a \in Calm /\ b \in Calm /\ c \in Calm /\ d \in Calm /\ e \in Calm /\ f \in Calm
         /\ g \in Calm /\ h \in Calm
<1>11. \A n \in Names : r[n] \in Calm
  BY <1>1, <1>2, <1>3, <1>4, <1>5, <1>6, <1>7, <1>8, <1>9
<1>12. r \in Standings /\ \A n \in Names : r[n] \notin Transient
  BY <1>10, <1>11 DEF Standings, Calm
<1>13. Quiet(r)
  BY <1>12 DEF Quiet
<1> QED
  BY <1>13

LEMMA RowChanges ==
  ASSUME NEW a, NEW b, NEW c, NEW d, NEW e, NEW f, NEW g, NEW h, NEW x
  PROVE  /\ Put(Row(a, b, c, d, e, f, g, h), "tags_import", x) = Row(x, b, c, d, e, f, g, h)
         /\ Put(Row(a, b, c, d, e, f, g, h), "graph_import", x) = Row(a, x, c, d, e, f, g, h)
         /\ Put(Row(a, b, c, d, e, f, g, h), "osm_tags", x) = Row(a, b, x, d, e, f, g, h)
         /\ Put(Row(a, b, c, d, e, f, g, h), "osm_vertices", x) = Row(a, b, c, x, e, f, g, h)
         /\ Put(Row(a, b, c, d, e, f, g, h), "tags", x) = Row(a, b, c, d, x, f, g, h)
         /\ Put(Row(a, b, c, d, e, f, g, h), "index_build", x) = Row(a, b, c, d, e, x, g, h)
         /\ Put(Row(a, b, c, d, e, f, g, h), "index", x) = Row(a, b, c, d, e, f, x, h)
         /\ Put(Row(a, b, c, d, e, f, g, h), "graph", x) = Row(a, b, c, d, e, f, g, x)
<1>1. Names = {"tags_import", "graph_import", "osm_tags", "osm_vertices", "tags", "index_build", "index", "graph"}
  BY DEF Names, Temporaries, Finals
<1>2. Put(Row(a, b, c, d, e, f, g, h), "tags_import", x) = Row(x, b, c, d, e, f, g, h)
  BY <1>1 DEF Put, Row
<1>3. Put(Row(a, b, c, d, e, f, g, h), "graph_import", x) = Row(a, x, c, d, e, f, g, h)
  BY <1>1 DEF Put, Row
<1>4. Put(Row(a, b, c, d, e, f, g, h), "osm_tags", x) = Row(a, b, x, d, e, f, g, h)
  BY <1>1 DEF Put, Row
<1>5. Put(Row(a, b, c, d, e, f, g, h), "osm_vertices", x) = Row(a, b, c, x, e, f, g, h)
  BY <1>1 DEF Put, Row
<1>6. Put(Row(a, b, c, d, e, f, g, h), "tags", x) = Row(a, b, c, d, x, f, g, h)
  BY <1>1 DEF Put, Row
<1>7. Put(Row(a, b, c, d, e, f, g, h), "index_build", x) = Row(a, b, c, d, e, x, g, h)
  BY <1>1 DEF Put, Row
<1>8. Put(Row(a, b, c, d, e, f, g, h), "index", x) = Row(a, b, c, d, e, f, x, h)
  BY <1>1 DEF Put, Row
<1>9. Put(Row(a, b, c, d, e, f, g, h), "graph", x) = Row(a, b, c, d, e, f, g, x)
  BY <1>1 DEF Put, Row
<1> QED
  BY <1>2, <1>3, <1>4, <1>5, <1>6, <1>7, <1>8, <1>9

Goes(p, s, calls, t) == Safe(p, s, calls, t) /\ calls \in Seq(Calls)

LEMMA GoesJoin ==
  ASSUME NEW p, NEW s, NEW t, NEW u, NEW a, NEW b, Goes(p, s, a, t), Goes(p, t, b, u)
  PROVE  Goes(p, s, a \o b, u)
BY SafeJoin, ConcatProperties DEF Goes

\* What a call does to a row, see RowIs and RowChanges.
LEMMA ConstructorGoes ==
  ASSUME NEW p, Agrees(p), NEW s, Quiet(s), NEW n \in Names, Used(p, n), s[n] = "off"
  PROVE  Goes(p, s, Constructor(n), Put(s, n, "blank"))
BY ConstructorIsSafe DEF Goes, Put

LEMMA DestructorGoes ==
  ASSUME NEW p, Agrees(p), NEW s, Quiet(s), NEW n \in Names, Used(p, n)
  PROVE  /\ n \in Temporaries /\ s[n] \in {"blank", "full"} => Goes(p, s, Destructor(n), Put(s, n, "cleared"))
         /\ n \in Finals /\ s[n] = Settled(p, n) => Goes(p, s, Destructor(n), Put(s, n, "kept"))
<1>1. n \in Temporaries => n \notin Finals
  BY DEF Temporaries, Finals
<1> QED
  BY <1>1, DestructorIsSafe DEF Goes

LEMMA DumpGoes ==
  ASSUME NEW p, Agrees(p), NEW s, Quiet(s), NEW n \in Finals, s[n] = Done(n)
  PROVE  Goes(p, s, Dump(n), Put(s, n, Settled(p, n)))
BY DumpIsSafe DEF Goes

LEMMA UseGoes ==
  ASSUME NEW p, NEW s, Quiet(s), NEW n \in Names, Used(p, n)
  PROVE  /\ n # "index" /\ s[n] = "blank" => Goes(p, s, <<Op("fill", n)>>, Put(s, n, "full"))
         /\ n = "index" /\ s[n] = "blank" => Goes(p, s, <<Op("reserve", n)>>, Put(s, n, "ready"))
         /\ n = "index" /\ s[n] = "ready" /\ s["index_build"] = "full"
              => Goes(p, s, <<Op("points", n)>>, Put(s, n, "half"))
         /\ n = "index" /\ s[n] = "half" /\ s["index_build"] = "full"
              => Goes(p, s, <<Op("segments", n)>>, Put(s, n, "full"))
         /\ n = "tags" /\ s[n] = "full" => Goes(p, s, <<Op("finalize", n)>>, Put(s, n, "final"))
         /\ n = "graph" /\ s[n] = "off" => Goes(p, s, <<Op("check", n)>>, s)
         /\ n = "graph" /\ s[n] \in {"full", "saved"} /\ s["tags"] \in {"final", "saved"}
              => Goes(p, s, <<Op("export", n)>>, s)
<1>1. {"fill", "reserve", "points", "segments", "finalize", "check", "export"} \subseteq OpNames
      /\ {"full", "ready", "half", "final", "off", "saved"} \subseteq Conditions
  BY DEF OpNames, Conditions
<1>2. Put(s, n, s[n]) = s /\ s[n] \in Conditions
  BY PutSame
<1>3. ASSUME n # "index", s[n] = "blank" PROVE Goes(p, s, <<Op("fill", n)>>, Put(s, n, "full"))
  <2>1. Uses(n, s[n], "fill", "full")
    BY <1>3 DEF Uses
  <2> QED
    BY <1>1, <2>1, UseIsSafe DEF Goes
<1>4. ASSUME n = "index", s[n] = "blank" PROVE Goes(p, s, <<Op("reserve", n)>>, Put(s, n, "ready"))
  <2>1. Uses(n, s[n], "reserve", "ready")
    BY <1>4 DEF Uses
  <2> QED
    BY <1>1, <2>1, UseIsSafe DEF Goes
<1>5. ASSUME n = "index", s[n] = "ready", s["index_build"] = "full"
      PROVE  Goes(p, s, <<Op("points", n)>>, Put(s, n, "half"))
  <2>1. Uses(n, s[n], "points", "half")
    BY <1>5 DEF Uses
  <2> QED
    BY <1>1, <1>5, <2>1, UseIsSafe DEF Goes
<1>6. ASSUME n = "index", s[n] = "half", s["index_build"] = "full"
      PROVE  Goes(p, s, <<Op("segments", n)>>, Put(s, n, "full"))
  <2>1. Uses(n, s[n], "segments", "full")
    BY <1>6 DEF Uses
  <2> QED
    BY <1>1, <1>6, <2>1, UseIsSafe DEF Goes
<1>7. ASSUME n = "tags", s[n] = "full" PROVE Goes(p, s, <<Op("finalize", n)>>, Put(s, n, "final"))
  <2>1. Uses(n, s[n], "finalize", "final")
    BY <1>7 DEF Uses
  <2> QED
    BY <1>1, <2>1, UseIsSafe DEF Goes
<1>8. ASSUME n = "graph", s[n] = "off" PROVE Goes(p, s, <<Op("check", n)>>, s)
  <2>1. Uses(n, s[n], "check", s[n])
    BY <1>8 DEF Uses
  <2> QED
    BY <1>1, <1>2, <2>1, UseIsSafe DEF Goes
<1>9. ASSUME n = "graph", s[n] \in {"full", "saved"}, s["tags"] \in {"final", "saved"}
      PROVE  Goes(p, s, <<Op("export", n)>>, s)
  <2>1. Uses(n, s[n], "export", s[n])
    BY <1>9 DEF Uses
  <2> QED
    BY <1>1, <1>2, <1>9, <2>1, UseIsSafe DEF Goes
<1> QED
  BY <1>3, <1>4, <1>5, <1>6, <1>7, <1>8, <1>9

LEMMA ImportGoes ==
  ASSUME NEW p, Agrees(p)
  PROVE  \E a \in {"blank", "full"} :
           LET x == IF p.osm THEN "cleared" ELSE "off"
           IN  Goes(p, Row("off", "off", "off", "off", "off", "off", "off", "off"),
                    (<<Op("check", "graph")>> \o CreateNetworkImport) \o ImportNetwork,
                    Row(a, "full", x, x, "off", "off", "off", "off"))
<1>1. /\ "off" \in Calm /\ "blank" \in Calm /\ "ready" \in Calm /\ "half" \in Calm /\ "full" \in Calm
      /\ "final" \in Calm /\ "saved" \in Calm /\ "kept" \in Calm /\ "cleared" \in Calm
  BY DEF Calm, Conditions, Transient
<1>2. \A n \in Names \ {"osm_tags", "osm_vertices"} : Used(p, n)
  BY DEF Used
<1>3. /\ Finals = {"tags", "index", "graph"}
      /\ Names = {"tags_import", "graph_import", "osm_tags", "osm_vertices", "tags", "index_build",
           "index", "graph"}
      /\ Temporaries = {"tags_import", "graph_import", "osm_tags", "osm_vertices", "index_build"}
  BY DEF Names, Temporaries, Finals
<1>4. p.osm <=> format = "osm"
  BY DEF Agrees
<1>5. Goes(p, Row("off", "off", "off", "off", "off", "off", "off", "off"),
          <<Op("check", "graph")>>, Row("off", "off", "off", "off", "off", "off", "off", "off"))
  <2>1. /\ Quiet(Row("off", "off", "off", "off", "off", "off", "off", "off"))
        /\ Row("off", "off", "off", "off", "off", "off", "off", "off")["graph"] = "off"
    BY <1>1, RowIs
  <2> QED
    BY <1>1, <1>2, <1>3, <2>1, UseGoes
<1>6. Goes(p, Row("off", "off", "off", "off", "off", "off", "off", "off"),
          Constructor("tags_import"), Row("blank", "off", "off", "off", "off", "off", "off", "off"))
  <2>1. /\ Quiet(Row("off", "off", "off", "off", "off", "off", "off", "off"))
        /\ Row("off", "off", "off", "off", "off", "off", "off", "off")["tags_import"] = "off"
    BY <1>1, RowIs
  <2>2. Put(Row("off", "off", "off", "off", "off", "off", "off", "off"), "tags_import", "blank") =
            Row("blank", "off", "off", "off", "off", "off", "off", "off")
    BY RowChanges
  <2> QED
    BY <1>1, <1>2, <1>3, <2>1, <2>2, ConstructorGoes
<1>7. Goes(p, Row("blank", "off", "off", "off", "off", "off", "off", "off"),
          Constructor("graph_import"),
          Row("blank", "blank", "off", "off", "off", "off", "off", "off"))
  <2>1. /\ Quiet(Row("blank", "off", "off", "off", "off", "off", "off", "off"))
        /\ Row("blank", "off", "off", "off", "off", "off", "off", "off")["graph_import"] = "off"
    BY <1>1, RowIs
  <2>2. Put(Row("blank", "off", "off", "off", "off", "off", "off", "off"), "graph_import",
            "blank") = Row("blank", "blank", "off", "off", "off", "off", "off", "off")
    BY RowChanges
  <2> QED
    BY <1>1, <1>2, <1>3, <2>1, <2>2, ConstructorGoes
<1>8. Goes(p, Row("off", "off", "off", "off", "off", "off", "off", "off"), CreateNetworkImport,
          Row("blank", "blank", "off", "off", "off", "off", "off", "off"))
  BY <1>6, <1>7, GoesJoin DEF CreateNetworkImport
<1>9. Goes(p, Row("off", "off", "off", "off", "off", "off", "off", "off"), <<Op("check", "graph")>>
          \o CreateNetworkImport, Row("blank", "blank", "off", "off", "off", "off", "off", "off"))
  BY <1>5, <1>8, GoesJoin
<1>10. CASE ~p.osm
  <2>1. Goes(p, Row("blank", "blank", "off", "off", "off", "off", "off", "off"),
            <<Op("fill", "graph_import")>>,
            Row("blank", "full", "off", "off", "off", "off", "off", "off"))
    <3>1. /\ Quiet(Row("blank", "blank", "off", "off", "off", "off", "off", "off"))
          /\ Row("blank", "blank", "off", "off", "off", "off", "off", "off")["graph_import"] =
               "blank"
      BY <1>1, RowIs
    <3>2. Put(Row("blank", "blank", "off", "off", "off", "off", "off", "off"), "graph_import",
              "full") = Row("blank", "full", "off", "off", "off", "off", "off", "off")
      BY RowChanges
    <3> QED
      BY <1>1, <1>2, <1>3, <3>1, <3>2, UseGoes
  <2>2. ImportNetwork = <<Op("fill", "graph_import")>>
    BY <1>4, <1>10 DEF ImportNetwork
  <2> QED
    BY <1>9, <1>10, <2>1, <2>2, GoesJoin
<1>11. CASE p.osm
  <2>1. Used(p, "osm_tags") /\ Used(p, "osm_vertices")
    BY <1>11 DEF Used
  <2>2. Goes(p, Row("blank", "blank", "off", "off", "off", "off", "off", "off"),
            Constructor("osm_tags"), Row("blank", "blank", "blank", "off", "off", "off", "off",
            "off"))
    <3>1. /\ Quiet(Row("blank", "blank", "off", "off", "off", "off", "off", "off"))
          /\ Row("blank", "blank", "off", "off", "off", "off", "off", "off")["osm_tags"] = "off"
      BY <1>1, RowIs
    <3>2. Put(Row("blank", "blank", "off", "off", "off", "off", "off", "off"), "osm_tags",
              "blank") = Row("blank", "blank", "blank", "off", "off", "off", "off", "off")
      BY RowChanges
    <3> QED
      BY <1>1, <1>2, <1>3, <2>1, <3>1, <3>2, ConstructorGoes
  <2>3. Goes(p, Row("blank", "blank", "blank", "off", "off", "off", "off", "off"),
            Constructor("osm_vertices"),
            Row("blank", "blank", "blank", "blank", "off", "off", "off", "off"))
    <3>1. /\ Quiet(Row("blank", "blank", "blank", "off", "off", "off", "off", "off"))
          /\ Row("blank", "blank", "blank", "off", "off", "off", "off", "off")["osm_vertices"] =
               "off"
      BY <1>1, RowIs
    <3>2. Put(Row("blank", "blank", "blank", "off", "off", "off", "off", "off"), "osm_vertices",
              "blank") = Row("blank", "blank", "blank", "blank", "off", "off", "off", "off")
      BY RowChanges
    <3> QED
      BY <1>1, <1>2, <1>3, <2>1, <3>1, <3>2, ConstructorGoes
  <2>4. Goes(p, Row("blank", "blank", "blank", "blank", "off", "off", "off", "off"),
            <<Op("fill", "osm_vertices")>>,
            Row("blank", "blank", "blank", "full", "off", "off", "off", "off"))
    <3>1. /\ Quiet(Row("blank", "blank", "blank", "blank", "off", "off", "off", "off"))
          /\ Row("blank", "blank", "blank", "blank", "off", "off", "off", "off")["osm_vertices"] =
               "blank"
      BY <1>1, RowIs
    <3>2. Put(Row("blank", "blank", "blank", "blank", "off", "off", "off", "off"), "osm_vertices",
              "full") = Row("blank", "blank", "blank", "full", "off", "off", "off", "off")
      BY RowChanges
    <3> QED
      BY <1>1, <1>2, <1>3, <2>1, <3>1, <3>2, UseGoes
  <2>5. Goes(p, Row("blank", "blank", "blank", "full", "off", "off", "off", "off"),
            <<Op("fill", "osm_tags")>>,
            Row("blank", "blank", "full", "full", "off", "off", "off", "off"))
    <3>1. /\ Quiet(Row("blank", "blank", "blank", "full", "off", "off", "off", "off"))
          /\ Row("blank", "blank", "blank", "full", "off", "off", "off", "off")["osm_tags"] =
               "blank"
      BY <1>1, RowIs
    <3>2. Put(Row("blank", "blank", "blank", "full", "off", "off", "off", "off"), "osm_tags",
              "full") = Row("blank", "blank", "full", "full", "off", "off", "off", "off")
      BY RowChanges
    <3> QED
      BY <1>1, <1>2, <1>3, <2>1, <3>1, <3>2, UseGoes
  <2>6. Goes(p, Row("blank", "blank", "full", "full", "off", "off", "off", "off"),
            <<Op("fill", "tags_import")>>,
            Row("full", "blank", "full", "full", "off", "off", "off", "off"))
    <3>1. /\ Quiet(Row("blank", "blank", "full", "full", "off", "off", "off", "off"))
          /\ Row("blank", "blank", "full", "full", "off", "off", "off", "off")["tags_import"] =
               "blank"
      BY <1>1, RowIs
    <3>2. Put(Row("blank", "blank", "full", "full", "off", "off", "off", "off"), "tags_import",
              "full") = Row("full", "blank", "full", "full", "off", "off", "off", "off")
      BY RowChanges
    <3> QED
      BY <1>1, <1>2, <1>3, <2>1, <3>1, <3>2, UseGoes
  <2>7. Goes(p, Row("full", "blank", "full", "full", "off", "off", "off", "off"),
            <<Op("fill", "graph_import")>>,
            Row("full", "full", "full", "full", "off", "off", "off", "off"))
    <3>1. /\ Quiet(Row("full", "blank", "full", "full", "off", "off", "off", "off"))
          /\ Row("full", "blank", "full", "full", "off", "off", "off", "off")["graph_import"] =
               "blank"
      BY <1>1, RowIs
    <3>2. Put(Row("full", "blank", "full", "full", "off", "off", "off", "off"), "graph_import",
              "full") = Row("full", "full", "full", "full", "off", "off", "off", "off")
      BY RowChanges
    <3> QED
      BY <1>1, <1>2, <1>3, <2>1, <3>1, <3>2, UseGoes
  <2>8. Goes(p, Row("full", "full", "full", "full", "off", "off", "off", "off"),
            Destructor("osm_tags"), Row("full", "full", "cleared", "full", "off", "off", "off",
            "off"))
    <3>1. /\ Quiet(Row("full", "full", "full", "full", "off", "off", "off", "off"))
          /\ Row("full", "full", "full", "full", "off", "off", "off", "off")["osm_tags"] = "full"
      BY <1>1, RowIs
    <3>2. Put(Row("full", "full", "full", "full", "off", "off", "off", "off"), "osm_tags",
              "cleared") = Row("full", "full", "cleared", "full", "off", "off", "off", "off")
      BY RowChanges
    <3> QED
      BY <1>1, <1>2, <1>3, <2>1, <3>1, <3>2, DestructorGoes
  <2>9. Goes(p, Row("full", "full", "cleared", "full", "off", "off", "off", "off"),
            Destructor("osm_vertices"),
            Row("full", "full", "cleared", "cleared", "off", "off", "off", "off"))
    <3>1. /\ Quiet(Row("full", "full", "cleared", "full", "off", "off", "off", "off"))
          /\ Row("full", "full", "cleared", "full", "off", "off", "off", "off")["osm_vertices"] =
               "full"
      BY <1>1, RowIs
    <3>2. Put(Row("full", "full", "cleared", "full", "off", "off", "off", "off"), "osm_vertices",
              "cleared") = Row("full", "full", "cleared", "cleared", "off", "off", "off", "off")
      BY RowChanges
    <3> QED
      BY <1>1, <1>2, <1>3, <2>1, <3>1, <3>2, DestructorGoes
  <2>10. Goes(p, Row("blank", "blank", "blank", "blank", "off", "off", "off", "off"),
             <<Op("fill", "osm_vertices")>> \o <<Op("fill", "osm_tags")>>,
             Row("blank", "blank", "full", "full", "off", "off", "off", "off"))
    BY <2>4, <2>5, GoesJoin
  <2>11. Goes(p, Row("blank", "blank", "blank", "blank", "off", "off", "off", "off"),
             (<<Op("fill", "osm_vertices")>> \o <<Op("fill", "osm_tags")>>)
             \o <<Op("fill", "tags_import")>>,
             Row("full", "blank", "full", "full", "off", "off", "off", "off"))
    BY <2>10, <2>6, GoesJoin
  <2>12. Goes(p, Row("blank", "blank", "blank", "blank", "off", "off", "off", "off"),
             ((<<Op("fill", "osm_vertices")>> \o <<Op("fill", "osm_tags")>>)
             \o <<Op("fill", "tags_import")>>) \o <<Op("fill", "graph_import")>>,
             Row("full", "full", "full", "full", "off", "off", "off", "off"))
    BY <2>11, <2>7, GoesJoin
  <2>13. ((<<Op("fill", "osm_vertices")>> \o <<Op("fill", "osm_tags")>>)
             \o <<Op("fill", "tags_import")>>) \o <<Op("fill", "graph_import")>> =
             <<Op("fill", "osm_vertices"), Op("fill", "osm_tags"), Op("fill", "tags_import"),
             Op("fill", "graph_import")>>
    BY SinglesJoin
  <2>14. Goes(p, Row("blank", "blank", "blank", "blank", "off", "off", "off", "off"),
             <<Op("fill", "osm_vertices"), Op("fill", "osm_tags"), Op("fill", "tags_import"),
             Op("fill", "graph_import")>>,
             Row("full", "full", "full", "full", "off", "off", "off", "off"))
    BY <2>12, <2>13
  <2>15. Goes(p, Row("blank", "blank", "off", "off", "off", "off", "off", "off"),
             Constructor("osm_tags") \o Constructor("osm_vertices"),
             Row("blank", "blank", "blank", "blank", "off", "off", "off", "off"))
    BY <2>2, <2>3, GoesJoin
  <2>16. Goes(p, Row("blank", "blank", "off", "off", "off", "off", "off", "off"),
             (Constructor("osm_tags") \o Constructor("osm_vertices"))
             \o <<Op("fill", "osm_vertices"), Op("fill", "osm_tags"), Op("fill", "tags_import"),
             Op("fill", "graph_import")>>,
             Row("full", "full", "full", "full", "off", "off", "off", "off"))
    BY <2>15, <2>14, GoesJoin
  <2>17. Goes(p, Row("blank", "blank", "off", "off", "off", "off", "off", "off"),
             ((Constructor("osm_tags") \o Constructor("osm_vertices"))
             \o <<Op("fill", "osm_vertices"), Op("fill", "osm_tags"), Op("fill", "tags_import"),
             Op("fill", "graph_import")>>) \o Destructor("osm_tags"),
             Row("full", "full", "cleared", "full", "off", "off", "off", "off"))
    BY <2>16, <2>8, GoesJoin
  <2>18. Goes(p, Row("blank", "blank", "off", "off", "off", "off", "off", "off"),
             (((Constructor("osm_tags") \o Constructor("osm_vertices"))
             \o <<Op("fill", "osm_vertices"), Op("fill", "osm_tags"), Op("fill", "tags_import"),
             Op("fill", "graph_import")>>) \o Destructor("osm_tags"))
             \o Destructor("osm_vertices"),
             Row("full", "full", "cleared", "cleared", "off", "off", "off", "off"))
    BY <2>17, <2>9, GoesJoin
  <2>19. Goes(p, Row("blank", "blank", "off", "off", "off", "off", "off", "off"), ImportNetwork,
             Row("full", "full", "cleared", "cleared", "off", "off", "off", "off"))
    BY <1>4, <1>11, <2>18 DEF ImportNetwork
  <2> QED
    BY <1>9, <1>11, <2>19, GoesJoin
<1> QED
  BY <1>10, <1>11

LEMMA NetworkGoes ==
  ASSUME NEW p, Agrees(p), NEW a \in {"blank", "full"}, NEW x \in {"cleared", "off"}, NEW s, NEW calls,
         Goes(p, s, calls, Row(a, "full", x, x, "off", "off", "off", "off"))
  PROVE  Goes(p, s, ((calls \o CreateNetwork) \o FinishImport) \o FinishPreparation,
              Row("cleared", "cleared", x, x, "kept", "cleared", "kept", "kept"))
<1>1. /\ "off" \in Calm /\ "blank" \in Calm /\ "ready" \in Calm /\ "half" \in Calm /\ "full" \in Calm
      /\ "final" \in Calm /\ "saved" \in Calm /\ "kept" \in Calm /\ "cleared" \in Calm
  BY DEF Calm, Conditions, Transient
<1>2. \A n \in Names \ {"osm_tags", "osm_vertices"} : Used(p, n)
  BY DEF Used
<1>3. /\ Finals = {"tags", "index", "graph"}
      /\ Names = {"tags_import", "graph_import", "osm_tags", "osm_vertices", "tags", "index_build",
           "index", "graph"}
      /\ Temporaries = {"tags_import", "graph_import", "osm_tags", "osm_vertices", "index_build"}
  BY DEF Names, Temporaries, Finals
<1>4. /\ a \in Calm /\ x \in Calm
      /\ Settled(p, "tags") \in {"final", "saved"} /\ Settled(p, "graph") \in {"full", "saved"}
      /\ Settled(p, "index") \in {"full", "saved"}
  BY <1>1 DEF Settled, Done
<1>5. Settled(p, "tags") \in Calm /\ Settled(p, "graph") \in Calm /\ Settled(p, "index") \in Calm
  BY <1>1, <1>4
<1>6. Goes(p, Row(a, "full", x, x, "off", "off", "off", "off"), Constructor("tags"),
          Row(a, "full", x, x, "blank", "off", "off", "off"))
  <2>1. /\ Quiet(Row(a, "full", x, x, "off", "off", "off", "off"))
        /\ Row(a, "full", x, x, "off", "off", "off", "off")["tags"] = "off"
    BY <1>1, <1>4, <1>5, RowIs
  <2>2. Put(Row(a, "full", x, x, "off", "off", "off", "off"), "tags", "blank") =
            Row(a, "full", x, x, "blank", "off", "off", "off")
    BY RowChanges
  <2> QED
    BY <1>1, <1>2, <1>3, <1>4, <1>5, <2>1, <2>2, ConstructorGoes
<1>7. Goes(p, Row(a, "full", x, x, "blank", "off", "off", "off"), Constructor("index_build"),
          Row(a, "full", x, x, "blank", "blank", "off", "off"))
  <2>1. /\ Quiet(Row(a, "full", x, x, "blank", "off", "off", "off"))
        /\ Row(a, "full", x, x, "blank", "off", "off", "off")["index_build"] = "off"
    BY <1>1, <1>4, <1>5, RowIs
  <2>2. Put(Row(a, "full", x, x, "blank", "off", "off", "off"), "index_build", "blank") =
            Row(a, "full", x, x, "blank", "blank", "off", "off")
    BY RowChanges
  <2> QED
    BY <1>1, <1>2, <1>3, <1>4, <1>5, <2>1, <2>2, ConstructorGoes
<1>8. Goes(p, Row(a, "full", x, x, "blank", "blank", "off", "off"), Constructor("index"),
          Row(a, "full", x, x, "blank", "blank", "blank", "off"))
  <2>1. /\ Quiet(Row(a, "full", x, x, "blank", "blank", "off", "off"))
        /\ Row(a, "full", x, x, "blank", "blank", "off", "off")["index"] = "off"
    BY <1>1, <1>4, <1>5, RowIs
  <2>2. Put(Row(a, "full", x, x, "blank", "blank", "off", "off"), "index", "blank") =
            Row(a, "full", x, x, "blank", "blank", "blank", "off")
    BY RowChanges
  <2> QED
    BY <1>1, <1>2, <1>3, <1>4, <1>5, <2>1, <2>2, ConstructorGoes
<1>9. Goes(p, Row(a, "full", x, x, "blank", "blank", "blank", "off"), Constructor("graph"),
          Row(a, "full", x, x, "blank", "blank", "blank", "blank"))
  <2>1. /\ Quiet(Row(a, "full", x, x, "blank", "blank", "blank", "off"))
        /\ Row(a, "full", x, x, "blank", "blank", "blank", "off")["graph"] = "off"
    BY <1>1, <1>4, <1>5, RowIs
  <2>2. Put(Row(a, "full", x, x, "blank", "blank", "blank", "off"), "graph", "blank") =
            Row(a, "full", x, x, "blank", "blank", "blank", "blank")
    BY RowChanges
  <2> QED
    BY <1>1, <1>2, <1>3, <1>4, <1>5, <2>1, <2>2, ConstructorGoes
<1>10. Goes(p, Row(a, "full", x, x, "off", "off", "off", "off"), Constructor("tags")
           \o Constructor("index_build"), Row(a, "full", x, x, "blank", "blank", "off", "off"))
  BY <1>6, <1>7, GoesJoin
<1>11. Goes(p, Row(a, "full", x, x, "off", "off", "off", "off"),
           (Constructor("tags") \o Constructor("index_build")) \o Constructor("index"),
           Row(a, "full", x, x, "blank", "blank", "blank", "off"))
  BY <1>10, <1>8, GoesJoin
<1>12. Goes(p, Row(a, "full", x, x, "off", "off", "off", "off"),
           ((Constructor("tags") \o Constructor("index_build")) \o Constructor("index"))
           \o Constructor("graph"), Row(a, "full", x, x, "blank", "blank", "blank", "blank"))
  BY <1>11, <1>9, GoesJoin
<1>13. Goes(p, Row(a, "full", x, x, "off", "off", "off", "off"), CreateNetwork,
           Row(a, "full", x, x, "blank", "blank", "blank", "blank"))
  BY <1>12 DEF CreateNetwork
<1>14. Goes(p, Row(a, "full", x, x, "blank", "blank", "blank", "blank"), <<Op("fill", "tags")>>,
           Row(a, "full", x, x, "full", "blank", "blank", "blank"))
  <2>1. /\ Quiet(Row(a, "full", x, x, "blank", "blank", "blank", "blank"))
        /\ Row(a, "full", x, x, "blank", "blank", "blank", "blank")["tags"] = "blank"
    BY <1>1, <1>4, <1>5, RowIs
  <2>2. Put(Row(a, "full", x, x, "blank", "blank", "blank", "blank"), "tags", "full") =
            Row(a, "full", x, x, "full", "blank", "blank", "blank")
    BY RowChanges
  <2> QED
    BY <1>1, <1>2, <1>3, <1>4, <1>5, <2>1, <2>2, UseGoes
<1>15. Goes(p, Row(a, "full", x, x, "full", "blank", "blank", "blank"), <<Op("fill", "graph")>>,
           Row(a, "full", x, x, "full", "blank", "blank", "full"))
  <2>1. /\ Quiet(Row(a, "full", x, x, "full", "blank", "blank", "blank"))
        /\ Row(a, "full", x, x, "full", "blank", "blank", "blank")["graph"] = "blank"
    BY <1>1, <1>4, <1>5, RowIs
  <2>2. Put(Row(a, "full", x, x, "full", "blank", "blank", "blank"), "graph", "full") =
            Row(a, "full", x, x, "full", "blank", "blank", "full")
    BY RowChanges
  <2> QED
    BY <1>1, <1>2, <1>3, <1>4, <1>5, <2>1, <2>2, UseGoes
<1>16. Goes(p, Row(a, "full", x, x, "full", "blank", "blank", "full"), <<Op("finalize", "tags")>>,
           Row(a, "full", x, x, "final", "blank", "blank", "full"))
  <2>1. /\ Quiet(Row(a, "full", x, x, "full", "blank", "blank", "full"))
        /\ Row(a, "full", x, x, "full", "blank", "blank", "full")["tags"] = "full"
    BY <1>1, <1>4, <1>5, RowIs
  <2>2. Put(Row(a, "full", x, x, "full", "blank", "blank", "full"), "tags", "final") =
            Row(a, "full", x, x, "final", "blank", "blank", "full")
    BY RowChanges
  <2> QED
    BY <1>1, <1>2, <1>3, <1>4, <1>5, <2>1, <2>2, UseGoes
<1>17. Goes(p, Row(a, "full", x, x, "final", "blank", "blank", "full"), Destructor("tags_import"),
           Row("cleared", "full", x, x, "final", "blank", "blank", "full"))
  <2>1. /\ Quiet(Row(a, "full", x, x, "final", "blank", "blank", "full"))
        /\ Row(a, "full", x, x, "final", "blank", "blank", "full")["tags_import"] = a
    BY <1>1, <1>4, <1>5, RowIs
  <2>2. Put(Row(a, "full", x, x, "final", "blank", "blank", "full"), "tags_import", "cleared") =
            Row("cleared", "full", x, x, "final", "blank", "blank", "full")
    BY RowChanges
  <2> QED
    BY <1>1, <1>2, <1>3, <1>4, <1>5, <2>1, <2>2, DestructorGoes
<1>18. Goes(p, Row("cleared", "full", x, x, "final", "blank", "blank", "full"),
           Destructor("graph_import"),
           Row("cleared", "cleared", x, x, "final", "blank", "blank", "full"))
  <2>1. /\ Quiet(Row("cleared", "full", x, x, "final", "blank", "blank", "full"))
        /\ Row("cleared", "full", x, x, "final", "blank", "blank", "full")["graph_import"] = "full"
    BY <1>1, <1>4, <1>5, RowIs
  <2>2. Put(Row("cleared", "full", x, x, "final", "blank", "blank", "full"), "graph_import",
            "cleared") = Row("cleared", "cleared", x, x, "final", "blank", "blank", "full")
    BY RowChanges
  <2> QED
    BY <1>1, <1>2, <1>3, <1>4, <1>5, <2>1, <2>2, DestructorGoes
<1>19. Goes(p, Row(a, "full", x, x, "blank", "blank", "blank", "blank"), <<Op("fill", "tags")>>
           \o <<Op("fill", "graph")>>, Row(a, "full", x, x, "full", "blank", "blank", "full"))
  BY <1>14, <1>15, GoesJoin
<1>20. Goes(p, Row(a, "full", x, x, "blank", "blank", "blank", "blank"),
           (<<Op("fill", "tags")>> \o <<Op("fill", "graph")>>) \o <<Op("finalize", "tags")>>,
           Row(a, "full", x, x, "final", "blank", "blank", "full"))
  BY <1>19, <1>16, GoesJoin
<1>21. (<<Op("fill", "tags")>> \o <<Op("fill", "graph")>>) \o <<Op("finalize", "tags")>> =
           <<Op("fill", "tags"), Op("fill", "graph"), Op("finalize", "tags")>>
  BY SinglesJoin
<1>22. Goes(p, Row(a, "full", x, x, "blank", "blank", "blank", "blank"),
           <<Op("fill", "tags"), Op("fill", "graph"), Op("finalize", "tags")>>,
           Row(a, "full", x, x, "final", "blank", "blank", "full"))
  BY <1>20, <1>21
<1>23. Goes(p, Row(a, "full", x, x, "blank", "blank", "blank", "blank"),
           <<Op("fill", "tags"), Op("fill", "graph"), Op("finalize", "tags")>>
           \o Destructor("tags_import"),
           Row("cleared", "full", x, x, "final", "blank", "blank", "full"))
  BY <1>22, <1>17, GoesJoin
<1>24. Goes(p, Row(a, "full", x, x, "blank", "blank", "blank", "blank"),
           (<<Op("fill", "tags"), Op("fill", "graph"), Op("finalize", "tags")>>
           \o Destructor("tags_import")) \o Destructor("graph_import"),
           Row("cleared", "cleared", x, x, "final", "blank", "blank", "full"))
  BY <1>23, <1>18, GoesJoin
<1>25. Goes(p, Row(a, "full", x, x, "blank", "blank", "blank", "blank"), FinishImport,
           Row("cleared", "cleared", x, x, "final", "blank", "blank", "full"))
  BY <1>24 DEF FinishImport
<1>26. Goes(p, Row("cleared", "cleared", x, x, "final", "blank", "blank", "full"),
           <<Op("fill", "index_build")>>,
           Row("cleared", "cleared", x, x, "final", "full", "blank", "full"))
  <2>1. /\ Quiet(Row("cleared", "cleared", x, x, "final", "blank", "blank", "full"))
        /\ Row("cleared", "cleared", x, x, "final", "blank", "blank", "full")["index_build"] =
             "blank"
    BY <1>1, <1>4, <1>5, RowIs
  <2>2. Put(Row("cleared", "cleared", x, x, "final", "blank", "blank", "full"), "index_build",
            "full") = Row("cleared", "cleared", x, x, "final", "full", "blank", "full")
    BY RowChanges
  <2> QED
    BY <1>1, <1>2, <1>3, <1>4, <1>5, <2>1, <2>2, UseGoes
<1>27. Goes(p, Row("cleared", "cleared", x, x, "final", "full", "blank", "full"),
           <<Op("reserve", "index")>>,
           Row("cleared", "cleared", x, x, "final", "full", "ready", "full"))
  <2>1. /\ Quiet(Row("cleared", "cleared", x, x, "final", "full", "blank", "full"))
        /\ Row("cleared", "cleared", x, x, "final", "full", "blank", "full")["index"] = "blank"
    BY <1>1, <1>4, <1>5, RowIs
  <2>2. Put(Row("cleared", "cleared", x, x, "final", "full", "blank", "full"), "index", "ready") =
            Row("cleared", "cleared", x, x, "final", "full", "ready", "full")
    BY RowChanges
  <2> QED
    BY <1>1, <1>2, <1>3, <1>4, <1>5, <2>1, <2>2, UseGoes
<1>28. Goes(p, Row("cleared", "cleared", x, x, "final", "full", "ready", "full"),
           <<Op("points", "index")>>,
           Row("cleared", "cleared", x, x, "final", "full", "half", "full"))
  <2>1. /\ Quiet(Row("cleared", "cleared", x, x, "final", "full", "ready", "full"))
        /\ Row("cleared", "cleared", x, x, "final", "full", "ready", "full")["index"] = "ready"
        /\ Row("cleared", "cleared", x, x, "final", "full", "ready", "full")["index_build"] = "full"
    BY <1>1, <1>4, <1>5, RowIs
  <2>2. Put(Row("cleared", "cleared", x, x, "final", "full", "ready", "full"), "index", "half") =
            Row("cleared", "cleared", x, x, "final", "full", "half", "full")
    BY RowChanges
  <2> QED
    BY <1>1, <1>2, <1>3, <1>4, <1>5, <2>1, <2>2, UseGoes
<1>29. Goes(p, Row("cleared", "cleared", x, x, "final", "full", "half", "full"),
           <<Op("segments", "index")>>,
           Row("cleared", "cleared", x, x, "final", "full", "full", "full"))
  <2>1. /\ Quiet(Row("cleared", "cleared", x, x, "final", "full", "half", "full"))
        /\ Row("cleared", "cleared", x, x, "final", "full", "half", "full")["index"] = "half"
        /\ Row("cleared", "cleared", x, x, "final", "full", "half", "full")["index_build"] = "full"
    BY <1>1, <1>4, <1>5, RowIs
  <2>2. Put(Row("cleared", "cleared", x, x, "final", "full", "half", "full"), "index", "full") =
            Row("cleared", "cleared", x, x, "final", "full", "full", "full")
    BY RowChanges
  <2> QED
    BY <1>1, <1>2, <1>3, <1>4, <1>5, <2>1, <2>2, UseGoes
<1>30. Goes(p, Row("cleared", "cleared", x, x, "final", "full", "full", "full"), Dump("tags"),
           Row("cleared", "cleared", x, x, Settled(p, "tags"), "full", "full", "full"))
  <2>1. /\ Quiet(Row("cleared", "cleared", x, x, "final", "full", "full", "full"))
        /\ Row("cleared", "cleared", x, x, "final", "full", "full", "full")["tags"] = "final"
    BY <1>1, <1>4, <1>5, RowIs
  <2>2. Put(Row("cleared", "cleared", x, x, "final", "full", "full", "full"), "tags",
            Settled(p, "tags")) = Row("cleared", "cleared", x, x, Settled(p, "tags"), "full",
            "full", "full")
    BY RowChanges
  <2> QED
    BY <1>1, <1>2, <1>3, <1>4, <1>5, <2>1, <2>2, DumpGoes DEF Done
<1>31. Goes(p, Row("cleared", "cleared", x, x, Settled(p, "tags"), "full", "full", "full"),
           Dump("index"), Row("cleared", "cleared", x, x, Settled(p, "tags"), "full",
           Settled(p, "index"), "full"))
  <2>1. /\ Quiet(Row("cleared", "cleared", x, x, Settled(p, "tags"), "full", "full", "full"))
        /\ Row("cleared", "cleared", x, x, Settled(p, "tags"), "full", "full", "full")["index"] =
             "full"
    BY <1>1, <1>4, <1>5, RowIs
  <2>2. Put(Row("cleared", "cleared", x, x, Settled(p, "tags"), "full", "full", "full"), "index",
            Settled(p, "index")) = Row("cleared", "cleared", x, x, Settled(p, "tags"), "full",
            Settled(p, "index"), "full")
    BY RowChanges
  <2> QED
    BY <1>1, <1>2, <1>3, <1>4, <1>5, <2>1, <2>2, DumpGoes DEF Done
<1>32. Goes(p, Row("cleared", "cleared", x, x, Settled(p, "tags"), "full", Settled(p, "index"),
           "full"), Dump("graph"), Row("cleared", "cleared", x, x, Settled(p, "tags"), "full",
           Settled(p, "index"), Settled(p, "graph")))
  <2>1. /\ Quiet(Row("cleared", "cleared", x, x, Settled(p, "tags"), "full", Settled(p, "index"),
             "full"))
        /\ Row("cleared", "cleared", x, x, Settled(p, "tags"), "full", Settled(p, "index"),
             "full")["graph"] = "full"
    BY <1>1, <1>4, <1>5, RowIs
  <2>2. Put(Row("cleared", "cleared", x, x, Settled(p, "tags"), "full", Settled(p, "index"),
            "full"), "graph", Settled(p, "graph")) =
            Row("cleared", "cleared", x, x, Settled(p, "tags"), "full", Settled(p, "index"),
            Settled(p, "graph"))
    BY RowChanges
  <2> QED
    BY <1>1, <1>2, <1>3, <1>4, <1>5, <2>1, <2>2, DumpGoes DEF Done
<1>33. Goes(p, Row("cleared", "cleared", x, x, Settled(p, "tags"), "full", Settled(p, "index"),
           Settled(p, "graph")), <<Op("export", "graph")>>,
           Row("cleared", "cleared", x, x, Settled(p, "tags"), "full", Settled(p, "index"),
           Settled(p, "graph")))
  <2>1. /\ Quiet(Row("cleared", "cleared", x, x, Settled(p, "tags"), "full", Settled(p, "index"),
             Settled(p, "graph")))
        /\ Row("cleared", "cleared", x, x, Settled(p, "tags"), "full", Settled(p, "index"),
             Settled(p, "graph"))["graph"] = Settled(p, "graph")
        /\ Row("cleared", "cleared", x, x, Settled(p, "tags"), "full", Settled(p, "index"),
             Settled(p, "graph"))["tags"] = Settled(p, "tags")
    BY <1>1, <1>4, <1>5, RowIs
  <2> QED
    BY <1>1, <1>2, <1>3, <1>4, <1>5, <2>1, UseGoes
<1>34. Goes(p, Row("cleared", "cleared", x, x, Settled(p, "tags"), "full", Settled(p, "index"),
           Settled(p, "graph")), Destructor("index_build"),
           Row("cleared", "cleared", x, x, Settled(p, "tags"), "cleared", Settled(p, "index"),
           Settled(p, "graph")))
  <2>1. /\ Quiet(Row("cleared", "cleared", x, x, Settled(p, "tags"), "full", Settled(p, "index"),
             Settled(p, "graph")))
        /\ Row("cleared", "cleared", x, x, Settled(p, "tags"), "full", Settled(p, "index"),
             Settled(p, "graph"))["index_build"] = "full"
    BY <1>1, <1>4, <1>5, RowIs
  <2>2. Put(Row("cleared", "cleared", x, x, Settled(p, "tags"), "full", Settled(p, "index"),
            Settled(p, "graph")), "index_build", "cleared") =
            Row("cleared", "cleared", x, x, Settled(p, "tags"), "cleared", Settled(p, "index"),
            Settled(p, "graph"))
    BY RowChanges
  <2> QED
    BY <1>1, <1>2, <1>3, <1>4, <1>5, <2>1, <2>2, DestructorGoes
<1>35. Goes(p, Row("cleared", "cleared", x, x, Settled(p, "tags"), "cleared", Settled(p, "index"),
           Settled(p, "graph")), Destructor("index"),
           Row("cleared", "cleared", x, x, Settled(p, "tags"), "cleared", "kept",
           Settled(p, "graph")))
  <2>1. /\ Quiet(Row("cleared", "cleared", x, x, Settled(p, "tags"), "cleared",
             Settled(p, "index"), Settled(p, "graph")))
        /\ Row("cleared", "cleared", x, x, Settled(p, "tags"), "cleared", Settled(p, "index"),
             Settled(p, "graph"))["index"] = Settled(p, "index")
    BY <1>1, <1>4, <1>5, RowIs
  <2>2. Put(Row("cleared", "cleared", x, x, Settled(p, "tags"), "cleared", Settled(p, "index"),
            Settled(p, "graph")), "index", "kept") =
            Row("cleared", "cleared", x, x, Settled(p, "tags"), "cleared", "kept",
            Settled(p, "graph"))
    BY RowChanges
  <2> QED
    BY <1>1, <1>2, <1>3, <1>4, <1>5, <2>1, <2>2, DestructorGoes
<1>36. Goes(p, Row("cleared", "cleared", x, x, Settled(p, "tags"), "cleared", "kept",
           Settled(p, "graph")), Destructor("tags"),
           Row("cleared", "cleared", x, x, "kept", "cleared", "kept", Settled(p, "graph")))
  <2>1. /\ Quiet(Row("cleared", "cleared", x, x, Settled(p, "tags"), "cleared", "kept",
             Settled(p, "graph")))
        /\ Row("cleared", "cleared", x, x, Settled(p, "tags"), "cleared", "kept",
             Settled(p, "graph"))["tags"] = Settled(p, "tags")
    BY <1>1, <1>4, <1>5, RowIs
  <2>2. Put(Row("cleared", "cleared", x, x, Settled(p, "tags"), "cleared", "kept",
            Settled(p, "graph")), "tags", "kept") =
            Row("cleared", "cleared", x, x, "kept", "cleared", "kept", Settled(p, "graph"))
    BY RowChanges
  <2> QED
    BY <1>1, <1>2, <1>3, <1>4, <1>5, <2>1, <2>2, DestructorGoes
<1>37. Goes(p, Row("cleared", "cleared", x, x, "kept", "cleared", "kept", Settled(p, "graph")),
           Destructor("graph"), Row("cleared", "cleared", x, x, "kept", "cleared", "kept", "kept"))
  <2>1. /\ Quiet(Row("cleared", "cleared", x, x, "kept", "cleared", "kept", Settled(p, "graph")))
        /\ Row("cleared", "cleared", x, x, "kept", "cleared", "kept",
             Settled(p, "graph"))["graph"] = Settled(p, "graph")
    BY <1>1, <1>4, <1>5, RowIs
  <2>2. Put(Row("cleared", "cleared", x, x, "kept", "cleared", "kept", Settled(p, "graph")),
            "graph", "kept") = Row("cleared", "cleared", x, x, "kept", "cleared", "kept", "kept")
    BY RowChanges
  <2> QED
    BY <1>1, <1>2, <1>3, <1>4, <1>5, <2>1, <2>2, DestructorGoes
<1>38. Goes(p, Row("cleared", "cleared", x, x, "final", "blank", "blank", "full"),
           <<Op("fill", "index_build")>> \o <<Op("reserve", "index")>>,
           Row("cleared", "cleared", x, x, "final", "full", "ready", "full"))
  BY <1>26, <1>27, GoesJoin
<1>39. Goes(p, Row("cleared", "cleared", x, x, "final", "blank", "blank", "full"),
           (<<Op("fill", "index_build")>> \o <<Op("reserve", "index")>>)
           \o <<Op("points", "index")>>,
           Row("cleared", "cleared", x, x, "final", "full", "half", "full"))
  BY <1>38, <1>28, GoesJoin
<1>40. Goes(p, Row("cleared", "cleared", x, x, "final", "blank", "blank", "full"),
           ((<<Op("fill", "index_build")>> \o <<Op("reserve", "index")>>)
           \o <<Op("points", "index")>>) \o <<Op("segments", "index")>>,
           Row("cleared", "cleared", x, x, "final", "full", "full", "full"))
  BY <1>39, <1>29, GoesJoin
<1>41. ((<<Op("fill", "index_build")>> \o <<Op("reserve", "index")>>) \o <<Op("points", "index")>>)
           \o <<Op("segments", "index")>> = BuildIndices
  BY SinglesJoin DEF BuildIndices
<1>42. Goes(p, Row("cleared", "cleared", x, x, "final", "blank", "blank", "full"), BuildIndices,
           Row("cleared", "cleared", x, x, "final", "full", "full", "full"))
  BY <1>40, <1>41
<1>43. Goes(p, Row("cleared", "cleared", x, x, "final", "full", "full", "full"), Dump("tags")
           \o Dump("index"), Row("cleared", "cleared", x, x, Settled(p, "tags"), "full",
           Settled(p, "index"), "full"))
  BY <1>30, <1>31, GoesJoin
<1>44. Goes(p, Row("cleared", "cleared", x, x, "final", "full", "full", "full"),
           (Dump("tags") \o Dump("index")) \o Dump("graph"),
           Row("cleared", "cleared", x, x, Settled(p, "tags"), "full", Settled(p, "index"),
           Settled(p, "graph")))
  BY <1>43, <1>32, GoesJoin
<1>45. Goes(p, Row("cleared", "cleared", x, x, "final", "full", "full", "full"), Serialize,
           Row("cleared", "cleared", x, x, Settled(p, "tags"), "full", Settled(p, "index"),
           Settled(p, "graph")))
  BY <1>44 DEF Serialize
<1>46. Goes(p, Row("cleared", "cleared", x, x, "final", "blank", "blank", "full"), BuildIndices
           \o Serialize, Row("cleared", "cleared", x, x, Settled(p, "tags"), "full",
           Settled(p, "index"), Settled(p, "graph")))
  BY <1>42, <1>45, GoesJoin
<1>47. Goes(p, Row("cleared", "cleared", x, x, "final", "blank", "blank", "full"),
           (BuildIndices \o Serialize) \o <<Op("export", "graph")>>,
           Row("cleared", "cleared", x, x, Settled(p, "tags"), "full", Settled(p, "index"),
           Settled(p, "graph")))
  BY <1>46, <1>33, GoesJoin
<1>48. Goes(p, Row("cleared", "cleared", x, x, "final", "blank", "blank", "full"),
           ((BuildIndices \o Serialize) \o <<Op("export", "graph")>>) \o Destructor("index_build"),
           Row("cleared", "cleared", x, x, Settled(p, "tags"), "cleared", Settled(p, "index"),
           Settled(p, "graph")))
  BY <1>47, <1>34, GoesJoin
<1>49. Goes(p, Row("cleared", "cleared", x, x, "final", "blank", "blank", "full"),
           (((BuildIndices \o Serialize) \o <<Op("export", "graph")>>)
           \o Destructor("index_build")) \o Destructor("index"),
           Row("cleared", "cleared", x, x, Settled(p, "tags"), "cleared", "kept",
           Settled(p, "graph")))
  BY <1>48, <1>35, GoesJoin
<1>50. Goes(p, Row("cleared", "cleared", x, x, "final", "blank", "blank", "full"),
           ((((BuildIndices \o Serialize) \o <<Op("export", "graph")>>)
           \o Destructor("index_build")) \o Destructor("index")) \o Destructor("tags"),
           Row("cleared", "cleared", x, x, "kept", "cleared", "kept", Settled(p, "graph")))
  BY <1>49, <1>36, GoesJoin
<1>51. Goes(p, Row("cleared", "cleared", x, x, "final", "blank", "blank", "full"),
           (((((BuildIndices \o Serialize) \o <<Op("export", "graph")>>)
           \o Destructor("index_build")) \o Destructor("index")) \o Destructor("tags"))
           \o Destructor("graph"), Row("cleared", "cleared", x, x, "kept", "cleared", "kept",
           "kept"))
  BY <1>50, <1>37, GoesJoin
<1>52. Goes(p, Row("cleared", "cleared", x, x, "final", "blank", "blank", "full"),
           FinishPreparation, Row("cleared", "cleared", x, x, "kept", "cleared", "kept", "kept"))
  BY <1>51 DEF FinishPreparation
<1>53. Goes(p, s, calls \o CreateNetwork, Row(a, "full", x, x, "blank", "blank", "blank", "blank"))
  BY <1>13, GoesJoin
<1>54. Goes(p, s, (calls \o CreateNetwork) \o FinishImport,
           Row("cleared", "cleared", x, x, "final", "blank", "blank", "full"))
  BY <1>53, <1>25, GoesJoin
<1> QED
  BY <1>54, <1>52, GoesJoin

AllOff == [n \in Names |-> "off"]

\* Every call of a preparation is made of a storage that is ready for it, and at the end
\* the network is kept and nothing else.
LEMMA ProgramIsSafe ==
  ASSUME NEW p, Agrees(p)
  PROVE  Safe(p, AllOff, Program, Goal(p)) /\ Program \in Seq(Calls)
<1> DEFINE x == IF p.osm THEN "cleared" ELSE "off"
           none == Row("off", "off", "off", "off", "off", "off", "off", "off")
           import_ == (<<Op("check", "graph")>> \o CreateNetworkImport) \o ImportNetwork
<1>1. PICK a \in {"blank", "full"} : Goes(p, none, import_, Row(a, "full", x, x, "off", "off", "off", "off"))
  BY ImportGoes
<1>2. x \in {"cleared", "off"}
  OBVIOUS
<1> HIDE DEF x, none, import_
<1>3. Goes(p, none, ((import_ \o CreateNetwork) \o FinishImport) \o FinishPreparation,
           Row("cleared", "cleared", x, x, "kept", "cleared", "kept", "kept"))
  BY <1>1, <1>2, NetworkGoes
<1>4. Program = ((import_ \o CreateNetwork) \o FinishImport) \o FinishPreparation
  BY DEF Program, import_
<1>5. none = AllOff
  <2> DEFINE F(n) == CASE n = "tags_import" -> "off" [] n = "graph_import" -> "off"
                       [] n = "osm_tags" -> "off" [] n = "osm_vertices" -> "off"
                       [] n = "tags" -> "off" [] n = "index_build" -> "off"
                       [] n = "index" -> "off" [] n = "graph" -> "off"
  <2>1. none = [n \in Names |-> F(n)]
    BY DEF none, Row
  <2>2. ASSUME NEW n \in Names PROVE F(n) = "off"
    BY DEF Names, Temporaries, Finals
  <2> HIDE DEF F
  <2> QED
    BY <2>1, <2>2 DEF AllOff
<1>6. Goal(p) = Row("cleared", "cleared", x, x, "kept", "cleared", "kept", "kept")
  <2> DEFINE r == Row("cleared", "cleared", x, x, "kept", "cleared", "kept", "kept")
  <2>1. /\ r["tags_import"] = "cleared" /\ r["graph_import"] = "cleared" /\ r["osm_tags"] = x
        /\ r["osm_vertices"] = x /\ r["tags"] = "kept" /\ r["index_build"] = "cleared"
        /\ r["index"] = "kept" /\ r["graph"] = "kept"
    BY RowIs
  <2>2. r = [n \in Names |-> r[n]]
    <3> DEFINE F(n) == CASE n = "tags_import" -> "cleared" [] n = "graph_import" -> "cleared"
                         [] n = "osm_tags" -> x [] n = "osm_vertices" -> x
                         [] n = "tags" -> "kept" [] n = "index_build" -> "cleared"
                         [] n = "index" -> "kept" [] n = "graph" -> "kept"
    <3>1. r = [n \in Names |-> F(n)]
      BY DEF Row
    <3> HIDE DEF F, r
    <3> QED
      BY <3>1
  <2> HIDE DEF r
  <2>3. ASSUME NEW n \in Names PROVE r[n] = IF n \in Finals THEN "kept" ELSE IF Used(p, n) THEN "cleared" ELSE "off"
    BY <2>1 DEF Names, Temporaries, Finals, Used, x
  <2>4. Goal(p) = [n \in Names |-> r[n]]
    BY <2>3 DEF Goal
  <2> QED
    BY <2>2, <2>4 DEF r
<1> QED
  BY <1>3, <1>4, <1>5, <1>6 DEF Goes

\* What a call may do, one call after the other.
LEMMA DestroyMoves ==
  ASSUME NEW p, NEW n \in Names, NEW s, NEW t, Moves(p, n, s, "destroy", t)
  PROVE  (s = "off" /\ t = "gone") \/ t \in {"dropped", "erased"}
<1>1. CASE Makes(p, n, s, "destroy", t)
  BY <1>1 DEF Makes
<1>2. CASE Uses(n, s, "destroy", t)
  BY <1>2 DEF Uses
<1>3. CASE Grows(p, n, s, "destroy", t)
  BY <1>3 DEF Grows
<1>4. CASE Drops(p, n, s, "destroy", t)
  BY <1>4 DEF Drops
<1>5. CASE Leaves(p, n, s, "destroy", t)
  BY <1>5 DEF Leaves
<1> QED
  BY <1>1, <1>2, <1>3, <1>4, <1>5 DEF Moves

LEMMA CreateMoves ==
  ASSUME NEW p, NEW n \in Names, NEW s, NEW t, Moves(p, n, s, "create", t)
  PROVE  Maps(p, n) /\ ((s = "gone" /\ t = "bare") \/ (s = "dropped" /\ t = "remade"))
<1>1. CASE Makes(p, n, s, "create", t)
  BY <1>1 DEF Makes
<1>2. CASE Uses(n, s, "create", t)
  BY <1>2 DEF Uses
<1>3. CASE Grows(p, n, s, "create", t)
  BY <1>3 DEF Grows
<1>4. CASE Drops(p, n, s, "create", t)
  BY <1>4 DEF Drops
<1>5. CASE Leaves(p, n, s, "create", t)
  BY <1>5 DEF Leaves
<1> QED
  BY <1>1, <1>2, <1>3, <1>4, <1>5 DEF Moves

LEMMA InfoMoves ==
  ASSUME NEW p, NEW n \in Names, NEW s, NEW t, Moves(p, n, s, "info", t)
  PROVE  (s = "bare" /\ t = "informed") \/ (s = "remade" /\ t = "reinformed")
<1>1. CASE Makes(p, n, s, "info", t)
  BY <1>1 DEF Makes
<1>2. CASE Uses(n, s, "info", t)
  BY <1>2 DEF Uses
<1>3. CASE Grows(p, n, s, "info", t)
  BY <1>3 DEF Grows
<1>4. CASE Drops(p, n, s, "info", t)
  BY <1>4 DEF Drops
<1>5. CASE Leaves(p, n, s, "info", t)
  BY <1>5 DEF Leaves
<1> QED
  BY <1>1, <1>2, <1>3, <1>4, <1>5 DEF Moves

LEMMA ConstructMoves ==
  ASSUME NEW p, NEW n \in Names, NEW s, NEW t, Moves(p, n, s, "construct", t)
  PROVE  \/ Maps(p, n) /\ s = "informed" /\ t = "new"
         \/ ~Maps(p, n) /\ s = "off" /\ t = "new"
         \/ Maps(p, n) /\ n = "index" /\ s = "reinformed" /\ t = "ready"
         \/ Maps(p, n) /\ n = "graph" /\ s = "reinformed" /\ t = "blank"
<1>1. CASE Makes(p, n, s, "construct", t)
  BY <1>1 DEF Makes
<1>2. CASE Uses(n, s, "construct", t)
  BY <1>2 DEF Uses
<1>3. CASE Grows(p, n, s, "construct", t)
  BY <1>3 DEF Grows
<1>4. CASE Drops(p, n, s, "construct", t)
  BY <1>4 DEF Drops
<1>5. CASE Leaves(p, n, s, "construct", t)
  BY <1>5 DEF Leaves
<1> QED
  BY <1>1, <1>2, <1>3, <1>4, <1>5 DEF Moves

LEMMA ConstructedMoves ==
  ASSUME NEW p, NEW n \in Names, NEW s, NEW t, Moves(p, n, s, "constructed", t)
  PROVE  s = "new" /\ t = "blank"
<1>1. CASE Makes(p, n, s, "constructed", t)
  BY <1>1 DEF Makes
<1>2. CASE Uses(n, s, "constructed", t)
  BY <1>2 DEF Uses
<1>3. CASE Grows(p, n, s, "constructed", t)
  BY <1>3 DEF Grows
<1>4. CASE Drops(p, n, s, "constructed", t)
  BY <1>4 DEF Drops
<1>5. CASE Leaves(p, n, s, "constructed", t)
  BY <1>5 DEF Leaves
<1> QED
  BY <1>1, <1>2, <1>3, <1>4, <1>5 DEF Moves

LEMMA FillMoves ==
  ASSUME NEW p, NEW n \in Names, NEW s, NEW t, Moves(p, n, s, "fill", t)
  PROVE  n # "index" /\ s = "blank" /\ t = "full"
<1>1. CASE Makes(p, n, s, "fill", t)
  BY <1>1 DEF Makes
<1>2. CASE Uses(n, s, "fill", t)
  BY <1>2 DEF Uses
<1>3. CASE Grows(p, n, s, "fill", t)
  BY <1>3 DEF Grows
<1>4. CASE Drops(p, n, s, "fill", t)
  BY <1>4 DEF Drops
<1>5. CASE Leaves(p, n, s, "fill", t)
  BY <1>5 DEF Leaves
<1> QED
  BY <1>1, <1>2, <1>3, <1>4, <1>5 DEF Moves

LEMMA ReserveMoves ==
  ASSUME NEW p, NEW n \in Names, NEW s, NEW t, Moves(p, n, s, "reserve", t)
  PROVE  n = "index" /\ s = "blank" /\ t = "ready"
<1>1. CASE Makes(p, n, s, "reserve", t)
  BY <1>1 DEF Makes
<1>2. CASE Uses(n, s, "reserve", t)
  BY <1>2 DEF Uses
<1>3. CASE Grows(p, n, s, "reserve", t)
  BY <1>3 DEF Grows
<1>4. CASE Drops(p, n, s, "reserve", t)
  BY <1>4 DEF Drops
<1>5. CASE Leaves(p, n, s, "reserve", t)
  BY <1>5 DEF Leaves
<1> QED
  BY <1>1, <1>2, <1>3, <1>4, <1>5 DEF Moves

LEMMA PointsMoves ==
  ASSUME NEW p, NEW n \in Names, NEW s, NEW t, Moves(p, n, s, "points", t)
  PROVE  n = "index" /\ s = "ready" /\ t = "half"
<1>1. CASE Makes(p, n, s, "points", t)
  BY <1>1 DEF Makes
<1>2. CASE Uses(n, s, "points", t)
  BY <1>2 DEF Uses
<1>3. CASE Grows(p, n, s, "points", t)
  BY <1>3 DEF Grows
<1>4. CASE Drops(p, n, s, "points", t)
  BY <1>4 DEF Drops
<1>5. CASE Leaves(p, n, s, "points", t)
  BY <1>5 DEF Leaves
<1> QED
  BY <1>1, <1>2, <1>3, <1>4, <1>5 DEF Moves

LEMMA SegmentsMoves ==
  ASSUME NEW p, NEW n \in Names, NEW s, NEW t, Moves(p, n, s, "segments", t)
  PROVE  n = "index" /\ s = "half" /\ t = "full"
<1>1. CASE Makes(p, n, s, "segments", t)
  BY <1>1 DEF Makes
<1>2. CASE Uses(n, s, "segments", t)
  BY <1>2 DEF Uses
<1>3. CASE Grows(p, n, s, "segments", t)
  BY <1>3 DEF Grows
<1>4. CASE Drops(p, n, s, "segments", t)
  BY <1>4 DEF Drops
<1>5. CASE Leaves(p, n, s, "segments", t)
  BY <1>5 DEF Leaves
<1> QED
  BY <1>1, <1>2, <1>3, <1>4, <1>5 DEF Moves

LEMMA FinalizeMoves ==
  ASSUME NEW p, NEW n \in Names, NEW s, NEW t, Moves(p, n, s, "finalize", t)
  PROVE  n = "tags" /\ s = "full" /\ t = "final"
<1>1. CASE Makes(p, n, s, "finalize", t)
  BY <1>1 DEF Makes
<1>2. CASE Uses(n, s, "finalize", t)
  BY <1>2 DEF Uses
<1>3. CASE Grows(p, n, s, "finalize", t)
  BY <1>3 DEF Grows
<1>4. CASE Drops(p, n, s, "finalize", t)
  BY <1>4 DEF Drops
<1>5. CASE Leaves(p, n, s, "finalize", t)
  BY <1>5 DEF Leaves
<1> QED
  BY <1>1, <1>2, <1>3, <1>4, <1>5 DEF Moves

LEMMA CheckMoves ==
  ASSUME NEW p, NEW n \in Names, NEW s, NEW t, Moves(p, n, s, "check", t)
  PROVE  n = "graph" /\ s = "off" /\ t = "off"
<1>1. CASE Makes(p, n, s, "check", t)
  BY <1>1 DEF Makes
<1>2. CASE Uses(n, s, "check", t)
  BY <1>2 DEF Uses
<1>3. CASE Grows(p, n, s, "check", t)
  BY <1>3 DEF Grows
<1>4. CASE Drops(p, n, s, "check", t)
  BY <1>4 DEF Drops
<1>5. CASE Leaves(p, n, s, "check", t)
  BY <1>5 DEF Leaves
<1> QED
  BY <1>1, <1>2, <1>3, <1>4, <1>5 DEF Moves

LEMMA ExportMoves ==
  ASSUME NEW p, NEW n \in Names, NEW s, NEW t, Moves(p, n, s, "export", t)
  PROVE  n = "graph" /\ s \in {"full", "saved"} /\ t = s
<1>1. CASE Makes(p, n, s, "export", t)
  BY <1>1 DEF Makes
<1>2. CASE Uses(n, s, "export", t)
  BY <1>2 DEF Uses
<1>3. CASE Grows(p, n, s, "export", t)
  BY <1>3 DEF Grows
<1>4. CASE Drops(p, n, s, "export", t)
  BY <1>4 DEF Drops
<1>5. CASE Leaves(p, n, s, "export", t)
  BY <1>5 DEF Leaves
<1> QED
  BY <1>1, <1>2, <1>3, <1>4, <1>5 DEF Moves

LEMMA CloseMoves ==
  ASSUME NEW p, NEW n \in Names, NEW s, NEW t, Moves(p, n, s, "close", t)
  PROVE  Maps(p, n) /\ ((s = "blank" /\ t = "closed") \/ (n \in Finals /\ s = Done(n) /\ t = "shut"))
<1>1. CASE Makes(p, n, s, "close", t)
  BY <1>1 DEF Makes
<1>2. CASE Uses(n, s, "close", t)
  BY <1>2 DEF Uses
<1>3. CASE Grows(p, n, s, "close", t)
  BY <1>3 DEF Grows
<1>4. CASE Drops(p, n, s, "close", t)
  BY <1>4 DEF Drops
<1>5. CASE Leaves(p, n, s, "close", t)
  BY <1>5 DEF Leaves
<1> QED
  BY <1>1, <1>2, <1>3, <1>4, <1>5 DEF Moves

LEMMA OpenMoves ==
  ASSUME NEW p, NEW n \in Names, NEW s, NEW t, Moves(p, n, s, "open", t)
  PROVE  Maps(p, n) /\ s = "closed" /\ t = "opened"
<1>1. CASE Makes(p, n, s, "open", t)
  BY <1>1 DEF Makes
<1>2. CASE Uses(n, s, "open", t)
  BY <1>2 DEF Uses
<1>3. CASE Grows(p, n, s, "open", t)
  BY <1>3 DEF Grows
<1>4. CASE Drops(p, n, s, "open", t)
  BY <1>4 DEF Drops
<1>5. CASE Leaves(p, n, s, "open", t)
  BY <1>5 DEF Leaves
<1> QED
  BY <1>1, <1>2, <1>3, <1>4, <1>5 DEF Moves

LEMMA FindMoves ==
  ASSUME NEW p, NEW n \in Names, NEW s, NEW t, Moves(p, n, s, "find", t)
  PROVE  Maps(p, n) /\ s = "opened" /\ ((n = "index" /\ t = "ready") \/ (n # "index" /\ t = "blank"))
<1>1. CASE Makes(p, n, s, "find", t)
  BY <1>1 DEF Makes
<1>2. CASE Uses(n, s, "find", t)
  BY <1>2 DEF Uses
<1>3. CASE Grows(p, n, s, "find", t)
  BY <1>3 DEF Grows
<1>4. CASE Drops(p, n, s, "find", t)
  BY <1>4 DEF Drops
<1>5. CASE Leaves(p, n, s, "find", t)
  BY <1>5 DEF Leaves
<1> QED
  BY <1>1, <1>2, <1>3, <1>4, <1>5 DEF Moves

LEMMA TruncateMoves ==
  ASSUME NEW p, NEW n \in Names, NEW s, NEW t, Moves(p, n, s, "truncate", t)
  PROVE  ~Maps(p, n) /\ n \in Finals /\ s = Done(n) /\ t = "truncated"
<1>1. CASE Makes(p, n, s, "truncate", t)
  BY <1>1 DEF Makes
<1>2. CASE Uses(n, s, "truncate", t)
  BY <1>2 DEF Uses
<1>3. CASE Grows(p, n, s, "truncate", t)
  BY <1>3 DEF Grows
<1>4. CASE Drops(p, n, s, "truncate", t)
  BY <1>4 DEF Drops
<1>5. CASE Leaves(p, n, s, "truncate", t)
  BY <1>5 DEF Leaves
<1> QED
  BY <1>1, <1>2, <1>3, <1>4, <1>5 DEF Moves

LEMMA WriteMoves ==
  ASSUME NEW p, NEW n \in Names, NEW s, NEW t, Moves(p, n, s, "write", t)
  PROVE  ~Maps(p, n) /\ n \in Finals /\ s = "truncated" /\ t = "saved"
<1>1. CASE Makes(p, n, s, "write", t)
  BY <1>1 DEF Makes
<1>2. CASE Uses(n, s, "write", t)
  BY <1>2 DEF Uses
<1>3. CASE Grows(p, n, s, "write", t)
  BY <1>3 DEF Grows
<1>4. CASE Drops(p, n, s, "write", t)
  BY <1>4 DEF Drops
<1>5. CASE Leaves(p, n, s, "write", t)
  BY <1>5 DEF Leaves
<1> QED
  BY <1>1, <1>2, <1>3, <1>4, <1>5 DEF Moves

LEMMA ShrinkMoves ==
  ASSUME NEW p, NEW n \in Names, NEW s, NEW t, Moves(p, n, s, "shrink", t)
  PROVE  Maps(p, n) /\ n \in Finals /\ s = "shut" /\ t = "shrunk"
<1>1. CASE Makes(p, n, s, "shrink", t)
  BY <1>1 DEF Makes
<1>2. CASE Uses(n, s, "shrink", t)
  BY <1>2 DEF Uses
<1>3. CASE Grows(p, n, s, "shrink", t)
  BY <1>3 DEF Grows
<1>4. CASE Drops(p, n, s, "shrink", t)
  BY <1>4 DEF Drops
<1>5. CASE Leaves(p, n, s, "shrink", t)
  BY <1>5 DEF Leaves
<1> QED
  BY <1>1, <1>2, <1>3, <1>4, <1>5 DEF Moves

LEMMA ReleaseMoves ==
  ASSUME NEW p, NEW n \in Names, NEW s, NEW t, Moves(p, n, s, "release", t)
  PROVE  \/ n \in Temporaries /\ Maps(p, n) /\ s = "erased" /\ t = "cleared"
         \/ n \in Temporaries /\ ~Maps(p, n) /\ s \in {"blank", "full"} /\ t = "cleared"
         \/ n \in Finals /\ Maps(p, n) /\ s = "shrunk" /\ t = "kept"
         \/ n \in Finals /\ ~Maps(p, n) /\ s = "saved" /\ t = "kept"
<1>1. CASE Makes(p, n, s, "release", t)
  BY <1>1 DEF Makes
<1>2. CASE Uses(n, s, "release", t)
  BY <1>2 DEF Uses
<1>3. CASE Grows(p, n, s, "release", t)
  BY <1>3 DEF Grows
<1>4. CASE Drops(p, n, s, "release", t)
  BY <1>4 DEF Drops
<1>5. CASE Leaves(p, n, s, "release", t)
  BY <1>5 DEF Leaves
<1> QED
  BY <1>1, <1>2, <1>3, <1>4, <1>5 DEF Moves

-----------------------------------------------------------------------------
(* Calls take a storage from one condition to the next: v is a storage     *)
(* before the call, and w after it.                                        *)

Pointed(n, storage, roots, value) ==
    [r \in Roots[n] |-> IF r \in roots THEN value
                        ELSE IF r \in DOMAIN storage.ptr THEN storage.ptr[r] ELSE "null"]
AssignedOf(storage) == {r \in DOMAIN storage.ptr : storage.ptr[r] # "null"}

LEMMA RootsAre ==
  /\ \A n \in Names : Roots[n] \subseteq {"maps", "lookups", "graph", "vertex_index_map", "points",
       "segments", "vertices"}
  /\ \A n \in Names \ {"index"} : Constructed(n) = Roots[n]
  /\ Constructed("index") = {} /\ Roots["index"] = {"points", "segments"}
  /\ Roots["tags"] = {"maps", "lookups"} /\ Roots["graph"] = {"graph", "vertex_index_map"}
  /\ Roots["index_build"] = {"points", "segments"}
  /\ Kept("tags") = {"maps"} /\ Kept("graph") = {"graph"} /\ Kept("index") = {"points", "segments"}
  /\ KeptTags = {"maps"}
<1>1. Names = {"tags_import", "graph_import", "osm_tags", "osm_vertices", "tags", "index_build", "index", "graph"}
  BY DEF Names, Temporaries, Finals
<1>2. /\ Roots["index"] = {"points", "segments"} /\ Roots["index_build"] = {"points", "segments"}
      /\ Roots["tags"] = {"maps", "lookups"} /\ Roots["graph"] = {"graph", "vertex_index_map"}
      /\ Roots["tags_import"] = {"maps", "lookups"} /\ Roots["graph_import"] = {"graph", "vertex_index_map"}
      /\ Roots["osm_tags"] = {"maps", "lookups"} /\ Roots["osm_vertices"] = {"vertices"}
  BY <1>1 DEF Roots, TagRoots, GraphRoots, IndexRoots, ListRoots, OsmRoots
<1>3. \A n \in Names : Roots[n] \subseteq {"maps", "lookups", "graph", "vertex_index_map",
          "points", "segments", "vertices"}
  BY <1>1, <1>2
<1>4. KeptTags = {"maps"}
  BY DEF KeptTags, TagRoots
<1>5. Kept("tags") = {"maps"} /\ Kept("graph") = {"graph"} /\ Kept("index") = {"points", "segments"}
  BY <1>2, <1>4 DEF Kept
<1>6. (\A n \in Names \ {"index"} : Constructed(n) = Roots[n]) /\ Constructed("index") = {}
  BY DEF Constructed
<1> QED
  BY <1>2, <1>3, <1>4, <1>5, <1>6

LEMMA FinalsAre ==
  /\ Finals = {"tags", "index", "graph"} /\ Finals \subseteq Names /\ Temporaries \subseteq Names
  /\ \A n \in Names : n \in Finals <=> n \notin Temporaries
BY DEF Names, Temporaries, Finals

\* A file with other objects, with its info, and without slack; objects and pointers.
Renewed(f, g, objects) == g = [f EXCEPT !.roots = objects]
Informed(f, g) == g = [f EXCEPT !.info = TRUE]
Trimmed(f, g) == g = [f EXCEPT !.slack = FALSE]
Planted(roots, o, x) == [r \in DOMAIN roots \cup {o} |-> IF r = o THEN x ELSE roots[r]]
Without(roots, o) == [r \in DOMAIN roots \ {o} |-> roots[r]]
Sought(n, roots) == [r \in Roots[n] |-> IF r \in DOMAIN roots THEN "valid" ELSE "null"]
Repointed(pointers, o, x) == [pointers EXCEPT ![o] = x]

LEMMA RenewedIs ==
  ASSUME NEW f, NEW g, NEW x, Renewed(f, g, x)
  PROVE  /\ \A r : f = WideFile(r) => g = WideFile(x)
         /\ \A r : f = MemoryFile(r) => g = MemoryFile(x)
         /\ \A r : f = DumpFile(r) => g = DumpFile(x)
         /\ f = BlankMemory => g = MemoryFile(x)
<1>0. g = [f EXCEPT !.roots = x]
  BY DEF Renewed
<1>1. ASSUME NEW r, f = WideFile(r) PROVE g = WideFile(x)
  BY <1>0, <1>1 DEF WideFile
<1>2. ASSUME NEW r, f = MemoryFile(r) PROVE g = MemoryFile(x)
  BY <1>0, <1>2 DEF MemoryFile
<1>3. ASSUME NEW r, f = DumpFile(r) PROVE g = DumpFile(x)
  BY <1>0, <1>3 DEF DumpFile
<1>4. ASSUME f = BlankMemory PROVE g = MemoryFile(x)
  BY <1>0, <1>4 DEF BlankMemory, MemoryFile
<1> QED
  BY <1>1, <1>2, <1>3, <1>4

LEMMA InformedIs ==
  ASSUME NEW f, NEW g, Informed(f, g), f = BlankFile
  PROVE  g = WideFile(EmptyFunction)
BY DEF Informed, WideFile, BlankFile

LEMMA TrimmedIs ==
  ASSUME NEW f, NEW g, Trimmed(f, g), NEW r, f = WideFile(r)
  PROVE  g = TrimFile(r)
BY DEF Trimmed, WideFile, TrimFile

LEMMA CloseMeets ==
  ASSUME NEW p, NEW n \in Names, NEW s, NEW t, NEW v, NEW w,
         Moves(p, n, s, "close", t), Meets(p, n, s, v),
         w.st.id = NoFile, w.st.on = v.st.on, w.dir = v.dir, w.entry = v.entry,
         w.st.ptr = Pointed(n, v.st, AssignedOf(v.st), "dangling")
  PROVE  Meets(p, n, t, w)
<1>1. Maps(p, n) /\ ((s = "blank" /\ t = "closed") \/ (n \in Finals /\ s = Done(n) /\ t = "shut"))
  BY CloseMoves
<1>2. CASE s = "blank" /\ t = "closed"
  <2>1. IsBlank(p, n, v)
    BY <1>2 DEF Meets
  <2>2. /\ Mine(p, v) /\ v.file = WideFile(Blanks(Constructed(n), p.gen))
        /\ PointersAre(n, v, Constructed(n), "valid") /\ Counted(n, v)
    BY <1>1, <2>1 DEF IsBlank, IsNew, HasFile
  <2>3. PointersAre(n, w, Constructed(n), "dangling")
    BY <2>2 DEF PointersAre, Pointed, AssignedOf
  <2>4. IsClosed(p, n, w)
    BY <2>2, <2>3 DEF IsClosed, Unmapped, Mine, Counted
  <2> QED
    BY <1>2, <2>4 DEF Meets
<1>3. CASE n \in Finals /\ s = Done(n) /\ t = "shut"
  <2>1. Mine(p, v) /\ v.file = WideFile(Fulls(Remains(n), p.gen))
    <3>1. CASE n = "tags"
      BY <1>1, <1>3, <3>1 DEF Meets, Done, IsFinal, HasFile, Remains
    <3>2. CASE n # "tags"
      BY <1>1, <1>3, <3>2 DEF Meets, Done, IsFull, HasFile, Remains
    <3> QED
      BY <3>1, <3>2
  <2>2. IsShut(p, n, w)
    BY <2>1 DEF IsShut, Finished, Mine
  <2> QED
    BY <1>3, <2>2 DEF Meets
<1> QED
  BY <1>1, <1>2, <1>3

LEMMA DestroyMeets ==
  ASSUME NEW p, NEW n \in Names, NEW s, NEW t, NEW v, NEW w,
         Moves(p, n, s, "destroy", t), Meets(p, n, s, v),
         w.st.id = NoFile, w.dir = NoFile, w.st.ptr = Pointed(n, v.st, AssignedOf(v.st), "dangling")
  PROVE  Meets(p, n, t, w)
<1>1. (s = "off" /\ t = "gone") \/ t \in {"dropped", "erased"}
  BY DestroyMoves
<1>2. DOMAIN w.st.ptr = Roots[n]
  BY DEF Pointed
<1>3. CASE s = "off" /\ t = "gone"
  <2>1. v.st.ptr = EmptyFunction
    BY <1>3 DEF Meets, IsOff, Off
  <2>2. PointersAre(n, w, {}, "valid")
    BY <2>1 DEF PointersAre, Pointed, AssignedOf, EmptyFunction
  <2> QED
    BY <1>2, <1>3, <2>2 DEF Meets, IsGone, IsDropped
<1>4. CASE t \in {"dropped", "erased"}
  BY <1>2, <1>4 DEF Meets, IsDropped
<1> QED
  BY <1>1, <1>3, <1>4

LEMMA CreateMeets ==
  ASSUME NEW p, NEW n \in Names, NEW s, NEW t, NEW v, NEW w, NEW k \in Nat,
         Moves(p, n, s, "create", t), Meets(p, n, s, v),
         p.gen \in Nat, w.dir = <<p.gen, k + 1>>, w.st.id = w.dir, w.st.ptr = v.st.ptr,
         w.file = BlankFile, w.entry = BlankFile
  PROVE  Meets(p, n, t, w)
<1>1. (s = "gone" /\ t = "bare") \/ (s = "dropped" /\ t = "remade")
  BY CreateMoves
<1>2. Mine(p, w)
  <2>1. k + 1 # 0
    OBVIOUS
  <2> QED
    BY <2>1 DEF Mine, NoFile
<1>3. CASE s = "gone" /\ t = "bare"
  BY <1>2, <1>3 DEF Meets, IsGone, IsDropped, IsBare, IsRemade, PointersAre
<1>4. CASE s = "dropped" /\ t = "remade"
  BY <1>2, <1>4 DEF Meets, IsDropped, IsRemade
<1> QED
  BY <1>1, <1>3, <1>4

LEMMA InfoMeets ==
  ASSUME NEW p, NEW n \in Names, NEW s, NEW t, NEW v, NEW w,
         Moves(p, n, s, "info", t), Meets(p, n, s, v),
         w.st = v.st, w.dir = v.dir, Informed(v.file, w.file),
         v.st.id = v.dir => w.entry = w.file
  PROVE  Meets(p, n, t, w)
<1>1. (s = "bare" /\ t = "informed") \/ (s = "remade" /\ t = "reinformed")
  BY InfoMoves
<1>2. IsRemade(p, n, v)
  BY <1>1 DEF Meets, IsBare
<1>3. w.file = WideFile(EmptyFunction) /\ Mine(p, w)
  <2>1. Mine(p, v) /\ v.file = BlankFile
    BY <1>2 DEF IsRemade
  <2>2. w.file = WideFile(EmptyFunction)
    BY <2>1, InformedIs
  <2> QED
    BY <2>1, <2>2 DEF Mine
<1>4. IsReinformed(p, n, w)
  BY <1>2, <1>3 DEF IsRemade, IsReinformed
<1>5. CASE s = "bare" /\ t = "informed"
  BY <1>4, <1>5 DEF Meets, IsBare, IsInformed, PointersAre
<1>6. CASE s = "remade" /\ t = "reinformed"
  BY <1>4, <1>6 DEF Meets
<1> QED
  BY <1>1, <1>5, <1>6

\* The other calls.
LEMMA ConstructMeets ==
  ASSUME NEW p, NEW n \in Names, NEW s, NEW t, NEW v, NEW w,
         Moves(p, n, s, "construct", t), Meets(p, n, s, v),
         w.dir = v.dir, w.st.id = (IF Maps(p, n) THEN v.st.id ELSE <<p.gen, 0>>),
         w.st.ptr = Pointed(n, v.st, Constructed(n), "valid"),
         Maps(p, n) => Renewed(v.file, w.file, Blanks(Constructed(n), p.gen)),
         ~Maps(p, n) => Renewed(BlankMemory, w.file, Blanks(Constructed(n), p.gen)),
         w.st.id = w.dir => w.entry = w.file
  PROVE  Meets(p, n, t, w)
<1>1. \/ Maps(p, n) /\ s = "informed" /\ t = "new"
      \/ ~Maps(p, n) /\ s = "off" /\ t = "new"
      \/ Maps(p, n) /\ n = "index" /\ s = "reinformed" /\ t = "ready"
      \/ Maps(p, n) /\ n = "graph" /\ s = "reinformed" /\ t = "blank"
  BY ConstructMoves
<1>2. DOMAIN w.st.ptr = Roots[n]
  BY DEF Pointed
<1>3. ASSUME IsReinformed(p, n, v), Maps(p, n) PROVE HasFile(p, n, w, Blanks(Constructed(n), p.gen))
  <2>1. Mine(p, v) /\ v.file = WideFile(EmptyFunction)
    BY <1>3 DEF IsReinformed
  <2>2. w.file = WideFile(Blanks(Constructed(n), p.gen))
    BY <1>3, <2>1, RenewedIs
  <2> QED
    BY <1>3, <2>1, <2>2 DEF Mine, HasFile
<1>4. CASE Maps(p, n) /\ s = "informed" /\ t = "new"
  <2>1. IsReinformed(p, n, v) /\ PointersAre(n, v, {}, "valid")
    BY <1>4 DEF Meets, IsInformed
  <2>2. PointersAre(n, w, Constructed(n), "valid")
    BY <2>1 DEF PointersAre, Pointed
  <2> QED
    BY <1>3, <1>4, <2>1, <2>2 DEF Meets, IsNew
<1>5. CASE ~Maps(p, n) /\ s = "off" /\ t = "new"
  <2>1. v.st.ptr = EmptyFunction
    BY <1>5 DEF Meets, IsOff, Off
  <2>2. PointersAre(n, w, Constructed(n), "valid")
    BY <2>1 DEF PointersAre, Pointed, EmptyFunction
  <2>3. HasFile(p, n, w, Blanks(Constructed(n), p.gen))
    BY <1>5, RenewedIs DEF HasFile
  <2> QED
    BY <1>5, <2>2, <2>3 DEF Meets, IsNew
<1>6. CASE Maps(p, n) /\ n = "index" /\ s = "reinformed" /\ t = "ready"
  <2>1. HasFile(p, n, w, Blanks(Constructed(n), p.gen))
    BY <1>3, <1>6 DEF Meets
  <2>2. Blanks(Constructed(n), p.gen) = EmptyFunction
    BY <1>6, RootsAre DEF Blanks, EmptyFunction
  <2> QED
    BY <1>2, <1>6, <2>1, <2>2 DEF Meets, IsReady, PointersHave
<1>7. CASE Maps(p, n) /\ n = "graph" /\ s = "reinformed" /\ t = "blank"
  <2>1. HasFile(p, n, w, Blanks(Constructed(n), p.gen))
    BY <1>3, <1>7 DEF Meets
  <2>2. Constructed(n) = Roots[n] /\ n \notin Temporaries
    BY <1>7, RootsAre, FinalsAre
  <2>3. PointersAre(n, w, Constructed(n), "valid")
    BY <2>2 DEF PointersAre, Pointed
  <2> QED
    BY <1>7, <2>1, <2>2, <2>3 DEF Meets, IsBlank, IsNew, Counted
<1> QED
  BY <1>1, <1>4, <1>5, <1>6, <1>7

LEMMA RootsOf ==
  ASSUME NEW p, NEW n, NEW v, NEW f, HasFile(p, n, v, f)
  PROVE  v.file.roots = f
<1>1. PICK g : g = v.file
  OBVIOUS
<1>2. g = WideFile(f) \/ g = MemoryFile(f)
  BY <1>1 DEF HasFile
<1>3. g.roots = f
  BY <1>2 DEF WideFile, MemoryFile
<1> QED
  BY <1>1, <1>3

LEMMA RootsChange ==
  ASSUME NEW p, NEW n, NEW v, NEW w, NEW f, NEW g, HasFile(p, n, v, g),
         w.st.id = v.st.id, w.dir = v.dir, Renewed(v.file, w.file, f),
         w.st.id = w.dir => w.entry = w.file
  PROVE  HasFile(p, n, w, f)
<1>1. CASE Maps(p, n)
  <2>1. Mine(p, v) /\ v.file = WideFile(g)
    BY <1>1 DEF HasFile
  <2>2. w.file = WideFile(f)
    BY <2>1, RenewedIs
  <2>3. Mine(p, w)
    BY <2>1 DEF Mine
  <2> QED
    BY <1>1, <2>2, <2>3 DEF HasFile
<1>2. CASE ~Maps(p, n)
  <2>1. v.st.id = <<p.gen, 0>> /\ v.file = MemoryFile(g)
    BY <1>2 DEF HasFile
  <2>2. w.file = MemoryFile(f)
    BY <2>1, RenewedIs
  <2> QED
    BY <1>2, <2>1, <2>2 DEF HasFile
<1> QED
  BY <1>1, <1>2

LEMMA ConstructedMeets ==
  ASSUME NEW p, NEW n \in Names, NEW s, NEW t, NEW v, NEW w,
         Moves(p, n, s, "constructed", t), Meets(p, n, s, v),
         w.st.id = v.st.id, w.st.ptr = v.st.ptr, w.st.on = TRUE,
         w.dir = v.dir, w.file = v.file, w.entry = v.entry
  PROVE  Meets(p, n, t, w)
<1>1. s = "new" /\ t = "blank"
  BY ConstructedMoves
<1>2. IsNew(p, n, v)
  BY <1>1 DEF Meets
<1>3. IsNew(p, n, w) /\ Counted(n, w)
  BY <1>2 DEF IsNew, HasFile, Mine, PointersAre, Counted
<1> QED
  BY <1>1, <1>3 DEF Meets, IsBlank

LEMMA FillMeets ==
  ASSUME NEW p, NEW n \in Names, NEW s, NEW t, NEW v, NEW w,
         Moves(p, n, s, "fill", t), Meets(p, n, s, v),
         w.st = v.st, w.dir = v.dir,
         Renewed(v.file, w.file, Fulls(DOMAIN v.file.roots, p.gen)),
         w.st.id = w.dir => w.entry = w.file
  PROVE  Meets(p, n, t, w)
<1>1. n # "index" /\ s = "blank" /\ t = "full"
  BY FillMoves
<1>2. Constructed(n) = Roots[n]
  BY <1>1, RootsAre
<1>3. IsNew(p, n, v) /\ Counted(n, v)
  BY <1>1 DEF Meets, IsBlank
<1>4. DOMAIN Blanks(Roots[n], p.gen) = Roots[n]
  BY DEF Blanks
<1>5. HasFile(p, n, w, Fulls(Roots[n], p.gen))
  <2>1. HasFile(p, n, v, Blanks(Roots[n], p.gen))
    BY <1>2, <1>3 DEF IsNew
  <2>2. v.file.roots = Blanks(Roots[n], p.gen)
    BY <2>1, RootsOf
  <2> QED
    BY <1>4, <2>1, <2>2, RootsChange
<1>6. PointersHave(n, w, Roots[n])
  BY <1>2, <1>3 DEF IsNew, PointersAre, PointersHave
<1> QED
  BY <1>1, <1>3, <1>5, <1>6 DEF Meets, IsFull, Counted

LEMMA ReserveMeets ==
  ASSUME NEW p, NEW n \in Names, NEW s, NEW t, NEW v,
         Moves(p, n, s, "reserve", t), Meets(p, n, s, v)
  PROVE  Meets(p, n, t, v)
<1>1. n = "index" /\ s = "blank" /\ t = "ready"
  BY ReserveMoves
<1>2. IsNew(p, n, v)
  BY <1>1 DEF Meets, IsBlank
<1>3. Blanks(Constructed(n), p.gen) = EmptyFunction
  BY <1>1, RootsAre DEF Blanks, EmptyFunction
<1>4. PointersHave(n, v, {})
  BY <1>2 DEF IsNew, PointersAre, PointersHave
<1>5. IsReady(p, n, v)
  BY <1>2, <1>3, <1>4 DEF IsNew, IsReady
<1> QED
  BY <1>1, <1>5 DEF Meets

LEMMA TreeMeets ==
  ASSUME NEW p, NEW n \in Names, NEW s, NEW t, NEW v, NEW w, NEW o \in {"points", "segments"}, NEW lists,
         Moves(p, n, s, o, t), Meets(p, n, s, v), lists[o] = [of |-> p.gen, full |-> TRUE],
         w.st.id = v.st.id, w.st.ptr = Repointed(v.st.ptr, o, "valid"), w.dir = v.dir,
         Renewed(v.file, w.file, Planted(v.file.roots, o, lists[o])),
         w.st.id = w.dir => w.entry = w.file
  PROVE  Meets(p, n, t, w)
<1>1. n = "index" /\ (\/ o = "points" /\ s = "ready" /\ t = "half"
                      \/ o = "segments" /\ s = "half" /\ t = "full")
  BY PointsMoves, SegmentsMoves
<1>2. Roots[n] = {"points", "segments"} /\ n \notin Temporaries
  BY <1>1, RootsAre, FinalsAre
<1>3. \A f : \A g : Renewed(v.file, w.file, f) /\ HasFile(p, n, v, g) => HasFile(p, n, w, f)
  BY RootsChange
<1> DEFINE f == Planted(v.file.roots, o, lists[o])
<1>4. CASE o = "points" /\ s = "ready" /\ t = "half"
  <2>1. HasFile(p, n, v, EmptyFunction) /\ DOMAIN v.st.ptr = Roots[n]
    BY <1>4 DEF Meets, IsReady, PointersHave
  <2>2. v.file.roots = EmptyFunction
    BY <2>1, RootsOf
  <2>3. f = Fulls({"points"}, p.gen)
    BY <1>4, <2>2 DEF EmptyFunction, Fulls, Planted
  <2>4. HasFile(p, n, w, Fulls({"points"}, p.gen))
    <3> HIDE DEF f
    <3> QED
      BY <1>3, <2>1, <2>3 DEF f
  <2>5. PointersHave(n, w, {"points"})
    BY <1>2, <1>4, <2>1 DEF PointersHave, Repointed
  <2> QED
    BY <1>4, <2>4, <2>5 DEF Meets, IsHalf
<1>5. CASE o = "segments" /\ s = "half" /\ t = "full"
  <2>1. /\ HasFile(p, n, v, Fulls({"points"}, p.gen))
        /\ DOMAIN v.st.ptr = Roots[n] /\ v.st.ptr["points"] = "valid"
    BY <1>5 DEF Meets, IsHalf, PointersHave
  <2>2. v.file.roots = Fulls({"points"}, p.gen)
    BY <2>1, RootsOf
  <2>3. f = Fulls(Roots[n], p.gen)
    <3>1. DOMAIN v.file.roots = {"points"} /\ v.file.roots["points"] = [of |-> p.gen, full |-> TRUE]
      BY <2>2 DEF Fulls
    <3>2. DOMAIN f = {"points", "segments"}
      BY <1>5, <3>1 DEF Planted
    <3>3. f["points"] = [of |-> p.gen, full |-> TRUE] /\ f["segments"] = [of |-> p.gen, full |-> TRUE]
      BY <1>5, <3>1 DEF Planted
    <3>4. \A r \in {"points", "segments"} : f[r] = [of |-> p.gen, full |-> TRUE]
      BY <3>3
    <3>5. f = [r \in DOMAIN f |-> f[r]]
      BY DEF Planted
    <3> HIDE DEF f
    <3> QED
      BY <1>2, <3>2, <3>4, <3>5 DEF Fulls
  <2>4. HasFile(p, n, w, Fulls(Roots[n], p.gen))
    <3> HIDE DEF f
    <3> QED
      BY <1>3, <2>1, <2>3 DEF f
  <2>5. PointersHave(n, w, Roots[n])
    BY <1>2, <1>5, <2>1 DEF PointersHave, Repointed
  <2> QED
    BY <1>2, <1>5, <2>4, <2>5 DEF Meets, IsFull, Counted
<1> QED
  BY <1>1, <1>4, <1>5

LEMMA OpenMeets ==
  ASSUME NEW p, NEW n \in Names, NEW s, NEW t, NEW v, NEW w,
         Moves(p, n, s, "open", t), Meets(p, n, s, v),
         w.st.id = v.dir, w.st.ptr = v.st.ptr, w.st.on = v.st.on, w.dir = v.dir,
         w.entry = v.entry, w.file = v.entry
  PROVE  Meets(p, n, t, w)
<1>1. s = "closed" /\ t = "opened"
  BY OpenMoves
<1>2. Unmapped(p, n, v)
  BY <1>1 DEF Meets, IsClosed
<1>3. Unmapped(p, n, w)
  BY <1>2 DEF Unmapped, PointersAre, Counted
<1> QED
  BY <1>1, <1>3 DEF Meets, IsOpened

LEMMA FindMeets ==
  ASSUME NEW p, NEW n \in Names, NEW s, NEW t, NEW v, NEW w,
         Moves(p, n, s, "find", t), Meets(p, n, s, v),
         w.st.id = v.st.id, w.st.on = v.st.on, w.dir = v.dir, w.entry = v.entry, w.file = v.file,
         w.st.ptr = Sought(n, v.file.roots)
  PROVE  /\ Meets(p, n, t, w)
         /\ (IF n = "index" THEN AssignedOf(v.st) ELSE Roots[n]) \subseteq DOMAIN v.file.roots
<1>1. Maps(p, n) /\ s = "opened" /\ ((n = "index" /\ t = "ready") \/ (n # "index" /\ t = "blank"))
  BY FindMoves
<1>2. Unmapped(p, n, v) /\ v.st.id = v.dir /\ v.entry = v.file
  BY <1>1 DEF Meets, IsOpened
<1>3. DOMAIN v.file.roots = Constructed(n)
  BY <1>2 DEF Unmapped, WideFile, Blanks
<1>4. PointersAre(n, w, Constructed(n), "valid")
  BY <1>3 DEF PointersAre, Sought
<1>5. HasFile(p, n, w, Blanks(Constructed(n), p.gen)) /\ Counted(n, w)
  BY <1>1, <1>2 DEF HasFile, Mine, Unmapped, Counted
<1>6. CASE n = "index" /\ t = "ready"
  <2>1. Blanks(Constructed(n), p.gen) = EmptyFunction
    BY <1>6, RootsAre DEF Blanks, EmptyFunction
  <2>2. IsReady(p, n, w)
    BY <1>4, <1>5, <2>1 DEF IsReady, PointersHave, PointersAre
  <2>3. AssignedOf(v.st) \subseteq Constructed(n)
    BY <1>2 DEF AssignedOf, Unmapped, PointersAre
  <2> QED
    BY <1>3, <1>6, <2>2, <2>3 DEF Meets
<1>7. CASE n # "index" /\ t = "blank"
  <2>1. Constructed(n) = Roots[n]
    BY <1>7, RootsAre
  <2> QED
    BY <1>3, <1>4, <1>5, <1>7, <2>1 DEF Meets, IsBlank, IsNew
<1> QED
  BY <1>1, <1>6, <1>7

LEMMA FinalizeMeets ==
  ASSUME NEW p, NEW n \in Names, NEW s, NEW t, NEW v, NEW w, NEW value,
         Moves(p, n, s, "finalize", t), Meets(p, n, s, v),
         w.st.id = v.st.id, w.st.ptr = Repointed(v.st.ptr, "lookups", value), w.dir = v.dir,
         Renewed(v.file, w.file, Without(v.file.roots, "lookups")),
         w.st.id = w.dir => w.entry = w.file
  PROVE  Meets(p, n, t, w)
<1>1. n = "tags" /\ s = "full" /\ t = "final"
  BY FinalizeMoves
<1>2. Roots[n] = {"maps", "lookups"} /\ KeptTags = {"maps"}
  BY <1>1, RootsAre
<1>3. HasFile(p, n, v, Fulls(Roots[n], p.gen)) /\ PointersHave(n, v, Roots[n])
  BY <1>1 DEF Meets, IsFull
<1>4. v.file.roots = Fulls(Roots[n], p.gen)
  BY <1>3, RootsOf
<1> DEFINE f == Without(v.file.roots, "lookups")
<1>5. f = Fulls(KeptTags, p.gen)
  BY <1>2, <1>4 DEF Fulls, Without
<1>6. HasFile(p, n, w, f)
  <2> HIDE DEF f
  <2>1. Renewed(v.file, w.file, f)
    BY DEF f
  <2> QED
    BY <1>3, <2>1, RootsChange
<1>7. PointersHave(n, w, KeptTags)
  BY <1>2, <1>3 DEF PointersHave, Repointed
<1> HIDE DEF f
<1> QED
  BY <1>1, <1>5, <1>6, <1>7 DEF Meets, IsFinal

LEMMA DoneMeets ==
  ASSUME NEW p, NEW n \in Finals, NEW s, NEW v, s = Done(n), Meets(p, n, s, v)
  PROVE  IsDone(p, n, v)
BY DEF Done, Meets, IsDone

LEMMA DoneStays ==
  ASSUME NEW p, NEW q, NEW n \in Finals, NEW v, NEW w, IsDone(p, n, v), ~Maps(p, n),
         w.st = v.st, w.file = v.file, q.mapped = p.mapped, q.gen = p.gen
  PROVE  IsDone(q, n, w)
BY FinalsAre DEF IsDone, IsFinal, IsFull, HasFile, PointersHave, Counted, Maps

LEMMA TruncateMeets ==
  ASSUME NEW p, NEW n \in Names, NEW s, NEW t, NEW v, NEW w,
         Moves(p, n, s, "truncate", t), Meets(p, n, s, v),
         w.st = v.st, w.file = v.file, w.dir # NoFile, w.entry = DumpFile(EmptyFunction)
  PROVE  Meets(p, n, t, w)
<1>1. ~Maps(p, n) /\ n \in Finals /\ s = Done(n) /\ t = "truncated"
  BY TruncateMoves
<1>2. IsDone(p, n, w)
  BY <1>1, DoneMeets, DoneStays
<1> QED
  BY <1>1, <1>2 DEF Meets, IsTruncated, Dumped

\* A file that cannot be opened is not written, and the process goes on.
LEMMA UnsavedMeets ==
  ASSUME NEW p, NEW q, NEW n \in Names, NEW s, NEW t, NEW v,
         Moves(p, n, s, "truncate", t), Meets(p, n, s, v),
         q.mapped = p.mapped, q.gen = p.gen, n \in q.unsaved
  PROVE  Meets(q, n, "saved", v)
<1>1. ~Maps(p, n) /\ n \in Finals /\ s = Done(n) /\ t = "truncated"
  BY TruncateMoves
<1>2. IsDone(q, n, v)
  BY <1>1, DoneMeets, DoneStays
<1> QED
  BY <1>2 DEF Meets, IsSaved, Written

LEMMA WriteMeets ==
  ASSUME NEW p, NEW n \in Names, NEW s, NEW t, NEW v, NEW w, NEW f,
         Moves(p, n, s, "write", t), Meets(p, n, s, v),
         w.st = v.st, w.dir = v.dir, w.file = v.file,
         f = KeptOf(n, v.file.roots), Renewed(v.entry, w.entry, f)
  PROVE  Meets(p, n, t, w)
<1>1. ~Maps(p, n) /\ n \in Finals /\ s = "truncated" /\ t = "saved"
  BY WriteMoves
<1>2. IsDone(p, n, v) /\ Dumped(p, n, v, EmptyFunction)
  BY <1>1 DEF Meets, IsTruncated
<1>3. IsDone(p, n, w)
  BY <1>1, <1>2, DoneStays
<1> DEFINE all == IF n = "tags" THEN KeptTags ELSE Roots[n]
<1>4. v.file.roots = Fulls(all, p.gen)
  <2>1. HasFile(p, n, v, Fulls(all, p.gen))
    <3>1. CASE n = "tags"
      BY <1>2, <3>1 DEF IsDone, IsFinal
    <3>2. CASE n # "tags"
      BY <1>2, <3>2 DEF IsDone, IsFull
    <3> QED
      BY <3>1, <3>2
  <2> QED
    BY <2>1, RootsOf
<1>5. Kept(n) \subseteq all
  BY <1>1, RootsAre, FinalsAre
<1> HIDE DEF all
<1>6. f = Fulls(Kept(n), p.gen)
  <2>1. DOMAIN v.file.roots = all /\ \A r \in all : v.file.roots[r] = [of |-> p.gen, full |-> TRUE]
    BY <1>4 DEF Fulls
  <2>2. Kept(n) \cap DOMAIN v.file.roots = Kept(n)
    BY <1>5, <2>1
  <2> QED
    BY <1>5, <2>1, <2>2 DEF Fulls, KeptOf
<1>7. w.entry = DumpFile(f)
  BY <1>2, RenewedIs DEF Dumped
<1>8. Dumped(p, n, w, Fulls(Kept(n), p.gen))
  BY <1>2, <1>6, <1>7 DEF Dumped
<1> QED
  BY <1>1, <1>3, <1>8 DEF Meets, IsSaved, Written

LEMMA ShrinkMeets ==
  ASSUME NEW p, NEW n \in Names, NEW s, NEW t, NEW v, NEW w,
         Moves(p, n, s, "shrink", t), Meets(p, n, s, v),
         w.dir = v.dir, w.dir # NoFile => Trimmed(v.entry, w.entry)
  PROVE  Meets(p, n, t, w)
<1>1. s = "shut" /\ t = "shrunk"
  BY ShrinkMoves
<1>2. IsShut(p, n, v)
  BY <1>1 DEF Meets
<1>3. IsShrunk(p, n, w)
  BY <1>2, TrimmedIs DEF IsShut, IsShrunk, Finished
<1> QED
  BY <1>1, <1>3 DEF Meets

LEMMA ReleaseMeets ==
  ASSUME NEW p, NEW n \in Names, NEW s, NEW t, NEW v, NEW w,
         Moves(p, n, s, "release", t), Meets(p, n, s, v),
         n \in Temporaries /\ ~Maps(p, n) => v.dir = NoFile,
         w.st = Off, w.dir = v.dir, w.entry = v.entry
  PROVE  Meets(p, n, t, w)
<1>1. \/ n \in Temporaries /\ Maps(p, n) /\ s = "erased" /\ t = "cleared"
      \/ n \in Temporaries /\ ~Maps(p, n) /\ s \in {"blank", "full"} /\ t = "cleared"
      \/ n \in Finals /\ Maps(p, n) /\ s = "shrunk" /\ t = "kept"
      \/ n \in Finals /\ ~Maps(p, n) /\ s = "saved" /\ t = "kept"
  BY ReleaseMoves
<1>2. CASE t = "cleared"
  BY <1>1, <1>2 DEF Meets
<1>3. CASE n \in Finals /\ Maps(p, n) /\ s = "shrunk" /\ t = "kept"
  BY <1>3 DEF Meets, IsKept, IsShrunk, Finished
<1>4. CASE n \in Finals /\ ~Maps(p, n) /\ s = "saved" /\ t = "kept"
  BY <1>4 DEF Meets, IsKept, IsSaved, Written, Dumped
<1> QED
  BY <1>1, <1>2, <1>3, <1>4

LEMMA LookMeets ==
  ASSUME NEW p, NEW n \in Names, NEW s, NEW o \in {"check", "export"}, NEW t, NEW v,
         Moves(p, n, s, o, t), Meets(p, n, s, v)
  PROVE  Meets(p, n, t, v)
BY CheckMoves, ExportMoves

-----------------------------------------------------------------------------
(* The invariant of the files.                                             *)

Lists(list, x) == \E i \in DOMAIN list : list[i] = x

FiledAt(n) ==
    /\ st[n] = [on |-> st[n].on, id |-> st[n].id, ptr |-> st[n].ptr, made |-> st[n].made]
    /\ st[n].made \in Nat
    /\ dir[n] = NoFile \/ dir[n][2] # 0
    /\ n \in Temporaries /\ ~(Mapped(n) /\ Used(Preparation, n)) => dir[n] = NoFile
Filed ==
    /\ given \in GivenOptions /\ gen \in Nat /\ kills \in Nat
    /\ DOMAIN st = Names /\ DOMAIN dir = Names /\ DOMAIN disk = Names
    /\ \A n \in Names : FiledAt(n)

\* A temporary storage is in one of these.
Passing == {"off", "gone", "bare", "informed", "new", "blank", "full", "closed", "opened", "erased", "cleared"}
Stands(s) == /\ \A n \in Temporaries : s[n] \in Passing
             /\ \A n \in Names : Meets(Preparation, n, s[n], View(n))
\* What has still to be called leads from what there is to the network.
Proceeds == \E s \in Standings : Stands(s) /\ Safe(Preparation, s, todo, Goal(Preparation))

\* Every storage that has been closed or destroyed is let go.
Unwinds(list) == \A i \in DOMAIN list :
    /\ list[i].op \in {"destroy", "close", "shrink", "release"}
    /\ list[i].op # "release" => \E j \in DOMAIN list : j > i /\ list[j] = Op("release", list[i].name)
Retreats ==
    /\ Unwinds(todo)
    /\ \A n \in Names : st[n] = Off \/ Lists(todo, Op("release", n))
    /\ \A n \in Temporaries : kills = 0 /\ dir[n] # NoFile => Lists(todo, Op("destroy", n))
Rests == \A n \in Names : IsOff(Preparation, n, View(n))
Arrives == \A n \in Names : Meets(Preparation, n, Goal(Preparation)[n], View(n))

\* A reader has what the preparation that it follows left in a file.
Sees(m, n) ==
    IF Mapped(n)
    THEN /\ seen[m][n].id \in DOMAIN disk[n] /\ seen[m][n].id[1] = calm[m]
         /\ KeptOf(n, disk[n][seen[m][n].id].roots) = Whole(n, calm[m])
    ELSE KeptOf(n, seen[m][n].roots) = Whole(n, calm[m])
Follows(m) ==
    /\ calm[m] <= gen
    /\ phase \in {"running", "unwinding"} => calm[m] < gen
    /\ stage[m] # "refused"
    /\ stage[m] = "opening" => /\ phase = "ended" /\ calm[m] = gen /\ unsaved = {}
                               /\ \A n \in Finals : Lists(pending[m], n) \/ Sees(m, n)
    /\ stage[m] = "running" => \A n \in Finals : Sees(m, n)
Read ==
    /\ DOMAIN seen = Matches /\ DOMAIN pending = Matches /\ DOMAIN stage = Matches /\ DOMAIN calm = Matches
    /\ \A m \in Matches : /\ DOMAIN seen[m] = Finals /\ pending[m] \in Seq(Finals) /\ calm[m] \in Nat
                          /\ calm[m] # 0 => Follows(m)

StoragesInv ==
    /\ Filed /\ todo \in Seq(Calls) /\ Read
    /\ phase = "running" => Proceeds
    /\ phase = "unwinding" => Retreats
    /\ phase \notin {"running", "unwinding"} => Rests
    /\ phase = "ended" => Arrives

LEMMA OptionsStay ==
  ASSUME UNCHANGED options
  PROVE  given' = given /\ format' = format /\ \A n : Mapped(n)' = Mapped(n)
<1>1. given' = given /\ format' = format
  BY DEF options
<1>2. ASSUME NEW n PROVE Mapped(n)' = Mapped(n)
  BY <1>1 DEF Mapped, Given
<1> QED
  BY <1>1, <1>2

LEMMA PreparationIs ==
  /\ \A n \in Names : Maps(Preparation, n) <=> Mapped(n)
  /\ \A n : Used(Preparation, n) <=> (n \in {"osm_tags", "osm_vertices"} => format = "osm")
  /\ Preparation.gen = gen /\ Preparation.kills = kills /\ Preparation.unsaved = unsaved
  /\ Agrees(Preparation)
BY DEF Preparation, Maps, Used, Agrees

LEMMA PreparationStays ==
  ASSUME UNCHANGED options
  PROVE  /\ UNCHANGED <<gen, kills, unsaved>> => Preparation' = Preparation
         /\ \A n : Used(Preparation, n)' <=> Used(Preparation, n)
         /\ Preparation'.mapped = Preparation.mapped /\ Preparation'.osm = Preparation.osm
<1>1. format' = format /\ \A n : Mapped(n)' = Mapped(n)
  BY OptionsStay
<1>2. {n \in Names : Mapped(n)'} = {n \in Names : Mapped(n)}
  BY <1>1
<1>3. Preparation' = [mapped |-> {n \in Names : Mapped(n)'}, osm |-> format' = "osm", gen |-> gen',
                      kills |-> kills', unsaved |-> unsaved']
  BY DEF Preparation
<1>4. Preparation'.mapped = Preparation.mapped /\ Preparation'.osm = Preparation.osm
  BY <1>1, <1>2, <1>3 DEF Preparation
<1>5. UNCHANGED <<gen, kills, unsaved>> => Preparation' = Preparation
  BY <1>1, <1>2, <1>3 DEF Preparation
<1>6. ASSUME NEW n PROVE Used(Preparation, n)' <=> Used(Preparation, n)
  BY <1>4 DEF Used
<1> QED
  BY <1>4, <1>5, <1>6

LEMMA FileThere ==
  ASSUME NEW files, NEW n, NEW i, FileAt(files, n, i).form # "none"
  PROVE  i \in DOMAIN files[n] /\ files[n][i] = FileAt(files, n, i)
BY DEF FileAt, NoContent

LEMMA WithFiles ==
  ASSUME NEW files, NEW n \in DOMAIN files, NEW id, NEW c
  PROVE  /\ DOMAIN With(files, n, id, c) = DOMAIN files
         /\ \A k \in DOMAIN files \ {n} : With(files, n, id, c)[k] = files[k]
         /\ DOMAIN With(files, n, id, c)[n] = DOMAIN files[n] \cup {id}
         /\ \A i \in DOMAIN files[n] \cup {id} :
               With(files, n, id, c)[n][i] = IF i = id THEN c ELSE files[n][i]
         /\ \A i : FileAt(With(files, n, id, c), n, i) = IF i = id THEN c ELSE FileAt(files, n, i)
<1> DEFINE g == With(files, n, id, c)
           f == [i \in DOMAIN files[n] \cup {id} |-> IF i = id THEN c ELSE files[n][i]]
<1>1. g = [files EXCEPT ![n] = f]
  BY DEF With
<1>2. DOMAIN g = DOMAIN files /\ g[n] = f /\ \A k \in DOMAIN files \ {n} : g[k] = files[k]
  BY <1>1
<1>3. DOMAIN f = DOMAIN files[n] \cup {id} /\ \A i \in DOMAIN f : f[i] = IF i = id THEN c ELSE files[n][i]
  OBVIOUS
<1> HIDE DEF f, g
<1>4. \A i : FileAt(g, n, i) = IF i = id THEN c ELSE FileAt(files, n, i)
  BY <1>2, <1>3 DEF FileAt
<1> QED
  BY <1>2, <1>3, <1>4 DEF g

LEMMA AliveFiles ==
  ASSUME NEW directory, NEW storages, NEW opened
  PROVE  /\ DOMAIN Alive(directory, storages, opened) = Names
         /\ \A n \in Names : \A i : i \in {directory[n], storages[n].id} =>
               FileAt(Alive(directory, storages, opened), n, i) = FileAt(disk, n, i)
         /\ \A m \in Matches : \A n \in Finals : opened[m][n].id \in DOMAIN disk[n] =>
               /\ opened[m][n].id \in DOMAIN Alive(directory, storages, opened)[n]
               /\ Alive(directory, storages, opened)[n][opened[m][n].id] = disk[n][opened[m][n].id]
<1> DEFINE held(n) == {i \in DOMAIN disk[n] : \/ i \in {directory[n], storages[n].id}
                                              \/ n \in Finals /\ \E m \in Matches : opened[m][n].id = i}
           f == Alive(directory, storages, opened)
<1>1. f = [n \in Names |-> [i \in held(n) |-> disk[n][i]]]
  BY DEF Alive
<1>2. \A n \in Names : \A i : i \in {directory[n], storages[n].id} => (i \in held(n) <=> i \in DOMAIN disk[n])
  OBVIOUS
<1>3. \A m \in Matches : \A n \in Finals : opened[m][n].id \in DOMAIN disk[n] => opened[m][n].id \in held(n)
  OBVIOUS
<1> HIDE DEF held, f
<1>4. DOMAIN f = Names /\ \A n \in Names : DOMAIN f[n] = held(n) /\ \A i \in held(n) : f[n][i] = disk[n][i]
  BY <1>1
<1>5. \A n \in Names : \A i : i \in {directory[n], storages[n].id} => FileAt(f, n, i) = FileAt(disk, n, i)
  <2> SUFFICES ASSUME NEW n \in Names, NEW i, i \in {directory[n], storages[n].id}
               PROVE  FileAt(f, n, i) = FileAt(disk, n, i)
    OBVIOUS
  <2> QED
    BY <1>2, <1>4 DEF FileAt
<1>6. \A m \in Matches : \A n \in Finals : opened[m][n].id \in DOMAIN disk[n] =>
         opened[m][n].id \in DOMAIN f[n] /\ f[n][opened[m][n].id] = disk[n][opened[m][n].id]
  BY <1>3, <1>4, FinalsAre
<1> QED
  BY <1>4, <1>5, <1>6 DEF f

\* What a call leaves alone: the other storages, and what readers have from before.
Changes(n) ==
    /\ DOMAIN st' = Names /\ DOMAIN dir' = Names
    /\ \A k \in Names \ {n} : st'[k] = st[k] /\ dir'[k] = dir[k]
Keeps == \A m \in Matches : \A n \in Finals :
    Mapped(n) /\ seen[m][n].id \in DOMAIN disk[n] /\ seen[m][n].id[1] # gen =>
        /\ seen[m][n].id \in DOMAIN disk'[n]
        /\ disk'[n][seen[m][n].id].roots = disk[n][seen[m][n].id].roots

LEMMA FiledStays ==
  ASSUME Filed, NEW n \in Names, Changes(n), FiledAt(n)', DOMAIN disk' = Names,
         UNCHANGED <<options, gen, kills>>
  PROVE  Filed'
<1>1. UNCHANGED options /\ gen' = gen /\ kills' = kills
  OBVIOUS
<1>2. given' = given /\ (\A k : Mapped(k)' = Mapped(k)) /\ \A k : Used(Preparation, k)' <=> Used(Preparation, k)
  BY <1>1, OptionsStay, PreparationStays
<1>3. ASSUME NEW k \in Names PROVE FiledAt(k)'
  <2>1. CASE k = n
    BY <2>1
  <2>2. CASE k # n
    <3>1. st'[k] = st[k] /\ dir'[k] = dir[k] /\ FiledAt(k)
      BY <2>2 DEF Changes, Filed
    <3> QED
      BY <1>2, <3>1 DEF FiledAt
  <2> QED
    BY <2>1, <2>2
<1> QED
  BY <1>1, <1>2, <1>3 DEF Filed, Changes

LEMMA AliveStep ==
  ASSUME Filed, NEW n \in Names, Changes(n), FiledAt(n)', UNCHANGED <<options, gen, kills, seen>>,
         disk' = Alive(dir', st', seen)
  PROVE  /\ Filed' /\ Keeps
         /\ \A k \in Names \ {n} : View(k)' = View(k)
         /\ View(n)' = [st |-> st'[n], dir |-> dir'[n], file |-> FileAt(disk, n, st'[n].id),
                        entry |-> FileAt(disk, n, dir'[n])]
<1>1. DOMAIN disk' = Names
  BY AliveFiles
<1>2. Filed'
  BY <1>1, FiledStays
<1>3. Keeps
  BY AliveFiles DEF Keeps
<1>4. \A k \in Names : FileAt(disk', k, st'[k].id) = FileAt(disk, k, st'[k].id)
                       /\ FileAt(disk', k, dir'[k]) = FileAt(disk, k, dir'[k])
  BY AliveFiles
<1>5. ASSUME NEW k \in Names
      PROVE  View(k)' = [st |-> st'[k], dir |-> dir'[k], file |-> FileAt(disk, k, st'[k].id),
                         entry |-> FileAt(disk, k, dir'[k])]
  BY <1>4 DEF View
<1>6. ASSUME NEW k \in Names \ {n} PROVE View(k)' = View(k)
  BY <1>5 DEF View, Changes
<1> QED
  BY <1>2, <1>3, <1>5, <1>6

LEMMA WithStep ==
  ASSUME Filed, NEW n \in Names, Changes(n), FiledAt(n)', UNCHANGED <<options, gen, kills, seen>>,
         NEW id, NEW c, disk' = With(disk, n, id, c),
         Mapped(n) /\ n \in Finals => id[1] = gen \/ (id \in DOMAIN disk[n] => c.roots = disk[n][id].roots)
  PROVE  /\ Filed' /\ Keeps
         /\ \A k \in Names \ {n} : View(k)' = View(k)
         /\ View(n)' = [st |-> st'[n], dir |-> dir'[n],
                        file |-> IF st'[n].id = id THEN c ELSE FileAt(disk, n, st'[n].id),
                        entry |-> IF dir'[n] = id THEN c ELSE FileAt(disk, n, dir'[n])]
<1>0. DOMAIN disk = Names
  BY DEF Filed
<1>1. DOMAIN disk' = Names
  BY <1>0, WithFiles
<1>2. Filed'
  BY <1>1, FiledStays
<1>3. /\ \A k \in Names \ {n} : disk'[k] = disk[k]
      /\ DOMAIN disk'[n] = DOMAIN disk[n] \cup {id}
      /\ \A i \in DOMAIN disk[n] \cup {id} : disk'[n][i] = IF i = id THEN c ELSE disk[n][i]
      /\ \A i : FileAt(disk', n, i) = IF i = id THEN c ELSE FileAt(disk, n, i)
  BY <1>0, WithFiles
<1>4. Keeps
  <2> SUFFICES ASSUME NEW m \in Matches, NEW k \in Finals, Mapped(k),
                      seen[m][k].id \in DOMAIN disk[k], seen[m][k].id[1] # gen
               PROVE  /\ seen[m][k].id \in DOMAIN disk'[k]
                      /\ disk'[k][seen[m][k].id].roots = disk[k][seen[m][k].id].roots
    BY DEF Keeps
  <2>1. PICK i : i = seen[m][k].id
    OBVIOUS
  <2>2. CASE k # n
    BY <1>3, <2>2, FinalsAre
  <2>3. CASE k = n /\ i # id
    BY <1>3, <2>1, <2>3
  <2>4. CASE k = n /\ i = id
    BY <1>3, <2>1, <2>4
  <2> QED
    BY <2>2, <2>3, <2>4
<1>5. ASSUME NEW k \in Names \ {n} PROVE View(k)' = View(k)
  BY <1>3 DEF View, Changes, FileAt
<1>6. View(n)' = [st |-> st'[n], dir |-> dir'[n],
                  file |-> IF st'[n].id = id THEN c ELSE FileAt(disk, n, st'[n].id),
                  entry |-> IF dir'[n] = id THEN c ELSE FileAt(disk, n, dir'[n])]
  BY <1>3 DEF View
<1> QED
  BY <1>2, <1>4, <1>5, <1>6

LEMMA DiskStep ==
  ASSUME Filed, NEW n \in Names, Changes(n), FiledAt(n)', UNCHANGED <<options, gen, kills, seen, disk>>
  PROVE  /\ Filed' /\ Keeps
         /\ \A k \in Names \ {n} : View(k)' = View(k)
         /\ View(n)' = [st |-> st'[n], dir |-> dir'[n], file |-> FileAt(disk, n, st'[n].id),
                        entry |-> FileAt(disk, n, dir'[n])]
<1>1. DOMAIN disk' = Names /\ disk' = disk
  BY DEF Filed
<1>2. Filed'
  BY <1>1, FiledStays
<1>3. Keeps
  BY <1>1 DEF Keeps
<1>4. ASSUME NEW k \in Names \ {n} PROVE View(k)' = View(k)
  BY <1>1 DEF View, Changes
<1>5. View(n)' = [st |-> st'[n], dir |-> dir'[n], file |-> FileAt(disk, n, st'[n].id),
                  entry |-> FileAt(disk, n, dir'[n])]
  BY <1>1 DEF View
<1> QED
  BY <1>2, <1>3, <1>4, <1>5

-----------------------------------------------------------------------------
(* The calls of a preparation, one by one.                                 *)

\* Before a call: s is where the storages stand, u where they will.
Before(s, u) ==
    /\ Stands(s) /\ todo # <<>> /\ todo \in Seq(Calls)
    /\ Allowed(Preparation, s, Head(todo), u)
    /\ Safe(Preparation, u, Tail(todo), Goal(Preparation))

LEMMA BeforeCall ==
  ASSUME StoragesInv, phase = "running", todo # <<>>
  PROVE  \E s \in Standings : \E u \in Standings : Before(s, u)
<1>1. todo \in Seq(Calls)
  BY DEF StoragesInv
<1>2. PICK s \in Standings : Stands(s) /\ Safe(Preparation, s, todo, Goal(Preparation))
  BY DEF StoragesInv, Proceeds
<1>3. PICK u \in Standings : /\ Allowed(Preparation, s, Head(todo), u)
                             /\ Safe(Preparation, u, Tail(todo), Goal(Preparation))
  BY <1>1, <1>2, SafeNext
<1> QED
  BY <1>1, <1>2, <1>3 DEF Before

LEMMA AtCall ==
  ASSUME NEW s \in Standings, NEW u \in Standings, Before(s, u)
  PROVE  /\ Name \in Names /\ Used(Preparation, Name)
         /\ Head(todo).op \in OpNames /\ Head(todo) = Op(Head(todo).op, Name)
         /\ Moves(Preparation, Name, s[Name], Head(todo).op, u[Name])
         /\ Meets(Preparation, Name, s[Name], View(Name))
         /\ \A k \in Names \ {Name} : u[k] = s[k] /\ s[k] \notin Transient
         /\ Head(todo).op \in {"points", "segments"} =>
               s["index_build"] = "full" /\ Meets(Preparation, "index_build", "full", View("index_build"))
         /\ Head(todo).op = "export" =>
               s["tags"] \in {"final", "saved"} /\ Meets(Preparation, "tags", s["tags"], View("tags"))
         /\ Tail(todo) \in Seq(Calls) /\ todo = <<Head(todo)>> \o Tail(todo)
<1>1. Head(todo) \in Calls /\ Tail(todo) \in Seq(Calls) /\ todo = <<Head(todo)>> \o Tail(todo)
  BY HeadTailProperties DEF Before
<1>2. Head(todo).op \in OpNames /\ Name \in Names /\ Head(todo) = Op(Head(todo).op, Name)
  BY <1>1 DEF Calls, Op, Name
<1>3. /\ Used(Preparation, Name) /\ Moves(Preparation, Name, s[Name], Head(todo).op, u[Name])
      /\ u = [s EXCEPT ![Name] = u[Name]] /\ \A k \in Names \ {Name} : s[k] \notin Transient
      /\ Head(todo).op \in {"points", "segments"} => s["index_build"] = "full"
      /\ Head(todo).op = "export" => s["tags"] \in {"final", "saved"}
  BY DEF Before, Allowed, Name
<1>4. \A k \in Names \ {Name} : u[k] = s[k]
  BY <1>3 DEF Standings
<1>5. \A k \in Names : Meets(Preparation, k, s[k], View(k))
  BY DEF Before, Stands
<1>6. "index_build" \in Names /\ "tags" \in Names
  BY DEF Names, Temporaries, Finals
<1> QED
  BY <1>1, <1>2, <1>3, <1>4, <1>5, <1>6

LEMMA PassingStays ==
  ASSUME NEW p, NEW n \in Temporaries, NEW s \in Passing, NEW o, NEW t, Moves(p, n, s, o, t)
  PROVE  t \in Passing
<1>1. n \notin Finals /\ n \notin {"graph", "index", "tags"}
  BY FinalsAre DEF Names
<1>2. CASE Makes(p, n, s, o, t)
  BY <1>2 DEF Makes, Passing
<1>3. CASE Uses(n, s, o, t)
  BY <1>1, <1>3 DEF Uses, Passing
<1>4. CASE Grows(p, n, s, o, t)
  BY <1>1, <1>4 DEF Grows, Passing
<1>5. CASE Drops(p, n, s, o, t)
  BY <1>1, <1>5 DEF Drops, Passing
<1>6. CASE Leaves(p, n, s, o, t)
  BY <1>1, <1>6 DEF Leaves, Passing
<1> QED
  BY <1>2, <1>3, <1>4, <1>5, <1>6 DEF Moves

\* A call that does what it should leaves the rest of the preparation possible.
LEMMA Advances ==
  ASSUME NEW s \in Standings, NEW u \in Standings, Before(s, u), NEW n, n = Name,
         todo' = Tail(todo), UNCHANGED <<options, gen, kills, unsaved>>,
         \A k \in Names \ {n} : View(k)' = View(k),
         Meets(Preparation, n, u[n], View(n)')
  PROVE  Proceeds' /\ todo' \in Seq(Calls)
<1>1. Preparation' = Preparation
  BY PreparationStays
<1>2. ASSUME NEW k \in Names PROVE Meets(Preparation, k, u[k], View(k)')
  <2>1. CASE k = n
    BY <2>1
  <2>2. CASE k # n
    <3>1. View(k)' = View(k) /\ u[k] = s[k]
      BY <2>2, AtCall
    <3> QED
      BY <3>1 DEF Before, Stands
  <2> QED
    BY <2>1, <2>2
<1>3. ASSUME NEW k \in Temporaries PROVE u[k] \in Passing
  <2>1. k \in Names /\ s[k] \in Passing
    BY FinalsAre DEF Before, Stands
  <2>2. CASE k = n
    BY <2>1, <2>2, AtCall, PassingStays
  <2>3. CASE k # n
    BY <2>1, <2>3, AtCall
  <2> QED
    BY <2>2, <2>3
<1>4. Stands(u)'
  BY <1>1, <1>2, <1>3 DEF Stands
<1>5. Safe(Preparation, u, Tail(todo), Goal(Preparation)) /\ Tail(todo) \in Seq(Calls)
  BY AtCall DEF Before
<1>6. Safe(Preparation', u, todo', Goal(Preparation'))
  BY <1>1, <1>5
<1> QED
  BY <1>4, <1>5, <1>6 DEF Proceeds

\* A running preparation that makes a call.
Calling(ops, s, u) == /\ StoragesInv /\ phase = "running" /\ Running(ops)
                      /\ s \in Standings /\ u \in Standings /\ Before(s, u)
Called == Filed' /\ Keeps /\ Proceeds' /\ todo' \in Seq(Calls)

LEMMA CallingIs ==
  ASSUME NEW ops, NEW s, NEW u, Calling(ops, s, u)
  PROVE  /\ s \in Standings /\ u \in Standings /\ Before(s, u) /\ Filed
         /\ Name \in Names /\ FiledAt(Name) /\ Head(todo).op \in ops
         /\ DOMAIN st = Names /\ DOMAIN dir = Names /\ DOMAIN disk = Names
         /\ Moves(Preparation, Name, s[Name], Head(todo).op, u[Name])
         /\ Meets(Preparation, Name, s[Name], View(Name))
         /\ View(Name) = [st |-> st[Name], dir |-> dir[Name], file |-> FileAt(disk, Name, st[Name].id),
                          entry |-> FileAt(disk, Name, dir[Name])]
         /\ Maps(Preparation, Name) <=> Mapped(Name)
<1>1. s \in Standings /\ u \in Standings /\ Before(s, u) /\ Filed /\ Head(todo).op \in ops
  BY DEF Calling, StoragesInv, Running
<1>2. /\ Name \in Names /\ Moves(Preparation, Name, s[Name], Head(todo).op, u[Name])
      /\ Meets(Preparation, Name, s[Name], View(Name))
  BY <1>1, AtCall
<1>3. Maps(Preparation, Name) <=> Mapped(Name)
  BY <1>2, PreparationIs
<1>4. FiledAt(Name) /\ DOMAIN st = Names /\ DOMAIN dir = Names /\ DOMAIN disk = Names
  BY <1>1, <1>2 DEF Filed
<1> QED
  BY <1>1, <1>2, <1>3, <1>4 DEF View

LEMMA PointersIs ==
  ASSUME NEW roots, NEW value
  PROVE  /\ Pointers(roots, value) = Pointed(Name, st[Name], roots, value)
         /\ Assigned = AssignedOf(st[Name])
BY DEF Pointers, Pointed, Assigned, AssignedOf

LEMMA ClosingFiled ==
  ASSUME NEW n \in Names, FiledAt(n), DOMAIN st = Names, DOMAIN dir = Names, UNCHANGED options, NEW ptr,
         st' = [st EXCEPT ![n].id = NoFile, ![n].ptr = ptr],
         dir' \in {dir, [dir EXCEPT ![n] = NoFile]}
  PROVE  /\ Changes(n) /\ FiledAt(n)'
         /\ st'[n] = [on |-> st[n].on, id |-> NoFile, ptr |-> ptr, made |-> st[n].made]
<1>1. st'[n] = [on |-> st[n].on, id |-> NoFile, ptr |-> ptr, made |-> st[n].made] /\ DOMAIN st' = Names
      /\ \A k \in Names \ {n} : st'[k] = st[k]
  BY DEF FiledAt
<1>2. DOMAIN dir' = Names /\ dir'[n] \in {dir[n], NoFile} /\ \A k \in Names \ {n} : dir'[k] = dir[k]
  OBVIOUS
<1>3. Mapped(n)' = Mapped(n) /\ (Used(Preparation, n)' <=> Used(Preparation, n))
  BY OptionsStay, PreparationStays
<1>4. FiledAt(n)'
  BY <1>1, <1>2, <1>3 DEF FiledAt
<1> QED
  BY <1>1, <1>2, <1>4 DEF Changes

LEMMA CloseProceeds ==
  ASSUME NEW s, NEW u, Calling({"close"}, s, u), CloseFile
  PROVE  Called
<1>0. PICK n : n = Name
  OBVIOUS
<1>1. /\ n \in Names /\ FiledAt(n) /\ DOMAIN st = Names /\ DOMAIN dir = Names /\ Filed
      /\ Moves(Preparation, n, s[n], "close", u[n]) /\ Meets(Preparation, n, s[n], View(n))
      /\ View(n) = [st |-> st[n], dir |-> dir[n], file |-> FileAt(disk, n, st[n].id),
                    entry |-> FileAt(disk, n, dir[n])]
      /\ s \in Standings /\ u \in Standings /\ Before(s, u)
  BY <1>0, CallingIs
<1> DEFINE ptr == Pointers(Assigned, "dangling")
<1>2. /\ st' = [st EXCEPT ![n].id = NoFile, ![n].ptr = ptr] /\ dir' = dir /\ disk' = Alive(dir', st', seen)
      /\ UNCHANGED <<options, gen, kills, unsaved, seen>> /\ todo' = Tail(todo)
  BY <1>0 DEF CloseFile, Next_, matchVars
<1>3. ptr = Pointed(n, st[n], AssignedOf(st[n]), "dangling")
  BY <1>0, PointersIs
<1> HIDE DEF ptr
<1>4. Changes(n) /\ FiledAt(n)' /\ st'[n] = [on |-> st[n].on, id |-> NoFile, ptr |-> ptr, made |-> st[n].made]
  BY <1>1, <1>2, ClosingFiled
<1>5. /\ Filed' /\ Keeps /\ \A k \in Names \ {n} : View(k)' = View(k)
      /\ View(n)' = [st |-> st'[n], dir |-> dir'[n], file |-> FileAt(disk, n, st'[n].id),
                     entry |-> FileAt(disk, n, dir'[n])]
  BY <1>1, <1>2, <1>4, AliveStep
<1>6. /\ View(n)'.st.id = NoFile /\ View(n)'.st.on = View(n).st.on /\ View(n)'.dir = View(n).dir
      /\ View(n)'.entry = View(n).entry /\ View(n)'.st.ptr = Pointed(n, View(n).st, AssignedOf(View(n).st), "dangling")
  BY <1>1, <1>2, <1>3, <1>4, <1>5
<1>7. Meets(Preparation, n, u[n], View(n)')
  BY <1>1, <1>6, CloseMeets
<1> QED
  BY <1>0, <1>1, <1>2, <1>5, <1>7, Advances DEF Called

LEMMA DestroyProceeds ==
  ASSUME NEW s, NEW u, Calling({"destroy"}, s, u), DestroyFile
  PROVE  Called
<1>0. PICK n : n = Name
  OBVIOUS
<1>1. /\ n \in Names /\ FiledAt(n) /\ DOMAIN st = Names /\ DOMAIN dir = Names /\ DOMAIN disk = Names /\ Filed
      /\ Moves(Preparation, n, s[n], Head(todo).op, u[n]) /\ Meets(Preparation, n, s[n], View(n))
      /\ View(n) = [st |-> st[n], dir |-> dir[n], file |-> FileAt(disk, n, st[n].id),
                    entry |-> FileAt(disk, n, dir[n])]
      /\ s \in Standings /\ u \in Standings /\ Before(s, u) /\ Head(todo).op \in {"destroy"}
      /\ (Maps(Preparation, n) <=> Mapped(n))
  BY <1>0, CallingIs
<1> DEFINE ptr == Pointers(Assigned, "dangling")
<1>2. /\ st' = [st EXCEPT ![n].id = NoFile, ![n].ptr = ptr] /\ dir' = [dir EXCEPT ![n] = NoFile]
      /\ disk' = Alive(dir', st', seen)
      /\ UNCHANGED <<options, gen, kills, unsaved, seen>> /\ todo' = Tail(todo)
  BY <1>0 DEF DestroyFile, Next_, matchVars
<1>3. ptr = Pointed(n, st[n], AssignedOf(st[n]), "dangling")
  BY <1>0, PointersIs
<1> HIDE DEF ptr
<1>4. Changes(n) /\ FiledAt(n)' /\ st'[n] = [on |-> st[n].on, id |-> NoFile, ptr |-> ptr, made |-> st[n].made]
  BY <1>1, <1>2, ClosingFiled
<1>5. /\ Filed' /\ Keeps /\ \A k \in Names \ {n} : View(k)' = View(k)
      /\ View(n)' = [st |-> st'[n], dir |-> dir'[n], file |-> FileAt(disk, n, st'[n].id),
                     entry |-> FileAt(disk, n, dir'[n])]
  BY <1>1, <1>2, <1>4, AliveStep
<1>6. dir'[n] = NoFile
  BY <1>1, <1>2
<1>7. /\ View(n)'.st.id = NoFile /\ View(n)'.dir = NoFile
      /\ View(n)'.st.ptr = Pointed(n, View(n).st, AssignedOf(View(n).st), "dangling")
  BY <1>1, <1>3, <1>4, <1>5, <1>6
<1>8. Meets(Preparation, n, u[n], View(n)')
  BY <1>1, <1>7, DestroyMeets
<1> QED
  BY <1>0, <1>1, <1>2, <1>5, <1>8, Advances DEF Called

LEMMA CreateProceeds ==
  ASSUME NEW s, NEW u, Calling({"create"}, s, u), CreateFile
  PROVE  Called
<1>0. PICK n : n = Name
  OBVIOUS
<1>1. /\ n \in Names /\ FiledAt(n) /\ DOMAIN st = Names /\ DOMAIN dir = Names /\ DOMAIN disk = Names /\ Filed
      /\ Moves(Preparation, n, s[n], Head(todo).op, u[n]) /\ Meets(Preparation, n, s[n], View(n))
      /\ View(n) = [st |-> st[n], dir |-> dir[n], file |-> FileAt(disk, n, st[n].id),
                    entry |-> FileAt(disk, n, dir[n])]
      /\ s \in Standings /\ u \in Standings /\ Before(s, u) /\ Head(todo).op \in {"create"}
      /\ (Maps(Preparation, n) <=> Mapped(n))
  BY <1>0, CallingIs
<1> DEFINE id == <<gen, st[n].made + 1>>
<1>2. /\ st' = [st EXCEPT ![n].id = id, ![n].made = @ + 1] /\ dir' = [dir EXCEPT ![n] = id]
      /\ disk' = With(disk, n, id, BlankFile)
      /\ UNCHANGED <<options, gen, kills, unsaved, seen>> /\ todo' = Tail(todo)
  BY <1>0 DEF CreateFile, Next_, matchVars
<1>3. /\ st'[n] = [on |-> st[n].on, id |-> id, ptr |-> st[n].ptr, made |-> st[n].made + 1]
      /\ dir'[n] = id /\ Changes(n)
  BY <1>1, <1>2 DEF Changes, FiledAt
<1>4. Maps(Preparation, n) /\ Used(Preparation, n) /\ Mapped(n)
  BY <1>0, <1>1, CreateMoves, AtCall
<1>5. FiledAt(n)'
  <2>1. Mapped(n)' = Mapped(n) /\ (Used(Preparation, n)' <=> Used(Preparation, n))
    BY <1>2, OptionsStay, PreparationStays
  <2>2. st[n].made \in Nat
    BY <1>1 DEF FiledAt
  <2>3. id[2] # 0 /\ st'[n].made \in Nat
    BY <1>3, <2>2
  <2> HIDE DEF id
  <2> QED
    BY <1>3, <1>4, <2>1, <2>3 DEF FiledAt
<1>6. id[1] = gen
  OBVIOUS
<1> HIDE DEF id
<1>7. /\ Filed' /\ Keeps /\ \A k \in Names \ {n} : View(k)' = View(k)
      /\ View(n)' = [st |-> st'[n], dir |-> dir'[n],
                     file |-> IF st'[n].id = id THEN BlankFile ELSE FileAt(disk, n, st'[n].id),
                     entry |-> IF dir'[n] = id THEN BlankFile ELSE FileAt(disk, n, dir'[n])]
  <2>1. Filed /\ n \in Names /\ Changes(n) /\ FiledAt(n)'
    BY <1>1, <1>3, <1>5
  <2>2. disk' = With(disk, n, id, BlankFile) /\ UNCHANGED <<options, gen, kills, seen>>
    BY <1>2
  <2> QED
    BY <2>1, <2>2, <1>6, WithStep
<1>8. st[n].made \in Nat /\ Preparation.gen \in Nat /\ id = <<Preparation.gen, st[n].made + 1>>
  BY <1>1, PreparationIs DEF Filed, FiledAt, id
<1>9. /\ View(n)'.dir = id /\ View(n)'.st.id = View(n)'.dir /\ View(n)'.st.ptr = View(n).st.ptr
      /\ View(n)'.file = BlankFile /\ View(n)'.entry = BlankFile
  BY <1>1, <1>3, <1>7
<1>10. Meets(Preparation, n, u[n], View(n)')
  BY <1>1, <1>8, <1>9, CreateMeets
<1> QED
  BY <1>0, <1>1, <1>2, <1>7, <1>10, Advances DEF Called

LEMMA InfoProceeds ==
  ASSUME NEW s, NEW u, Calling({"info"}, s, u), WriteInfo
  PROVE  Called
<1>0. PICK n : n = Name
  OBVIOUS
<1>1. /\ n \in Names /\ FiledAt(n) /\ DOMAIN st = Names /\ DOMAIN dir = Names /\ DOMAIN disk = Names /\ Filed
      /\ Moves(Preparation, n, s[n], Head(todo).op, u[n]) /\ Meets(Preparation, n, s[n], View(n))
      /\ View(n) = [st |-> st[n], dir |-> dir[n], file |-> FileAt(disk, n, st[n].id),
                    entry |-> FileAt(disk, n, dir[n])]
      /\ s \in Standings /\ u \in Standings /\ Before(s, u) /\ Head(todo).op \in {"info"}
      /\ (Maps(Preparation, n) <=> Mapped(n))
  BY <1>0, CallingIs
<1> DEFINE id == st[n].id
           c == [disk[n][st[n].id] EXCEPT !.info = TRUE]
<1>2. /\ disk' = With(disk, n, id, c)
      /\ UNCHANGED <<options, gen, kills, unsaved, seen, st, dir>> /\ todo' = Tail(todo)
  BY <1>0 DEF WriteInfo, Next_, matchVars, Content
<1>3. Changes(n) /\ st'[n] = st[n] /\ dir'[n] = dir[n]
  BY <1>1, <1>2 DEF Changes
<1>4. FiledAt(n)'
  <2>1. Mapped(n)' = Mapped(n) /\ (Used(Preparation, n)' <=> Used(Preparation, n))
    BY <1>2, OptionsStay, PreparationStays
  <2> QED
    BY <1>1, <1>3, <2>1 DEF FiledAt
<1>5. IsRemade(Preparation, n, View(n))
  <2>1. (s[n] = "bare" /\ u[n] = "informed") \/ (s[n] = "remade" /\ u[n] = "reinformed")
    BY <1>1, InfoMoves
  <2> QED
    BY <1>1, <2>1 DEF Meets, IsBare
<1>6. /\ st[n].id = dir[n] /\ dir[n][1] = gen /\ FileAt(disk, n, st[n].id) = BlankFile
      /\ FileAt(disk, n, dir[n]) = BlankFile
  BY <1>1, <1>5, PreparationIs DEF IsRemade, Mine
<1>7. Informed(FileAt(disk, n, st[n].id), c)
  <2>1. FileAt(disk, n, st[n].id).form # "none"
    BY <1>6 DEF BlankFile
  <2>2. disk[n][st[n].id] = FileAt(disk, n, st[n].id)
    BY <2>1, FileThere
  <2> QED
    BY <2>2 DEF Informed
<1> HIDE DEF c
<1>8. /\ Filed' /\ Keeps /\ \A k \in Names \ {n} : View(k)' = View(k)
      /\ View(n)' = [st |-> st'[n], dir |-> dir'[n],
                     file |-> IF st'[n].id = id THEN c ELSE FileAt(disk, n, st'[n].id),
                     entry |-> IF dir'[n] = id THEN c ELSE FileAt(disk, n, dir'[n])]
  BY <1>1, <1>2, <1>3, <1>4, <1>6, WithStep
<1>9. /\ View(n)'.st = View(n).st /\ View(n)'.dir = View(n).dir
      /\ View(n)'.file = c /\ View(n).file = FileAt(disk, n, st[n].id)
      /\ View(n).st.id = View(n).dir => View(n)'.entry = View(n)'.file
  BY <1>1, <1>3, <1>8
<1>10. Meets(Preparation, n, u[n], View(n)')
  BY <1>1, <1>7, <1>9, InfoMeets
<1> QED
  BY <1>0, <1>1, <1>2, <1>8, <1>10, Advances DEF Called

LEMMA ConstructProceeds ==
  ASSUME NEW s, NEW u, Calling({"construct"}, s, u), Construct
  PROVE  Called
<1>0. PICK n : n = Name
  OBVIOUS
<1>1. /\ n \in Names /\ FiledAt(n) /\ DOMAIN st = Names /\ DOMAIN dir = Names /\ DOMAIN disk = Names /\ Filed
      /\ Moves(Preparation, n, s[n], Head(todo).op, u[n]) /\ Meets(Preparation, n, s[n], View(n))
      /\ View(n) = [st |-> st[n], dir |-> dir[n], file |-> FileAt(disk, n, st[n].id),
                    entry |-> FileAt(disk, n, dir[n])]
      /\ s \in Standings /\ u \in Standings /\ Before(s, u) /\ Head(todo).op \in {"construct"}
      /\ (Maps(Preparation, n) <=> Mapped(n))
  BY <1>0, CallingIs
<1> DEFINE id == IF Mapped(n) THEN st[n].id ELSE <<gen, 0>>
           blank == IF Mapped(n) THEN disk[n][st[n].id] ELSE BlankMemory
           ptr == Pointers(Constructed(n), "valid")
           c == [blank EXCEPT !.roots = Objects(Constructed(n), FALSE)]
<1>2. /\ st' = [st EXCEPT ![n].id = id, ![n].ptr = ptr] /\ disk' = With(disk, n, id, c)
      /\ UNCHANGED <<options, gen, kills, unsaved, seen, dir>> /\ todo' = Tail(todo)
  BY <1>0 DEF Construct, Next_, matchVars, Content
<1>3. ptr = Pointed(n, st[n], Constructed(n), "valid")
  BY <1>0, PointersIs
<1>4. Mapped(n) => st[n].id = dir[n] /\ dir[n][1] = gen /\ FileAt(disk, n, st[n].id).form = "mapped"
                   /\ disk[n][st[n].id] = FileAt(disk, n, st[n].id)
  <2>1. \/ Maps(Preparation, n) /\ s[n] = "informed"
        \/ ~Maps(Preparation, n)
        \/ Maps(Preparation, n) /\ s[n] = "reinformed"
    BY <1>1, ConstructMoves
  <2>2. Mapped(n) => IsReinformed(Preparation, n, View(n))
    BY <1>1, <2>1 DEF Meets, IsInformed
  <2>3. Mapped(n) => st[n].id = dir[n] /\ dir[n][1] = gen /\ FileAt(disk, n, st[n].id).form = "mapped"
    BY <1>1, <2>2, PreparationIs DEF IsReinformed, Mine, WideFile
  <2> QED
    BY <2>3, FileThere
<1>5. /\ Maps(Preparation, n) => Renewed(FileAt(disk, n, st[n].id), c, Blanks(Constructed(n), Preparation.gen))
      /\ ~Maps(Preparation, n) => Renewed(BlankMemory, c, Blanks(Constructed(n), Preparation.gen))
  <2>1. Objects(Constructed(n), FALSE) = Blanks(Constructed(n), Preparation.gen)
    BY PreparationIs DEF Objects, Blanks
  <2>2. Renewed(blank, c, Blanks(Constructed(n), Preparation.gen))
    BY <2>1 DEF Renewed
  <2>3. Maps(Preparation, n) => blank = FileAt(disk, n, st[n].id)
    BY <1>1, <1>4
  <2>4. ~Maps(Preparation, n) => blank = BlankMemory
    BY <1>1
  <2> HIDE DEF c, blank
  <2> QED
    BY <2>2, <2>3, <2>4
<1>6. id = (IF Maps(Preparation, n) THEN st[n].id ELSE <<Preparation.gen, 0>>) /\ id[1] = gen
  BY <1>1, <1>4, PreparationIs
<1> HIDE DEF ptr, c, id
<1>8. Changes(n) /\ st'[n] = [on |-> st[n].on, id |-> id, ptr |-> ptr, made |-> st[n].made] /\ dir'[n] = dir[n]
  BY <1>1, <1>2 DEF Changes, FiledAt
<1>9. FiledAt(n)'
  <2>1. Mapped(n)' = Mapped(n) /\ (Used(Preparation, n)' <=> Used(Preparation, n))
    BY <1>2, OptionsStay, PreparationStays
  <2> QED
    BY <1>1, <1>8, <2>1 DEF FiledAt
<1>10. /\ Filed' /\ Keeps /\ \A k \in Names \ {n} : View(k)' = View(k)
      /\ View(n)' = [st |-> st'[n], dir |-> dir'[n],
                     file |-> IF st'[n].id = id THEN c ELSE FileAt(disk, n, st'[n].id),
                     entry |-> IF dir'[n] = id THEN c ELSE FileAt(disk, n, dir'[n])]
  <2>1. Filed /\ n \in Names /\ Changes(n) /\ FiledAt(n)'
    BY <1>1, <1>8, <1>9
  <2>2. disk' = With(disk, n, id, c) /\ UNCHANGED <<options, gen, kills, seen>>
    BY <1>2
  <2>3. id[1] = gen
    BY <1>6
  <2> QED
    BY <2>1, <2>2, <2>3, WithStep
<1>11. /\ View(n)'.dir = View(n).dir /\ View(n)'.file = c /\ View(n).file = FileAt(disk, n, st[n].id)
       /\ View(n)'.st.id = (IF Maps(Preparation, n) THEN View(n).st.id ELSE <<Preparation.gen, 0>>)
       /\ View(n)'.st.ptr = Pointed(n, View(n).st, Constructed(n), "valid")
       /\ View(n)'.st.id = View(n)'.dir => View(n)'.entry = View(n)'.file
  BY <1>1, <1>3, <1>6, <1>8, <1>10
<1>12. Meets(Preparation, n, u[n], View(n)')
  BY <1>1, <1>5, <1>11, ConstructMeets
<1> QED
  BY <1>0, <1>1, <1>2, <1>10, <1>12, Advances DEF Called

LEMMA HasFileIs ==
  ASSUME NEW n \in Names, NEW roots, HasFile(Preparation, n, View(n), roots)
  PROVE  /\ Mapped(n) => st[n].id = dir[n] /\ dir[n][1] = gen
         /\ st[n].id[1] = gen
         /\ st[n].id \in DOMAIN disk[n] /\ disk[n][st[n].id] = FileAt(disk, n, st[n].id)
         /\ FileAt(disk, n, st[n].id).roots = roots
<1>1. /\ View(n).st = st[n] /\ View(n).dir = dir[n] /\ View(n).file = FileAt(disk, n, st[n].id)
      /\ (Maps(Preparation, n) <=> Mapped(n)) /\ Preparation.gen = gen
  BY PreparationIs DEF View
<1>2. /\ Mapped(n) => st[n].id = dir[n] /\ dir[n][1] = gen
      /\ st[n].id[1] = gen /\ FileAt(disk, n, st[n].id).roots = roots
      /\ FileAt(disk, n, st[n].id).form \in {"mapped", "memory"}
  BY <1>1 DEF HasFile, Mine, WideFile, MemoryFile
<1> QED
  BY <1>2, FileThere

LEMMA ConstructsProceeds ==
  ASSUME NEW s, NEW u, Calling({"constructed"}, s, u), Constructs
  PROVE  Called
<1>0. PICK n : n = Name
  OBVIOUS
<1>1. /\ n \in Names /\ FiledAt(n) /\ DOMAIN st = Names /\ DOMAIN dir = Names /\ DOMAIN disk = Names /\ Filed
      /\ Moves(Preparation, n, s[n], Head(todo).op, u[n]) /\ Meets(Preparation, n, s[n], View(n))
      /\ View(n) = [st |-> st[n], dir |-> dir[n], file |-> FileAt(disk, n, st[n].id),
                    entry |-> FileAt(disk, n, dir[n])]
      /\ s \in Standings /\ u \in Standings /\ Before(s, u) /\ Head(todo).op \in {"constructed"}
      /\ (Maps(Preparation, n) <=> Mapped(n))
  BY <1>0, CallingIs
<1>2. /\ st' = [st EXCEPT ![n].on = TRUE]
      /\ UNCHANGED <<options, gen, kills, unsaved, seen, dir, disk>> /\ todo' = Tail(todo)
  BY <1>0 DEF Constructs, Next_, matchVars
<1>3. Changes(n) /\ st'[n] = [on |-> TRUE, id |-> st[n].id, ptr |-> st[n].ptr, made |-> st[n].made] /\ dir'[n] = dir[n]
  BY <1>1, <1>2 DEF Changes, FiledAt
<1>4. FiledAt(n)'
  <2>1. Mapped(n)' = Mapped(n) /\ (Used(Preparation, n)' <=> Used(Preparation, n))
    BY <1>2, OptionsStay, PreparationStays
  <2> QED
    BY <1>1, <1>3, <2>1 DEF FiledAt
<1>5. /\ Filed' /\ Keeps /\ \A k \in Names \ {n} : View(k)' = View(k)
      /\ View(n)' = [st |-> st'[n], dir |-> dir'[n], file |-> FileAt(disk, n, st'[n].id),
                     entry |-> FileAt(disk, n, dir'[n])]
  BY <1>1, <1>2, <1>3, <1>4, DiskStep
<1>6. /\ View(n)'.st.id = View(n).st.id /\ View(n)'.st.ptr = View(n).st.ptr /\ View(n)'.st.on = TRUE
      /\ View(n)'.dir = View(n).dir /\ View(n)'.file = View(n).file /\ View(n)'.entry = View(n).entry
  BY <1>1, <1>3, <1>5
<1>7. Meets(Preparation, n, u[n], View(n)')
  BY <1>1, <1>6, ConstructedMeets
<1> QED
  BY <1>0, <1>1, <1>2, <1>5, <1>7, Advances DEF Called

LEMMA FillProceeds ==
  ASSUME NEW s, NEW u, Calling({"fill"}, s, u), Fill
  PROVE  Called
<1>0. PICK n : n = Name
  OBVIOUS
<1>1. /\ n \in Names /\ FiledAt(n) /\ DOMAIN st = Names /\ DOMAIN dir = Names /\ DOMAIN disk = Names /\ Filed
      /\ Moves(Preparation, n, s[n], Head(todo).op, u[n]) /\ Meets(Preparation, n, s[n], View(n))
      /\ View(n) = [st |-> st[n], dir |-> dir[n], file |-> FileAt(disk, n, st[n].id),
                    entry |-> FileAt(disk, n, dir[n])]
      /\ s \in Standings /\ u \in Standings /\ Before(s, u) /\ Head(todo).op \in {"fill"}
      /\ (Maps(Preparation, n) <=> Mapped(n))
  BY <1>0, CallingIs
<1> DEFINE id == st[n].id
           c == [disk[n][st[n].id] EXCEPT !.roots = Objects(DOMAIN disk[n][st[n].id].roots, TRUE)]
<1>2. /\ disk' = With(disk, n, id, c)
      /\ UNCHANGED <<options, gen, kills, unsaved, seen, st, dir>> /\ todo' = Tail(todo)
  BY <1>0 DEF Fill, Next_, matchVars, Content
<1>3. Changes(n) /\ st'[n] = st[n] /\ dir'[n] = dir[n]
  BY <1>1, <1>2 DEF Changes
<1>4. FiledAt(n)'
  <2>1. Mapped(n)' = Mapped(n) /\ (Used(Preparation, n)' <=> Used(Preparation, n))
    BY <1>2, OptionsStay, PreparationStays
  <2> QED
    BY <1>1, <1>3, <2>1 DEF FiledAt
<1>5. HasFile(Preparation, n, View(n), Blanks(Constructed(n), Preparation.gen))
  <2>1. s[n] = "blank"
    BY <1>1, FillMoves
  <2> QED
    BY <1>1, <2>1 DEF Meets, IsBlank, IsNew
<1>6. id[1] = gen /\ disk[n][st[n].id] = FileAt(disk, n, st[n].id)
  BY <1>1, <1>5, HasFileIs
<1>7. Renewed(FileAt(disk, n, st[n].id), c, Fulls(DOMAIN FileAt(disk, n, st[n].id).roots, Preparation.gen))
  <2>1. Preparation.gen = gen
    BY PreparationIs
  <2> QED
    BY <1>6, <2>1 DEF Renewed, Fulls, Objects
<1> HIDE DEF c
<1>8. /\ Filed' /\ Keeps /\ \A k \in Names \ {n} : View(k)' = View(k)
      /\ View(n)' = [st |-> st'[n], dir |-> dir'[n],
                     file |-> IF st'[n].id = id THEN c ELSE FileAt(disk, n, st'[n].id),
                     entry |-> IF dir'[n] = id THEN c ELSE FileAt(disk, n, dir'[n])]
  <2>1. Filed /\ n \in Names /\ Changes(n) /\ FiledAt(n)'
    BY <1>1, <1>3, <1>4
  <2>2. disk' = With(disk, n, id, c) /\ UNCHANGED <<options, gen, kills, seen>>
    BY <1>2
  <2>3. id[1] = gen
    BY <1>6
  <2> QED
    BY <2>1, <2>2, <2>3, WithStep
<1>9. /\ View(n)'.st = View(n).st /\ View(n)'.dir = View(n).dir
      /\ View(n)'.file = c /\ View(n).file = FileAt(disk, n, st[n].id)
      /\ View(n)'.st.id = View(n)'.dir => View(n)'.entry = View(n)'.file
  BY <1>1, <1>3, <1>8
<1>10. Meets(Preparation, n, u[n], View(n)')
  BY <1>1, <1>7, <1>9, FillMeets
<1> QED
  BY <1>0, <1>1, <1>2, <1>8, <1>10, Advances DEF Called

LEMMA LargeEnoughProceeds ==
  ASSUME NEW s, NEW u, Calling({"reserve"}, s, u), LargeEnough
  PROVE  Called
<1>0. PICK n : n = Name
  OBVIOUS
<1>1. /\ n \in Names /\ FiledAt(n) /\ DOMAIN st = Names /\ DOMAIN dir = Names /\ DOMAIN disk = Names /\ Filed
      /\ Moves(Preparation, n, s[n], Head(todo).op, u[n]) /\ Meets(Preparation, n, s[n], View(n))
      /\ View(n) = [st |-> st[n], dir |-> dir[n], file |-> FileAt(disk, n, st[n].id),
                    entry |-> FileAt(disk, n, dir[n])]
      /\ s \in Standings /\ u \in Standings /\ Before(s, u) /\ Head(todo).op \in {"reserve"}
      /\ (Maps(Preparation, n) <=> Mapped(n))
  BY <1>0, CallingIs
<1>2. UNCHANGED <<options, gen, kills, unsaved, seen, st, dir, disk>> /\ todo' = Tail(todo)
  BY DEF LargeEnough, Next_, matchVars
<1>3. Changes(n) /\ st'[n] = st[n] /\ dir'[n] = dir[n]
  BY <1>1, <1>2 DEF Changes
<1>4. FiledAt(n)'
  <2>1. Mapped(n)' = Mapped(n) /\ (Used(Preparation, n)' <=> Used(Preparation, n))
    BY <1>2, OptionsStay, PreparationStays
  <2> QED
    BY <1>1, <1>3, <2>1 DEF FiledAt
<1>5. /\ Filed' /\ Keeps /\ \A k \in Names \ {n} : View(k)' = View(k)
      /\ View(n)' = [st |-> st'[n], dir |-> dir'[n], file |-> FileAt(disk, n, st'[n].id),
                     entry |-> FileAt(disk, n, dir'[n])]
  BY <1>1, <1>2, <1>3, <1>4, DiskStep
<1>6. View(n)' = View(n)
  BY <1>1, <1>3, <1>5
<1>7. Meets(Preparation, n, u[n], View(n)')
  BY <1>1, <1>6, ReserveMeets
<1> QED
  BY <1>0, <1>1, <1>2, <1>5, <1>7, Advances DEF Called

LEMMA LookProceeds ==
  ASSUME NEW s, NEW u, Calling({"check", "export"}, s, u), CheckOrExport
  PROVE  Called
<1>0. PICK n : n = Name
  OBVIOUS
<1>1. /\ n \in Names /\ FiledAt(n) /\ DOMAIN st = Names /\ DOMAIN dir = Names /\ DOMAIN disk = Names /\ Filed
      /\ Moves(Preparation, n, s[n], Head(todo).op, u[n]) /\ Meets(Preparation, n, s[n], View(n))
      /\ View(n) = [st |-> st[n], dir |-> dir[n], file |-> FileAt(disk, n, st[n].id),
                    entry |-> FileAt(disk, n, dir[n])]
      /\ s \in Standings /\ u \in Standings /\ Before(s, u) /\ Head(todo).op \in {"check", "export"}
      /\ (Maps(Preparation, n) <=> Mapped(n))
  BY <1>0, CallingIs
<1>2. UNCHANGED <<options, gen, kills, unsaved, seen, st, dir, disk>> /\ todo' = Tail(todo)
  BY DEF CheckOrExport, Next_, matchVars
<1>3. Changes(n) /\ st'[n] = st[n] /\ dir'[n] = dir[n]
  BY <1>1, <1>2 DEF Changes
<1>4. FiledAt(n)'
  <2>1. Mapped(n)' = Mapped(n) /\ (Used(Preparation, n)' <=> Used(Preparation, n))
    BY <1>2, OptionsStay, PreparationStays
  <2> QED
    BY <1>1, <1>3, <2>1 DEF FiledAt
<1>5. /\ Filed' /\ Keeps /\ \A k \in Names \ {n} : View(k)' = View(k)
      /\ View(n)' = [st |-> st'[n], dir |-> dir'[n], file |-> FileAt(disk, n, st'[n].id),
                     entry |-> FileAt(disk, n, dir'[n])]
  BY <1>1, <1>2, <1>3, <1>4, DiskStep
<1>6. View(n)' = View(n)
  BY <1>1, <1>3, <1>5
<1>7. Meets(Preparation, n, u[n], View(n)')
  BY <1>1, <1>6, LookMeets
<1> QED
  BY <1>0, <1>1, <1>2, <1>5, <1>7, Advances DEF Called

LEMMA OpenProceeds ==
  ASSUME NEW s, NEW u, Calling({"open"}, s, u), OpenFile
  PROVE  Called
<1>0. PICK n : n = Name
  OBVIOUS
<1>1. /\ n \in Names /\ FiledAt(n) /\ DOMAIN st = Names /\ DOMAIN dir = Names /\ DOMAIN disk = Names /\ Filed
      /\ Moves(Preparation, n, s[n], Head(todo).op, u[n]) /\ Meets(Preparation, n, s[n], View(n))
      /\ View(n) = [st |-> st[n], dir |-> dir[n], file |-> FileAt(disk, n, st[n].id),
                    entry |-> FileAt(disk, n, dir[n])]
      /\ s \in Standings /\ u \in Standings /\ Before(s, u) /\ Head(todo).op \in {"open"}
      /\ (Maps(Preparation, n) <=> Mapped(n))
  BY <1>0, CallingIs
<1>2. /\ st' = [st EXCEPT ![n].id = dir[n]] /\ dir' = dir /\ disk' = Alive(dir', st', seen)
      /\ UNCHANGED <<options, gen, kills, unsaved, seen>> /\ todo' = Tail(todo)
  BY <1>0 DEF OpenFile, Next_, matchVars
<1>3. /\ Changes(n)
      /\ st'[n] = [on |-> st[n].on, id |-> dir[n], ptr |-> st[n].ptr, made |-> st[n].made]
      /\ dir'[n] = dir[n]
  BY <1>1, <1>2 DEF Changes, FiledAt
<1>4. FiledAt(n)'
  <2>1. Mapped(n)' = Mapped(n) /\ (Used(Preparation, n)' <=> Used(Preparation, n))
    BY <1>2, OptionsStay, PreparationStays
  <2> QED
    BY <1>1, <1>3, <2>1 DEF FiledAt
<1>5. /\ Filed' /\ Keeps /\ \A k \in Names \ {n} : View(k)' = View(k)
      /\ View(n)' = [st |-> st'[n], dir |-> dir'[n], file |-> FileAt(disk, n, st'[n].id),
                     entry |-> FileAt(disk, n, dir'[n])]
  BY <1>1, <1>2, <1>3, <1>4, AliveStep
<1>6. /\ View(n)'.st.id = View(n).dir /\ View(n)'.st.ptr = View(n).st.ptr /\ View(n)'.st.on = View(n).st.on
      /\ View(n)'.dir = View(n).dir /\ View(n)'.file = View(n).entry /\ View(n)'.entry = View(n).entry
  BY <1>1, <1>3, <1>5
<1>7. Meets(Preparation, n, u[n], View(n)')
  BY <1>1, <1>6, OpenMeets
<1> QED
  BY <1>0, <1>1, <1>2, <1>5, <1>7, Advances DEF Called

LEMMA FindProceeds ==
  ASSUME NEW s, NEW u, Calling({"find"}, s, u), Find
  PROVE  Called /\ UNCHANGED phase
<1>0. PICK n : n = Name
  OBVIOUS
<1>1. /\ n \in Names /\ FiledAt(n) /\ DOMAIN st = Names /\ DOMAIN dir = Names /\ DOMAIN disk = Names /\ Filed
      /\ Moves(Preparation, n, s[n], Head(todo).op, u[n]) /\ Meets(Preparation, n, s[n], View(n))
      /\ View(n) = [st |-> st[n], dir |-> dir[n], file |-> FileAt(disk, n, st[n].id),
                    entry |-> FileAt(disk, n, dir[n])]
      /\ s \in Standings /\ u \in Standings /\ Before(s, u) /\ Head(todo).op \in {"find"}
      /\ (Maps(Preparation, n) <=> Mapped(n))
  BY <1>0, CallingIs
<1> DEFINE found == DOMAIN disk[n][st[n].id].roots
           ptr == [r \in Roots[n] |-> IF r \in found THEN "valid" ELSE "null"]
<1>2. /\ st' = [st EXCEPT ![n].ptr = ptr]
      /\ UNCHANGED <<options, gen, kills, unsaved, seen, dir, disk>>
      /\ IF Required \subseteq found THEN todo' = Tail(todo) /\ UNCHANGED phase ELSE Throws
  BY <1>0 DEF Find, Next_, matchVars, Content
<1>3. Changes(n) /\ st'[n] = [on |-> st[n].on, id |-> st[n].id, ptr |-> ptr, made |-> st[n].made] /\ dir'[n] = dir[n]
  BY <1>1, <1>2 DEF Changes, FiledAt
<1>4. FiledAt(n)'
  <2>1. Mapped(n)' = Mapped(n) /\ (Used(Preparation, n)' <=> Used(Preparation, n))
    BY <1>2, OptionsStay, PreparationStays
  <2> QED
    BY <1>1, <1>3, <2>1 DEF FiledAt
<1>5. found = DOMAIN FileAt(disk, n, st[n].id).roots
  <2>1. s[n] = "opened"
    BY <1>1, FindMoves
  <2>2. IsOpened(Preparation, n, View(n))
    BY <1>1, <2>1 DEF Meets
  <2>3. FileAt(disk, n, st[n].id).form = "mapped"
    BY <1>1, <2>2 DEF IsOpened, Unmapped, WideFile
  <2> QED
    BY <2>3, FileThere
<1> HIDE DEF found
<1>6. Required = IF n = "index" THEN AssignedOf(st[n]) ELSE Roots[n]
  BY <1>0, PointersIs DEF Required
<1>7. /\ Filed' /\ Keeps /\ \A k \in Names \ {n} : View(k)' = View(k)
      /\ View(n)' = [st |-> st'[n], dir |-> dir'[n], file |-> FileAt(disk, n, st'[n].id),
                     entry |-> FileAt(disk, n, dir'[n])]
  BY <1>1, <1>2, <1>3, <1>4, DiskStep
<1>a. /\ View(n)'.st.id = View(n).st.id /\ View(n)'.st.on = View(n).st.on /\ View(n)'.dir = View(n).dir
      /\ View(n)'.entry = View(n).entry /\ View(n)'.file = View(n).file
      /\ View(n).st = st[n] /\ View(n).file = FileAt(disk, n, st[n].id)
  BY <1>1, <1>3, <1>7
<1>b. View(n)'.st.ptr = Sought(n, View(n).file.roots)
  <2>1. ptr = Sought(n, FileAt(disk, n, st[n].id).roots)
    BY <1>5 DEF Sought
  <2> HIDE DEF ptr
  <2> QED
    BY <1>3, <1>7, <1>a, <2>1
<1>8. /\ Meets(Preparation, n, u[n], View(n)')
      /\ (IF n = "index" THEN AssignedOf(st[n]) ELSE Roots[n]) \subseteq found
  <2>1. Moves(Preparation, n, s[n], "find", u[n])
    BY <1>1
  <2>2. /\ Meets(Preparation, n, u[n], View(n)')
        /\ (IF n = "index" THEN AssignedOf(View(n).st) ELSE Roots[n]) \subseteq DOMAIN View(n).file.roots
    BY <1>1, <1>a, <1>b, <2>1, FindMeets
  <2> QED
    BY <1>5, <1>a, <2>2
<1>9. todo' = Tail(todo) /\ UNCHANGED phase
  BY <1>2, <1>6, <1>8
<1> QED
  BY <1>0, <1>1, <1>2, <1>7, <1>8, <1>9, Advances DEF Called

LEMMA FinalizeProceeds ==
  ASSUME NEW s, NEW u, Calling({"finalize"}, s, u), FinalizeFile
  PROVE  Called
<1>0. PICK n : n = Name
  OBVIOUS
<1>1. /\ n \in Names /\ FiledAt(n) /\ DOMAIN st = Names /\ DOMAIN dir = Names /\ DOMAIN disk = Names /\ Filed
      /\ Moves(Preparation, n, s[n], Head(todo).op, u[n]) /\ Meets(Preparation, n, s[n], View(n))
      /\ View(n) = [st |-> st[n], dir |-> dir[n], file |-> FileAt(disk, n, st[n].id),
                    entry |-> FileAt(disk, n, dir[n])]
      /\ s \in Standings /\ u \in Standings /\ Before(s, u) /\ Head(todo).op \in {"finalize"}
      /\ (Maps(Preparation, n) <=> Mapped(n))
  BY <1>0, CallingIs
<1> DEFINE id == st[n].id
           value == IF Mapped(n) THEN "dangling" ELSE "null"
           ptr == [st[n].ptr EXCEPT !["lookups"] = value]
           c == [disk[n][st[n].id] EXCEPT !.roots =
                    [r \in DOMAIN disk[n][st[n].id].roots \ {"lookups"} |-> disk[n][st[n].id].roots[r]]]
<1>2. /\ st' = [st EXCEPT ![n].ptr["lookups"] = value] /\ disk' = With(disk, n, id, c)
      /\ UNCHANGED <<options, gen, kills, unsaved, seen, dir>> /\ todo' = Tail(todo)
  BY <1>0 DEF FinalizeFile, Next_, matchVars, Content
<1>3. Changes(n) /\ st'[n] = [on |-> st[n].on, id |-> st[n].id, ptr |-> ptr, made |-> st[n].made] /\ dir'[n] = dir[n]
  BY <1>1, <1>2 DEF Changes, FiledAt
<1> HIDE DEF value
<1>4. FiledAt(n)'
  <2>1. Mapped(n)' = Mapped(n) /\ (Used(Preparation, n)' <=> Used(Preparation, n))
    BY <1>2, OptionsStay, PreparationStays
  <2> QED
    BY <1>1, <1>3, <2>1 DEF FiledAt
<1>5. HasFile(Preparation, n, View(n), Fulls(Roots[n], Preparation.gen))
  <2>1. s[n] = "full"
    BY <1>1, FinalizeMoves
  <2> QED
    BY <1>1, <2>1 DEF Meets, IsFull
<1>6. id[1] = gen /\ disk[n][st[n].id] = FileAt(disk, n, st[n].id)
  BY <1>1, <1>5, HasFileIs
<1>7. Renewed(FileAt(disk, n, st[n].id), c, Without(FileAt(disk, n, st[n].id).roots, "lookups"))
  BY <1>6 DEF Renewed, Without
<1> HIDE DEF c
<1>8. /\ Filed' /\ Keeps /\ \A k \in Names \ {n} : View(k)' = View(k)
      /\ View(n)' = [st |-> st'[n], dir |-> dir'[n],
                     file |-> IF st'[n].id = id THEN c ELSE FileAt(disk, n, st'[n].id),
                     entry |-> IF dir'[n] = id THEN c ELSE FileAt(disk, n, dir'[n])]
  <2>1. Filed /\ n \in Names /\ Changes(n) /\ FiledAt(n)'
    BY <1>1, <1>3, <1>4
  <2>2. disk' = With(disk, n, id, c) /\ UNCHANGED <<options, gen, kills, seen>>
    BY <1>2
  <2>3. id[1] = gen
    BY <1>6
  <2> QED
    BY <2>1, <2>2, <2>3, WithStep
<1>9. /\ View(n)'.st.id = View(n).st.id /\ View(n)'.dir = View(n).dir
      /\ View(n)'.st.ptr = Repointed(View(n).st.ptr, "lookups", value)
      /\ View(n)'.file = c /\ View(n).file = FileAt(disk, n, st[n].id)
      /\ View(n)'.st.id = View(n)'.dir => View(n)'.entry = View(n)'.file
  <2>1. ptr = Repointed(st[n].ptr, "lookups", value)
    BY DEF Repointed
  <2> HIDE DEF ptr
  <2> QED
    BY <1>1, <1>3, <1>8, <2>1
<1>10. Meets(Preparation, n, u[n], View(n)')
  BY <1>1, <1>7, <1>9, FinalizeMeets
<1> QED
  BY <1>0, <1>1, <1>2, <1>8, <1>10, Advances DEF Called

LEMMA TreeProceeds ==
  ASSUME NEW s, NEW u, Calling({"points", "segments"}, s, u), BuildTree
  PROVE  Called
<1>0. PICK n : n = Name
  OBVIOUS
<1>1. /\ n \in Names /\ FiledAt(n) /\ DOMAIN st = Names /\ DOMAIN dir = Names /\ DOMAIN disk = Names /\ Filed
      /\ Moves(Preparation, n, s[n], Head(todo).op, u[n]) /\ Meets(Preparation, n, s[n], View(n))
      /\ View(n) = [st |-> st[n], dir |-> dir[n], file |-> FileAt(disk, n, st[n].id),
                    entry |-> FileAt(disk, n, dir[n])]
      /\ s \in Standings /\ u \in Standings /\ Before(s, u) /\ Head(todo).op \in {"points", "segments"}
      /\ (Maps(Preparation, n) <=> Mapped(n))
  BY <1>0, CallingIs
<1> DEFINE id == st[n].id
           o == Head(todo).op
           lists == disk["index_build"][st["index_build"].id].roots
           ptr == [st[n].ptr EXCEPT ![o] = "valid"]
           c == [disk[n][st[n].id] EXCEPT !.roots =
                    [r \in DOMAIN disk[n][st[n].id].roots \cup {o} |->
                        IF r = o THEN lists[o] ELSE disk[n][st[n].id].roots[r]]]
<1>2. /\ st' = [st EXCEPT ![n].ptr[o] = "valid"] /\ disk' = With(disk, n, id, c)
      /\ UNCHANGED <<options, gen, kills, unsaved, seen, dir>> /\ todo' = Tail(todo)
  BY <1>0 DEF BuildTree, Next_, matchVars, Content
<1>3. Changes(n) /\ st'[n] = [on |-> st[n].on, id |-> st[n].id, ptr |-> ptr, made |-> st[n].made] /\ dir'[n] = dir[n]
  BY <1>1, <1>2 DEF Changes, FiledAt
<1>4. FiledAt(n)'
  <2>1. Mapped(n)' = Mapped(n) /\ (Used(Preparation, n)' <=> Used(Preparation, n))
    BY <1>2, OptionsStay, PreparationStays
  <2> QED
    BY <1>1, <1>3, <2>1 DEF FiledAt
<1>5. PICK roots : HasFile(Preparation, n, View(n), roots)
  <2>1. s[n] \in {"ready", "half"}
    BY <1>1, PointsMoves, SegmentsMoves
  <2> QED
    BY <1>1, <2>1 DEF Meets, IsReady, IsHalf
<1>6. id[1] = gen /\ disk[n][st[n].id] = FileAt(disk, n, st[n].id)
  BY <1>1, <1>5, HasFileIs
<1>7. lists[o] = [of |-> Preparation.gen, full |-> TRUE]
  <2>1. "index_build" \in Names /\ Roots["index_build"] = {"points", "segments"}
    BY RootsAre DEF Names, Temporaries
  <2>2. HasFile(Preparation, "index_build", View("index_build"), Fulls(Roots["index_build"], Preparation.gen))
    BY <1>1, AtCall DEF Meets, IsFull
  <2>3. lists = Fulls(Roots["index_build"], Preparation.gen)
    BY <2>1, <2>2, HasFileIs
  <2> QED
    BY <1>1, <2>1, <2>3 DEF Fulls
<1>8. Renewed(FileAt(disk, n, st[n].id), c, Planted(FileAt(disk, n, st[n].id).roots, o, lists[o]))
  BY <1>6 DEF Renewed, Planted
<1> HIDE DEF c, lists
<1>9. /\ Filed' /\ Keeps /\ \A k \in Names \ {n} : View(k)' = View(k)
      /\ View(n)' = [st |-> st'[n], dir |-> dir'[n],
                     file |-> IF st'[n].id = id THEN c ELSE FileAt(disk, n, st'[n].id),
                     entry |-> IF dir'[n] = id THEN c ELSE FileAt(disk, n, dir'[n])]
  <2>1. Filed /\ n \in Names /\ Changes(n) /\ FiledAt(n)'
    BY <1>1, <1>3, <1>4
  <2>2. disk' = With(disk, n, id, c) /\ UNCHANGED <<options, gen, kills, seen>>
    BY <1>2
  <2>3. id[1] = gen
    BY <1>6
  <2> QED
    BY <2>1, <2>2, <2>3, WithStep
<1>10. /\ View(n)'.st.id = View(n).st.id /\ View(n)'.dir = View(n).dir
       /\ View(n)'.st.ptr = Repointed(View(n).st.ptr, o, "valid")
       /\ View(n)'.file = c /\ View(n).file = FileAt(disk, n, st[n].id)
       /\ View(n)'.st.id = View(n)'.dir => View(n)'.entry = View(n)'.file
  <2>1. ptr = Repointed(st[n].ptr, o, "valid")
    BY DEF Repointed
  <2> HIDE DEF ptr
  <2> QED
    BY <1>1, <1>3, <1>9, <2>1
<1>11. Meets(Preparation, n, u[n], View(n)')
  <2>0. PICK act : act = o
    OBVIOUS
  <2>1. act \in {"points", "segments"} /\ Moves(Preparation, n, s[n], act, u[n])
    BY <1>1, <2>0
  <2>2. PICK table : table = lists
    OBVIOUS
  <2> QED
    BY <1>1, <1>7, <1>8, <1>10, <2>0, <2>1, <2>2, TreeMeets
<1> QED
  BY <1>0, <1>1, <1>2, <1>9, <1>11, Advances DEF Called

LEMMA DoneIs ==
  ASSUME NEW n \in Finals, IsDone(Preparation, n, View(n)), ~Mapped(n)
  PROVE  /\ st[n].id = <<gen, 0>>
         /\ st[n].id \in DOMAIN disk[n] /\ disk[n][st[n].id] = FileAt(disk, n, st[n].id)
<1>1. /\ n \in Names /\ (Maps(Preparation, n) <=> Mapped(n)) /\ View(n).st = st[n] /\ Preparation.gen = gen
  BY FinalsAre, PreparationIs DEF View
<1>2. PICK roots : HasFile(Preparation, n, View(n), roots)
  BY DEF IsDone, IsFinal, IsFull
<1> QED
  BY <1>1, <1>2, HasFileIs DEF HasFile

LEMMA TruncateProceeds ==
  ASSUME NEW s, NEW u, Calling({"truncate"}, s, u), TruncateFile
  PROVE  Called
<1>0. PICK n : n = Name
  OBVIOUS
<1>1. /\ n \in Names /\ FiledAt(n) /\ DOMAIN st = Names /\ DOMAIN dir = Names /\ DOMAIN disk = Names /\ Filed
      /\ Moves(Preparation, n, s[n], Head(todo).op, u[n]) /\ Meets(Preparation, n, s[n], View(n))
      /\ View(n) = [st |-> st[n], dir |-> dir[n], file |-> FileAt(disk, n, st[n].id),
                    entry |-> FileAt(disk, n, dir[n])]
      /\ s \in Standings /\ u \in Standings /\ Before(s, u) /\ Head(todo).op \in {"truncate"}
      /\ (Maps(Preparation, n) <=> Mapped(n))
  BY <1>0, CallingIs
<1> DEFINE id == IF dir[n] = NoFile THEN <<gen, 1>> ELSE dir[n]
           c == [form |-> "dump", info |-> FALSE, slack |-> FALSE, roots |-> EmptyFunction]
<1>2. /\ dir' = [dir EXCEPT ![n] = id] /\ disk' = With(disk, n, id, c)
      /\ UNCHANGED <<options, gen, kills, unsaved, seen, st>> /\ todo' = Tail(todo)
  BY <1>0 DEF TruncateFile, Next_, matchVars
<1>3. Changes(n) /\ st'[n] = st[n] /\ dir'[n] = id
  BY <1>1, <1>2 DEF Changes
<1>4. ~Mapped(n) /\ n \in Finals /\ s[n] = Done(n)
  BY <1>1, TruncateMoves
<1>5. id # NoFile /\ id[2] # 0
  BY <1>1 DEF FiledAt, NoFile
<1>6. FiledAt(n)'
  BY <1>1, <1>3, <1>4, <1>5, FinalsAre DEF FiledAt
<1>7. st[n].id # id
  <2>1. IsDone(Preparation, n, View(n))
    BY <1>1, <1>4, DoneMeets
  <2>2. st[n].id = <<gen, 0>>
    BY <1>4, <2>1, DoneIs
  <2> QED
    BY <1>5, <2>2
<1>8. c = DumpFile(EmptyFunction)
  BY DEF DumpFile
<1> HIDE DEF c, id
<1>9. /\ Filed' /\ Keeps /\ \A k \in Names \ {n} : View(k)' = View(k)
      /\ View(n)' = [st |-> st'[n], dir |-> dir'[n],
                     file |-> IF st'[n].id = id THEN c ELSE FileAt(disk, n, st'[n].id),
                     entry |-> IF dir'[n] = id THEN c ELSE FileAt(disk, n, dir'[n])]
  <2>1. Filed /\ n \in Names /\ Changes(n) /\ FiledAt(n)'
    BY <1>1, <1>3, <1>6
  <2>2. disk' = With(disk, n, id, c) /\ UNCHANGED <<options, gen, kills, seen>>
    BY <1>2
  <2>3. ~Mapped(n)
    BY <1>4
  <2> QED
    BY <2>1, <2>2, <2>3, WithStep
<1>10. /\ View(n)'.st = View(n).st /\ View(n)'.file = View(n).file /\ View(n)'.dir # NoFile
       /\ View(n)'.entry = DumpFile(EmptyFunction)
  BY <1>1, <1>3, <1>5, <1>7, <1>8, <1>9
<1>11. Meets(Preparation, n, u[n], View(n)')
  BY <1>1, <1>10, TruncateMeets
<1> QED
  BY <1>0, <1>1, <1>2, <1>9, <1>11, Advances DEF Called

LEMMA WriteProceeds ==
  ASSUME NEW s, NEW u, Calling({"write"}, s, u), WriteDump
  PROVE  Called
<1>0. PICK n : n = Name
  OBVIOUS
<1>1. /\ n \in Names /\ FiledAt(n) /\ DOMAIN st = Names /\ DOMAIN dir = Names /\ DOMAIN disk = Names /\ Filed
      /\ Moves(Preparation, n, s[n], Head(todo).op, u[n]) /\ Meets(Preparation, n, s[n], View(n))
      /\ View(n) = [st |-> st[n], dir |-> dir[n], file |-> FileAt(disk, n, st[n].id),
                    entry |-> FileAt(disk, n, dir[n])]
      /\ s \in Standings /\ u \in Standings /\ Before(s, u) /\ Head(todo).op \in {"write"}
      /\ (Maps(Preparation, n) <=> Mapped(n))
  BY <1>0, CallingIs
<1> DEFINE id == dir[n]
           old == disk[n][st[n].id].roots
           c == [disk[n][dir[n]] EXCEPT !.roots = [r \in Kept(n) \cap DOMAIN old |-> old[r]]]
<1>2. /\ disk' = With(disk, n, id, c)
      /\ UNCHANGED <<options, gen, kills, unsaved, seen, st, dir>> /\ todo' = Tail(todo)
  BY <1>0 DEF WriteDump, Next_, matchVars, Content
<1>3. Changes(n) /\ st'[n] = st[n] /\ dir'[n] = dir[n]
  BY <1>1, <1>2 DEF Changes
<1>4. FiledAt(n)'
  <2>1. Mapped(n)' = Mapped(n) /\ (Used(Preparation, n)' <=> Used(Preparation, n))
    BY <1>2, OptionsStay, PreparationStays
  <2> QED
    BY <1>1, <1>3, <2>1 DEF FiledAt
<1>5. ~Mapped(n) /\ n \in Finals /\ IsTruncated(Preparation, n, View(n))
  BY <1>1, WriteMoves DEF Meets
<1>6. st[n].id = <<gen, 0>> /\ disk[n][st[n].id] = FileAt(disk, n, st[n].id)
  BY <1>5, DoneIs DEF IsTruncated
<1>7. dir[n] # NoFile /\ FileAt(disk, n, dir[n]) = DumpFile(EmptyFunction)
  BY <1>1, <1>5 DEF IsTruncated, Dumped
<1>8. disk[n][dir[n]] = FileAt(disk, n, dir[n])
  BY <1>7, FileThere DEF DumpFile
<1>9. Renewed(FileAt(disk, n, dir[n]), c, KeptOf(n, FileAt(disk, n, st[n].id).roots))
  BY <1>6, <1>8 DEF Renewed, KeptOf
<1>10. st[n].id # dir[n]
  <2>1. dir[n][2] # 0
    BY <1>1, <1>7 DEF FiledAt
  <2> QED
    BY <1>6, <2>1
<1> HIDE DEF c
<1>11. /\ Filed' /\ Keeps /\ \A k \in Names \ {n} : View(k)' = View(k)
      /\ View(n)' = [st |-> st'[n], dir |-> dir'[n],
                     file |-> IF st'[n].id = id THEN c ELSE FileAt(disk, n, st'[n].id),
                     entry |-> IF dir'[n] = id THEN c ELSE FileAt(disk, n, dir'[n])]
  <2>1. Filed /\ n \in Names /\ Changes(n) /\ FiledAt(n)'
    BY <1>1, <1>3, <1>4
  <2>2. disk' = With(disk, n, id, c) /\ UNCHANGED <<options, gen, kills, seen>>
    BY <1>2
  <2>3. ~Mapped(n)
    BY <1>5
  <2> QED
    BY <2>1, <2>2, <2>3, WithStep
<1>12. /\ View(n)'.st = View(n).st /\ View(n)'.dir = View(n).dir /\ View(n)'.file = View(n).file
       /\ View(n)'.entry = c /\ View(n).entry = FileAt(disk, n, dir[n])
       /\ View(n).file = FileAt(disk, n, st[n].id)
  BY <1>1, <1>3, <1>10, <1>11
<1>13. Meets(Preparation, n, u[n], View(n)')
  <2>1. PICK f : f = KeptOf(n, View(n).file.roots)
    OBVIOUS
  <2>2. Renewed(View(n).entry, View(n)'.entry, f)
    BY <1>9, <1>12, <2>1
  <2> QED
    BY <1>1, <1>12, <2>1, <2>2, WriteMeets
<1> QED
  BY <1>0, <1>1, <1>2, <1>11, <1>13, Advances DEF Called

LEMMA ShrinkStep ==
  ASSUME Filed, NEW n \in Names, UNCHANGED <<options, gen, kills, seen, st, dir>>,
         NEW c, Trimmed(disk[n][dir[n]], c),
         disk' = (IF dir[n] = NoFile THEN disk ELSE With(disk, n, dir[n], c))
  PROVE  /\ Filed' /\ Keeps /\ Changes(n) /\ st'[n] = st[n] /\ dir'[n] = dir[n]
         /\ \A k \in Names \ {n} : View(k)' = View(k)
         /\ View(n)'.st = st[n] /\ View(n)'.dir = dir[n]
         /\ dir[n] # NoFile /\ FileAt(disk, n, dir[n]).form # "none"
               => Trimmed(FileAt(disk, n, dir[n]), View(n)'.entry)
<1> DEFINE id == dir[n]
<1>1. FiledAt(n) /\ DOMAIN st = Names /\ DOMAIN dir = Names
  BY DEF Filed
<1>2. Changes(n) /\ st'[n] = st[n] /\ dir'[n] = dir[n]
  BY <1>1 DEF Changes
<1>3. FiledAt(n)'
  <2>1. Mapped(n)' = Mapped(n) /\ (Used(Preparation, n)' <=> Used(Preparation, n))
    BY OptionsStay, PreparationStays
  <2> QED
    BY <1>1, <1>2, <2>1 DEF FiledAt
<1>4. View(n)'.st = st[n] /\ View(n)'.dir = dir[n]
  BY <1>2 DEF View
<1>5. CASE dir[n] = NoFile
  <2>1. disk' = disk
    BY <1>5
  <2>2. Filed' /\ Keeps /\ \A k \in Names \ {n} : View(k)' = View(k)
    BY <1>2, <1>3, <2>1, DiskStep
  <2> QED
    BY <1>2, <1>4, <1>5, <2>2
<1>6. CASE dir[n] # NoFile
  <2>1. disk' = With(disk, n, id, c) /\ UNCHANGED <<options, gen, kills, seen>>
    BY <1>6
  <2>2. id \in DOMAIN disk[n] => c.roots = disk[n][id].roots
    BY DEF Trimmed
  <2>3. FileAt(disk, n, dir[n]).form # "none" => Trimmed(FileAt(disk, n, dir[n]), c)
    BY FileThere
  <2> HIDE DEF id
  <2>4. /\ Filed' /\ Keeps /\ \A k \in Names \ {n} : View(k)' = View(k)
        /\ View(n)' = [st |-> st'[n], dir |-> dir'[n],
                       file |-> IF st'[n].id = id THEN c ELSE FileAt(disk, n, st'[n].id),
                       entry |-> IF dir'[n] = id THEN c ELSE FileAt(disk, n, dir'[n])]
    BY <1>2, <1>3, <2>1, <2>2, WithStep
  <2>5. View(n)'.entry = c
    BY <1>2, <2>4 DEF id
  <2> QED
    BY <1>2, <1>4, <2>3, <2>4, <2>5
<1> QED
  BY <1>5, <1>6

LEMMA ShrinkProceeds ==
  ASSUME NEW s, NEW u, Calling({"shrink"}, s, u), ShrinkFile
  PROVE  Called
<1>0. PICK n : n = Name
  OBVIOUS
<1>1. /\ n \in Names /\ FiledAt(n) /\ DOMAIN st = Names /\ DOMAIN dir = Names /\ DOMAIN disk = Names /\ Filed
      /\ Moves(Preparation, n, s[n], Head(todo).op, u[n]) /\ Meets(Preparation, n, s[n], View(n))
      /\ View(n) = [st |-> st[n], dir |-> dir[n], file |-> FileAt(disk, n, st[n].id),
                    entry |-> FileAt(disk, n, dir[n])]
      /\ s \in Standings /\ u \in Standings /\ Before(s, u) /\ Head(todo).op \in {"shrink"}
      /\ (Maps(Preparation, n) <=> Mapped(n))
  BY <1>0, CallingIs
<1>a. PICK c : c = [disk[n][dir[n]] EXCEPT !.slack = FALSE]
  OBVIOUS
<1>2. /\ disk' = (IF dir[n] = NoFile THEN disk ELSE With(disk, n, dir[n], c)) /\ Trimmed(disk[n][dir[n]], c)
      /\ UNCHANGED <<options, gen, kills, unsaved, seen, st, dir>> /\ todo' = Tail(todo)
  BY <1>0, <1>a DEF ShrinkFile, Next_, matchVars, Trimmed
<1>3. /\ Filed' /\ Keeps /\ \A k \in Names \ {n} : View(k)' = View(k)
      /\ View(n)'.st = st[n] /\ View(n)'.dir = dir[n]
      /\ dir[n] # NoFile /\ FileAt(disk, n, dir[n]).form # "none"
            => Trimmed(FileAt(disk, n, dir[n]), View(n)'.entry)
  BY <1>1, <1>2, ShrinkStep
<1>4. FileAt(disk, n, dir[n]).form = "mapped"
  <2>1. IsShut(Preparation, n, View(n))
    BY <1>1, ShrinkMoves DEF Meets
  <2> QED
    BY <1>1, <2>1 DEF IsShut, WideFile
<1>5. Meets(Preparation, n, u[n], View(n)')
  <2>1. View(n)'.dir = View(n).dir /\ (View(n)'.dir # NoFile => Trimmed(View(n).entry, View(n)'.entry))
    BY <1>1, <1>3, <1>4
  <2> QED
    BY <1>1, <2>1, ShrinkMeets
<1> QED
  BY <1>0, <1>1, <1>2, <1>3, <1>5, Advances DEF Called

LEMMA ReleaseStep ==
  ASSUME Filed, NEW n \in Names, UNCHANGED <<options, gen, kills, seen, dir>>,
         st' = [st EXCEPT ![n] = Off], disk' = Alive(dir, st', seen)
  PROVE  /\ Filed' /\ Keeps /\ Changes(n) /\ st'[n] = Off /\ dir'[n] = dir[n]
         /\ \A k \in Names \ {n} : View(k)' = View(k)
         /\ View(n)' = [st |-> Off, dir |-> dir[n], file |-> FileAt(disk, n, NoFile),
                        entry |-> FileAt(disk, n, dir[n])]
<1>1. FiledAt(n) /\ DOMAIN st = Names /\ DOMAIN dir = Names
  BY DEF Filed
<1>2. Changes(n) /\ st'[n] = Off /\ dir'[n] = dir[n]
  BY <1>1 DEF Changes
<1>3. FiledAt(n)'
  <2>1. Mapped(n)' = Mapped(n) /\ (Used(Preparation, n)' <=> Used(Preparation, n))
    BY OptionsStay, PreparationStays
  <2> QED
    BY <1>1, <1>2, <2>1 DEF FiledAt, Off
<1>4. disk' = Alive(dir', st', seen)
  OBVIOUS
<1>5. /\ Filed' /\ Keeps /\ \A k \in Names \ {n} : View(k)' = View(k)
      /\ View(n)' = [st |-> st'[n], dir |-> dir'[n], file |-> FileAt(disk, n, st'[n].id),
                     entry |-> FileAt(disk, n, dir'[n])]
  BY <1>2, <1>3, <1>4, AliveStep
<1>6. st'[n].id = NoFile
  BY <1>2 DEF Off
<1> QED
  BY <1>2, <1>5, <1>6

LEMMA ReleaseProceeds ==
  ASSUME NEW s, NEW u, Calling({"release"}, s, u), Release
  PROVE  Called
<1>0. PICK n : n = Name
  OBVIOUS
<1>1. /\ n \in Names /\ FiledAt(n) /\ DOMAIN st = Names /\ DOMAIN dir = Names /\ DOMAIN disk = Names /\ Filed
      /\ Moves(Preparation, n, s[n], Head(todo).op, u[n]) /\ Meets(Preparation, n, s[n], View(n))
      /\ View(n) = [st |-> st[n], dir |-> dir[n], file |-> FileAt(disk, n, st[n].id),
                    entry |-> FileAt(disk, n, dir[n])]
      /\ s \in Standings /\ u \in Standings /\ Before(s, u) /\ Head(todo).op \in {"release"}
      /\ (Maps(Preparation, n) <=> Mapped(n))
  BY <1>0, CallingIs
<1>2. /\ st' = [st EXCEPT ![n] = Off] /\ disk' = Alive(dir, st', seen)
      /\ UNCHANGED <<options, gen, kills, unsaved, seen, dir>> /\ todo' = Tail(todo)
  BY <1>0 DEF Release, Next_, matchVars
<1>3. /\ Filed' /\ Keeps /\ \A k \in Names \ {n} : View(k)' = View(k)
      /\ View(n)' = [st |-> Off, dir |-> dir[n], file |-> FileAt(disk, n, NoFile),
                     entry |-> FileAt(disk, n, dir[n])]
  BY <1>1, <1>2, ReleaseStep
<1>4. n \in Temporaries /\ ~Maps(Preparation, n) => dir[n] = NoFile
  BY <1>1 DEF FiledAt
<1>5. Meets(Preparation, n, u[n], View(n)')
  <2>1. /\ View(n)'.st = Off /\ View(n)'.dir = View(n).dir /\ View(n)'.entry = View(n).entry
        /\ View(n).dir = dir[n]
    BY <1>1, <1>3
  <2> QED
    BY <1>1, <1>4, <2>1, ReleaseMeets
<1> QED
  BY <1>0, <1>1, <1>2, <1>3, <1>5, Advances DEF Called

\* A dump that cannot be opened: neither is the file truncated nor is anything written.
LEMMA TruncatedMoves ==
  ASSUME NEW p, NEW n \in Names, NEW o, NEW t, Moves(p, n, "truncated", o, t)
  PROVE  o = "write" /\ t = "saved"
<1>0. Done(n) \in {"final", "full"}
  BY DEF Done
<1>1. CASE Makes(p, n, "truncated", o, t)
  BY <1>1 DEF Makes
<1>2. CASE Uses(n, "truncated", o, t)
  BY <1>2 DEF Uses
<1>3. CASE Grows(p, n, "truncated", o, t)
  BY <1>3 DEF Grows
<1>4. CASE Drops(p, n, "truncated", o, t)
  BY <1>4 DEF Drops
<1>5. CASE Leaves(p, n, "truncated", o, t)
  BY <1>0, <1>5 DEF Leaves
<1> QED
  BY <1>1, <1>2, <1>3, <1>4, <1>5 DEF Moves

LEMMA MovesAgree ==
  ASSUME NEW p, NEW q, p.mapped = q.mapped, NEW n, NEW s, NEW o, NEW t, Moves(p, n, s, o, t)
  PROVE  Moves(q, n, s, o, t)
<1>0. Maps(p, n) <=> Maps(q, n)
  BY DEF Maps
<1>1. CASE Makes(p, n, s, o, t)
  BY <1>0, <1>1 DEF Moves, Makes
<1>2. CASE Uses(n, s, o, t)
  BY <1>2 DEF Moves
<1>3. CASE Grows(p, n, s, o, t)
  BY <1>0, <1>3 DEF Moves, Grows
<1>4. CASE Drops(p, n, s, o, t)
  BY <1>0, <1>4 DEF Moves, Drops
<1>5. CASE Leaves(p, n, s, o, t)
  BY <1>0, <1>5 DEF Moves, Leaves
<1> QED
  BY <1>1, <1>2, <1>3, <1>4, <1>5 DEF Moves

\* What may be called depends on the options only.
LEMMA SafeAgrees ==
  ASSUME NEW p, NEW q, p.mapped = q.mapped, p.osm = q.osm, NEW s, NEW calls, NEW t, Safe(p, s, calls, t)
  PROVE  Safe(q, s, calls, t) /\ Goal(p) = Goal(q)
<1>1. \A n : Used(p, n) <=> Used(q, n)
  BY DEF Used
<1>2. Goal(p) = Goal(q)
  BY <1>1 DEF Goal
<1>3. ASSUME NEW a, NEW call, NEW b, Allowed(p, a, call, b) PROVE Allowed(q, a, call, b)
  <2>1. Moves(q, call.name, a[call.name], call.op, b[call.name])
    BY <1>3, MovesAgree DEF Allowed
  <2> QED
    BY <1>1, <1>3, <2>1 DEF Allowed
<1>4. Safe(q, s, calls, t)
  BY <1>3 DEF Safe
<1> QED
  BY <1>2, <1>4

LEMMA MeetsMore ==
  ASSUME NEW p, NEW q, p.mapped = q.mapped, p.gen = q.gen, p.kills = q.kills, p.unsaved \subseteq q.unsaved,
         NEW n, NEW s, NEW v, Meets(p, n, s, v)
  PROVE  Meets(q, n, s, v)
<1>1. Maps(p, n) <=> Maps(q, n)
  BY DEF Maps
<1>2. Mine(p, v) <=> Mine(q, v)
  BY DEF Mine
<1>3. \A roots : HasFile(p, n, v, roots) <=> HasFile(q, n, v, roots)
  BY <1>1, <1>2 DEF HasFile
<1>4. /\ IsOff(p, n, v) <=> IsOff(q, n, v)
      /\ IsRemade(p, n, v) <=> IsRemade(q, n, v)
      /\ IsReinformed(p, n, v) <=> IsReinformed(q, n, v)
      /\ IsNew(p, n, v) <=> IsNew(q, n, v)
      /\ IsReady(p, n, v) <=> IsReady(q, n, v)
      /\ IsHalf(p, n, v) <=> IsHalf(q, n, v)
      /\ IsFull(p, n, v) <=> IsFull(q, n, v)
      /\ IsFinal(p, n, v) <=> IsFinal(q, n, v)
      /\ Unmapped(p, n, v) <=> Unmapped(q, n, v)
      /\ IsShut(p, n, v) <=> IsShut(q, n, v)
      /\ IsShrunk(p, n, v) <=> IsShrunk(q, n, v)
      /\ \A roots : Dumped(p, n, v, roots) <=> Dumped(q, n, v, roots)
  <2>1. IsOff(p, n, v) <=> IsOff(q, n, v)
    BY DEF IsOff
  <2>2. (IsRemade(p, n, v) <=> IsRemade(q, n, v)) /\ (IsReinformed(p, n, v) <=> IsReinformed(q, n, v))
    BY <1>2 DEF IsRemade, IsReinformed
  <2>3. /\ IsNew(p, n, v) <=> IsNew(q, n, v)
        /\ IsReady(p, n, v) <=> IsReady(q, n, v)
    BY <1>3 DEF IsNew, IsReady
  <2>4. /\ IsHalf(p, n, v) <=> IsHalf(q, n, v)
        /\ IsFull(p, n, v) <=> IsFull(q, n, v)
        /\ IsFinal(p, n, v) <=> IsFinal(q, n, v)
    BY <1>3 DEF IsHalf, IsFull, IsFinal
  <2>5. Unmapped(p, n, v) <=> Unmapped(q, n, v)
    BY DEF Unmapped
  <2>6. (IsShut(p, n, v) <=> IsShut(q, n, v)) /\ (IsShrunk(p, n, v) <=> IsShrunk(q, n, v))
    BY DEF IsShut, IsShrunk, Finished
  <2>7. \A roots : Dumped(p, n, v, roots) <=> Dumped(q, n, v, roots)
    BY <1>1 DEF Dumped
  <2> QED
    BY <2>1, <2>2, <2>3, <2>4, <2>5, <2>6, <2>7
<1>5. Written(p, n, v) => Written(q, n, v)
  BY <1>4 DEF Written
<1>6. /\ IsBare(p, n, v) <=> IsBare(q, n, v)
      /\ IsInformed(p, n, v) <=> IsInformed(q, n, v)
      /\ IsBlank(p, n, v) <=> IsBlank(q, n, v)
      /\ IsDone(p, n, v) <=> IsDone(q, n, v)
      /\ IsClosed(p, n, v) <=> IsClosed(q, n, v)
      /\ IsOpened(p, n, v) <=> IsOpened(q, n, v)
  BY <1>4 DEF IsBare, IsInformed, IsBlank, IsDone, IsClosed, IsOpened
<1>7. /\ IsTruncated(p, n, v) => IsTruncated(q, n, v)
      /\ IsSaved(p, n, v) => IsSaved(q, n, v)
      /\ IsKept(p, n, v) => IsKept(q, n, v)
  BY <1>1, <1>4, <1>5, <1>6 DEF IsTruncated, IsSaved, IsKept
<1> QED
  BY <1>4, <1>6, <1>7 DEF Meets

LEMMA TruncateFailsProceeds ==
  ASSUME NEW s, NEW u, Calling({"truncate"}, s, u), TruncateFails
  PROVE  Called
<1>0. PICK n : n = Name
  OBVIOUS
<1>1. /\ n \in Names /\ FiledAt(n) /\ DOMAIN st = Names /\ DOMAIN dir = Names /\ DOMAIN disk = Names /\ Filed
      /\ Moves(Preparation, n, s[n], "truncate", u[n]) /\ Meets(Preparation, n, s[n], View(n))
      /\ s \in Standings /\ u \in Standings /\ Before(s, u)
  BY <1>0, CallingIs
<1>2. /\ UNCHANGED <<options, gen, kills, seen, st, dir, disk>> /\ unsaved' = unsaved \cup {n}
      /\ todo' = Tail(Tail(todo))
  BY <1>0 DEF TruncateFails, matchVars
<1>3. u[n] = "truncated" /\ n \in Finals
  BY <1>1, TruncateMoves
<1>4. /\ \A k \in Names \ {n} : u[k] = s[k] /\ s[k] \notin Transient
      /\ Tail(todo) \in Seq(Calls) /\ Safe(Preparation, u, Tail(todo), Goal(Preparation))
  BY <1>0, <1>1, AtCall DEF Before
<1>5. Tail(todo) # <<>>
  <2>1. Goal(Preparation)[n] = "kept"
    BY <1>1, <1>3 DEF Goal
  <2>2. Tail(todo) = <<>> => u = Goal(Preparation)
    BY <1>4, SafeEnd
  <2> QED
    BY <1>3, <2>1, <2>2
<1>6. PICK w \in Standings : /\ Allowed(Preparation, u, Head(Tail(todo)), w)
                             /\ Safe(Preparation, w, Tail(Tail(todo)), Goal(Preparation))
  BY <1>4, <1>5, SafeNext
<1>7. PICK call : call = Head(Tail(todo))
  OBVIOUS
<1>8. /\ call.name \in Names /\ w = [u EXCEPT ![call.name] = w[call.name]]
      /\ Moves(Preparation, call.name, u[call.name], call.op, w[call.name])
      /\ \A k \in Names \ {call.name} : u[k] \notin Transient
  BY <1>6, <1>7 DEF Allowed
<1>9. call.name = n
  BY <1>1, <1>3, <1>8 DEF Transient
<1>10. w[n] = "saved" /\ \A k \in Names \ {n} : w[k] = s[k]
  <2>1. w[n] = "saved"
    BY <1>1, <1>3, <1>8, <1>9, TruncatedMoves
  <2>2. \A k \in Names \ {n} : w[k] = u[k]
    BY <1>1, <1>8, <1>9 DEF Standings
  <2> QED
    BY <1>4, <2>1, <2>2
<1>11. /\ Preparation'.mapped = Preparation.mapped /\ Preparation'.osm = Preparation.osm
       /\ Preparation'.gen = Preparation.gen /\ Preparation'.kills = Preparation.kills
       /\ Preparation'.unsaved = Preparation.unsaved \cup {n}
  <2>1. Preparation'.mapped = Preparation.mapped /\ Preparation'.osm = Preparation.osm
    BY <1>2, PreparationStays
  <2> QED
    BY <1>2, <2>1 DEF Preparation
<1>12. \A k \in Names : View(k)' = View(k)
  BY <1>2 DEF View
<1>13. ASSUME NEW k \in Names PROVE Meets(Preparation', k, w[k], View(k)')
  <2>1. CASE k = n
    <3>1. Meets(Preparation', k, "saved", View(k))
      BY <1>1, <1>11, <2>1, UnsavedMeets
    <3> QED
      BY <1>10, <1>12, <2>1, <3>1
  <2>2. CASE k # n
    <3>1. Meets(Preparation, k, s[k], View(k))
      BY <1>1 DEF Before, Stands
    <3>2. Meets(Preparation', k, s[k], View(k))
      BY <1>11, <3>1, MeetsMore
    <3> QED
      BY <1>10, <1>12, <2>2, <3>2
  <2> QED
    BY <2>1, <2>2
<1>14. ASSUME NEW k \in Temporaries PROVE w[k] \in Passing
  <2>1. k \in Names \ {n}
    BY <1>3, FinalsAre
  <2> QED
    BY <1>1, <1>10, <2>1 DEF Before, Stands
<1>15. Stands(w)'
  BY <1>13, <1>14 DEF Stands
<1>16. Safe(Preparation', w, todo', Goal(Preparation'))
  BY <1>2, <1>6, <1>11, SafeAgrees
<1>17. Changes(n) /\ FiledAt(n)'
  <2>1. Mapped(n)' = Mapped(n) /\ (Used(Preparation, n)' <=> Used(Preparation, n))
    BY <1>2, OptionsStay, PreparationStays
  <2> QED
    BY <1>1, <1>2, <2>1 DEF FiledAt, Changes
<1>18. Filed' /\ Keeps
  BY <1>1, <1>2, <1>17, DiskStep
<1>19. todo' \in Seq(Calls)
  BY <1>2, <1>4, <1>5
<1> QED
  BY <1>15, <1>16, <1>18, <1>19 DEF Proceeds, Called

\* More calls, and nothing done yet.
LEMMA Replans ==
  ASSUME Filed, NEW s \in Standings, Stands(s), todo' \in Seq(Calls),
         UNCHANGED <<options, gen, kills, unsaved, seen, st, dir, disk>>,
         Safe(Preparation, s, todo', Goal(Preparation))
  PROVE  Called
<1>1. Preparation' = Preparation /\ \A k \in Names : View(k)' = View(k)
  <2>1. Preparation' = Preparation
    BY PreparationStays
  <2> QED
    BY <2>1 DEF View
<1>2. Stands(s)'
  BY <1>1 DEF Stands
<1>3. Safe(Preparation', s, todo', Goal(Preparation'))
  BY <1>1
<1>4. PICK n \in Names : n = "graph"
  BY DEF Names, Finals
<1>5. Changes(n) /\ FiledAt(n)'
  <2>1. Mapped(n)' = Mapped(n) /\ (Used(Preparation, n)' <=> Used(Preparation, n))
    BY OptionsStay, PreparationStays
  <2> QED
    BY <2>1 DEF FiledAt, Changes, Filed
<1>6. Filed' /\ Keeps
  BY <1>5, DiskStep
<1> QED
  BY <1>2, <1>3, <1>6 DEF Called, Proceeds

LEMMA CallsOf ==
  ASSUME NEW s, NEW u, NEW ops, Calling(ops, s, u)
  PROVE  /\ todo \in Seq(Calls) /\ Tail(todo) \in Seq(Calls)
         /\ Safe(Preparation, s, todo, Goal(Preparation))
         /\ Safe(Preparation, u, Tail(todo), Goal(Preparation))
<1>1. /\ s \in Standings /\ u \in Standings /\ Before(s, u) /\ todo \in Seq(Calls)
      /\ Tail(todo) \in Seq(Calls) /\ todo = <<Head(todo)>> \o Tail(todo)
  BY AtCall DEF Calling, Before
<1>2. Head(todo) \in Calls
  BY <1>1 DEF Before
<1>3. /\ Allowed(Preparation, s, Head(todo), u)
      /\ Safe(Preparation, u, Tail(todo), Goal(Preparation))
  BY <1>1 DEF Before
<1>4. Safe(Preparation, s, <<Head(todo)>>, u) /\ <<Head(todo)>> \in Seq(Calls)
  BY <1>1, <1>2, <1>3, SafeCall
<1> QED
  BY <1>1, <1>3, <1>4, SafeJoin

\* A storage that is used stands as it is, and no other is in the middle of something.
LEMMA CallingQuiet ==
  ASSUME NEW s, NEW u, NEW ops, Calling(ops, s, u), NEW n, n = Name, s[n] \notin Transient
  PROVE  Quiet(s) /\ n \in Names /\ Used(Preparation, n) /\ Put(s, n, s[n]) = s /\ s[n] \in Conditions
<1>1. s \in Standings /\ u \in Standings /\ Before(s, u)
  BY DEF Calling
<1>2. /\ n \in Names /\ Used(Preparation, n)
      /\ \A k \in Names \ {n} : s[k] \notin Transient
  BY <1>1, AtCall
<1>3. Quiet(s)
  BY <1>1, <1>2 DEF Quiet
<1> QED
  BY <1>2, <1>3, PutSame

LEMMA ThreeSafe ==
  ASSUME NEW p, NEW s, NEW t, NEW u, NEW w, NEW a \in Calls, NEW b \in Calls, NEW c \in Calls,
         Safe(p, s, <<a>>, t), Safe(p, t, <<b>>, u), Safe(p, u, <<c>>, w)
  PROVE  Safe(p, s, <<a, b, c>>, w) /\ <<a, b, c>> \in Seq(Calls)
<1>1. <<a>> \in Seq(Calls) /\ <<b>> \in Seq(Calls) /\ <<c>> \in Seq(Calls)
  OBVIOUS
<1>2. Safe(p, s, <<a>> \o <<b>>, u) /\ <<a>> \o <<b>> \in Seq(Calls)
  BY <1>1, SafeJoin, ConcatProperties
<1>3. Safe(p, s, (<<a>> \o <<b>>) \o <<c>>, w) /\ (<<a>> \o <<b>>) \o <<c>> \in Seq(Calls)
  BY <1>1, <1>2, SafeJoin, ConcatProperties
<1> QED
  BY <1>3, SinglesJoin

LEMMA GrowProceeds ==
  ASSUME NEW s, NEW u, Calling({"fill", "reserve"}, s, u), Grow
  PROVE  Called
<1>0. PICK n : n = Name
  OBVIOUS
<1>1. /\ n \in Names /\ Filed /\ (Maps(Preparation, n) <=> Mapped(n))
      /\ Moves(Preparation, n, s[n], Head(todo).op, u[n]) /\ Head(todo).op \in {"fill", "reserve"}
      /\ s \in Standings /\ u \in Standings /\ Before(s, u)
  BY <1>0, CallingIs
<1>2. /\ UNCHANGED <<options, gen, kills, unsaved, seen, st, dir, disk>> /\ Mapped(n)
      /\ todo' = On(<<"close", "open", "find">>, n) \o (IF Head(todo).op = "fill" THEN todo ELSE Tail(todo))
  BY <1>0 DEF Grow, GrowCalls, matchVars
<1>3. /\ s[n] = "blank"
      /\ Head(todo).op = "fill" => n # "index"
      /\ Head(todo).op = "reserve" => n = "index" /\ u[n] = "ready"
  BY <1>1, FillMoves, ReserveMoves
<1>4. Quiet(s) /\ Used(Preparation, n) /\ Put(s, n, s[n]) = s
  BY <1>0, <1>3, CallingQuiet DEF Transient
<1>5. PICK c \in {"blank", "ready"} : c = IF n = "index" THEN "ready" ELSE "blank"
  OBVIOUS
<1>6. /\ Moves(Preparation, n, "blank", "close", "closed") /\ Moves(Preparation, n, "closed", "open", "opened")
      /\ Moves(Preparation, n, "opened", "find", c)
  BY <1>1, <1>2, <1>5 DEF Moves, Grows
<1>7. {"blank", "ready", "closed", "opened"} \subseteq Conditions
      /\ {"close", "open", "find"} \subseteq OpNames \ {"points", "segments", "export"} /\ c \in Conditions
  BY <1>5 DEF Conditions, OpNames
<1>8. Safe(Preparation, Put(s, n, "blank"), <<Op("close", n)>>, Put(s, n, "closed"))
  BY <1>1, <1>4, <1>6, <1>7, PutStep
<1>9. Safe(Preparation, Put(s, n, "closed"), <<Op("open", n)>>, Put(s, n, "opened"))
  BY <1>1, <1>4, <1>6, <1>7, PutStep
<1>10. Safe(Preparation, Put(s, n, "opened"), <<Op("find", n)>>, Put(s, n, c))
  BY <1>1, <1>4, <1>6, <1>7, PutStep
<1>11. Op("close", n) \in Calls /\ Op("open", n) \in Calls /\ Op("find", n) \in Calls
  BY <1>1, <1>7, CallIs
<1>12. PICK grow : grow = <<Op("close", n), Op("open", n), Op("find", n)>>
  OBVIOUS
<1>13. Safe(Preparation, s, grow, Put(s, n, c)) /\ grow \in Seq(Calls)
  BY <1>3, <1>4, <1>8, <1>9, <1>10, <1>11, <1>12, ThreeSafe
<1>14. On(<<"close", "open", "find">>, n) = grow
  BY <1>12, OnCalls
<1>15. /\ todo \in Seq(Calls) /\ Tail(todo) \in Seq(Calls)
       /\ Safe(Preparation, s, todo, Goal(Preparation))
       /\ Safe(Preparation, u, Tail(todo), Goal(Preparation))
  BY CallsOf
<1>16. PICK rest \in Seq(Calls) : /\ rest = IF Head(todo).op = "fill" THEN todo ELSE Tail(todo)
                                  /\ Safe(Preparation, Put(s, n, c), rest, Goal(Preparation))
  <2>1. CASE Head(todo).op = "fill"
    <3>1. Put(s, n, c) = s
      BY <1>3, <1>4, <1>5, <2>1
    <3> QED
      BY <1>15, <2>1, <3>1
  <2>2. CASE Head(todo).op = "reserve"
    <3>1. c = u[n]
      BY <1>3, <1>5, <2>2
    <3>2. Put(s, n, c) = u
      <4>1. \A k \in Names \ {n} : u[k] = s[k]
        BY <1>0, <1>1, AtCall
      <4> QED
        BY <1>1, <3>1, <4>1 DEF Put, Standings
    <3> QED
      BY <1>15, <2>2, <3>2
  <2> QED
    BY <1>1, <2>1, <2>2
<1>17. Safe(Preparation, s, grow \o rest, Goal(Preparation)) /\ grow \o rest \in Seq(Calls)
  BY <1>13, <1>16, SafeJoin, ConcatProperties
<1>18. todo' = grow \o rest
  BY <1>2, <1>14, <1>16
<1>19. Stands(s)
  BY <1>1 DEF Before
<1> QED
  BY <1>1, <1>2, <1>17, <1>18, <1>19, Replans

LEMMA DropGrowProceeds ==
  ASSUME NEW s, NEW u, Calling({"fill", "points", "segments"}, s, u), DropGrow
  PROVE  Called
<1>0. PICK n : n = Name
  OBVIOUS
<1>1. /\ n \in Names /\ Filed /\ (Maps(Preparation, n) <=> Mapped(n))
      /\ Moves(Preparation, n, s[n], Head(todo).op, u[n]) /\ Head(todo).op \in {"fill", "points", "segments"}
      /\ s \in Standings /\ u \in Standings /\ Before(s, u)
  BY <1>0, CallingIs
<1>2. /\ UNCHANGED <<options, gen, kills, unsaved, seen, st, dir, disk>> /\ Mapped(n) /\ n \in {"graph", "index"}
      /\ todo' = ((DestroyAndCreate(n) \o <<Op("construct", n)>>)
                     \o (IF Head(todo).op = "segments" THEN <<Op("points", n)>> ELSE <<>>)) \o todo
  BY <1>0 DEF DropGrow, matchVars
<1>3. /\ Head(todo).op = "fill" => n = "graph" /\ s[n] = "blank"
      /\ Head(todo).op = "points" => n = "index" /\ s[n] = "ready"
      /\ Head(todo).op = "segments" => n = "index" /\ s[n] = "half" /\ s["index_build"] = "full"
  <2>1. Head(todo).op = "segments" => s["index_build"] = "full"
    BY <1>1, AtCall
  <2> QED
    BY <1>1, <1>2, <2>1, FillMoves, PointsMoves, SegmentsMoves
<1>4. Quiet(s) /\ Used(Preparation, n) /\ Put(s, n, s[n]) = s /\ s[n] \in Conditions
  BY <1>0, <1>1, <1>3, CallingQuiet DEF Transient
<1>5. PICK c \in {"blank", "ready"} : c = IF n = "index" THEN "ready" ELSE "blank"
  OBVIOUS
<1>6. /\ Moves(Preparation, n, s[n], "destroy", "dropped") /\ Moves(Preparation, n, "dropped", "create", "remade")
      /\ Moves(Preparation, n, "remade", "info", "reinformed") /\ Moves(Preparation, n, "reinformed", "construct", c)
  BY <1>1, <1>2, <1>3, <1>5 DEF Moves, Drops
<1>7. {"blank", "ready", "dropped", "remade", "reinformed"} \subseteq Conditions
      /\ {"destroy", "create", "info", "construct"} \subseteq OpNames \ {"points", "segments", "export"}
      /\ c \in Conditions
  BY <1>5 DEF Conditions, OpNames
<1>8. Safe(Preparation, s, <<Op("destroy", n)>>, Put(s, n, "dropped"))
  <2>1. Safe(Preparation, Put(s, n, s[n]), <<Op("destroy", n)>>, Put(s, n, "dropped"))
    BY <1>1, <1>4, <1>6, <1>7, PutStep
  <2> QED
    BY <1>4, <2>1
<1>9. Safe(Preparation, Put(s, n, "dropped"), <<Op("create", n)>>, Put(s, n, "remade"))
  BY <1>1, <1>4, <1>6, <1>7, PutStep
<1>10. Safe(Preparation, Put(s, n, "remade"), <<Op("info", n)>>, Put(s, n, "reinformed"))
  BY <1>1, <1>4, <1>6, <1>7, PutStep
<1>11. Safe(Preparation, Put(s, n, "reinformed"), <<Op("construct", n)>>, Put(s, n, c))
       /\ <<Op("construct", n)>> \in Seq(Calls)
  BY <1>1, <1>4, <1>6, <1>7, PutStep
<1>12. Op("destroy", n) \in Calls /\ Op("create", n) \in Calls /\ Op("info", n) \in Calls
  BY <1>1, <1>7, CallIs
<1>13. PICK new : new = <<Op("destroy", n), Op("create", n), Op("info", n)>>
  OBVIOUS
<1>14. Safe(Preparation, s, new, Put(s, n, "reinformed")) /\ new \in Seq(Calls)
  BY <1>8, <1>9, <1>10, <1>12, <1>13, ThreeSafe
<1>15. DestroyAndCreate(n) = new
  BY <1>13, OnCalls DEF DestroyAndCreate
<1>16. PICK made \in Seq(Calls) : made = new \o <<Op("construct", n)>> /\ Safe(Preparation, s, made, Put(s, n, c))
  BY <1>11, <1>14, SafeJoin, ConcatProperties
<1>17. PICK again \in Seq(Calls) : /\ again = IF Head(todo).op = "segments" THEN <<Op("points", n)>> ELSE <<>>
                                   /\ Safe(Preparation, Put(s, n, c), again, s)
  <2>1. Put(s, n, c) \in Standings /\ Put(s, n, c)[n] =
            c /\ (n = "index" => Put(s, n, c)["index_build"] = s["index_build"])
    BY <1>1, <1>4, <1>7 DEF Put, Standings, Names, Temporaries
  <2>2. CASE Head(todo).op = "segments"
    <3>1. Quiet(Put(s, n, c))
      BY <1>1, <1>4, <1>5, <1>7, PutIsQuiet DEF Transient
    <3>2. PICK t : t = Put(s, n, c)
      OBVIOUS
    <3>3. t[n] = "ready" /\ t["index_build"] = "full" /\ n = "index"
      BY <1>3, <1>5, <2>1, <2>2, <3>2
    <3>4. Goes(Preparation, t, <<Op("points", n)>>, Put(t, n, "half"))
      BY <1>1, <1>4, <3>1, <3>2, <3>3, UseGoes
    <3>5. Put(t, n, "half") = Put(s, n, "half")
      BY <1>1, <3>2 DEF Put, Standings
    <3>6. Put(s, n, "half") = s
      BY <1>3, <1>4, <2>2
    <3> QED
      BY <2>2, <3>2, <3>4, <3>5, <3>6 DEF Goes
  <2>3. CASE Head(todo).op # "segments"
    <3>1. c = s[n]
      BY <1>1, <1>3, <1>5, <2>3
    <3>2. Put(s, n, c) = s
      BY <1>4, <3>1
    <3>3. <<>> \in Seq(Calls)
      OBVIOUS
    <3> QED
      BY <1>1, <2>3, <3>2, <3>3, SafeNil
  <2> QED
    BY <2>2, <2>3
<1>18. PICK before \in Seq(Calls) : before = made \o again /\ Safe(Preparation, s, before, s)
  <2>1. PICK t : t = Put(s, n, c)
    OBVIOUS
  <2>2. Safe(Preparation, s, made, t) /\ Safe(Preparation, t, again, s)
    BY <1>16, <1>17, <2>1
  <2>3. Safe(Preparation, s, made \o again, s)
    BY <2>2, SafeJoin
  <2>4. made \o again \in Seq(Calls)
    BY ConcatProperties
  <2> QED
    BY <2>3, <2>4
<1>19. todo \in Seq(Calls) /\ Safe(Preparation, s, todo, Goal(Preparation))
  BY CallsOf
<1>20. Safe(Preparation, s, before \o todo, Goal(Preparation)) /\ before \o todo \in Seq(Calls)
  BY <1>18, <1>19, SafeJoin, ConcatProperties
<1>21. todo' = before \o todo
  BY <1>2, <1>15, <1>16, <1>17, <1>18
<1>22. Stands(s)
  BY <1>1 DEF Before
<1> QED
  BY <1>1, <1>2, <1>20, <1>21, <1>22, Replans

-----------------------------------------------------------------------------
(* What readers have while a preparation runs, and the steps of one that   *)
(* runs.                                                                   *)

LEMMA SeesStays ==
  ASSUME NEW m \in Matches, NEW n \in Finals, Sees(m, n), UNCHANGED options,
         seen'[m][n] = seen[m][n], calm'[m] = calm[m],
         Mapped(n) => /\ seen[m][n].id \in DOMAIN disk'[n]
                      /\ disk'[n][seen[m][n].id].roots = disk[n][seen[m][n].id].roots
  PROVE  Sees(m, n)'
<1>1. Mapped(n)' = Mapped(n)
  BY OptionsStay
<1> QED
  BY <1>1 DEF Sees, KeptOf, Whole

\* A preparation that runs writes only to files of its own.
LEMMA ReadStays ==
  ASSUME Read, Keeps, UNCHANGED <<options, gen, matchVars>>,
         phase \in {"running", "unwinding"}
  PROVE  Read'
<1>1. seen' = seen /\ pending' = pending /\ stage' = stage /\ calm' = calm /\ UNCHANGED options /\ gen' = gen
  BY DEF matchVars
<1>2. ASSUME NEW m \in Matches, calm[m] # 0 PROVE Follows(m)'
  <2>1. /\ calm[m] <= gen /\ calm[m] < gen /\ stage[m] # "refused" /\ stage[m] # "opening"
        /\ stage[m] = "running" => \A n \in Finals : Sees(m, n)
    BY <1>2 DEF Read, Follows
  <2>2. calm[m] # gen
    <3>1. \A a, b : a < b /\ a \in Nat /\ b \in Nat => a # b
      OBVIOUS
    <3> QED
      BY <2>1 DEF Read
  <2>3. ASSUME stage[m] = "running", NEW n \in Finals PROVE Sees(m, n)'
    <3>1. Sees(m, n)
      BY <2>1, <2>3
    <3>2. Mapped(n) => /\ seen[m][n].id \in DOMAIN disk'[n]
                       /\ disk'[n][seen[m][n].id].roots = disk[n][seen[m][n].id].roots
      BY <2>2, <3>1 DEF Sees, Keeps
    <3> QED
      BY <1>1, <3>1, <3>2, SeesStays
  <2> QED
    BY <1>1, <2>1, <2>3 DEF Follows
<1> QED
  BY <1>1, <1>2 DEF Read

LEMMA RunningStep ==
  ASSUME StoragesInv, phase = "running", phase' = "running", Called, UNCHANGED <<options, gen, matchVars>>
  PROVE  StoragesInv'
<1>1. Read'
  BY ReadStays DEF StoragesInv, Called
<1> QED
  BY <1>1 DEF StoragesInv, Called

LEMMA RunningCalls ==
  ASSUME StoragesInv, phase = "running"
  PROVE  /\ CloseFile => StoragesInv'
         /\ DestroyFile => StoragesInv'
         /\ CreateFile => StoragesInv'
         /\ WriteInfo => StoragesInv'
         /\ Construct => StoragesInv'
         /\ Constructs => StoragesInv'
         /\ Fill => StoragesInv'
         /\ LargeEnough => StoragesInv'
         /\ CheckOrExport => StoragesInv'
         /\ OpenFile => StoragesInv'
         /\ FinalizeFile => StoragesInv'
         /\ BuildTree => StoragesInv'
         /\ TruncateFile => StoragesInv'
         /\ TruncateFails => StoragesInv'
         /\ WriteDump => StoragesInv'
         /\ ShrinkFile => StoragesInv'
         /\ Release => StoragesInv'
         /\ Grow => StoragesInv'
         /\ DropGrow => StoragesInv'
         /\ Find => StoragesInv'
<1>1. ASSUME CloseFile PROVE StoragesInv'
  <2>1. Running({"close"}) /\ UNCHANGED <<options, phase, gen, matchVars>>
    BY <1>1 DEF CloseFile
  <2>2. PICK s \in Standings : \E u \in Standings : Before(s, u)
    BY <2>1, BeforeCall DEF Running
  <2>3. PICK u \in Standings : Before(s, u)
    BY <2>2
  <2>4. Calling({"close"}, s, u)
    BY <2>1, <2>3 DEF Calling
  <2>5. Called
    BY <1>1, <2>4, CloseProceeds
  <2> QED
    BY <2>1, <2>5, RunningStep
<1>2. ASSUME DestroyFile PROVE StoragesInv'
  <2>1. Running({"destroy"}) /\ UNCHANGED <<options, phase, gen, matchVars>>
    BY <1>2 DEF DestroyFile
  <2>2. PICK s \in Standings : \E u \in Standings : Before(s, u)
    BY <2>1, BeforeCall DEF Running
  <2>3. PICK u \in Standings : Before(s, u)
    BY <2>2
  <2>4. Calling({"destroy"}, s, u)
    BY <2>1, <2>3 DEF Calling
  <2>5. Called
    BY <1>2, <2>4, DestroyProceeds
  <2> QED
    BY <2>1, <2>5, RunningStep
<1>3. ASSUME CreateFile PROVE StoragesInv'
  <2>1. Running({"create"}) /\ UNCHANGED <<options, phase, gen, matchVars>>
    BY <1>3 DEF CreateFile
  <2>2. PICK s \in Standings : \E u \in Standings : Before(s, u)
    BY <2>1, BeforeCall DEF Running
  <2>3. PICK u \in Standings : Before(s, u)
    BY <2>2
  <2>4. Calling({"create"}, s, u)
    BY <2>1, <2>3 DEF Calling
  <2>5. Called
    BY <1>3, <2>4, CreateProceeds
  <2> QED
    BY <2>1, <2>5, RunningStep
<1>4. ASSUME WriteInfo PROVE StoragesInv'
  <2>1. Running({"info"}) /\ UNCHANGED <<options, phase, gen, matchVars>>
    BY <1>4 DEF WriteInfo
  <2>2. PICK s \in Standings : \E u \in Standings : Before(s, u)
    BY <2>1, BeforeCall DEF Running
  <2>3. PICK u \in Standings : Before(s, u)
    BY <2>2
  <2>4. Calling({"info"}, s, u)
    BY <2>1, <2>3 DEF Calling
  <2>5. Called
    BY <1>4, <2>4, InfoProceeds
  <2> QED
    BY <2>1, <2>5, RunningStep
<1>5. ASSUME Construct PROVE StoragesInv'
  <2>1. Running({"construct"}) /\ UNCHANGED <<options, phase, gen, matchVars>>
    BY <1>5 DEF Construct
  <2>2. PICK s \in Standings : \E u \in Standings : Before(s, u)
    BY <2>1, BeforeCall DEF Running
  <2>3. PICK u \in Standings : Before(s, u)
    BY <2>2
  <2>4. Calling({"construct"}, s, u)
    BY <2>1, <2>3 DEF Calling
  <2>5. Called
    BY <1>5, <2>4, ConstructProceeds
  <2> QED
    BY <2>1, <2>5, RunningStep
<1>6. ASSUME Constructs PROVE StoragesInv'
  <2>1. Running({"constructed"}) /\ UNCHANGED <<options, phase, gen, matchVars>>
    BY <1>6 DEF Constructs
  <2>2. PICK s \in Standings : \E u \in Standings : Before(s, u)
    BY <2>1, BeforeCall DEF Running
  <2>3. PICK u \in Standings : Before(s, u)
    BY <2>2
  <2>4. Calling({"constructed"}, s, u)
    BY <2>1, <2>3 DEF Calling
  <2>5. Called
    BY <1>6, <2>4, ConstructsProceeds
  <2> QED
    BY <2>1, <2>5, RunningStep
<1>7. ASSUME Fill PROVE StoragesInv'
  <2>1. Running({"fill"}) /\ UNCHANGED <<options, phase, gen, matchVars>>
    BY <1>7 DEF Fill
  <2>2. PICK s \in Standings : \E u \in Standings : Before(s, u)
    BY <2>1, BeforeCall DEF Running
  <2>3. PICK u \in Standings : Before(s, u)
    BY <2>2
  <2>4. Calling({"fill"}, s, u)
    BY <2>1, <2>3 DEF Calling
  <2>5. Called
    BY <1>7, <2>4, FillProceeds
  <2> QED
    BY <2>1, <2>5, RunningStep
<1>8. ASSUME LargeEnough PROVE StoragesInv'
  <2>1. Running({"reserve"}) /\ UNCHANGED <<options, phase, gen, matchVars>>
    BY <1>8 DEF LargeEnough
  <2>2. PICK s \in Standings : \E u \in Standings : Before(s, u)
    BY <2>1, BeforeCall DEF Running
  <2>3. PICK u \in Standings : Before(s, u)
    BY <2>2
  <2>4. Calling({"reserve"}, s, u)
    BY <2>1, <2>3 DEF Calling
  <2>5. Called
    BY <1>8, <2>4, LargeEnoughProceeds
  <2> QED
    BY <2>1, <2>5, RunningStep
<1>9. ASSUME CheckOrExport PROVE StoragesInv'
  <2>1. Running({"check", "export"}) /\ UNCHANGED <<options, phase, gen, matchVars>>
    BY <1>9 DEF CheckOrExport
  <2>2. PICK s \in Standings : \E u \in Standings : Before(s, u)
    BY <2>1, BeforeCall DEF Running
  <2>3. PICK u \in Standings : Before(s, u)
    BY <2>2
  <2>4. Calling({"check", "export"}, s, u)
    BY <2>1, <2>3 DEF Calling
  <2>5. Called
    BY <1>9, <2>4, LookProceeds
  <2> QED
    BY <2>1, <2>5, RunningStep
<1>10. ASSUME OpenFile PROVE StoragesInv'
  <2>1. Running({"open"}) /\ UNCHANGED <<options, phase, gen, matchVars>>
    BY <1>10 DEF OpenFile
  <2>2. PICK s \in Standings : \E u \in Standings : Before(s, u)
    BY <2>1, BeforeCall DEF Running
  <2>3. PICK u \in Standings : Before(s, u)
    BY <2>2
  <2>4. Calling({"open"}, s, u)
    BY <2>1, <2>3 DEF Calling
  <2>5. Called
    BY <1>10, <2>4, OpenProceeds
  <2> QED
    BY <2>1, <2>5, RunningStep
<1>11. ASSUME FinalizeFile PROVE StoragesInv'
  <2>1. Running({"finalize"}) /\ UNCHANGED <<options, phase, gen, matchVars>>
    BY <1>11 DEF FinalizeFile
  <2>2. PICK s \in Standings : \E u \in Standings : Before(s, u)
    BY <2>1, BeforeCall DEF Running
  <2>3. PICK u \in Standings : Before(s, u)
    BY <2>2
  <2>4. Calling({"finalize"}, s, u)
    BY <2>1, <2>3 DEF Calling
  <2>5. Called
    BY <1>11, <2>4, FinalizeProceeds
  <2> QED
    BY <2>1, <2>5, RunningStep
<1>12. ASSUME BuildTree PROVE StoragesInv'
  <2>1. Running({"points", "segments"}) /\ UNCHANGED <<options, phase, gen, matchVars>>
    BY <1>12 DEF BuildTree
  <2>2. PICK s \in Standings : \E u \in Standings : Before(s, u)
    BY <2>1, BeforeCall DEF Running
  <2>3. PICK u \in Standings : Before(s, u)
    BY <2>2
  <2>4. Calling({"points", "segments"}, s, u)
    BY <2>1, <2>3 DEF Calling
  <2>5. Called
    BY <1>12, <2>4, TreeProceeds
  <2> QED
    BY <2>1, <2>5, RunningStep
<1>13. ASSUME TruncateFile PROVE StoragesInv'
  <2>1. Running({"truncate"}) /\ UNCHANGED <<options, phase, gen, matchVars>>
    BY <1>13 DEF TruncateFile
  <2>2. PICK s \in Standings : \E u \in Standings : Before(s, u)
    BY <2>1, BeforeCall DEF Running
  <2>3. PICK u \in Standings : Before(s, u)
    BY <2>2
  <2>4. Calling({"truncate"}, s, u)
    BY <2>1, <2>3 DEF Calling
  <2>5. Called
    BY <1>13, <2>4, TruncateProceeds
  <2> QED
    BY <2>1, <2>5, RunningStep
<1>14. ASSUME TruncateFails PROVE StoragesInv'
  <2>1. Running({"truncate"}) /\ UNCHANGED <<options, phase, gen, matchVars>>
    BY <1>14 DEF TruncateFails
  <2>2. PICK s \in Standings : \E u \in Standings : Before(s, u)
    BY <2>1, BeforeCall DEF Running
  <2>3. PICK u \in Standings : Before(s, u)
    BY <2>2
  <2>4. Calling({"truncate"}, s, u)
    BY <2>1, <2>3 DEF Calling
  <2>5. Called
    BY <1>14, <2>4, TruncateFailsProceeds
  <2> QED
    BY <2>1, <2>5, RunningStep
<1>15. ASSUME WriteDump PROVE StoragesInv'
  <2>1. Running({"write"}) /\ UNCHANGED <<options, phase, gen, matchVars>>
    BY <1>15 DEF WriteDump
  <2>2. PICK s \in Standings : \E u \in Standings : Before(s, u)
    BY <2>1, BeforeCall DEF Running
  <2>3. PICK u \in Standings : Before(s, u)
    BY <2>2
  <2>4. Calling({"write"}, s, u)
    BY <2>1, <2>3 DEF Calling
  <2>5. Called
    BY <1>15, <2>4, WriteProceeds
  <2> QED
    BY <2>1, <2>5, RunningStep
<1>16. ASSUME ShrinkFile PROVE StoragesInv'
  <2>1. Running({"shrink"}) /\ UNCHANGED <<options, phase, gen, matchVars>>
    BY <1>16 DEF ShrinkFile
  <2>2. PICK s \in Standings : \E u \in Standings : Before(s, u)
    BY <2>1, BeforeCall DEF Running
  <2>3. PICK u \in Standings : Before(s, u)
    BY <2>2
  <2>4. Calling({"shrink"}, s, u)
    BY <2>1, <2>3 DEF Calling
  <2>5. Called
    BY <1>16, <2>4, ShrinkProceeds
  <2> QED
    BY <2>1, <2>5, RunningStep
<1>17. ASSUME Release PROVE StoragesInv'
  <2>1. Running({"release"}) /\ UNCHANGED <<options, phase, gen, matchVars>>
    BY <1>17 DEF Release
  <2>2. PICK s \in Standings : \E u \in Standings : Before(s, u)
    BY <2>1, BeforeCall DEF Running
  <2>3. PICK u \in Standings : Before(s, u)
    BY <2>2
  <2>4. Calling({"release"}, s, u)
    BY <2>1, <2>3 DEF Calling
  <2>5. Called
    BY <1>17, <2>4, ReleaseProceeds
  <2> QED
    BY <2>1, <2>5, RunningStep
<1>18. ASSUME Grow PROVE StoragesInv'
  <2>1. Running({"fill", "reserve"}) /\ UNCHANGED <<options, phase, gen, matchVars>>
    BY <1>18 DEF Grow
  <2>2. PICK s \in Standings : \E u \in Standings : Before(s, u)
    BY <2>1, BeforeCall DEF Running
  <2>3. PICK u \in Standings : Before(s, u)
    BY <2>2
  <2>4. Calling({"fill", "reserve"}, s, u)
    BY <2>1, <2>3 DEF Calling
  <2>5. Called
    BY <1>18, <2>4, GrowProceeds
  <2> QED
    BY <2>1, <2>5, RunningStep
<1>19. ASSUME DropGrow PROVE StoragesInv'
  <2>1. Running({"fill", "points", "segments"}) /\ UNCHANGED <<options, phase, gen, matchVars>>
    BY <1>19 DEF DropGrow
  <2>2. PICK s \in Standings : \E u \in Standings : Before(s, u)
    BY <2>1, BeforeCall DEF Running
  <2>3. PICK u \in Standings : Before(s, u)
    BY <2>2
  <2>4. Calling({"fill", "points", "segments"}, s, u)
    BY <2>1, <2>3 DEF Calling
  <2>5. Called
    BY <1>19, <2>4, DropGrowProceeds
  <2> QED
    BY <2>1, <2>5, RunningStep
<1>20. ASSUME Find PROVE StoragesInv'
  <2>1. Running({"find"}) /\ UNCHANGED <<options, gen, matchVars>>
    BY <1>20 DEF Find
  <2>2. PICK s \in Standings : \E u \in Standings : Before(s, u)
    BY <2>1, BeforeCall DEF Running
  <2>3. PICK u \in Standings : Before(s, u)
    BY <2>2
  <2>4. Calling({"find"}, s, u)
    BY <2>1, <2>3 DEF Calling
  <2>5. Called /\ UNCHANGED phase
    BY <1>20, <2>4, FindProceeds
  <2> QED
    BY <2>1, <2>5, RunningStep
<1> QED
  BY <1>1, <1>2, <1>3, <1>4, <1>5, <1>6, <1>7, <1>8, <1>9, <1>10, <1>11, <1>12, <1>13, <1>14,
       <1>15, <1>16, <1>17, <1>18, <1>19, <1>20

-----------------------------------------------------------------------------
(* Unwinding: the calls that let every storage go.                         *)

LEMMA TailLists ==
  ASSUME NEW S, NEW list \in Seq(S), list # <<>>, NEW x, Lists(list, x), Head(list) # x
  PROVE  Lists(Tail(list), x)
<1>1. PICK i \in 1..Len(list) : list[i] = x
  BY DEF Lists
<1>2. Len(list) \in Nat /\ Head(list) = list[1] /\ Len(Tail(list)) = Len(list) - 1
      /\ \A j \in 1..Len(list) - 1 : Tail(list)[j] = list[j + 1]
  OBVIOUS
<1>3. i # 1
  BY <1>1, <1>2
<1>4. i - 1 \in 1..Len(list) - 1 /\ (i - 1) + 1 = i
  BY <1>2, <1>3
<1>5. Tail(list)[i - 1] = x /\ i - 1 \in 1..Len(Tail(list))
  BY <1>1, <1>2, <1>4
<1>6. DOMAIN Tail(list) = 1..Len(Tail(list))
  OBVIOUS
<1> QED
  BY <1>5, <1>6 DEF Lists

LEMMA UnwindsTail ==
  ASSUME NEW list \in Seq(Calls), list # <<>>, Unwinds(list)
  PROVE  /\ Unwinds(Tail(list)) /\ Head(list).op \in {"destroy", "close", "shrink", "release"}
         /\ Head(list).op # "release" => Lists(Tail(list), Op("release", Head(list).name))
<1> DEFINE n == Len(list)
           rest == Tail(list)
<1>1. n \in Nat /\ n >= 1 /\ Head(list) = list[1] /\ DOMAIN list = 1..n /\ DOMAIN rest = 1..n - 1
      /\ \A j \in 1..n - 1 : rest[j] = list[j + 1]
  OBVIOUS
<1> HIDE DEF n, rest
<1>2. \A i \in 1..n : /\ list[i].op \in {"destroy", "close", "shrink", "release"}
                      /\ list[i].op # "release" => \E j \in 1..n : j > i /\ list[j] = Op("release", list[i].name)
  BY <1>1 DEF Unwinds
<1>3. ASSUME NEW i \in 1..n, list[i].op # "release"
      PROVE  \E j \in 1..n - 1 : j > i - 1 /\ rest[j] = Op("release", list[i].name)
  <2>1. PICK j \in 1..n : j > i /\ list[j] = Op("release", list[i].name)
    BY <1>2, <1>3
  <2>2. j - 1 \in 1..n - 1 /\ j - 1 > i - 1 /\ (j - 1) + 1 = j
    BY <1>1, <2>1
  <2> QED
    BY <1>1, <2>1, <2>2
<1>4. ASSUME NEW i \in 1..n - 1
      PROVE  /\ rest[i].op \in {"destroy", "close", "shrink", "release"}
             /\ rest[i].op # "release" => \E j \in 1..n - 1 : j > i /\ rest[j] = Op("release", rest[i].name)
  <2>1. i + 1 \in 1..n /\ rest[i] = list[i + 1] /\ (i + 1) - 1 = i
    BY <1>1
  <2> QED
    BY <1>2, <1>3, <2>1
<1>5. Unwinds(rest)
  BY <1>1, <1>4 DEF Unwinds
<1>6. 1 \in 1..n /\ list[1].op \in {"destroy", "close", "shrink", "release"}
  BY <1>1, <1>2
<1>7. list[1].op # "release" => Lists(rest, Op("release", list[1].name))
  BY <1>1, <1>3, <1>6 DEF Lists
<1> QED
  BY <1>1, <1>5, <1>6, <1>7 DEF rest

LEMMA UnwindsJoin ==
  ASSUME NEW a \in Seq(Calls), NEW b \in Seq(Calls), Unwinds(a), Unwinds(b)
  PROVE  Unwinds(a \o b)
<1> DEFINE m == Len(a)
           n == Len(b)
           c == a \o b
<1>1. m \in Nat /\ n \in Nat /\ DOMAIN a = 1..m /\ DOMAIN b = 1..n /\ DOMAIN c = 1..m + n
      /\ \A i \in 1..m + n : c[i] = IF i <= m THEN a[i] ELSE b[i - m]
  OBVIOUS
<1> HIDE DEF m, n, c
<1>2. ASSUME NEW i \in 1..m + n
      PROVE  /\ c[i].op \in {"destroy", "close", "shrink", "release"}
             /\ c[i].op # "release" => \E j \in 1..m + n : j > i /\ c[j] = Op("release", c[i].name)
  <2>1. CASE i <= m
    <3>1. i \in 1..m /\ c[i] = a[i]
      BY <1>1, <2>1
    <3>2. /\ a[i].op \in {"destroy", "close", "shrink", "release"}
          /\ a[i].op # "release" => \E j \in 1..m : j > i /\ a[j] = Op("release", a[i].name)
      BY <1>1, <3>1 DEF Unwinds
    <3>3. \A j \in 1..m : j \in 1..m + n /\ c[j] = a[j]
      BY <1>1
    <3> QED
      BY <3>1, <3>2, <3>3
  <2>2. CASE ~(i <= m)
    <3>1. i - m \in 1..n /\ c[i] = b[i - m]
      BY <1>1, <2>2
    <3>2. /\ b[i - m].op \in {"destroy", "close", "shrink", "release"}
          /\ b[i - m].op # "release" => \E j \in 1..n : j > i - m /\ b[j] = Op("release", b[i - m].name)
      BY <1>1, <3>1 DEF Unwinds
    <3>3. ASSUME NEW j \in 1..n, j > i - m PROVE j + m \in 1..m + n /\ j + m > i /\ c[j + m] = b[j]
      <4>1. j + m \in 1..m + n /\ j + m > i /\ ~(j + m <= m) /\ (j + m) - m = j
        BY <1>1, <3>3
      <4> QED
        BY <1>1, <4>1
    <3> QED
      BY <3>1, <3>2, <3>3
  <2> QED
    BY <2>1, <2>2
<1>3. Unwinds(c)
  BY <1>1, <1>2 DEF Unwinds
<1> QED
  BY <1>3 DEF c

LEMMA ListsJoin ==
  ASSUME NEW S, NEW a \in Seq(S), NEW b \in Seq(S)
  PROVE  a \o b \in Seq(S) /\ \A x : Lists(a, x) \/ Lists(b, x) => Lists(a \o b, x)
<1>1. Len(a) \in Nat /\ Len(b) \in Nat /\ DOMAIN (a \o b) = 1..Len(a) + Len(b)
      /\ (\A i \in 1..Len(a) : (a \o b)[i] = a[i] /\ i \in 1..Len(a) + Len(b))
      /\ \A i \in 1..Len(b) : (a \o b)[Len(a) + i] = b[i] /\ Len(a) + i \in 1..Len(a) + Len(b)
  OBVIOUS
<1>2. DOMAIN a = 1..Len(a) /\ DOMAIN b = 1..Len(b)
  OBVIOUS
<1>3. a \o b \in Seq(S)
  OBVIOUS
<1>4. ASSUME NEW x, Lists(a, x) \/ Lists(b, x) PROVE Lists(a \o b, x)
  <2>1. CASE Lists(a, x)
    BY <1>1, <1>2, <2>1 DEF Lists
  <2>2. CASE Lists(b, x)
    BY <1>1, <1>2, <2>2 DEF Lists
  <2> QED
    BY <1>4, <2>1, <2>2
<1> QED
  BY <1>3, <1>4

\* What a list of calls does to let a storage go.
LetsGo(list, n) ==
    /\ list \in Seq(Calls) /\ Unwinds(list)
    /\ st[n].on => Lists(list, Op("release", n))
    /\ st[n].on /\ n \in Temporaries /\ Mapped(n) => Lists(list, Op("destroy", n))

LEMMA LeaveIs ==
  ASSUME NEW n \in Names
  PROVE  LetsGo(Leave(n), n)
<1>1. Op("release", n) \in Calls /\ Op("release", n).op = "release" /\ Op("release", n).name = n
  BY CallIs DEF OpNames
<1>2. Op("destroy", n) \in Calls /\ Op("destroy", n).op = "destroy" /\ Op("destroy", n).name = n
  BY CallIs DEF OpNames
<1>3. Op("close", n) \in Calls /\ Op("close", n).op = "close" /\ Op("close", n).name = n
  BY CallIs DEF OpNames
<1>4. Op("shrink", n) \in Calls /\ Op("shrink", n).op = "shrink" /\ Op("shrink", n).name = n
  BY CallIs DEF OpNames
<1>5. CASE ~st[n].on
  <2>1. Leave(n) = <<>>
    BY <1>5 DEF Leave
  <2>2. <<>> \in Seq(Calls) /\ Unwinds(<<>>)
    BY DEF Unwinds
  <2> QED
    BY <1>5, <2>1, <2>2 DEF LetsGo
<1>6. CASE st[n].on /\ ~Mapped(n)
  <2>1. PICK r : r = Op("release", n)
    OBVIOUS
  <2>2. Leave(n) = <<r>>
    BY <1>6, <2>1, OnCalls DEF Leave, Destructor
  <2>3. <<r>> \in Seq(Calls) /\ DOMAIN <<r>> = 1..1 /\ <<r>>[1] = r /\ \A i \in 1..1 : i = 1
    BY <1>1, <2>1
  <2>4. Unwinds(<<r>>) /\ Lists(<<r>>, r)
    BY <1>1, <2>1, <2>3 DEF Unwinds, Lists
  <2> QED
    BY <1>6, <2>1, <2>2, <2>3, <2>4 DEF LetsGo
<1>7. CASE st[n].on /\ Mapped(n) /\ n \in Temporaries
  <2>1. PICK r : r = Op("release", n)
    OBVIOUS
  <2>2. PICK d : d = Op("destroy", n)
    OBVIOUS
  <2>3. Leave(n) = <<d, r>>
    BY <1>7, <2>1, <2>2, OnCalls DEF Leave, Destructor
  <2>4. <<d, r>> \in Seq(Calls) /\ DOMAIN <<d, r>> = 1..2 /\ <<d, r>>[1] = d /\ <<d, r>>[2] = r
        /\ (\A i \in 1..2 : i = 1 \/ i = 2) /\ 2 > 1 /\ 1 \in 1..2 /\ 2 \in 1..2
    BY <1>1, <1>2, <2>1, <2>2
  <2>5. Unwinds(<<d, r>>) /\ Lists(<<d, r>>, r) /\ Lists(<<d, r>>, d)
    BY <1>1, <1>2, <2>1, <2>2, <2>4 DEF Unwinds, Lists
  <2> QED
    BY <2>1, <2>2, <2>3, <2>4, <2>5 DEF LetsGo
<1>8. CASE st[n].on /\ Mapped(n) /\ n \notin Temporaries
  <2>1. PICK r : r = Op("release", n)
    OBVIOUS
  <2>2. PICK c : c = Op("close", n)
    OBVIOUS
  <2>3. PICK d : d = Op("shrink", n)
    OBVIOUS
  <2>4. Leave(n) = <<c, d, r>>
    BY <1>8, <2>1, <2>2, <2>3, OnCalls DEF Leave, Destructor
  <2>5. <<c, d, r>> \in Seq(Calls) /\ DOMAIN <<c, d, r>> = 1..3
        /\ <<c, d, r>>[1] = c /\ <<c, d, r>>[2] = d /\ <<c, d, r>>[3] = r
        /\ (\A i \in 1..3 : i = 1 \/ i = 2 \/ i = 3) /\ 3 > 2 /\ 3 > 1 /\ 3 \in 1..3
    BY <1>1, <1>3, <1>4, <2>1, <2>2, <2>3
  <2>6. Unwinds(<<c, d, r>>) /\ Lists(<<c, d, r>>, r)
    BY <1>1, <1>3, <1>4, <2>1, <2>2, <2>3, <2>5 DEF Unwinds, Lists
  <2> QED
    BY <1>8, <2>1, <2>4, <2>5, <2>6 DEF LetsGo
<1> QED
  BY <1>5, <1>6, <1>7, <1>8

\* An exception lets go of all storages that were constructed.
LEMMA UnwoundIs ==
  /\ Unwound \in Seq(Calls) /\ Unwinds(Unwound)
  /\ \A n \in Names : LetsGo(Unwound, n)
<1>1. Names = {"tags_import", "graph_import", "osm_tags", "osm_vertices", "tags", "index_build", "index", "graph"}
  BY DEF Names, Temporaries, Finals
<1> DEFINE Good(list, of) == /\ list \in Seq(Calls) /\ Unwinds(list)
                             /\ \A n \in of : LetsGo(list, n)
<1>2. ASSUME NEW a, NEW N, Good(a, N), NEW n \in Names
      PROVE  Good(a \o Leave(n), N \cup {n})
  <2>1. LetsGo(Leave(n), n)
    BY LeaveIs
  <2>2. PICK b : b = Leave(n)
    OBVIOUS
  <2>3. a \in Seq(Calls) /\ b \in Seq(Calls) /\ Unwinds(a) /\ Unwinds(b)
    BY <1>2, <2>1, <2>2 DEF LetsGo
  <2>4. a \o b \in Seq(Calls) /\ Unwinds(a \o b) /\ \A x : Lists(a, x) \/ Lists(b, x) => Lists(a \o b, x)
    BY <2>3, UnwindsJoin, ListsJoin, ConcatProperties
  <2>5. ASSUME NEW k \in N \cup {n} PROVE LetsGo(a \o b, k)
    <3>1. LetsGo(a, k) \/ LetsGo(b, k)
      BY <1>2, <2>1, <2>2
    <3> QED
      BY <2>4, <3>1 DEF LetsGo
  <2> QED
    BY <2>2, <2>4, <2>5
<1>3. Good(Leave("index_build"), {"index_build"})
  <2>1. LetsGo(Leave("index_build"), "index_build")
    BY <1>1, LeaveIs
  <2> QED
    BY <2>1 DEF LetsGo
<1> HIDE DEF Good
<1>4. Good(Leave("index_build") \o Leave("index"), {"index_build"} \cup {"index"})
  BY <1>1, <1>2, <1>3
<1>5. PICK a4, N4 : /\ a4 = ((Leave("index_build") \o Leave("index")) \o Leave("tags")) \o Leave("graph")
                    /\ N4 = ({"index_build"} \cup {"index"} \cup {"tags"}) \cup {"graph"} /\ Good(a4, N4)
  <2>1. PICK a, N : a = Leave("index_build") \o Leave("index") /\ N = {"index_build"} \cup {"index"} /\ Good(a, N)
    BY <1>4
  <2>2. Good(a \o Leave("tags"), N \cup {"tags"})
    BY <1>1, <1>2, <2>1
  <2>3. PICK b, M : b = a \o Leave("tags") /\ M = N \cup {"tags"} /\ Good(b, M)
    BY <2>2
  <2>4. Good(b \o Leave("graph"), M \cup {"graph"})
    BY <1>1, <1>2, <2>3
  <2> QED
    BY <2>1, <2>3, <2>4
<1>6. Good(a4 \o Leave("osm_tags"), N4 \cup {"osm_tags"})
  BY <1>1, <1>2, <1>5
<1>7. PICK a5, N5 : a5 = a4 \o Leave("osm_tags") /\ N5 = N4 \cup {"osm_tags"} /\ Good(a5, N5)
  BY <1>6
<1>8. Good(a5 \o Leave("osm_vertices"), N5 \cup {"osm_vertices"})
  BY <1>1, <1>2, <1>7
<1>9. PICK a6, N6 : a6 = a5 \o Leave("osm_vertices") /\ N6 = N5 \cup {"osm_vertices"} /\ Good(a6, N6)
  BY <1>8
<1>10. Good(a6 \o Leave("tags_import"), N6 \cup {"tags_import"})
  BY <1>1, <1>2, <1>9
<1>11. PICK a7, N7 : a7 = a6 \o Leave("tags_import") /\ N7 = N6 \cup {"tags_import"} /\ Good(a7, N7)
  BY <1>10
<1>12. Good(a7 \o Leave("graph_import"), N7 \cup {"graph_import"})
  BY <1>1, <1>2, <1>11
<1>13. Unwound = a7 \o Leave("graph_import")
  BY <1>5, <1>7, <1>9, <1>11 DEF Unwound
<1>14. N7 \cup {"graph_import"} = Names
  BY <1>1, <1>5, <1>7, <1>9, <1>11
<1> QED
  BY <1>12, <1>13, <1>14 DEF Good

\* What is left to unwind after a call of it.
LEMMA RetreatStep ==
  ASSUME StoragesInv, phase = "unwinding", phase' = "unwinding", todo # <<>>, NEW n, n = Name,
         todo' = Tail(todo), UNCHANGED <<options, gen, kills, matchVars>>, Filed', Keeps, Changes(n),
         Head(todo).op = "release" => st'[n] = Off,
         Head(todo).op = "destroy" => dir'[n] = NoFile,
         dir'[n] = dir[n] \/ dir'[n] = NoFile
  PROVE  StoragesInv'
<1>1. /\ todo \in Seq(Calls) /\ Unwinds(todo) /\ Read
      /\ \A k \in Names : st[k] = Off \/ Lists(todo, Op("release", k))
      /\ \A k \in Temporaries : kills = 0 /\ dir[k] # NoFile => Lists(todo, Op("destroy", k))
  BY DEF StoragesInv, Retreats
<1>2. /\ Unwinds(Tail(todo)) /\ Head(todo).name = n
      /\ Head(todo).op # "release" => Lists(Tail(todo), Op("release", n))
  BY <1>1, UnwindsTail DEF Name
<1>3. /\ \A k \in Names \ {n} : st'[k] = st[k] /\ dir'[k] = dir[k]
      /\ \A op, k : Op(op, k).op = op /\ Op(op, k).name = k
  BY DEF Changes, Op
<1>4. ASSUME NEW k \in Names PROVE st'[k] = Off \/ Lists(Tail(todo), Op("release", k))
  <2>1. CASE k = n
    BY <1>2, <2>1
  <2>2. CASE k # n
    <3>1. Head(todo) # Op("release", k)
      BY <1>2, <1>3, <2>2
    <3>2. Lists(todo, Op("release", k)) => Lists(Tail(todo), Op("release", k))
      BY <1>1, <3>1, TailLists
    <3> QED
      BY <1>1, <1>3, <2>2, <3>2
  <2> QED
    BY <2>1, <2>2
<1>5. ASSUME NEW k \in Temporaries, kills = 0, dir'[k] # NoFile PROVE Lists(Tail(todo), Op("destroy", k))
  <2>1. dir'[k] = dir[k] /\ Head(todo) # Op("destroy", k)
    <3>1. CASE k = n
      BY <1>3, <1>5, <3>1
    <3>2. CASE k # n
      BY <1>2, <1>3, <3>2, FinalsAre
    <3> QED
      BY <3>1, <3>2
  <2>2. Lists(todo, Op("destroy", k))
    BY <1>1, <1>5, <2>1
  <2> QED
    BY <1>1, <2>1, <2>2, TailLists
<1>6. kills' = kills /\ Tail(todo) \in Seq(Calls)
  BY <1>1
<1>7. Retreats'
  BY <1>2, <1>4, <1>5, <1>6 DEF Retreats
<1>8. Read'
  BY <1>1, ReadStays
<1> QED
  BY <1>6, <1>7, <1>8 DEF StoragesInv

LEMMA UnwindingCall ==
  ASSUME StoragesInv, phase = "unwinding", todo # <<>>
  PROVE  /\ Head(todo).op \in {"destroy", "close", "shrink", "release"}
         /\ Name \in Names /\ FiledAt(Name) /\ Filed
         /\ DOMAIN st = Names /\ DOMAIN dir = Names /\ DOMAIN disk = Names
<1>1. Head(todo).op \in {"destroy", "close", "shrink", "release"}
  BY UnwindsTail DEF StoragesInv, Retreats
<1>2. Head(todo) \in Calls
  BY HeadTailProperties DEF StoragesInv
<1>3. Name \in Names /\ Filed
  BY <1>2 DEF Calls, Name, StoragesInv
<1> QED
  BY <1>1, <1>3 DEF Filed

LEMMA UnwindingCalls ==
  ASSUME StoragesInv, phase = "unwinding"
  PROVE  /\ CloseFile => StoragesInv'
         /\ DestroyFile => StoragesInv'
         /\ ShrinkFile => StoragesInv'
         /\ Release => StoragesInv'
<1>0. PICK n : n = Name
  OBVIOUS
<1>1. ASSUME CloseFile PROVE StoragesInv'
  <2>1. Head(todo).op = "close" /\ todo # <<>>
    BY <1>1 DEF CloseFile, Running
  <2>2. n \in Names /\ FiledAt(n) /\ Filed /\ DOMAIN st = Names /\ DOMAIN dir = Names
    BY <1>0, <2>1, UnwindingCall
  <2>3. PICK ptr : st' = [st EXCEPT ![n].id = NoFile, ![n].ptr = ptr]
    BY <1>0, <1>1 DEF CloseFile
  <2>4. /\ dir' = dir /\ disk' = Alive(dir', st', seen) /\ UNCHANGED <<options, gen, kills, seen>>
        /\ UNCHANGED matchVars /\ phase' = phase /\ todo' = Tail(todo)
    BY <1>1 DEF CloseFile, Next_, matchVars
  <2>5. Changes(n) /\ FiledAt(n)'
    BY <2>2, <2>3, <2>4, ClosingFiled
  <2>6. Filed' /\ Keeps
    BY <2>2, <2>4, <2>5, AliveStep
  <2> QED
    BY <1>0, <2>1, <2>4, <2>5, <2>6, RetreatStep
<1>2. ASSUME DestroyFile PROVE StoragesInv'
  <2>1. Head(todo).op = "destroy" /\ todo # <<>>
    BY <1>2 DEF DestroyFile, Running
  <2>2. n \in Names /\ FiledAt(n) /\ Filed /\ DOMAIN st = Names /\ DOMAIN dir = Names
    BY <1>0, <2>1, UnwindingCall
  <2>3. PICK ptr : st' = [st EXCEPT ![n].id = NoFile, ![n].ptr = ptr]
    BY <1>0, <1>2 DEF DestroyFile
  <2>4. /\ dir' = [dir EXCEPT ![n] = NoFile] /\ disk' = Alive(dir', st', seen)
        /\ UNCHANGED <<options, gen, kills, seen>>
        /\ UNCHANGED matchVars /\ phase' = phase /\ todo' = Tail(todo)
    BY <1>0, <1>2 DEF DestroyFile, Next_, matchVars
  <2>5. Changes(n) /\ FiledAt(n)'
    BY <2>2, <2>3, <2>4, ClosingFiled
  <2>6. Filed' /\ Keeps
    BY <2>2, <2>4, <2>5, AliveStep
  <2>7. dir'[n] = NoFile
    BY <2>2, <2>4
  <2> QED
    BY <1>0, <2>1, <2>4, <2>5, <2>6, <2>7, RetreatStep
<1>3. ASSUME ShrinkFile PROVE StoragesInv'
  <2>1. Head(todo).op = "shrink" /\ todo # <<>>
    BY <1>3 DEF ShrinkFile, Running
  <2>2. n \in Names /\ Filed
    BY <1>0, <2>1, UnwindingCall
  <2>3. PICK c : c = [disk[n][dir[n]] EXCEPT !.slack = FALSE]
    OBVIOUS
  <2>4. Trimmed(disk[n][dir[n]], c)
    BY <2>3 DEF Trimmed
  <2>5. disk' = (IF dir[n] = NoFile THEN disk ELSE With(disk, n, dir[n], c))
    BY <1>0, <1>3, <2>3 DEF ShrinkFile
  <2>6. /\ UNCHANGED <<options, gen, kills, seen, st, dir>>
        /\ UNCHANGED matchVars /\ phase' = phase /\ todo' = Tail(todo)
    BY <1>3 DEF ShrinkFile, Next_, matchVars
  <2>7. Filed' /\ Keeps /\ Changes(n) /\ dir'[n] = dir[n]
    BY <2>2, <2>4, <2>5, <2>6, ShrinkStep
  <2> QED
    BY <1>0, <2>1, <2>6, <2>7, RetreatStep
<1>4. ASSUME Release PROVE StoragesInv'
  <2>1. Head(todo).op = "release" /\ todo # <<>>
    BY <1>4 DEF Release, Running
  <2>2. n \in Names /\ Filed
    BY <1>0, <2>1, UnwindingCall
  <2>3. st' = [st EXCEPT ![n] = Off] /\ disk' = Alive(dir, st', seen)
    BY <1>0, <1>4 DEF Release
  <2>4. /\ UNCHANGED <<options, gen, kills, seen, dir>>
        /\ UNCHANGED matchVars /\ phase' = phase /\ todo' = Tail(todo)
    BY <1>4 DEF Release, Next_, matchVars
  <2>5. Filed' /\ Keeps /\ Changes(n) /\ st'[n] = Off /\ dir'[n] = dir[n]
    BY <2>2, <2>3, <2>4, ReleaseStep
  <2> QED
    BY <1>0, <2>1, <2>4, <2>5, RetreatStep
<1> QED
  BY <1>1, <1>2, <1>3, <1>4

\* No other call is made while the storages are let go.
LEMMA OnlyUnwinding ==
  ASSUME StoragesInv, phase = "unwinding", NEW ops, Running(ops)
  PROVE  ops \cap {"destroy", "close", "shrink", "release"} # {}
BY UnwindingCall DEF Running

-----------------------------------------------------------------------------
(* The prepare process as a whole.                                         *)

LEMMA PhaseStep ==
  ASSUME StoragesInv, UNCHANGED <<options, dir, disk, st, gen, kills, unsaved, seen>>
  PROVE  /\ Filed' /\ Keeps /\ Preparation' = Preparation
         /\ \A n \in Names : View(n)' = View(n)
<1>1. Filed
  BY DEF StoragesInv
<1>2. Preparation' = Preparation /\ given' = given /\ \A n : Mapped(n)' =
          Mapped(n) /\ (Used(Preparation, n)' <=> Used(Preparation, n))
  BY PreparationStays, OptionsStay
<1>3. ASSUME NEW n \in Names PROVE FiledAt(n)'
  BY <1>1, <1>2 DEF Filed, FiledAt
<1>4. Filed'
  BY <1>1, <1>2, <1>3 DEF Filed
<1>5. Keeps
  BY DEF Keeps
<1>6. \A n \in Names : View(n)' = View(n)
  BY DEF View
<1> QED
  BY <1>2, <1>4, <1>5, <1>6

LEMMA GoalRests ==
  ASSUME NEW p, NEW n \in Names, NEW v, Meets(p, n, Goal(p)[n], v)
  PROVE  IsOff(p, n, v)
<1>1. CASE n \in Finals
  <2>1. IsKept(p, n, v)
    BY <1>1 DEF Goal, Meets
  <2> QED
    BY <1>1, <2>1, FinalsAre DEF IsKept, IsOff
<1>2. CASE n \notin Finals /\ Used(p, n)
  BY <1>2 DEF Goal, Meets, IsOff
<1>3. CASE n \notin Finals /\ ~Used(p, n)
  BY <1>3 DEF Goal, Meets
<1> QED
  BY <1>1, <1>2, <1>3

LEMMA EndStep ==
  ASSUME StoragesInv, EndPrepare
  PROVE  StoragesInv'
<1>1. /\ UNCHANGED <<options, dir, disk, st, gen, kills, unsaved, seen>> /\ UNCHANGED matchVars
      /\ todo = <<>> /\ todo' = todo /\ UNCHANGED options /\ gen' = gen
      /\ phase \in {"running", "unwinding"} /\ phase' = IF phase = "running" THEN "ended" ELSE "failed"
  BY DEF EndPrepare, matchVars
<1>2. Filed' /\ Keeps /\ Preparation' = Preparation /\ \A n \in Names : View(n)' = View(n)
  BY <1>1, PhaseStep
<1>3. Read' /\ todo' \in Seq(Calls)
  BY <1>1, <1>2, ReadStays DEF StoragesInv
<1>4. CASE phase = "running"
  <2>1. PICK s \in Standings : Stands(s) /\ Safe(Preparation, s, todo, Goal(Preparation))
    BY <1>4 DEF StoragesInv, Proceeds
  <2>2. s = Goal(Preparation)
    BY <1>1, <2>1, SafeEnd
  <2>3. \A n \in Names : Meets(Preparation, n, Goal(Preparation)[n], View(n))
    BY <2>1, <2>2 DEF Stands
  <2>4. \A n \in Names : IsOff(Preparation, n, View(n))
    BY <2>3, GoalRests
  <2>5. Rests' /\ Arrives'
    BY <1>2, <2>3, <2>4 DEF Rests, Arrives
  <2>6. phase' = "ended"
    BY <1>1, <1>4
  <2> QED
    BY <1>2, <1>3, <2>5, <2>6 DEF StoragesInv
<1>5. CASE phase = "unwinding"
  <2>1. /\ \A n \in Names : st[n] = Off
        /\ \A n \in Temporaries : kills = 0 => dir[n] = NoFile
    BY <1>1, <1>5 DEF StoragesInv, Retreats, Lists
  <2>2. ASSUME NEW n \in Names PROVE IsOff(Preparation, n, View(n))
    BY <2>1 DEF IsOff, View, Preparation
  <2>3. Rests'
    BY <1>2, <2>2 DEF Rests
  <2>4. phase' = "failed"
    BY <1>1, <1>5
  <2> QED
    BY <1>2, <1>3, <2>3, <2>4 DEF StoragesInv
<1> QED
  BY <1>1, <1>4, <1>5

\* A temporary file that is in the directory when a call fails belongs to a storage that
\* has been constructed: what is made before that is made by calls that do not fail.
LEMMA FailingCall ==
  ASSUME NEW s \in Standings, NEW u \in Standings, Before(s, u),
         Head(todo).op \in {"check", "create", "fill", "points", "segments", "write"},
         NEW n \in Temporaries, kills = 0, dir[n] # NoFile
  PROVE  st[n].on
<1>1. n \in Names /\ s[n] \in Passing /\ Meets(Preparation, n, s[n], View(n))
  BY FinalsAre DEF Before, Stands
<1>2. View(n).st = st[n] /\ View(n).dir = dir[n] /\ Preparation.kills = 0
  BY DEF View, Preparation
<1>3. s[n] \notin {"off", "gone", "erased", "cleared"}
  <2>1. s[n] # "off"
    BY <1>1, <1>2 DEF Meets, IsOff
  <2>2. s[n] # "gone"
    BY <1>1, <1>2 DEF Meets, IsGone, IsDropped
  <2>3. s[n] # "erased" /\ s[n] # "cleared"
    BY <1>1, <1>2 DEF Meets
  <2> QED
    BY <2>1, <2>2, <2>3
<1>4. s[n] \notin Transient
  <2>0. PICK m : m = Name
    OBVIOUS
  <2>1. /\ m \in Names /\ Moves(Preparation, m, s[m], Head(todo).op, u[m])
        /\ \A k \in Names \ {m} : s[k] \notin Transient
    BY <2>0, AtCall
  <2>2. s[m] \notin {"bare", "informed", "new"} \/ m \in Finals
    <3>1. Head(todo).op = "check" => s[m] = "off"
      BY <2>1, CheckMoves
    <3>2. Head(todo).op = "create" => s[m] \in {"gone", "dropped"}
      BY <2>1, CreateMoves
    <3>3. Head(todo).op = "fill" => s[m] = "blank"
      BY <2>1, FillMoves
    <3>4. Head(todo).op = "points" => s[m] = "ready"
      BY <2>1, PointsMoves
    <3>5. Head(todo).op = "segments" => s[m] = "half"
      BY <2>1, SegmentsMoves
    <3>6. Head(todo).op = "write" => m \in Finals
      BY <2>1, WriteMoves
    <3> QED
      BY <3>1, <3>2, <3>3, <3>4, <3>5, <3>6
  <2>3. s[n] # "truncated"
    BY <1>1 DEF Passing
  <2>4. CASE n = m
    <3>1. n \notin Finals
      BY <1>1, FinalsAre
    <3> QED
      BY <2>2, <2>3, <2>4, <3>1 DEF Transient
  <2> QED
    BY <1>1, <2>1, <2>4
<1>5. CASE s[n] = "blank"
  BY <1>1, <1>2, <1>5 DEF Meets, IsBlank, Counted
<1>6. CASE s[n] = "full"
  BY <1>1, <1>2, <1>6 DEF Meets, IsFull, Counted
<1>7. CASE s[n] = "closed"
  BY <1>1, <1>2, <1>7 DEF Meets, IsClosed, Unmapped, Counted
<1>8. CASE s[n] = "opened"
  BY <1>1, <1>2, <1>8 DEF Meets, IsOpened, Unmapped, Counted
<1> QED
  BY <1>1, <1>3, <1>4, <1>5, <1>6, <1>7, <1>8 DEF Passing, Transient

\* Storages that are let go, and the files that nobody maps any more.
LEMMA LeavingStep ==
  ASSUME Filed, UNCHANGED <<options, gen, seen, dir>>, kills' \in Nat, DOMAIN st' = Names,
         \A n \in Names : st'[n] = st[n] \/ st'[n] = Off, disk' = Alive(dir, st', seen)
  PROVE  Filed' /\ Keeps
<1>1. DOMAIN disk' = Names /\ Keeps
  BY AliveFiles DEF Keeps
<1>2. given' = given /\ \A n : Mapped(n)' = Mapped(n) /\ (Used(Preparation, n)' <=> Used(Preparation, n))
  BY OptionsStay, PreparationStays
<1>3. ASSUME NEW n \in Names PROVE FiledAt(n)'
  <2>1. FiledAt(n) /\ dir'[n] = dir[n]
    BY DEF Filed
  <2>2. CASE st'[n] = st[n]
    BY <1>2, <2>1, <2>2 DEF FiledAt
  <2>3. CASE st'[n] = Off
    BY <1>2, <2>1, <2>3 DEF FiledAt, Off
  <2> QED
    BY <2>2, <2>3
<1> QED
  BY <1>1, <1>2, <1>3 DEF Filed

LEMMA FailStep ==
  ASSUME StoragesInv, Fail
  PROVE  StoragesInv'
<1>1. /\ phase = "running" /\ todo # <<>> /\ phase' = "unwinding" /\ todo' = Unwound
      /\ Head(todo).op \in {"check", "create", "fill", "points", "segments", "write"}
      /\ UNCHANGED <<options, gen, seen, dir>> /\ UNCHANGED matchVars /\ kills' = kills
      /\ disk' = Alive(dir, st', seen)
  BY DEF Fail, Running, Throws, matchVars
<1>2. DOMAIN st' = Names /\ \A n \in Names : st'[n] = IF st[n].on THEN st[n] ELSE Off
  BY DEF Fail
<1>3. Filed /\ kills \in Nat /\ Read
  BY DEF StoragesInv, Filed
<1>4. Filed' /\ Keeps
  BY <1>1, <1>2, <1>3, LeavingStep
<1>5. Read'
  BY <1>1, <1>3, <1>4, ReadStays
<1>6. PICK s \in Standings : \E u \in Standings : Before(s, u)
  BY <1>1, BeforeCall
<1>7. PICK u \in Standings : Before(s, u)
  BY <1>6
<1>8. Unwound \in Seq(Calls) /\ Unwinds(Unwound) /\ \A n \in Names : LetsGo(Unwound, n)
  BY UnwoundIs
<1>9. \A n \in Names : st'[n] = Off \/ Lists(Unwound, Op("release", n))
  BY <1>2, <1>8 DEF LetsGo
<1>10. ASSUME NEW n \in Temporaries, kills = 0, dir[n] # NoFile PROVE Lists(Unwound, Op("destroy", n))
  <2>1. st[n].on
    BY <1>1, <1>7, <1>10, FailingCall
  <2>2. n \in Names /\ Mapped(n)
    BY <1>3, <1>10, FinalsAre DEF Filed, FiledAt
  <2> QED
    BY <1>8, <2>1, <2>2 DEF LetsGo
<1>11. dir' = dir
  BY <1>1
<1>12. Retreats'
  BY <1>1, <1>8, <1>9, <1>10, <1>11 DEF Retreats
<1> QED
  BY <1>1, <1>4, <1>5, <1>8, <1>12 DEF StoragesInv

LEMMA KillStep ==
  ASSUME StoragesInv, Kill
  PROVE  StoragesInv'
<1>1. /\ phase \in {"running", "unwinding"} /\ phase' = "killed" /\ kills' = kills + 1 /\ todo' = <<>>
      /\ UNCHANGED <<options, gen, seen, dir>> /\ UNCHANGED matchVars /\ disk' = Alive(dir, st', seen)
  BY DEF Kill, matchVars
<1>2. DOMAIN st' = Names /\ \A n \in Names : st'[n] = Off
  BY DEF Kill
<1>3. Filed /\ kills \in Nat /\ Read
  BY DEF StoragesInv, Filed
<1>4. kills' \in Nat /\ kills' # 0
  BY <1>1, <1>3
<1>5. Filed' /\ Keeps
  BY <1>1, <1>2, <1>3, <1>4, LeavingStep
<1>6. Read'
  BY <1>1, <1>3, <1>5, ReadStays
<1>7. ASSUME NEW n \in Names PROVE IsOff(Preparation', n, View(n)')
  <2>1. Preparation'.kills = kills' /\ View(n)'.st = Off
    BY <1>2 DEF Preparation, View
  <2> QED
    BY <1>4, <2>1 DEF IsOff
<1>8. Rests' /\ todo' \in Seq(Calls)
  BY <1>1, <1>7 DEF Rests
<1> QED
  BY <1>1, <1>5, <1>6, <1>8 DEF StoragesInv

LEMMA StartStep ==
  ASSUME StoragesInv, StartPrepare
  PROVE  StoragesInv'
<1>1. /\ phase \notin {"running", "unwinding"} /\ phase' = "running" /\ todo' = Program /\ gen' = gen + 1
      /\ given' = given /\ format' = format /\ dir' = dir /\ disk' = disk /\ st' = st /\ kills' = kills
      /\ seen' = seen /\ pending' = pending /\ stage' = stage /\ UNCHANGED options
  BY DEF StartPrepare, options
<1>2. DOMAIN calm' = Matches /\ \A m \in Matches : calm'[m] = IF stage[m] = "opening" THEN 0 ELSE calm[m]
  BY DEF StartPrepare
<1>3. Filed /\ gen \in Nat /\ kills \in Nat /\ Read /\ Rests
  BY <1>1 DEF StoragesInv, Filed
<1>4. \A n : Mapped(n)' = Mapped(n) /\ (Used(Preparation, n)' <=> Used(Preparation, n))
  BY <1>1, OptionsStay, PreparationStays
<1>5. Filed'
  <2>1. ASSUME NEW n \in Names PROVE FiledAt(n)'
    BY <1>1, <1>3, <1>4 DEF Filed, FiledAt
  <2>2. gen' \in Nat /\ kills' \in Nat
    BY <1>1, <1>3
  <2> QED
    BY <1>1, <1>3, <2>1, <2>2 DEF Filed
<1>6. Read'
  <2>1. ASSUME NEW m \in Matches, calm'[m] # 0 PROVE Follows(m)'
    <3>1. stage[m] # "opening" /\ calm'[m] = calm[m] /\ calm[m] # 0 /\ calm[m] \in Nat
      BY <1>2, <1>3, <2>1 DEF Read
    <3>2. /\ calm[m] <= gen /\ stage[m] # "refused"
          /\ stage[m] = "running" => \A n \in Finals : Sees(m, n)
      BY <1>3, <3>1 DEF Read, Follows
    <3>3. calm[m] < gen + 1 /\ calm[m] <= gen + 1
      BY <1>3, <3>1, <3>2
    <3>4. ASSUME stage[m] = "running", NEW n \in Finals PROVE Sees(m, n)'
      <4>1. Sees(m, n)
        BY <3>2, <3>4
      <4>2. Mapped(n) => /\ seen[m][n].id \in DOMAIN disk'[n]
                         /\ disk'[n][seen[m][n].id].roots = disk[n][seen[m][n].id].roots
        BY <1>1, <4>1 DEF Sees
      <4> QED
        BY <1>1, <3>1, <4>1, <4>2, SeesStays
    <3> QED
      BY <1>1, <3>1, <3>2, <3>3, <3>4 DEF Follows
  <2>2. ASSUME NEW m \in Matches PROVE calm'[m] \in Nat
    BY <1>2, <1>3 DEF Read
  <2> QED
    BY <1>1, <1>2, <1>3, <2>1, <2>2 DEF Read
<1>7. PICK p : p = Preparation'
  OBVIOUS
<1>8. Agrees(p) /\ p.kills = kills
  <2>1. Preparation'.mapped = Preparation.mapped /\ Preparation'.osm = Preparation.osm
    BY <1>1, PreparationStays
  <2>2. Preparation'.kills = kills
    BY <1>1 DEF Preparation
  <2> QED
    BY <1>7, <2>1, <2>2, PreparationIs DEF Agrees
<1>9. Safe(p, AllOff, Program, Goal(p)) /\ Program \in Seq(Calls)
  BY <1>8, ProgramIsSafe
<1>10. AllOff \in Standings /\ \A n \in Names : AllOff[n] = "off"
  BY DEF AllOff, Standings, Conditions
<1>11. ASSUME NEW n \in Names PROVE Meets(p, n, AllOff[n], View(n)')
  <2>1. IsOff(Preparation, n, View(n)) /\ View(n)' = View(n)
    BY <1>1, <1>3 DEF Rests, View
  <2>2. IsOff(p, n, View(n)')
    BY <1>8, <2>1, PreparationIs DEF IsOff
  <2> QED
    BY <1>10, <2>2 DEF Meets
<1>12. ASSUME NEW n \in Temporaries PROVE AllOff[n] \in Passing
  BY <1>10, FinalsAre DEF Passing
<1>13. Stands(AllOff)'
  <2>1. AllOff' = AllOff
    BY DEF AllOff
  <2> QED
    BY <1>7, <1>11, <1>12, <2>1 DEF Stands
<1>14. Proceeds'
  BY <1>1, <1>7, <1>9, <1>10, <1>13 DEF Proceeds
<1> QED
  BY <1>1, <1>5, <1>6, <1>9, <1>14 DEF StoragesInv

-----------------------------------------------------------------------------
(* The match processes.                                                    *)

\* What a match process does leaves the preparation as it is.
LEMMA MatchStep ==
  ASSUME StoragesInv, UNCHANGED <<options, dir, processVars>>,
         disk' = disk \/ disk' = Alive(dir, st, seen'), Read'
  PROVE  StoragesInv'
<1>1. /\ UNCHANGED options /\ dir' = dir /\ st' = st /\ todo' = todo /\ phase' = phase /\ gen' = gen
      /\ kills' = kills /\ unsaved' = unsaved
  BY DEF processVars
<1>2. Filed
  BY DEF StoragesInv
<1>3. Preparation' = Preparation /\ given' = given /\ \A n : Mapped(n)' =
          Mapped(n) /\ (Used(Preparation, n)' <=> Used(Preparation, n))
  BY <1>1, OptionsStay, PreparationStays
<1>4. DOMAIN disk' = Names
  BY <1>2, AliveFiles DEF Filed
<1>5. ASSUME NEW n \in Names PROVE View(n)' = View(n)
  <2>1. ASSUME NEW i, i \in {dir[n], st[n].id} PROVE FileAt(disk', n, i) = FileAt(disk, n, i)
    <3>1. CASE disk' = disk
      BY <3>1
    <3>2. CASE disk' = Alive(dir, st, seen')
      BY <2>1, <3>2, AliveFiles
    <3> QED
      BY <3>1, <3>2
  <2> QED
    BY <1>1, <2>1 DEF View
<1>6. ASSUME NEW n \in Names PROVE FiledAt(n)'
  BY <1>1, <1>2, <1>3 DEF Filed, FiledAt
<1>7. Filed'
  BY <1>1, <1>2, <1>3, <1>4, <1>6 DEF Filed
<1>8. phase = "running" => Proceeds'
  <2>1. ASSUME phase = "running" PROVE Proceeds'
    <3>1. PICK s \in Standings : Stands(s) /\ Safe(Preparation, s, todo, Goal(Preparation))
      BY <2>1 DEF StoragesInv, Proceeds
    <3>2. Stands(s)'
      BY <1>3, <1>5, <3>1 DEF Stands
    <3> QED
      BY <1>1, <1>3, <3>1, <3>2 DEF Proceeds
  <2> QED
    BY <2>1
<1>9. phase = "unwinding" => Retreats'
  BY <1>1 DEF StoragesInv, Retreats
<1>10. phase \notin {"running", "unwinding"} => Rests'
  BY <1>3, <1>5 DEF StoragesInv, Rests
<1>11. phase = "ended" => Arrives'
  BY <1>3, <1>5 DEF StoragesInv, Arrives
<1> QED
  BY <1>1, <1>7, <1>8, <1>9, <1>10, <1>11 DEF StoragesInv

\* A match process keeps what it has when another one opens or closes its files.
LEMMA FollowsStays ==
  ASSUME NEW m \in Matches, Follows(m), UNCHANGED <<options, dir, processVars>>,
         disk' = disk \/ disk' = Alive(dir, st, seen'),
         seen'[m] = seen[m], pending'[m] = pending[m], stage'[m] = stage[m], calm'[m] = calm[m]
  PROVE  Follows(m)'
<1>1. UNCHANGED options /\ phase' = phase /\ gen' = gen /\ unsaved' = unsaved
  BY DEF processVars
<1>2. ASSUME NEW n \in Finals, Sees(m, n) PROVE Sees(m, n)'
  <2>1. Mapped(n) => /\ seen[m][n].id \in DOMAIN disk'[n]
                     /\ disk'[n][seen[m][n].id].roots = disk[n][seen[m][n].id].roots
    <3>1. Mapped(n) => seen[m][n].id \in DOMAIN disk[n]
      BY <1>2 DEF Sees
    <3>2. seen'[m][n].id = seen[m][n].id
      OBVIOUS
    <3>3. CASE disk' = disk
      BY <3>1, <3>3
    <3>4. CASE disk' = Alive(dir, st, seen')
      BY <3>1, <3>2, <3>4, AliveFiles
    <3> QED
      BY <3>3, <3>4
  <2> QED
    BY <1>1, <1>2, <2>1, SeesStays
<1>3. /\ calm[m] <= gen
      /\ phase \in {"running", "unwinding"} => calm[m] < gen
      /\ stage[m] # "refused"
      /\ stage[m] = "opening" => /\ phase = "ended" /\ calm[m] = gen /\ unsaved = {}
                                 /\ \A n \in Finals : Lists(pending[m], n) \/ Sees(m, n)
      /\ stage[m] = "running" => \A n \in Finals : Sees(m, n)
  BY DEF Follows
<1> QED
  BY <1>1, <1>2, <1>3 DEF Follows


\* A match process opens every file.
LEMMA OpenOrderIs ==
  ASSUME given \in GivenOptions
  PROVE  OpenOrder \in Seq(Finals) /\ \A n \in Finals : Lists(OpenOrder, n)
<1>0. ASSUME NEW n \in Finals PROVE Mapped(n) \in BOOLEAN
  <2>1. \A o \in DOMAIN given : given[o] \in BOOLEAN
    BY FilesAssumption
  <2>2. Given("mapping", TRUE) \in BOOLEAN
    BY <2>1 DEF Given
  <2>3. Given(n, Given("mapping", TRUE)) \in BOOLEAN
    BY <2>1, <2>2 DEF Given
  <2> QED
    BY <2>3 DEF Mapped
<1>1. ASSUME NEW n \in Finals
      PROVE  /\ If(n, TRUE) \in Seq(Finals) /\ If(n, FALSE) \in Seq(Finals)
             /\ Lists(If(n, TRUE), n) \/ Lists(If(n, FALSE), n)
  <2>1. <<n>> \in Seq(Finals) /\ <<>> \in Seq(Finals) /\ Lists(<<n>>, n)
    BY DEF Lists
  <2>2. Mapped(n) = TRUE \/ Mapped(n) = FALSE
    BY <1>0
  <2> QED
    BY <2>1, <2>2 DEF If
<1>2. \A a \in Seq(Finals) : \A b \in Seq(Finals) :
         a \o b \in Seq(Finals) /\ \A x : Lists(a, x) \/ Lists(b, x) => Lists(a \o b, x)
  BY ListsJoin
<1>3. "tags" \in Finals /\ "index" \in Finals /\ "graph" \in Finals /\ Finals = {"tags", "index", "graph"}
  BY DEF Finals
<1>4. PICK a \in Seq(Finals), b \in Seq(Finals), c \in Seq(Finals),
           d \in Seq(Finals), e \in Seq(Finals), f \in Seq(Finals) :
        /\ a = If("tags", TRUE) /\ b = If("index", TRUE) /\ c = If("graph", TRUE)
        /\ d = If("tags", FALSE) /\ e = If("index", FALSE) /\ f = If("graph", FALSE)
  BY <1>1, <1>3
<1>5. OpenOrder = ((((a \o b) \o c) \o d) \o e) \o f
  BY <1>4 DEF OpenOrder
<1>6. /\ a \o b \in Seq(Finals) /\ (a \o b) \o c \in Seq(Finals) /\ ((a \o b) \o c) \o d \in Seq(Finals)
      /\ (((a \o b) \o c) \o d) \o e \in Seq(Finals) /\ OpenOrder \in Seq(Finals)
  BY <1>2, <1>5
<1>7. \A x : \/ Lists(a, x) \/ Lists(b, x) \/ Lists(c, x) \/ Lists(d, x) \/ Lists(e, x) \/ Lists(f, x)
             => Lists(OpenOrder, x)
  BY <1>2, <1>5, <1>6
<1>8. \A n \in Finals : Lists(OpenOrder, n)
  BY <1>1, <1>3, <1>4, <1>7
<1> QED
  BY <1>6, <1>8

\* A file that a preparation has left is found whole by who opens it next.
LEMMA ArrivedIs ==
  ASSUME StoragesInv, phase = "ended", unsaved = {}, NEW n \in Finals
  PROVE  /\ Readable(n)
         /\ Mapped(n) => /\ dir[n] \in DOMAIN disk[n] /\ dir[n][1] = gen
                         /\ KeptOf(n, disk[n][dir[n]].roots) = Whole(n, gen)
         /\ ~Mapped(n) => KeptOf(n, Current(n).roots) = Whole(n, gen)
<1>1. n \in Names /\ Meets(Preparation, n, Goal(Preparation)[n], View(n))
  BY FinalsAre DEF StoragesInv, Arrives
<1>2. IsKept(Preparation, n, View(n))
  BY <1>1 DEF Goal, Meets
<1>3. /\ View(n).dir = dir[n] /\ View(n).entry = FileAt(disk, n, dir[n]) /\ Preparation.gen = gen
      /\ Preparation.unsaved = {} /\ (Maps(Preparation, n) <=> Mapped(n))
  BY <1>1, PreparationIs DEF View
<1>4. PICK f : f = FileAt(disk, n, dir[n])
  OBVIOUS
<1>5. f.form # "none" => dir[n] \in DOMAIN disk[n] /\ disk[n][dir[n]] = f
  BY <1>4, FileThere
<1>6. Kept(n) \subseteq Remains(n) /\ Kept(n) # {}
  BY FinalsAre, RootsAre DEF Remains
<1>7. \A roots, g : Kept(n) \subseteq roots => KeptOf(n, Fulls(roots, g)) = Whole(n, g)
  <2> SUFFICES ASSUME NEW roots, NEW g, Kept(n) \subseteq roots PROVE KeptOf(n, Fulls(roots, g)) = Whole(n, g)
    OBVIOUS
  <2>1. DOMAIN Fulls(roots, g) = roots /\ \A r \in roots : Fulls(roots, g)[r] = [of |-> g, full |-> TRUE]
    BY DEF Fulls
  <2>2. PICK x : x = Fulls(roots, g)
    OBVIOUS
  <2>3. Kept(n) \cap DOMAIN x = Kept(n) /\ \A r \in Kept(n) : x[r] = [of |-> g, full |-> TRUE]
    BY <2>1, <2>2
  <2>4. [r \in Kept(n) \cap DOMAIN x |-> x[r]] = [r \in Kept(n) |-> [of |-> g, full |-> TRUE]]
    BY <2>3
  <2> QED
    BY <2>2, <2>4 DEF KeptOf, Whole
<1>8. CASE Mapped(n)
  <2>1. IsShrunk(Preparation, n, View(n))
    BY <1>2, <1>3, <1>8 DEF IsKept
  <2>2. dir[n][1] = gen /\ dir[n] # NoFile /\ f = TrimFile(Fulls(Remains(n), gen))
    BY <1>3, <1>4, <2>1 DEF IsShrunk, Finished
  <2>3. f.form = "mapped" /\ f.info /\ f.roots = Fulls(Remains(n), gen)
    BY <2>2 DEF TrimFile
  <2>4. KeptOf(n, f.roots) = Whole(n, gen)
    BY <1>6, <1>7, <2>3
  <2> QED
    BY <1>5, <1>8, <2>2, <2>3, <2>4 DEF Readable, Mappable, Linked, Current
<1>9. CASE ~Mapped(n)
  <2>1. Dumped(Preparation, n, View(n), Fulls(Kept(n), gen))
    BY <1>2, <1>3, <1>9 DEF IsKept, Written
  <2>2. dir[n] # NoFile /\ f = DumpFile(Fulls(Kept(n), gen))
    BY <1>3, <1>4, <2>1 DEF Dumped
  <2>3. f.form = "dump" /\ f.roots = Fulls(Kept(n), gen)
    BY <2>2 DEF DumpFile
  <2>4. KeptOf(n, f.roots) = Whole(n, gen)
    BY <1>7, <2>3
  <2>5. f.roots # EmptyFunction
    <3>1. DOMAIN f.roots = Kept(n) /\ DOMAIN EmptyFunction = {}
      BY <2>3 DEF Fulls, EmptyFunction
    <3> QED
      BY <1>6, <3>1
  <2> QED
    BY <1>5, <1>9, <2>2, <2>3, <2>4, <2>5 DEF Readable, Loadable, Linked, Current
<1> QED
  BY <1>8, <1>9

\* All but one match process are left alone, and that one follows its preparation still.
LEMMA ReaderStep ==
  ASSUME StoragesInv, UNCHANGED <<options, dir, processVars>>,
         disk' = disk \/ disk' = Alive(dir, st, seen'), NEW m \in Matches,
         DOMAIN seen' = Matches, DOMAIN pending' = Matches, DOMAIN stage' = Matches, DOMAIN calm' = Matches,
         \A k \in Matches \ {m} : /\ seen'[k] = seen[k] /\ pending'[k] = pending[k]
                                  /\ stage'[k] = stage[k] /\ calm'[k] = calm[k],
         DOMAIN seen'[m] = Finals, pending'[m] \in Seq(Finals), calm'[m] \in Nat, calm'[m] # 0 => Follows(m)'
  PROVE  StoragesInv'
<1>1. /\ Read
      /\ \A k \in Matches : /\ DOMAIN seen[k] = Finals /\ pending[k] \in Seq(Finals) /\ calm[k] \in Nat
                            /\ calm[k] # 0 => Follows(k)
  BY DEF StoragesInv, Read
<1>2. ASSUME NEW k \in Matches \ {m}, calm'[k] # 0 PROVE Follows(k)'
  BY <1>1, <1>2, FollowsStays
<1>3. ASSUME NEW k \in Matches
      PROVE  /\ DOMAIN seen'[k] = Finals /\ pending'[k] \in Seq(Finals) /\ calm'[k] \in Nat
             /\ calm'[k] # 0 => Follows(k)'
  <2>1. CASE k = m
    BY <2>1
  <2>2. CASE k # m
    BY <1>1, <1>2, <2>2
  <2> QED
    BY <2>1, <2>2
<1>4. Read'
  BY <1>3 DEF Read
<1> QED
  BY <1>4, MatchStep

LEMMA StartMatchStep ==
  ASSUME StoragesInv, NEW m \in Matches, StartMatch(m)
  PROVE  StoragesInv'
<1>1. /\ UNCHANGED <<options, dir, processVars>> /\ disk' = disk /\ seen' = seen
      /\ UNCHANGED options /\ phase' = phase /\ gen' = gen /\ unsaved' = unsaved
  BY DEF StartMatch, processVars
<1>2. /\ DOMAIN seen = Matches /\ DOMAIN pending = Matches /\ DOMAIN stage = Matches /\ DOMAIN calm = Matches
      /\ DOMAIN seen[m] = Finals /\ gen \in Nat /\ given \in GivenOptions
  BY DEF StoragesInv, Read, Filed
<1>3. /\ stage' = [stage EXCEPT ![m] = "opening"]
      /\ pending' = [pending EXCEPT ![m] = OpenOrder]
      /\ calm' = [calm EXCEPT ![m] = IF phase = "ended" /\ unsaved = {} THEN gen ELSE 0]
  BY DEF StartMatch
<1>4. /\ DOMAIN pending' = Matches /\ DOMAIN stage' = Matches /\ DOMAIN calm' = Matches
      /\ \A k \in Matches \ {m} : pending'[k] = pending[k] /\ stage'[k] = stage[k] /\ calm'[k] = calm[k]
      /\ stage'[m] = "opening" /\ pending'[m] = OpenOrder
      /\ calm'[m] = IF phase = "ended" /\ unsaved = {} THEN gen ELSE 0
  BY <1>2, <1>3
<1>5. OpenOrder \in Seq(Finals) /\ \A n \in Finals : Lists(OpenOrder, n)
  BY <1>2, OpenOrderIs
<1>6. ASSUME calm'[m] # 0 PROVE Follows(m)'
  <2>1. phase = "ended" /\ unsaved = {} /\ calm'[m] = gen
    BY <1>4, <1>6
  <2>2. calm'[m] <= gen'
    BY <1>1, <1>2, <2>1
  <2>3. \A n \in Finals : Lists(pending'[m], n)
    BY <1>4, <1>5
  <2> QED
    BY <1>1, <1>4, <2>1, <2>2, <2>3 DEF Follows
<1>7. calm'[m] \in Nat
  BY <1>2, <1>4
<1> QED
  BY <1>1, <1>2, <1>4, <1>5, <1>6, <1>7, ReaderStep

\* The next file that a match process opens; none is refused while it is not disturbed.
LEMMA OpeningIs ==
  ASSUME StoragesInv, NEW m \in Matches, Opening(m), calm[m] # 0
  PROVE  /\ Follows(m) /\ phase = "ended" /\ calm[m] = gen /\ unsaved = {}
         /\ Head(pending[m]) \in Finals /\ Readable(Head(pending[m]))
<1>1. Follows(m) /\ stage[m] = "opening" /\ pending[m] # <<>> /\ pending[m] \in Seq(Finals)
  BY DEF StoragesInv, Read, Opening
<1>2. phase = "ended" /\ calm[m] = gen /\ unsaved = {}
  BY <1>1 DEF Follows
<1>3. Head(pending[m]) \in Finals
  BY <1>1
<1> QED
  BY <1>1, <1>2, <1>3, ArrivedIs

LEMMA OpenNextStep ==
  ASSUME StoragesInv, NEW m \in Matches, OpenNext(m)
  PROVE  StoragesInv'
<1>1. /\ UNCHANGED <<options, dir, processVars>> /\ disk' = disk /\ stage' = stage /\ calm' = calm
      /\ UNCHANGED options /\ phase' = phase /\ gen' = gen /\ unsaved' = unsaved /\ dir' = dir
      /\ Opening(m) /\ stage[m] = "opening" /\ pending[m] # <<>>
  BY DEF OpenNext, processVars, Opening
<1>2. /\ DOMAIN seen = Matches /\ DOMAIN pending = Matches /\ DOMAIN stage = Matches /\ DOMAIN calm = Matches
      /\ DOMAIN seen[m] = Finals /\ pending[m] \in Seq(Finals) /\ calm[m] \in Nat
  BY DEF StoragesInv, Read
<1>3. PICK n \in Finals : n = Head(pending[m])
  BY <1>1, <1>2
<1>4. PICK what : /\ Mapped(n) => what.id = dir[n]
                  /\ ~Mapped(n) => what.roots = Current(n).roots
                  /\ seen' = [seen EXCEPT ![m][n] = what]
  BY <1>3 DEF OpenNext
<1>5. pending' = [pending EXCEPT ![m] = Tail(@)]
  BY DEF OpenNext
<1>6. /\ DOMAIN seen' = Matches /\ DOMAIN pending' = Matches
      /\ \A k \in Matches \ {m} : seen'[k] = seen[k] /\ pending'[k] = pending[k]
      /\ DOMAIN seen'[m] = Finals /\ seen'[m][n] = what /\ \A k \in Finals \ {n} : seen'[m][k] = seen[m][k]
      /\ pending'[m] = Tail(pending[m])
  BY <1>2, <1>4, <1>5
<1>7. Tail(pending[m]) \in Seq(Finals)
  BY <1>1, <1>2
<1>8. ASSUME calm'[m] # 0 PROVE Follows(m)'
  <2>1. Follows(m) /\ phase = "ended" /\ calm[m] = gen /\ unsaved = {}
    BY <1>1, <1>8, OpeningIs
  <2>2. /\ Mapped(n) => /\ dir[n] \in DOMAIN disk[n] /\ dir[n][1] = gen
                        /\ KeptOf(n, disk[n][dir[n]].roots) = Whole(n, gen)
        /\ ~Mapped(n) => KeptOf(n, Current(n).roots) = Whole(n, gen)
    BY <2>1, ArrivedIs
  <2>3. Sees(m, n)'
    <3>1. Mapped(n)' = Mapped(n) /\ calm'[m] = gen
      BY <1>1, <2>1, OptionsStay
    <3>2. CASE Mapped(n)
      <4>1. seen'[m][n].id = dir[n] /\ disk'[n][seen'[m][n].id].roots = disk[n][dir[n]].roots
        BY <1>1, <1>4, <1>6, <3>2
      <4> QED
        BY <1>1, <2>2, <3>1, <3>2, <4>1 DEF Sees
    <3>3. CASE ~Mapped(n)
      <4>1. seen'[m][n].roots = Current(n).roots
        BY <1>4, <1>6, <3>3
      <4> QED
        BY <2>2, <3>1, <3>3, <4>1 DEF Sees
    <3> QED
      BY <3>2, <3>3
  <2>4. ASSUME NEW k \in Finals PROVE Lists(pending'[m], k) \/ Sees(m, k)'
    <3>1. CASE k = n
      BY <2>3, <3>1
    <3>2. CASE k # n
      <4>1. Lists(pending[m], k) \/ Sees(m, k)
        BY <1>1, <2>1 DEF Follows
      <4>2. CASE Lists(pending[m], k)
        BY <1>1, <1>2, <1>3, <1>6, <3>2, <4>2, TailLists
      <4>3. CASE Sees(m, k)
        <5>1. Mapped(k) => seen[m][k].id \in DOMAIN disk[k]
          BY <4>3 DEF Sees
        <5>2. Sees(m, k)'
          BY <1>1, <1>6, <3>2, <4>3, <5>1, SeesStays
        <5> QED
          BY <5>2
      <4> QED
        BY <4>1, <4>2, <4>3
    <3> QED
      BY <3>1, <3>2
  <2>5. calm'[m] <= gen' /\ stage'[m] = "opening" /\ phase' = "ended" /\ calm'[m] = gen' /\ unsaved' = {}
    BY <1>1, <2>1 DEF Follows
  <2> QED
    BY <2>4, <2>5 DEF Follows
<1> QED
  BY <1>1, <1>2, <1>6, <1>7, <1>8, ReaderStep

LEMMA ClosedIs ==
  DOMAIN Closed = Finals /\ <<>> \in Seq(Finals)
BY DEF Closed

LEMMA RefuseStep ==
  ASSUME StoragesInv, NEW m \in Matches, Refuse(m)
  PROVE  StoragesInv'
<1>1. /\ UNCHANGED <<options, dir, processVars>> /\ disk' = Alive(dir, st, seen') /\ calm' = calm
      /\ Opening(m) /\ ~Readable(Head(pending[m]))
      /\ stage' = [stage EXCEPT ![m] = "refused"]
      /\ pending' = [pending EXCEPT ![m] = <<>>]
      /\ seen' = [seen EXCEPT ![m] = Closed]
  BY DEF Refuse
<1>2. /\ DOMAIN seen = Matches /\ DOMAIN pending = Matches /\ DOMAIN stage = Matches /\ DOMAIN calm = Matches
      /\ calm[m] \in Nat
  BY DEF StoragesInv, Read
<1>3. calm[m] = 0
  BY <1>1, OpeningIs
<1>4. /\ DOMAIN seen' = Matches /\ DOMAIN pending' = Matches /\ DOMAIN stage' = Matches
      /\ \A k \in Matches \ {m} : seen'[k] = seen[k] /\ pending'[k] = pending[k] /\ stage'[k] = stage[k]
      /\ seen'[m] = Closed /\ pending'[m] = <<>>
  BY <1>1, <1>2
<1> QED
  BY <1>1, <1>2, <1>3, <1>4, ClosedIs, ReaderStep

LEMMA RunMatchStep ==
  ASSUME StoragesInv, NEW m \in Matches, RunMatch(m)
  PROVE  StoragesInv'
<1>1. /\ UNCHANGED <<options, dir, processVars>> /\ disk' = disk /\ calm' = calm /\ seen' = seen
      /\ pending' = pending /\ stage' = [stage EXCEPT ![m] = "running"]
      /\ stage[m] = "opening" /\ pending[m] = <<>>
      /\ UNCHANGED options /\ phase' = phase /\ gen' = gen /\ unsaved' = unsaved
  BY DEF RunMatch, processVars
<1>2. /\ DOMAIN seen = Matches /\ DOMAIN pending = Matches /\ DOMAIN stage = Matches /\ DOMAIN calm = Matches
      /\ DOMAIN seen[m] = Finals /\ pending[m] \in Seq(Finals) /\ calm[m] \in Nat
      /\ calm[m] # 0 => Follows(m)
  BY DEF StoragesInv, Read
<1>3. DOMAIN stage' = Matches /\ stage'[m] = "running" /\ \A k \in Matches \ {m} : stage'[k] = stage[k]
  BY <1>1, <1>2
<1>4. ASSUME calm'[m] # 0 PROVE Follows(m)'
  <2>1. /\ calm[m] <= gen /\ phase = "ended" /\ \A n \in Finals : Lists(pending[m], n) \/ Sees(m, n)
    BY <1>1, <1>2, <1>4 DEF Follows
  <2>2. \A n : ~Lists(pending[m], n)
    BY <1>1 DEF Lists
  <2>3. ASSUME NEW n \in Finals PROVE Sees(m, n)'
    <3>1. Sees(m, n)
      BY <2>1, <2>2
    <3>2. Mapped(n) => seen[m][n].id \in DOMAIN disk[n]
      BY <3>1 DEF Sees
    <3> QED
      BY <1>1, <3>1, <3>2, SeesStays
  <2> QED
    BY <1>1, <1>3, <2>1, <2>3 DEF Follows
<1> QED
  BY <1>1, <1>2, <1>3, <1>4, ReaderStep

LEMMA EndMatchStep ==
  ASSUME StoragesInv, NEW m \in Matches, EndMatch(m)
  PROVE  StoragesInv'
<1>0. stage' = [stage EXCEPT ![m] = "ended"] /\ seen' = [seen EXCEPT ![m] = Closed]
  BY DEF EndMatch
<1>1. calm' = calm /\ pending' = pending /\ phase' = phase /\ gen' = gen
  BY DEF EndMatch, processVars
<1>2. /\ DOMAIN seen = Matches /\ DOMAIN pending = Matches /\ DOMAIN stage = Matches /\ DOMAIN calm = Matches
      /\ pending[m] \in Seq(Finals) /\ calm[m] \in Nat
      /\ calm[m] # 0 => Follows(m)
  BY DEF StoragesInv, Read
<1>3. /\ DOMAIN stage' = Matches /\ stage'[m] = "ended" /\ DOMAIN seen' = Matches /\ seen'[m] = Closed
      /\ \A k \in Matches \ {m} : stage'[k] = stage[k] /\ seen'[k] = seen[k]
  BY <1>0, <1>2
<1>4. ASSUME calm'[m] # 0 PROVE Follows(m)'
  <2>0. Follows(m)
    BY <1>1, <1>2, <1>4
  <2>1. calm[m] <= gen /\ (phase \in {"running", "unwinding"} => calm[m] < gen)
    BY <2>0 DEF Follows
  <2> QED
    BY <1>1, <1>3, <2>1 DEF Follows
<1>5. /\ DOMAIN pending' = Matches /\ DOMAIN calm' = Matches /\ pending'[m] \in Seq(Finals) /\ calm'[m] \in Nat
      /\ \A k \in Matches \ {m} : pending'[k] = pending[k] /\ calm'[k] = calm[k]
  BY <1>1, <1>2
<1>6. UNCHANGED <<options, dir, processVars>> /\ (disk' = disk \/ disk' = Alive(dir, st, seen'))
  BY DEF EndMatch
<1> QED
  BY <1>3, <1>6, <1>4, <1>5, ClosedIs, ReaderStep

-----------------------------------------------------------------------------
(* The properties of the files.                                            *)

LEMMA StoragesStart ==
  ASSUME FilesInit
  PROVE  StoragesInv
<1>1. /\ given \in GivenOptions /\ dir = [n \in Names |-> NoFile] /\ disk = [n \in Names |-> EmptyFunction]
      /\ st = [n \in Names |-> Off] /\ todo = <<>> /\ phase = "none" /\ gen = 0 /\ kills = 0
      /\ seen = [m \in Matches |-> [n \in Finals |-> [id |-> NoFile, roots |-> EmptyFunction]]]
      /\ pending = [m \in Matches |-> <<>>]
      /\ stage = [m \in Matches |-> "idle"]
      /\ calm = [m \in Matches |-> 0]
  BY DEF FilesInit
<1>2. ASSUME NEW n \in Names PROVE FiledAt(n) /\ IsOff(Preparation, n, View(n))
  BY <1>1 DEF FiledAt, Off, IsOff, View
<1>3. gen \in Nat /\ kills \in Nat /\ DOMAIN st = Names /\ DOMAIN dir = Names /\ DOMAIN disk = Names
  BY <1>1
<1>4. Filed /\ Rests
  BY <1>1, <1>2, <1>3 DEF Filed, Rests
<1>5. PICK none : none = <<>> /\ none \in Seq(Calls) /\ none \in Seq(Finals)
  <2>1. <<>> \in Seq(Calls) /\ <<>> \in Seq(Finals)
    OBVIOUS
  <2> QED
    BY <2>1
<1>6. ASSUME NEW m \in Matches
      PROVE  DOMAIN seen[m] = Finals /\ pending[m] = none /\ calm[m] = 0
  BY <1>1, <1>5
<1>7. DOMAIN seen = Matches /\ DOMAIN pending = Matches /\ DOMAIN stage = Matches /\ DOMAIN calm = Matches
  BY <1>1
<1>8. Read
  <2>1. ASSUME NEW m \in Matches
        PROVE  /\ DOMAIN seen[m] = Finals /\ pending[m] \in Seq(Finals) /\ calm[m] \in Nat
               /\ calm[m] # 0 => Follows(m)
    <3>1. DOMAIN seen[m] = Finals /\ calm[m] = 0 /\ pending[m] = none
      BY <1>6
    <3> QED
      BY <1>5, <3>1
  <2> QED
    BY <1>7, <2>1 DEF Read
<1>9. phase \notin {"running", "unwinding", "ended"} /\ todo \in Seq(Calls)
  BY <1>1, <1>5
<1> QED
  BY <1>4, <1>8, <1>9 DEF StoragesInv

LEMMA StoragesStep ==
  ASSUME StoragesInv, [FilesNext]_filesVars
  PROVE  StoragesInv'
<1>1. ASSUME StartPrepare \/ EndPrepare \/ Fail \/ Kill PROVE StoragesInv'
  BY <1>1, StartStep, EndStep, FailStep, KillStep
<1> DEFINE Calls_ == \/ CheckOrExport \/ CloseFile \/ DestroyFile \/ CreateFile \/ WriteInfo
                     \/ Construct \/ Constructs \/ Fill \/ Grow \/ LargeEnough \/ DropGrow \/ OpenFile \/ Find
                     \/ FinalizeFile \/ BuildTree \/ TruncateFile \/ TruncateFails \/ WriteDump
                     \/ ShrinkFile \/ Release
<1>2. ASSUME Calls_ PROVE StoragesInv'
  <2>1. CASE phase = "running"
    BY <1>2, <2>1, RunningCalls
  <2>2. CASE phase = "unwinding"
    <3>1. ASSUME CloseFile \/ DestroyFile \/ ShrinkFile \/ Release PROVE StoragesInv'
      BY <2>2, <3>1, UnwindingCalls
    <3>2. \A ops : Running(ops) => ops \cap {"destroy", "close", "shrink", "release"} # {}
      BY <2>2, OnlyUnwinding
    <3>3. /\ ~Running({"check", "export"}) /\ ~Running({"create"}) /\ ~Running({"info"})
          /\ ~Running({"construct"}) /\ ~Running({"constructed"}) /\ ~Running({"fill"})
          /\ ~Running({"fill", "reserve"}) /\ ~Running({"reserve"})
          /\ ~Running({"fill", "points", "segments"}) /\ ~Running({"open"}) /\ ~Running({"find"})
          /\ ~Running({"finalize"}) /\ ~Running({"points", "segments"}) /\ ~Running({"truncate"})
          /\ ~Running({"write"})
      BY <3>2
    <3>4. /\ ~CheckOrExport /\ ~CreateFile /\ ~WriteInfo /\ ~Construct /\ ~Constructs /\ ~Fill /\ ~Grow
          /\ ~LargeEnough /\ ~DropGrow /\ ~OpenFile /\ ~Find /\ ~FinalizeFile /\ ~BuildTree
          /\ ~TruncateFile /\ ~TruncateFails /\ ~WriteDump
      <4>1. ~CheckOrExport /\ ~CreateFile /\ ~WriteInfo /\ ~Construct /\ ~Constructs /\ ~Fill
        BY <3>3 DEF CheckOrExport, CreateFile, WriteInfo, Construct, Constructs, Fill
      <4>2. ~Grow /\ ~LargeEnough /\ ~DropGrow /\ ~OpenFile /\ ~Find /\ ~FinalizeFile
        BY <3>3 DEF Grow, LargeEnough, DropGrow, OpenFile, Find, FinalizeFile
      <4>3. ~BuildTree /\ ~TruncateFile /\ ~TruncateFails /\ ~WriteDump
        BY <3>3 DEF BuildTree, TruncateFile, TruncateFails, WriteDump
      <4> QED
        BY <4>1, <4>2, <4>3
    <3> QED
      BY <1>2, <3>1, <3>4
  <2>3. CASE phase \notin {"running", "unwinding"}
    <3>1. \A ops : ~Running(ops)
      BY <2>3 DEF Running
    <3>2. /\ ~CheckOrExport /\ ~CreateFile /\ ~WriteInfo /\ ~Construct /\ ~Constructs /\ ~Fill
          /\ ~CloseFile /\ ~DestroyFile /\ ~ShrinkFile /\ ~Release
      BY <3>1 DEF CheckOrExport, CreateFile, WriteInfo, Construct, Constructs, Fill,
                  CloseFile, DestroyFile, ShrinkFile, Release
    <3>3. ~Grow /\ ~LargeEnough /\ ~DropGrow /\ ~OpenFile /\ ~Find /\ ~FinalizeFile
      BY <3>1 DEF Grow, LargeEnough, DropGrow, OpenFile, Find, FinalizeFile
    <3>4. ~BuildTree /\ ~TruncateFile /\ ~TruncateFails /\ ~WriteDump
      BY <3>1 DEF BuildTree, TruncateFile, TruncateFails, WriteDump
    <3> QED
      BY <1>2, <3>2, <3>3, <3>4
  <2> QED
    BY <2>1, <2>2, <2>3
<1>3. ASSUME NEW m \in Matches, StartMatch(m) \/ OpenNext(m) \/ Refuse(m) \/ RunMatch(m) \/ EndMatch(m)
      PROVE  StoragesInv'
  BY <1>3, StartMatchStep, OpenNextStep, RefuseStep, RunMatchStep, EndMatchStep
<1>4. ASSUME UNCHANGED filesVars PROVE StoragesInv'
  <2>1. UNCHANGED <<options, dir, processVars>> /\ UNCHANGED matchVars /\ disk' = disk
    BY <1>4 DEF filesVars
  <2>2. seen' = seen /\ pending' = pending /\ stage' = stage /\ calm' = calm
    BY <2>1 DEF matchVars
  <2>3. ASSUME NEW m \in Matches, Follows(m) PROVE Follows(m)'
    BY <2>1, <2>2, <2>3, FollowsStays
  <2>4. Read'
    BY <2>2, <2>3 DEF StoragesInv, Read
  <2> QED
    BY <2>1, <2>4, MatchStep
<1> HIDE DEF Calls_
<1>5. CASE FilesNext
  <2>1. \/ StartPrepare \/ EndPrepare \/ Fail \/ Kill
        \/ Calls_
        \/ \E m \in Matches : StartMatch(m) \/ OpenNext(m) \/ Refuse(m) \/ RunMatch(m) \/ EndMatch(m)
    BY <1>5 DEF FilesNext, Calls_
  <2> QED
    BY <1>1, <1>2, <1>3, <2>1
<1> QED
  BY <1>4, <1>5

\* Readers are not refused and see one preparation.
LEMMA ReadersHold ==
  ASSUME StoragesInv
  PROVE  ReadsOnePreparation
<1>1. ASSUME NEW m \in Matches, calm[m] # 0
      PROVE  /\ stage[m] # "refused"
             /\ stage[m] = "running" => \A n \in Finals : Sees(m, n)
  BY <1>1 DEF StoragesInv, Read, Follows
<1>2. ASSUME NEW m \in Matches, NEW n \in Finals, Sees(m, n)
      PROVE  KeptOf(n, IF Mapped(n) THEN disk[n][seen[m][n].id].roots ELSE seen[m][n].roots) = Whole(n, calm[m])
  <2>1. CASE Mapped(n)
    BY <1>2, <2>1 DEF Sees
  <2>2. CASE ~Mapped(n)
    BY <1>2, <2>2 DEF Sees
  <2> QED
    BY <2>1, <2>2
<1> QED
  BY <1>1, <1>2 DEF ReadsOnePreparation

LEMMA WholeHolds ==
  ASSUME StoragesInv
  PROVE  PreparedWhole
<1> SUFFICES ASSUME phase = "ended", NEW n \in Finals \ unsaved
             PROVE  /\ Linked(n)
                    /\ Current(n).roots = [r \in IF Mapped(n) /\ n = "graph" THEN Roots[n] ELSE Kept(n) |->
                                              [of |-> gen, full |-> TRUE]]
                    /\ Current(n).form = IF Mapped(n) THEN "mapped" ELSE "dump"
                    /\ ~Current(n).slack
  BY DEF PreparedWhole
<1>1. n \in Names /\ Meets(Preparation, n, Goal(Preparation)[n], View(n))
  BY FinalsAre DEF StoragesInv, Arrives
<1>2. IsKept(Preparation, n, View(n))
  BY <1>1 DEF Goal, Meets
<1>3. /\ View(n).dir = dir[n] /\ View(n).entry = FileAt(disk, n, dir[n]) /\ Preparation.gen = gen
      /\ Preparation.unsaved = unsaved /\ (Maps(Preparation, n) <=> Mapped(n))
  BY <1>1, PreparationIs DEF View
<1>4. PICK f : f = FileAt(disk, n, dir[n])
  OBVIOUS
<1>5. f.form # "none" => Current(n) = f
  BY <1>4, FileThere DEF Current
<1>6. CASE Mapped(n)
  <2>1. IsShrunk(Preparation, n, View(n))
    BY <1>2, <1>3, <1>6 DEF IsKept
  <2>2. dir[n] # NoFile /\ f = TrimFile(Fulls(Remains(n), gen))
    BY <1>3, <1>4, <2>1 DEF IsShrunk, Finished
  <2>3. f.form = "mapped" /\ ~f.slack /\ f.roots = Fulls(Remains(n), gen)
    BY <2>2 DEF TrimFile
  <2>4. Remains(n) = IF n = "graph" THEN Roots[n] ELSE Kept(n)
    BY FinalsAre, RootsAre DEF Remains
  <2>5. f.roots = [r \in IF n = "graph" THEN Roots[n] ELSE Kept(n) |-> [of |-> gen, full |-> TRUE]]
    BY <2>3, <2>4 DEF Fulls
  <2> QED
    BY <1>5, <1>6, <2>2, <2>3, <2>5 DEF Linked
<1>7. CASE ~Mapped(n)
  <2>1. Dumped(Preparation, n, View(n), Fulls(Kept(n), gen))
    BY <1>2, <1>3, <1>7 DEF IsKept, Written
  <2>2. dir[n] # NoFile /\ f = DumpFile(Fulls(Kept(n), gen))
    BY <1>3, <1>4, <2>1 DEF Dumped
  <2>3. f.form = "dump" /\ ~f.slack /\ f.roots = Fulls(Kept(n), gen)
    BY <2>2 DEF DumpFile
  <2>4. f.roots = [r \in Kept(n) |-> [of |-> gen, full |-> TRUE]]
    BY <2>3 DEF Fulls
  <2> QED
    BY <1>5, <1>7, <2>2, <2>3, <2>4 DEF Linked
<1> QED
  BY <1>6, <1>7

LEMMA NothingLeft ==
  ASSUME StoragesInv
  PROVE  NothingTemporaryLeft
<1> SUFFICES ASSUME phase = "ended" \/ (phase = "failed" /\ kills = 0), NEW n \in Temporaries
             PROVE  dir[n] = NoFile
  BY DEF NothingTemporaryLeft, Linked
<1>1. n \in Names /\ n \notin Finals /\ View(n).dir = dir[n] /\ Preparation.kills = kills
  BY FinalsAre DEF View, Preparation
<1>2. CASE phase = "ended" /\ Used(Preparation, n)
  <2>1. Meets(Preparation, n, "cleared", View(n))
    BY <1>1, <1>2 DEF StoragesInv, Arrives, Goal
  <2> QED
    BY <1>1, <2>1 DEF Meets
<1>3. CASE phase = "ended" /\ ~Used(Preparation, n)
  BY <1>1, <1>3 DEF StoragesInv, Filed, FiledAt
<1>4. CASE phase = "failed" /\ kills = 0
  BY <1>1, <1>4 DEF StoragesInv, Rests, IsOff
<1> QED
  BY <1>2, <1>3, <1>4

\* What a storage holds can be reached through its pointers.
Reached(n, roots) == \A r \in roots : st[n].ptr[r] = "valid" /\ r \in DOMAIN disk[n][st[n].id].roots

LEMMA ReachedIs ==
  ASSUME NEW n \in Names, NEW x, NEW roots, HasFile(Preparation, n, View(n), x),
         DOMAIN x = roots, PointersHave(n, View(n), roots)
  PROVE  Reached(n, roots)
<1>1. disk[n][st[n].id].roots = x
  BY HasFileIs
<1>2. View(n).st = st[n]
  BY DEF View
<1> QED
  BY <1>1, <1>2 DEF Reached, PointersHave

LEMMA FullReached ==
  ASSUME NEW n \in Names
  PROVE  /\ IsFull(Preparation, n, View(n)) => Reached(n, Roots[n])
         /\ IsFinal(Preparation, n, View(n)) => Reached(n, KeptTags)
         /\ n # "index" /\ IsNew(Preparation, n, View(n)) => Reached(n, Roots[n])
<1>1. \A roots, g : DOMAIN Fulls(roots, g) = roots /\ DOMAIN Blanks(roots, g) = roots
  BY DEF Fulls, Blanks
<1>2. ASSUME IsFull(Preparation, n, View(n)) PROVE Reached(n, Roots[n])
  BY <1>1, <1>2, ReachedIs DEF IsFull
<1>3. ASSUME IsFinal(Preparation, n, View(n)) PROVE Reached(n, KeptTags)
  BY <1>1, <1>3, ReachedIs DEF IsFinal
<1>4. ASSUME n # "index", IsNew(Preparation, n, View(n)) PROVE Reached(n, Roots[n])
  <2>1. /\ HasFile(Preparation, n, View(n), Blanks(Roots[n], Preparation.gen))
        /\ PointersAre(n, View(n), Roots[n], "valid")
    BY <1>4, RootsAre DEF IsNew
  <2>2. PointersHave(n, View(n), Roots[n])
    BY <2>1 DEF PointersAre, PointersHave
  <2> QED
    BY <1>1, <2>1, <2>2, ReachedIs
<1> QED
  BY <1>2, <1>3, <1>4

LEMMA NoneDangling ==
  ASSUME StoragesInv
  PROVE  NoDanglingRoot
<1> SUFFICES ASSUME phase = "running", todo # <<>>, NEW use \in Reads(Head(todo).op, Name)
             PROVE  /\ st[use[1]].ptr[use[2]] = "valid"
                    /\ use[2] \in DOMAIN disk[use[1]][st[use[1]].id].roots
  BY DEF NoDanglingRoot
<1>1. PICK s \in Standings : \E u \in Standings : Before(s, u)
  BY BeforeCall
<1>2. PICK u \in Standings : Before(s, u)
  BY <1>1
<1>3. PICK n, op : n = Name /\ op = Head(todo).op
  OBVIOUS
<1>4. /\ n \in Names /\ Moves(Preparation, n, s[n], op, u[n]) /\ Meets(Preparation, n, s[n], View(n))
      /\ op \in {"points", "segments"} => Meets(Preparation, "index_build", "full", View("index_build"))
      /\ op = "export" => /\ s["tags"] \in {"final", "saved"}
                          /\ Meets(Preparation, "tags", s["tags"], View("tags"))
  BY <1>2, <1>3, AtCall
<1>5. "index_build" \in Names /\ "tags" \in Names /\ "tags" \in Finals
  BY DEF Names, Temporaries, Finals
<1> SUFFICES \E k, roots : use[1] = k /\ use[2] \in roots /\ Reached(k, roots)
  BY DEF Reached
<1>6. use \in Reads(op, n)
  BY <1>3
<1>7. CASE op = "fill"
  <2>1. n # "index" /\ s[n] = "blank"
    BY <1>4, <1>7, FillMoves
  <2>2. Reached(n, Roots[n])
    BY <1>4, <2>1, FullReached DEF Meets, IsBlank
  <2>3. use[1] = n /\ use[2] \in Roots[n]
    BY <1>6, <1>7 DEF Reads
  <2> QED
    BY <2>2, <2>3
<1>8. CASE op = "finalize"
  <2>1. n = "tags" /\ s[n] = "full"
    BY <1>4, <1>8, FinalizeMoves
  <2>2. Reached("tags", Roots["tags"])
    BY <1>4, <2>1, FullReached DEF Meets
  <2>3. use[1] = "tags" /\ use[2] = "lookups"
    BY <1>6, <1>8 DEF Reads
  <2> QED
    BY <2>2, <2>3, RootsAre
<1>9. CASE op \in {"points", "segments"}
  <2>1. Reached("index_build", Roots["index_build"])
    BY <1>4, <1>5, <1>9, FullReached DEF Meets
  <2>2. use[1] = "index_build" /\ use[2] = op
    BY <1>6, <1>9 DEF Reads
  <2> QED
    BY <1>9, <2>1, <2>2, RootsAre
<1>10. CASE op = "write"
  <2>1. n \in Finals /\ s[n] = "truncated"
    BY <1>4, <1>10, WriteMoves
  <2>2. IsDone(Preparation, n, View(n))
    BY <1>4, <2>1 DEF Meets, IsTruncated
  <2>3. use[1] = n /\ use[2] \in Kept(n)
    BY <1>6, <1>10 DEF Reads
  <2>4. CASE n = "tags"
    <3>1. Reached(n, KeptTags)
      BY <1>4, <2>2, <2>4, FullReached DEF IsDone
    <3> QED
      BY <2>3, <2>4, <3>1, RootsAre
  <2>5. CASE n # "tags"
    <3>1. Reached(n, Roots[n])
      BY <1>4, <2>2, <2>5, FullReached DEF IsDone
    <3>2. Kept(n) \subseteq Roots[n]
      BY <2>1, <2>5, RootsAre DEF Finals
    <3> QED
      BY <2>3, <3>1, <3>2
  <2> QED
    BY <2>4, <2>5
<1>11. CASE op = "export"
  <2>1. n = "graph" /\ s[n] \in {"full", "saved"}
    BY <1>4, <1>11, ExportMoves
  <2>2. IsFull(Preparation, n, View(n))
    BY <1>4, <2>1 DEF Meets, IsSaved, IsDone
  <2>3. Reached("graph", Roots["graph"])
    BY <1>4, <2>1, <2>2, FullReached
  <2>4. IsFinal(Preparation, "tags", View("tags"))
    BY <1>4, <1>11 DEF Meets, IsSaved, IsDone
  <2>5. Reached("tags", KeptTags)
    BY <1>5, <2>4, FullReached
  <2>6. (use[1] = "graph" /\ use[2] = "graph") \/ (use[1] = "tags" /\ use[2] = "maps")
    BY <1>6, <1>11 DEF Reads
  <2> QED
    BY <2>3, <2>5, <2>6, RootsAre
<1>12. CASE op \notin {"fill", "finalize", "points", "segments", "write", "export"}
  BY <1>6, <1>12 DEF Reads
<1> QED
  BY <1>7, <1>8, <1>9, <1>10, <1>11, <1>12

\* The invariant of the files, whatever the options, the format and the number of match
\* processes are, and however often prepare is started, fails or is killed.
LEMMA StoragesAlways ==
  FilesSpec => []StoragesInv
<1>1. FilesInit => StoragesInv
  BY StoragesStart
<1>2. StoragesInv /\ [FilesNext]_filesVars => StoragesInv'
  BY StoragesStep
<1> QED
  BY <1>1, <1>2, PTL DEF FilesSpec

\* Match processes that are started when a preparation has ended are not refused, and read
\* that preparation as a whole until they end, also while later ones replace its files
\* (base_storage.hpp, destroy_and_create; network.hpp, save_network and load_network).
THEOREM ReadersSeeOnePreparation ==
  FilesSpec => []ReadsOnePreparation
<1>1. StoragesInv => ReadsOnePreparation
  BY ReadersHold
<1> QED
  BY <1>1, StoragesAlways, PTL

\* A preparation that ends well has written its three files as a whole and removed the
\* temporary ones, after growing, dropping and finalizing storages that left no pointer
\* dangling which a later call reads (base_storage.hpp, tag_storage.hpp, index_storage.hpp,
\* graph_storage.hpp, index_build_storage.hpp; prepare.hpp, _prepare).
THEOREM StoragesStaySound ==
  FilesSpec => []StoragesAreSound
<1>1. StoragesInv => StoragesAreSound
  BY WholeHolds, NothingLeft, NoneDangling DEF StoragesAreSound, PreparedClean
<1> QED
  BY <1>1, StoragesAlways, PTL
=============================================================================
