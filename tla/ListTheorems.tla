---------------------------- MODULE ListTheorems ----------------------------
(***************************************************************************)
(* Induction and recursion over numbers and lists, with sets in place of   *)
(* predicates and functions in place of operators, so that they can be     *)
(* used without instantiating an operator.                                 *)
(***************************************************************************)
EXTENDS Integers, Sequences, FiniteSets, FiniteSetTheorems, SequenceTheorems,
        WellFoundedInduction, TLAPS

\* A set of numbers that has 0 and the successor of each has all numbers.
LEMMA Induction ==
  ASSUME NEW T \in SUBSET Nat, 0 \in T, \A n \in T : n + 1 \in T
  PROVE  T = Nat
<1> SUFFICES ASSUME Nat \ T # {} PROVE FALSE
  OBVIOUS
<1>1. PICK n \in Nat \ T : \A m \in Nat \ T : ~(<<m, n>> \in OpToRel(<, Nat))
  BY NatLessThanWellFounded, WFMin
<1>2. n # 0 /\ n - 1 \in Nat /\ n - 1 < n /\ (n - 1) + 1 = n
  OBVIOUS
<1>3. n - 1 \in T
  <2> SUFFICES ASSUME n - 1 \notin T PROVE FALSE
    OBVIOUS
  <2>1. <<n - 1, n>> \in OpToRel(<, Nat)
    BY <1>2 DEF OpToRel
  <2> QED
    BY <1>1, <1>2, <2>1
<1> QED
  BY <1>2, <1>3

\* g takes N steps from base.
Steps(g, base, step, N) == g[0] = base /\ \A n \in 1..N : g[n] = step[<<n, g[n - 1]>>]

LEMMA Recursion ==
  ASSUME NEW S, NEW base \in S, NEW step \in [Nat \X S -> S], NEW N \in Nat
  PROVE  \E g \in [0..N -> S] : Steps(g, base, step, N)
<1> DEFINE Good(m, g) == /\ g \in [0..m -> S] /\ g[0] = base
                         /\ \A n \in 1..m : g[n] = step[<<n, g[n - 1]>>]
           T == {m \in Nat : \E g : Good(m, g)}
<1>1. 0 \in T
  <2>1. Good(0, [n \in 0..0 |-> base])
    OBVIOUS
  <2> QED
    BY <2>1
<1>2. ASSUME NEW m \in T PROVE m + 1 \in T
  <2>1. PICK g : Good(m, g)
    OBVIOUS
  <2> DEFINE h == [n \in 0..(m + 1) |-> IF n = m + 1 THEN step[<<m + 1, g[m]>>] ELSE g[n]]
  <2>2. m \in Nat /\ g[m] \in S /\ step[<<m + 1, g[m]>>] \in S /\ \A n \in 0..m : g[n] \in S
    BY <2>1
  <2>3. h \in [0..(m + 1) -> S] /\ h[0] = base
    BY <2>1, <2>2
  <2>4. ASSUME NEW n \in 1..(m + 1) PROVE h[n] = step[<<n, h[n - 1]>>]
    <3>1. n - 1 \in 0..m /\ h[n - 1] = g[n - 1]
      BY <2>2
    <3>2. CASE n = m + 1
      <4>1. n - 1 = m /\ n \in 0..(m + 1)
        BY <2>2, <3>2
      <4> QED
        BY <3>1, <3>2, <4>1
    <3>3. CASE n # m + 1
      BY <2>1, <2>2, <3>1, <3>3
    <3> QED
      BY <3>2, <3>3
  <2>5. Good(m + 1, h)
    BY <2>3, <2>4
  <2> HIDE DEF Good
  <2> QED
    BY <2>2, <2>5
<1>3. T = Nat
  <2> HIDE DEF T
  <2>1. T \in SUBSET Nat
    BY DEF T
  <2> QED
    BY <1>1, <1>2, <2>1, Induction
<1> QED
  BY <1>3 DEF Steps

\* The same over all numbers.
NatSteps(g, S, base, step) ==
    g \in [Nat -> S] /\ g[0] = base /\ \A n \in Nat : g[n + 1] = step[<<n + 1, g[n]>>]

LEMMA NatRecursion ==
  ASSUME NEW S, NEW base \in S, NEW step \in [Nat \X S -> S]
  PROVE  \E g : NatSteps(g, S, base, step)
<1> DEFINE Good(m, g) == g \in [0..m -> S] /\ Steps(g, base, step, m)
           some(m) == CHOOSE g : Good(m, g)
           f == [n \in Nat |-> some(n)[n]]
<1>1. ASSUME NEW m \in Nat PROVE Good(m, some(m))
  <2>1. \E g : Good(m, g)
    BY Recursion
  <2> HIDE DEF Good
  <2> QED
    BY <2>1
<1>2. ASSUME NEW m \in Nat, NEW g, NEW h, Good(m, g), Good(m + 1, h)
      PROVE  \A n \in 0..m : g[n] = h[n]
  <2> DEFINE T == {n \in Nat : n <= m => g[n] = h[n]}
  <2>1. 0 \in T
    BY <1>2 DEF Steps
  <2>2. ASSUME NEW n \in T PROVE n + 1 \in T
    <3> SUFFICES ASSUME n + 1 <= m PROVE g[n + 1] = h[n + 1]
      OBVIOUS
    <3>1. n + 1 \in 1..m /\ n + 1 \in 1..(m + 1) /\ (n + 1) - 1 = n /\ g[n] = h[n]
      OBVIOUS
    <3>2. g[n + 1] = step[<<n + 1, g[n]>>] /\ h[n + 1] = step[<<n + 1, h[n]>>]
      BY <1>2, <3>1 DEF Steps
    <3> QED
      BY <3>1, <3>2
  <2>3. T = Nat
    <3>1. T \in SUBSET Nat
      OBVIOUS
    <3> HIDE DEF T
    <3> QED
      BY <2>1, <2>2, <3>1, Induction
  <2> QED
    BY <2>3
<1>3. f \in [Nat -> S]
  <2>1. \A n \in Nat : some(n)[n] \in S
    <3> SUFFICES ASSUME NEW n \in Nat PROVE some(n)[n] \in S
      OBVIOUS
    <3> HIDE DEF some
    <3>1. some(n) \in [0..n -> S]
      BY <1>1
    <3>2. n \in 0..n
      OBVIOUS
    <3> QED
      BY <3>1, <3>2
  <2> HIDE DEF some
  <2> QED
    BY <2>1
<1>4. f[0] = base
  <2>1. Steps(some(0), base, step, 0)
    BY <1>1
  <2> HIDE DEF some
  <2> QED
    BY <2>1 DEF Steps
<1>5. ASSUME NEW n \in Nat PROVE f[n + 1] = step[<<n + 1, f[n]>>]
  <2>0. n + 1 \in Nat /\ n \in 0..n
    OBVIOUS
  <2> HIDE DEF some
  <2>1. Good(n, some(n)) /\ Good(n + 1, some(n + 1))
    <3> HIDE DEF Good
    <3> QED
      BY <1>1, <2>0
  <2>2. some(n)[n] = some(n + 1)[n]
    <3> HIDE DEF Good
    <3> QED
      BY <1>2, <2>0, <2>1
  <2>3. Steps(some(n + 1), base, step, n + 1) /\ n + 1 \in 1..(n + 1) /\ (n + 1) - 1 = n
    BY <2>1
  <2>4. some(n + 1)[n + 1] = step[<<n + 1, some(n + 1)[n]>>]
    BY <2>3 DEF Steps
  <2>5. f[n + 1] = some(n + 1)[n + 1] /\ f[n] = some(n)[n]
    BY <2>0
  <2> HIDE DEF f
  <2> QED
    BY <2>2, <2>4, <2>5
<1> HIDE DEF f
<1>6. NatSteps(f, S, base, step)
  BY <1>3, <1>4, <1>5 DEF NatSteps
<1> QED
  BY <1>6

\* Induction over lists, with a set in place of the predicate.
LEMMA ListInduction ==
  ASSUME NEW S, NEW T \in SUBSET Seq(S), <<>> \in T,
         \A s \in T, x \in S : Append(s, x) \in T
  PROVE  T = Seq(S)
<1> DEFINE U == {n \in Nat : \A s \in Seq(S) : Len(s) = n => s \in T}
<1>1. 0 \in U
  BY EmptySeq
<1>2. ASSUME NEW n \in U PROVE n + 1 \in U
  <2> SUFFICES ASSUME NEW s \in Seq(S), Len(s) = n + 1 PROVE s \in T
    OBVIOUS
  <2>1. s # <<>>
    BY EmptySeq
  <2>2. PICK f \in Seq(S), x \in S : s = Append(f, x)
    BY <2>1, SequenceEmptyOrAppend
  <2>3. Len(f) = n
    BY <2>2, AppendProperties, LenProperties
  <2> QED
    BY <2>2, <2>3
<1>3. U = Nat
  <2>1. U \in SUBSET Nat
    OBVIOUS
  <2> HIDE DEF U
  <2> QED
    BY <1>1, <1>2, <2>1, Induction
<1> QED
  BY <1>3, LenProperties

-----------------------------------------------------------------------------
(* Sums.                                                                   *)

SumOf(s) ==
    LET sum[n \in 0..Len(s)] == IF n = 0 THEN 0 ELSE sum[n - 1] + s[n]
    IN  sum[Len(s)]

\* r[n] is the sum of the first n elements of s.
Adds(r, s) ==
    /\ r \in [0..Len(s) -> Nat]
    /\ r[0] = 0
    /\ \A n \in 1..Len(s) : r[n] = r[n - 1] + s[n]
    /\ SumOf(s) = r[Len(s)]

\* The recursion in SumOf.
LEMMA SumUnfolds ==
  ASSUME NEW s \in Seq(Nat)
  PROVE  \E r : Adds(r, s)
<1> DEFINE N == Len(s)
           step == [x \in Nat \X Nat |-> IF x[1] \in 1..N THEN x[2] + s[x[1]] ELSE x[2]]
           F(g) == [n \in 0..Len(s) |-> IF n = 0 THEN 0 ELSE g[n - 1] + s[n]]
           rec == CHOOSE g : g = F(g)
<1>1. N \in Nat /\ (\A n \in 1..N : s[n] \in Nat) /\ 0 \in Nat
  BY LenProperties, ElementOfSeq
<1>2. step \in [Nat \X Nat -> Nat]
  <2>1. \A x \in Nat \X Nat : x[1] \in 1..N => x[2] + s[x[1]] \in Nat
    BY <1>1
  <2>2. \A x \in Nat \X Nat : (IF x[1] \in 1..N THEN x[2] + s[x[1]] ELSE x[2]) \in Nat
    BY <2>1
  <2> QED
    BY <2>2
<1>3. PICK g \in [0..N -> Nat] : Steps(g, 0, step, N)
  <2> HIDE DEF step, N
  <2> QED
    BY <1>1, <1>2, Recursion
<1>4. ASSUME NEW n \in 1..N PROVE g[n] = g[n - 1] + s[n]
  <2>1. n - 1 \in 0..N /\ n \in Nat
    BY <1>1
  <2>2. g[n - 1] \in Nat
    BY <1>3, <2>1
  <2>3. <<n, g[n - 1]>> \in Nat \X Nat
    BY <2>1, <2>2
  <2>4. step[<<n, g[n - 1]>>] = g[n - 1] + s[n]
    BY <2>3
  <2>5. g[n] = step[<<n, g[n - 1]>>]
    BY <1>3 DEF Steps
  <2> HIDE DEF step
  <2> QED
    BY <2>4, <2>5
<1>5. g = F(g)
  <2>1. ASSUME NEW n \in 0..N PROVE g[n] = F(g)[n]
    <3>1. n = 0 \/ (n # 0 /\ n \in 1..N)
      BY <1>1
    <3>2. F(g)[n] = IF n = 0 THEN 0 ELSE g[n - 1] + s[n]
      OBVIOUS
    <3>3. g[0] = 0
      BY <1>3 DEF Steps
    <3> HIDE DEF F
    <3> QED
      BY <1>4, <3>1, <3>2, <3>3
  <2>2. g = [n \in 0..N |-> g[n]]
    BY <1>3
  <2>3. F(g) = [n \in 0..N |-> F(g)[n]]
    OBVIOUS
  <2> HIDE DEF F
  <2> QED
    BY <2>1, <2>2, <2>3
<1>6. rec = F(rec)
  <2> HIDE DEF F
  <2> QED
    BY <1>5
<1>7. SumOf(s) = rec[N]
  BY DEF SumOf
<1> HIDE DEF rec
<1>8. \A n \in 0..N : rec[n] = IF n = 0 THEN 0 ELSE rec[n - 1] + s[n]
  BY <1>6
<1>9. rec[0] = 0 /\ \A n \in 1..N : rec[n] = rec[n - 1] + s[n]
  <2>1. 0 \in 0..N /\ \A n \in 1..N : n \in 0..N /\ n # 0
    BY <1>1
  <2> QED
    BY <1>8, <2>1
<1> DEFINE T == {m \in Nat : m \in 0..N => rec[m] \in Nat}
<1>10. 0 \in T
  BY <1>1, <1>9
<1>11. ASSUME NEW m \in T PROVE m + 1 \in T
  <2> SUFFICES ASSUME m + 1 \in 0..N PROVE rec[m + 1] \in Nat
    OBVIOUS
  <2>1. m \in 0..N /\ m + 1 \in 1..N /\ (m + 1) - 1 = m /\ rec[m] \in Nat
    BY <1>1
  <2>2. rec[m + 1] = rec[m] + s[m + 1]
    BY <1>9, <2>1
  <2>3. s[m + 1] \in Nat
    BY <1>1, <2>1
  <2> QED
    BY <2>1, <2>2, <2>3
<1>12. T = Nat
  <2>1. T \in SUBSET Nat
    OBVIOUS
  <2> HIDE DEF T
  <2> QED
    BY <1>10, <1>11, <2>1, Induction
<1>13. \A m \in 0..N : rec[m] \in Nat
  BY <1>1, <1>12
<1>14. rec \in [0..N -> Nat]
  <2>1. rec = [n \in 0..N |-> rec[n]]
    BY <1>6
  <2> QED
    BY <1>13, <2>1
<1> QED
  BY <1>7, <1>9, <1>14 DEF Adds

LEMMA SumIsNat ==
  ASSUME NEW s \in Seq(Nat)
  PROVE  SumOf(s) \in Nat /\ (Len(s) = 0 => SumOf(s) = 0)
<1>1. PICK r : Adds(r, s)
  BY SumUnfolds
<1>2. Len(s) \in Nat
  BY LenProperties
<1> QED
  BY <1>1, <1>2 DEF Adds

\* A sum of n + 1 numbers, from the sum of the first n.
LEMMA SumLonger ==
  ASSUME NEW n \in Nat, NEW f \in [1..(n + 1) -> Nat], NEW g \in [1..n -> Nat],
         \A k \in 1..n : g[k] = f[k]
  PROVE  SumOf(g) \in Nat /\ SumOf(f) = SumOf(g) + f[n + 1]
<1>1. /\ f \in Seq(Nat) /\ Len(f) = n + 1 /\ DOMAIN f = 1..(n + 1)
      /\ g \in Seq(Nat) /\ Len(g) = n /\ DOMAIN g = 1..n
  <2>1. f \in Seq(Nat) /\ g \in Seq(Nat) /\ DOMAIN f = 1..(n + 1) /\ DOMAIN g = 1..n
    BY SeqDef
  <2> QED
    BY <2>1, LenProperties
<1>2. PICK q : Adds(q, g)
  BY <1>1, SumUnfolds
<1>3. PICK r : Adds(r, f)
  BY <1>1, SumUnfolds
<1>4. /\ q \in [0..n -> Nat] /\ q[0] = 0 /\ SumOf(g) = q[n]
      /\ \A k \in 1..n : q[k] = q[k - 1] + g[k]
      /\ r \in [0..(n + 1) -> Nat] /\ r[0] = 0 /\ SumOf(f) = r[n + 1]
      /\ \A k \in 1..(n + 1) : r[k] = r[k - 1] + f[k]
  BY <1>1, <1>2, <1>3 DEF Adds
<1> DEFINE T == {k \in Nat : k <= n => r[k] = q[k]}
<1>5. 0 \in T
  BY <1>4
<1>6. ASSUME NEW k \in T PROVE k + 1 \in T
  <2> SUFFICES ASSUME k + 1 <= n PROVE r[k + 1] = q[k + 1]
    OBVIOUS
  <2>1. k + 1 \in 1..n /\ k + 1 \in 1..(n + 1) /\ (k + 1) - 1 = k /\ r[k] = q[k]
    OBVIOUS
  <2> QED
    BY <1>4, <2>1
<1>7. T = Nat
  <2>1. T \in SUBSET Nat
    OBVIOUS
  <2> HIDE DEF T
  <2> QED
    BY <1>5, <1>6, <2>1, Induction
<1>8. r[n] = q[n]
  BY <1>7
<1>9. n + 1 \in 1..(n + 1) /\ (n + 1) - 1 = n /\ n \in 0..n
  OBVIOUS
<1>10. r[n + 1] = r[n] + f[n + 1]
  BY <1>4, <1>9
<1> QED
  BY <1>4, <1>8, <1>9, <1>10

\* The sum of the first numbers is no larger than the sum of all.
LEMMA SumOfPart ==
  ASSUME NEW n \in Nat, NEW f \in [1..n -> Nat], NEW m \in 0..n
  PROVE  /\ SumOf([k \in 1..m |-> f[k]]) \in Nat /\ SumOf(f) \in Nat
         /\ SumOf([k \in 1..m |-> f[k]]) <= SumOf(f)
<1> DEFINE part(j) == [k \in 1..j |-> f[k]]
           T == {j \in Nat : m + j <= n => /\ SumOf(part(m + j)) \in Nat /\ SumOf(part(m)) \in Nat
                                            /\ SumOf(part(m)) <= SumOf(part(m + j))}
<1>1. ASSUME NEW j \in 0..n PROVE part(j) \in [1..j -> Nat] /\ SumOf(part(j)) \in Nat
  <2>1. part(j) \in [1..j -> Nat]
    OBVIOUS
  <2>2. part(j) \in Seq(Nat)
    BY <2>1, SeqDef
  <2> QED
    BY <2>1, <2>2, SumIsNat
<1>2. 0 \in T
  BY <1>1
<1>3. ASSUME NEW j \in T PROVE j + 1 \in T
  <2> SUFFICES ASSUME m + (j + 1) <= n
               PROVE  /\ SumOf(part(m + (j + 1))) \in Nat /\ SumOf(part(m)) \in Nat
                      /\ SumOf(part(m)) <= SumOf(part(m + (j + 1)))
    OBVIOUS
  <2>1. m + j \in 0..n /\ m + j <= n /\ m + (j + 1) = (m + j) + 1 /\ (m + j) + 1 \in 0..n /\ m + j \in Nat
    OBVIOUS
  <2>2. part((m + j) + 1)[(m + j) + 1] = f[(m + j) + 1] /\ f[(m + j) + 1] \in Nat
    BY <2>1
  <2>3. \A k \in 1..(m + j) : part(m + j)[k] = part((m + j) + 1)[k]
    BY <2>1
  <2>4. part((m + j) + 1) \in [1..((m + j) + 1) -> Nat] /\ part(m + j) \in [1..(m + j) -> Nat]
    BY <1>1, <2>1
  <2>5. SumOf(part(m)) <= SumOf(part(m + j)) /\ SumOf(part(m)) \in Nat /\ SumOf(part(m + j)) \in Nat
    BY <2>1
  <2> HIDE DEF part
  <2>6. SumOf(part((m + j) + 1)) = SumOf(part(m + j)) + f[(m + j) + 1]
    BY <2>1, <2>2, <2>3, <2>4, SumLonger
  <2> QED
    BY <2>1, <2>2, <2>5, <2>6
<1>4. T = Nat
  <2>1. T \in SUBSET Nat
    OBVIOUS
  <2> HIDE DEF T
  <2> QED
    BY <1>2, <1>3, <2>1, Induction
<1>5. n - m \in Nat /\ m + (n - m) = n
  OBVIOUS
<1>6. part(n) = f
  OBVIOUS
<1>7. n - m \in T
  <2> HIDE DEF T
  <2> QED
    BY <1>4, <1>5
<1> HIDE DEF part
<1>8. SumOf(part(n)) \in Nat /\ SumOf(part(m)) \in Nat /\ SumOf(part(m)) <= SumOf(part(n))
  BY <1>5, <1>7
<1> QED
  BY <1>6, <1>8 DEF part

=============================================================================
