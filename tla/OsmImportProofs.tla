-------------------------- MODULE OsmImportProofs --------------------------
(***************************************************************************)
(* Proofs about ImportStore and its helpers, and about OsmImport, for any  *)
(* tags, any ways and any number of retries.                               *)
(***************************************************************************)
EXTENDS OsmImport, AdjacencyListProofs

-----------------------------------------------------------------------------
(* The calls of retry_alloc.                                               *)

Points == {"begin", "map", "container", "id", "merge"}

\* How many calls of retry_alloc are active while the function that begins at
\* a point runs.
Depth(at) ==
    CASE at = "begin"            -> 1
      [] at \in {"map", "merge"} -> 2
      [] at = "container"        -> 3
      [] at = "id"               -> 4

Frames == [helper : Helpers, guarded : BOOLEAN, tries : Nat, at : Points,
           ref : {"none", "live", "stale"}]

Controls == [stack : Seq(Frames), critical : [Helpers -> BOOLEAN]]

\* The flag of a helper is up while a call of it is active; the outermost of
\* these, and no other, guards; no reference is stale; and each call is where
\* its depth says.
ControlOK(c) ==
    /\ c \in Controls
    /\ \A h \in Helpers : c.critical[h] <=> \E k \in DOMAIN c.stack : c.stack[k].helper = h
    /\ \A k \in DOMAIN c.stack :
          /\ c.stack[k].guarded <=>
                \A l \in DOMAIN c.stack : k < l => c.stack[l].helper # c.stack[k].helper
          /\ c.stack[k].ref # "stale"
          /\ Depth(c.stack[k].at) = Len(c.stack) - k + 1

PlaceOK ==
    /\ pc \in Points => Len(control.stack) = Depth(pc)
    /\ pc = "record" => Len(control.stack) = 2
    /\ pc \in {"add", "index"} => Len(control.stack) = 1
    /\ pc = "throw" => Len(control.stack) >= 1
    /\ pc \in {"idle", "returned", "gave up"} => Len(control.stack) = 0
    /\ pc \in Points \cup {"record", "add", "index", "throw", "idle", "returned", "gave up"}

CallsInv == ControlOK(control) /\ PlaceOK

-----------------------------------------------------------------------------
(* What one call more, one call less and a failed call do to the stack.    *)

LEMMA Pushed ==
  ASSUME NEW S, NEW seq \in Seq(S), NEW x \in S
  PROVE  /\ <<x>> \o seq \in Seq(S)
         /\ Len(seq) \in Nat /\ DOMAIN seq = 1..Len(seq)
         /\ DOMAIN (<<x>> \o seq) = 1..(Len(seq) + 1)
         /\ Len(<<x>> \o seq) = Len(seq) + 1
         /\ (<<x>> \o seq)[1] = x
         /\ \A k \in 1..Len(seq) : (<<x>> \o seq)[k + 1] = seq[k]
<1>1. <<x>> \in Seq(S) /\ Len(<<x>>) = 1 /\ <<x>>[1] = x
  OBVIOUS
<1>2. Len(seq) \in Nat /\ DOMAIN seq = 1..Len(seq)
  BY LenProperties
<1>3. /\ <<x>> \o seq \in Seq(S) /\ Len(<<x>> \o seq) = 1 + Len(seq)
      /\ DOMAIN (<<x>> \o seq) = 1..(1 + Len(seq))
      /\ \A k \in 1..(1 + Len(seq)) :
            (<<x>> \o seq)[k] = IF k <= 1 THEN <<x>>[k] ELSE seq[k - 1]
  BY <1>1, <1>2, ConcatProperties, LenProperties
<1> QED
  BY <1>1, <1>2, <1>3

LEMMA Popped ==
  ASSUME NEW S, NEW seq \in Seq(S), Len(seq) >= 1
  PROVE  /\ Tail(seq) \in Seq(S) /\ Head(seq) = seq[1] /\ Head(seq) \in S
         /\ Len(seq) \in Nat /\ DOMAIN seq = 1..Len(seq) /\ 1 \in DOMAIN seq
         /\ DOMAIN Tail(seq) = 1..(Len(seq) - 1)
         /\ Len(Tail(seq)) = Len(seq) - 1
         /\ \A k \in 1..(Len(seq) - 1) : Tail(seq)[k] = seq[k + 1]
<1>1. seq # <<>> /\ Len(seq) \in Nat /\ DOMAIN seq = 1..Len(seq)
  BY EmptySeq, LenProperties
<1> QED
  BY <1>1, HeadTailProperties

LEMMA EnterKeeps ==
  ASSUME NEW c, ControlOK(c), NEW h \in Helpers, NEW at \in Points,
         Depth(at) = Len(c.stack) + 1
  PROVE  ControlOK(Enter(c, h, at)) /\ Len(Enter(c, h, at).stack) = Len(c.stack) + 1
<1> DEFINE new == [helper |-> h, guarded |-> ~c.critical[h], tries |-> 0, at |-> at,
                   ref |-> "none"]
           d == Enter(c, h, at)
           s == c.stack
<1>1. c \in Controls /\ s \in Seq(Frames) /\ c.critical \in [Helpers -> BOOLEAN]
  BY DEF ControlOK, Controls
<1>2. new \in Frames
  BY <1>1 DEF Frames
<1>3. d = [stack |-> <<new>> \o s, critical |-> [c.critical EXCEPT ![h] = TRUE]]
  BY DEF Enter
<1>4. /\ d.stack \in Seq(Frames)
      /\ Len(s) \in Nat /\ DOMAIN s = 1..Len(s)
      /\ DOMAIN d.stack = 1..(Len(s) + 1)
      /\ Len(d.stack) = Len(s) + 1
      /\ d.stack[1] = new
      /\ \A k \in 1..Len(s) : d.stack[k + 1] = s[k]
  BY <1>1, <1>2, <1>3, Pushed
<1>5. d \in Controls
  BY <1>1, <1>3, <1>4 DEF Controls
<1>6. \A k \in DOMAIN d.stack : k = 1 \/ (k - 1 \in DOMAIN s /\ d.stack[k] = s[k - 1])
  <2> SUFFICES ASSUME NEW k \in 1..(Len(s) + 1), k # 1
               PROVE  k - 1 \in DOMAIN s /\ d.stack[k] = s[k - 1]
    BY <1>4
  <2>1. k - 1 \in 1..Len(s) /\ (k - 1) + 1 = k
    BY <1>4
  <2> QED
    BY <1>4, <2>1
<1>7. \A g \in Helpers : d.critical[g] <=> \E k \in DOMAIN d.stack : d.stack[k].helper = g
  <2>1. \A g \in Helpers : c.critical[g] <=> \E k \in DOMAIN s : s[k].helper = g
    BY DEF ControlOK
  <2>2. \A g \in Helpers : d.critical[g] <=> g = h \/ c.critical[g]
    BY <1>1, <1>3
  <2>3. \A g : (\E k \in DOMAIN d.stack : d.stack[k].helper = g)
                 <=> g = h \/ \E k \in DOMAIN s : s[k].helper = g
    <3>1. \A k \in DOMAIN s : k + 1 \in DOMAIN d.stack /\ d.stack[k + 1] = s[k]
      BY <1>4
    <3>2. 1 \in DOMAIN d.stack /\ d.stack[1].helper = h
      BY <1>4
    <3> HIDE DEF d, s, new
    <3> QED
      BY <1>6, <3>1, <3>2
  <2> QED
    BY <2>1, <2>2, <2>3
<1>8. ASSUME NEW k \in DOMAIN d.stack
      PROVE  /\ d.stack[k].guarded <=>
                   \A l \in DOMAIN d.stack : k < l => d.stack[l].helper # d.stack[k].helper
             /\ d.stack[k].ref # "stale"
             /\ Depth(d.stack[k].at) = Len(d.stack) - k + 1
  <2>1. CASE k = 1
    <3>1. d.stack[k].ref # "stale" /\ Depth(d.stack[k].at) = Len(d.stack) - k + 1
      BY <1>4, <2>1
    <3>2. (\A l \in DOMAIN d.stack : k < l => d.stack[l].helper # h)
            <=> \A l \in DOMAIN s : s[l].helper # h
      <4>1. \A l \in DOMAIN s : l + 1 \in DOMAIN d.stack /\ 1 < l + 1 /\ d.stack[l + 1] = s[l]
        BY <1>4
      <4> HIDE DEF d, s, new
      <4> QED
        BY <1>6, <2>1, <4>1
    <3>3. c.critical[h] <=> \E l \in DOMAIN s : s[l].helper = h
      BY DEF ControlOK
    <3>4. d.stack[k].guarded = ~c.critical[h] /\ d.stack[k].helper = h
      BY <1>4, <2>1
    <3> QED
      BY <3>1, <3>2, <3>3, <3>4
  <2>2. CASE k # 1
    <3>1. k - 1 \in DOMAIN s /\ d.stack[k] = s[k - 1]
      BY <1>6, <2>2
    <3>2. /\ s[k - 1].guarded <=>
               \A l \in DOMAIN s : k - 1 < l => s[l].helper # s[k - 1].helper
          /\ s[k - 1].ref # "stale"
          /\ Depth(s[k - 1].at) = Len(s) - (k - 1) + 1
      BY <3>1 DEF ControlOK
    <3>3. (\A l \in DOMAIN d.stack : k < l => d.stack[l].helper # d.stack[k].helper)
            <=> \A l \in DOMAIN s : k - 1 < l => s[l].helper # s[k - 1].helper
      <4>1. \A l \in DOMAIN s : /\ l + 1 \in DOMAIN d.stack /\ d.stack[l + 1] = s[l]
                                /\ k - 1 < l <=> k < l + 1
        BY <1>4, SMTT(30)
      <4>2. \A l \in DOMAIN d.stack : k < l =>
              l - 1 \in DOMAIN s /\ k - 1 < l - 1 /\ d.stack[l] = s[l - 1]
        BY <1>4, <1>6, SMTT(30)
      <4> HIDE DEF d, s, new
      <4> QED
        BY <3>1, <4>1, <4>2
    <3>4. Len(d.stack) - k + 1 = Len(s) - (k - 1) + 1
      BY <1>4, SMTT(30)
    <3> QED
      BY <3>1, <3>2, <3>3, <3>4
  <2> QED
    BY <2>1, <2>2
<1> HIDE DEF d, s, new
<1>9. ControlOK(d)
  BY <1>5, <1>7, <1>8 DEF ControlOK
<1> QED
  BY <1>4, <1>9 DEF d, s

LEMMA LeaveKeeps ==
  ASSUME NEW c, ControlOK(c), Len(c.stack) >= 1
  PROVE  ControlOK(Leave(c)) /\ Len(Leave(c).stack) = Len(c.stack) - 1
<1> DEFINE d == Leave(c)
           s == c.stack
           f == Head(c.stack)
<1>1. c \in Controls /\ s \in Seq(Frames) /\ c.critical \in [Helpers -> BOOLEAN]
  BY DEF ControlOK, Controls
<1>2. d = [stack |-> Tail(s), critical |-> [c.critical EXCEPT ![f.helper] = @ /\ ~f.guarded]]
  BY DEF Leave
<1>3. /\ d.stack \in Seq(Frames) /\ f = s[1] /\ f \in Frames
      /\ Len(s) \in Nat /\ DOMAIN s = 1..Len(s) /\ 1 \in DOMAIN s
      /\ DOMAIN d.stack = 1..(Len(s) - 1)
      /\ Len(d.stack) = Len(s) - 1
      /\ \A k \in 1..(Len(s) - 1) : d.stack[k] = s[k + 1]
  BY <1>1, <1>2, Popped
<1>4. f.helper \in Helpers /\ f.guarded \in BOOLEAN
  BY <1>3 DEF Frames
<1>5. d \in Controls
  BY <1>1, <1>2, <1>3, <1>4 DEF Controls
<1>6. \A k \in DOMAIN d.stack : k + 1 \in DOMAIN s /\ 1 < k + 1 /\ d.stack[k] = s[k + 1]
  BY <1>3
<1>7. \A k \in DOMAIN s : k = 1 \/ (1 < k /\ k - 1 \in DOMAIN d.stack /\ d.stack[k - 1] = s[k])
  <2> SUFFICES ASSUME NEW k \in 1..Len(s), k # 1
               PROVE  1 < k /\ k - 1 \in DOMAIN d.stack /\ d.stack[k - 1] = s[k]
    BY <1>3
  <2>1. k - 1 \in 1..(Len(s) - 1) /\ (k - 1) + 1 = k /\ 1 < k
    BY <1>3
  <2> QED
    BY <1>3, <2>1
<1>8. f.guarded <=> \A l \in DOMAIN s : 1 < l => s[l].helper # f.helper
  <2>1. s[1].guarded <=> \A l \in DOMAIN s : 1 < l => s[l].helper # s[1].helper
    <3>1. 1 \in DOMAIN s
      BY <1>3
    <3> QED
      BY <3>1 DEF ControlOK
  <2>2. f = s[1]
    BY <1>3
  <2> HIDE DEF f
  <2> QED
    BY <2>1, <2>2
<1>9. \A g \in Helpers : c.critical[g] <=> \E k \in DOMAIN s : s[k].helper = g
  BY DEF ControlOK
<1>10. ASSUME NEW g \in Helpers
       PROVE  d.critical[g] <=> \E k \in DOMAIN d.stack : d.stack[k].helper = g
  <2>1. (\E k \in DOMAIN d.stack : d.stack[k].helper = g)
          <=> \E l \in DOMAIN s : 1 < l /\ s[l].helper = g
    <3> HIDE DEF d, s, f
    <3>1. ASSUME NEW k \in DOMAIN d.stack, d.stack[k].helper = g
          PROVE  \E l \in DOMAIN s : 1 < l /\ s[l].helper = g
      BY <1>6, <3>1
    <3>2. ASSUME NEW l \in DOMAIN s, 1 < l, s[l].helper = g
          PROVE  \E k \in DOMAIN d.stack : d.stack[k].helper = g
      BY <1>7, <3>2
    <3> QED
      BY <3>1, <3>2
  <2>2. CASE g = f.helper
    <3>1. c.critical[g]
      BY <1>3, <1>9, <2>2
    <3>2. d.critical[g] = (c.critical[g] /\ ~f.guarded)
      BY <1>1, <1>2, <1>4, <2>2
    <3> HIDE DEF d, s, f
    <3> QED
      BY <1>8, <2>1, <2>2, <3>1, <3>2
  <2>3. CASE g # f.helper
    <3>1. d.critical[g] <=> c.critical[g]
      BY <1>1, <1>2, <2>3
    <3>2. \A k \in DOMAIN s : s[k].helper = g => 1 < k
      BY <1>3, <1>7, <2>3
    <3> QED
      BY <1>9, <2>1, <3>1, <3>2
  <2> QED
    BY <2>2, <2>3
<1>11. ASSUME NEW k \in DOMAIN d.stack
       PROVE  /\ d.stack[k].guarded <=>
                    \A l \in DOMAIN d.stack : k < l => d.stack[l].helper # d.stack[k].helper
              /\ d.stack[k].ref # "stale"
              /\ Depth(d.stack[k].at) = Len(d.stack) - k + 1
  <2>1. k + 1 \in DOMAIN s /\ d.stack[k] = s[k + 1]
    BY <1>6
  <2>2. /\ s[k + 1].guarded <=>
               \A l \in DOMAIN s : k + 1 < l => s[l].helper # s[k + 1].helper
        /\ s[k + 1].ref # "stale"
        /\ Depth(s[k + 1].at) = Len(s) - (k + 1) + 1
    BY <2>1 DEF ControlOK
  <2>3. (\A l \in DOMAIN d.stack : k < l => d.stack[l].helper # d.stack[k].helper)
          <=> \A l \in DOMAIN s : k + 1 < l => s[l].helper # s[k + 1].helper
    <3>1. \A l \in DOMAIN d.stack : /\ l + 1 \in DOMAIN s /\ d.stack[l] = s[l + 1]
                                    /\ k < l <=> k + 1 < l + 1
      BY <1>3, <1>6
    <3>2. \A l \in DOMAIN s : k + 1 < l =>
            l - 1 \in DOMAIN d.stack /\ k < l - 1 /\ d.stack[l - 1] = s[l]
      <4>1. k \in Nat /\ k >= 1 /\ DOMAIN s \subseteq Nat
        BY <1>3
      <4>2. \A l \in DOMAIN s : k + 1 < l => l # 1 /\ k < l - 1
        BY <4>1
      <4> HIDE DEF d, s, f
      <4> QED
        BY <1>7, <4>2
    <3> HIDE DEF d, s, f
    <3> QED
      BY <2>1, <3>1, <3>2
  <2>4. Len(d.stack) - k + 1 = Len(s) - (k + 1) + 1
    BY <1>3
  <2> QED
    BY <2>1, <2>2, <2>3, <2>4
<1> HIDE DEF d, s, f
<1>12. ControlOK(d)
  BY <1>5, <1>10, <1>11 DEF ControlOK
<1> QED
  BY <1>3, <1>12 DEF d, s

\* The innermost call changes what only it knows.
LEMMA HeadMayChange ==
  ASSUME NEW c, ControlOK(c), NEW s \in Seq(Frames), Len(c.stack) >= 1,
         Len(s) = Len(c.stack),
         s[1].helper = c.stack[1].helper, s[1].guarded = c.stack[1].guarded,
         s[1].at = c.stack[1].at, s[1].ref # "stale",
         \A k \in 2..Len(s) : s[k] = c.stack[k]
  PROVE  ControlOK([stack |-> s, critical |-> c.critical])
<1> DEFINE d == [stack |-> s, critical |-> c.critical]
<1>1. c \in Controls /\ c.stack \in Seq(Frames)
  BY DEF ControlOK, Controls
<1>2. DOMAIN s = DOMAIN c.stack /\ DOMAIN s = 1..Len(s) /\ Len(s) \in Nat
  BY <1>1, LenProperties
<1>3. \A k \in DOMAIN s : /\ s[k].helper = c.stack[k].helper
                          /\ s[k].guarded = c.stack[k].guarded
                          /\ s[k].at = c.stack[k].at
  BY <1>2
<1>4. \A k \in DOMAIN s : s[k].ref # "stale"
  BY <1>2 DEF ControlOK
<1>5. d \in Controls
  BY <1>1 DEF Controls
<1>6. \A h \in Helpers : c.critical[h] <=> \E k \in DOMAIN s : s[k].helper = h
  <2>1. \A h \in Helpers : c.critical[h] <=> \E k \in DOMAIN c.stack : c.stack[k].helper = h
    BY DEF ControlOK
  <2> QED
    BY <1>2, <1>3, <2>1
<1>7. ASSUME NEW k \in DOMAIN s
      PROVE  /\ s[k].guarded <=> \A l \in DOMAIN s : k < l => s[l].helper # s[k].helper
             /\ Depth(s[k].at) = Len(s) - k + 1
  <2>1. /\ c.stack[k].guarded <=>
              \A l \in DOMAIN c.stack : k < l => c.stack[l].helper # c.stack[k].helper
        /\ Depth(c.stack[k].at) = Len(c.stack) - k + 1
    BY <1>2 DEF ControlOK
  <2>2. s[k].guarded <=> c.stack[k].guarded
    BY <1>3
  <2>3. \A l \in DOMAIN s : s[l].helper = c.stack[l].helper
    BY <1>3
  <2>4. Depth(s[k].at) = Len(s) - k + 1
    BY <1>3, <2>1
  <2> QED
    BY <1>2, <2>1, <2>2, <2>3, <2>4
<1>8. d.stack = s /\ d.critical = c.critical
  OBVIOUS
<1> HIDE DEF d
<1>9. ControlOK(d)
  BY <1>4, <1>5, <1>6, <1>7, <1>8 DEF ControlOK
<1> QED
  BY <1>9 DEF d

LEMMA TakeRefKeeps ==
  ASSUME NEW c, ControlOK(c), Len(c.stack) >= 1
  PROVE  ControlOK(TakeRef(c)) /\ Len(TakeRef(c).stack) = Len(c.stack)
<1> DEFINE s == [c.stack EXCEPT ![1] = [c.stack[1] EXCEPT !.ref = "live"]]
<1>1. /\ c \in Controls /\ c.stack \in Seq(Frames) /\ c = [stack |-> c.stack, critical |-> c.critical]
      /\ Len(c.stack) \in Nat /\ 1 \in DOMAIN c.stack /\ DOMAIN c.stack = 1..Len(c.stack)
  BY Popped DEF ControlOK, Controls
<1>2. TakeRef(c) = [stack |-> s, critical |-> c.critical]
  <2>1. TakeRef(c) = [c EXCEPT !.stack = s]
    BY DEF TakeRef
  <2> HIDE DEF s
  <2>2. [c EXCEPT !.stack = s] = [stack |-> s, critical |-> c.critical]
    BY <1>1
  <2> QED
    BY <2>1, <2>2
<1>3. c.stack[1] \in Frames
  BY <1>1
<1>4. [c.stack[1] EXCEPT !.ref = "live"] \in Frames
  BY <1>3 DEF Frames
<1>5. s \in Seq(Frames) /\ Len(s) = Len(c.stack)
  BY <1>1, <1>4, ExceptSeq
<1>6. /\ s[1].helper = c.stack[1].helper /\ s[1].guarded = c.stack[1].guarded
      /\ s[1].at = c.stack[1].at /\ s[1].ref # "stale"
      /\ \A k \in 2..Len(s) : s[k] = c.stack[k]
  BY <1>1, <1>3, <1>5 DEF Frames
<1> HIDE DEF s
<1> QED
  BY <1>2, <1>5, <1>6, HeadMayChange

\* Where a call guards, no call below it is one of its helper, so that growing the file
\* hurts nobody.
LEMMA NothingIsRemapped ==
  ASSUME NEW c, ControlOK(c), Len(c.stack) >= 1, Head(c.stack).guarded
  PROVE  Remapped(Tail(c.stack), Head(c.stack).helper) = Tail(c.stack)
<1> DEFINE s == c.stack
           rest == Tail(c.stack)
           h == Head(c.stack).helper
<1>1. s \in Seq(Frames)
  BY DEF ControlOK, Controls
<1>2. /\ rest \in Seq(Frames) /\ Head(s) = s[1]
      /\ Len(s) \in Nat /\ DOMAIN s = 1..Len(s) /\ 1 \in DOMAIN s
      /\ DOMAIN rest = 1..(Len(s) - 1)
      /\ \A k \in 1..(Len(s) - 1) : rest[k] = s[k + 1]
  BY <1>1, Popped
<1>3. \A l \in DOMAIN s : 1 < l => s[l].helper # h
  <2>1. s[1].guarded <=> \A l \in DOMAIN s : 1 < l => s[l].helper # s[1].helper
    <3>1. 1 \in DOMAIN s
      BY <1>2
    <3> QED
      BY <3>1 DEF ControlOK
  <2>2. s[1].guarded /\ h = s[1].helper
    BY <1>2
  <2> HIDE DEF s, h
  <2> QED
    BY <2>1, <2>2
<1>4. \A k \in DOMAIN rest : rest[k].helper # h
  <2>1. \A k \in DOMAIN rest : k + 1 \in DOMAIN s /\ 1 < k + 1 /\ rest[k] = s[k + 1]
    BY <1>2
  <2> HIDE DEF s, rest, h
  <2> QED
    BY <1>3, <2>1
<1>5. rest = [k \in DOMAIN rest |-> rest[k]]
  BY <1>2
<1> HIDE DEF rest, h
<1>6. Remapped(rest, h) = [k \in DOMAIN rest |-> rest[k]]
  BY <1>4 DEF Remapped
<1> QED
  BY <1>5, <1>6 DEF rest, h

LEMMA AgainIsFrame ==
  ASSUME NEW f \in Frames
  PROVE  /\ [f EXCEPT !.tries = @ + 1, !.ref = "none"] \in Frames
         /\ [f EXCEPT !.tries = @ + 1, !.ref = "none"].helper = f.helper
         /\ [f EXCEPT !.tries = @ + 1, !.ref = "none"].guarded = f.guarded
         /\ [f EXCEPT !.tries = @ + 1, !.ref = "none"].at = f.at
         /\ [f EXCEPT !.tries = @ + 1, !.ref = "none"].ref = "none"
<1> DEFINE f1 == [f EXCEPT !.tries = f.tries + 1]
<1>1. f.tries + 1 \in Nat
  BY DEF Frames
<1>2. f1 \in Frames /\ f1.helper = f.helper /\ f1.guarded = f.guarded /\ f1.at = f.at
  BY <1>1 DEF Frames
<1>3. [f EXCEPT !.tries = @ + 1, !.ref = "none"] = [f1 EXCEPT !.ref = "none"]
  OBVIOUS
<1> HIDE DEF f1
<1>4. /\ [f1 EXCEPT !.ref = "none"] \in Frames
      /\ [f1 EXCEPT !.ref = "none"].helper = f1.helper
      /\ [f1 EXCEPT !.ref = "none"].guarded = f1.guarded
      /\ [f1 EXCEPT !.ref = "none"].at = f1.at
      /\ [f1 EXCEPT !.ref = "none"].ref = "none"
  BY <1>2 DEF Frames
<1> QED
  BY <1>2, <1>3, <1>4

LEMMA CaughtKeeps ==
  ASSUME NEW c, ControlOK(c), Len(c.stack) >= 1
  PROVE  /\ ControlOK(Caught(c))
         /\ \/ Len(Caught(c).stack) = Len(c.stack) - 1
            \/ Len(Caught(c).stack) = Len(c.stack)
<1> DEFINE s == c.stack
           f == Head(c.stack)
           f2 == [f EXCEPT !.tries = @ + 1, !.ref = "none"]
           again == <<f2>> \o Tail(c.stack)
<1>1. /\ s \in Seq(Frames) /\ c.critical \in [Helpers -> BOOLEAN]
      /\ c = [stack |-> s, critical |-> c.critical]
  BY DEF ControlOK, Controls
<1>2. /\ Tail(s) \in Seq(Frames) /\ f = s[1] /\ f \in Frames
      /\ Len(s) \in Nat
      /\ Len(Tail(s)) = Len(s) - 1
      /\ \A k \in 1..(Len(s) - 1) : Tail(s)[k] = s[k + 1]
  BY <1>1, Popped
<1>3. (IF f.guarded THEN Remapped(Tail(s), f.helper) ELSE Tail(s)) = Tail(s)
  BY NothingIsRemapped
<1>4. CASE f.guarded /\ f.tries + 1 <= Retries
  <2>1. Caught(c) = [stack |-> again, critical |-> c.critical]
    <3>1. Caught(c) = [c EXCEPT !.stack = again]
      BY <1>3, <1>4 DEF Caught
    <3> HIDE DEF again
    <3> QED
      BY <1>1, <3>1
  <2>2. f2 \in Frames /\ f2.helper = f.helper /\ f2.guarded = f.guarded /\ f2.at = f.at
        /\ f2.ref = "none"
    <3>1. f \in Frames
      BY <1>2
    <3> HIDE DEF f
    <3> QED
      BY <3>1, AgainIsFrame
  <2> HIDE DEF f2
  <2>3. /\ again \in Seq(Frames) /\ Len(again) = Len(s) /\ again[1] = f2
        /\ \A k \in 1..(Len(s) - 1) : again[k + 1] = Tail(s)[k]
    BY <1>2, <2>2, Pushed
  <2>4. \A k \in 2..Len(again) : again[k] = s[k]
    <3> SUFFICES ASSUME NEW k \in 2..Len(s) PROVE again[k] = s[k]
      BY <2>3
    <3>1. k - 1 \in 1..(Len(s) - 1) /\ (k - 1) + 1 = k
      BY <1>2
    <3> QED
      BY <1>2, <2>3, <3>1
  <2> HIDE DEF again
  <2>5. ControlOK([stack |-> again, critical |-> c.critical])
    BY <1>1, <1>2, <2>2, <2>3, <2>4, HeadMayChange
  <2> QED
    BY <2>1, <2>3, <2>5
<1>5. CASE ~(f.guarded /\ f.tries + 1 <= Retries)
  <2>1. Caught(c) = Leave(c)
    BY <1>3, <1>5 DEF Caught, Leave
  <2> QED
    BY <2>1, LeaveKeeps
<1> QED
  BY <1>4, <1>5

LEMMA CaughtStaysAt ==
  ASSUME NEW c, ControlOK(c), Len(c.stack) >= 1
  PROVE  Head(c.stack).at \in Points /\ Depth(Head(c.stack).at) = Len(c.stack)
<1>1. c.stack \in Seq(Frames)
  BY DEF ControlOK, Controls
<1>2. /\ Head(c.stack) = c.stack[1] /\ Head(c.stack) \in Frames
      /\ 1 \in DOMAIN c.stack /\ Len(c.stack) \in Nat
  BY <1>1, Popped
<1>3. Depth(c.stack[1].at) = Len(c.stack) - 1 + 1
  BY <1>2 DEF ControlOK
<1> QED
  BY <1>2, <1>3 DEF Frames

-----------------------------------------------------------------------------
(* The invariant.                                                          *)

LEMMA Depths ==
  /\ Depth("begin") = 1 /\ Depth("map") = 2 /\ Depth("merge") = 2
  /\ Depth("container") = 3 /\ Depth("id") = 4
  BY DEF Depth

LEMMA LenIsNat == \A c : ControlOK(c) => Len(c.stack) \in Nat
<1> SUFFICES ASSUME NEW c, ControlOK(c) PROVE Len(c.stack) \in Nat
  OBVIOUS
<1>1. c.stack \in Seq(Frames)
  BY DEF ControlOK, Controls
<1> QED
  BY <1>1, LenProperties

LEMMA EnterAt ==
  ASSUME NEW c, ControlOK(c)
  PROVE  /\ Len(c.stack) = 0 => /\ ControlOK(Enter(c, "graph", "begin"))
                                /\ Len(Enter(c, "graph", "begin").stack) = 1
         /\ Len(c.stack) = 1 => \A at \in {"map", "merge"} :
                                   /\ ControlOK(Enter(c, "tag", at))
                                   /\ Len(Enter(c, "tag", at).stack) = 2
         /\ Len(c.stack) = 2 => /\ ControlOK(Enter(c, "tag", "container"))
                                /\ Len(Enter(c, "tag", "container").stack) = 3
         /\ Len(c.stack) = 3 => /\ ControlOK(Enter(c, "tag", "id"))
                                /\ Len(Enter(c, "tag", "id").stack) = 4
<1>1. {"graph", "tag"} \subseteq Helpers /\ {"begin", "map", "container", "id", "merge"} \subseteq Points
  BY DEF Helpers, Points
<1>2. \A h \in Helpers : \A at \in Points : Depth(at) = Len(c.stack) + 1 =>
         ControlOK(Enter(c, h, at)) /\ Len(Enter(c, h, at).stack) = Len(c.stack) + 1
  BY EnterKeeps
<1>3. ASSUME Len(c.stack) = 0
      PROVE  /\ ControlOK(Enter(c, "graph", "begin"))
             /\ Len(Enter(c, "graph", "begin").stack) = 1
  <2>1. Depth("begin") = Len(c.stack) + 1 /\ Len(c.stack) + 1 = 1
    BY <1>3, Depths
  <2> QED
    BY <1>1, <1>2, <2>1
<1>4. ASSUME Len(c.stack) = 1, NEW at \in {"map", "merge"}
      PROVE  ControlOK(Enter(c, "tag", at)) /\ Len(Enter(c, "tag", at).stack) = 2
  <2>1. Depth(at) = Len(c.stack) + 1 /\ Len(c.stack) + 1 = 2
    BY <1>4, Depths
  <2> QED
    BY <1>1, <1>2, <2>1
<1>5. ASSUME Len(c.stack) = 2
      PROVE  /\ ControlOK(Enter(c, "tag", "container"))
             /\ Len(Enter(c, "tag", "container").stack) = 3
  <2>1. Depth("container") = Len(c.stack) + 1 /\ Len(c.stack) + 1 = 3
    BY <1>5, Depths
  <2> QED
    BY <1>1, <1>2, <2>1
<1>6. ASSUME Len(c.stack) = 3
      PROVE  /\ ControlOK(Enter(c, "tag", "id"))
             /\ Len(Enter(c, "tag", "id").stack) = 4
  <2>1. Depth("id") = Len(c.stack) + 1 /\ Len(c.stack) + 1 = 4
    BY <1>6, Depths
  <2> QED
    BY <1>1, <1>2, <2>1
<1> QED
  BY <1>3, <1>4, <1>5, <1>6

LEMMA LeaveAt ==
  ASSUME NEW c, ControlOK(c)
  PROVE  /\ Len(c.stack) = 1 => ControlOK(Leave(c)) /\ Len(Leave(c).stack) = 0
         /\ Len(c.stack) = 2 => ControlOK(Leave(c)) /\ Len(Leave(c).stack) = 1
         /\ Len(c.stack) = 3 => ControlOK(Leave(c)) /\ Len(Leave(c).stack) = 2
         /\ Len(c.stack) = 4 => ControlOK(Leave(c)) /\ Len(Leave(c).stack) = 3
<1>1. Len(c.stack) >= 1 => ControlOK(Leave(c)) /\ Len(Leave(c).stack) = Len(c.stack) - 1
  BY LeaveKeeps
<1>2. Len(c.stack) = 1 => ControlOK(Leave(c)) /\ Len(Leave(c).stack) = 0
  BY <1>1
<1>3. Len(c.stack) = 2 => ControlOK(Leave(c)) /\ Len(Leave(c).stack) = 1
  BY <1>1
<1>4. Len(c.stack) = 3 => ControlOK(Leave(c)) /\ Len(Leave(c).stack) = 2
  BY <1>1
<1>5. Len(c.stack) = 4 => ControlOK(Leave(c)) /\ Len(Leave(c).stack) = 3
  BY <1>1
<1> QED
  BY <1>2, <1>3, <1>4, <1>5

LEMMA TakeRefAt ==
  ASSUME NEW c, ControlOK(c)
  PROVE  /\ Len(c.stack) = 1 => ControlOK(TakeRef(c)) /\ Len(TakeRef(c).stack) = 1
         /\ Len(c.stack) = 2 => ControlOK(TakeRef(c)) /\ Len(TakeRef(c).stack) = 2
<1>1. Len(c.stack) >= 1 => ControlOK(TakeRef(c)) /\ Len(TakeRef(c).stack) = Len(c.stack)
  BY TakeRefKeeps
<1>2. Len(c.stack) = 1 => ControlOK(TakeRef(c)) /\ Len(TakeRef(c).stack) = 1
  BY <1>1
<1>3. Len(c.stack) = 2 => ControlOK(TakeRef(c)) /\ Len(TakeRef(c).stack) = 2
  BY <1>1
<1> QED
  BY <1>2, <1>3

LEMMA CallKeeps ==
  ASSUME CallsInv, NEW j, Call(j)
  PROVE  CallsInv'
<1>1. pc' = "begin" /\ control' = Enter(control, "graph", "begin") /\ Len(control.stack) = 0
  BY DEF Call, CallsInv, PlaceOK
<1>2. ControlOK(control') /\ Len(control'.stack) = 1
  BY <1>1, EnterAt DEF CallsInv
<1> QED
  BY <1>1, <1>2, Depths DEF CallsInv, PlaceOK, Points

\* A step of the helpers.  Each enters, leaves or fails at the depth of its point.
LEMMA StoreStepKeeps ==
  ASSUME CallsInv, StoreStep
  PROVE  CallsInv'
<1> USE DEF PlaceOK, Points
<1>0. ControlOK(control) /\ PlaceOK /\ Len(control.stack) \in Nat
  BY LenIsNat DEF CallsInv
<1>1. CASE Begin
  <2> DEFINE held == IF job.kind = "edge" THEN TakeRef(control) ELSE control
  <2>1. pc = "begin" /\ Len(control.stack) = 1
    BY <1>0, <1>1, Depths DEF Begin
  <2>2. ControlOK(held) /\ Len(held.stack) = 1
    BY <1>0, <2>1, TakeRefAt
  <2>3. \/ pc' = "merge" /\ control' = Enter(control, "tag", "merge")
        \/ pc' = "add" /\ control' = held
        \/ pc' = "map" /\ control' = Enter(held, "tag", "map")
    BY <1>1 DEF Begin
  <2> HIDE DEF held
  <2>4. CASE pc' = "merge" /\ control' = Enter(control, "tag", "merge")
    <3>1. ControlOK(control') /\ Len(control'.stack) = 2
      BY <1>0, <2>1, <2>4, EnterAt
    <3> QED
      BY <2>4, <3>1, Depths DEF CallsInv
  <2>5. CASE pc' = "add" /\ control' = held
    BY <2>2, <2>5 DEF CallsInv
  <2>6. CASE pc' = "map" /\ control' = Enter(held, "tag", "map")
    <3>1. ControlOK(control') /\ Len(control'.stack) = 2
      BY <2>2, <2>6, EnterAt
    <3> QED
      BY <2>6, <3>1, Depths DEF CallsInv
  <2> QED
    BY <2>3, <2>4, <2>5, <2>6
<1>2. CASE TakeMap
  <2> DEFINE held == IF job.kind = "vertex" THEN TakeRef(control) ELSE control
  <2>1. Len(control.stack) = 2
    BY <1>0, <1>2, Depths DEF TakeMap
  <2>2. ControlOK(held) /\ Len(held.stack) = 2
    BY <1>0, <2>1, TakeRefAt
  <2>3. pc' = "container" /\ control' = Enter(held, "tag", "container")
    BY <1>2 DEF TakeMap
  <2> HIDE DEF held
  <2>4. ControlOK(control') /\ Len(control'.stack) = 3
    BY <2>2, <2>3, EnterAt
  <2> QED
    BY <2>3, <2>4, Depths DEF CallsInv
<1>3. CASE Reserve
  <2>1. Len(control.stack) = 3 /\ pc' = "id" /\ control' = Enter(control, "tag", "id")
    BY <1>0, <1>3, Depths DEF Reserve
  <2>2. ControlOK(control') /\ Len(control'.stack) = 4
    BY <1>0, <2>1, EnterAt
  <2> QED
    BY <2>1, <2>2, Depths DEF CallsInv
<1>4. CASE Intern
  <2> DEFINE done == Leave(control)
  <2>1. Len(control.stack) = 4
    BY <1>0, <1>4, Depths DEF Intern
  <2>2. ControlOK(done) /\ Len(done.stack) = 3
    BY <1>0, <2>1, LeaveAt
  <2>3. \/ pc' = "id" /\ control' = Enter(done, "tag", "id")
        \/ pc' = "record" /\ control' = Leave(done)
    BY <1>4 DEF Intern
  <2> HIDE DEF done
  <2>4. CASE pc' = "id" /\ control' = Enter(done, "tag", "id")
    <3>1. ControlOK(control') /\ Len(control'.stack) = 4
      BY <2>2, <2>4, EnterAt
    <3> QED
      BY <2>4, <3>1, Depths DEF CallsInv
  <2>5. CASE pc' = "record" /\ control' = Leave(done)
    <3>1. ControlOK(control') /\ Len(control'.stack) = 2
      BY <2>2, <2>5, LeaveAt
    <3> QED
      BY <2>5, <3>1 DEF CallsInv
  <2> QED
    BY <2>3, <2>4, <2>5
<1>5. CASE Record
  <2>1. Len(control.stack) = 2 /\ pc' = "add" /\ control' = Leave(control)
    BY <1>0, <1>5 DEF Record
  <2>2. ControlOK(control') /\ Len(control'.stack) = 1
    BY <1>0, <2>1, LeaveAt
  <2> QED
    BY <2>1, <2>2 DEF CallsInv
<1>6. CASE StoreVertex
  <2>1. pc = "add" /\ pc' = "index" /\ control' = control
    BY <1>6 DEF StoreVertex
  <2> QED
    BY <1>0, <2>1 DEF CallsInv
<1>7. CASE StoreEdge \/ IndexVertex
  <2>1. Len(control.stack) = 1 /\ pc' = "returned" /\ control' = Leave(control)
    BY <1>0, <1>7 DEF StoreEdge, IndexVertex, Returns
  <2>2. ControlOK(control') /\ Len(control'.stack) = 0
    BY <1>0, <2>1, LeaveAt
  <2> QED
    BY <2>1, <2>2 DEF CallsInv
<1>8. CASE Merge
  <2>1. Len(control.stack) = 2 /\ pc' = "returned" /\ control' = Leave(Leave(control))
    BY <1>0, <1>8, Depths DEF Merge
  <2>2. ControlOK(Leave(control)) /\ Len(Leave(control).stack) = 1
    BY <1>0, <2>1, LeaveAt
  <2>3. ControlOK(control') /\ Len(control'.stack) = 0
    BY <2>1, <2>2, LeaveAt
  <2> QED
    BY <2>1, <2>3 DEF CallsInv
<1>9. CASE \/ ReserveFails \/ InternThrows \/ RecordFails \/ StoreVertexFails \/ StoreEdgeFails
           \/ IndexFails \/ MergeFails
  <2>1. /\ pc \in {"container", "id", "record", "add", "index", "merge"}
        /\ pc' = "throw" /\ control' = control
    BY <1>9 DEF ReserveFails, InternThrows, RecordFails, StoreVertexFails, StoreEdgeFails,
                IndexFails, MergeFails, Fails
  <2>2. Len(control.stack) \in {1, 2, 3, 4}
    BY <1>0, <2>1, Depths
  <2>3. Len(control.stack) >= 1
    BY <2>2
  <2> QED
    BY <1>0, <2>1, <2>3 DEF CallsInv
<1>10. CASE Unwind
  <2> DEFINE after == Caught(control)
             at == Head(control.stack).at
  <2>1. /\ control' = after
        /\ pc' = CASE Len(after.stack) = Len(control.stack) -> at
                   [] after.stack = <<>>                    -> "gave up"
                   [] OTHER                                 -> "throw"
        /\ Len(control.stack) >= 1
    BY <1>0, <1>10 DEF Unwind
  <2>2. /\ ControlOK(after) /\ Len(after.stack) \in Nat
        /\ at \in Points /\ Depth(at) = Len(control.stack)
    BY <1>0, <2>1, CaughtKeeps, CaughtStaysAt, LenIsNat
  <2>3. after.stack = <<>> <=> Len(after.stack) = 0
    <3>1. after.stack \in Seq(Frames)
      BY <2>2 DEF ControlOK, Controls
    <3> HIDE DEF after
    <3> QED
      BY <3>1, EmptySeq
  <2> HIDE DEF after, at
  <2>4. CASE Len(after.stack) = Len(control.stack)
    <3>0. after.stack # <<>>
      <4>1. Len(control.stack) >= 1
        BY <2>1
      <4>2. Len(control.stack) # 0
        BY <4>1
      <4> QED
        BY <2>3, <2>4, <4>2
    <3>1. pc' = at
      BY <2>1, <2>4, <3>0
    <3>2. Len(control'.stack) = Depth(at)
      BY <2>1, <2>2, <2>4
    <3>3. ControlOK(control')
      BY <2>1, <2>2
    <3> QED
      BY <2>2, <3>1, <3>2, <3>3 DEF CallsInv
  <2>5. CASE Len(after.stack) # Len(control.stack) /\ after.stack = <<>>
    BY <2>1, <2>2, <2>3, <2>5 DEF CallsInv
  <2>6. CASE Len(after.stack) # Len(control.stack) /\ after.stack # <<>>
    <3>1. pc' = "throw" /\ control' = after
      BY <2>1, <2>6
    <3>2. Len(after.stack) >= 1
      BY <2>2, <2>3, <2>6
    <3> QED
      BY <2>2, <3>1, <3>2 DEF CallsInv
  <2> QED
    BY <2>4, <2>5, <2>6
<1> QED
  BY <1>1, <1>2, <1>3, <1>4, <1>5, <1>6, <1>7, <1>8, <1>9, <1>10 DEF StoreStep

LEMMA NoneInEmpty ==
  ASSUME NEW S, NEW seq \in Seq(S), Len(seq) = 0, NEW k
  PROVE  k \notin DOMAIN seq
<1>1. DOMAIN seq = 1..0
  BY LenProperties
<1>2. \A l \in 1..0 : l >= 1 /\ l <= 0 /\ l \in Int
  OBVIOUS
<1>3. \A l \in Int : ~(l >= 1 /\ l <= 0)
  OBVIOUS
<1> QED
  BY <1>1, <1>2, <1>3

LEMMA CallsInit == ImportStoreInit => CallsInv
<1> SUFFICES ASSUME ImportStoreInit PROVE CallsInv
  OBVIOUS
<1>1. /\ control = [stack |-> <<>>, critical |-> [h \in Helpers |-> FALSE]]
      /\ pc = "idle"
  BY DEF ImportStoreInit
<1>2. <<>> \in Seq(Frames) /\ Len(<<>>) = 0 /\ DOMAIN <<>> = {}
  BY EmptySeq
<1>3. ControlOK(control)
  BY <1>1, <1>2 DEF ControlOK, Controls
<1> QED
  BY <1>1, <1>2, <1>3 DEF CallsInv, PlaceOK, Points

-----------------------------------------------------------------------------
(* The dictionaries.                                                       *)

TableOK(t) ==
    /\ IsFiniteSet(DOMAIN t.there)
    /\ Invertible(t)
    /\ \A id \in DOMAIN t.back : t.back[id] \in DOMAIN t.there /\ t.there[t.back[id]] = id

\* What could be read from table t can be read from table u.
Kept(t, u) == \A id \in DOMAIN t.back : id \in DOMAIN u.back /\ u.back[id] = t.back[id]

LEMMA EmptyTableOK == TableOK(EmptyTable)
<1>1. DOMAIN EmptyTable.there = {} /\ DOMAIN EmptyTable.back = {}
  BY DEF EmptyTable
<1>2. NextId(EmptyTable) = 0
  BY <1>1, FS_EmptySet DEF NextId
<1>3. 0..(0 - 1) = {}
  OBVIOUS
<1> QED
  BY <1>1, <1>2, <1>3, FS_EmptySet DEF TableOK, Invertible

LEMMA NextIdIsNew ==
  ASSUME NEW t, TableOK(t)
  PROVE  /\ NextId(t) \in Nat /\ NextId(t) \notin DOMAIN t.back
         /\ DOMAIN t.back \cup {NextId(t)} = 0..NextId(t)
<1>1. NextId(t) \in Nat /\ DOMAIN t.back = 0..(NextId(t) - 1)
  BY FS_CardinalityType DEF TableOK, Invertible, NextId
<1> QED
  BY <1>1

LEMMA EnteredOK ==
  ASSUME NEW t, TableOK(t), NEW x
  PROVE  /\ TableOK(Entered(t, x)) /\ Kept(t, Entered(t, x))
         /\ IdIn(t, x) \in DOMAIN Entered(t, x).back
         /\ Entered(t, x).back[IdIn(t, x)] = x
<1> DEFINE u == Entered(t, x)
           n == NextId(t)
<1>1. /\ u.there = Emplaced(t.there, x, IdIn(t, x))
      /\ u.back = Emplaced(t.back, IdIn(t, x), x)
  BY DEF Entered
<1>2. CASE x \in DOMAIN t.there
  <2>1. IdIn(t, x) = t.there[x] /\ t.there[x] \in DOMAIN t.back /\ t.back[t.there[x]] = x
    BY <1>2 DEF IdIn, TableOK, Invertible
  <2>2. /\ DOMAIN u.there = DOMAIN t.there /\ \A z \in DOMAIN t.there : u.there[z] = t.there[z]
        /\ DOMAIN u.back = DOMAIN t.back /\ \A z \in DOMAIN t.back : u.back[z] = t.back[z]
    BY <1>1, <1>2, <2>1 DEF Emplaced
  <2>3. NextId(u) = NextId(t)
    BY <2>2 DEF NextId
  <2> HIDE DEF u
  <2>4. TableOK(u)
    BY <2>2, <2>3 DEF TableOK, Invertible
  <2> QED
    BY <2>1, <2>2, <2>4 DEF Kept, u
<1>3. CASE x \notin DOMAIN t.there
  <2>1. IdIn(t, x) = n /\ n \in Nat /\ n \notin DOMAIN t.back /\ DOMAIN t.back \cup {n} = 0..n
    BY <1>3, NextIdIsNew DEF IdIn
  <2>2. /\ DOMAIN u.there = DOMAIN t.there \cup {x}
        /\ \A z \in DOMAIN t.there : u.there[z] = t.there[z]
        /\ u.there[x] = n
        /\ DOMAIN u.back = DOMAIN t.back \cup {n}
        /\ \A z \in DOMAIN t.back : u.back[z] = t.back[z]
        /\ u.back[n] = x
    BY <1>1, <1>3, <2>1 DEF Emplaced
  <2>3. IsFiniteSet(DOMAIN u.there) /\ Cardinality(DOMAIN u.there) = n + 1
    <3>1. IsFiniteSet(DOMAIN t.there) /\ Cardinality(DOMAIN t.there) = n
      BY DEF TableOK, NextId
    <3>2. /\ IsFiniteSet(DOMAIN t.there \cup {x})
          /\ Cardinality(DOMAIN t.there \cup {x}) = n + 1
      BY <1>3, <3>1, FS_AddElement
    <3> QED
      BY <2>2, <3>2
  <2>4. NextId(u) = n + 1 /\ (n + 1) - 1 = n
    BY <2>1, <2>3 DEF NextId
  <2> HIDE DEF u, n
  <2>5. \A z \in DOMAIN t.there : t.there[z] \in DOMAIN t.back /\ t.back[t.there[z]] = z
    BY DEF TableOK, Invertible
  <2>6. DOMAIN u.back = 0..(NextId(u) - 1)
    BY <2>1, <2>2, <2>4
  <2>7. \A z \in DOMAIN u.there : u.there[z] \in DOMAIN u.back /\ u.back[u.there[z]] = z
    BY <2>2, <2>5
  <2>8. \A id \in DOMAIN u.back : u.back[id] \in DOMAIN u.there /\ u.there[u.back[id]] = id
    BY <2>2 DEF TableOK
  <2>9. TableOK(u)
    BY <2>3, <2>6, <2>7, <2>8 DEF TableOK, Invertible
  <2> QED
    BY <2>1, <2>2, <2>9 DEF Kept, u
<1> QED
  BY <1>2, <1>3

LEMMA EnterFailsOK ==
  ASSUME NEW t, TableOK(t), NEW x, x \notin DOMAIN t.there, NEW done \in 0..1
  PROVE  TableOK(EnterFails(t, x, done)) /\ Kept(t, EnterFails(t, x, done))
<1> DEFINE u == EnterFails(t, x, done)
<1>1. NextId(t) \notin DOMAIN t.back
  BY NextIdIsNew
<1>2. /\ DOMAIN u.there = DOMAIN t.there /\ \A z \in DOMAIN t.there : u.there[z] = t.there[z]
      /\ DOMAIN u.back = DOMAIN t.back /\ \A z \in DOMAIN t.back : u.back[z] = t.back[z]
  BY <1>1 DEF EnterFails, Emplaced, Erase
<1>3. NextId(u) = NextId(t)
  BY <1>2 DEF NextId
<1> HIDE DEF u
<1>4. TableOK(u)
  BY <1>2, <1>3 DEF TableOK, Invertible
<1> QED
  BY <1>2, <1>4 DEF Kept, u

\* What a tag id stands for is a key and a value; what nodes and edges have are tag ids.
TablesOK(t) ==
    /\ t = [key |-> t.key, value |-> t.value, pair |-> t.pair,
            nodes |-> t.nodes, edges |-> t.edges]
    /\ TableOK(t.key) /\ TableOK(t.value) /\ TableOK(t.pair)
    /\ \A id \in DOMAIN t.pair.back :
          \E a \in DOMAIN t.key.back, b \in DOMAIN t.value.back : t.pair.back[id] = <<a, b>>
    /\ \A id \in DOMAIN t.nodes : t.nodes[id] \in Seq(DOMAIN t.pair.back)
    /\ \A id \in DOMAIN t.edges : t.edges[id] \in Seq(DOMAIN t.pair.back)

\* All tag ids that could be read from tables t can be read from tables u; and the tags of
\* nodes and edges are the same.
IdsKept(t, u) == Kept(t.key, u.key) /\ Kept(t.value, u.value) /\ Kept(t.pair, u.pair)
AllKept(t, u) == IdsKept(t, u) /\ u.nodes = t.nodes /\ u.edges = t.edges

LEMMA SequencesGrow ==
  ASSUME NEW S, NEW T, S \subseteq T, NEW s \in Seq(S)
  PROVE  s \in Seq(T)
<1>1. s \in [1..Len(s) -> S] /\ Len(s) \in Nat
  BY LenProperties, ElementOfSeq
<1>2. s \in [1..Len(s) -> T]
  BY <1>1
<1> QED
  BY <1>1, <1>2, SeqDef

LEMMA KeptOK ==
  ASSUME NEW t, TablesOK(t), NEW u, AllKept(t, u),
         u = [key |-> u.key, value |-> u.value, pair |-> u.pair,
              nodes |-> u.nodes, edges |-> u.edges],
         TableOK(u.key), TableOK(u.value), TableOK(u.pair),
         \A id \in DOMAIN u.pair.back :
            \/ id \in DOMAIN t.pair.back
            \/ \E a \in DOMAIN u.key.back, b \in DOMAIN u.value.back : u.pair.back[id] = <<a, b>>
  PROVE  TablesOK(u)
<1>1. ASSUME NEW id \in DOMAIN u.pair.back
      PROVE  \E a \in DOMAIN u.key.back, b \in DOMAIN u.value.back : u.pair.back[id] = <<a, b>>
  <2> SUFFICES ASSUME id \in DOMAIN t.pair.back
               PROVE  \E a \in DOMAIN u.key.back, b \in DOMAIN u.value.back :
                         u.pair.back[id] = <<a, b>>
    OBVIOUS
  <2>1. PICK a \in DOMAIN t.key.back, b \in DOMAIN t.value.back : t.pair.back[id] = <<a, b>>
    BY DEF TablesOK
  <2> QED
    BY <2>1 DEF AllKept, IdsKept, Kept
<1>2. DOMAIN t.pair.back \subseteq DOMAIN u.pair.back
  BY DEF AllKept, IdsKept, Kept
<1>3. \A id \in DOMAIN u.nodes : u.nodes[id] \in Seq(DOMAIN u.pair.back)
  <2> SUFFICES ASSUME NEW id \in DOMAIN t.nodes PROVE t.nodes[id] \in Seq(DOMAIN u.pair.back)
    BY DEF AllKept, IdsKept
  <2>1. t.nodes[id] \in Seq(DOMAIN t.pair.back)
    BY DEF TablesOK
  <2> QED
    BY <1>2, <2>1, SequencesGrow
<1>4. \A id \in DOMAIN u.edges : u.edges[id] \in Seq(DOMAIN u.pair.back)
  <2> SUFFICES ASSUME NEW id \in DOMAIN t.edges PROVE t.edges[id] \in Seq(DOMAIN u.pair.back)
    BY DEF AllKept, IdsKept
  <2>1. t.edges[id] \in Seq(DOMAIN t.pair.back)
    BY DEF TablesOK
  <2> QED
    BY <1>2, <2>1, SequencesGrow
<1> QED
  BY <1>1, <1>3, <1>4 DEF TablesOK

LEMMA KeptSame == ASSUME NEW t PROVE Kept(t, t)
  BY DEF Kept

\* id() makes a tag readable, under the id it returns, and keeps the others.
LEMMA InternedOK ==
  ASSUME NEW t, TablesOK(t), NEW tag
  PROVE  /\ TablesOK(Interned(t, tag)) /\ AllKept(t, Interned(t, tag))
         /\ LET u == Interned(t, tag)
                x == Entries(t, tag)
                id == IdIn(t.pair, x.pair)
            IN  /\ id \in DOMAIN u.pair.back
                /\ u.pair.back[id] = x.pair
                /\ x.pair[1] \in DOMAIN u.key.back /\ u.key.back[x.pair[1]] = tag[1]
                /\ x.pair[2] \in DOMAIN u.value.back /\ u.value.back[x.pair[2]] = tag[2]
<1> DEFINE u == Interned(t, tag)
           a == IdIn(t.key, tag[1])
           b == IdIn(t.value, tag[2])
<1>1. /\ t = [key |-> t.key, value |-> t.value, pair |-> t.pair,
              nodes |-> t.nodes, edges |-> t.edges]
      /\ TableOK(t.key) /\ TableOK(t.value) /\ TableOK(t.pair)
  BY DEF TablesOK
<1>2. u = [key |-> Entered(t.key, tag[1]), value |-> Entered(t.value, tag[2]),
           pair |-> Entered(t.pair, <<a, b>>), nodes |-> t.nodes, edges |-> t.edges]
  <2> DEFINE x == Entries(t, tag)
  <2>1. x.key = tag[1] /\ x.value = tag[2] /\ x.pair = <<a, b>>
    BY DEF Entries
  <2>2. u = [t EXCEPT !.key = Entered(@, x.key), !.value = Entered(@, x.value),
                      !.pair = Entered(@, x.pair)]
    BY DEF Interned
  <2> HIDE DEF x, u, a, b
  <2> QED
    BY <1>1, <2>1, <2>2
<1>3. /\ u.key = Entered(t.key, tag[1]) /\ u.value = Entered(t.value, tag[2])
      /\ u.pair = Entered(t.pair, <<a, b>>) /\ u.nodes = t.nodes /\ u.edges = t.edges
      /\ u = [key |-> u.key, value |-> u.value, pair |-> u.pair,
              nodes |-> u.nodes, edges |-> u.edges]
  BY <1>2
<1>4. Entries(t, tag).pair = <<a, b>>
  BY DEF Entries
<1> HIDE DEF u, a, b
<1>5. TableOK(u.key) /\ Kept(t.key, u.key) /\ a \in DOMAIN u.key.back /\ u.key.back[a] = tag[1]
  BY <1>1, <1>3, EnteredOK DEF a
<1>6. /\ TableOK(u.value) /\ Kept(t.value, u.value)
      /\ b \in DOMAIN u.value.back /\ u.value.back[b] = tag[2]
  BY <1>1, <1>3, EnteredOK DEF b
<1>7. /\ TableOK(u.pair) /\ Kept(t.pair, u.pair)
      /\ IdIn(t.pair, <<a, b>>) \in DOMAIN u.pair.back
      /\ u.pair.back[IdIn(t.pair, <<a, b>>)] = <<a, b>>
  BY <1>1, <1>3, EnteredOK
<1>8. AllKept(t, u)
  BY <1>3, <1>5, <1>6, <1>7 DEF AllKept, IdsKept
<1>9. ASSUME NEW id \in DOMAIN u.pair.back, id \notin DOMAIN t.pair.back
      PROVE  u.pair.back[id] = <<a, b>>
  <2>1. u.pair.back = Emplaced(t.pair.back, IdIn(t.pair, <<a, b>>), <<a, b>>)
    BY <1>3 DEF Entered
  <2>2. id = IdIn(t.pair, <<a, b>>)
    BY <1>9, <2>1 DEF Emplaced
  <2> QED
    BY <1>7, <2>2
<1>10. TablesOK(u)
  BY <1>3, <1>5, <1>6, <1>7, <1>8, <1>9, KeptOK
<1> QED
  BY <1>4, <1>5, <1>6, <1>7, <1>8, <1>10 DEF u

\* A failure of id() keeps what could be read.
LEMMA InternFailsOK ==
  ASSUME NEW t, TablesOK(t), NEW tag, NEW part \in {"key", "value", "pair"}, NEW done \in 0..1,
         Entries(t, tag)[part] \notin DOMAIN t[part].there
  PROVE  /\ TablesOK(InternFails(t, tag, part, done))
         /\ AllKept(t, InternFails(t, tag, part, done))
<1> DEFINE u == InternFails(t, tag, part, done)
           x == Entries(t, tag)
<1>1. /\ t = [key |-> t.key, value |-> t.value, pair |-> t.pair,
              nodes |-> t.nodes, edges |-> t.edges]
      /\ TableOK(t.key) /\ TableOK(t.value) /\ TableOK(t.pair)
  BY DEF TablesOK
<1>2. \A y : /\ TableOK(Entered(t.key, y)) /\ Kept(t.key, Entered(t.key, y))
             /\ TableOK(Entered(t.value, y)) /\ Kept(t.value, Entered(t.value, y))
  BY <1>1, EnteredOK
<1>3. Kept(t.key, t.key) /\ Kept(t.value, t.value) /\ Kept(t.pair, t.pair)
  BY KeptSame
<1> HIDE DEF x
<1>4. CASE part = "key"
  <2>1. u = [t EXCEPT !.key = EnterFails(@, x.key, done)]
    BY <1>4 DEF InternFails, x
  <2>2. u = [key |-> EnterFails(t.key, x.key, done), value |-> t.value, pair |-> t.pair,
             nodes |-> t.nodes, edges |-> t.edges]
    BY <1>1, <2>1
  <2> HIDE DEF u
  <2>3. TableOK(u.key) /\ Kept(t.key, u.key)
    BY <1>1, <1>4, <2>2, EnterFailsOK DEF x
  <2>4. AllKept(t, u) /\ u.pair = t.pair /\ u.value = t.value
    BY <1>3, <2>2, <2>3 DEF AllKept, IdsKept
  <2>5. u = [key |-> u.key, value |-> u.value, pair |-> u.pair,
             nodes |-> u.nodes, edges |-> u.edges]
    BY <2>2
  <2>6. TablesOK(u)
    BY <1>1, <2>3, <2>4, <2>5, KeptOK
  <2> QED
    BY <2>4, <2>6 DEF u
<1>5. CASE part = "value"
  <2>1. u = [t EXCEPT !.key = Entered(@, x.key), !.value = EnterFails(@, x.value, done)]
    BY <1>5 DEF InternFails, x
  <2>2. u = [key |-> Entered(t.key, x.key), value |-> EnterFails(t.value, x.value, done),
             pair |-> t.pair, nodes |-> t.nodes, edges |-> t.edges]
    BY <1>1, <2>1
  <2> HIDE DEF u
  <2>3. TableOK(u.value) /\ Kept(t.value, u.value)
    BY <1>1, <1>5, <2>2, EnterFailsOK DEF x
  <2>4. AllKept(t, u) /\ u.pair = t.pair /\ TableOK(u.key)
    BY <1>2, <1>3, <2>2, <2>3 DEF AllKept, IdsKept
  <2>5. u = [key |-> u.key, value |-> u.value, pair |-> u.pair,
             nodes |-> u.nodes, edges |-> u.edges]
    BY <2>2
  <2>6. TablesOK(u)
    BY <1>1, <2>3, <2>4, <2>5, KeptOK
  <2> QED
    BY <2>4, <2>6 DEF u
<1>6. CASE part = "pair"
  <2>1. u = [t EXCEPT !.key = Entered(@, x.key), !.value = Entered(@, x.value),
                      !.pair = EnterFails(@, x.pair, done)]
    BY <1>6 DEF InternFails, x
  <2>2. u = [key |-> Entered(t.key, x.key), value |-> Entered(t.value, x.value),
             pair |-> EnterFails(t.pair, x.pair, done), nodes |-> t.nodes, edges |-> t.edges]
    BY <1>1, <2>1
  <2> HIDE DEF u
  <2>3. x.pair \notin DOMAIN t.pair.there
    BY <1>6 DEF x
  <2>4. TableOK(u.pair) /\ Kept(t.pair, u.pair)
    BY <1>1, <2>2, <2>3, EnterFailsOK
  <2>5. DOMAIN u.pair.back = DOMAIN t.pair.back
    <3>1. NextId(t.pair) \notin DOMAIN t.pair.back
      BY <1>1, NextIdIsNew
    <3>2. u.pair = EnterFails(t.pair, x.pair, done)
      BY <2>2
    <3> QED
      BY <3>1, <3>2 DEF EnterFails, Erase
  <2>6. AllKept(t, u) /\ TableOK(u.key) /\ TableOK(u.value)
    BY <1>2, <1>3, <2>2, <2>4 DEF AllKept, IdsKept
  <2>7. u = [key |-> u.key, value |-> u.value, pair |-> u.pair,
             nodes |-> u.nodes, edges |-> u.edges]
    BY <2>2
  <2>8. TablesOK(u)
    BY <2>4, <2>5, <2>6, <2>7, KeptOK
  <2> QED
    BY <2>6, <2>8 DEF u
<1> QED
  BY <1>4, <1>5, <1>6

-----------------------------------------------------------------------------
(* The dictionaries under the steps of the helpers.                        *)

TagIds == DOMAIN tables.pair.back

TablesInv == TablesOK(tables) /\ got \in Seq(TagIds)

LEMMA EmplacedIs ==
  ASSUME NEW f, NEW x, NEW y
  PROVE  /\ DOMAIN Emplaced(f, x, y) = DOMAIN f \cup {x}
         /\ \A z \in DOMAIN f : Emplaced(f, x, y)[z] = f[z]
         /\ x \notin DOMAIN f => Emplaced(f, x, y)[x] = y
  BY DEF Emplaced

\* The lists of tag ids that merge_map_tags makes.
LEMMA MergedOK ==
  ASSUME NEW S, NEW map, \A id \in DOMAIN map : map[id] \in Seq(S), NEW id, NEW other
  PROVE  \A z \in DOMAIN Merged(map, id, other) : Merged(map, id, other)[z] \in Seq(S)
<1>1. CASE other \notin DOMAIN map
  BY <1>1 DEF Merged
<1>2. CASE other \in DOMAIN map
  <2> DEFINE own == OwnTags(map, id)
             rest == Without(map[other], Members(own))
             list == own \o rest
  <2>1. own \in Seq(S)
    BY EmptySeq DEF OwnTags
  <2>2. rest \in Seq(S)
    BY <1>2, WithoutKeeps
  <2>3. list \in Seq(S)
    <3> HIDE DEF own, rest
    <3> QED
      BY <2>1, <2>2, ConcatProperties
  <2>4. Merged(map, id, other) = Assigned(map, id, list)
    BY <1>2 DEF Merged
  <2> HIDE DEF list
  <2> DEFINE new == Assigned(map, id, list)
  <2>5. /\ DOMAIN new = DOMAIN map \cup {id}
        /\ \A z \in DOMAIN map : z # id => new[z] = map[z]
        /\ new[id] = list
    BY DEF Assigned
  <2> HIDE DEF new
  <2> QED
    BY <2>3, <2>4, <2>5 DEF new
<1> QED
  BY <1>1, <1>2

\* A step that keeps what can be read, and the tags collected so far.
LEMMA TablesKept ==
  ASSUME TablesInv, TablesOK(tables'), AllKept(tables, tables'), got' = got
  PROVE  TablesInv'
<1>1. TagIds \subseteq TagIds'
  BY DEF AllKept, IdsKept, Kept, TagIds
<1>2. got' \in Seq(TagIds')
  BY <1>1, SequencesGrow DEF TablesInv
<1> QED
  BY <1>2 DEF TablesInv

LEMMA TablesInit == ImportStoreInit => TablesInv
<1> SUFFICES ASSUME ImportStoreInit PROVE TablesInv
  OBVIOUS
<1>1. /\ tables = [key |-> EmptyTable, value |-> EmptyTable, pair |-> EmptyTable,
                   nodes |-> <<>>, edges |-> <<>>]
      /\ got = <<>>
  BY DEF ImportStoreInit
<1>2. TableOK(tables.key) /\ TableOK(tables.value) /\ TableOK(tables.pair)
  BY <1>1, EmptyTableOK
<1>3. DOMAIN tables.pair.back = {} /\ DOMAIN tables.nodes = {} /\ DOMAIN tables.edges = {}
  BY <1>1 DEF EmptyTable
<1>4. tables = [key |-> tables.key, value |-> tables.value, pair |-> tables.pair,
                nodes |-> tables.nodes, edges |-> tables.edges]
  BY <1>1
<1>5. TablesOK(tables)
  BY <1>2, <1>3, <1>4 DEF TablesOK
<1> QED
  BY <1>1, <1>5, EmptySeq DEF TablesInv

LEMMA RecordTables ==
  ASSUME TablesInv, Record
  PROVE  TablesInv'
<1> DEFINE map == IF job.kind = "vertex" THEN tables.nodes ELSE tables.edges
           new == Emplaced(map, job.id, got)
<1>1. /\ tables = [key |-> tables.key, value |-> tables.value, pair |-> tables.pair,
                   nodes |-> tables.nodes, edges |-> tables.edges]
      /\ TablesOK(tables) /\ got \in Seq(TagIds) /\ got' = got
  BY DEF TablesInv, TablesOK, Record
<1>2. tables' = IF job.kind = "vertex"
                THEN [tables EXCEPT !.nodes = new] ELSE [tables EXCEPT !.edges = new]
  BY DEF Record
<1>3. \A z \in DOMAIN map : map[z] \in Seq(TagIds)
  BY <1>1 DEF TablesOK, TagIds
<1>4. \A z \in DOMAIN new : new[z] \in Seq(TagIds)
  <2> HIDE DEF map
  <2>1. /\ DOMAIN new = DOMAIN map \cup {job.id}
        /\ \A z \in DOMAIN map : new[z] = map[z]
        /\ job.id \notin DOMAIN map => new[job.id] = got
    BY EmplacedIs
  <2> HIDE DEF new
  <2> QED
    BY <1>1, <1>3, <2>1
<1> HIDE DEF map, new
<1>5. /\ tables'.key = tables.key /\ tables'.value = tables.value /\ tables'.pair = tables.pair
      /\ tables'.nodes \in {tables.nodes, new} /\ tables'.edges \in {tables.edges, new}
      /\ tables' = [key |-> tables'.key, value |-> tables'.value, pair |-> tables'.pair,
                    nodes |-> tables'.nodes, edges |-> tables'.edges]
  BY <1>1, <1>2
<1>6. TagIds' = TagIds
  BY <1>5 DEF TagIds
<1>7. TablesOK(tables')
  BY <1>1, <1>4, <1>5 DEF TablesOK, TagIds
<1> QED
  BY <1>1, <1>6, <1>7 DEF TablesInv

LEMMA MergeTables ==
  ASSUME TablesInv, Merge
  PROVE  TablesInv'
<1> DEFINE new == Merged(tables.edges, job.id, job.other)
<1>1. /\ tables = [key |-> tables.key, value |-> tables.value, pair |-> tables.pair,
                   nodes |-> tables.nodes, edges |-> tables.edges]
      /\ TablesOK(tables) /\ got \in Seq(TagIds) /\ got' = got
  BY DEF TablesInv, TablesOK, Merge
<1>2. tables' = [tables EXCEPT !.edges = new]
  BY DEF Merge
<1>3. \A z \in DOMAIN new : new[z] \in Seq(TagIds)
  <2>1. \A z \in DOMAIN tables.edges : tables.edges[z] \in Seq(TagIds)
    BY <1>1 DEF TablesOK, TagIds
  <2> QED
    BY <2>1, MergedOK
<1> HIDE DEF new
<1>4. /\ tables'.key = tables.key /\ tables'.value = tables.value /\ tables'.pair = tables.pair
      /\ tables'.nodes = tables.nodes /\ tables'.edges = new
      /\ tables' = [key |-> tables'.key, value |-> tables'.value, pair |-> tables'.pair,
                    nodes |-> tables'.nodes, edges |-> tables'.edges]
  BY <1>1, <1>2
<1>5. TagIds' = TagIds
  BY <1>4 DEF TagIds
<1>6. TablesOK(tables')
  BY <1>1, <1>3, <1>4 DEF TablesOK, TagIds
<1> QED
  BY <1>1, <1>5, <1>6 DEF TablesInv

LEMMA TablesSame ==
  ASSUME TablesInv, tables' = tables, got' = got
  PROVE  TablesInv'
  BY DEF TablesInv, TagIds

LEMMA InternTables ==
  ASSUME TablesInv, Intern
  PROVE  TablesInv'
<1> DEFINE tag == JobTags[Len(got) + 1]
           id == IdIn(tables.pair, Entries(tables, tag).pair)
<1>1. tables' = Interned(tables, tag) /\ got' = Append(got, id)
  BY DEF Intern
<1>2. TablesOK(tables) /\ got \in Seq(TagIds)
  BY DEF TablesInv
<1> HIDE DEF tag
<1>3. TablesOK(tables') /\ AllKept(tables, tables') /\ id \in TagIds'
  BY <1>1, <1>2, InternedOK DEF TagIds
<1>4. TagIds \subseteq TagIds'
  BY <1>3 DEF AllKept, IdsKept, Kept, TagIds
<1>5. got \in Seq(TagIds')
  BY <1>2, <1>4, SequencesGrow
<1> HIDE DEF id
<1>6. got' \in Seq(TagIds')
  BY <1>1, <1>3, <1>5, AppendProperties
<1> QED
  BY <1>3, <1>6 DEF TablesInv

LEMMA InternThrowsTables ==
  ASSUME TablesInv, InternThrows
  PROVE  TablesInv'
<1>1. PICK part \in {"key", "value", "pair"}, done \in 0..1 :
         LET tag == JobTags[Len(got) + 1]
         IN  /\ Entries(tables, tag)[part] \notin DOMAIN tables[part].there
             /\ Fails(graph, InternFails(tables, tag, part, done))
  BY DEF InternThrows
<1> DEFINE tag == JobTags[Len(got) + 1]
<1>2. /\ tables' = InternFails(tables, tag, part, done) /\ got' = got
      /\ Entries(tables, tag)[part] \notin DOMAIN tables[part].there
  BY <1>1 DEF Fails
<1>3. TablesOK(tables)
  BY DEF TablesInv
<1> HIDE DEF tag
<1>4. TablesOK(tables') /\ AllKept(tables, tables')
  BY <1>2, <1>3, InternFailsOK
<1> QED
  BY <1>2, <1>4, TablesKept

LEMMA StoreStepTables ==
  ASSUME TablesInv, StoreStep
  PROVE  TablesInv'
<1>1. CASE Intern
  BY <1>1, InternTables
<1>2. CASE InternThrows
  BY <1>2, InternThrowsTables
<1>3. CASE Record
  BY <1>3, RecordTables
<1>4. CASE Merge
  BY <1>4, MergeTables
<1>5. CASE Reserve
  <2>1. tables' = tables /\ got' = <<>>
    BY <1>5 DEF Reserve
  <2> QED
    BY <2>1, EmptySeq DEF TablesInv, TagIds
<1>6. CASE \/ Begin \/ TakeMap \/ ReserveFails \/ RecordFails \/ StoreVertex \/ StoreVertexFails
           \/ StoreEdge \/ StoreEdgeFails \/ IndexVertex \/ IndexFails \/ MergeFails \/ Unwind
  <2>1. tables' = tables /\ got' = got
    BY <1>6 DEF Begin, TakeMap, ReserveFails, RecordFails, StoreVertex, StoreVertexFails,
                StoreEdge, StoreEdgeFails, IndexVertex, IndexFails, MergeFails, Unwind, Fails
  <2> QED
    BY <2>1, TablesSame
<1> QED
  BY <1>1, <1>2, <1>3, <1>4, <1>5, <1>6 DEF StoreStep

LEMMA TablesStep == TablesInv /\ [ImportStoreNext]_importStoreVars => TablesInv'
<1> SUFFICES ASSUME TablesInv, [ImportStoreNext]_importStoreVars PROVE TablesInv'
  OBVIOUS
<1>1. CASE StoreStep
  BY <1>1, StoreStepTables
<1>2. CASE Request \/ Resume \/ UNCHANGED importStoreVars
  <2>1. tables' = tables /\ got' = got
    BY <1>2 DEF Request, Call, Resume, importStoreVars
  <2> QED
    BY <2>1, TablesSame
<1> QED
  BY <1>1, <1>2 DEF ImportStoreNext

LEMMA TablesAreInvertible == TablesInv => TablesInvertible
<1> SUFFICES ASSUME TablesInv PROVE TablesInvertible
  OBVIOUS
<1>1. TablesOK(tables)
  BY DEF TablesInv
<1>2. Invertible(tables.key) /\ Invertible(tables.value) /\ Invertible(tables.pair)
  BY <1>1 DEF TablesOK, TableOK
<1>3. ASSUME NEW id \in TagIds PROVE Readable(tables, id)
  BY <1>1 DEF TablesOK, TagIds, Readable
<1>4. ASSUME NEW list \in Seq(TagIds), NEW k \in DOMAIN list PROVE Readable(tables, list[k])
  <2>1. list[k] \in TagIds
    BY <1>4, ElementOfSeq, LenProperties
  <2> QED
    BY <1>3, <2>1
<1>5. /\ \A id \in DOMAIN tables.nodes : tables.nodes[id] \in Seq(TagIds)
      /\ \A id \in DOMAIN tables.edges : tables.edges[id] \in Seq(TagIds)
  BY <1>1 DEF TablesOK, TagIds
<1> QED
  BY <1>2, <1>4, <1>5 DEF TablesInvertible

-----------------------------------------------------------------------------
(* The invariant under which the steps of the helpers implement            *)
(* NetworkStore.                                                           *)

\* A list of tag ids stands for the first of some tags, or for all of them.
Begins(t, list, tags) ==
    /\ Len(list) <= Len(tags)
    /\ \A k \in 1..Len(list) : TagOf(t, list[k]) = tags[k]

Stands(t, list, tags) == Begins(t, list, tags) /\ Len(list) = Len(tags)

\* The graph and the index are those of a network, but for a vertex that has no index yet.
NetworkOK ==
    /\ GraphOK(graph) /\ Bidirectional(graph) /\ Indexed(graph)
    /\ vid \in [Vertices -> DOMAIN NodeTags \cup {Nothing}]
    /\ eid \in [Edges -> DOMAIN WayTags \cup {Nothing}]
    /\ indexMap \in Seq(Vertices)
    /\ pc # "index" => graph.vertices = indexMap
    /\ pc = "index" => \E v \in Vertices : graph.vertices = Append(indexMap, v) /\ vid[v] = job.id
    /\ \A e \in Members(graph.edges) : {graph.source[e], graph.target[e]} \subseteq Members(indexMap)

\* The tags of a node, or of a way, are recorded, if it has any.
NodeReady(id) == id \in DOMAIN NodeTags /\ (NodeTags[id] = <<>> \/ id \in DOMAIN tables.nodes)
WayReady(id)  == id \in DOMAIN WayTags /\ (WayTags[id] = <<>> \/ id \in DOMAIN tables.edges)

\* What is recorded for a node is its tags, and for a way that has none of some ids, too.
NodesStand(t) == \A id \in DOMAIN t.nodes :
    id \in DOMAIN NodeTags /\ NodeTags[id] # <<>> /\ Stands(t, t.nodes[id], NodeTags[id])
WaysStand(t, ids) == \A id \in DOMAIN t.edges : id \notin ids =>
    id \in DOMAIN WayTags /\ WayTags[id] # <<>> /\ Stands(t, t.edges[id], WayTags[id])

\* The tags of a way that has edges may have been merged.  What is in the graph is recorded.
TagsStored ==
    /\ NodesStand(tables)
    /\ WaysStand(tables, StoredIds)
    /\ \A v \in Members(graph.vertices) : NodeReady(vid[v])
    /\ \A e \in Members(graph.edges) : WayReady(eid[e])

\* What importers ask for.
JobOK ==
    /\ pc # "idle" => job.kind \in {"vertex", "edge", "merge"}
    /\ job.kind = "vertex" => job.id \in DOMAIN NodeTags
    /\ job.kind = "edge" => /\ job.id \in DOMAIN WayTags
                            /\ {job.from, job.to} \subseteq 0..(Len(indexMap) - 1)
    /\ job.kind = "merge" => {job.id, job.other} \subseteq StoredIds /\ job.id # job.other

\* Where a call can be, according to its job.
JobPoints ==
    CASE job.kind = "merge"                    -> {"begin", "merge"}
      [] job.kind # "merge" /\ JobTags = <<>>  -> {"begin"}
      [] job.kind # "merge" /\ JobTags # <<>>  -> {"begin", "map", "container", "id"}

AtsIn(c, S) == \A k \in DOMAIN c.stack : c.stack[k].at \in S

JobReady == IF job.kind = "vertex" THEN NodeReady(job.id) ELSE WayReady(job.id)

\* The tag ids collected so far stand for the first tags of the job.
Collected == Begins(tables, got, JobTags)

ProgressOK ==
    /\ AtsIn(control, JobPoints)
    /\ pc \in Points => pc \in JobPoints
    /\ Len(control.stack) = 4 => Collected /\ Len(got) < Len(JobTags)
    /\ pc = "record" => "map" \in JobPoints /\ Collected /\ Len(got) = Len(JobTags)
    /\ pc \in {"add", "index"} => job.kind # "merge" /\ JobReady
    /\ pc = "index" => job.kind = "vertex"

NetInv == CallsInv /\ TablesInv /\ NetworkOK /\ TagsStored /\ JobOK /\ ProgressOK

\* The calls that are active stay at points of the job.
LEMMA AtsEnter ==
  ASSUME NEW c, ControlOK(c), NEW S, AtsIn(c, S), NEW h \in Helpers, NEW at \in Points, at \in S
  PROVE  AtsIn(Enter(c, h, at), S)
<1> DEFINE new == [helper |-> h, guarded |-> ~c.critical[h], tries |-> 0, at |-> at,
                   ref |-> "none"]
           s == c.stack
           d == <<new>> \o s
<1>1. s \in Seq(Frames) /\ c.critical \in [Helpers -> BOOLEAN]
  BY DEF ControlOK, Controls
<1>2. new \in Frames /\ new.at = at
  BY <1>1 DEF Frames
<1>3. Enter(c, h, at).stack = d
  BY DEF Enter
<1> HIDE DEF new
<1>4. /\ Len(s) \in Nat /\ DOMAIN s = 1..Len(s) /\ DOMAIN d = 1..(Len(s) + 1)
      /\ d[1] = new /\ \A k \in 1..Len(s) : d[k + 1] = s[k]
  BY <1>1, <1>2, Pushed
<1> HIDE DEF d
<1>5. ASSUME NEW k \in DOMAIN d PROVE d[k].at \in S
  <2>1. CASE k = 1
    BY <1>2, <1>4, <2>1
  <2>2. CASE k # 1
    <3>1. k - 1 \in 1..Len(s) /\ (k - 1) + 1 = k
      BY <1>4, <2>2
    <3>2. d[k] = s[k - 1] /\ k - 1 \in DOMAIN s
      BY <1>4, <3>1
    <3> QED
      BY <3>2 DEF AtsIn
  <2> QED
    BY <2>1, <2>2
<1> QED
  BY <1>3, <1>5 DEF AtsIn

LEMMA AtsLeave ==
  ASSUME NEW c, ControlOK(c), Len(c.stack) >= 1, NEW S, AtsIn(c, S)
  PROVE  AtsIn(Leave(c), S)
<1> DEFINE s == c.stack
<1>1. s \in Seq(Frames)
  BY DEF ControlOK, Controls
<1>2. /\ Len(s) \in Nat /\ DOMAIN s = 1..Len(s) /\ DOMAIN Tail(s) = 1..(Len(s) - 1)
      /\ \A k \in 1..(Len(s) - 1) : Tail(s)[k] = s[k + 1]
  BY <1>1, Popped
<1>3. Leave(c).stack = Tail(s)
  BY DEF Leave
<1>4. ASSUME NEW k \in DOMAIN Tail(s) PROVE Tail(s)[k].at \in S
  <2>1. k \in 1..(Len(s) - 1) /\ k + 1 \in DOMAIN s
    BY <1>2
  <2>2. Tail(s)[k] = s[k + 1]
    BY <1>2, <2>1
  <2> QED
    BY <2>1, <2>2 DEF AtsIn
<1> QED
  BY <1>3, <1>4 DEF AtsIn

LEMMA AtsTakeRef ==
  ASSUME NEW c, ControlOK(c), Len(c.stack) >= 1, NEW S, AtsIn(c, S)
  PROVE  AtsIn(TakeRef(c), S)
<1> DEFINE new == [c.stack[1] EXCEPT !.ref = "live"]
           s == [c.stack EXCEPT ![1] = new]
<1>1. /\ c.stack \in Seq(Frames) /\ c = [stack |-> c.stack, critical |-> c.critical]
      /\ 1 \in DOMAIN c.stack /\ c.stack[1] \in Frames
  BY Popped DEF ControlOK, Controls
<1>2. TakeRef(c) = [c EXCEPT !.stack = s]
  BY DEF TakeRef
<1>3. new.at = c.stack[1].at
  BY <1>1 DEF Frames
<1> HIDE DEF new
<1>4. DOMAIN s = DOMAIN c.stack /\ s[1] = new /\ \A k \in DOMAIN c.stack : k # 1 => s[k] = c.stack[k]
  BY <1>1
<1> HIDE DEF s
<1>5. TakeRef(c).stack = s
  BY <1>1, <1>2
<1>6. \A k \in DOMAIN s : s[k].at \in S
  BY <1>1, <1>3, <1>4 DEF AtsIn
<1> QED
  BY <1>5, <1>6 DEF AtsIn

LEMMA AtsCaught ==
  ASSUME NEW c, ControlOK(c), Len(c.stack) >= 1, NEW S, AtsIn(c, S)
  PROVE  AtsIn(Caught(c), S)
<1> DEFINE s == c.stack
           f == Head(c.stack)
           f2 == [f EXCEPT !.tries = @ + 1, !.ref = "none"]
           again == <<f2>> \o Tail(c.stack)
<1>1. s \in Seq(Frames) /\ c = [stack |-> s, critical |-> c.critical]
  BY DEF ControlOK, Controls
<1>2. /\ Tail(s) \in Seq(Frames) /\ f = s[1] /\ f \in Frames /\ Len(s) \in Nat
      /\ 1 \in DOMAIN s /\ DOMAIN s = 1..Len(s)
      /\ Len(Tail(s)) = Len(s) - 1
      /\ \A k \in 1..(Len(s) - 1) : Tail(s)[k] = s[k + 1]
  BY <1>1, Popped
<1>3. (IF f.guarded THEN Remapped(Tail(s), f.helper) ELSE Tail(s)) = Tail(s)
  BY NothingIsRemapped
<1>4. CASE f.guarded /\ f.tries + 1 <= Retries
  <2>1. Caught(c).stack = again
    <3>1. Caught(c) = [c EXCEPT !.stack = again]
      BY <1>3, <1>4 DEF Caught
    <3> HIDE DEF again
    <3> QED
      BY <1>1, <3>1
  <2>2. f2 \in Frames /\ f2.at = f.at
    <3>1. f \in Frames
      BY <1>2
    <3> HIDE DEF f
    <3> QED
      BY <3>1, AgainIsFrame
  <2> HIDE DEF f2
  <2>3. /\ DOMAIN again = 1..Len(s) /\ again[1] = f2
        /\ \A k \in 1..(Len(s) - 1) : again[k + 1] = Tail(s)[k]
    BY <1>2, <2>2, Pushed
  <2> HIDE DEF again
  <2>4. ASSUME NEW k \in DOMAIN again PROVE again[k].at \in S
    <3>1. CASE k = 1
      BY <1>2, <2>2, <2>3, <3>1 DEF AtsIn
    <3>2. CASE k # 1
      <4>1. k - 1 \in 1..(Len(s) - 1) /\ (k - 1) + 1 = k /\ k \in DOMAIN s
        BY <1>2, <2>3, <3>2
      <4>2. again[k] = s[k]
        BY <1>2, <2>3, <4>1
      <4> QED
        BY <4>1, <4>2 DEF AtsIn
    <3> QED
      BY <3>1, <3>2
  <2> QED
    BY <2>1, <2>4 DEF AtsIn
<1>5. CASE ~(f.guarded /\ f.tries + 1 <= Retries)
  <2>1. Caught(c) = Leave(c)
    BY <1>3, <1>5 DEF Caught, Leave
  <2> QED
    BY <2>1, AtsLeave
<1> QED
  BY <1>4, <1>5

-----------------------------------------------------------------------------
(* What tag ids stand for does not change.                                 *)

LEMMA TagOfKept ==
  ASSUME NEW t, TablesOK(t), NEW u, IdsKept(t, u), NEW id \in DOMAIN t.pair.back
  PROVE  /\ Readable(t, id) /\ Readable(u, id)
         /\ TagOf(u, id) = TagOf(t, id)
<1>1. PICK a \in DOMAIN t.key.back, b \in DOMAIN t.value.back : t.pair.back[id] = <<a, b>>
  BY DEF TablesOK
<1>2. /\ a \in DOMAIN u.key.back /\ u.key.back[a] = t.key.back[a]
      /\ b \in DOMAIN u.value.back /\ u.value.back[b] = t.value.back[b]
      /\ id \in DOMAIN u.pair.back /\ u.pair.back[id] = <<a, b>>
  BY <1>1 DEF IdsKept, Kept
<1>3. Readable(t, id) /\ TagOf(t, id) = <<t.key.back[a], t.value.back[b]>>
  BY <1>1 DEF Readable, TagOf
<1>4. Readable(u, id) /\ TagOf(u, id) = <<u.key.back[a], u.value.back[b]>>
  BY <1>2 DEF Readable, TagOf
<1> QED
  BY <1>2, <1>3, <1>4

LEMMA AllKeptSame == ASSUME NEW t PROVE AllKept(t, t)
  BY KeptSame DEF AllKept, IdsKept

LEMMA BeginsKept ==
  ASSUME NEW t, TablesOK(t), NEW u, IdsKept(t, u), NEW list \in Seq(DOMAIN t.pair.back), NEW tags
  PROVE  /\ Begins(t, list, tags) => Begins(u, list, tags)
         /\ Stands(t, list, tags) => Stands(u, list, tags)
<1>1. \A k \in 1..Len(list) : list[k] \in DOMAIN t.pair.back
  BY ElementOfSeq
<1>2. \A k \in 1..Len(list) : TagOf(u, list[k]) = TagOf(t, list[k])
  BY <1>1, TagOfKept
<1> QED
  BY <1>2 DEF Begins, Stands

LEMMA StandStill ==
  ASSUME NEW t, TablesOK(t), NEW u, IdsKept(t, u), NEW ids, NodesStand(t), WaysStand(t, ids)
  PROVE  /\ \A id \in DOMAIN t.nodes :
               id \in DOMAIN NodeTags /\ NodeTags[id] # <<>> /\ Stands(u, t.nodes[id], NodeTags[id])
         /\ \A id \in DOMAIN t.edges : id \notin ids =>
               id \in DOMAIN WayTags /\ WayTags[id] # <<>> /\ Stands(u, t.edges[id], WayTags[id])
<1>1. ASSUME NEW id \in DOMAIN t.nodes
      PROVE  id \in DOMAIN NodeTags /\ NodeTags[id] # <<>> /\ Stands(u, t.nodes[id], NodeTags[id])
  <2>1. t.nodes[id] \in Seq(DOMAIN t.pair.back)
    BY DEF TablesOK
  <2>2. id \in DOMAIN NodeTags /\ NodeTags[id] # <<>> /\ Stands(t, t.nodes[id], NodeTags[id])
    BY DEF NodesStand
  <2> QED
    BY <2>1, <2>2, BeginsKept
<1>2. ASSUME NEW id \in DOMAIN t.edges, id \notin ids
      PROVE  id \in DOMAIN WayTags /\ WayTags[id] # <<>> /\ Stands(u, t.edges[id], WayTags[id])
  <2>1. t.edges[id] \in Seq(DOMAIN t.pair.back)
    BY DEF TablesOK
  <2>2. id \in DOMAIN WayTags /\ WayTags[id] # <<>> /\ Stands(t, t.edges[id], WayTags[id])
    BY <1>2 DEF WaysStand
  <2> QED
    BY <2>1, <2>2, BeginsKept
<1> QED
  BY <1>1, <1>2

\* The tag of a list that stands for tags, looked up as node_tags() does.
LEMMA StandsRead ==
  ASSUME NEW t, NEW S, NEW list \in Seq(S), NEW tags \in Seq(STRING \X STRING), Stands(t, list, tags)
  PROVE  [k \in DOMAIN list |-> TagOf(t, list[k])] = tags
<1>1. DOMAIN list = 1..Len(list) /\ DOMAIN tags = 1..Len(tags) /\ tags = [k \in DOMAIN tags |-> tags[k]]
  BY LenProperties
<1> QED
  BY <1>1 DEF Stands, Begins

-----------------------------------------------------------------------------
(* The invariant under the steps that leave the network as it is.          *)

NetworkSame == UNCHANGED <<graph, vid, eid, indexMap>>

LEMMA DataKept ==
  ASSUME NetInv, TablesInv', NetworkSame, AllKept(tables, tables'), pc # "index", pc' # "index"
  PROVE  /\ NetworkOK' /\ TagsStored'
         /\ StoredIds' = StoredIds
<1>1. /\ graph' = graph /\ vid' = vid /\ eid' = eid /\ indexMap' = indexMap
      /\ tables'.nodes = tables.nodes /\ tables'.edges = tables.edges
      /\ TablesOK(tables) /\ TablesOK(tables') /\ IdsKept(tables, tables')
  BY DEF NetworkSame, AllKept, NetInv, TablesInv
<1>2. NetworkOK'
  BY <1>1 DEF NetInv, NetworkOK
<1>3. StoredIds' = StoredIds
  BY <1>1 DEF StoredIds
<1>4. \A id : (NodeReady(id) => NodeReady(id)') /\ (WayReady(id) => WayReady(id)')
  BY <1>1 DEF NodeReady, WayReady
<1>5. NodesStand(tables) /\ WaysStand(tables, StoredIds)
  BY DEF NetInv, TagsStored
<1>6. NodesStand(tables') /\ WaysStand(tables', StoredIds)
  BY <1>1, <1>5, StandStill DEF NodesStand, WaysStand
<1>7. /\ \A v \in Members(graph.vertices) : NodeReady(vid[v])'
      /\ \A e \in Members(graph.edges) : WayReady(eid[e])'
  BY <1>1, <1>4 DEF NetInv, TagsStored, NodeReady, WayReady
<1>8. TagsStored'
  BY <1>1, <1>3, <1>5, <1>6, <1>7 DEF TagsStored
<1> QED
  BY <1>2, <1>3, <1>8

LEMMA JobKept ==
  ASSUME NetInv, StoredIds \subseteq StoredIds', Len(indexMap) <= Len(indexMap'),
         indexMap' \in Seq(Vertices), job' = job, pc # "idle"
  PROVE  JobOK'
<1>1. JobOK /\ Len(indexMap) \in Nat /\ Len(indexMap') \in Nat
  BY LenProperties DEF NetInv, NetworkOK
<1>2. 0..(Len(indexMap) - 1) \subseteq 0..(Len(indexMap') - 1)
  BY <1>1
<1> QED
  BY <1>1, <1>2 DEF JobOK

LEMMA PointsMove ==
  ASSUME NetInv, CallsInv', TablesInv', NetworkSame, AllKept(tables, tables'), job' = job,
         pc \notin {"idle", "index"}, pc' # "index", ProgressOK'
  PROVE  NetInv'
<1>1. NetworkOK' /\ TagsStored' /\ StoredIds' = StoredIds
  BY DataKept
<1>2. indexMap' = indexMap /\ indexMap \in Seq(Vertices) /\ Len(indexMap) \in Nat
  BY LenProperties DEF NetworkSame, NetInv, NetworkOK
<1>3. Len(indexMap) <= Len(indexMap')
  BY <1>2
<1>4. JobOK'
  BY <1>1, <1>2, <1>3, JobKept
<1> QED
  BY <1>1, <1>4 DEF NetInv

LEMMA PointsAre ==
  /\ "merge" \in JobPoints <=> job.kind = "merge"
  /\ \A at \in {"map", "container", "id"} : at \in JobPoints <=> job.kind # "merge" /\ JobTags # <<>>
  /\ "begin" \in JobPoints
  /\ JobPoints \subseteq Points
<1>1. CASE job.kind = "merge"
  <2>1. JobPoints = {"begin", "merge"}
    BY <1>1 DEF JobPoints
  <2> QED
    BY <1>1, <2>1 DEF Points
<1>2. CASE job.kind # "merge" /\ JobTags = <<>>
  <2>1. JobPoints = {"begin"}
    BY <1>2 DEF JobPoints
  <2> QED
    BY <1>2, <2>1 DEF Points
<1>3. CASE job.kind # "merge" /\ JobTags # <<>>
  <2>1. JobPoints = {"begin", "map", "container", "id"}
    BY <1>3 DEF JobPoints
  <2> QED
    BY <1>3, <2>1 DEF Points
<1> QED
  BY <1>1, <1>2, <1>3

LEMMA JobFixed ==
  ASSUME job' = job
  PROVE  JobPoints' = JobPoints /\ JobTags' = JobTags
<1>1. JobTags' = JobTags
  BY DEF JobTags
<1> QED
  BY <1>1 DEF JobPoints

LEMMA TagsTyped ==
  ASSUME JobOK, pc # "idle", job.kind # "merge"
  PROVE  JobTags \in Seq(STRING \X STRING)
  BY StoreAssumption DEF JobOK, JobTags

\* An allocation fails.
LEMMA ThrowKeeps ==
  ASSUME NetInv, CallsInv', TablesInv', NetworkSame, AllKept(tables, tables'), job' = job,
         got' = got, control' = control, pc \notin {"idle", "index"}, pc' = "throw"
  PROVE  NetInv'
<1>1. JobPoints' = JobPoints /\ JobTags' = JobTags
  BY JobFixed
<1>2. TablesOK(tables) /\ got \in Seq(DOMAIN tables.pair.back)
  BY DEF NetInv, TablesInv, TagIds
<1>3. Collected => Collected'
  <2>1. Begins(tables, got, JobTags) => Begins(tables', got, JobTags)
    BY <1>2, BeginsKept DEF AllKept
  <2> QED
    BY <1>1, <2>1 DEF Collected
<1>4. ProgressOK'
  <2>1. AtsIn(control, JobPoints) /\ (Len(control.stack) = 4 => Collected /\ Len(got) < Len(JobTags))
    BY DEF NetInv, ProgressOK
  <2>2. AtsIn(control', JobPoints') /\ pc' \notin Points
    BY <1>1, <2>1 DEF Points
  <2>3. Len(control'.stack) = 4 => Collected' /\ Len(got') < Len(JobTags')
    BY <1>1, <1>3, <2>1
  <2> QED
    BY <2>2, <2>3 DEF ProgressOK
<1> QED
  BY <1>4, PointsMove

\* A failure leaves the network and the tags as they are; StoreEdge takes back what it did.
LEMMA FailuresAreQuiet ==
  ASSUME NetInv,
         \/ ReserveFails \/ RecordFails \/ MergeFails \/ InternThrows
         \/ StoreVertexFails \/ StoreEdgeFails
  PROVE  /\ NetworkSame /\ AllKept(tables, tables') /\ job' = job /\ got' = got
         /\ control' = control /\ pc \notin {"idle", "index"} /\ pc' = "throw"
<1>1. CASE ReserveFails \/ RecordFails \/ MergeFails \/ StoreVertexFails
  <2>1. /\ NetworkSame /\ tables' = tables /\ job' = job /\ got' = got /\ control' = control
        /\ pc \notin {"idle", "index"} /\ pc' = "throw"
    BY <1>1 DEF ReserveFails, RecordFails, MergeFails, StoreVertexFails, Fails, NetworkSame
  <2> QED
    BY <2>1, AllKeptSame
<1>2. CASE InternThrows
  <2>1. PICK part \in {"key", "value", "pair"}, done \in 0..1 :
           LET tag == JobTags[Len(got) + 1]
           IN  /\ Entries(tables, tag)[part] \notin DOMAIN tables[part].there
               /\ Fails(graph, InternFails(tables, tag, part, done))
    BY <1>2 DEF InternThrows
  <2> DEFINE tag == JobTags[Len(got) + 1]
  <2>2. /\ tables' = InternFails(tables, tag, part, done)
        /\ Entries(tables, tag)[part] \notin DOMAIN tables[part].there
        /\ NetworkSame /\ job' = job /\ got' = got /\ control' = control
        /\ pc \notin {"idle", "index"} /\ pc' = "throw"
    BY <1>2, <2>1 DEF Fails, InternThrows, NetworkSame
  <2>3. TablesOK(tables)
    BY DEF NetInv, TablesInv
  <2> HIDE DEF tag
  <2>4. AllKept(tables, tables')
    BY <2>2, <2>3, InternFailsOK
  <2> QED
    BY <2>2, <2>4
<1>3. CASE StoreEdgeFails
  <2>1. PICK n \in 0..(Len(Places(graph, From, To)) - 1) :
           Fails(EdgeFails(graph, NewEdge, From, To, n), tables)
    BY <1>3 DEF StoreEdgeFails
  <2>2. GraphOK(graph) /\ NewEdge \in FreeEdges(graph)
    BY <1>3 DEF StoreEdgeFails, NewEdge, NetInv, NetworkOK
  <2>3. From \in Vertices /\ To \in Vertices
    <3>1. /\ {job.from, job.to} \subseteq 0..(Len(indexMap) - 1)
          /\ indexMap \in Seq(Vertices) /\ Len(indexMap) \in Nat
      BY <1>3, LenProperties DEF StoreEdgeFails, NetInv, JobOK, NetworkOK
    <3>2. job.from + 1 \in 1..Len(indexMap) /\ job.to + 1 \in 1..Len(indexMap)
      BY <3>1
    <3> QED
      BY <3>1, <3>2, ElementOfSeq DEF From, To
  <2>4. EdgeFails(graph, NewEdge, From, To, n) = graph
    BY <2>2, <2>3, EdgeFailsSame
  <2>5. /\ NetworkSame /\ tables' = tables /\ job' = job /\ got' = got /\ control' = control
        /\ pc \notin {"idle", "index"} /\ pc' = "throw"
    BY <1>3, <2>1, <2>4 DEF Fails, StoreEdgeFails, NetworkSame
  <2> QED
    BY <2>5, AllKeptSame
<1> QED
  BY <1>1, <1>2, <1>3

LEMMA FailuresKeep ==
  ASSUME NetInv, CallsInv', TablesInv',
         \/ ReserveFails \/ RecordFails \/ MergeFails \/ InternThrows
         \/ StoreVertexFails \/ StoreEdgeFails
  PROVE  NetInv'
  BY FailuresAreQuiet, ThrowKeeps

LEMMA FourDeep ==
  ASSUME CallsInv'
  PROVE  pc' \in {"begin", "map", "merge", "container", "record", "add", "index"} =>
            Len(control'.stack) # 4
<1>1. CASE pc' \in {"begin", "map", "merge", "container"}
  <2>1. Depth(pc') # 4
    BY <1>1, Depths
  <2>2. Len(control'.stack) = Depth(pc')
    BY <1>1 DEF CallsInv, PlaceOK, Points
  <2> QED
    BY <2>1, <2>2
<1>2. CASE pc' \in {"record", "add", "index"}
  <2>1. Len(control'.stack) = 1 \/ Len(control'.stack) = 2
    BY <1>2 DEF CallsInv, PlaceOK
  <2> QED
    BY <2>1
<1> QED
  BY <1>1, <1>2

\* The steps that only move the point.
LEMMA BeginKeeps ==
  ASSUME NetInv, CallsInv', TablesInv', Begin
  PROVE  NetInv'
<1> DEFINE held == IF job.kind = "edge" THEN TakeRef(control) ELSE control
<1>1. /\ pc = "begin" /\ NetworkSame /\ tables' = tables /\ job' = job
      /\ \/ job.kind = "merge" /\ pc' = "merge" /\ control' = Enter(control, "tag", "merge")
         \/ job.kind # "merge" /\ JobTags = <<>> /\ pc' = "add" /\ control' = held
         \/ job.kind # "merge" /\ JobTags # <<>> /\ pc' = "map" /\ control' = Enter(held, "tag", "map")
  BY DEF Begin, NetworkSame, graphDataVars
<1>2. ControlOK(control) /\ Len(control.stack) = 1 /\ AtsIn(control, JobPoints)
  BY <1>1, Depths DEF NetInv, CallsInv, PlaceOK, Points, ProgressOK
<1>3. ControlOK(held) /\ AtsIn(held, JobPoints)
  BY <1>2, TakeRefAt, AtsTakeRef
<1> HIDE DEF held
<1>4. "tag" \in Helpers /\ "merge" \in Points /\ "map" \in Points
  BY DEF Helpers, Points
<1>5. AtsIn(control', JobPoints) /\ (pc' \in Points => pc' \in JobPoints)
  BY <1>1, <1>2, <1>3, <1>4, AtsEnter, PointsAre DEF Points
<1>6. Len(control'.stack) # 4
  BY <1>1, FourDeep
<1>7. pc' = "add" => JobReady'
  <2> SUFFICES ASSUME pc' = "add" PROVE JobReady'
    OBVIOUS
  <2>1. job.kind \in {"vertex", "edge"} /\ JobTags = <<>> /\ JobOK
    BY <1>1 DEF NetInv, JobOK
  <2> QED
    BY <1>1, <2>1 DEF JobReady, JobOK, JobTags, NodeReady, WayReady
<1>8. ProgressOK'
  BY <1>1, <1>5, <1>6, <1>7, JobFixed DEF ProgressOK
<1> QED
  BY <1>1, <1>8, AllKeptSame, PointsMove

LEMMA TakeMapKeeps ==
  ASSUME NetInv, CallsInv', TablesInv', TakeMap
  PROVE  NetInv'
<1> DEFINE held == IF job.kind = "vertex" THEN TakeRef(control) ELSE control
<1>1. /\ pc = "map" /\ NetworkSame /\ tables' = tables /\ job' = job
      /\ pc' = "container" /\ control' = Enter(held, "tag", "container")
  BY DEF TakeMap, NetworkSame, graphDataVars
<1>2. /\ ControlOK(control) /\ Len(control.stack) = 2 /\ AtsIn(control, JobPoints)
      /\ "map" \in JobPoints
  BY <1>1, Depths DEF NetInv, CallsInv, PlaceOK, Points, ProgressOK
<1>3. ControlOK(held) /\ AtsIn(held, JobPoints)
  <2>1. Len(control.stack) >= 1
    BY <1>2
  <2>2. ControlOK(TakeRef(control)) /\ AtsIn(TakeRef(control), JobPoints)
    BY <1>2, <2>1, TakeRefAt, AtsTakeRef
  <2> QED
    BY <1>2, <2>2
<1> HIDE DEF held
<1>4. "tag" \in Helpers /\ "container" \in Points /\ "container" \in JobPoints
  BY <1>2, PointsAre DEF Helpers, Points
<1>5. AtsIn(control', JobPoints)
  BY <1>1, <1>3, <1>4, AtsEnter
<1>6. Len(control'.stack) # 4
  BY <1>1, FourDeep
<1>7. ProgressOK'
  BY <1>1, <1>4, <1>5, <1>6, JobFixed DEF ProgressOK
<1> QED
  BY <1>1, <1>7, AllKeptSame, PointsMove

LEMMA ReserveKeeps ==
  ASSUME NetInv, CallsInv', TablesInv', Reserve
  PROVE  NetInv'
<1>1. /\ pc = "container" /\ NetworkSame /\ tables' = tables /\ job' = job
      /\ pc' = "id" /\ got' = <<>> /\ control' = Enter(control, "tag", "id")
  BY DEF Reserve, NetworkSame, graphDataVars
<1>2. ControlOK(control) /\ AtsIn(control, JobPoints) /\ "container" \in JobPoints
  BY <1>1 DEF NetInv, CallsInv, Points, ProgressOK
<1>3. "tag" \in Helpers /\ "id" \in Points /\ "id" \in JobPoints
  BY <1>2, PointsAre DEF Helpers, Points
<1>4. AtsIn(control', JobPoints)
  BY <1>1, <1>2, <1>3, AtsEnter
<1>5. JobTags \in Seq(STRING \X STRING) /\ JobTags # <<>>
  BY <1>1, <1>2, PointsAre, TagsTyped DEF NetInv
<1>6. Len(got') = 0 /\ Len(JobTags) \in Nat /\ Len(JobTags) > 0
  BY <1>1, <1>5, EmptySeq, LenProperties
<1>7. Begins(tables', got', JobTags)
  BY <1>6 DEF Begins
<1>8. Collected' /\ Len(got') < Len(JobTags')
  BY <1>1, <1>6, <1>7, JobFixed DEF Collected
<1>9. ProgressOK'
  BY <1>1, <1>3, <1>4, <1>8, JobFixed DEF ProgressOK
<1> QED
  BY <1>1, <1>9, AllKeptSame, PointsMove

LEMMA UnwindKeeps ==
  ASSUME NetInv, CallsInv', TablesInv', Unwind
  PROVE  NetInv'
<1> DEFINE after == Caught(control)
           at == Head(control.stack).at
<1>1. /\ pc = "throw" /\ NetworkSame /\ tables' = tables /\ job' = job /\ got' = got
      /\ control' = after
      /\ pc' = CASE Len(after.stack) = Len(control.stack) -> at
                 [] after.stack = <<>>                    -> "gave up"
                 [] OTHER                                 -> "throw"
  BY DEF Unwind, NetworkSame, graphDataVars
<1>2. ControlOK(control) /\ Len(control.stack) >= 1 /\ AtsIn(control, JobPoints)
  BY <1>1 DEF NetInv, CallsInv, PlaceOK, ProgressOK
<1>3. AtsIn(after, JobPoints)
  BY <1>2, AtsCaught
<1>4. at \in JobPoints
  <2>1. control.stack \in Seq(Frames)
    BY <1>2 DEF ControlOK, Controls
  <2>2. at = control.stack[1].at /\ 1 \in DOMAIN control.stack
    BY <1>2, <2>1, Popped
  <2> QED
    BY <1>2, <2>2 DEF AtsIn
<1>5. Len(after.stack) = 4 => Len(control.stack) = 4
  <2>1. /\ Len(after.stack) \in {Len(control.stack) - 1, Len(control.stack)}
        /\ Len(control.stack) \in Nat
    BY <1>2, CaughtKeeps, LenIsNat
  <2>2. Len(control.stack) <= 4
    <3>1. at \in Points /\ Depth(at) = Len(control.stack)
      BY <1>2, CaughtStaysAt
    <3>2. Depth(at) <= 4
      BY <3>1, Depths DEF Points
    <3> QED
      BY <3>1, <3>2
  <2> HIDE DEF after
  <2> QED
    BY <2>1, <2>2, SMTT(30)
<1> HIDE DEF after, at
<1>6. pc' \in JobPoints \cup {"gave up", "throw"}
  BY <1>1, <1>4
<1>7. pc' \notin {"record", "add", "index"} /\ (pc' \in Points => pc' \in JobPoints)
  BY <1>6, PointsAre DEF Points
<1>8. Len(control'.stack) = 4 => Collected' /\ Len(got') < Len(JobTags')
  <2> SUFFICES ASSUME Len(control'.stack) = 4 PROVE Collected' /\ Len(got') < Len(JobTags')
    OBVIOUS
  <2>1. Collected /\ Len(got) < Len(JobTags)
    BY <1>1, <1>5 DEF NetInv, ProgressOK
  <2> QED
    BY <1>1, <2>1, JobFixed DEF Collected
<1>9. ProgressOK'
  BY <1>1, <1>3, <1>7, <1>8, JobFixed DEF ProgressOK
<1> QED
  BY <1>1, <1>7, <1>9, AllKeptSame, PointsMove

LEMMA InternKeeps ==
  ASSUME NetInv, CallsInv', TablesInv', Intern
  PROVE  NetInv'
<1> DEFINE tag == JobTags[Len(got) + 1]
           id == IdIn(tables.pair, Entries(tables, tag).pair)
           done == Leave(control)
<1>1. /\ pc = "id" /\ NetworkSame /\ job' = job
      /\ tables' = Interned(tables, tag) /\ got' = Append(got, id)
      /\ IF Len(got) + 1 < Len(JobTags)
         THEN pc' = "id" /\ control' = Enter(done, "tag", "id")
         ELSE pc' = "record" /\ control' = Leave(done)
  BY DEF Intern, NetworkSame, graphDataVars
<1>2. ControlOK(control) /\ Len(control.stack) = 4 /\ AtsIn(control, JobPoints) /\ "id" \in JobPoints
  BY <1>1, Depths DEF NetInv, CallsInv, PlaceOK, Points, ProgressOK
<1>3. /\ Collected /\ Len(got) < Len(JobTags) /\ TablesOK(tables)
      /\ got \in Seq(DOMAIN tables.pair.back)
  BY <1>2 DEF NetInv, ProgressOK, TablesInv, TagIds
<1>4. JobTags \in Seq(STRING \X STRING)
  BY <1>1, <1>2, PointsAre, TagsTyped DEF NetInv
<1>5. /\ Len(got) \in Nat /\ Len(JobTags) \in Nat
      /\ Len(got') = Len(got) + 1 /\ got'[Len(got) + 1] = id
      /\ \A k \in 1..Len(got) : got'[k] = got[k]
  <2>1. Len(got) \in Nat /\ Len(JobTags) \in Nat
    BY <1>3, <1>4, LenProperties
  <2> HIDE DEF id
  <2>2. got \in Seq(DOMAIN tables.pair.back \cup {id})
    BY <1>3, SequencesGrow
  <2> QED
    BY <1>1, <2>1, <2>2, AppendProperties
<1>6. tag \in STRING \X STRING
  BY <1>3, <1>4, <1>5, ElementOfSeq
<1>7. AllKept(tables, tables') /\ TagOf(tables', id) = tag
  <2> DEFINE x == Entries(tables, tag)
  <2>1. tag = <<tag[1], tag[2]>>
    BY <1>6
  <2> HIDE DEF tag
  <2>2. /\ AllKept(tables, tables')
        /\ id \in DOMAIN tables'.pair.back
        /\ tables'.pair.back[id] = x.pair
        /\ x.pair[1] \in DOMAIN tables'.key.back /\ tables'.key.back[x.pair[1]] = tag[1]
        /\ x.pair[2] \in DOMAIN tables'.value.back /\ tables'.value.back[x.pair[2]] = tag[2]
    BY <1>1, <1>3, InternedOK
  <2> HIDE DEF x, id
  <2> QED
    BY <2>1, <2>2 DEF TagOf, Readable
<1>8. Begins(tables', got', JobTags)
  <2>1. Begins(tables', got, JobTags)
    BY <1>3, <1>7, BeginsKept DEF AllKept, Collected
  <2>2. Len(got') <= Len(JobTags)
    BY <1>3, <1>5
  <2>3. ASSUME NEW k \in 1..Len(got') PROVE TagOf(tables', got'[k]) = JobTags[k]
    <3>1. CASE k = Len(got) + 1
      BY <1>5, <1>7, <3>1
    <3>2. CASE k # Len(got) + 1
      <4>1. k \in 1..Len(got)
        BY <1>5, <3>2
      <4> HIDE DEF tag, id
      <4> QED
        BY <1>5, <2>1, <4>1 DEF Begins
    <3> QED
      BY <3>1, <3>2
  <2> QED
    BY <2>2, <2>3 DEF Begins
<1> HIDE DEF tag, id
<1>9. ControlOK(done) /\ Len(done.stack) = 3 /\ AtsIn(done, JobPoints)
  BY <1>2, LeaveAt, AtsLeave
<1> HIDE DEF done
<1>10. "tag" \in Helpers /\ "id" \in Points /\ "map" \in JobPoints
  BY <1>2, PointsAre DEF Helpers, Points
<1>11. AtsIn(control', JobPoints)
  <2>1. Len(done.stack) >= 1
    BY <1>9
  <2>2. AtsIn(Enter(done, "tag", "id"), JobPoints) /\ AtsIn(Leave(done), JobPoints)
    BY <1>2, <1>9, <1>10, <2>1, AtsEnter, AtsLeave
  <2> QED
    BY <1>1, <2>2
<1>12. JobTags' = JobTags /\ JobPoints' = JobPoints
  BY <1>1, JobFixed
<1>13. Collected'
  BY <1>8, <1>12 DEF Collected
<1>14. /\ pc' = "id" => Len(got') < Len(JobTags')
       /\ pc' = "record" => Len(got') = Len(JobTags')
       /\ pc' \in {"id", "record"}
  BY <1>1, <1>3, <1>5, <1>12
<1>15. pc' = "record" => Len(control'.stack) # 4
  BY FourDeep
<1>16. ProgressOK'
  <2>1. CASE pc' = "id"
    BY <1>2, <1>11, <1>12, <1>13, <1>14, <2>1 DEF ProgressOK
  <2>2. CASE pc' = "record"
    BY <1>10, <1>11, <1>12, <1>13, <1>14, <1>15, <2>2 DEF ProgressOK, Points
  <2> QED
    BY <1>14, <2>1, <2>2
<1> QED
  BY <1>1, <1>7, <1>14, <1>16, PointsMove

-----------------------------------------------------------------------------
(* The invariant under the steps that record tags.                         *)

LEMMA RecordKeeps ==
  ASSUME NetInv, CallsInv', TablesInv', Record
  PROVE  NetInv' /\ StoredIds' = StoredIds
<1>1. /\ pc = "record" /\ NetworkSame /\ job' = job /\ got' = got
      /\ pc' = "add" /\ control' = Leave(control)
      /\ tables' = IF job.kind = "vertex"
                   THEN [tables EXCEPT !.nodes = Emplaced(@, job.id, got)]
                   ELSE [tables EXCEPT !.edges = Emplaced(@, job.id, got)]
  BY DEF Record, NetworkSame, graphDataVars
<1>2. /\ "map" \in JobPoints /\ Collected /\ Len(got) = Len(JobTags)
      /\ AtsIn(control, JobPoints) /\ ControlOK(control) /\ Len(control.stack) = 2
  BY <1>1 DEF NetInv, ProgressOK, CallsInv, PlaceOK
<1>3. job.kind \in {"vertex", "edge"} /\ JobTags # <<>>
  BY <1>1, <1>2, PointsAre DEF NetInv, JobOK
<1>4. Stands(tables, got, JobTags) /\ TablesOK(tables) /\ got \in Seq(DOMAIN tables.pair.back)
  BY <1>2 DEF Collected, Stands, NetInv, TablesInv, TagIds
<1>5. /\ tables'.key = tables.key /\ tables'.value = tables.value /\ tables'.pair = tables.pair
      /\ job.kind = "vertex" => /\ tables'.nodes = Emplaced(tables.nodes, job.id, got)
                                /\ tables'.edges = tables.edges
      /\ job.kind = "edge" => /\ tables'.nodes = tables.nodes
                              /\ tables'.edges = Emplaced(tables.edges, job.id, got)
  <2>1. tables = [key |-> tables.key, value |-> tables.value, pair |-> tables.pair,
                  nodes |-> tables.nodes, edges |-> tables.edges]
    BY <1>4 DEF TablesOK
  <2> QED
    BY <1>1, <1>3, <2>1
<1>6. IdsKept(tables, tables')
  BY <1>5, KeptSame DEF IdsKept
<1>7. /\ graph' = graph /\ vid' = vid /\ eid' = eid /\ indexMap' = indexMap
      /\ StoredIds' = StoredIds
  BY <1>1 DEF NetworkSame, StoredIds
<1>8. NetworkOK'
  BY <1>1, <1>7 DEF NetInv, NetworkOK
<1>9. Stands(tables', got, JobTags)
  BY <1>4, <1>6, BeginsKept
<1>10. /\ NodesStand(tables) /\ WaysStand(tables, StoredIds)
       /\ \A v \in Members(graph.vertices) : NodeReady(vid[v])
       /\ \A e \in Members(graph.edges) : WayReady(eid[e])
  BY DEF NetInv, TagsStored
<1>11. /\ NodesStand(tables') /\ WaysStand(tables', StoredIds)
       /\ DOMAIN tables.nodes \subseteq DOMAIN tables'.nodes
       /\ DOMAIN tables.edges \subseteq DOMAIN tables'.edges
       /\ job.kind = "vertex" => job.id \in DOMAIN NodeTags /\ job.id \in DOMAIN tables'.nodes
       /\ job.kind = "edge" => job.id \in DOMAIN WayTags /\ job.id \in DOMAIN tables'.edges
  <2>1. \A id \in DOMAIN tables.nodes :
           /\ id \in DOMAIN NodeTags /\ NodeTags[id] # <<>>
           /\ Stands(tables', tables.nodes[id], NodeTags[id])
    BY <1>4, <1>6, <1>10, StandStill
  <2>2. \A id \in DOMAIN tables.edges : id \notin StoredIds =>
           /\ id \in DOMAIN WayTags /\ WayTags[id] # <<>>
           /\ Stands(tables', tables.edges[id], WayTags[id])
    BY <1>4, <1>6, <1>10, StandStill
  <2>3. CASE job.kind = "vertex"
    <3>1. job.id \in DOMAIN NodeTags /\ JobTags = NodeTags[job.id]
      BY <2>3 DEF NetInv, JobOK, JobTags
    <3>2. /\ DOMAIN tables'.nodes = DOMAIN tables.nodes \cup {job.id}
          /\ \A z \in DOMAIN tables.nodes : tables'.nodes[z] = tables.nodes[z]
          /\ job.id \notin DOMAIN tables.nodes => tables'.nodes[job.id] = got
          /\ tables'.edges = tables.edges
      <4> DEFINE new == Emplaced(tables.nodes, job.id, got)
      <4>1. /\ DOMAIN new = DOMAIN tables.nodes \cup {job.id}
            /\ \A z \in DOMAIN tables.nodes : new[z] = tables.nodes[z]
            /\ job.id \notin DOMAIN tables.nodes => new[job.id] = got
        BY EmplacedIs
      <4>2. tables'.nodes = new /\ tables'.edges = tables.edges
        BY <1>5, <2>3
      <4> HIDE DEF new
      <4> QED
        BY <4>1, <4>2
    <3>3. NodesStand(tables')
      <4> SUFFICES ASSUME NEW id \in DOMAIN tables'.nodes
                   PROVE  /\ id \in DOMAIN NodeTags /\ NodeTags[id] # <<>>
                          /\ Stands(tables', tables'.nodes[id], NodeTags[id])
        BY DEF NodesStand
      <4>1. CASE id \in DOMAIN tables.nodes
        BY <2>1, <3>2, <4>1
      <4>2. CASE id \notin DOMAIN tables.nodes
        <5>1. id = job.id /\ tables'.nodes[id] = got
          BY <3>2, <4>2
        <5> QED
          BY <1>3, <1>9, <3>1, <5>1
      <4> QED
        BY <4>1, <4>2
    <3>4. WaysStand(tables', StoredIds)
      BY <2>2, <3>2 DEF WaysStand
    <3> QED
      BY <2>3, <3>1, <3>2, <3>3, <3>4
  <2>4. CASE job.kind = "edge"
    <3>1. job.id \in DOMAIN WayTags /\ JobTags = WayTags[job.id]
      BY <2>4 DEF NetInv, JobOK, JobTags
    <3>2. /\ DOMAIN tables'.edges = DOMAIN tables.edges \cup {job.id}
          /\ \A z \in DOMAIN tables.edges : tables'.edges[z] = tables.edges[z]
          /\ job.id \notin DOMAIN tables.edges => tables'.edges[job.id] = got
          /\ tables'.nodes = tables.nodes
      <4> DEFINE new == Emplaced(tables.edges, job.id, got)
      <4>1. /\ DOMAIN new = DOMAIN tables.edges \cup {job.id}
            /\ \A z \in DOMAIN tables.edges : new[z] = tables.edges[z]
            /\ job.id \notin DOMAIN tables.edges => new[job.id] = got
        BY EmplacedIs
      <4>2. tables'.edges = new /\ tables'.nodes = tables.nodes
        BY <1>5, <2>4
      <4> HIDE DEF new
      <4> QED
        BY <4>1, <4>2
    <3>3. NodesStand(tables')
      BY <2>1, <3>2 DEF NodesStand
    <3>4. WaysStand(tables', StoredIds)
      <4> SUFFICES ASSUME NEW id \in DOMAIN tables'.edges, id \notin StoredIds
                   PROVE  /\ id \in DOMAIN WayTags /\ WayTags[id] # <<>>
                          /\ Stands(tables', tables'.edges[id], WayTags[id])
        BY DEF WaysStand
      <4>1. CASE id \in DOMAIN tables.edges
        BY <2>2, <3>2, <4>1
      <4>2. CASE id \notin DOMAIN tables.edges
        <5>1. id = job.id /\ tables'.edges[id] = got
          BY <3>2, <4>2
        <5> QED
          BY <1>3, <1>9, <3>1, <5>1
      <4> QED
        BY <4>1, <4>2
    <3> QED
      BY <2>4, <3>1, <3>2, <3>3, <3>4
  <2> QED
    BY <1>3, <2>3, <2>4
<1>12. \A id : (NodeReady(id) => NodeReady(id)') /\ (WayReady(id) => WayReady(id)')
  BY <1>11 DEF NodeReady, WayReady
<1>13. TagsStored'
  <2>1. /\ \A v \in Members(graph.vertices) : NodeReady(vid[v])'
        /\ \A e \in Members(graph.edges) : WayReady(eid[e])'
    BY <1>7, <1>10, <1>11 DEF NodeReady, WayReady
  <2> QED
    BY <1>7, <1>11, <2>1 DEF TagsStored
<1>14. JobReady'
  BY <1>1, <1>3, <1>11 DEF JobReady, NodeReady, WayReady
<1>15. AtsIn(control', JobPoints) /\ Len(control'.stack) # 4
  <2>1. Len(control.stack) >= 1
    BY <1>2
  <2> QED
    BY <1>1, <1>2, <2>1, AtsLeave, FourDeep
<1>16. ProgressOK'
  BY <1>1, <1>3, <1>14, <1>15, JobFixed DEF ProgressOK, Points
<1>17. JobOK'
  <2>1. indexMap' \in Seq(Vertices) /\ Len(indexMap') \in Nat /\ Len(indexMap) = Len(indexMap')
    BY <1>7, LenProperties DEF NetInv, NetworkOK
  <2>2. Len(indexMap) <= Len(indexMap')
    BY <2>1
  <2> QED
    BY <1>1, <1>7, <2>1, <2>2, JobKept
<1> QED
  BY <1>7, <1>8, <1>13, <1>16, <1>17 DEF NetInv

\* new is map with the tags of other added to those of id.
Joins(new, map, id, other) ==
    /\ DOMAIN new = DOMAIN map \cup {id}
    /\ \A z \in DOMAIN map \ {id} : new[z] = map[z]
    /\ new[id] = OwnTags(map, id) \o Without(map[other], Members(OwnTags(map, id)))

LEMMA MergedIs ==
  ASSUME NEW map, NEW id, NEW other, other \in DOMAIN map
  PROVE  Joins(Merged(map, id, other), map, id, other)
<1> DEFINE list == OwnTags(map, id) \o Without(map[other], Members(OwnTags(map, id)))
<1>1. Merged(map, id, other) = Assigned(map, id, list)
  BY DEF Merged
<1> HIDE DEF list
<1>2. /\ DOMAIN Assigned(map, id, list) = DOMAIN map \cup {id}
      /\ \A z \in DOMAIN map \ {id} : Assigned(map, id, list)[z] = map[z]
      /\ Assigned(map, id, list)[id] = list
  BY DEF Assigned
<1> QED
  BY <1>1, <1>2 DEF Joins, list

\* What merge_edge_tags leaves in the tables.
LEMMA MergeData ==
  ASSUME NetInv, Merge
  PROVE  /\ NetworkSame /\ job' = job /\ got' = got /\ pc' = "returned"
         /\ job.kind = "merge" /\ {job.id, job.other} \subseteq StoredIds /\ job.id # job.other
         /\ IdsKept(tables, tables') /\ tables'.nodes = tables.nodes
         /\ tables'.edges = Merged(tables.edges, job.id, job.other)
<1>1. /\ pc = "merge" /\ NetworkSame /\ job' = job /\ got' = got /\ pc' = "returned"
      /\ tables' = [tables EXCEPT !.edges = Merged(@, job.id, job.other)]
  BY DEF Merge, NetworkSame, graphDataVars
<1>2. job.kind = "merge"
  BY <1>1, PointsAre DEF NetInv, ProgressOK, Points
<1>3. tables = [key |-> tables.key, value |-> tables.value, pair |-> tables.pair,
                nodes |-> tables.nodes, edges |-> tables.edges]
  BY DEF NetInv, TablesInv, TablesOK
<1>4. /\ tables'.key = tables.key /\ tables'.value = tables.value /\ tables'.pair = tables.pair
      /\ tables'.nodes = tables.nodes
      /\ tables'.edges = Merged(tables.edges, job.id, job.other)
  BY <1>1, <1>3
<1>5. IdsKept(tables, tables')
  BY <1>4, KeptSame DEF IdsKept
<1> QED
  BY <1>1, <1>2, <1>4, <1>5 DEF NetInv, JobOK

LEMMA MergeKeeps ==
  ASSUME NetInv, CallsInv', TablesInv', Merge
  PROVE  NetInv' /\ StoredIds' = StoredIds
<1>1. /\ NetworkSame /\ job' = job /\ got' = got /\ pc' = "returned"
      /\ job.kind = "merge" /\ job.id \in StoredIds
      /\ IdsKept(tables, tables') /\ tables'.nodes = tables.nodes
      /\ tables'.edges = Merged(tables.edges, job.id, job.other)
  BY MergeData
<1>2. /\ graph' = graph /\ vid' = vid /\ eid' = eid /\ indexMap' = indexMap
      /\ StoredIds' = StoredIds
  BY <1>1 DEF NetworkSame, StoredIds
<1>3. pc = "merge" /\ control' = Leave(Leave(control))
  BY DEF Merge
<1>4. NetworkOK'
  BY <1>1, <1>2, <1>3 DEF NetInv, NetworkOK
<1>5. NodesStand(tables) /\ WaysStand(tables, StoredIds) /\ TablesOK(tables)
  BY DEF NetInv, TagsStored, TablesInv
<1>6. /\ DOMAIN tables.edges \subseteq DOMAIN tables'.edges
      /\ \A z \in DOMAIN tables'.edges : z # job.id => z \in DOMAIN tables.edges
                                                       /\ tables'.edges[z] = tables.edges[z]
  <2>1. CASE job.other \in DOMAIN tables.edges
    <3> DEFINE new == Merged(tables.edges, job.id, job.other)
    <3>1. Joins(new, tables.edges, job.id, job.other)
      BY <2>1, MergedIs
    <3>2. tables'.edges = new
      BY <1>1
    <3> HIDE DEF new
    <3> QED
      BY <3>1, <3>2 DEF Joins
  <2>2. CASE job.other \notin DOMAIN tables.edges
    BY <1>1, <2>2 DEF Merged
  <2> QED
    BY <2>1, <2>2
<1>7. NodesStand(tables')
  BY <1>1, <1>5, StandStill DEF NodesStand
<1>8. WaysStand(tables', StoredIds)
  <2>1. \A id \in DOMAIN tables.edges : id \notin StoredIds =>
           /\ id \in DOMAIN WayTags /\ WayTags[id] # <<>>
           /\ Stands(tables', tables.edges[id], WayTags[id])
    BY <1>1, <1>5, StandStill
  <2> QED
    BY <1>1, <1>6, <2>1 DEF WaysStand
<1>9. /\ \A v \in Members(graph.vertices) : NodeReady(vid[v])'
      /\ \A e \in Members(graph.edges) : WayReady(eid[e])'
  BY <1>1, <1>2, <1>6 DEF NetInv, TagsStored, NodeReady, WayReady
<1>10. TagsStored'
  BY <1>2, <1>7, <1>8, <1>9 DEF TagsStored
<1>11. JobOK'
  <2>1. indexMap' \in Seq(Vertices) /\ Len(indexMap') \in Nat /\ Len(indexMap) = Len(indexMap')
    BY <1>2, LenProperties DEF NetInv, NetworkOK
  <2>2. Len(indexMap) <= Len(indexMap')
    BY <2>1
  <2> QED
    BY <1>1, <1>2, <1>3, <2>1, <2>2, JobKept
<1>12. AtsIn(control', JobPoints)
  <2>1. ControlOK(control) /\ Len(control.stack) = 2 /\ AtsIn(control, JobPoints)
    BY <1>3, Depths DEF NetInv, CallsInv, PlaceOK, Points, ProgressOK
  <2>2. Len(control.stack) >= 1
    BY <2>1
  <2>3. ControlOK(Leave(control)) /\ Len(Leave(control).stack) = 1 /\ AtsIn(Leave(control), JobPoints)
    BY <2>1, <2>2, LeaveAt, AtsLeave
  <2>4. Len(Leave(control).stack) >= 1
    BY <2>3
  <2> QED
    BY <1>3, <2>3, <2>4, AtsLeave
<1>13. Len(control'.stack) = 0
  BY <1>1 DEF CallsInv, PlaceOK
<1>14. ProgressOK'
  BY <1>1, <1>12, <1>13, JobFixed DEF ProgressOK, Points
<1> QED
  BY <1>2, <1>4, <1>10, <1>11, <1>14 DEF NetInv

-----------------------------------------------------------------------------
(* The invariant under the steps that change the graph and the index.      *)

\* The index grows or stays.
LEMMA JobStays ==
  ASSUME NetInv, StoredIds \subseteq StoredIds', job' = job, pc # "idle",
         indexMap' = indexMap \/ \E v \in Vertices : indexMap' = Append(indexMap, v)
  PROVE  JobOK'
<1>1. indexMap \in Seq(Vertices) /\ Len(indexMap) \in Nat
  BY LenProperties DEF NetInv, NetworkOK
<1>2. CASE indexMap' = indexMap
  <2>1. Len(indexMap) <= Len(indexMap')
    BY <1>1, <1>2
  <2> QED
    BY <1>1, <1>2, <2>1, JobKept
<1>3. ASSUME NEW v \in Vertices, indexMap' = Append(indexMap, v) PROVE JobOK'
  <2>1. indexMap' \in Seq(Vertices) /\ Len(indexMap') = Len(indexMap) + 1
    BY <1>1, <1>3, AppendProperties
  <2>2. Len(indexMap) <= Len(indexMap')
    BY <1>1, <2>1
  <2> QED
    BY <2>1, <2>2, JobKept
<1> QED
  BY <1>2, <1>3

LEMMA StoreVertexKeeps ==
  ASSUME NetInv, CallsInv', TablesInv', StoreVertex
  PROVE  /\ NetInv' /\ StoredIds' = StoredIds
         /\ \A v \in Members(graph.vertices) : vid'[v] = vid[v]
         /\ graph'.edges = graph.edges /\ graph'.source = graph.source
         /\ graph'.target = graph.target
<1> DEFINE v == NewVertex
<1>1. /\ pc = "add" /\ job.kind = "vertex" /\ graph' = WithVertex(graph, v)
      /\ vid' = [vid EXCEPT ![v] = job.id] /\ pc' = "index"
      /\ UNCHANGED <<eid, indexMap, tables, job, control, got>>
      /\ v \in FreeVertices(graph)
  BY DEF StoreVertex, NewVertex
<1> HIDE DEF v
<1>2. /\ GraphOK(graph) /\ Bidirectional(graph) /\ Indexed(graph) /\ graph \in Graphs
      /\ graph.vertices = indexMap /\ indexMap \in Seq(Vertices)
      /\ vid \in [Vertices -> DOMAIN NodeTags \cup {Nothing}]
      /\ eid \in [Edges -> DOMAIN WayTags \cup {Nothing}]
      /\ \A e \in Members(graph.edges) :
            {graph.source[e], graph.target[e]} \subseteq Members(indexMap)
  BY <1>1 DEF NetInv, NetworkOK, GraphOK
<1>3. v \in Vertices /\ v \notin Members(graph.vertices)
  BY <1>1 DEF FreeVertices
<1>4. /\ graph'.direction = graph.direction /\ graph'.edges = graph.edges
      /\ graph'.source = graph.source /\ graph'.target = graph.target
      /\ graph'.vertices = Append(graph.vertices, v)
  BY <1>1, <1>2, <1>3, WithVertexFields
<1>5. GraphOK(graph') /\ Indexed(graph') /\ Bidirectional(graph')
  BY <1>1, <1>2, <1>4, WithVertexOK, AdditionsIndexed DEF Bidirectional
<1>6. job.id \in DOMAIN NodeTags /\ NodeReady(job.id)
  BY <1>1 DEF NetInv, JobOK, ProgressOK, JobReady
<1>7. /\ vid' \in [Vertices -> DOMAIN NodeTags \cup {Nothing}] /\ vid'[v] = job.id
      /\ \A u \in Vertices : u # v => vid'[u] = vid[u]
  BY <1>1, <1>2, <1>3, <1>6
<1>8. NetworkOK'
  BY <1>1, <1>2, <1>3, <1>4, <1>5, <1>7 DEF NetworkOK
<1>9. StoredIds' = StoredIds
  BY <1>1, <1>4 DEF StoredIds
<1>10. /\ Members(graph'.vertices) = Members(graph.vertices) \cup {v}
       /\ Members(graph.vertices) \subseteq Vertices
  <2>1. Members(graph.vertices) \subseteq Vertices
    BY <1>2, LenProperties, ElementOfSeq DEF Members
  <2>2. Members(Append(graph.vertices, v)) = Members(graph.vertices) \cup {v}
    BY <1>2, <1>3, Appended
  <2> QED
    BY <1>4, <2>1, <2>2
<1>11. \A u \in Members(graph.vertices) : u # v /\ vid'[u] = vid[u]
  BY <1>3, <1>7, <1>10
<1>12. \A u \in Members(graph'.vertices) : NodeReady(vid[u])'
  BY <1>1, <1>6, <1>7, <1>10, <1>11 DEF NetInv, TagsStored, NodeReady
<1>13. \A e \in Members(graph'.edges) : WayReady(eid[e])'
  BY <1>1, <1>4 DEF NetInv, TagsStored, WayReady
<1>14. TagsStored'
  BY <1>1, <1>9, <1>12, <1>13 DEF NetInv, TagsStored
<1>15. JobOK'
  BY <1>1, <1>9, JobStays
<1>16. ProgressOK'
  <2>1. AtsIn(control', JobPoints') /\ Len(control'.stack) # 4 /\ JobReady'
    BY <1>1, JobFixed, FourDeep DEF NetInv, ProgressOK, JobReady, NodeReady
  <2> QED
    BY <1>1, <2>1 DEF ProgressOK, Points
<1> QED
  BY <1>4, <1>8, <1>9, <1>11, <1>14, <1>15, <1>16 DEF NetInv

LEMMA EdgeJob ==
  ASSUME NetInv, pc = "add", job.kind = "edge"
  PROVE  /\ From \in Members(indexMap) /\ To \in Members(indexMap)
         /\ From \in Vertices /\ To \in Vertices
         /\ job.from + 1 \in DOMAIN indexMap /\ job.to + 1 \in DOMAIN indexMap
         /\ job.id \in DOMAIN WayTags /\ WayReady(job.id)
<1>1. /\ {job.from, job.to} \subseteq 0..(Len(indexMap) - 1) /\ job.id \in DOMAIN WayTags
      /\ indexMap \in Seq(Vertices) /\ Len(indexMap) \in Nat /\ DOMAIN indexMap = 1..Len(indexMap)
  BY LenProperties DEF NetInv, JobOK, NetworkOK
<1>2. job.from + 1 \in DOMAIN indexMap /\ job.to + 1 \in DOMAIN indexMap
  BY <1>1
<1>3. WayReady(job.id)
  BY DEF NetInv, ProgressOK, JobReady
<1> QED
  BY <1>1, <1>2, <1>3, ElementOfSeq DEF From, To, Members

LEMMA StoreEdgeKeeps ==
  ASSUME NetInv, CallsInv', TablesInv', StoreEdge
  PROVE  /\ NetInv' /\ StoredIds' = StoredIds \cup {job.id}
         /\ graph'.edges = Append(graph.edges, NewEdge) /\ NewEdge \notin Members(graph.edges)
         /\ \A e \in Members(graph.edges) :
               eid'[e] = eid[e] /\ graph'.source[e] = graph.source[e]
                                /\ graph'.target[e] = graph.target[e]
         /\ eid'[NewEdge] = job.id /\ graph'.source[NewEdge] = From /\ graph'.target[NewEdge] = To
         /\ graph'.vertices = graph.vertices
<1> DEFINE e == NewEdge
<1>1. /\ pc = "add" /\ job.kind = "edge" /\ graph' = WithEdge(graph, e, From, To)
      /\ eid' = [eid EXCEPT ![e] = job.id] /\ pc' = "returned" /\ control' = Leave(control)
      /\ UNCHANGED <<vid, indexMap, tables, job, got>>
      /\ e \in FreeEdges(graph)
  BY DEF StoreEdge, NewEdge, Returns
<1> HIDE DEF e
<1>2. /\ GraphOK(graph) /\ Bidirectional(graph) /\ Indexed(graph) /\ graph \in Graphs
      /\ graph.vertices = indexMap /\ indexMap \in Seq(Vertices) /\ graph.edges \in Seq(Edges)
      /\ vid \in [Vertices -> DOMAIN NodeTags \cup {Nothing}]
      /\ eid \in [Edges -> DOMAIN WayTags \cup {Nothing}]
      /\ \A d \in Members(graph.edges) :
            {graph.source[d], graph.target[d]} \subseteq Members(indexMap)
  BY <1>1 DEF NetInv, NetworkOK, GraphOK, Graphs
<1>3. e \in Edges /\ e \notin Members(graph.edges)
  BY <1>1 DEF FreeEdges
<1>4. /\ From \in Members(indexMap) /\ To \in Members(indexMap)
      /\ From \in Vertices /\ To \in Vertices
      /\ job.id \in DOMAIN WayTags /\ WayReady(job.id)
  BY <1>1, EdgeJob
<1>5. EdgeIn(graph, graph', e, From, To)
  BY <1>1, <1>2, <1>3, <1>4, WithEdgeFields
<1>6. /\ graph'.direction = graph.direction /\ graph'.vertices = graph.vertices
      /\ graph'.edges = Append(graph.edges, e)
      /\ graph'.source = [graph.source EXCEPT ![e] = From]
      /\ graph'.target = [graph.target EXCEPT ![e] = To]
  BY <1>5 DEF EdgeIn
<1>7. GraphOK(graph') /\ Indexed(graph') /\ Bidirectional(graph')
  BY <1>1, <1>2, <1>4, <1>6, WithEdgeOK, AdditionsIndexed DEF Bidirectional
<1>8. /\ Members(graph'.edges) = Members(graph.edges) \cup {e}
      /\ Members(graph.edges) \subseteq Edges
  <2>1. Members(graph.edges) \subseteq Edges
    BY <1>2, LenProperties, ElementOfSeq DEF Members
  <2>2. Members(Append(graph.edges, e)) = Members(graph.edges) \cup {e}
    BY <1>2, <1>3, Appended
  <2> QED
    BY <1>6, <2>1, <2>2
<1>9. /\ \A d \in Members(graph.edges) : d # e /\ eid'[d] = eid[d]
            /\ graph'.source[d] = graph.source[d] /\ graph'.target[d] = graph.target[d]
      /\ eid'[e] = job.id /\ graph'.source[e] = From /\ graph'.target[e] = To
      /\ eid' \in [Edges -> DOMAIN WayTags \cup {Nothing}]
  <2>1. graph.source \in [Edges -> Vertices \cup {NoVertex}]
        /\ graph.target \in [Edges -> Vertices \cup {NoVertex}]
    BY <1>2 DEF Graphs, EdgeEnds
  <2> QED
    BY <1>1, <1>2, <1>3, <1>4, <1>6, <1>8, <2>1
<1>10. NetworkOK'
  <2>1. \A d \in Members(graph'.edges) :
           {graph'.source[d], graph'.target[d]} \subseteq Members(indexMap)
    BY <1>2, <1>4, <1>8, <1>9
  <2> QED
    BY <1>1, <1>2, <1>6, <1>7, <1>9, <2>1 DEF NetworkOK
<1>11. StoredIds' = StoredIds \cup {job.id}
  BY <1>8, <1>9 DEF StoredIds
<1>12. \A u \in Members(graph'.vertices) : NodeReady(vid[u])'
  BY <1>1, <1>6 DEF NetInv, TagsStored, NodeReady
<1>13. \A d \in Members(graph'.edges) : WayReady(eid[d])'
  BY <1>1, <1>4, <1>8, <1>9 DEF NetInv, TagsStored, WayReady
<1>14. NodesStand(tables') /\ WaysStand(tables', StoredIds')
  BY <1>1, <1>11 DEF NetInv, TagsStored, WaysStand
<1>15. TagsStored'
  BY <1>12, <1>13, <1>14 DEF TagsStored
<1>16. JobOK'
  BY <1>1, <1>11, JobStays
<1>17. ProgressOK'
  <2>1. ControlOK(control) /\ Len(control.stack) = 1 /\ AtsIn(control, JobPoints)
    BY <1>1 DEF NetInv, CallsInv, PlaceOK, ProgressOK
  <2>2. Len(control.stack) >= 1
    BY <2>1
  <2>3. AtsIn(control', JobPoints) /\ Len(control'.stack) = 0
    BY <1>1, <2>1, <2>2, AtsLeave DEF CallsInv, PlaceOK
  <2> QED
    BY <1>1, <2>3, JobFixed DEF ProgressOK, Points
<1> QED
  BY <1>6, <1>3, <1>9, <1>10, <1>11, <1>15, <1>16, <1>17 DEF NetInv, e

LEMMA NewestIs ==
  ASSUME NetInv, pc = "index"
  PROVE  /\ Newest \in Vertices /\ graph.vertices = Append(indexMap, Newest)
         /\ vid[Newest] = job.id /\ Newest \notin Members(indexMap)
         /\ Newest \in Members(graph.vertices)
<1>1. PICK v \in Vertices : graph.vertices = Append(indexMap, v) /\ vid[v] = job.id
  BY DEF NetInv, NetworkOK
<1>2. indexMap \in Seq(Vertices) /\ Distinct(graph.vertices)
  BY DEF NetInv, NetworkOK, GraphOK, EachOnce
<1>3. Len(graph.vertices) = Len(indexMap) + 1 /\ graph.vertices[Len(indexMap) + 1] = v
  BY <1>1, <1>2, AppendProperties
<1>4. Newest = v
  BY <1>3 DEF Newest
<1>5. v \notin Members(indexMap)
  BY <1>1, <1>2, DistinctAppended
<1>6. v \in Members(graph.vertices)
  BY <1>1, <1>2, Appended
<1> QED
  BY <1>1, <1>4, <1>5, <1>6

LEMMA IndexVertexKeeps ==
  ASSUME NetInv, CallsInv', TablesInv', IndexVertex
  PROVE  NetInv' /\ StoredIds' = StoredIds
<1>1. /\ pc = "index" /\ indexMap' = Append(indexMap, Newest)
      /\ pc' = "returned" /\ control' = Leave(control)
      /\ UNCHANGED <<graph, vid, eid, tables, job, got>>
  BY DEF IndexVertex, Returns
<1>2. Newest \in Vertices /\ graph.vertices = Append(indexMap, Newest)
  BY <1>1, NewestIs
<1>3. indexMap \in Seq(Vertices) /\ indexMap' \in Seq(Vertices)
      /\ Members(indexMap) \subseteq Members(indexMap')
  BY <1>1, <1>2, Appended DEF NetInv, NetworkOK
<1>4. NetworkOK'
  BY <1>1, <1>2, <1>3 DEF NetInv, NetworkOK
<1>5. StoredIds' = StoredIds
  BY <1>1 DEF StoredIds
<1>6. /\ \A v \in Members(graph'.vertices) : NodeReady(vid[v])'
      /\ \A e \in Members(graph'.edges) : WayReady(eid[e])'
  BY <1>1 DEF NetInv, TagsStored, NodeReady, WayReady
<1>7. TagsStored'
  BY <1>1, <1>5, <1>6 DEF NetInv, TagsStored
<1>8. JobOK'
  BY <1>1, <1>2, <1>5, JobStays
<1>9. ProgressOK'
  <2>1. ControlOK(control) /\ Len(control.stack) = 1 /\ AtsIn(control, JobPoints)
    BY <1>1 DEF NetInv, CallsInv, PlaceOK, ProgressOK
  <2>2. Len(control.stack) >= 1
    BY <2>1
  <2>3. AtsIn(control', JobPoints) /\ Len(control'.stack) = 0
    BY <1>1, <2>1, <2>2, AtsLeave DEF CallsInv, PlaceOK
  <2> QED
    BY <1>1, <2>3, JobFixed DEF ProgressOK, Points
<1> QED
  BY <1>4, <1>5, <1>7, <1>8, <1>9 DEF NetInv

LEMMA WithoutNone ==
  ASSUME NEW S, NEW s \in Seq(S), NEW dead, Members(s) \cap dead = {}
  PROVE  Without(s, dead) = s
<1> DEFINE T == {w \in Seq(S) : Members(w) \cap dead = {} => Without(w, dead) = w}
<1>1. <<>> \in T
  BY WithoutNothing, EmptySeq
<1>2. ASSUME NEW w \in T, NEW x \in S PROVE Append(w, x) \in T
  <2>1. Append(w, x) \in Seq(S) /\ Members(Append(w, x)) = Members(w) \cup {x}
    BY Appended
  <2>2. Without(Append(w, x), dead) = IF x \in dead THEN Without(w, dead)
                                      ELSE Append(Without(w, dead), x)
    BY WithoutAppended
  <2> QED
    BY <2>1, <2>2
<1>3. T = Seq(S)
  <2>1. T \in SUBSET Seq(S)
    OBVIOUS
  <2> HIDE DEF T
  <2> QED
    BY <1>1, <1>2, <2>1, ListInduction
<1> QED
  BY <1>3

LEMMA IndexFailsKeeps ==
  ASSUME NetInv, CallsInv', TablesInv', IndexFails
  PROVE  /\ NetInv' /\ StoredIds' = StoredIds
         /\ graph'.edges = graph.edges /\ graph'.source = graph.source
         /\ graph'.target = graph.target
<1> DEFINE v == Newest
<1>1. /\ pc = "index" /\ graph' = WithoutVertex(graph, v) /\ pc' = "throw"
      /\ UNCHANGED <<vid, eid, indexMap, tables, job, control, got>>
  BY DEF IndexFails, Fails
<1>2. /\ v \in Vertices /\ graph.vertices = Append(indexMap, v) /\ v \notin Members(indexMap)
      /\ v \in Members(graph.vertices)
  BY <1>1, NewestIs
<1>3. /\ GraphOK(graph) /\ Bidirectional(graph) /\ Indexed(graph) /\ graph \in Graphs
      /\ indexMap \in Seq(Vertices) /\ Distinct(graph.vertices)
      /\ \A e \in Members(graph.edges) :
            {graph.source[e], graph.target[e]} \subseteq Members(indexMap)
  BY <1>1 DEF NetInv, NetworkOK, GraphOK, EachOnce
<1> HIDE DEF v
<1>4. Without(graph.vertices, {v}) = indexMap
  <2>1. Without(indexMap, {v}) = indexMap
    BY <1>2, <1>3, WithoutNone
  <2> QED
    BY <1>2, <1>3, <2>1, WithoutAppended
<1>5. /\ graph'.direction = graph.direction /\ graph'.edges = graph.edges
      /\ graph'.eindex = graph.eindex /\ graph'.source = graph.source
      /\ graph'.target = graph.target /\ graph'.vertices = indexMap
      /\ graph'.vindex = [graph.vindex EXCEPT ![v] = 0]
  BY <1>1, <1>3, <1>4 DEF WithoutVertex, Graphs
<1>6. GraphOK(graph')
  <2>1. \A e \in Members(graph.edges) : v \notin {graph.source[e], graph.target[e]}
    BY <1>2, <1>3
  <2> QED
    BY <1>1, <1>2, <1>3, <2>1, WithoutVertexOK
<1>7. Indexed(graph')
  <2>1. \A u \in Members(indexMap) : Place(u, graph.vertices) = Place(u, indexMap) /\ u # v
    BY <1>2, <1>3, PlaceAppended
  <2>2. Members(indexMap) \subseteq Vertices /\ Members(indexMap) \subseteq Members(graph.vertices)
    BY <1>2, <1>3, Appended, LenProperties, ElementOfSeq DEF Members
  <2>3. graph.vindex \in [Vertices -> Nat]
    BY <1>3 DEF Graphs
  <2>4. \A u \in Members(indexMap) : graph'.vindex[u] = graph.vindex[u]
    BY <1>5, <2>1, <2>2, <2>3
  <2> QED
    BY <1>3, <1>5, <2>1, <2>2, <2>4 DEF Indexed
<1>8. NetworkOK'
  BY <1>1, <1>3, <1>5, <1>6, <1>7 DEF NetInv, NetworkOK, Bidirectional
<1>9. StoredIds' = StoredIds
  BY <1>1, <1>5 DEF StoredIds
<1>10. Members(indexMap) \subseteq Members(graph.vertices)
  BY <1>2, <1>3, Appended
<1>11. /\ \A u \in Members(graph'.vertices) : NodeReady(vid[u])'
       /\ \A e \in Members(graph'.edges) : WayReady(eid[e])'
  BY <1>1, <1>5, <1>10 DEF NetInv, TagsStored, NodeReady, WayReady
<1>12. TagsStored'
  BY <1>1, <1>9, <1>11 DEF NetInv, TagsStored
<1>13. JobOK'
  BY <1>1, <1>9, JobStays
<1>14. ProgressOK'
  <2>1. AtsIn(control', JobPoints') /\ Len(control'.stack) # 4
    BY <1>1, JobFixed DEF NetInv, CallsInv, PlaceOK, ProgressOK
  <2> QED
    BY <1>1, <2>1 DEF ProgressOK, Points
<1> QED
  BY <1>5, <1>8, <1>9, <1>12, <1>13, <1>14 DEF NetInv

-----------------------------------------------------------------------------
(* The invariant holds.                                                    *)

LEMMA NetInit == ImportStoreInit => NetInv
<1> SUFFICES ASSUME ImportStoreInit PROVE NetInv
  OBVIOUS
<1>1. CallsInv /\ TablesInv
  BY CallsInit, TablesInit
<1>2. /\ graph = EmptyGraph("bidirectional") /\ indexMap = <<>> /\ pc = "idle"
      /\ vid = [v \in Vertices |-> Nothing] /\ eid = [e \in Edges |-> Nothing]
      /\ job = [kind |-> "none"] /\ control.stack = <<>>
      /\ DOMAIN tables.nodes = {} /\ DOMAIN tables.edges = {}
  BY DEF ImportStoreInit
<1>3. GraphOK(graph)
  BY <1>2, EmptyGraphOK DEF Kinds
<1>4. graph.vertices = <<>> /\ graph.edges = <<>> /\ graph.direction = "bidirectional"
  BY <1>2 DEF EmptyGraph
<1>5. Members(graph.vertices) = {} /\ Members(graph.edges) = {}
  BY <1>4, EmptyList
<1>6. NetworkOK
  <2>1. <<>> \in Seq(Vertices)
    BY EmptySeq
  <2>2. Indexed(graph) /\ Bidirectional(graph)
    BY <1>4, <1>5 DEF Indexed, Bidirectional
  <2> QED
    BY <1>2, <1>3, <1>4, <1>5, <2>1, <2>2 DEF NetworkOK
<1>7. TagsStored
  BY <1>2, <1>5 DEF TagsStored, NodesStand, WaysStand
<1>8. JobOK
  BY <1>2 DEF JobOK
<1>9. ProgressOK
  <2>1. DOMAIN control.stack = {} /\ Len(control.stack) = 0
    BY <1>2, EmptySeq
  <2> QED
    BY <1>2, <2>1 DEF ProgressOK, AtsIn, Points
<1> QED
  BY <1>1, <1>6, <1>7, <1>8, <1>9 DEF NetInv

LEMMA BeginsAnyJob == "begin" \in JobPoints'
<1>1. CASE job'.kind = "merge"
  <2>1. JobPoints' = {"begin", "merge"}
    BY <1>1 DEF JobPoints
  <2> QED
    BY <2>1
<1>2. CASE job'.kind # "merge" /\ JobTags' = <<>>
  <2>1. JobPoints' = {"begin"}
    BY <1>2 DEF JobPoints
  <2> QED
    BY <2>1
<1>3. CASE job'.kind # "merge" /\ JobTags' # <<>>
  <2>1. JobPoints' = {"begin", "map", "container", "id"}
    BY <1>3 DEF JobPoints
  <2> QED
    BY <2>1
<1> QED
  BY <1>1, <1>2, <1>3

\* A call that keeps to the contract.
LEMMA CallKeepsNet ==
  ASSUME NetInv, NEW j, Call(j), JobOK'
  PROVE  NetInv' /\ NetworkSame /\ tables' = tables
<1>1. /\ pc = "idle" /\ job' = j /\ pc' = "begin" /\ NetworkSame /\ tables' = tables /\ got' = got
      /\ control' = Enter(control, "graph", "begin")
  BY DEF Call, NetworkSame, graphDataVars
<1>2. CallsInv' /\ TablesInv'
  BY <1>1, CallKeeps, TablesSame DEF NetInv
<1>3. NetworkOK' /\ TagsStored'
  BY <1>1, <1>2, AllKeptSame, DataKept
<1>4. ControlOK(control) /\ Len(control.stack) = 0 /\ control.stack \in Seq(Frames)
  BY <1>1 DEF NetInv, CallsInv, PlaceOK, ControlOK, Controls
<1>5. AtsIn(control, JobPoints')
  BY <1>4, NoneInEmpty DEF AtsIn
<1>6. AtsIn(control', JobPoints')
  <2>1. "graph" \in Helpers /\ "begin" \in Points /\ "begin" \in JobPoints'
    BY BeginsAnyJob DEF Helpers, Points
  <2> DEFINE S == JobPoints'
  <2> HIDE DEF S
  <2>2. AtsIn(Enter(control, "graph", "begin"), S)
    BY <1>4, <1>5, <2>1, AtsEnter DEF S
  <2> QED
    BY <1>1, <2>2 DEF S
<1>7. Len(control'.stack) # 4
  BY <1>1, <1>2, FourDeep
<1>8. ProgressOK'
  BY <1>1, <1>6, <1>7, BeginsAnyJob DEF ProgressOK
<1> QED
  BY <1>1, <1>2, <1>3, <1>8 DEF NetInv

LEMMA RequestKeeps ==
  ASSUME NetInv, Request
  PROVE  NetInv' /\ NetworkSame /\ tables' = tables
<1>0. ASSUME NEW j, Call(j)
      PROVE  job' = j /\ NetworkSame /\ StoredIds' = StoredIds /\ indexMap' = indexMap /\ pc' = "begin"
  BY <1>0 DEF Call, NetworkSame, graphDataVars, StoredIds
<1>1. CASE \E id \in DOMAIN NodeTags : Call([kind |-> "vertex", id |-> id])
  <2>1. PICK id \in DOMAIN NodeTags : Call([kind |-> "vertex", id |-> id])
    BY <1>1
  <2>2. JobOK'
    BY <1>0, <2>1 DEF JobOK
  <2> QED
    BY <2>1, <2>2, CallKeepsNet
<1>2. CASE \E id \in DOMAIN WayTags, from, to \in 0..(Len(indexMap) - 1) :
              Call([kind |-> "edge", id |-> id, from |-> from, to |-> to])
  <2>1. PICK id \in DOMAIN WayTags, from \in 0..(Len(indexMap) - 1), to \in 0..(Len(indexMap) - 1) :
           Call([kind |-> "edge", id |-> id, from |-> from, to |-> to])
    BY <1>2
  <2> DEFINE j == [kind |-> "edge", id |-> id, from |-> from, to |-> to]
  <2>2. j.kind = "edge" /\ j.id = id /\ j.from = from /\ j.to = to
    OBVIOUS
  <2> HIDE DEF j
  <2>3. job' = j /\ pc' = "begin" /\ indexMap' = indexMap
    BY <1>0, <2>1 DEF j
  <2>4. JobOK'
    BY <2>2, <2>3 DEF JobOK
  <2> QED
    BY <2>1, <2>4, CallKeepsNet
<1>3. CASE \E e, f \in Members(graph.edges) :
              /\ eid[e] # eid[f]
              /\ Call([kind |-> "merge", id |-> eid[e], other |-> eid[f]])
  <2>1. PICK e \in Members(graph.edges), f \in Members(graph.edges) :
           /\ eid[e] # eid[f]
           /\ Call([kind |-> "merge", id |-> eid[e], other |-> eid[f]])
    BY <1>3
  <2> DEFINE j == [kind |-> "merge", id |-> eid[e], other |-> eid[f]]
  <2>2. /\ j.kind = "merge" /\ j.id = eid[e] /\ j.other = eid[f]
        /\ j.id \in StoredIds /\ j.other \in StoredIds
    BY DEF StoredIds
  <2> HIDE DEF j
  <2>3. job' = j /\ pc' = "begin" /\ StoredIds' = StoredIds
    BY <1>0, <2>1 DEF j
  <2>4. JobOK'
    BY <2>1, <2>2, <2>3 DEF JobOK
  <2> QED
    BY <2>1, <2>4, CallKeepsNet
<1> QED
  BY <1>1, <1>2, <1>3 DEF Request

LEMMA ResumeKeeps ==
  ASSUME NetInv, Resume
  PROVE  NetInv'
<1>1. /\ pc = "returned" /\ pc' = "idle" /\ NetworkSame /\ tables' = tables /\ job' = job
      /\ got' = got /\ control' = control
  BY DEF Resume, NetworkSame, graphDataVars
<1>2. CallsInv' /\ TablesInv'
  BY <1>1, TablesSame DEF NetInv, CallsInv, PlaceOK, Points
<1>3. NetworkOK' /\ TagsStored' /\ StoredIds' = StoredIds
  BY <1>1, <1>2, AllKeptSame, DataKept
<1>4. JobOK'
  BY <1>1, <1>3 DEF NetInv, JobOK, NetworkSame
<1>5. ProgressOK'
  <2>1. Len(control'.stack) = 0
    BY <1>1, <1>2 DEF CallsInv, PlaceOK
  <2> QED
    BY <1>1, <2>1, JobFixed DEF NetInv, ProgressOK, Points
<1> QED
  BY <1>2, <1>3, <1>4, <1>5 DEF NetInv

LEMMA StoreStepKeepsNet ==
  ASSUME NetInv, StoreStep
  PROVE  NetInv'
<1>1. CallsInv' /\ TablesInv'
  BY StoreStepKeeps, StoreStepTables DEF NetInv
<1> QED
  BY <1>1, BeginKeeps, TakeMapKeeps, ReserveKeeps, InternKeeps, RecordKeeps, StoreVertexKeeps,
     StoreEdgeKeeps, IndexVertexKeeps, IndexFailsKeeps, MergeKeeps, UnwindKeeps, FailuresKeep
  DEF StoreStep

LEMMA NetStep == NetInv /\ [ImportStoreNext]_importStoreVars => NetInv'
<1> SUFFICES ASSUME NetInv, [ImportStoreNext]_importStoreVars PROVE NetInv'
  OBVIOUS
<1>1. CASE UNCHANGED importStoreVars
  <2>1. /\ NetworkSame /\ tables' = tables /\ job' = job /\ pc' = pc /\ control' = control
        /\ got' = got
    BY <1>1 DEF importStoreVars, graphDataVars, NetworkSame
  <2>2. CallsInv' /\ TablesInv'
    BY <2>1, TablesSame DEF NetInv, CallsInv, PlaceOK, Points
  <2>3. NetworkOK'
    BY <2>1 DEF NetInv, NetworkOK, NetworkSame
  <2>4. StoredIds' = StoredIds
    BY <2>1 DEF StoredIds, NetworkSame
  <2>5. /\ \A v \in Members(graph.vertices) : NodeReady(vid[v])'
        /\ \A e \in Members(graph.edges) : WayReady(eid[e])'
    BY <2>1 DEF NetInv, TagsStored, NodeReady, WayReady, NetworkSame
  <2>6. TagsStored'
    BY <2>1, <2>4, <2>5 DEF NetInv, TagsStored, NetworkSame
  <2>7. JobOK'
    BY <2>1, <2>4 DEF NetInv, JobOK, NetworkSame
  <2>8. JobPoints' = JobPoints /\ JobTags' = JobTags
    BY <2>1, JobFixed
  <2>9. Collected' = Collected /\ JobReady' = JobReady
    BY <2>1, <2>8 DEF Collected, JobReady, NodeReady, WayReady
  <2>10. ProgressOK'
    BY <2>1, <2>8, <2>9 DEF NetInv, ProgressOK
  <2> QED
    BY <2>2, <2>3, <2>6, <2>7, <2>10 DEF NetInv
<1> QED
  BY <1>1, RequestKeeps, ResumeKeeps, StoreStepKeepsNet DEF ImportStoreNext

\* Whatever fails and is done again, the graph of an import is sound, its index lists its
\* vertices, and what is in it has the tags of its source (graph_helper.hpp, tag_helper.hpp).
THEOREM NetworkInvariant == ImportStoreSpec => []NetInv
  BY NetInit, NetStep, PTL DEF ImportStoreSpec

-----------------------------------------------------------------------------
(* The steps of the helpers implement NetworkStore.                        *)

\* What the tag ids of a list stand for.
Looked(t, list) == [k \in DOMAIN list |-> TagOf(t, list[k])]

LEMMA LookedIs ==
  ASSUME NEW t, NEW S, NEW list \in Seq(S)
  PROVE  /\ Looked(t, list) \in Seq({TagOf(t, x) : x \in S})
         /\ Len(Looked(t, list)) = Len(list) /\ DOMAIN Looked(t, list) = DOMAIN list
         /\ \A k \in 1..Len(list) : Looked(t, list)[k] = TagOf(t, list[k])
<1>1. Len(list) \in Nat /\ DOMAIN list = 1..Len(list) /\ \A k \in 1..Len(list) : list[k] \in S
  BY LenProperties, ElementOfSeq
<1>2. Looked(t, list) \in [1..Len(list) -> {TagOf(t, x) : x \in S}]
  BY <1>1 DEF Looked
<1>3. Looked(t, list) \in Seq({TagOf(t, x) : x \in S})
  BY <1>1, <1>2, SeqDef
<1>4. DOMAIN Looked(t, list) = 1..Len(list)
  BY <1>2
<1>5. Len(Looked(t, list)) = Len(list)
  BY <1>1, <1>3, <1>4, LenProperties
<1> QED
  BY <1>1, <1>3, <1>4, <1>5 DEF Looked

LEMMA LookedAppended ==
  ASSUME NEW t, NEW S, NEW list \in Seq(S), NEW x \in S
  PROVE  Looked(t, Append(list, x)) = Append(Looked(t, list), TagOf(t, x))
<1> DEFINE R == {TagOf(t, y) : y \in S}
           a == Looked(t, Append(list, x))
           b == Append(Looked(t, list), TagOf(t, x))
<1>1. /\ Append(list, x) \in Seq(S) /\ Len(Append(list, x)) = Len(list) + 1
      /\ \A k \in 1..Len(list) : Append(list, x)[k] = list[k]
      /\ Append(list, x)[Len(list) + 1] = x /\ Len(list) \in Nat
  BY AppendProperties, LenProperties
<1>2. TagOf(t, x) \in R
  OBVIOUS
<1>3. /\ Looked(t, list) \in Seq(R) /\ Len(Looked(t, list)) = Len(list)
      /\ \A k \in 1..Len(list) : Looked(t, list)[k] = TagOf(t, list[k])
  BY LookedIs
<1> HIDE DEF R
<1>4. /\ b \in Seq(R) /\ Len(b) = Len(list) + 1
      /\ \A k \in 1..Len(list) : b[k] = TagOf(t, list[k])
      /\ b[Len(list) + 1] = TagOf(t, x)
  BY <1>2, <1>3, AppendProperties
<1>5. /\ a \in Seq(R) /\ Len(a) = Len(list) + 1
      /\ \A k \in 1..(Len(list) + 1) : a[k] = TagOf(t, Append(list, x)[k])
  <2> DEFINE new == Append(list, x)
  <2>1. new \in Seq(S) /\ Len(new) = Len(list) + 1
    BY <1>1
  <2> HIDE DEF new
  <2>2. /\ Looked(t, new) \in Seq({TagOf(t, y) : y \in S}) /\ Len(Looked(t, new)) = Len(new)
        /\ \A k \in 1..Len(new) : Looked(t, new)[k] = TagOf(t, new[k])
    BY <2>1, LookedIs
  <2> QED
    BY <2>1, <2>2 DEF new, R
<1> HIDE DEF a, b
<1>6. \A k \in 1..(Len(list) + 1) : a[k] = b[k]
  <2> SUFFICES ASSUME NEW k \in 1..(Len(list) + 1) PROVE a[k] = b[k]
    OBVIOUS
  <2>1. k \in 1..Len(list) \/ k = Len(list) + 1
    BY <1>1
  <2> QED
    BY <1>1, <1>4, <1>5, <2>1
<1>7. a = b
  BY <1>4, <1>5, <1>6, SeqEqual
<1> QED
  BY <1>7 DEF a, b

LEMMA LookedConcat ==
  ASSUME NEW t, NEW S, NEW p \in Seq(S), NEW q \in Seq(S)
  PROVE  Looked(t, p \o q) = Looked(t, p) \o Looked(t, q)
<1> DEFINE R == {TagOf(t, y) : y \in S}
           a == Looked(t, p \o q)
           b == Looked(t, p) \o Looked(t, q)
           N == Len(p) + Len(q)
<1>1. /\ p \o q \in Seq(S) /\ Len(p \o q) = N /\ Len(p) \in Nat /\ Len(q) \in Nat
      /\ \A k \in 1..N : (p \o q)[k] = IF k <= Len(p) THEN p[k] ELSE q[k - Len(p)]
  BY ConcatProperties, LenProperties
<1>2. /\ Looked(t, p) \in Seq(R) /\ Len(Looked(t, p)) = Len(p)
      /\ \A k \in 1..Len(p) : Looked(t, p)[k] = TagOf(t, p[k])
  BY LookedIs
<1>3. /\ Looked(t, q) \in Seq(R) /\ Len(Looked(t, q)) = Len(q)
      /\ \A k \in 1..Len(q) : Looked(t, q)[k] = TagOf(t, q[k])
  BY LookedIs
<1>4. /\ a \in Seq(R) /\ Len(a) = N
      /\ \A k \in 1..N : a[k] = TagOf(t, (p \o q)[k])
  <2> DEFINE new == p \o q
  <2>1. new \in Seq(S) /\ Len(new) = N
    BY <1>1
  <2> HIDE DEF new
  <2>2. /\ Looked(t, new) \in Seq({TagOf(t, y) : y \in S}) /\ Len(Looked(t, new)) = Len(new)
        /\ \A k \in 1..Len(new) : Looked(t, new)[k] = TagOf(t, new[k])
    BY <2>1, LookedIs
  <2> QED
    BY <2>1, <2>2 DEF new, R
<1> HIDE DEF R
<1>5. /\ b \in Seq(R) /\ Len(b) = N
      /\ \A k \in 1..N : b[k] = IF k <= Len(p) THEN Looked(t, p)[k] ELSE Looked(t, q)[k - Len(p)]
  <2> DEFINE u == Looked(t, p)
             v == Looked(t, q)
  <2>1. u \in Seq(R) /\ v \in Seq(R) /\ Len(u) = Len(p) /\ Len(v) = Len(q) /\ b = u \o v
    BY <1>2, <1>3
  <2> HIDE DEF u, v, b
  <2>2. /\ u \o v \in Seq(R) /\ Len(u \o v) = Len(u) + Len(v)
        /\ \A k \in 1..(Len(u) + Len(v)) : (u \o v)[k] = IF k <= Len(u) THEN u[k] ELSE v[k - Len(u)]
    BY <2>1, ConcatProperties
  <2>3. /\ b \in Seq(R) /\ Len(b) = N
        /\ \A k \in 1..N : b[k] = IF k <= Len(p) THEN u[k] ELSE v[k - Len(p)]
    BY <2>1, <2>2
  <2> QED
    BY <2>3 DEF u, v
<1> HIDE DEF a, b
<1>6. \A k \in 1..N : a[k] = b[k]
  <2> SUFFICES ASSUME NEW k \in 1..N PROVE a[k] = b[k]
    OBVIOUS
  <2>1. CASE k <= Len(p)
    <3>1. k \in 1..Len(p)
      BY <1>1, <2>1
    <3>2. b[k] = TagOf(t, p[k]) /\ (p \o q)[k] = p[k]
      BY <1>1, <1>2, <1>5, <2>1, <3>1
    <3> QED
      BY <1>4, <3>2
  <2>2. CASE ~(k <= Len(p))
    <3>1. k - Len(p) \in 1..Len(q)
      BY <1>1, <2>2
    <3>2. b[k] = TagOf(t, q[k - Len(p)]) /\ (p \o q)[k] = q[k - Len(p)]
      BY <1>1, <1>3, <1>5, <2>2, <3>1
    <3> QED
      BY <1>4, <3>2
  <2> QED
    BY <2>1, <2>2
<1>7. a = b
  <2> HIDE DEF N
  <2> QED
    BY <1>4, <1>5, <1>6, SeqEqual
<1> QED
  BY <1>7 DEF a, b

\* Different tag ids stand for different tags.
LEMMA TagsDiffer ==
  ASSUME NEW t, TablesOK(t), NEW x \in DOMAIN t.pair.back, NEW y \in DOMAIN t.pair.back,
         TagOf(t, x) = TagOf(t, y)
  PROVE  x = y
<1>1. PICK a \in DOMAIN t.key.back, b \in DOMAIN t.value.back : t.pair.back[x] = <<a, b>>
  BY DEF TablesOK
<1>2. PICK c \in DOMAIN t.key.back, d \in DOMAIN t.value.back : t.pair.back[y] = <<c, d>>
  BY DEF TablesOK
<1>3. TagOf(t, x) = <<t.key.back[a], t.value.back[b]>>
  BY <1>1 DEF Readable, TagOf
<1>4. TagOf(t, y) = <<t.key.back[c], t.value.back[d]>>
  BY <1>2 DEF Readable, TagOf
<1>5. t.key.back[a] = t.key.back[c] /\ t.value.back[b] = t.value.back[d]
  <2>1. <<t.key.back[a], t.value.back[b]>> = <<t.key.back[c], t.value.back[d]>>
    BY <1>3, <1>4
  <2> QED
    BY <2>1
<1>6. a = c /\ b = d
  BY <1>1, <1>2, <1>5 DEF TablesOK, TableOK
<1>7. t.pair.back[x] = t.pair.back[y]
  BY <1>1, <1>2, <1>6
<1> QED
  BY <1>7 DEF TablesOK, TableOK

\* Looking the tags up and leaving out those of another list may be done in either order.
LEMMA LookedSifted ==
  ASSUME NEW t, TablesOK(t), NEW own \in Seq(DOMAIN t.pair.back),
         NEW list \in Seq(DOMAIN t.pair.back)
  PROVE  Looked(t, Without(list, Members(own))) = Without(Looked(t, list), Members(Looked(t, own)))
<1> DEFINE S == DOMAIN t.pair.back
           dead == Members(own)
           gone == Members(Looked(t, own))
           R == {TagOf(t, y) : y \in S}
           T == {w \in Seq(S) : Looked(t, Without(w, dead)) = Without(Looked(t, w), gone)}
<1>1. \A x \in S : TagOf(t, x) \in gone <=> x \in dead
  <2>1. /\ Len(Looked(t, own)) = Len(own) /\ DOMAIN own = 1..Len(own)
        /\ DOMAIN Looked(t, own) = DOMAIN own
        /\ \A k \in 1..Len(own) : own[k] \in S /\ Looked(t, own)[k] = TagOf(t, own[k])
    BY LookedIs, LenProperties, ElementOfSeq
  <2> SUFFICES ASSUME NEW x \in S PROVE TagOf(t, x) \in gone <=> x \in dead
    OBVIOUS
  <2>2. ASSUME x \in dead PROVE TagOf(t, x) \in gone
    BY <2>1, <2>2 DEF Members
  <2>3. ASSUME TagOf(t, x) \in gone PROVE x \in dead
    <3>1. PICK k \in 1..Len(own) : TagOf(t, x) = Looked(t, own)[k]
      BY <2>1, <2>3 DEF Members
    <3>2. TagOf(t, x) = TagOf(t, own[k]) /\ own[k] \in S
      BY <2>1, <3>1
    <3>3. x = own[k]
      BY <3>2, TagsDiffer
    <3> QED
      BY <2>1, <3>3 DEF Members
  <2> QED
    BY <2>2, <2>3
<1> HIDE DEF dead, gone
<1>2. <<>> \in T
  <2>1. Looked(t, <<>>) = <<>>
    BY DEF Looked
  <2> QED
    BY <2>1, WithoutNothing, EmptySeq
<1>3. ASSUME NEW w \in T, NEW x \in S PROVE Append(w, x) \in T
  <2>1. w \in Seq(S) /\ Append(w, x) \in Seq(S) /\ Without(w, dead) \in Seq(S)
    BY AppendProperties, WithoutKeeps
  <2>2. Without(Append(w, x), dead) = IF x \in dead THEN Without(w, dead)
                                      ELSE Append(Without(w, dead), x)
    BY <2>1, WithoutAppended
  <2>3. Looked(t, Append(w, x)) = Append(Looked(t, w), TagOf(t, x))
    BY <2>1, LookedAppended
  <2>4. Looked(t, w) \in Seq(R) /\ TagOf(t, x) \in R
    BY <2>1, LookedIs, SMTT(30)
  <2> HIDE DEF R
  <2> DEFINE tag == TagOf(t, x)
             seen == Looked(t, w)
  <2>5. tag \in gone <=> x \in dead
    BY <1>1
  <2>6. tag \in R /\ seen \in Seq(R)
    BY <2>4
  <2>7. Looked(t, Append(Without(w, dead), x)) = Append(Looked(t, Without(w, dead)), tag)
    BY <2>1, LookedAppended
  <2> HIDE DEF tag, seen
  <2>8. Without(Append(seen, tag), gone) = IF tag \in gone THEN Without(seen, gone)
                                           ELSE Append(Without(seen, gone), tag)
    BY <2>6, WithoutAppended
  <2>9. Looked(t, Without(w, dead)) = Without(seen, gone)
    BY DEF seen
  <2>10. Looked(t, Append(w, x)) = Append(seen, tag)
    BY <2>3 DEF seen, tag
  <2>11. Looked(t, Without(Append(w, x), dead)) = Without(Looked(t, Append(w, x)), gone)
    BY <2>2, <2>5, <2>7, <2>8, <2>9, <2>10
  <2> QED
    BY <2>1, <2>11
<1>4. T = Seq(S)
  <2>1. T \in SUBSET Seq(S)
    OBVIOUS
  <2> HIDE DEF T
  <2> QED
    BY <1>2, <1>3, <2>1, ListInduction
<1>5. list \in T
  BY <1>4
<1> QED
  BY <1>5 DEF dead, gone

\* What NetworkStore leaves out of the tags of an edge is what the helper leaves out.
LEMMA LackingIs == ASSUME NEW own, NEW tags PROVE Stored!Lacking(own, tags) = Without(tags, Members(own))
  BY DEF Stored!Lacking, Without, Members

\* The vertices with the tags of their nodes.
SourceNodes ==
    [k \in DOMAIN indexMap |-> [id |-> vid[indexMap[k]], tags |-> NodeTags[vid[indexMap[k]]]]]

LEMMA IndexIsGraph ==
  ASSUME NetInv
  PROVE  /\ indexMap \in Seq(Vertices) /\ Distinct(indexMap)
         /\ Members(indexMap) \subseteq Members(graph.vertices)
<1>1. indexMap \in Seq(Vertices) /\ Distinct(graph.vertices)
  BY DEF NetInv, NetworkOK, GraphOK, EachOnce
<1>2. CASE pc # "index"
  BY <1>1, <1>2 DEF NetInv, NetworkOK
<1>3. CASE pc = "index"
  <2>1. Newest \in Vertices /\ graph.vertices = Append(indexMap, Newest)
    BY <1>3, NewestIs
  <2>2. Members(graph.vertices) = Members(indexMap) \cup {Newest} /\ Distinct(indexMap)
    BY <1>1, <2>1, Appended, DistinctAppended
  <2> QED
    BY <1>1, <2>2
<1> QED
  BY <1>2, <1>3

LEMMA NodeRead ==
  ASSUME NetInv, NEW v \in Members(graph.vertices)
  PROVE  TagsRead(tables, tables.nodes, vid[v]) = NodeTags[vid[v]]
<1> DEFINE id == vid[v]
           list == tables.nodes[id]
<1>1. NodeReady(id) /\ id \in DOMAIN NodeTags /\ NodeTags[id] \in Seq(STRING \X STRING)
  BY StoreAssumption DEF NetInv, TagsStored, NodeReady
<1> HIDE DEF id
<1>2. CASE id \in DOMAIN tables.nodes
  <2>1. list \in Seq(TagIds) /\ Stands(tables, list, NodeTags[id])
    BY <1>2 DEF NetInv, TagsStored, NodesStand, TablesInv, TablesOK, TagIds
  <2>2. TagsRead(tables, tables.nodes, id) = [k \in DOMAIN list |-> TagOf(tables, list[k])]
    BY <1>2 DEF TagsRead
  <2> HIDE DEF list
  <2> QED
    BY <1>1, <2>1, <2>2, StandsRead DEF id
<1>3. CASE id \notin DOMAIN tables.nodes
  BY <1>1, <1>3 DEF NodeReady, TagsRead, id
<1> QED
  BY <1>2, <1>3

NodesRead == StoredNodes = SourceNodes

LEMMA NodesAre == NetInv => NodesRead
<1> SUFFICES ASSUME NetInv PROVE NodesRead
  OBVIOUS
<1>1. ASSUME NEW k \in DOMAIN indexMap
      PROVE  TagsRead(tables, tables.nodes, vid[indexMap[k]]) = NodeTags[vid[indexMap[k]]]
  <2>1. indexMap[k] \in Members(graph.vertices)
    BY IndexIsGraph DEF Members
  <2> QED
    BY <2>1, NodeRead
<1> QED
  BY <1>1 DEF NodesRead, StoredNodes, SourceNodes

LEMMA NodesAreNext == NetInv' => NodesRead'
  BY NodesAre, PTL

Stores == <<StoredNodes, StoredEdges, StoredTags>>

LEMMA ReadKept ==
  ASSUME NEW t, TablesOK(t), NEW u, IdsKept(t, u), NEW id,
         id \in DOMAIN t.edges => id \in DOMAIN u.edges /\ u.edges[id] = t.edges[id],
         id \notin DOMAIN t.edges => id \notin DOMAIN u.edges
  PROVE  TagsRead(u, u.edges, id) = TagsRead(t, t.edges, id)
<1>1. CASE id \in DOMAIN t.edges
  <2> DEFINE list == t.edges[id]
  <2>1. list \in Seq(DOMAIN t.pair.back) /\ u.edges[id] = list /\ id \in DOMAIN u.edges
    BY <1>1 DEF TablesOK
  <2>2. /\ TagsRead(t, t.edges, id) = [k \in DOMAIN list |-> TagOf(t, list[k])]
        /\ TagsRead(u, u.edges, id) = [k \in DOMAIN list |-> TagOf(u, list[k])]
    BY <1>1, <2>1 DEF TagsRead
  <2> HIDE DEF list
  <2>3. \A k \in DOMAIN list : TagOf(u, list[k]) = TagOf(t, list[k])
    <3>1. \A k \in DOMAIN list : list[k] \in DOMAIN t.pair.back
      BY <2>1, LenProperties, ElementOfSeq
    <3> QED
      BY <3>1, TagOfKept
  <2> QED
    BY <2>2, <2>3
<1>2. CASE id \notin DOMAIN t.edges
  BY <1>2 DEF TagsRead
<1> QED
  BY <1>1, <1>2

\* The tags of the edges stay what they are.
LEMMA TagsStay ==
  ASSUME NetInv, IdsKept(tables, tables'), StoredIds' = StoredIds,
         \A id \in StoredIds : /\ id \in DOMAIN tables.edges =>
                                    /\ id \in DOMAIN tables'.edges
                                    /\ tables'.edges[id] = tables.edges[id]
                               /\ id \notin DOMAIN tables.edges => id \notin DOMAIN tables'.edges
  PROVE  StoredTags' = StoredTags
<1>1. TablesOK(tables)
  BY DEF NetInv, TablesInv
<1>2. \A id \in StoredIds : TagsRead(tables', tables'.edges, id) = TagsRead(tables, tables.edges, id)
  BY <1>1, ReadKept
<1> QED
  BY <1>2 DEF StoredTags

\* The edges stay what they are.
LEMMA EdgesStay ==
  ASSUME NetInv, indexMap' = indexMap, graph'.edges = graph.edges,
         \A e \in Members(graph.edges) : eid'[e] = eid[e] /\ graph'.source[e] = graph.source[e]
                                                          /\ graph'.target[e] = graph.target[e]
  PROVE  StoredEdges' = StoredEdges /\ StoredIds' = StoredIds
<1>1. \A k \in DOMAIN graph.edges : graph.edges[k] \in Members(graph.edges)
  BY DEF Members
<1>2. StoredIds' = StoredIds
  BY DEF StoredIds
<1>4. StoredEdges' = StoredEdges
  BY <1>1 DEF StoredEdges, IndexOf
<1> QED
  BY <1>2, <1>4

\* A step that changes neither the network nor what is recorded does nothing.
LEMMA QuietStutters ==
  ASSUME NetInv, NetInv', NetworkSame, IdsKept(tables, tables'),
         \A id \in StoredIds : /\ id \in DOMAIN tables.edges =>
                                    /\ id \in DOMAIN tables'.edges
                                    /\ tables'.edges[id] = tables.edges[id]
                               /\ id \notin DOMAIN tables.edges => id \notin DOMAIN tables'.edges
  PROVE  Stores' = Stores
<1>1. NodesRead /\ NodesRead'
  BY NodesAre, NodesAreNext
<1>2. SourceNodes' = SourceNodes
  BY DEF SourceNodes, NetworkSame
<1>3. StoredNodes' = StoredNodes
  BY <1>1, <1>2 DEF NodesRead
<1>4. StoredEdges' = StoredEdges /\ StoredIds' = StoredIds
  BY EdgesStay DEF NetworkSame
<1>5. StoredTags' = StoredTags
  BY <1>4, TagsStay
<1> QED
  BY <1>3, <1>4, <1>5 DEF Stores

LEMMA IndexIs ==
  ASSUME NEW list, Distinct(list), NEW k \in DOMAIN list, NEW v, list[k] = v
  PROVE  IndexIn(list, v) = k
  BY DEF IndexIn, Distinct

\* Reserving, growing, interning, failing and trying again do nothing to the network.
LEMMA StoringStutters ==
  ASSUME NetInv, NetInv', StoreStep,
         ~StoreVertex, ~StoreEdge, ~IndexVertex, ~IndexFails, ~Merge, ~Record
  PROVE  Stores' = Stores
<1>1. NetworkSame /\ AllKept(tables, tables')
  <2>1. CASE Begin \/ TakeMap \/ Reserve \/ Unwind
    <3>1. NetworkSame /\ tables' = tables
      BY <2>1 DEF Begin, TakeMap, Reserve, Unwind, NetworkSame, graphDataVars
    <3> QED
      BY <3>1, AllKeptSame
  <2>2. CASE Intern
    <3> DEFINE tag == JobTags[Len(got) + 1]
    <3>1. tables' = Interned(tables, tag) /\ NetworkSame
      BY <2>2 DEF Intern, NetworkSame, graphDataVars
    <3>2. TablesOK(tables)
      BY DEF NetInv, TablesInv
    <3> HIDE DEF tag
    <3> QED
      BY <3>1, <3>2, InternedOK
  <2>3. CASE \/ ReserveFails \/ RecordFails \/ MergeFails \/ InternThrows
             \/ StoreVertexFails \/ StoreEdgeFails
    BY <2>3, FailuresAreQuiet
  <2> QED
    BY <2>1, <2>2, <2>3 DEF StoreStep
<1>2. IdsKept(tables, tables') /\ tables'.edges = tables.edges
  BY <1>1 DEF AllKept
<1> QED
  BY <1>1, <1>2, QuietStutters

\* Asking for a call, and taking its answer.
LEMMA CallsStutter ==
  ASSUME NetInv, NetInv', Request \/ Resume \/ UNCHANGED importStoreVars
  PROVE  Stores' = Stores
<1>1. NetworkSame /\ tables' = tables
  BY DEF Request, Call, Resume, NetworkSame, importStoreVars, graphDataVars
<1>2. IdsKept(tables, tables')
  BY <1>1, KeptSame DEF IdsKept
<1> QED
  BY <1>1, <1>2, QuietStutters

\* The tags are recorded before the way has an edge.
LEMMA RecordStutters ==
  ASSUME NetInv, NetInv', Record
  PROVE  Stores' = Stores
<1>1. /\ pc = "record" /\ NetworkSame
      /\ tables' = IF job.kind = "vertex"
                   THEN [tables EXCEPT !.nodes = Emplaced(@, job.id, got)]
                   ELSE [tables EXCEPT !.edges = Emplaced(@, job.id, got)]
  BY DEF Record, NetworkSame, graphDataVars
<1>2. tables = [key |-> tables.key, value |-> tables.value, pair |-> tables.pair,
                nodes |-> tables.nodes, edges |-> tables.edges]
  BY DEF NetInv, TablesInv, TablesOK
<1>3. /\ tables'.key = tables.key /\ tables'.value = tables.value /\ tables'.pair = tables.pair
      /\ tables'.edges = IF job.kind = "vertex" THEN tables.edges
                         ELSE Emplaced(tables.edges, job.id, got)
  BY <1>1, <1>2
<1>4. IdsKept(tables, tables')
  BY <1>3, KeptSame DEF IdsKept
<1>5. job.kind # "merge" /\ JobTags # <<>>
  BY <1>1, PointsAre DEF NetInv, ProgressOK
<1>6. job.kind # "vertex" => job.id \in DOMAIN tables.edges \/ job.id \notin StoredIds
  BY <1>5 DEF NetInv, TagsStored, WayReady, StoredIds, JobTags
<1>7. /\ DOMAIN Emplaced(tables.edges, job.id, got) = DOMAIN tables.edges \cup {job.id}
      /\ \A z \in DOMAIN tables.edges : Emplaced(tables.edges, job.id, got)[z] = tables.edges[z]
  BY DEF Emplaced
<1>8. \A id \in StoredIds : /\ id \in DOMAIN tables.edges =>
                                  /\ id \in DOMAIN tables'.edges
                                  /\ tables'.edges[id] = tables.edges[id]
                            /\ id \notin DOMAIN tables.edges => id \notin DOMAIN tables'.edges
  BY <1>3, <1>6, <1>7
<1> QED
  BY <1>1, <1>4, <1>8, QuietStutters

\* A vertex that has no index yet is not seen, and neither is its removal.
LEMMA HiddenVertex ==
  ASSUME NetInv, NetInv', StoreVertex \/ IndexFails
  PROVE  Stores' = Stores
<1>1. /\ StoredIds' = StoredIds /\ tables' = tables /\ indexMap' = indexMap /\ eid' = eid
      /\ graph'.edges = graph.edges /\ graph'.source = graph.source
      /\ graph'.target = graph.target
      /\ \A v \in Members(indexMap) : vid'[v] = vid[v]
  <2>1. CallsInv' /\ TablesInv' /\ Members(indexMap) \subseteq Members(graph.vertices)
    BY IndexIsGraph DEF NetInv
  <2>2. CASE StoreVertex
    BY <2>1, <2>2, StoreVertexKeeps DEF StoreVertex
  <2>3. CASE IndexFails
    BY <2>1, <2>3, IndexFailsKeeps DEF IndexFails, Fails
  <2> QED
    BY <2>2, <2>3
<1>2. SourceNodes' = SourceNodes
  BY <1>1 DEF SourceNodes, Members
<1>3. StoredNodes' = StoredNodes
  BY <1>2, NodesAre, NodesAreNext DEF NodesRead
<1>4. StoredEdges' = StoredEdges
  BY <1>1, EdgesStay
<1>5. IdsKept(tables, tables')
  BY <1>1, KeptSame DEF IdsKept
<1>6. StoredTags' = StoredTags
  BY <1>1, <1>5, TagsStay
<1> QED
  BY <1>3, <1>4, <1>6 DEF Stores

\* A list of length n.
HasLength(s, n) == s = [k \in 1..n |-> s[k]]

\* A list with one more element.
LEMMA Extends ==
  ASSUME NEW N \in Nat, NEW old, NEW new, HasLength(old, N), HasLength(new, N + 1),
         \A k \in 1..N : new[k] = old[k]
  PROVE  new = Append(old, new[N + 1])
<1> DEFINE R == {new[k] : k \in 1..(N + 1)}
           x == new[N + 1]
<1>1. /\ N + 1 \in Nat /\ \A k \in 1..N : k \in 1..(N + 1)
      /\ N + 1 \in 1..(N + 1) /\ \A k \in 1..(N + 1) : k \in 1..N \/ k = N + 1
  OBVIOUS
<1>2. x \in R /\ \A k \in 1..N : old[k] \in R
  BY <1>1
<1>3. new \in [1..(N + 1) -> R]
  BY DEF HasLength
<1> HIDE DEF R
<1>4. old \in [1..N -> R]
  BY <1>2 DEF HasLength
<1>5. new \in Seq(R) /\ old \in Seq(R)
  BY <1>1, <1>3, <1>4, SeqDef
<1>6. Len(new) = N + 1 /\ Len(old) = N
  BY <1>1, <1>3, <1>4, <1>5, LenProperties
<1> DEFINE list == Append(old, x)
<1> HIDE DEF x
<1>7. /\ list \in Seq(R) /\ Len(list) = N + 1 /\ list[N + 1] = x
      /\ \A k \in 1..N : list[k] = old[k]
  BY <1>2, <1>5, <1>6, AppendProperties
<1> HIDE DEF list
<1>8. \A k \in 1..(N + 1) : new[k] = list[k]
  BY <1>1, <1>7 DEF x
<1>9. new = list
  <2> DEFINE M == N + 1
  <2>1. Len(new) = M /\ Len(list) = M /\ \A k \in 1..M : new[k] = list[k]
    BY <1>6, <1>7, <1>8
  <2> HIDE DEF M
  <2> QED
    BY <1>5, <1>7, <2>1, SeqEqual
<1> QED
  BY <1>9 DEF list, x

\* With its index, the vertex appears with its tags.
LEMMA VertexAppears ==
  ASSUME NetInv, NetInv', IndexVertex
  PROVE  Stored!InsertVertex(job.id) /\ job.id \in DOMAIN NodeTags
<1>1. /\ pc = "index" /\ indexMap' = Append(indexMap, Newest)
      /\ UNCHANGED <<graph, vid, eid, tables, job>>
  BY DEF IndexVertex
<1>2. /\ Newest \in Vertices /\ vid[Newest] = job.id
      /\ indexMap \in Seq(Vertices) /\ Distinct(indexMap)
  BY <1>1, NewestIs, IndexIsGraph
<1>3. job.id \in DOMAIN NodeTags
  BY <1>1 DEF NetInv, ProgressOK, JobOK
<1>4. Len(indexMap) \in Nat /\ DOMAIN indexMap = 1..Len(indexMap)
      /\ \A k \in 1..Len(indexMap) : indexMap[k] \in Vertices
  BY <1>2, LenProperties, ElementOfSeq
<1>5. /\ Len(indexMap') = Len(indexMap) + 1 /\ DOMAIN indexMap' = 1..(Len(indexMap) + 1)
      /\ \A k \in 1..Len(indexMap) : indexMap'[k] = indexMap[k]
      /\ indexMap'[Len(indexMap) + 1] = Newest
  BY <1>1, <1>2, Appended
<1>6. SourceNodes' = Append(SourceNodes, [id |-> job.id, tags |-> NodeTags[job.id]])
  <2> DEFINE N == Len(indexMap)
             old == SourceNodes
             new == SourceNodes'
  <2>1. old = [k \in 1..N |-> old[k]] /\ N \in Nat
    BY <1>4 DEF SourceNodes
  <2>2. new = [k \in 1..(N + 1) |-> [id |-> vid[indexMap'[k]], tags |-> NodeTags[vid[indexMap'[k]]]]]
    BY <1>1, <1>5 DEF SourceNodes
  <2>3. /\ new = [k \in 1..(N + 1) |-> new[k]]
        /\ new[N + 1] = [id |-> job.id, tags |-> NodeTags[job.id]]
    BY <1>2, <1>4, <1>5, <2>2
  <2>4. \A k \in 1..N : new[k] = old[k]
    <3>1. \A k \in 1..N : k \in 1..(N + 1)
      BY <1>4
    <3> QED
      BY <1>4, <1>5, <2>2, <3>1 DEF SourceNodes
  <2>6. HasLength(old, N) /\ HasLength(new, N + 1)
    BY <2>1, <2>3 DEF HasLength
  <2> HIDE DEF N, old, new
  <2>5. new = Append(old, new[N + 1])
    BY <2>1, <2>4, <2>6, Extends
  <2> QED
    BY <2>3, <2>5 DEF old, new
<1>7. StoredNodes' = Append(StoredNodes, [id |-> job.id, tags |-> NodeTags[job.id]])
  BY <1>6, NodesAre, NodesAreNext DEF NodesRead
<1>8. StoredIds' = StoredIds
  BY <1>1 DEF StoredIds
<1>9. IdsKept(tables, tables')
  BY <1>1, KeptSame DEF IdsKept
<1>10. StoredTags' = StoredTags
  BY <1>1, <1>8, <1>9, TagsStay
<1>11. StoredEdges' = StoredEdges
  <2>1. \A v \in Members(indexMap) : IndexIn(indexMap', v) = IndexIn(indexMap, v)
    <3> SUFFICES ASSUME NEW v \in Members(indexMap)
                 PROVE  IndexIn(indexMap', v) = IndexIn(indexMap, v)
      OBVIOUS
    <3>1. PICK k \in DOMAIN indexMap : indexMap[k] = v
      BY DEF Members
    <3>2. IndexIn(indexMap, v) = k
      BY <1>2, <3>1, IndexIs
    <3> DEFINE list == indexMap'
    <3>3. k \in DOMAIN list /\ list[k] = v
      BY <1>4, <1>5, <3>1
    <3>4. Distinct(list)
      <4>1. Newest \notin Members(indexMap)
        BY <1>1, NewestIs
      <4> QED
        BY <1>1, <1>2, <4>1, DistinctAppended
    <3> HIDE DEF list
    <3>5. IndexIn(list, v) = k
      BY <3>3, <3>4, IndexIs
    <3> QED
      BY <3>2, <3>5 DEF list
  <2>2. \A k \in DOMAIN graph.edges :
           {graph.source[graph.edges[k]], graph.target[graph.edges[k]]} \subseteq Members(indexMap)
    BY DEF NetInv, NetworkOK, Members
  <2> QED
    BY <1>1, <2>1, <2>2 DEF StoredEdges, IndexOf
<1> QED
  BY <1>3, <1>7, <1>10, <1>11 DEF Stored!InsertVertex

\* The way has the tags of its source when its first edge comes.
LEMMA FreshTags ==
  ASSUME NetInv, NEW id, WayReady(id), id \notin StoredIds
  PROVE  TagsRead(tables, tables.edges, id) = WayTags[id]
<1> DEFINE list == tables.edges[id]
<1>1. WayTags[id] \in Seq(STRING \X STRING)
  BY StoreAssumption DEF WayReady
<1>2. CASE id \in DOMAIN tables.edges
  <2>1. list \in Seq(TagIds) /\ Stands(tables, list, WayTags[id])
    BY <1>2 DEF NetInv, TagsStored, WaysStand, TablesInv, TablesOK, TagIds
  <2>2. TagsRead(tables, tables.edges, id) = [k \in DOMAIN list |-> TagOf(tables, list[k])]
    BY <1>2 DEF TagsRead
  <2> HIDE DEF list
  <2> QED
    BY <1>1, <2>1, <2>2, StandsRead
<1>3. CASE id \notin DOMAIN tables.edges
  BY <1>3 DEF WayReady, TagsRead
<1> QED
  BY <1>2, <1>3

LEMMA EdgeAppears ==
  ASSUME NetInv, NetInv', StoreEdge
  PROVE  /\ Stored!InsertEdge(job.id, job.from + 1, job.to + 1)
         /\ job.id \in DOMAIN WayTags
         /\ {job.from + 1, job.to + 1} \subseteq DOMAIN StoredNodes
<1>1. /\ pc = "add" /\ job.kind = "edge"
      /\ UNCHANGED <<vid, indexMap, tables, job>>
  BY DEF StoreEdge
<1>2. /\ StoredIds' = StoredIds \cup {job.id}
      /\ graph'.edges = Append(graph.edges, NewEdge) /\ NewEdge \notin Members(graph.edges)
      /\ \A e \in Members(graph.edges) :
            eid'[e] = eid[e] /\ graph'.source[e] = graph.source[e]
                             /\ graph'.target[e] = graph.target[e]
      /\ eid'[NewEdge] = job.id /\ graph'.source[NewEdge] = From /\ graph'.target[NewEdge] = To
  BY StoreEdgeKeeps DEF NetInv
<1>3. /\ From = indexMap[job.from + 1] /\ To = indexMap[job.to + 1]
      /\ job.from + 1 \in DOMAIN indexMap /\ job.to + 1 \in DOMAIN indexMap
      /\ job.id \in DOMAIN WayTags /\ WayReady(job.id)
  BY <1>1, EdgeJob DEF From, To
<1>4. IndexOf(From) = job.from + 1 /\ IndexOf(To) = job.to + 1
  <2>1. Distinct(indexMap)
    BY IndexIsGraph
  <2>2. \A k \in DOMAIN indexMap : \A v : indexMap[k] = v => IndexIn(indexMap, v) = k
    BY <2>1, IndexIs
  <2> QED
    BY <1>3, <2>2 DEF IndexOf
<1>5. StoredNodes' = StoredNodes
  <2>1. SourceNodes' = SourceNodes
    BY <1>1 DEF SourceNodes
  <2> QED
    BY <2>1, NodesAre, NodesAreNext DEF NodesRead
<1>6. StoredEdges' = Append(StoredEdges, [id |-> job.id, from |-> job.from + 1, to |-> job.to + 1])
  <2> DEFINE N == Len(graph.edges)
             old == StoredEdges
             new == StoredEdges'
             e(k) == graph.edges[k]
  <2>1. graph.edges \in Seq(Edges) /\ NewEdge \in Edges
    BY DEF NetInv, NetworkOK, GraphOK, Graphs, StoreEdge, FreeEdges, NewEdge
  <2>2. /\ N \in Nat /\ DOMAIN graph.edges = 1..N
        /\ DOMAIN graph'.edges = 1..(N + 1) /\ graph'.edges[N + 1] = NewEdge
        /\ \A k \in 1..N : graph'.edges[k] = e(k) /\ e(k) \in Members(graph.edges)
    BY <1>2, <2>1, Appended DEF Members
  <2>3. /\ old = [k \in 1..N |-> old[k]]
        /\ \A k \in 1..N : old[k] = [id |-> eid[e(k)], from |-> IndexIn(indexMap, graph.source[e(k)]),
                                     to |-> IndexIn(indexMap, graph.target[e(k)])]
    BY <2>2 DEF StoredEdges, IndexOf
  <2>4. new = [k \in 1..(N + 1) |->
                  [id |-> eid'[graph'.edges[k]],
                   from |-> IndexIn(indexMap, graph'.source[graph'.edges[k]]),
                   to |-> IndexIn(indexMap, graph'.target[graph'.edges[k]])]]
    BY <1>1, <2>2 DEF StoredEdges, IndexOf
  <2>5. N + 1 \in 1..(N + 1) /\ \A k \in 1..N : k \in 1..(N + 1)
    BY <2>2
  <2>6. /\ new = [k \in 1..(N + 1) |-> new[k]]
        /\ new[N + 1] = [id |-> job.id, from |-> job.from + 1, to |-> job.to + 1]
    BY <1>2, <1>4, <2>2, <2>4, <2>5 DEF IndexOf
  <2>7. \A k \in 1..N : new[k] = old[k]
    <3> SUFFICES ASSUME NEW k \in 1..N PROVE new[k] = old[k]
      OBVIOUS
    <3>1. /\ graph'.edges[k] = e(k) /\ e(k) \in Members(graph.edges) /\ k \in 1..(N + 1)
          /\ old[k] = [id |-> eid[e(k)], from |-> IndexIn(indexMap, graph.source[e(k)]),
                       to |-> IndexIn(indexMap, graph.target[e(k)])]
      BY <2>2, <2>3, <2>5
    <3>2. /\ eid'[e(k)] = eid[e(k)] /\ graph'.source[e(k)] = graph.source[e(k)]
          /\ graph'.target[e(k)] = graph.target[e(k)]
      BY <1>2, <3>1
    <3>3. new[k] = [id |-> eid'[e(k)], from |-> IndexIn(indexMap, graph'.source[e(k)]),
                    to |-> IndexIn(indexMap, graph'.target[e(k)])]
      <4> HIDE DEF new
      <4> QED
        BY <2>4, <3>1
    <3> QED
      BY <3>1, <3>2, <3>3
  <2>8. HasLength(old, N) /\ HasLength(new, N + 1)
    BY <2>3, <2>6 DEF HasLength
  <2> HIDE DEF N, old, new
  <2>9. new = Append(old, new[N + 1])
    BY <2>2, <2>7, <2>8, Extends
  <2> QED
    BY <2>6, <2>9 DEF old, new
<1>7. StoredTags' = [x \in DOMAIN StoredTags \cup {job.id} |->
                        IF x \in DOMAIN StoredTags THEN StoredTags[x] ELSE WayTags[x]]
  <2>1. job.id \notin StoredIds => TagsRead(tables, tables.edges, job.id) = WayTags[job.id]
    BY <1>3, FreshTags
  <2>2. DOMAIN StoredTags = StoredIds
        /\ \A x \in StoredIds : StoredTags[x] = TagsRead(tables, tables.edges, x)
    BY DEF StoredTags
  <2>3. StoredTags' = [x \in StoredIds \cup {job.id} |-> TagsRead(tables, tables.edges, x)]
    BY <1>1, <1>2 DEF StoredTags
  <2> QED
    BY <2>1, <2>2, <2>3
<1>8. DOMAIN StoredNodes = DOMAIN indexMap
  BY DEF StoredNodes
<1> QED
  BY <1>3, <1>5, <1>6, <1>7, <1>8 DEF Stored!InsertEdge

\* The tags that are added are those that the other way has and this one lacks.
LEMMA TagsMerge ==
  ASSUME NetInv, NetInv', Merge
  PROVE  \/ Stored!MergeTags(job.id, job.other) /\ {job.id, job.other} \subseteq DOMAIN StoredTags
         \/ Stores' = Stores
<1> DEFINE map == tables.edges
           id == job.id
           other == job.other
<1>1. /\ NetworkSame /\ {id, other} \subseteq StoredIds /\ id # other
      /\ IdsKept(tables, tables')
      /\ tables'.edges = Merged(map, id, other)
  BY MergeData
<1>2. /\ TablesOK(tables) /\ \A z \in DOMAIN map : map[z] \in Seq(TagIds)
      /\ StoredIds' = StoredIds
  BY <1>1 DEF NetInv, TablesInv, TablesOK, TagIds, NetworkSame, StoredIds
<1>3. CASE other \notin DOMAIN map
  <2>1. tables'.edges = tables.edges
    BY <1>1, <1>3 DEF Merged
  <2> QED
    BY <1>1, <2>1, QuietStutters
<1>4. CASE other \in DOMAIN map
  <2> DEFINE new == tables'.edges
             own == OwnTags(map, id)
             rest == Without(map[other], Members(own))
  <2>1. Joins(new, map, id, other)
    BY <1>1, <1>4, MergedIs
  <2> HIDE DEF map, id, other
  <2>2. /\ DOMAIN new = DOMAIN map \cup {id} /\ new[id] = own \o rest
        /\ \A z \in DOMAIN map \ {id} : new[z] = map[z]
    BY <2>1 DEF Joins
  <2>3. own \in Seq(TagIds) /\ map[other] \in Seq(TagIds) /\ rest \in Seq(TagIds)
    <3>1. own \in Seq(TagIds)
      BY <1>2, EmptySeq DEF OwnTags
    <3>2. map[other] \in Seq(TagIds)
      BY <1>2, <1>4
    <3> HIDE DEF own
    <3> QED
      BY <3>1, <3>2, WithoutKeeps
  <2>4. TagsRead(tables, map, id) = Looked(tables, own)
    BY DEF TagsRead, Looked, OwnTags
  <2>5. TagsRead(tables, map, other) = Looked(tables, map[other])
    BY <1>4 DEF TagsRead, Looked
  <2>6. TagsRead(tables', new, id) = Looked(tables', new[id])
    BY <2>2 DEF TagsRead, Looked
  <2> HIDE DEF own, rest, new
  <2>7. Looked(tables', new[id]) = Looked(tables, own \o rest)
    <3> DEFINE list == own \o rest
    <3>1. list \in Seq(DOMAIN tables.pair.back)
      BY <2>3, ConcatProperties DEF TagIds
    <3> HIDE DEF list
    <3>2. \A k \in DOMAIN list : list[k] \in DOMAIN tables.pair.back
      BY <3>1, LenProperties, ElementOfSeq
    <3>3. \A k \in DOMAIN list : TagOf(tables', list[k]) = TagOf(tables, list[k])
      BY <1>1, <1>2, <3>2, TagOfKept
    <3>4. Looked(tables', list) = Looked(tables, list)
      BY <3>3 DEF Looked
    <3> QED
      BY <2>2, <3>4 DEF list
  <2>8. Looked(tables, own \o rest) = Looked(tables, own) \o Looked(tables, rest)
    BY <2>3, LookedConcat
  <2>9. Looked(tables, rest) = Without(Looked(tables, map[other]), Members(Looked(tables, own)))
    BY <1>2, <2>3, LookedSifted DEF rest, TagIds
  <2>10. TagsRead(tables', new, id)
            = TagsRead(tables, map, id)
                 \o Stored!Lacking(TagsRead(tables, map, id), TagsRead(tables, map, other))
    BY <2>4, <2>5, <2>6, <2>7, <2>8, <2>9, LackingIs
  <2>11. ASSUME NEW z \in StoredIds, z # id
         PROVE  TagsRead(tables', new, z) = TagsRead(tables, map, z)
    <3>1. /\ z \in DOMAIN map => z \in DOMAIN new /\ new[z] = map[z]
          /\ z \notin DOMAIN map => z \notin DOMAIN new
      BY <2>2, <2>11
    <3> QED
      BY <1>1, <1>2, <3>1, ReadKept DEF map, new
  <2>12. StoredTags' = [StoredTags EXCEPT ![id] = @ \o Stored!Lacking(StoredTags[id], StoredTags[other])]
    <3>1. StoredTags = [z \in StoredIds |-> TagsRead(tables, map, z)]
      BY DEF StoredTags, map
    <3>2. StoredTags' = [z \in StoredIds |-> TagsRead(tables', new, z)]
      BY <1>2 DEF StoredTags, new
    <3> QED
      BY <1>1, <2>10, <2>11, <3>1, <3>2
  <2>13. StoredNodes' = StoredNodes
    <3>1. SourceNodes' = SourceNodes
      BY <1>1 DEF SourceNodes, NetworkSame
    <3> QED
      BY <3>1, NodesAre, NodesAreNext DEF NodesRead
  <2>14. StoredEdges' = StoredEdges
    BY <1>1, EdgesStay DEF NetworkSame
  <2>15. DOMAIN StoredTags = StoredIds
    BY DEF StoredTags
  <2> QED
    BY <1>1, <2>12, <2>13, <2>14, <2>15 DEF Stored!MergeTags, id, other
<1> QED
  BY <1>3, <1>4

LEMMA NetInits == ImportStoreInit => Stored!StoreInit
<1> SUFFICES ASSUME ImportStoreInit PROVE Stored!StoreInit
  OBVIOUS
<1>1. indexMap = <<>> /\ graph.edges = <<>> /\ graph.vertices = <<>>
  BY DEF ImportStoreInit, EmptyGraph
<1>2. StoredIds = {}
  BY <1>1, EmptySeq DEF StoredIds, Members
<1>3. StoredTags = <<>>
  BY <1>2 DEF StoredTags
<1>4. StoredNodes = <<>> /\ StoredEdges = <<>>
  BY <1>1 DEF StoredNodes, StoredEdges
<1> QED
  BY <1>3, <1>4 DEF Stored!StoreInit

\* Each step of the helpers is a step of NetworkStore, or none.
LEMMA NetRefines ==
  NetInv /\ NetInv' /\ [ImportStoreNext]_importStoreVars => [Stored!StoreNext]_(Stored!storeVars)
<1> SUFFICES ASSUME NetInv, NetInv', [ImportStoreNext]_importStoreVars
             PROVE  Stored!StoreNext \/ Stores' = Stores
  BY DEF Stores, Stored!storeVars
<1>1. CASE Request \/ Resume \/ UNCHANGED importStoreVars
  BY <1>1, CallsStutter
<1>2. CASE StoreVertex \/ IndexFails
  BY <1>2, HiddenVertex
<1>3. CASE Record
  BY <1>3, RecordStutters
<1>4. CASE IndexVertex
  BY <1>4, VertexAppears DEF Stored!StoreNext
<1>5. CASE StoreEdge
  BY <1>5, EdgeAppears DEF Stored!StoreNext
<1>6. CASE Merge
  BY <1>6, TagsMerge DEF Stored!StoreNext
<1>7. CASE StoreStep /\ ~(StoreVertex \/ StoreEdge \/ IndexVertex \/ IndexFails \/ Merge \/ Record)
  BY <1>7, StoringStutters
<1> QED
  BY <1>1, <1>2, <1>3, <1>4, <1>5, <1>6, <1>7 DEF ImportStoreNext

\* Through failures, growth and retries at any point, the helpers add whole vertices and whole
\* edges, each once and with its own tags (graph_helper.hpp, tag_helper.hpp, utils.hpp).
THEOREM NetworkIsStored == ImportStoreSpec => StoreRefined
<1>1. ImportStoreInit => Stored!StoreInit
  BY NetInits
<1> QED
  BY <1>1, NetRefines, NetworkInvariant, PTL DEF ImportStoreSpec, StoreRefined, Stored!StoreSpec

-----------------------------------------------------------------------------
(* The import of the files (OsmImport).                                    *)

LEMMA CallsStep == CallsInv /\ [OsmNext]_allVars => CallsInv'
<1> SUFFICES ASSUME CallsInv, [OsmNext]_allVars PROVE CallsInv'
  OBVIOUS
<1>1. CASE UNCHANGED <<pc, control>>
  BY <1>1 DEF CallsInv, PlaceOK
<1>2. CASE pc = "returned" /\ pc' = "idle" /\ control' = control
  BY <1>2 DEF CallsInv, PlaceOK, Points
<1>3. ASSUME NEW j, Call(j) PROVE CallsInv'
  BY <1>3, CallKeeps
<1>4. CASE StoreStep
  BY <1>4, StoreStepKeeps
<1> QED
  BY <1>1, <1>2, <1>3, <1>4
  DEF OsmNext, ReadNode, ReadWay, WayNode, VertexAdded, NodesDone, WayPair, WayEdge, EdgeAdded,
      WayDone, ReadingEnds, Simplify, TagsMerged, Resume, importStoreVars, allVars

\* However the calls of the helpers nest and fail, no file is mapped anew between the point
\* where a function takes a reference into it and the point where it uses that: the flags
\* _critical leave the growing to the outermost call (memory_mapped/utils.hpp, retry_alloc;
\* graph_helper.hpp, tag_helper.hpp).
THEOREM NoReferenceGoesStale == OsmSpec => []NoStaleReference
<1>1. CallsInv => NoStaleReference
  <2> SUFFICES ASSUME CallsInv, pc \in {"record", "add"}
               PROVE  Head(control.stack).ref # "stale"
    BY DEF NoStaleReference
  <2>1. ControlOK(control) /\ control.stack \in Seq(Frames)
    BY DEF CallsInv, ControlOK, Controls
  <2>2. Len(control.stack) \in {1, 2}
    BY DEF CallsInv, PlaceOK
  <2>3. Len(control.stack) >= 1
    BY <2>2
  <2>4. Head(control.stack) = control.stack[1] /\ 1 \in DOMAIN control.stack
    BY <2>1, <2>3, Popped
  <2>5. control.stack[1].ref # "stale"
    BY <2>1, <2>4 DEF ControlOK
  <2> QED
    BY <2>4, <2>5
<1>2. OsmSpec => []CallsInv
  BY CallsInit, CallsStep, PTL DEF OsmSpec, OsmInit
<1> QED
  BY <1>1, <1>2, PTL

\* Between the calls of the helpers no flag _critical is up, whether the last call returned
\* or gave up: with a flag left behind, no later call would grow that file any more.
FlagsClear ==
    pc \in {"idle", "returned", "gave up"} => \A h \in Helpers : ~control.critical[h]

\* A call that fails takes its flag with it, however deep it was nested
\* (memory_mapped/utils.hpp, retry_alloc).
THEOREM FlagsAreReset == OsmSpec => []FlagsClear
<1>1. CallsInv => FlagsClear
  <2> SUFFICES ASSUME CallsInv, pc \in {"idle", "returned", "gave up"}, NEW h \in Helpers
               PROVE  ~control.critical[h]
    BY DEF FlagsClear
  <2>1. ControlOK(control) /\ Len(control.stack) = 0 /\ control.stack \in Seq(Frames)
    BY DEF CallsInv, PlaceOK, ControlOK, Controls
  <2>2. \A k : k \notin DOMAIN control.stack
    BY <2>1, NoneInEmpty
  <2> QED
    BY <2>1, <2>2 DEF ControlOK
<1>2. OsmSpec => []CallsInv
  BY CallsInit, CallsStep, PTL DEF OsmSpec, OsmInit
<1> QED
  BY <1>1, <1>2, PTL

LEMMA TablesFollow == TablesInv /\ [OsmNext]_allVars => TablesInv'
<1> SUFFICES ASSUME TablesInv, [OsmNext]_allVars PROVE TablesInv'
  OBVIOUS
<1>1. CASE StoreStep
  BY <1>1, StoreStepTables
<1>2. CASE tables' = tables /\ got' = got
  BY <1>2, TablesSame
<1> QED
  BY <1>1, <1>2
  DEF OsmNext, ReadNode, ReadWay, WayNode, VertexAdded, NodesDone, WayPair, WayEdge, EdgeAdded,
      WayDone, ReadingEnds, Simplify, TagsMerged, Resume, Call, importStoreVars, allVars

\* Whatever part of interning a tag fails, the dictionaries stay each other's inverse, with
\* the numbers below their size for ids, and every recorded tag can be read back
\* (tag_helper.hpp, id and its clean-up).
THEOREM TablesStayInvertible == OsmSpec => []TablesInvertible
<1>1. OsmSpec => []TablesInv
  BY TablesInit, TablesFollow, PTL DEF OsmSpec, OsmInit
<1> QED
  BY <1>1, TablesAreInvertible, PTL

-----------------------------------------------------------------------------
(* std::lower_bound in the container of nodes.                             *)

Ranges == [first : Nat, count : Nat]

LEMMA Half ==
  ASSUME NEW n \in Nat, n # 0
  PROVE  n \div 2 \in Nat /\ n \div 2 < n
OBVIOUS

LEMMA HalvedOK ==
  ASSUME NEW s, NEW id, NEW r \in Ranges
  PROVE  /\ Halved(s, id, r) \in Ranges
         /\ r.count = 0 => Halved(s, id, r) = r
         /\ r.count # 0 => /\ Halved(s, id, r).count < r.count
                           /\ Halved(s, id, r).first + Halved(s, id, r).count <= r.first + r.count
<1> DEFINE half == r.count \div 2
           middle == r.first + half + 1
<1>1. r.count \in Nat /\ r.first \in Nat
  BY DEF Ranges
<1>2. half \in Nat /\ middle \in Nat /\ (r.count # 0 => half < r.count /\ r.count - half - 1 \in Nat)
  BY <1>1
<1>3. Halved(s, id, r) = CASE r.count = 0 -> r
          [] r.count # 0 /\ s[middle].id < id -> [first |-> middle, count |-> r.count - half - 1]
          [] OTHER -> [first |-> r.first, count |-> half]
  BY DEF Halved
<1>4. CASE r.count = 0
  BY <1>3, <1>4
<1>5. CASE r.count # 0 /\ s[middle].id < id
  <2>1. Halved(s, id, r) = [first |-> middle, count |-> r.count - half - 1]
    BY <1>3, <1>5
  <2> HIDE DEF half
  <2> QED
    BY <1>1, <1>2, <1>5, <2>1 DEF Ranges
<1>6. CASE r.count # 0 /\ ~(s[middle].id < id)
  <2>1. Halved(s, id, r) = [first |-> r.first, count |-> half]
    BY <1>3, <1>6
  <2> HIDE DEF half
  <2> QED
    BY <1>1, <1>2, <1>6, <2>1 DEF Ranges
<1> QED
  BY <1>4, <1>5, <1>6

\* r[n] is what std::lower_bound looks at after n steps.
Searches(r, s, id) ==
    /\ r \in [0..Len(s) -> Ranges]
    /\ r[0] = [first |-> 0, count |-> Len(s)]
    /\ \A n \in 1..Len(s) : r[n] = Halved(s, id, r[n - 1])
    /\ LowerBound(s, id) = r[Len(s)].first

\* The recursion in LowerBound.
LEMMA LowerBoundUnfolds ==
  ASSUME NEW S, NEW s \in Seq(S), NEW id
  PROVE  \E r : Searches(r, s, id)
<1> DEFINE N == Len(s)
           all == [first |-> 0, count |-> N]
           step == [x \in Nat \X Ranges |-> Halved(s, id, x[2])]
           F(g) == [n \in 0..Len(s) |->
                       IF n = 0 THEN [first |-> 0, count |-> Len(s)] ELSE Halved(s, id, g[n - 1])]
           range == CHOOSE g : g = F(g)
<1>1. N \in Nat /\ all \in Ranges
  BY LenProperties DEF Ranges
<1>2. step \in [Nat \X Ranges -> Ranges]
  <2>1. \A x \in Nat \X Ranges : Halved(s, id, x[2]) \in Ranges
    BY HalvedOK
  <2> QED
    BY <2>1
<1>3. PICK g \in [0..N -> Ranges] : Steps(g, all, step, N)
  <2> HIDE DEF step, all, N
  <2> QED
    BY <1>1, <1>2, Recursion
<1>4. ASSUME NEW n \in 1..N PROVE g[n] = Halved(s, id, g[n - 1])
  <2>1. n - 1 \in 0..N /\ n \in Nat
    BY <1>1
  <2>2. g[n - 1] \in Ranges
    BY <1>3, <2>1
  <2>3. <<n, g[n - 1]>> \in Nat \X Ranges
    BY <2>1, <2>2
  <2>4. step[<<n, g[n - 1]>>] = Halved(s, id, g[n - 1])
    BY <2>3
  <2>5. g[n] = step[<<n, g[n - 1]>>]
    BY <1>3 DEF Steps
  <2> HIDE DEF step
  <2> QED
    BY <2>4, <2>5
<1>5. g = F(g)
  <2>1. ASSUME NEW n \in 0..N PROVE g[n] = F(g)[n]
    <3>1. n = 0 \/ (n # 0 /\ n \in 1..N)
      BY <1>1
    <3>2. F(g)[n] = IF n = 0 THEN all ELSE Halved(s, id, g[n - 1])
      OBVIOUS
    <3>3. g[0] = all
      BY <1>3 DEF Steps
    <3> HIDE DEF F, all
    <3> QED
      BY <1>4, <3>1, <3>2, <3>3
  <2>2. g = [n \in 0..N |-> g[n]]
    BY <1>3
  <2>3. F(g) = [n \in 0..N |-> F(g)[n]]
    OBVIOUS
  <2> HIDE DEF F
  <2> QED
    BY <2>1, <2>2, <2>3
<1>6. range = F(range)
  <2> HIDE DEF F
  <2> QED
    BY <1>5
<1>7. LowerBound(s, id) = range[N].first
  BY DEF LowerBound
<1> HIDE DEF range
<1>8. \A n \in 0..N : range[n] = IF n = 0 THEN all ELSE Halved(s, id, range[n - 1])
  BY <1>6
<1>9. /\ range[0] = all
      /\ \A n \in 1..N : range[n] = Halved(s, id, range[n - 1])
  <2>1. 0 \in 0..N /\ \A n \in 1..N : n \in 0..N /\ n # 0
    BY <1>1
  <2> HIDE DEF all
  <2> QED
    BY <1>8, <2>1
<1> DEFINE T == {m \in Nat : m \in 0..N => range[m] \in Ranges}
<1>10. 0 \in T
  BY <1>1, <1>9
<1>11. ASSUME NEW m \in T PROVE m + 1 \in T
  <2> SUFFICES ASSUME m + 1 \in 0..N PROVE range[m + 1] \in Ranges
    OBVIOUS
  <2>1. m \in 0..N /\ m + 1 \in 1..N /\ (m + 1) - 1 = m /\ range[m] \in Ranges
    BY <1>1
  <2>2. range[m + 1] = Halved(s, id, range[m])
    BY <1>9, <2>1
  <2> QED
    BY <2>1, <2>2, HalvedOK
<1>12. T = Nat
  <2>1. T \in SUBSET Nat
    OBVIOUS
  <2> HIDE DEF T
  <2> QED
    BY <1>10, <1>11, <2>1, Induction
<1>13. \A m \in 0..N : range[m] \in Ranges
  BY <1>1, <1>12
<1>14. range \in [0..N -> Ranges]
  <2>1. range = [n \in 0..N |-> range[n]]
    BY <1>6
  <2> QED
    BY <1>13, <2>1
<1> QED
  BY <1>7, <1>9, <1>14 DEF Searches

\* Each element has a smaller id than those after it.
Rising(s) == \A j, k \in DOMAIN s : j < k => s[j].id < s[k].id

\* What is left of, and right of the range r is on its side of id.
Narrows(r, s, id) ==
    /\ r.first + r.count <= Len(s)
    /\ \A k \in 1..r.first : s[k].id < id
    /\ \A k \in (r.first + r.count + 1)..Len(s) : id <= s[k].id

LEMMA HalvedNarrows ==
  ASSUME NEW S, \A x \in S : x.id \in Nat, NEW s \in Seq(S), Rising(s), NEW id \in Nat,
         NEW r \in Ranges, Narrows(r, s, id)
  PROVE  Narrows(Halved(s, id, r), s, id)
<1> DEFINE N == Len(s)
           half == r.count \div 2
           middle == r.first + half + 1
<1>1. r.count \in Nat /\ r.first \in Nat /\ N \in Nat /\ DOMAIN s = 1..N /\ r.first + r.count <= N
  BY LenProperties DEF Ranges, Narrows
<1>2. r.count # 0 => half \in Nat /\ middle \in Nat /\ half < r.count /\ r.count - half - 1 \in Nat
  <2> SUFFICES ASSUME r.count # 0 PROVE half \in Nat /\ middle \in Nat /\ half < r.count /\ r.count - half - 1 \in Nat
    OBVIOUS
  <2>1. half \in Nat /\ half < r.count
    BY <1>1, Half
  <2> HIDE DEF half
  <2> QED
    BY <1>1, <2>1, SMTT(30)
<1>3. Halved(s, id, r) = CASE r.count = 0 -> r
          [] r.count # 0 /\ s[middle].id < id -> [first |-> middle, count |-> r.count - half - 1]
          [] OTHER -> [first |-> r.first, count |-> half]
  BY DEF Halved
<1>4. \A k \in 1..N : s[k].id \in Nat
  BY <1>1, ElementOfSeq
<1>5. \A j, k \in 1..N : j < k => s[j].id < s[k].id
  BY <1>1 DEF Rising
<1>6. CASE r.count = 0
  BY <1>3, <1>6
<1>7. CASE r.count # 0 /\ s[middle].id < id
  <2>1. Halved(s, id, r) = [first |-> middle, count |-> r.count - half - 1]
    BY <1>3, <1>7
  <2> HIDE DEF half
  <2>2. middle \in 1..N /\ middle + (r.count - half - 1) = r.first + r.count
    <3> DEFINE c == r.count  f == r.first
    <3>1. c \in Nat /\ f \in Nat /\ half \in Nat /\ half < c /\ N \in Nat /\ f + c <= N
      BY <1>1, <1>2, <1>7
    <3> HIDE DEF c, f, N
    <3>2. f + half + 1 \in 1..N /\ f + half + 1 + (c - half - 1) = f + c
      BY <3>1
    <3> QED
      BY <3>2 DEF c, f
  <2>3. ASSUME NEW k \in 1..middle PROVE s[k].id < id
    <3>1. k \in 1..N /\ (k = middle \/ k < middle)
      BY <2>2, <1>1
    <3> QED
      BY <1>4, <1>5, <1>7, <2>2, <3>1
  <2>4. \A k \in (r.first + r.count + 1)..N : id <= s[k].id
    BY DEF Narrows
  <2>5. Halved(s, id, r).first = middle /\ Halved(s, id, r).count = r.count - half - 1
    BY <2>1
  <2> HIDE DEF N, middle
  <2>6. Halved(s, id, r).first + Halved(s, id, r).count = r.first + r.count
    BY <2>2, <2>5
  <2> QED
    BY <1>1, <2>3, <2>4, <2>5, <2>6 DEF Narrows, N
<1>8. CASE r.count # 0 /\ ~(s[middle].id < id)
  <2>1. Halved(s, id, r) = [first |-> r.first, count |-> half]
    BY <1>3, <1>8
  <2> HIDE DEF half
  <2>2. middle \in 1..N /\ r.first + half <= N
    BY <1>1, <1>2, <1>8, SMTT(30)
  <2>3. ASSUME NEW k \in (r.first + half + 1)..N PROVE id <= s[k].id
    <3>1. k \in 1..N /\ (k = middle \/ middle < k)
      BY <2>2, <1>1, <1>2
    <3> QED
      BY <1>4, <1>5, <1>8, <2>2, <3>1
  <2>4. \A k \in 1..r.first : s[k].id < id
    BY DEF Narrows
  <2>5. Halved(s, id, r).first = r.first /\ Halved(s, id, r).count = half
    BY <2>1
  <2> HIDE DEF N, middle
  <2> QED
    BY <1>1, <2>2, <2>3, <2>4, <2>5 DEF Narrows, N
<1> QED
  BY <1>6, <1>7, <1>8

\* In a sorted container the search finds where an id is or belongs.
LEMMA LowerBoundIs ==
  ASSUME NEW S, \A x \in S : x.id \in Nat, NEW s \in Seq(S), Rising(s), NEW id \in Nat
  PROVE  /\ LowerBound(s, id) \in 0..Len(s)
         /\ \A k \in 1..LowerBound(s, id) : s[k].id < id
         /\ \A k \in (LowerBound(s, id) + 1)..Len(s) : id <= s[k].id
<1> DEFINE N == Len(s)
<1>1. PICK r : Searches(r, s, id)
  BY LowerBoundUnfolds
<1> DEFINE Good(n) == r[n] \in Ranges /\ Narrows(r[n], s, id) /\ r[n].count <= N - n
           T == {n \in Nat : n <= N => Good(n)}
<1>2. N \in Nat
  BY LenProperties
<1>3. 0 \in T
  <2>1. r[0] = [first |-> 0, count |-> N]
    BY <1>1 DEF Searches
  <2>2. r[0] \in Ranges /\ r[0].first = 0 /\ r[0].count = N
    BY <1>2, <2>1 DEF Ranges
  <2>3. Narrows(r[0], s, id)
    BY <1>2, <2>2 DEF Narrows
  <2> QED
    BY <1>2, <2>2, <2>3
<1>4. ASSUME NEW n \in T PROVE n + 1 \in T
  <2> SUFFICES ASSUME n + 1 <= N PROVE Good(n + 1)
    OBVIOUS
  <2>1. Good(n) /\ n + 1 \in 1..N /\ (n + 1) - 1 = n
    BY <1>2
  <2>2. r[n + 1] = Halved(s, id, r[n])
    BY <1>1, <2>1 DEF Searches
  <2>3. /\ Halved(s, id, r[n]) \in Ranges
        /\ r[n].count = 0 => Halved(s, id, r[n]) = r[n]
        /\ r[n].count # 0 => Halved(s, id, r[n]).count < r[n].count
    BY <2>1, HalvedOK
  <2>4. Narrows(Halved(s, id, r[n]), s, id)
    BY <2>1, HalvedNarrows
  <2>5. r[n].count \in Nat /\ Halved(s, id, r[n]).count \in Nat
    BY <2>1, <2>3 DEF Ranges
  <2>6. Halved(s, id, r[n]).count <= N - (n + 1)
    BY <1>2, <2>1, <2>3, <2>5
  <2> QED
    BY <2>2, <2>3, <2>4, <2>6
<1>5. T = Nat
  <2>1. T \in SUBSET Nat
    OBVIOUS
  <2> HIDE DEF T
  <2> QED
    BY <1>3, <1>4, <2>1, Induction
<1>6. Good(N)
  BY <1>2, <1>5
<1>7. r[N].count = 0 /\ r[N].first \in Nat
  BY <1>2, <1>6 DEF Ranges
<1>8. LowerBound(s, id) = r[N].first
  BY <1>1 DEF Searches
<1> HIDE DEF N
<1> QED
  BY <1>2, <1>6, <1>7, <1>8 DEF Narrows, N

\* contains_node and get_node find exactly what is in a sorted container.
LEMMA FoundIs ==
  ASSUME NEW S, \A x \in S : x.id \in Nat, NEW s \in Seq(S), Rising(s)
  PROVE  /\ \A k \in DOMAIN s : Position(s, s[k].id) = k
         /\ \A id \in Nat : Contained(s, id) <=> \E k \in DOMAIN s : s[k].id = id
<1> DEFINE N == Len(s)
<1>1. N \in Nat /\ DOMAIN s = 1..N /\ \A k \in 1..N : s[k].id \in Nat
  BY LenProperties, ElementOfSeq
<1>2. ASSUME NEW k \in DOMAIN s PROVE Position(s, s[k].id) = k
  <2> DEFINE b == LowerBound(s, s[k].id)
  <2>1. /\ b \in 0..N
        /\ \A l \in 1..b : s[l].id < s[k].id
        /\ \A l \in (b + 1)..N : s[k].id <= s[l].id
    BY <1>1, LowerBoundIs
  <2> HIDE DEF b
  <2>2. ~(k <= b)
    <3> SUFFICES ASSUME k <= b PROVE FALSE
      OBVIOUS
    <3>1. k \in 1..b
      BY <1>1, <2>1
    <3> QED
      BY <1>1, <2>1, <3>1
  <2>3. ~(b + 1 < k)
    <3> SUFFICES ASSUME b + 1 < k PROVE FALSE
      OBVIOUS
    <3>1. b + 1 \in (b + 1)..N /\ b + 1 \in 1..N
      BY <1>1, <2>1
    <3>2. s[b + 1].id < s[k].id
      BY <1>1, <3>1 DEF Rising
    <3> QED
      BY <1>1, <2>1, <3>1, <3>2
  <2>4. b + 1 = k
    BY <1>1, <2>1, <2>2, <2>3
  <2> QED
    BY <2>4 DEF Position, b
<1>3. ASSUME NEW id \in Nat PROVE Contained(s, id) <=> \E k \in DOMAIN s : s[k].id = id
  BY <1>2 DEF Contained
<1> QED
  BY <1>2, <1>3

-----------------------------------------------------------------------------
(* The sorting of the container.                                           *)

\* A sorted list, said by the order of its elements.
LEMMA RisingBefore ==
  ASSUME NEW s
  PROVE  Rising(s) <=> \A x, y : Before(x, y, s) => x.id < y.id
BY DEF Rising, Before

LEMMA RisingAppended ==
  ASSUME NEW S, NEW s \in Seq(S), NEW x \in S, Rising(s), \A y \in Members(s) : y.id < x.id
  PROVE  Rising(Append(s, x))
<1>1. ASSUME NEW y, NEW z, Before(y, z, Append(s, x)) PROVE y.id < z.id
  <2>1. Before(y, z, s) \/ (y \in Members(s) /\ z = x)
    BY <1>1, BeforeAppended
  <2>2. Before(y, z, s) => y.id < z.id
    BY RisingBefore
  <2> QED
    BY <2>1, <2>2
<1> QED
  BY <1>1, RisingBefore

LEMMA RisingJoin ==
  ASSUME NEW S, NEW a \in Seq(S), NEW b \in Seq(S), Rising(a), Rising(b),
         \A x \in Members(a), y \in Members(b) : x.id < y.id
  PROVE  a \o b \in Seq(S) /\ Members(a \o b) = Members(a) \cup Members(b) /\ Rising(a \o b)
<1> DEFINE M == Len(a)
           N == Len(b)
           t == a \o b
<1>1. /\ t \in Seq(S) /\ Len(t) = M + N /\ M \in Nat /\ N \in Nat
      /\ DOMAIN a = 1..M /\ DOMAIN b = 1..N /\ DOMAIN t = 1..(M + N)
      /\ \A k \in 1..(M + N) : t[k] = IF k <= M THEN a[k] ELSE b[k - M]
  BY LenProperties, ConcatProperties
<1> HIDE DEF t, M, N
<1>2. ASSUME NEW k \in 1..(M + N)
      PROVE  \/ k \in 1..M /\ t[k] = a[k] /\ a[k] \in Members(a)
             \/ k - M \in 1..N /\ t[k] = b[k - M] /\ b[k - M] \in Members(b) /\ ~(k <= M)
  <2>1. (k <= M /\ k \in 1..M) \/ (~(k <= M) /\ k - M \in 1..N)
    BY <1>1
  <2>2. \A j \in 1..M : a[j] \in Members(a)
    BY <1>1 DEF Members
  <2>3. \A j \in 1..N : b[j] \in Members(b)
    BY <1>1 DEF Members
  <2> QED
    BY <1>1, <2>1, <2>2, <2>3
<1>3. Members(t) = Members(a) \cup Members(b)
  <2>1. ASSUME NEW x \in Members(t) PROVE x \in Members(a) \cup Members(b)
    BY <1>1, <1>2 DEF Members
  <2>2. ASSUME NEW x \in Members(a) PROVE x \in Members(t)
    <3>1. PICK k \in 1..M : x = a[k]
      BY <1>1 DEF Members
    <3>2. k \in 1..(M + N) /\ k <= M
      BY <1>1
    <3> QED
      BY <1>1, <3>1, <3>2 DEF Members
  <2>3. ASSUME NEW x \in Members(b) PROVE x \in Members(t)
    <3>1. PICK k \in 1..N : x = b[k]
      BY <1>1 DEF Members
    <3>2. k + M \in 1..(M + N) /\ ~(k + M <= M) /\ (k + M) - M = k
      BY <1>1
    <3>3. t[k + M] = x
      BY <1>1, <3>1, <3>2
    <3> QED
      BY <1>1, <3>2, <3>3 DEF Members
  <2> QED
    BY <2>1, <2>2, <2>3
<1>4. ASSUME NEW j \in 1..(M + N), NEW k \in 1..(M + N), j < k PROVE t[j].id < t[k].id
  <2>1. CASE j <= M /\ k <= M
    <3>1. j \in 1..M /\ k \in 1..M /\ t[j] = a[j] /\ t[k] = a[k]
      BY <1>1, <2>1
    <3> QED
      BY <1>1, <1>4, <3>1 DEF Rising
  <2>2. CASE j <= M /\ ~(k <= M)
    <3>1. t[j] \in Members(a) /\ t[k] \in Members(b)
      BY <1>1, <1>2, <2>2
    <3> QED
      BY <3>1
  <2>3. CASE ~(j <= M)
    <3>1. j - M \in 1..N /\ k - M \in 1..N /\ j - M < k - M /\ ~(k <= M)
      BY <1>1, <1>4, <2>3
    <3>2. t[j] = b[j - M] /\ t[k] = b[k - M]
      BY <1>1, <2>3, <3>1
    <3> QED
      BY <1>1, <3>1, <3>2 DEF Rising
  <2> QED
    BY <2>1, <2>2, <2>3
<1>5. Rising(t)
  BY <1>1, <1>4 DEF Rising
<1> QED
  BY <1>1, <1>3, <1>5 DEF t

LEMMA InsertedIn ==
  ASSUME NEW S, NEW s \in Seq(S), NEW x \in S
  PROVE  Inserted(s, x) \in Seq(S)
<1> DEFINE below == {y \in Members(s) : y.id < x.id}
           low == Without(s, Members(s) \ below)
           high == Without(s, below)
<1>1. low \in Seq(S) /\ high \in Seq(S)
  BY WithoutKeeps
<1>2. Inserted(s, x) = Append(low, x) \o high
  BY DEF Inserted
<1> HIDE DEF low, high
<1> QED
  BY <1>1, <1>2, AppendProperties, ConcatProperties

LEMMA InsertedOK ==
  ASSUME NEW S, \A y \in S : y.id \in Nat, NEW s \in Seq(S), NEW x \in S, Rising(s),
         \A y \in Members(s) : y.id # x.id
  PROVE  /\ Inserted(s, x) \in Seq(S) /\ Rising(Inserted(s, x))
         /\ Members(Inserted(s, x)) = Members(s) \cup {x}
<1> DEFINE below == {y \in Members(s) : y.id < x.id}
           low == Without(s, Members(s) \ below)
           high == Without(s, below)
<1>1. /\ low \in Seq(S) /\ high \in Seq(S)
      /\ Members(low) = Members(s) \ (Members(s) \ below) /\ Members(high) = Members(s) \ below
      /\ \A y, z : Before(y, z, low) \/ Before(y, z, high) => Before(y, z, s)
  BY WithoutKeeps
<1>2. Inserted(s, x) = Append(low, x) \o high
  BY DEF Inserted
<1>3. Members(low) = below /\ \A y \in below : y.id < x.id
  BY <1>1
<1>4. \A y \in Members(s) : y \in S /\ y.id \in Nat
  BY ElementOfSeq, LenProperties DEF Members
<1>5. \A y \in Members(high) : x.id < y.id
  BY <1>1, <1>4
<1>6. \A y \in below, z \in Members(high) : y.id < z.id
  BY <1>1, <1>4
<1> HIDE DEF low, high, below
<1>7. Rising(low) /\ Rising(high)
  BY <1>1, RisingBefore
<1>8. Append(low, x) \in Seq(S) /\ Rising(Append(low, x)) /\ Members(Append(low, x)) = below \cup {x}
  BY <1>1, <1>3, <1>7, RisingAppended, Appended
<1>9. /\ Append(low, x) \o high \in Seq(S) /\ Rising(Append(low, x) \o high)
      /\ Members(Append(low, x) \o high) = below \cup {x} \cup Members(high)
  <2>1. \A y \in Members(Append(low, x)), z \in Members(high) : y.id < z.id
    BY <1>5, <1>6, <1>8
  <2> DEFINE c == Append(low, x)
  <2>2. c \in Seq(S) /\ high \in Seq(S) /\ Rising(c) /\ Rising(high) /\ Members(c) = below \cup {x}
    BY <1>1, <1>7, <1>8
  <2>3. \A y \in Members(c), z \in Members(high) : y.id < z.id
    BY <2>1
  <2> HIDE DEF c
  <2>4. /\ c \o high \in Seq(S) /\ Members(c \o high) = Members(c) \cup Members(high)
        /\ Rising(c \o high)
    BY <2>2, <2>3, RisingJoin
  <2> QED
    BY <2>2, <2>4 DEF c
<1>10. below \subseteq Members(s)
  BY DEF below
<1> QED
  BY <1>1, <1>2, <1>9, <1>10

\* r[n] is the first n elements of s, sorted.
Arranges(r, s, S) ==
    /\ r \in [0..Len(s) -> Seq(S)]
    /\ r[0] = <<>>
    /\ \A n \in 1..Len(s) : r[n] = Inserted(r[n - 1], s[n])
    /\ Arranged(s) = r[Len(s)]

\* The recursion in Arranged.
LEMMA ArrangedUnfolds ==
  ASSUME NEW S, \A x \in S : x.id \in Nat, NEW s \in Seq(S)
  PROVE  \E r : Arranges(r, s, S)
<1> DEFINE N == Len(s)
           step == [x \in Nat \X Seq(S) |-> IF x[1] \in 1..N THEN Inserted(x[2], s[x[1]]) ELSE x[2]]
           F(g) == [n \in 0..Len(s) |-> IF n = 0 THEN <<>> ELSE Inserted(g[n - 1], s[n])]
           rec == CHOOSE g : g = F(g)
<1>1. N \in Nat /\ (\A n \in 1..N : s[n] \in S) /\ <<>> \in Seq(S)
  BY LenProperties, ElementOfSeq
<1>2. step \in [Nat \X Seq(S) -> Seq(S)]
  <2>1. \A x \in Nat \X Seq(S) : x[1] \in 1..N => Inserted(x[2], s[x[1]]) \in Seq(S)
    BY <1>1, InsertedIn
  <2>2. \A x \in Nat \X Seq(S) : (IF x[1] \in 1..N THEN Inserted(x[2], s[x[1]]) ELSE x[2]) \in Seq(S)
    BY <2>1
  <2> QED
    BY <2>2
<1>3. PICK g \in [0..N -> Seq(S)] : Steps(g, <<>>, step, N)
  <2> HIDE DEF step, N
  <2> QED
    BY <1>1, <1>2, Recursion
<1>4. ASSUME NEW n \in 1..N PROVE g[n] = Inserted(g[n - 1], s[n])
  <2>1. n - 1 \in 0..N /\ n \in Nat
    BY <1>1
  <2>2. g[n - 1] \in Seq(S)
    BY <1>3, <2>1
  <2>3. <<n, g[n - 1]>> \in Nat \X Seq(S)
    BY <2>1, <2>2
  <2>4. step[<<n, g[n - 1]>>] = Inserted(g[n - 1], s[n])
    BY <2>3
  <2>5. g[n] = step[<<n, g[n - 1]>>]
    BY <1>3 DEF Steps
  <2> HIDE DEF step
  <2> QED
    BY <2>4, <2>5
<1>5. g = F(g)
  <2>1. ASSUME NEW n \in 0..N PROVE g[n] = F(g)[n]
    <3>1. n = 0 \/ (n # 0 /\ n \in 1..N)
      BY <1>1
    <3>2. F(g)[n] = IF n = 0 THEN <<>> ELSE Inserted(g[n - 1], s[n])
      OBVIOUS
    <3>3. g[0] = <<>>
      BY <1>3 DEF Steps
    <3> HIDE DEF F
    <3> QED
      BY <1>4, <3>1, <3>2, <3>3
  <2>2. g = [n \in 0..N |-> g[n]]
    BY <1>3
  <2>3. F(g) = [n \in 0..N |-> F(g)[n]]
    OBVIOUS
  <2> HIDE DEF F
  <2> QED
    BY <2>1, <2>2, <2>3
<1>6. rec = F(rec)
  <2> HIDE DEF F
  <2> QED
    BY <1>5
<1>7. Arranged(s) = rec[N]
  BY DEF Arranged
<1> HIDE DEF rec
<1>8. \A n \in 0..N : rec[n] = IF n = 0 THEN <<>> ELSE Inserted(rec[n - 1], s[n])
  BY <1>6
<1>9. rec[0] = <<>> /\ \A n \in 1..N : rec[n] = Inserted(rec[n - 1], s[n])
  <2>1. 0 \in 0..N /\ \A n \in 1..N : n \in 0..N /\ n # 0
    BY <1>1
  <2> QED
    BY <1>8, <2>1
<1> DEFINE T == {m \in Nat : m \in 0..N => rec[m] \in Seq(S)}
<1>10. 0 \in T
  BY <1>1, <1>9
<1>11. ASSUME NEW m \in T PROVE m + 1 \in T
  <2> SUFFICES ASSUME m + 1 \in 0..N PROVE rec[m + 1] \in Seq(S)
    OBVIOUS
  <2>1. m \in 0..N /\ m + 1 \in 1..N /\ (m + 1) - 1 = m /\ rec[m] \in Seq(S)
    BY <1>1
  <2>2. rec[m + 1] = Inserted(rec[m], s[m + 1])
    BY <1>9, <2>1
  <2>3. s[m + 1] \in S
    BY <1>1, <2>1
  <2> QED
    BY <2>1, <2>2, <2>3, InsertedIn
<1>12. T = Nat
  <2>1. T \in SUBSET Nat
    OBVIOUS
  <2> HIDE DEF T
  <2> QED
    BY <1>10, <1>11, <2>1, Induction
<1>13. \A m \in 0..N : rec[m] \in Seq(S)
  BY <1>1, <1>12
<1>14. rec \in [0..N -> Seq(S)]
  <2>1. rec = [n \in 0..N |-> rec[n]]
    BY <1>6
  <2> QED
    BY <1>13, <2>1
<1> QED
  BY <1>7, <1>9, <1>14 DEF Arranges

\* No two elements have the same id.
Different(s) == \A j, k \in DOMAIN s : j # k => s[j].id # s[k].id

LEMMA ArrangedOK ==
  ASSUME NEW S, \A y \in S : y.id \in Nat, NEW s \in Seq(S), Different(s)
  PROVE  /\ Arranged(s) \in Seq(S) /\ Rising(Arranged(s))
         /\ Members(Arranged(s)) = Members(s)
<1> DEFINE N == Len(s)
<1>1. PICK r : Arranges(r, s, S)
  BY ArrangedUnfolds
<1>2. N \in Nat /\ DOMAIN s = 1..N /\ \A k \in 1..N : s[k] \in S
  BY LenProperties, ElementOfSeq
<1> DEFINE First(n) == {s[k] : k \in 1..n}
           Good(n) == r[n] \in Seq(S) /\ Rising(r[n]) /\ Members(r[n]) = First(n)
           T == {n \in Nat : n <= N => Good(n)}
<1>3. 0 \in T
  <2>1. r[0] = <<>>
    BY <1>1 DEF Arranges
  <2>2. Rising(<<>>) /\ <<>> \in Seq(S) /\ Members(<<>>) = {} /\ First(0) = {}
    BY EmptyList, EmptySeq DEF Rising
  <2> QED
    BY <2>1, <2>2
<1>4. ASSUME NEW n \in T PROVE n + 1 \in T
  <2> SUFFICES ASSUME n + 1 <= N PROVE Good(n + 1)
    OBVIOUS
  <2>1. Good(n) /\ n \in Nat /\ n + 1 \in 1..N /\ (n + 1) - 1 = n
    BY <1>2
  <2>2. r[n + 1] = Inserted(r[n], s[n + 1])
    BY <1>1, <2>1 DEF Arranges
  <2>3. First(n + 1) = First(n) \cup {s[n + 1]}
    <3>1. 1..(n + 1) = 1..n \cup {n + 1}
      BY <2>1
    <3> QED
      BY <3>1
  <2>4. ASSUME NEW y \in Members(r[n]) PROVE y.id # s[n + 1].id
    <3>1. PICK k \in 1..n : y = s[k]
      BY <2>1
    <3>2. k \in 1..N /\ k # n + 1
      BY <1>2, <2>1
    <3> QED
      BY <1>2, <2>1, <3>1, <3>2 DEF Different
  <2>5. s[n + 1] \in S
    BY <1>2, <2>1
  <2> HIDE DEF First
  <2>6. /\ Inserted(r[n], s[n + 1]) \in Seq(S) /\ Rising(Inserted(r[n], s[n + 1]))
        /\ Members(Inserted(r[n], s[n + 1])) = Members(r[n]) \cup {s[n + 1]}
    BY <2>1, <2>4, <2>5, InsertedOK
  <2> QED
    BY <2>1, <2>2, <2>3, <2>6
<1>5. T = Nat
  <2>1. T \in SUBSET Nat
    OBVIOUS
  <2> HIDE DEF T
  <2> QED
    BY <1>3, <1>4, <2>1, Induction
<1>6. Good(N)
  <2> HIDE DEF Good
  <2> QED
    BY <1>2, <1>5
<1>7. First(N) = Members(s)
  BY <1>2 DEF Members
<1>8. Arranged(s) = r[N]
  BY <1>1 DEF Arranges
<1> QED
  BY <1>6, <1>7, <1>8

-----------------------------------------------------------------------------
(* Sums.                                                                   *)

LEMMA TotalIsSum == \A s : Total(s) = SumOf(s)
BY DEF Total, SumOf

LEMMA TotalIsNat ==
  ASSUME NEW s \in Seq(Nat)
  PROVE  Total(s) \in Nat /\ (Len(s) = 0 => Total(s) = 0)
BY SumIsNat, TotalIsSum

\* A sum of n + 1 numbers, from the sum of the first n.
LEMMA TotalLonger ==
  ASSUME NEW n \in Nat, NEW f \in [1..(n + 1) -> Nat], NEW g \in [1..n -> Nat],
         \A k \in 1..n : g[k] = f[k]
  PROVE  Total(g) \in Nat /\ Total(f) = Total(g) + f[n + 1]
BY SumLonger, TotalIsSum

-----------------------------------------------------------------------------
(* The invariant of the import.                                            *)

KnownNodes == [id : DOMAIN NodeTags, index : Nat, added : BOOLEAN]

KnownIds == {x.id : x \in Members(known)}

\* The vertex with index ix is node id.
Placed(ix, id) == ix + 1 \in DOMAIN indexMap /\ vid[indexMap[ix + 1]] = id

\* The container has each node once, and is sorted unless it is marked for sorting.
KnownOK ==
    /\ known \in Seq(KnownNodes) /\ Different(known)
    /\ unsorted \in BOOLEAN /\ (~unsorted => Rising(known))

\* A node that is marked as added has its vertex.
AddedOK == \A x \in Members(known) : x.added => Placed(x.index, x.id)

\* The known nodes that are not in the graph.
Open == {x.id : x \in {y \in Members(known) : ~y.added}}

AtNodes ==
    /\ stage = "nodes" /\ i \in 1..(Len(way.refs) + 1) /\ due = <<>>
    /\ i > 1 => ~unsorted
    /\ \A j \in 1..(i - 1) : way.refs[j] \notin Open
    /\ pc # "idle" => /\ ~unsorted /\ i <= Len(way.refs) /\ way.refs[i] \in KnownIds
                      /\ job.kind = "vertex" /\ job.id = way.refs[i]

Dues == Seq(KnownIds \X KnownIds)

AtEdges ==
    /\ stage = "edges" /\ i \in 1..Len(way.refs) /\ ~unsorted
    /\ \A j \in 1..Len(way.refs) : way.refs[j] \notin Open
    /\ due \in Dues /\ Len(due) <= 2
    /\ \A k \in DOMAIN due : due[k][1] \notin Open /\ due[k][2] \notin Open
    /\ pc # "idle" => job.kind = "edge" /\ job.id = way.id

Reads == [way : Ways, known : SUBSET (DOMAIN NodeTags)]

\* Where a way stands between its two loops, and what the call under way is about.
WayOK ==
    /\ history \in Seq(Reads)
    /\ way = Nothing /\ reading => pc = "idle"
    /\ way # Nothing => /\ way \in Ways /\ reading
                        /\ history # <<>>
                        /\ history[Len(history)] = [way |-> way, known |-> KnownIds]
                        /\ AtNodes \/ AtEdges

\* A call for a vertex returns the index of its node.
AnswerOK == pc = "returned" /\ job.kind = "vertex" => answer \in Nat /\ Placed(answer, job.id)

OsmInv == KnownOK /\ AddedOK /\ WayOK /\ AnswerOK

-----------------------------------------------------------------------------
(* The container keeps its shape.                                          *)

LEMMA KnownTyped == \A x \in KnownNodes : x.id \in Nat /\ x.id \in DOMAIN NodeTags
BY OsmAssumption DEF KnownNodes

LEMMA SortedOK ==
  ASSUME KnownOK
  PROVE  /\ Sorted(known) \in Seq(KnownNodes) /\ Rising(Sorted(known))
         /\ Members(Sorted(known)) = Members(known)
         /\ ~unsorted => Sorted(known) = known
<1>1. \A x \in KnownNodes : x.id \in Nat
  BY KnownTyped
<1>2. Arranged(known) \in Seq(KnownNodes) /\ Rising(Arranged(known)) /\ Members(Arranged(known)) = Members(known)
  BY <1>1, ArrangedOK DEF KnownOK
<1> QED
  BY <1>2 DEF Sorted, KnownOK

LEMMA RisingDiffers ==
  ASSUME NEW s \in Seq(KnownNodes), Rising(s)
  PROVE  Different(s)
<1>1. \A k \in DOMAIN s : s[k].id \in Nat
  BY KnownTyped, ElementOfSeq, LenProperties
<1>2. DOMAIN s \subseteq Int
  BY LenProperties
<1> QED
  BY <1>1, <1>2 DEF Rising, Different

\* What a search in the sorted container tells.
LEMMA SearchOK ==
  ASSUME NEW s \in Seq(KnownNodes), Rising(s)
  PROVE  /\ \A x \in Members(s) : /\ Position(s, x.id) \in DOMAIN s /\ s[Position(s, x.id)] = x
                                  /\ x.id \in Nat /\ x \in KnownNodes
         /\ \A id \in Nat : Contained(s, id) <=> \E x \in Members(s) : x.id = id
<1>1. \A x \in KnownNodes : x.id \in Nat
  BY KnownTyped
<1>2. /\ \A k \in DOMAIN s : Position(s, s[k].id) = k
      /\ \A id \in Nat : Contained(s, id) <=> \E k \in DOMAIN s : s[k].id = id
  BY <1>1, FoundIs
<1>3. \A k \in DOMAIN s : s[k] \in KnownNodes
  BY ElementOfSeq, LenProperties
<1>4. ASSUME NEW x \in Members(s)
      PROVE  /\ Position(s, x.id) \in DOMAIN s /\ s[Position(s, x.id)] = x
             /\ x.id \in Nat /\ x \in KnownNodes
  <2>1. PICK k \in DOMAIN s : x = s[k]
    BY DEF Members
  <2> QED
    BY <1>1, <1>2, <1>3, <2>1
<1>5. ASSUME NEW id \in Nat PROVE Contained(s, id) <=> \E x \in Members(s) : x.id = id
  BY <1>2 DEF Members
<1> QED
  BY <1>4, <1>5

LEMMA WayTyped ==
  ASSUME NEW w \in Ways
  PROVE  /\ w.refs \in Seq(Nat) /\ Len(w.refs) \in Nat /\ Len(w.refs) >= 1
         /\ DOMAIN w.refs = 1..Len(w.refs) /\ \A j \in 1..Len(w.refs) : w.refs[j] \in Nat
         /\ w.id \in DOMAIN WayTags /\ WayTags[w.id] # <<>> /\ w # Nothing
         /\ w.oneway \in BOOLEAN /\ w.reverse \in BOOLEAN
<1>1. w \in [id : DOMAIN WayTags, refs : Seq(Nat) \ {<<>>}, oneway : BOOLEAN, reverse : BOOLEAN]
  BY OsmAssumption
<1>2. /\ w.refs \in Seq(Nat) /\ w.refs # <<>> /\ w.id \in DOMAIN WayTags
      /\ w.oneway \in BOOLEAN /\ w.reverse \in BOOLEAN
  BY <1>1
<1>3. WayTags[w.id] # <<>> /\ w # Nothing
  BY OsmAssumption
<1>4. /\ Len(w.refs) \in Nat /\ DOMAIN w.refs = 1..Len(w.refs)
      /\ \A j \in 1..Len(w.refs) : w.refs[j] \in Nat
  BY <1>2, LenProperties, ElementOfSeq
<1>5. Len(w.refs) # 0
  BY <1>2, EmptySeq
<1> QED
  BY <1>2, <1>3, <1>4, <1>5

LEMMA KnownIdsAre == KnownIds = {known[k].id : k \in DOMAIN known}
BY DEF KnownIds, Members

LEMMA KnownIdsTyped == KnownOK => KnownIds \subseteq DOMAIN NodeTags /\ KnownIds \subseteq Nat
BY KnownTyped, ElementOfSeq, LenProperties DEF KnownOK, KnownIds, Members

\* The container has the same nodes as before, sorted.
LEMMA SortingKeeps ==
  ASSUME KnownOK, known' = Sorted(known), unsorted' = FALSE
  PROVE  KnownOK' /\ Members(known)' = Members(known)
<1>1. known' \in Seq(KnownNodes) /\ Rising(known') /\ Members(known') = Members(known)
  BY SortedOK
<1>2. Different(known')
  BY <1>1, RisingDiffers
<1> QED
  BY <1>1, <1>2 DEF KnownOK

LEMMA SameNodes ==
  ASSUME Members(known)' = Members(known)
  PROVE  /\ KnownIds' = KnownIds /\ Open' = Open
         /\ (indexMap' = indexMap /\ vid' = vid /\ AddedOK => AddedOK')
BY DEF KnownIds, Open, AddedOK, Placed

LEMMA AnswerSame ==
  ASSUME AnswerOK, pc' # "returned" \/ UNCHANGED <<pc, job, answer, indexMap, vid>>
  PROVE  AnswerOK'
BY DEF AnswerOK, Placed

LEMMA LastOf ==
  ASSUME NEW n \in Nat, NEW k \in 1..n
  PROVE  n \in 1..n /\ (k = n \/ k < n)
OBVIOUS

LEMMA ReadNodeKeeps ==
  ASSUME OsmInv, NEW id \in DOMAIN NodeTags, ReadNode(id)
  PROVE  OsmInv'
<1> DEFINE s == Sorted(known)
<1>1. /\ reading /\ way = Nothing /\ pc = "idle"
      /\ pc' = pc /\ way' = way /\ reading' = reading /\ history' = history
      /\ UNCHANGED <<job, answer, indexMap, vid>>
      /\ \/ Contained(s, id) /\ known' = s /\ unsorted' = FALSE
         \/ /\ ~Contained(s, id) /\ known' = Append(s, OsmVertex(id))
            /\ unsorted' = (s # <<>> /\ s[Len(s)].id > id)
  BY DEF ReadNode, importStoreVars, graphDataVars
<1>2. WayOK' /\ AnswerOK'
  BY <1>1, AnswerSame DEF OsmInv, WayOK
<1>3. s \in Seq(KnownNodes) /\ Rising(s) /\ Members(s) = Members(known)
  BY SortedOK DEF OsmInv
<1> HIDE DEF s
<1>4. CASE Contained(s, id)
  <2>1. KnownOK' /\ Members(known)' = Members(known)
    BY <1>1, <1>4, SortingKeeps DEF OsmInv, s
  <2>2. AddedOK'
    BY <1>1, <2>1, SameNodes DEF OsmInv
  <2> QED
    BY <1>2, <2>1, <2>2 DEF OsmInv
<1>5. CASE ~Contained(s, id)
  <2> DEFINE x == OsmVertex(id)
  <2>1. known' = Append(s, x) /\ unsorted' = (s # <<>> /\ s[Len(s)].id > id)
    BY <1>1, <1>5
  <2>2. x \in KnownNodes /\ x.id = id /\ x.added = FALSE /\ id \in Nat
    BY OsmAssumption DEF OsmVertex, KnownNodes
  <2> HIDE DEF x
  <2>3. \A y \in Members(s) : y.id # id /\ y.id \in Nat
    BY <1>3, <1>5, <2>2, SearchOK
  <2>4. /\ Append(s, x) \in Seq(KnownNodes) /\ DOMAIN Append(s, x) = 1..(Len(s) + 1)
        /\ Len(s) \in Nat /\ DOMAIN s = 1..Len(s)
        /\ \A k \in 1..Len(s) : Append(s, x)[k] = s[k]
        /\ Append(s, x)[Len(s) + 1] = x /\ Members(Append(s, x)) = Members(s) \cup {x}
    BY <1>3, <2>2, Appended
  <2>5. \A k \in 1..Len(s) : s[k] \in Members(s)
    BY <2>4 DEF Members
  <2>6. Different(s)
    BY <1>3, RisingDiffers
  <2>7. Different(Append(s, x))
    <3> SUFFICES ASSUME NEW j \in 1..(Len(s) + 1), NEW k \in 1..(Len(s) + 1), j # k
                 PROVE  Append(s, x)[j].id # Append(s, x)[k].id
      BY <2>4 DEF Different
    <3>1. CASE j \in 1..Len(s) /\ k \in 1..Len(s)
      BY <2>4, <2>6, <3>1 DEF Different
    <3>2. CASE j = Len(s) + 1
      <4>1. k \in 1..Len(s)
        BY <2>4, <3>2
      <4> QED
        BY <2>2, <2>3, <2>4, <2>5, <3>2, <4>1
    <3>3. CASE k = Len(s) + 1
      <4>1. j \in 1..Len(s)
        BY <2>4, <3>3
      <4> QED
        BY <2>2, <2>3, <2>4, <2>5, <3>3, <4>1
    <3> QED
      BY <2>4, <3>1, <3>2, <3>3
  <2>8. ASSUME ~unsorted' PROVE Rising(Append(s, x))
    <3>1. ASSUME NEW y \in Members(s) PROVE y.id < x.id
      <4>1. PICK k \in 1..Len(s) : y = s[k]
        BY <2>4 DEF Members
      <4>2. Len(s) \in 1..Len(s) /\ (k = Len(s) \/ k < Len(s))
        BY <2>4, LastOf
      <4>3. s # <<>>
        BY <4>2, EmptySeq
      <4>4. ~(s[Len(s)].id > id) /\ s[Len(s)].id # id /\ s[Len(s)].id \in Nat
        BY <2>1, <2>3, <2>5, <2>8, <4>2, <4>3
      <4>5. s[Len(s)].id < id
        BY <2>2, <4>4
      <4>6. k < Len(s) => s[k].id < s[Len(s)].id
        BY <1>3, <2>4, <4>2 DEF Rising
      <4> QED
        BY <2>2, <2>3, <2>5, <4>1, <4>2, <4>4, <4>5, <4>6
    <3> QED
      BY <1>3, <2>2, <3>1, RisingAppended
  <2>9. KnownOK'
    BY <2>1, <2>4, <2>7, <2>8 DEF KnownOK
  <2>10. AddedOK'
    BY <1>1, <1>3, <2>1, <2>2, <2>4 DEF OsmInv, AddedOK, Placed
  <2> QED
    BY <1>2, <2>9, <2>10 DEF OsmInv
<1> QED
  BY <1>4, <1>5

LEMMA ReadWayKeeps ==
  ASSUME OsmInv, NEW w \in Ways, ReadWay(w)
  PROVE  OsmInv'
<1> DEFINE r == [way |-> w, known |-> KnownIds]
<1>1. /\ reading /\ pc = "idle" /\ way' = w /\ stage' = "nodes" /\ i' = 1 /\ due' = <<>>
      /\ history' = Append(history, r)
      /\ UNCHANGED <<known, unsorted, reading, pc, job, answer, indexMap, vid>>
  BY KnownIdsAre DEF ReadWay, importStoreVars, graphDataVars
<1>2. KnownOK' /\ AddedOK' /\ AnswerOK' /\ KnownIds' = KnownIds
  BY <1>1, AnswerSame DEF OsmInv, KnownOK, AddedOK, Placed, KnownIds
<1>3. r \in Reads
  BY KnownIdsTyped DEF OsmInv, Reads
<1> HIDE DEF r
<1>4. history \in Seq(Reads)
  BY DEF OsmInv, WayOK
<1>5. /\ history' \in Seq(Reads) /\ Len(history') = Len(history) + 1 /\ Len(history) \in Nat
      /\ history'[Len(history')] = r
  BY <1>1, <1>3, <1>4, Appended
<1>6. history' # <<>>
  BY <1>5, EmptySeq
<1>7. AtNodes'
  BY <1>1, WayTyped DEF AtNodes
<1>8. WayOK'
  BY <1>1, <1>2, <1>5, <1>6, <1>7, WayTyped DEF WayOK, r
<1> QED
  BY <1>2, <1>8 DEF OsmInv

\* The current way, between its loops.
LEMMA CurrentWay ==
  ASSUME OsmInv, way # Nothing
  PROVE  /\ way \in Ways /\ reading /\ (AtNodes \/ AtEdges)
         /\ way.refs \in Seq(Nat) /\ Len(way.refs) \in Nat /\ Len(way.refs) >= 1
         /\ DOMAIN way.refs = 1..Len(way.refs) /\ \A j \in 1..Len(way.refs) : way.refs[j] \in Nat
BY WayTyped DEF OsmInv, WayOK

LEMMA WayNodeKeeps ==
  ASSUME OsmInv, WayNode
  PROVE  /\ OsmInv'
         /\ \/ \E id \in DOMAIN NodeTags : Call([kind |-> "vertex", id |-> id])
            \/ UNCHANGED importStoreVars
<1> DEFINE s == Sorted(known)
           id == way.refs[i]
<1>1. /\ way # Nothing /\ stage = "nodes" /\ pc = "idle" /\ i <= Len(way.refs)
      /\ known' = s /\ unsorted' = FALSE
      /\ UNCHANGED <<way, stage, due, reading, history>>
      /\ \/ /\ Contained(s, id) /\ ~s[Position(s, id)].added
            /\ Call([kind |-> "vertex", id |-> id]) /\ i' = i
         \/ /\ ~(Contained(s, id) /\ ~s[Position(s, id)].added)
            /\ i' = i + 1 /\ UNCHANGED importStoreVars
  BY DEF WayNode, Sorts
<1>2. /\ s \in Seq(KnownNodes) /\ Rising(s) /\ Members(s) = Members(known)
  BY SortedOK DEF OsmInv
<1>3. KnownOK' /\ Members(known)' = Members(known)
  BY <1>1, SortingKeeps DEF OsmInv
<1>4. KnownIds' = KnownIds /\ Open' = Open
  BY <1>3, SameNodes
<1>5. /\ AtNodes /\ way \in Ways /\ i \in 1..Len(way.refs) /\ id \in Nat /\ Len(way.refs) \in Nat
  <2>1. AtNodes /\ way \in Ways /\ Len(way.refs) \in Nat
    BY <1>1, CurrentWay DEF AtEdges
  <2>2. i \in 1..Len(way.refs)
    BY <1>1, <2>1 DEF AtNodes
  <2> QED
    BY <1>1, <2>1, <2>2, CurrentWay
<1> HIDE DEF s
<1>6. CASE Contained(s, id) /\ ~s[Position(s, id)].added
  <2>1. /\ Call([kind |-> "vertex", id |-> id]) /\ i' = i
    BY <1>1, <1>6
  <2>2. /\ job' = [kind |-> "vertex", id |-> id] /\ pc' = "begin" /\ indexMap' = indexMap /\ vid' = vid
    BY <2>1 DEF Call, graphDataVars
  <2>3. PICK x \in Members(s) : x.id = id
    BY <1>2, <1>5, <1>6, SearchOK
  <2>4. id \in KnownIds /\ id \in DOMAIN NodeTags
    <3>1. x \in KnownNodes
      BY <1>2, <2>3, SearchOK
    <3> QED
      BY <1>2, <2>3, <3>1, KnownTyped DEF KnownIds
  <2>5. job'.kind = "vertex" /\ job'.id = id
    BY <2>2
  <2> HIDE DEF id
  <2>6. AtNodes'
    BY <1>1, <1>4, <1>5, <2>1, <2>2, <2>4, <2>5 DEF AtNodes, id
  <2>7. WayOK'
    BY <1>1, <1>4, <2>6 DEF OsmInv, WayOK
  <2>8. AnswerOK' /\ AddedOK'
    BY <1>3, <2>2, AnswerSame, SameNodes DEF OsmInv
  <2> QED
    BY <1>3, <2>1, <2>4, <2>7, <2>8 DEF OsmInv
<1>7. CASE ~(Contained(s, id) /\ ~s[Position(s, id)].added)
  <2>1. i' = i + 1 /\ UNCHANGED importStoreVars
    BY <1>1, <1>7
  <2>2. UNCHANGED <<pc, job, answer, indexMap, vid>>
    BY <2>1 DEF importStoreVars, graphDataVars
  <2>3. id \notin Open
    <3> SUFFICES ASSUME NEW x \in Members(known), x.id = id PROVE x.added
      BY DEF Open
    <3>1. x \in Members(s) /\ s[Position(s, id)] = x /\ Contained(s, id)
      BY <1>2, <1>5, SearchOK
    <3> QED
      BY <1>7, <3>1
  <2> HIDE DEF id
  <2>4. \A j \in 1..(i' - 1) : way.refs[j] \notin Open
    <3> SUFFICES ASSUME NEW j \in 1..(i' - 1) PROVE way.refs[j] \notin Open
      OBVIOUS
    <3>1. j = i \/ j \in 1..(i - 1)
      BY <1>5, <2>1
    <3> QED
      BY <1>5, <2>3, <3>1 DEF AtNodes, id
  <2>5. AtNodes'
    BY <1>1, <1>4, <1>5, <2>1, <2>2, <2>4 DEF AtNodes
  <2>6. WayOK'
    BY <1>1, <1>4, <2>2, <2>5 DEF OsmInv, WayOK
  <2>7. AnswerOK' /\ AddedOK'
    BY <1>3, <2>2, AnswerSame, SameNodes DEF OsmInv
  <2> QED
    BY <1>3, <2>1, <2>6, <2>7 DEF OsmInv
<1> QED
  BY <1>6, <1>7

\* The entry of a node in the container, when its vertex was added.
LEMMA NodeMarked ==
  ASSUME OsmInv, NEW p \in DOMAIN known, NEW ix \in Nat,
         known' = [known EXCEPT ![p] = [@ EXCEPT !.index = ix, !.added = TRUE]],
         unsorted' = unsorted, Placed(ix, known[p].id), indexMap' = indexMap, vid' = vid
  PROVE  KnownOK' /\ AddedOK' /\ KnownIds' = KnownIds /\ Open' \subseteq Open \ {known[p].id}
<1> DEFINE new == [known[p] EXCEPT !.index = ix, !.added = TRUE]
           N == Len(known)
<1>1. /\ known \in Seq(KnownNodes) /\ DOMAIN known = 1..N /\ N \in Nat
      /\ \A k \in 1..N : known[k] \in KnownNodes
  BY LenProperties, ElementOfSeq DEF OsmInv, KnownOK
<1>2. new \in KnownNodes /\ new.id = known[p].id /\ new.added = TRUE /\ new.index = ix
  BY <1>1 DEF KnownNodes
<1>3. known' = [known EXCEPT ![p] = new]
  OBVIOUS
<1> HIDE DEF new, N
<1>4. /\ known' \in Seq(KnownNodes) /\ DOMAIN known' = 1..N
      /\ \A k \in 1..N : known'[k] = IF k = p THEN new ELSE known[k]
  <2>1. known \in [1..N -> KnownNodes]
    BY <1>1
  <2>2. known' \in [1..N -> KnownNodes]
    BY <1>2, <1>3, <2>1
  <2> QED
    BY <1>1, <1>3, <2>1, <2>2, SeqDef
<1>5. \A k \in 1..N : known'[k].id = known[k].id
  BY <1>2, <1>4
<1>6. KnownOK'
  BY <1>1, <1>4, <1>5 DEF OsmInv, KnownOK, Different, Rising
<1>7. KnownIds' = KnownIds
  <2>1. KnownIds = {known[k].id : k \in 1..N}
    BY <1>1, KnownIdsAre
  <2>2. KnownIds' = {known'[k].id : k \in 1..N}
    <3>1. {x.id : x \in Members(known')} = {known'[k].id : k \in DOMAIN known'}
      BY DEF Members
    <3> QED
      BY <1>4, <3>1 DEF KnownIds
  <2> QED
    BY <1>5, <2>1, <2>2
<1>8. ASSUME NEW x \in Members(known)' PROVE (x = new) \/ (x \in Members(known) /\ x.id # known[p].id)
  <2>1. PICK k \in 1..N : x = known'[k]
    BY <1>4 DEF Members
  <2> QED
    BY <1>1, <1>4, <2>1 DEF Members, OsmInv, KnownOK, Different
<1>9. AddedOK'
  BY <1>2, <1>8 DEF OsmInv, AddedOK, Placed
<1>10. Open' \subseteq Open \ {known[p].id}
  BY <1>2, <1>8 DEF Open
<1> QED
  BY <1>6, <1>7, <1>9, <1>10

LEMMA VertexAddedKeeps ==
  ASSUME OsmInv, VertexAdded
  PROVE  OsmInv'
<1> DEFINE id == way.refs[i]
           p == Position(known, id)
<1>1. /\ way # Nothing /\ stage = "nodes" /\ pc = "returned" /\ pc' = "idle" /\ i' = i + 1
      /\ known' = [known EXCEPT ![p] = [@ EXCEPT !.index = answer, !.added = TRUE]]
      /\ UNCHANGED <<unsorted, way, stage, due, reading, history, job, indexMap, vid>>
  BY DEF VertexAdded, Resume, graphDataVars
<1>2. /\ AtNodes /\ way \in Ways /\ Len(way.refs) \in Nat /\ i \in 1..Len(way.refs)
      /\ ~unsorted /\ id \in KnownIds /\ job.kind = "vertex" /\ job.id = id
  <2>1. AtNodes /\ way \in Ways /\ Len(way.refs) \in Nat
    BY <1>1, CurrentWay DEF AtEdges
  <2> QED
    BY <1>1, <2>1 DEF AtNodes
<1>3. known \in Seq(KnownNodes) /\ Rising(known)
  BY <1>2 DEF OsmInv, KnownOK
<1>4. p \in DOMAIN known /\ known[p].id = id
  <2>1. PICK x \in Members(known) : x.id = id
    BY <1>2 DEF KnownIds
  <2> QED
    BY <1>3, <2>1, SearchOK
<1>5. answer \in Nat /\ Placed(answer, id)
  BY <1>1, <1>2 DEF OsmInv, AnswerOK
<1> HIDE DEF p, id
<1>6. KnownOK' /\ AddedOK' /\ KnownIds' = KnownIds /\ Open' \subseteq Open \ {id}
  BY <1>1, <1>4, <1>5, NodeMarked
<1>7. \A j \in 1..(i' - 1) : way.refs[j] \notin Open'
  <2> SUFFICES ASSUME NEW j \in 1..(i' - 1) PROVE way.refs[j] \notin Open'
    OBVIOUS
  <2>1. CASE j = i
    BY <1>6, <2>1 DEF id
  <2>2. CASE j \in 1..(i - 1)
    BY <1>2, <1>6, <2>2 DEF AtNodes
  <2> QED
    BY <1>1, <1>2, <2>1, <2>2
<1>8. AtNodes'
  BY <1>1, <1>2, <1>7 DEF AtNodes
<1>9. WayOK' /\ AnswerOK'
  BY <1>1, <1>6, <1>8, AnswerSame DEF OsmInv, WayOK
<1> QED
  BY <1>6, <1>9 DEF OsmInv

LEMMA ContainerSame ==
  ASSUME UNCHANGED <<known, unsorted>>
  PROVE  /\ KnownIds' = KnownIds /\ Open' = Open /\ Members(known)' = Members(known)
         /\ KnownOK => KnownOK'
BY DEF KnownIds, Open, Members, KnownOK

LEMMA AddedSame ==
  ASSUME AddedOK, UNCHANGED <<known, indexMap, vid>>
  PROVE  AddedOK'
BY DEF AddedOK, Placed

LEMMA NodesDoneKeeps ==
  ASSUME OsmInv, NodesDone
  PROVE  OsmInv'
<1>1. /\ way # Nothing /\ stage = "nodes" /\ pc = "idle" /\ i > Len(way.refs)
      /\ stage' = "edges" /\ i' = 1
      /\ UNCHANGED <<known, unsorted, way, due, reading, history, pc, job, answer, indexMap, vid>>
  BY DEF NodesDone, importStoreVars, graphDataVars
<1>2. AtNodes /\ Len(way.refs) \in Nat /\ Len(way.refs) >= 1
  BY <1>1, CurrentWay DEF AtEdges
<1>3. /\ i = Len(way.refs) + 1 /\ ~unsorted /\ due = <<>>
      /\ \A j \in 1..Len(way.refs) : way.refs[j] \notin Open
  BY <1>1, <1>2 DEF AtNodes
<1>4. KnownIds' = KnownIds /\ Open' = Open /\ KnownOK' /\ AddedOK' /\ AnswerOK'
  BY <1>1, ContainerSame, AddedSame, AnswerSame DEF OsmInv
<1>5. due \in Dues /\ Len(due) = 0 /\ DOMAIN due = {}
  BY <1>3, EmptySeq DEF Dues
<1>6. AtEdges'
  <2>1. Dues' = Dues
    BY <1>4 DEF Dues
  <2> QED
    BY <1>1, <1>2, <1>3, <1>4, <1>5, <2>1 DEF AtEdges
<1>7. WayOK'
  BY <1>1, <1>4, <1>6 DEF OsmInv, WayOK
<1> QED
  BY <1>4, <1>7 DEF OsmInv

LEMMA LinksOK ==
  ASSUME NEW w, NEW K, NEW a \in K, NEW b \in K
  PROVE  /\ Links(w, a, b) \in Seq(K \X K)
         /\ Len(Links(w, a, b)) <= 2
         /\ \A k \in DOMAIN Links(w, a, b) : Links(w, a, b)[k] \in {<<a, b>>, <<b, a>>}
<1> DEFINE p == <<a, b>>
           q == <<b, a>>
<1>1. p \in K \X K /\ q \in K \X K
  OBVIOUS
<1>2. Links(w, a, b) \in {<<q>>, <<p>>, <<p, q>>}
  BY DEF Links
<1> HIDE DEF p, q
<1>3. ASSUME NEW s \in {<<q>>, <<p>>, <<p, q>>}
      PROVE  s \in Seq(K \X K) /\ Len(s) <= 2 /\ \A k \in DOMAIN s : s[k] \in {p, q}
  <2>1. CASE s = <<q>>
    BY <1>1, <2>1
  <2>2. CASE s = <<p>>
    BY <1>1, <2>2
  <2>3. CASE s = <<p, q>>
    BY <1>1, <2>3
  <2> QED
    BY <2>1, <2>2, <2>3
<1> QED
  BY <1>2, <1>3 DEF p, q

LEMMA OneOrTwo ==
  ASSUME NEW n \in Nat, n <= 2, n # 0
  PROVE  n \in {1, 2} /\ n >= 1
OBVIOUS

LEMMA WayPairKeeps ==
  ASSUME OsmInv, WayPair
  PROVE  OsmInv'
<1> DEFINE a == way.refs[i]
           b == way.refs[i + 1]
<1>1. /\ way # Nothing /\ stage = "edges" /\ pc = "idle" /\ due = <<>> /\ i < Len(way.refs)
      /\ due' = IF Contained(known, a) /\ Contained(known, b) THEN Links(way, a, b) ELSE <<>>
      /\ i' = i + 1
      /\ UNCHANGED <<known, unsorted, way, stage, reading, history, pc, job, answer, indexMap, vid>>
  BY DEF WayPair, importStoreVars, graphDataVars
<1>2. /\ AtEdges /\ Len(way.refs) \in Nat /\ \A j \in 1..Len(way.refs) : way.refs[j] \in Nat
  BY <1>1, CurrentWay DEF AtNodes
<1>3. /\ i \in 1..Len(way.refs) /\ i + 1 \in 1..Len(way.refs) /\ ~unsorted
      /\ a \notin Open /\ b \notin Open /\ a \in Nat /\ b \in Nat
  BY <1>1, <1>2 DEF AtEdges
<1>4. known \in Seq(KnownNodes) /\ Rising(known)
  BY <1>3 DEF OsmInv, KnownOK
<1>5. \A id \in Nat : Contained(known, id) => id \in KnownIds
  BY <1>4, SearchOK DEF KnownIds
<1> HIDE DEF a, b
<1>6. /\ due' \in Dues /\ Len(due') <= 2
      /\ \A k \in DOMAIN due' : due'[k][1] \notin Open /\ due'[k][2] \notin Open
  <2>1. CASE Contained(known, a) /\ Contained(known, b)
    <3> DEFINE links == Links(way, a, b)
    <3>1. a \in KnownIds /\ b \in KnownIds /\ due' = links
      BY <1>1, <1>3, <1>5, <2>1
    <3>2. /\ links \in Seq(KnownIds \X KnownIds) /\ Len(links) <= 2
          /\ \A k \in DOMAIN links : links[k] \in {<<a, b>>, <<b, a>>}
      BY <3>1, LinksOK
    <3> HIDE DEF links
    <3>3. \A k \in DOMAIN links : links[k][1] \notin Open /\ links[k][2] \notin Open
      BY <1>3, <3>2
    <3> QED
      BY <3>1, <3>2, <3>3 DEF Dues
  <2>2. CASE ~(Contained(known, a) /\ Contained(known, b))
    <3>1. due' = <<>>
      BY <1>1, <2>2
    <3> QED
      BY <3>1, EmptySeq DEF Dues
  <2> QED
    BY <2>1, <2>2
<1>7. KnownIds' = KnownIds /\ Open' = Open /\ KnownOK' /\ AddedOK' /\ AnswerOK'
  BY <1>1, ContainerSame, AddedSame, AnswerSame DEF OsmInv
<1>8. AtEdges'
  <2>1. Dues' = Dues
    BY <1>7 DEF Dues
  <2> QED
    BY <1>1, <1>2, <1>3, <1>6, <1>7, <2>1 DEF AtEdges
<1>9. WayOK'
  BY <1>1, <1>7, <1>8 DEF OsmInv, WayOK
<1> QED
  BY <1>7, <1>9 DEF OsmInv

\* The edges that are due lie between vertices that have an index.
LEMMA EdgeAsked ==
  ASSUME OsmInv, WayEdge, indexMap \in Seq(Vertices)
  PROVE  LET from == known[Position(known, Head(due)[1])].index
             to   == known[Position(known, Head(due)[2])].index
         IN  /\ Placed(from, Head(due)[1]) /\ Placed(to, Head(due)[2])
             /\ from \in 0..(Len(indexMap) - 1) /\ to \in 0..(Len(indexMap) - 1)
             /\ Head(due) = due[1] /\ 1 \in DOMAIN due /\ Len(due) \in {1, 2}
             /\ Tail(due) \in Dues /\ Len(Tail(due)) = Len(due) - 1
             /\ \A k \in 1..(Len(due) - 1) : k + 1 \in DOMAIN due /\ Tail(due)[k] = due[k + 1]
             /\ DOMAIN Tail(due) = 1..(Len(due) - 1)
<1>1. /\ way # Nothing /\ stage = "edges" /\ due # <<>>
  BY DEF WayEdge
<1>2. AtEdges
  BY <1>1, CurrentWay DEF AtNodes
<1>3. /\ due \in Seq(KnownIds \X KnownIds) /\ Len(due) <= 2 /\ ~unsorted
      /\ \A k \in DOMAIN due : due[k][1] \notin Open /\ due[k][2] \notin Open
  BY <1>2 DEF AtEdges, Dues
<1>4. Len(due) \in {1, 2} /\ Len(due) >= 1
  <2>1. Len(due) \in Nat /\ Len(due) # 0
    BY <1>1, <1>3, LenProperties, EmptySeq
  <2> QED
    BY <1>3, <2>1, OneOrTwo
<1>5. /\ Tail(due) \in Dues /\ Head(due) = due[1] /\ 1 \in DOMAIN due /\ DOMAIN due = 1..Len(due)
      /\ Len(Tail(due)) = Len(due) - 1 /\ DOMAIN Tail(due) = 1..(Len(due) - 1)
      /\ \A k \in 1..(Len(due) - 1) : Tail(due)[k] = due[k + 1]
      /\ Head(due) \in KnownIds \X KnownIds
  <2>1. Len(due) >= 1
    BY <1>4
  <2> QED
    BY <1>3, <2>1, Popped DEF Dues
<1>6. known \in Seq(KnownNodes) /\ Rising(known)
  BY <1>3 DEF OsmInv, KnownOK
<1>7. ASSUME NEW id \in KnownIds, id \notin Open
      PROVE  LET ix == known[Position(known, id)].index
             IN  Placed(ix, id) /\ ix \in 0..(Len(indexMap) - 1)
  <2>1. PICK x \in Members(known) : x.id = id
    BY DEF KnownIds
  <2>2. known[Position(known, id)] = x /\ x \in KnownNodes /\ x.added
    BY <1>6, <1>7, <2>1, SearchOK DEF Open
  <2>3. Placed(x.index, id) /\ x.index \in Nat
    BY <2>1, <2>2 DEF OsmInv, AddedOK, KnownNodes
  <2>4. x.index + 1 \in 1..Len(indexMap) /\ Len(indexMap) \in Nat
    BY <2>3, LenProperties DEF Placed
  <2>5. x.index \in 0..(Len(indexMap) - 1)
    BY <2>3, <2>4
  <2> QED
    BY <2>2, <2>3, <2>5
<1>8. Head(due)[1] \in KnownIds \ Open /\ Head(due)[2] \in KnownIds \ Open
  BY <1>3, <1>5
<1>9. \A k \in 1..(Len(due) - 1) : k + 1 \in DOMAIN due
  BY <1>4, <1>5
<1> QED
  BY <1>4, <1>5, <1>7, <1>8, <1>9

LEMMA WayEdgeKeeps ==
  ASSUME OsmInv, WayEdge, indexMap \in Seq(Vertices)
  PROVE  /\ OsmInv'
         /\ \E id \in DOMAIN WayTags, from, to \in 0..(Len(indexMap) - 1) :
               Call([kind |-> "edge", id |-> id, from |-> from, to |-> to])
<1> DEFINE from == known[Position(known, Head(due)[1])].index
           to   == known[Position(known, Head(due)[2])].index
<1>1. /\ way # Nothing /\ stage = "edges" /\ pc = "idle"
      /\ Call([kind |-> "edge", id |-> way.id, from |-> from, to |-> to])
      /\ due' = Tail(due)
      /\ UNCHANGED <<known, unsorted, way, stage, i, reading, history>>
  BY DEF WayEdge
<1>2. /\ from \in 0..(Len(indexMap) - 1) /\ to \in 0..(Len(indexMap) - 1)
      /\ Len(due) \in {1, 2} /\ Tail(due) \in Dues /\ Len(Tail(due)) = Len(due) - 1
      /\ \A k \in 1..(Len(due) - 1) : k + 1 \in DOMAIN due /\ Tail(due)[k] = due[k + 1]
      /\ DOMAIN Tail(due) = 1..(Len(due) - 1)
  BY EdgeAsked
<1> HIDE DEF from, to
<1>3. /\ AtEdges /\ way.id \in DOMAIN WayTags
  BY <1>1, CurrentWay, WayTyped DEF AtNodes
<1>4. /\ job' = [kind |-> "edge", id |-> way.id, from |-> from, to |-> to]
      /\ pc' = "begin" /\ indexMap' = indexMap /\ vid' = vid
  BY <1>1 DEF Call, graphDataVars
<1>5. job'.kind = "edge" /\ job'.id = way.id
  BY <1>4
<1>6. KnownIds' = KnownIds /\ Open' = Open /\ KnownOK' /\ AddedOK' /\ AnswerOK'
  BY <1>1, <1>4, ContainerSame, AddedSame, AnswerSame DEF OsmInv
<1>7. Len(due') <= 2 /\ \A k \in DOMAIN due' : due'[k][1] \notin Open /\ due'[k][2] \notin Open
  BY <1>1, <1>2, <1>3 DEF AtEdges
<1>8. AtEdges'
  <2>1. Dues' = Dues
    BY <1>6 DEF Dues
  <2> QED
    BY <1>1, <1>2, <1>3, <1>5, <1>6, <1>7, <2>1 DEF AtEdges
<1>9. WayOK'
  BY <1>1, <1>6, <1>8 DEF OsmInv, WayOK
<1>10. OsmInv'
  BY <1>6, <1>9 DEF OsmInv
<1> QED
  BY <1>1, <1>2, <1>3, <1>10

LEMMA EdgeAddedKeeps ==
  ASSUME OsmInv, EdgeAdded
  PROVE  OsmInv'
<1>1. /\ way # Nothing /\ stage = "edges" /\ pc' = "idle"
      /\ UNCHANGED <<known, unsorted, way, stage, i, due, reading, history, indexMap, vid>>
  BY DEF EdgeAdded, Resume, graphDataVars, osmVars
<1>2. KnownIds' = KnownIds /\ Open' = Open /\ KnownOK' /\ AddedOK' /\ AnswerOK'
  BY <1>1, ContainerSame, AddedSame, AnswerSame DEF OsmInv
<1>3. AtEdges
  BY <1>1, CurrentWay DEF AtNodes
<1>4. AtEdges'
  <2>1. Dues' = Dues
    BY <1>2 DEF Dues
  <2> QED
    BY <1>1, <1>2, <1>3, <2>1 DEF AtEdges
<1>5. WayOK'
  BY <1>1, <1>2, <1>4 DEF OsmInv, WayOK
<1> QED
  BY <1>2, <1>5 DEF OsmInv

LEMMA WayEndsKeep ==
  ASSUME OsmInv, WayDone \/ ReadingEnds
  PROVE  OsmInv'
<1>1. /\ pc = "idle" /\ way' = Nothing /\ UNCHANGED <<known, unsorted, history, pc, job, answer, indexMap, vid>>
  BY DEF WayDone, ReadingEnds, importStoreVars, graphDataVars
<1>2. KnownIds' = KnownIds /\ KnownOK' /\ AddedOK' /\ AnswerOK'
  BY <1>1, ContainerSame, AddedSame, AnswerSame DEF OsmInv
<1>3. WayOK'
  BY <1>1 DEF OsmInv, WayOK
<1> QED
  BY <1>2, <1>3 DEF OsmInv

LEMMA MergingKeeps ==
  ASSUME OsmInv, Simplify \/ TagsMerged
  PROVE  OsmInv'
<1>1. ~reading /\ UNCHANGED osmVars /\ indexMap' = indexMap /\ vid' = vid /\ pc' # "returned"
  BY DEF Simplify, TagsMerged, Call, Resume, graphDataVars
<1>2. UNCHANGED <<known, unsorted, way, reading, history>>
  BY <1>1 DEF osmVars
<1>3. KnownOK' /\ AddedOK' /\ AnswerOK'
  BY <1>1, <1>2, ContainerSame, AddedSame, AnswerSame DEF OsmInv
<1>4. WayOK'
  BY <1>1, <1>2, CurrentWay DEF OsmInv, WayOK
<1> QED
  BY <1>3, <1>4 DEF OsmInv

-----------------------------------------------------------------------------
(* The helpers keep what the importer remembers.                           *)

\* The vertices that have an index keep it, and their ids.
IndexStays ==
    \A k \in DOMAIN indexMap : /\ k \in DOMAIN indexMap' /\ indexMap'[k] = indexMap[k]
                               /\ vid'[indexMap[k]] = vid[indexMap[k]]

LEMMA StoreMoves ==
  ASSUME NetInv, StoreStep
  PROVE  /\ job' = job /\ pc # "idle" /\ pc' # "idle"
         /\ \/ UNCHANGED <<vid, indexMap>>
            \/ StoreVertex
            \/ IndexVertex
         /\ pc' = "returned" /\ job.kind = "vertex" => IndexVertex
<1>1. CASE Begin \/ TakeMap \/ Reserve \/ Intern \/ Record
  BY <1>1 DEF Begin, TakeMap, Reserve, Intern, Record, graphDataVars
<1>3. ASSUME NEW g, NEW t, Fails(g, t) PROVE UNCHANGED <<vid, indexMap, job>> /\ pc' = "throw"
  BY <1>3 DEF Fails
<1>4. CASE ReserveFails \/ InternThrows \/ RecordFails \/ StoreVertexFails \/ StoreEdgeFails
           \/ IndexFails \/ MergeFails
  <2>1. pc # "idle" /\ \E g, t : Fails(g, t)
    BY <1>4 DEF ReserveFails, InternThrows, RecordFails, StoreVertexFails, StoreEdgeFails,
                IndexFails, MergeFails
  <2> QED
    BY <1>3, <2>1
<1>5. CASE StoreVertex \/ IndexVertex
  BY <1>5 DEF StoreVertex, IndexVertex, Returns
<1>6. CASE StoreEdge
  BY <1>6 DEF StoreEdge, Returns
<1>7. CASE Merge
  <2>1. job.kind = "merge"
    BY <1>7, MergeData
  <2> QED
    BY <1>7, <2>1 DEF Merge, graphDataVars
<1>2. CASE Unwind
  <2>1. /\ pc = "throw" /\ UNCHANGED <<vid, indexMap>> /\ job' = job
        /\ pc' \in {Head(control.stack).at, "gave up", "throw"}
    BY <1>2 DEF Unwind, graphDataVars
  <2>2. ControlOK(control) /\ Len(control.stack) >= 1
    BY <2>1 DEF NetInv, CallsInv, PlaceOK
  <2>3. Head(control.stack).at \in Points
    BY <2>2, CaughtStaysAt
  <2> QED
    BY <2>1, <2>3 DEF Points
<1> QED
  BY <1>1, <1>2, <1>4, <1>5, <1>6, <1>7 DEF StoreStep

LEMMA StoreKeepsIndex ==
  ASSUME NetInv, NetInv', StoreStep
  PROVE  IndexStays
<1>1. indexMap \in Seq(Vertices) /\ DOMAIN indexMap = 1..Len(indexMap) /\ Len(indexMap) \in Nat
  BY LenProperties DEF NetInv, NetworkOK
<1>2. CASE UNCHANGED <<vid, indexMap>>
  BY <1>2 DEF IndexStays
<1>3. CASE StoreVertex
  <2>1. indexMap' = indexMap /\ pc = "add" /\ \A v \in Members(graph.vertices) : vid'[v] = vid[v]
    BY <1>3, StoreVertexKeeps DEF StoreVertex, NetInv
  <2>2. graph.vertices = indexMap
    BY <2>1 DEF NetInv, NetworkOK
  <2> QED
    BY <2>1, <2>2 DEF IndexStays, Members
<1>4. CASE IndexVertex
  <2>1. indexMap' = Append(indexMap, Newest) /\ vid' = vid /\ Newest \in Vertices
    BY <1>4, NewestIs DEF IndexVertex
  <2>2. /\ DOMAIN indexMap' = 1..(Len(indexMap) + 1)
        /\ \A k \in 1..Len(indexMap) : indexMap'[k] = indexMap[k]
    BY <1>1, <2>1, Appended
  <2>3. \A k \in 1..Len(indexMap) : k \in 1..(Len(indexMap) + 1)
    BY <1>1
  <2> QED
    BY <1>1, <2>1, <2>2, <2>3 DEF IndexStays
<1> QED
  BY <1>2, <1>3, <1>4, StoreMoves

\* The index of the new vertex is returned.
LEMMA NewIndex ==
  ASSUME NetInv, IndexVertex
  PROVE  Placed(answer, job.id)' /\ answer' \in Nat
<1>1. /\ pc = "index" /\ indexMap' = Append(indexMap, Newest) /\ answer' = graph.vindex[Newest]
      /\ vid' = vid /\ job' = job
  BY DEF IndexVertex
<1>2. /\ Newest \in Vertices /\ graph.vertices = Append(indexMap, Newest) /\ vid[Newest] = job.id
      /\ indexMap \in Seq(Vertices) /\ Indexed(graph) /\ Distinct(graph.vertices)
      /\ Newest \in Members(graph.vertices)
  BY <1>1, NewestIs DEF NetInv, NetworkOK, GraphOK, EachOnce
<1>3. graph.vindex[Newest] = Place(Newest, graph.vertices)
  BY <1>2 DEF Indexed
<1>4. Place(Newest, graph.vertices) = Len(indexMap)
  BY <1>2, PlaceAppended
<1>5. /\ DOMAIN indexMap' = 1..(Len(indexMap) + 1) /\ Len(indexMap) \in Nat
      /\ indexMap'[Len(indexMap) + 1] = Newest
  BY <1>1, <1>2, Appended
<1>6. Len(indexMap) + 1 \in DOMAIN indexMap'
  BY <1>5
<1>7. vid'[indexMap'[Len(indexMap) + 1]] = job'.id
  BY <1>1, <1>2, <1>5
<1> QED
  BY <1>1, <1>3, <1>4, <1>5, <1>6, <1>7 DEF Placed

LEMMA StoringKeeps ==
  ASSUME NetInv, NetInv', OsmInv, StoreStep, UNCHANGED osmVars
  PROVE  OsmInv'
<1>1. /\ UNCHANGED <<known, unsorted, way, stage, i, due, reading, history, job>>
      /\ pc # "idle" /\ pc' # "idle" /\ IndexStays
  BY StoreMoves, StoreKeepsIndex DEF osmVars
<1>2. KnownOK' /\ KnownIds' = KnownIds /\ Open' = Open /\ Members(known)' = Members(known)
  BY <1>1, ContainerSame DEF OsmInv
<1>3. AddedOK'
  BY <1>1, <1>2 DEF OsmInv, AddedOK, Placed, IndexStays
<1>4. way # Nothing => AtNodes' \/ AtEdges'
  <2> SUFFICES ASSUME way # Nothing PROVE AtNodes' \/ AtEdges'
    OBVIOUS
  <2>1. AtNodes \/ AtEdges
    BY CurrentWay
  <2>2. AtNodes => AtNodes'
    BY <1>1, <1>2 DEF AtNodes
  <2>3. AtEdges => AtEdges'
    <3>1. Dues' = Dues
      BY <1>2 DEF Dues
    <3> QED
      BY <1>1, <1>2, <3>1 DEF AtEdges
  <2> QED
    BY <2>1, <2>2, <2>3
<1>5. WayOK'
  BY <1>1, <1>2, <1>4 DEF OsmInv, WayOK
<1>6. AnswerOK'
  <2> SUFFICES ASSUME pc' = "returned", job'.kind = "vertex"
               PROVE  answer' \in Nat /\ Placed(answer, job.id)'
    BY DEF AnswerOK
  <2>1. IndexVertex
    BY <1>1, StoreMoves
  <2> QED
    BY <2>1, NewIndex DEF Placed
<1> QED
  BY <1>2, <1>3, <1>5, <1>6 DEF OsmInv

LEMMA OsmInits == OsmInit => OsmInv /\ ImportStoreInit
<1> SUFFICES ASSUME OsmInit PROVE OsmInv /\ ImportStoreInit
  OBVIOUS
<1>1. /\ ImportStoreInit /\ known = <<>> /\ unsorted = FALSE /\ way = Nothing /\ history = <<>>
      /\ pc = "idle"
  BY DEF OsmInit, ImportStoreInit
<1>2. Members(known) = {} /\ known \in Seq(KnownNodes) /\ Different(known) /\ Rising(known)
  BY <1>1, EmptyList, EmptySeq DEF Different, Rising
<1>3. KnownOK /\ AddedOK
  BY <1>1, <1>2 DEF KnownOK, AddedOK
<1>4. WayOK /\ AnswerOK
  BY <1>1, EmptySeq DEF WayOK, AnswerOK
<1> QED
  BY <1>1, <1>3, <1>4 DEF OsmInv

\* What the handler does is, for the helpers, a request that they expect, or nothing.
LEMMA OsmRequests ==
  NetInv /\ OsmInv /\ [OsmNext]_allVars => [ImportStoreNext]_importStoreVars
<1> SUFFICES ASSUME NetInv, OsmInv, [OsmNext]_allVars
             PROVE  ImportStoreNext \/ UNCHANGED importStoreVars
  OBVIOUS
<1>1. CASE WayNode
  BY <1>1, WayNodeKeeps DEF ImportStoreNext, Request
<1>2. CASE WayEdge
  <2>1. indexMap \in Seq(Vertices)
    BY DEF NetInv, NetworkOK
  <2> QED
    BY <1>2, <2>1, WayEdgeKeeps DEF ImportStoreNext, Request
<1>3. CASE VertexAdded \/ EdgeAdded \/ TagsMerged
  BY <1>3 DEF VertexAdded, EdgeAdded, TagsMerged, ImportStoreNext
<1>4. CASE Simplify
  BY <1>4 DEF Simplify, ImportStoreNext, Request
<1>5. CASE StoreStep
  BY <1>5 DEF ImportStoreNext
<1>6. CASE UNCHANGED importStoreVars
  BY <1>6
<1> QED
  BY <1>1, <1>2, <1>3, <1>4, <1>5, <1>6
  DEF OsmNext, ReadNode, ReadWay, NodesDone, WayPair, WayDone, ReadingEnds, allVars

LEMMA NothingHappens ==
  ASSUME OsmInv, UNCHANGED allVars
  PROVE  OsmInv'
<1>1. UNCHANGED <<known, unsorted, way, stage, i, due, reading, history, pc, job, answer, indexMap, vid>>
  BY DEF allVars, importStoreVars, graphDataVars, osmVars
<1>2. KnownIds' = KnownIds /\ Open' = Open /\ KnownOK' /\ AddedOK' /\ AnswerOK'
  BY <1>1, ContainerSame, AddedSame, AnswerSame DEF OsmInv
<1>3. (AtNodes => AtNodes') /\ (AtEdges => AtEdges')
  <2>1. Dues' = Dues
    BY <1>2 DEF Dues
  <2> QED
    BY <1>1, <1>2, <2>1 DEF AtNodes, AtEdges
<1>4. WayOK'
  BY <1>1, <1>2, <1>3 DEF OsmInv, WayOK
<1> QED
  BY <1>2, <1>4 DEF OsmInv

LEMMA OsmStep == NetInv /\ OsmInv /\ [OsmNext]_allVars => NetInv' /\ OsmInv'
<1> SUFFICES ASSUME NetInv, OsmInv, [OsmNext]_allVars PROVE NetInv' /\ OsmInv'
  OBVIOUS
<1>1. NetInv'
  BY OsmRequests, NetStep
<1>2. indexMap \in Seq(Vertices)
  BY DEF NetInv, NetworkOK
<1>3. CASE \E id \in DOMAIN NodeTags : ReadNode(id)
  BY <1>1, <1>3, ReadNodeKeeps
<1>4. CASE \E w \in Ways : ReadWay(w)
  BY <1>1, <1>4, ReadWayKeeps
<1>5. CASE WayNode \/ VertexAdded \/ NodesDone
  BY <1>1, <1>5, WayNodeKeeps, VertexAddedKeeps, NodesDoneKeeps
<1>6. CASE WayPair \/ WayEdge \/ EdgeAdded
  BY <1>1, <1>2, <1>6, WayPairKeeps, WayEdgeKeeps, EdgeAddedKeeps
<1>7. CASE WayDone \/ ReadingEnds \/ Simplify \/ TagsMerged
  BY <1>1, <1>7, WayEndsKeep, MergingKeeps
<1>8. CASE StoreStep /\ UNCHANGED osmVars
  BY <1>1, <1>8, StoringKeeps
<1>9. CASE UNCHANGED allVars
  BY <1>1, <1>9, NothingHappens
<1> QED
  BY <1>3, <1>4, <1>5, <1>6, <1>7, <1>8, <1>9 DEF OsmNext

LEMMA OsmInvariant == OsmSpec => [](NetInv /\ OsmInv)
<1>1. OsmInit => NetInv /\ OsmInv
  BY OsmInits, NetInit
<1> QED
  BY <1>1, OsmStep, PTL DEF OsmSpec

\* The handler calls the helpers only as they expect it: each edge between two vertices that have
\* an index by then (osm_handler.hpp, way).
THEOREM HandlerKeepsToTheStore == OsmSpec => ImportStoreSpec
<1>1. OsmInit => ImportStoreInit
  BY OsmInits
<1> QED
  BY <1>1, OsmRequests, OsmInvariant, PTL DEF OsmSpec, ImportStoreSpec

\* Whatever the files hold and whatever allocation fails, the import adds whole vertices and whole
\* edges, each once and with its own tags (osm_handler.hpp, graph_helper.hpp, tag_helper.hpp).
THEOREM ImportIsStored == OsmSpec => StoreRefined
BY HandlerKeepsToTheStore, NetworkIsStored, PTL

\* The container holds a node once, and the binary searches find what is there
\* (osm_handler_helper.hpp, check_and_sort_nodes, contains_node and get_node).
THEOREM NodesAreFound == OsmSpec => []KnownAreFound
<1>1. OsmInv => KnownAreFound
  <2> SUFFICES ASSUME OsmInv PROVE KnownAreFound
    OBVIOUS
  <2>1. known \in Seq(KnownNodes) /\ Different(known) /\ (~unsorted => Rising(known))
    BY DEF OsmInv, KnownOK
  <2>2. \A x \in KnownNodes : x.id \in Nat
    BY KnownTyped
  <2>3. ~unsorted => \A k \in DOMAIN known : Position(known, known[k].id) = k
    BY <2>1, <2>2, FoundIs
  <2> QED
    BY <2>1, <2>3 DEF KnownAreFound, Different
<1> QED
  BY <1>1, OsmInvariant, PTL

-----------------------------------------------------------------------------
(* The edges of the network, against the ways that were read.              *)

\* What pair k of a way asks for, and its first n pairs.
Share(r, from, to, k) ==
    IF k \in Neighbours(r)
    THEN Described(r.way, from, to, r.way.refs[k], r.way.refs[k + 1]) ELSE 0
Shares(r, from, to, n) == Total([k \in 1..n |-> Share(r, from, to, k)])

\* What the first n ways that were read ask for, of the edges of way id.
AskedOf(r, id, from, to) == IF r.way.id = id THEN Asked(r, from, to) ELSE 0
AskedBy(id, from, to, n) == Total([k \in 1..n |-> AskedOf(history[k], id, from, to)])
Earlier(id, from, to) == AskedBy(id, from, to, Len(history) - 1)

\* What the pairs of the current way that its second loop has passed ask for.
Passed(from, to) ==
    IF stage = "nodes" THEN 0 ELSE Shares(history[Len(history)], from, to, i - 1)

\* Of these, what is not in the network yet: edges that are due, and one that is being added.
DueAt(k, from, to) == IF k \in DOMAIN due /\ due[k] = <<from, to>> THEN 1 ELSE 0
Asking(from, to) ==
    IF /\ stage = "edges" /\ pc \notin {"idle", "returned"}
       /\ Placed(job.from, from) /\ Placed(job.to, to)
    THEN 1 ELSE 0
Waiting(from, to) == DueAt(1, from, to) + DueAt(2, from, to) + Asking(from, to)

RoadsFor(id, from, to) ==
    /\ way = Nothing => Roads(id, from, to) = Expected(id, from, to)
    /\ way # Nothing /\ way.id # id => Roads(id, from, to) = Earlier(id, from, to)
    /\ way # Nothing /\ way.id = id =>
          Roads(id, from, to) + Waiting(from, to) = Earlier(id, from, to) + Passed(from, to)

RoadsOK ==
    reading => \A id \in DOMAIN WayTags :
        \A from, to \in DOMAIN NodeTags : RoadsFor(id, from, to)

LEMMA SharesAre ==
  ASSUME NEW r, NEW from, NEW to, NEW n \in Nat
  PROVE  /\ Shares(r, from, to, n) \in Nat /\ Shares(r, from, to, 0) = 0
         /\ Share(r, from, to, n + 1) \in Nat
         /\ Shares(r, from, to, n + 1) = Shares(r, from, to, n) + Share(r, from, to, n + 1)
<1>1. \A k : Share(r, from, to, k) \in Nat
  BY DEF Share, Described
<1> DEFINE f == [k \in 1..(n + 1) |-> Share(r, from, to, k)]
           g == [k \in 1..n |-> Share(r, from, to, k)]
           h == [k \in 1..0 |-> Share(r, from, to, k)]
<1>2. f \in [1..(n + 1) -> Nat] /\ g \in [1..n -> Nat]
  BY <1>1
<1>3. (\A k \in 1..n : g[k] = f[k]) /\ f[n + 1] = Share(r, from, to, n + 1)
  <2>1. (\A k \in 1..n : k \in 1..(n + 1)) /\ n + 1 \in 1..(n + 1)
    OBVIOUS
  <2> QED
    BY <2>1
<1>4. h = <<>>
  OBVIOUS
<1>5. Total(h) = 0
  BY <1>4, EmptySeq, TotalIsNat
<1>6. /\ Shares(r, from, to, n) = Total(g) /\ Shares(r, from, to, n + 1) = Total(f)
      /\ Shares(r, from, to, 0) = Total(h)
  BY DEF Shares
<1> HIDE DEF f, g, h
<1>7. Total(g) \in Nat /\ Total(f) = Total(g) + f[n + 1]
  BY <1>2, <1>3, TotalLonger
<1> QED
  BY <1>1, <1>3, <1>5, <1>6, <1>7

LEMMA AskedIs ==
  ASSUME NEW r \in Reads, NEW from, NEW to
  PROVE  Asked(r, from, to) = Shares(r, from, to, Len(r.way.refs) - 1) /\ Asked(r, from, to) \in Nat
<1>1. r.way \in Ways
  BY DEF Reads
<1>2. Len(r.way.refs) \in Nat /\ Len(r.way.refs) >= 1
  BY <1>1, WayTyped
<1>3. Asked(r, from, to) = Shares(r, from, to, Len(r.way.refs) - 1)
  BY DEF Asked, Shares, Share
<1>4. Len(r.way.refs) - 1 \in Nat
  BY <1>2
<1> QED
  BY <1>3, <1>4, SharesAre

LEMMA AskedByIs ==
  ASSUME history \in Seq(Reads), NEW id, NEW from, NEW to
  PROVE  /\ Expected(id, from, to) = AskedBy(id, from, to, Len(history))
         /\ \A n \in 0..(Len(history) - 1) :
               /\ AskedBy(id, from, to, n) \in Nat
               /\ AskedOf(history[n + 1], id, from, to) \in Nat
               /\ AskedBy(id, from, to, n + 1) = AskedBy(id, from, to, n)
                                                 + AskedOf(history[n + 1], id, from, to)
<1>1. /\ Len(history) \in Nat /\ DOMAIN history = 1..Len(history)
      /\ \A k \in 1..Len(history) : history[k] \in Reads
  BY LenProperties, ElementOfSeq
<1>2. Expected(id, from, to) = AskedBy(id, from, to, Len(history))
  BY <1>1 DEF Expected, AskedBy, AskedOf
<1>3. \A k \in 1..Len(history) : AskedOf(history[k], id, from, to) \in Nat
  BY <1>1, AskedIs DEF AskedOf
<1>4. ASSUME NEW n \in 0..(Len(history) - 1)
      PROVE  /\ AskedBy(id, from, to, n) \in Nat
             /\ AskedOf(history[n + 1], id, from, to) \in Nat
             /\ AskedBy(id, from, to, n + 1) = AskedBy(id, from, to, n)
                                               + AskedOf(history[n + 1], id, from, to)
  <2> DEFINE f == [k \in 1..(n + 1) |-> AskedOf(history[k], id, from, to)]
             g == [k \in 1..n |-> AskedOf(history[k], id, from, to)]
  <2>1. n \in Nat /\ \A k \in 1..(n + 1) : k \in 1..Len(history)
    BY <1>1
  <2>2. (\A k \in 1..n : k \in 1..(n + 1)) /\ n + 1 \in 1..(n + 1)
    BY <2>1
  <2>3. f \in [1..(n + 1) -> Nat] /\ g \in [1..n -> Nat]
    BY <1>3, <2>1, <2>2
  <2>4. (\A k \in 1..n : g[k] = f[k]) /\ f[n + 1] = AskedOf(history[n + 1], id, from, to)
    BY <2>2
  <2>5. AskedBy(id, from, to, n) = Total(g) /\ AskedBy(id, from, to, n + 1) = Total(f)
    BY DEF AskedBy
  <2> HIDE DEF f, g
  <2>6. Total(g) \in Nat /\ Total(f) = Total(g) + f[n + 1]
    BY <2>1, <2>3, <2>4, TotalLonger
  <2> QED
    BY <1>3, <2>1, <2>2, <2>4, <2>5, <2>6
<1> QED
  BY <1>2, <1>4

\* The edges that Roads counts.
RoadSet(id, a, b) ==
    {e \in Members(graph.edges) :
        eid[e] = id /\ vid[graph.source[e]] = a /\ vid[graph.target[e]] = b}

LEMMA RoadsAre ==
  ASSUME NetInv, NEW id, NEW a, NEW b
  PROVE  /\ Roads(id, a, b) = Cardinality(RoadSet(id, a, b)) /\ IsFiniteSet(RoadSet(id, a, b))
         /\ Roads(id, a, b) \in Nat
<1>1. graph.edges \in Seq(Edges) /\ Distinct(graph.edges)
  BY DEF NetInv, NetworkOK, GraphOK, EachOnce, Graphs
<1>2. IsFiniteSet(Members(graph.edges))
  BY <1>1, DistinctLength
<1>3. IsFiniteSet(RoadSet(id, a, b))
  BY <1>2, FS_Subset DEF RoadSet
<1>4. Roads(id, a, b) = Cardinality(RoadSet(id, a, b))
  BY DEF Roads, RoadSet
<1> QED
  BY <1>3, <1>4, FS_CardinalityType

\* Where the edges end does not change, nor the ids there.
LEMMA RoadsKept ==
  ASSUME NetInv, IndexStays, graph'.edges = graph.edges,
         \A e \in Members(graph.edges) : /\ eid'[e] = eid[e]
                                         /\ graph'.source[e] = graph.source[e]
                                         /\ graph'.target[e] = graph.target[e],
         NEW id, NEW a, NEW b
  PROVE  Roads(id, a, b)' = Roads(id, a, b)
<1>1. ASSUME NEW v \in Members(indexMap) PROVE vid'[v] = vid[v]
  BY DEF IndexStays, Members
<1>2. Members(graph.edges)' = Members(graph.edges)
  BY DEF Members
<1>3. \A e \in Members(graph.edges) : {graph.source[e], graph.target[e]} \subseteq Members(indexMap)
  BY DEF NetInv, NetworkOK
<1>4. \A e \in Members(graph.edges) :
         /\ vid'[graph'.source[e]] = vid[graph.source[e]]
         /\ vid'[graph'.target[e]] = vid[graph.target[e]] /\ eid'[e] = eid[e]
  BY <1>1, <1>3
<1>5. RoadSet(id, a, b)' = RoadSet(id, a, b)
  BY <1>2, <1>4 DEF RoadSet
<1>6. Roads(id, a, b)' = Cardinality(RoadSet(id, a, b)')
  BY DEF Roads, RoadSet
<1>7. Roads(id, a, b) = Cardinality(RoadSet(id, a, b))
  BY RoadsAre
<1> QED
  BY <1>5, <1>6, <1>7

LEMMA HistorySame ==
  ASSUME history' = history, NEW id, NEW from, NEW to
  PROVE  /\ Expected(id, from, to)' = Expected(id, from, to)
         /\ Earlier(id, from, to)' = Earlier(id, from, to)
BY DEF Expected, Earlier, AskedBy

LEMMA NetworkAlone ==
  ASSUME UNCHANGED <<graph, vid, eid>>, NEW id, NEW from, NEW to
  PROVE  Roads(id, from, to)' = Roads(id, from, to)
BY DEF Roads, Members

LEMMA WaitingIs ==
  ASSUME NEW from, NEW to
  PROVE  /\ \A k : DueAt(k, from, to) \in {0, 1}
         /\ Asking(from, to) \in {0, 1}
         /\ due = <<>> => DueAt(1, from, to) = 0 /\ DueAt(2, from, to) = 0
BY DEF DueAt, Asking

LEMMA PlacedOnce ==
  ASSUME NEW ix, NEW a, NEW b, Placed(ix, a), Placed(ix, b)
  PROVE  a = b
BY DEF Placed

\* A way is read, and one is done with.
LEMMA RoadsReadWay ==
  ASSUME OsmInv, NEW w \in Ways, ReadWay(w), NEW id, NEW from, NEW to, RoadsFor(id, from, to)
  PROVE  RoadsFor(id, from, to)'
<1> DEFINE r == [way |-> w, known |-> KnownIds]
           N == Len(history)
<1>1. /\ way = Nothing /\ way' = w /\ w # Nothing /\ stage' = "nodes" /\ due' = <<>>
      /\ history' = Append(history, r) /\ UNCHANGED <<graph, vid, eid>>
  BY KnownIdsAre, WayTyped DEF ReadWay, importStoreVars, graphDataVars
<1>2. r \in Reads /\ history \in Seq(Reads)
  BY KnownIdsTyped DEF OsmInv, Reads, WayOK
<1> HIDE DEF r
<1>3. /\ N \in Nat /\ Len(history') = N + 1 /\ \A k \in 1..N : history'[k] = history[k]
  BY <1>1, <1>2, Appended
<1>4. Roads(id, from, to) = AskedBy(id, from, to, N)
  BY <1>1, <1>2, AskedByIs DEF RoadsFor
<1>5. Earlier(id, from, to)' = AskedBy(id, from, to, N)
  <2>1. Len(history') - 1 = N
    BY <1>3
  <2>2. [k \in 1..(Len(history') - 1) |-> AskedOf(history'[k], id, from, to)]
            = [k \in 1..N |-> AskedOf(history[k], id, from, to)]
    BY <1>3, <2>1
  <2>3. Earlier(id, from, to)' = Total([k \in 1..(Len(history') - 1) |-> AskedOf(history'[k], id, from, to)])
    BY DEF Earlier, AskedBy
  <2> QED
    BY <2>2, <2>3 DEF AskedBy
<1>6. Roads(id, from, to)' = Roads(id, from, to)
  BY <1>1, NetworkAlone
<1>7. Waiting(from, to)' = 0 /\ Passed(from, to)' = 0
  BY <1>1 DEF Waiting, DueAt, Asking, Passed
<1>8. AskedBy(id, from, to, N) \in Nat
  <2>1. CASE N = 0
    <3> DEFINE none == [k \in 1..0 |-> AskedOf(history[k], id, from, to)]
    <3>1. none = <<>>
      OBVIOUS
    <3>2. AskedBy(id, from, to, N) = Total(none)
      BY <2>1 DEF AskedBy
    <3> HIDE DEF none
    <3> QED
      BY <3>1, <3>2, EmptySeq, TotalIsNat
  <2>2. CASE N # 0
    <3>1. N - 1 \in 0..(N - 1) /\ (N - 1) + 1 = N
      BY <1>3, <2>2
    <3> DEFINE m == N - 1
    <3>2. /\ AskedBy(id, from, to, m) \in Nat /\ AskedOf(history[m + 1], id, from, to) \in Nat
          /\ AskedBy(id, from, to, m + 1) = AskedBy(id, from, to, m) + AskedOf(history[m + 1], id, from, to)
      BY <1>2, <3>1, AskedByIs
    <3>3. m + 1 = N
      BY <3>1
    <3> HIDE DEF m
    <3>4. AskedBy(id, from, to, m + 1) \in Nat
      BY <3>2
    <3> QED
      BY <3>3, <3>4
  <2> QED
    BY <2>1, <2>2
<1> QED
  BY <1>1, <1>4, <1>5, <1>6, <1>7, <1>8 DEF RoadsFor

LEMMA RoadsWayDone ==
  ASSUME NetInv, OsmInv, WayDone, NEW id, NEW from, NEW to, RoadsFor(id, from, to)
  PROVE  RoadsFor(id, from, to)'
<1> DEFINE N == Len(history)
           r == history[N]
<1>1. /\ way # Nothing /\ stage = "edges" /\ pc = "idle" /\ due = <<>> /\ i >= Len(way.refs)
      /\ way' = Nothing /\ UNCHANGED <<history, graph, vid, eid>>
  BY DEF WayDone, importStoreVars, graphDataVars
<1>2. /\ history \in Seq(Reads) /\ history # <<>> /\ r.way = way
  BY <1>1 DEF OsmInv, WayOK
<1>3. N \in Nat /\ N # 0 /\ r \in Reads
  <2>1. N \in Nat /\ N # 0
    BY <1>2, LenProperties, EmptySeq
  <2>2. N \in 1..N
    BY <2>1
  <2> QED
    BY <1>2, <2>1, <2>2, ElementOfSeq
<1>4. i = Len(way.refs)
  <2>1. AtEdges /\ Len(way.refs) \in Nat
    BY <1>1, CurrentWay DEF AtNodes
  <2> QED
    BY <1>1, <2>1 DEF AtEdges
<1>5. Passed(from, to) = Asked(r, from, to) /\ Asked(r, from, to) \in Nat
  BY <1>1, <1>2, <1>3, <1>4, AskedIs DEF Passed
<1>6. Waiting(from, to) = 0
  BY <1>1, WaitingIs DEF Waiting, Asking
<1>7. /\ Expected(id, from, to) = Earlier(id, from, to) + AskedOf(r, id, from, to)
      /\ Earlier(id, from, to) \in Nat
  <2> DEFINE m == N - 1
  <2>1. m \in 0..(N - 1) /\ m + 1 = N
    BY <1>3
  <2>2. /\ AskedBy(id, from, to, m) \in Nat
        /\ AskedBy(id, from, to, m + 1) = AskedBy(id, from, to, m) + AskedOf(history[m + 1], id, from, to)
    BY <1>2, <2>1, AskedByIs
  <2>3. Earlier(id, from, to) = AskedBy(id, from, to, m)
    BY DEF Earlier
  <2>4. Expected(id, from, to) = AskedBy(id, from, to, N)
    BY <1>2, AskedByIs
  <2> HIDE DEF m
  <2> QED
    BY <2>1, <2>2, <2>3, <2>4
<1>8. Roads(id, from, to)' = Roads(id, from, to) /\ Expected(id, from, to)' = Expected(id, from, to)
  BY <1>1, NetworkAlone, HistorySame
<1>9. Roads(id, from, to) \in Nat
  BY RoadsAre
<1> HIDE DEF r
<1>10. Roads(id, from, to) = Expected(id, from, to)
  <2>1. CASE way.id = id
    <3>1. AskedOf(r, id, from, to) = Asked(r, from, to)
      BY <1>2, <2>1 DEF AskedOf
    <3>2. Roads(id, from, to) + 0 = Earlier(id, from, to) + Asked(r, from, to)
      BY <1>1, <1>5, <1>6, <2>1 DEF RoadsFor
    <3> QED
      BY <1>7, <1>9, <3>1, <3>2
  <2>2. CASE way.id # id
    <3>1. AskedOf(r, id, from, to) = 0
      BY <1>2, <2>2 DEF AskedOf
    <3>2. Roads(id, from, to) = Earlier(id, from, to)
      BY <1>1, <2>2 DEF RoadsFor
    <3> QED
      BY <1>7, <3>1, <3>2
  <2> QED
    BY <2>1, <2>2
<1> QED
  BY <1>1, <1>8, <1>10 DEF RoadsFor

\* Steps that change neither the network nor what is asked for.
LEMMA RoadsFrame ==
  ASSUME NEW id, NEW from, NEW to, RoadsFor(id, from, to), UNCHANGED <<way, history>>,
         Roads(id, from, to)' = Roads(id, from, to),
         way # Nothing => /\ Waiting(from, to)' = Waiting(from, to)
                          /\ Passed(from, to)' = Passed(from, to)
  PROVE  RoadsFor(id, from, to)'
<1>1. /\ Expected(id, from, to)' = Expected(id, from, to)
      /\ Earlier(id, from, to)' = Earlier(id, from, to)
  BY HistorySame
<1> QED
  BY <1>1 DEF RoadsFor

\* The steps of the first loop.
LEMMA RoadsFirstLoop ==
  ASSUME WayNode \/ VertexAdded, NEW id, NEW from, NEW to, RoadsFor(id, from, to)
  PROVE  RoadsFor(id, from, to)'
<1>1. /\ stage = "nodes" /\ UNCHANGED <<way, stage, due, history, graph, vid, eid>>
  BY DEF WayNode, VertexAdded, Call, Resume, importStoreVars, graphDataVars
<1>2. Roads(id, from, to)' = Roads(id, from, to)
  BY <1>1, NetworkAlone
<1>3. Waiting(from, to)' = Waiting(from, to) /\ Passed(from, to)' = Passed(from, to)
  BY <1>1 DEF Waiting, DueAt, Asking, Passed
<1> QED
  BY <1>1, <1>2, <1>3, RoadsFrame

\* Steps between the ways.
LEMMA RoadsIdle ==
  ASSUME way = Nothing, UNCHANGED <<way, history, graph, vid, eid>>,
         NEW id, NEW from, NEW to, RoadsFor(id, from, to)
  PROVE  RoadsFor(id, from, to)'
<1>1. Roads(id, from, to)' = Roads(id, from, to)
  BY NetworkAlone
<1> QED
  BY <1>1, RoadsFrame

LEMMA RoadsNodesDone ==
  ASSUME NodesDone, NEW id, NEW from, NEW to, RoadsFor(id, from, to)
  PROVE  RoadsFor(id, from, to)'
<1>1. /\ stage = "nodes" /\ pc = "idle" /\ stage' = "edges" /\ i' = 1
      /\ UNCHANGED <<way, due, history, graph, vid, eid, pc>>
  BY DEF NodesDone, importStoreVars, graphDataVars
<1>2. Roads(id, from, to)' = Roads(id, from, to)
  BY <1>1, NetworkAlone
<1>3. Waiting(from, to)' = Waiting(from, to)
  BY <1>1 DEF Waiting, DueAt, Asking
<1>4. Passed(from, to)' = Passed(from, to)
  <2>1. i' - 1 = 0
    BY <1>1
  <2>2. Passed(from, to)' = Shares(history[Len(history)], from, to, 0)
    BY <1>1, <2>1 DEF Passed
  <2> QED
    BY <1>1, <2>2, SharesAre DEF Passed
<1> QED
  BY <1>1, <1>2, <1>3, <1>4, RoadsFrame

LEMMA RoadsEdgeAdded ==
  ASSUME EdgeAdded, NEW id, NEW from, NEW to, RoadsFor(id, from, to)
  PROVE  RoadsFor(id, from, to)'
<1>1. /\ pc = "returned" /\ pc' = "idle"
      /\ UNCHANGED <<way, due, stage, i, history, graph, vid, eid>>
  BY DEF EdgeAdded, Resume, osmVars, graphDataVars
<1>2. Roads(id, from, to)' = Roads(id, from, to)
  BY <1>1, NetworkAlone
<1>3. Waiting(from, to)' = Waiting(from, to)
  BY <1>1 DEF Waiting, DueAt, Asking
<1>4. Passed(from, to)' = Passed(from, to)
  BY <1>1 DEF Passed
<1> QED
  BY <1>1, <1>2, <1>3, <1>4, RoadsFrame

\* What a pair asks for is what becomes due.
LEMMA LinksAsked ==
  ASSUME NEW w, w.oneway \in BOOLEAN, w.reverse \in BOOLEAN,
         NEW a, NEW b, NEW from, NEW to
  PROVE  LET links == Links(w, a, b)
             at(k) == IF k \in DOMAIN links /\ links[k] = <<from, to>> THEN 1 ELSE 0
         IN  at(1) + at(2) = Described(w, from, to, a, b)
<1> DEFINE p == <<a, b>>
           q == <<b, a>>
           x == <<from, to>>
           links == Links(w, a, b)
           at(k) == IF k \in DOMAIN links /\ links[k] = x THEN 1 ELSE 0
<1>1. Described(w, from, to, a, b) = (IF ~(w.oneway /\ w.reverse) /\ x = p THEN 1 ELSE 0)
                                     + (IF (w.reverse \/ ~w.oneway) /\ x = q THEN 1 ELSE 0)
  BY DEF Described
<1> HIDE DEF p, q, x
<1>2. CASE w.oneway /\ w.reverse
  <2>1. links = <<q>>
    BY <1>2 DEF Links, q
  <2>2. DOMAIN links = {1} /\ links[1] = q
    BY <2>1
  <2> HIDE DEF links
  <2>3. at(1) = (IF x = q THEN 1 ELSE 0) /\ at(2) = 0
    BY <2>2
  <2> QED
    BY <1>1, <1>2, <2>3 DEF x, links
<1>3. CASE w.oneway /\ ~w.reverse
  <2>1. links = <<p>>
    BY <1>3 DEF Links, p
  <2>2. DOMAIN links = {1} /\ links[1] = p
    BY <2>1
  <2> HIDE DEF links
  <2>3. at(1) = (IF x = p THEN 1 ELSE 0) /\ at(2) = 0
    BY <2>2
  <2> QED
    BY <1>1, <1>3, <2>3 DEF x, links
<1>4. CASE ~w.oneway
  <2>1. links = <<p, q>>
    BY <1>4 DEF Links, p, q
  <2>2. DOMAIN links = {1, 2} /\ links[1] = p /\ links[2] = q
    BY <2>1
  <2> HIDE DEF links
  <2>3. at(1) = (IF x = p THEN 1 ELSE 0) /\ at(2) = (IF x = q THEN 1 ELSE 0)
    BY <2>2
  <2> QED
    BY <1>1, <1>4, <2>3 DEF x, links
<1> QED
  BY <1>2, <1>3, <1>4

LEMMA RoadsWayPair ==
  ASSUME NetInv, OsmInv, WayPair, NEW id, NEW from, NEW to, RoadsFor(id, from, to)
  PROVE  RoadsFor(id, from, to)'
<1> DEFINE a == way.refs[i]
           b == way.refs[i + 1]
           r == history[Len(history)]
<1>1. /\ way # Nothing /\ stage = "edges" /\ pc = "idle" /\ due = <<>> /\ i < Len(way.refs)
      /\ due' = IF Contained(known, a) /\ Contained(known, b) THEN Links(way, a, b) ELSE <<>>
      /\ i' = i + 1
      /\ UNCHANGED <<way, stage, history, pc, graph, vid, eid>>
  BY DEF WayPair, importStoreVars, graphDataVars
<1>2. /\ AtEdges /\ Len(way.refs) \in Nat /\ \A j \in 1..Len(way.refs) : way.refs[j] \in Nat
      /\ way.oneway \in BOOLEAN /\ way.reverse \in BOOLEAN /\ way \in Ways
  BY <1>1, CurrentWay, WayTyped DEF AtNodes
<1>3. /\ i \in 1..Len(way.refs) /\ i + 1 \in 1..Len(way.refs) /\ ~unsorted
      /\ a \in Nat /\ b \in Nat /\ i \in Nat /\ i - 1 \in Nat /\ (i - 1) + 1 = i /\ i' - 1 = i
      /\ i \in 1..(Len(way.refs) - 1)
  BY <1>1, <1>2 DEF AtEdges
<1>4. /\ history \in Seq(Reads) /\ r = [way |-> way, known |-> KnownIds] /\ history # <<>>
  BY <1>1 DEF OsmInv, WayOK
<1>5. r.way = way /\ r.known = KnownIds
  BY <1>4
<1>6. Len(history) \in DOMAIN history
  <2>1. Len(history) \in Nat /\ Len(history) # 0 /\ DOMAIN history = 1..Len(history)
    BY <1>4, LenProperties, EmptySeq
  <2> QED
    BY <2>1
<1>7. known \in Seq(KnownNodes) /\ Rising(known)
  BY <1>3 DEF OsmInv, KnownOK
<1>8. (i \in Neighbours(r)) <=> Contained(known, a) /\ Contained(known, b)
  <2>1. \A x \in Nat : Contained(known, x) <=> x \in KnownIds
    BY <1>7, SearchOK DEF KnownIds
  <2> QED
    BY <1>3, <1>5, <2>1 DEF Neighbours
<1>10. Roads(id, from, to)' = Roads(id, from, to) /\ Roads(id, from, to) \in Nat
  BY <1>1, NetworkAlone, RoadsAre
<1>11. Earlier(id, from, to)' = Earlier(id, from, to)
  BY <1>1, HistorySame
<1>12. /\ Passed(from, to) = Shares(r, from, to, i - 1) /\ Passed(from, to)' = Shares(r, from, to, i)
       /\ Passed(from, to) \in Nat /\ Share(r, from, to, i) \in Nat
       /\ Shares(r, from, to, i) = Passed(from, to) + Share(r, from, to, i)
  <2>1. Passed(from, to) = Shares(r, from, to, i - 1)
    BY <1>1 DEF Passed
  <2>2. Passed(from, to)' = Shares(r, from, to, i)
    BY <1>1, <1>3 DEF Passed
  <2> DEFINE m == i - 1
  <2>3. m \in Nat /\ m + 1 = i
    BY <1>3
  <2> HIDE DEF m, r
  <2>4. /\ Shares(r, from, to, m) \in Nat /\ Share(r, from, to, m + 1) \in Nat
        /\ Shares(r, from, to, m + 1) = Shares(r, from, to, m) + Share(r, from, to, m + 1)
    BY <2>3, SharesAre
  <2> QED
    BY <2>1, <2>2, <2>3, <2>4 DEF m
<1>13. Waiting(from, to) = 0
  BY <1>1, WaitingIs DEF Waiting, Asking
<1>14. way.id = id => Waiting(from, to)' = Share(r, from, to, i)
  <2> SUFFICES ASSUME way.id = id PROVE Waiting(from, to)' = Share(r, from, to, i)
    OBVIOUS
  <2>1. Asking(from, to)' = 0
    BY <1>1 DEF Asking
  <2>2. CASE Contained(known, a) /\ Contained(known, b)
    <3> DEFINE links == Links(way, a, b)
               at(k) == IF k \in DOMAIN links /\ links[k] = <<from, to>> THEN 1 ELSE 0
    <3>1. due' = links
      BY <1>1, <2>2
    <3>2. Share(r, from, to, i) = Described(way, from, to, a, b)
      BY <1>5, <1>8, <2>2 DEF Share
    <3>3. at(1) + at(2) = Described(way, from, to, a, b)
      BY <1>2, LinksAsked
    <3>4. DueAt(1, from, to)' = at(1) /\ DueAt(2, from, to)' = at(2)
      BY <3>1 DEF DueAt
    <3> HIDE DEF at
    <3>5. Waiting(from, to)' = at(1) + at(2) + 0
      BY <2>1, <3>4 DEF Waiting
    <3>6. Described(way, from, to, a, b) \in Nat
      BY DEF Described
    <3> QED
      BY <3>2, <3>3, <3>5, <3>6
  <2>3. CASE ~(Contained(known, a) /\ Contained(known, b))
    <3>1. due' = <<>> /\ Share(r, from, to, i) = 0
      BY <1>1, <1>8, <2>3 DEF Share
    <3>2. DueAt(1, from, to)' = 0 /\ DueAt(2, from, to)' = 0
      BY <3>1 DEF DueAt
    <3> QED
      BY <2>1, <3>1, <3>2 DEF Waiting
  <2> QED
    BY <2>2, <2>3
<1> HIDE DEF r, a, b
<1>15. way.id = id => Roads(id, from, to) = Earlier(id, from, to) + Passed(from, to)
  BY <1>1, <1>10, <1>13 DEF RoadsFor
<1>16. Earlier(id, from, to) \in Nat
  <2> DEFINE m == Len(history) - 1
  <2>1. m \in 0..(Len(history) - 1)
    BY <1>4, <1>6, LenProperties
  <2>2. AskedBy(id, from, to, m) \in Nat
    BY <1>4, <2>1, AskedByIs
  <2> QED
    BY <2>2 DEF Earlier
<1>17. way.id = id =>
          Roads(id, from, to)' + Waiting(from, to)' = Earlier(id, from, to)' + Passed(from, to)'
  BY <1>10, <1>11, <1>12, <1>14, <1>15, <1>16
<1> QED
  BY <1>1, <1>10, <1>11, <1>17 DEF RoadsFor

LEMMA RoadsWayEdge ==
  ASSUME NetInv, OsmInv, WayEdge, NEW id, NEW from, NEW to, RoadsFor(id, from, to)
  PROVE  RoadsFor(id, from, to)'
<1> DEFINE f == known[Position(known, Head(due)[1])].index
           t == known[Position(known, Head(due)[2])].index
           h == Head(due)
<1>1. /\ way # Nothing /\ stage = "edges" /\ pc = "idle"
      /\ Call([kind |-> "edge", id |-> way.id, from |-> f, to |-> t])
      /\ due' = Tail(due)
      /\ UNCHANGED <<way, stage, i, history>>
  BY DEF WayEdge
<1>2. indexMap \in Seq(Vertices)
  BY DEF NetInv, NetworkOK
<1>3. /\ Placed(f, h[1]) /\ Placed(t, h[2]) /\ h = due[1] /\ 1 \in DOMAIN due /\ Len(due) \in {1, 2}
      /\ \A k \in 1..(Len(due) - 1) : k + 1 \in DOMAIN due /\ Tail(due)[k] = due[k + 1]
      /\ DOMAIN Tail(due) = 1..(Len(due) - 1)
  BY <1>2, EdgeAsked
<1>4. AtEdges
  BY <1>1, CurrentWay DEF AtNodes
<1>5. due[1] \in KnownIds \X KnownIds /\ DOMAIN due = 1..Len(due)
  BY <1>3, <1>4, ElementOfSeq, LenProperties DEF AtEdges, Dues
<1>6. h = <<h[1], h[2]>>
  BY <1>3, <1>5
<1> HIDE DEF f, t, h
<1>7. /\ job' = [kind |-> "edge", id |-> way.id, from |-> f, to |-> t]
      /\ pc' = "begin" /\ UNCHANGED <<graph, vid, eid, indexMap>>
  BY <1>1 DEF Call, graphDataVars
<1>8. job'.from = f /\ job'.to = t
  BY <1>7
<1>9. Asking(from, to)' = IF h[1] = from /\ h[2] = to THEN 1 ELSE 0
  <2>1. Placed(f, from) <=> h[1] = from
    BY <1>3, PlacedOnce
  <2>2. Placed(t, to) <=> h[2] = to
    BY <1>3, PlacedOnce
  <2>3. Placed(job.from, from)' <=> Placed(f, from)
    BY <1>7, <1>8 DEF Placed
  <2>4. Placed(job.to, to)' <=> Placed(t, to)
    BY <1>7, <1>8 DEF Placed
  <2> QED
    BY <1>1, <1>7, <2>1, <2>2, <2>3, <2>4 DEF Asking
<1>10. DueAt(1, from, to) = IF h[1] = from /\ h[2] = to THEN 1 ELSE 0
  <2>1. (h = <<from, to>>) <=> (h[1] = from /\ h[2] = to)
    BY <1>6
  <2> QED
    BY <1>3, <2>1 DEF DueAt
<1>11. DueAt(1, from, to)' = DueAt(2, from, to) /\ DueAt(2, from, to)' = 0
  <2>1. CASE Len(due) = 1
    <3>1. DOMAIN Tail(due) = {} /\ DOMAIN due = {1}
      BY <1>3, <1>5, <2>1
    <3> QED
      BY <1>1, <3>1, SMTT(30) DEF DueAt
  <2>2. CASE Len(due) = 2
    <3>1. DOMAIN Tail(due) = {1} /\ DOMAIN due = {1, 2} /\ Tail(due)[1] = due[2]
      BY <1>3, <1>5, <2>2
    <3> QED
      BY <1>1, <3>1 DEF DueAt
  <2> QED
    BY <1>3, <2>1, <2>2
<1>12. Asking(from, to) = 0
  BY <1>1 DEF Asking
<1>13. Waiting(from, to)' = Waiting(from, to)
  <2>1. DueAt(2, from, to) \in {0, 1}
    BY WaitingIs
  <2> QED
    BY <1>9, <1>10, <1>11, <1>12, <2>1 DEF Waiting
<1>14. Passed(from, to)' = Passed(from, to)
  BY <1>1 DEF Passed
<1>15. Roads(id, from, to)' = Roads(id, from, to)
  BY <1>7, NetworkAlone
<1> QED
  BY <1>1, <1>13, <1>14, <1>15, RoadsFrame

\* All other steps of the helpers leave the edges alone.
LEMMA EdgesAlone ==
  ASSUME NetInv, NetInv', StoreStep, ~StoreEdge
  PROVE  /\ graph'.edges = graph.edges /\ graph'.source = graph.source
         /\ graph'.target = graph.target /\ eid' = eid
<1>1. CASE Begin \/ TakeMap \/ Reserve \/ Intern \/ Record \/ Merge \/ Unwind \/ IndexVertex
  BY <1>1 DEF Begin, TakeMap, Reserve, Intern, Record, Merge, Unwind, IndexVertex, graphDataVars
<1>2. CASE ReserveFails \/ RecordFails \/ MergeFails \/ InternThrows \/ StoreVertexFails \/ StoreEdgeFails
  BY <1>2, FailuresAreQuiet DEF NetworkSame
<1>3. CASE StoreVertex
  BY <1>3, StoreVertexKeeps DEF NetInv, StoreVertex
<1>4. CASE IndexFails
  BY <1>4, IndexFailsKeeps DEF NetInv, IndexFails, Fails
<1> QED
  BY <1>1, <1>2, <1>3, <1>4 DEF StoreStep

\* The helpers add one edge for the one that was asked for.
LEMMA RoadsEdgeStored ==
  ASSUME NetInv, NetInv', StoreEdge, NEW id, NEW from, NEW to
  PROVE  Roads(id, from, to)' = Roads(id, from, to)
             + (IF job.id = id /\ Placed(job.from, from) /\ Placed(job.to, to) THEN 1 ELSE 0)
<1> DEFINE old == RoadSet(id, from, to)
           new == RoadSet(id, from, to)'
           e == NewEdge
<1>1. /\ graph'.edges = Append(graph.edges, e) /\ e \notin Members(graph.edges)
      /\ \A f \in Members(graph.edges) : /\ eid'[f] = eid[f] /\ graph'.source[f] = graph.source[f]
                                         /\ graph'.target[f] = graph.target[f]
      /\ eid'[e] = job.id /\ graph'.source[e] = From /\ graph'.target[e] = To /\ e \in Edges
      /\ vid' = vid /\ pc = "add" /\ job.kind = "edge"
  <2>1. StoreEdge /\ pc = "add" /\ job.kind = "edge" /\ vid' = vid /\ FreeEdges(graph) # {}
    BY DEF StoreEdge
  <2>2. e \in Edges
    BY <2>1 DEF NewEdge, FreeEdges
  <2> QED
    BY <2>1, <2>2, StoreEdgeKeeps DEF NetInv
<1>2. Members(graph.edges)' = Members(graph.edges) \cup {e}
  <2>1. graph.edges \in Seq(Edges)
    BY DEF NetInv, NetworkOK, GraphOK, Graphs
  <2>2. Members(Append(graph.edges, e)) = Members(graph.edges) \cup {e}
    BY <1>1, <2>1, Appended
  <2> QED
    BY <1>1, <2>2
<1>3. job.from + 1 \in DOMAIN indexMap /\ job.to + 1 \in DOMAIN indexMap
  BY <1>1, EdgeJob
<1>4. /\ Placed(job.from, from) <=> vid[From] = from
      /\ Placed(job.to, to) <=> vid[To] = to
  BY <1>3 DEF Placed, From, To
<1> HIDE DEF e
<1>5. \A f \in Members(graph.edges) : f \in new <=> f \in old
  BY <1>1, <1>2 DEF RoadSet
<1>6. (e \in new) <=> (job.id = id /\ vid[From] = from /\ vid[To] = to)
  BY <1>1, <1>2 DEF RoadSet
<1>7. old \subseteq Members(graph.edges) /\ new \subseteq Members(graph.edges) \cup {e} /\ e \notin old
  BY <1>1, <1>2 DEF RoadSet
<1>8. /\ Roads(id, from, to) = Cardinality(old) /\ IsFiniteSet(old)
      /\ Roads(id, from, to)' = Cardinality(new) /\ Cardinality(old) \in Nat
  <2>1. Roads(id, from, to)' = Cardinality(new)
    BY DEF Roads, RoadSet
  <2> QED
    BY <2>1, RoadsAre
<1>9. CASE job.id = id /\ vid[From] = from /\ vid[To] = to
  <2>1. new = old \cup {e}
    BY <1>5, <1>6, <1>7, <1>9
  <2> HIDE DEF old, new
  <2>2. Cardinality(old \cup {e}) = Cardinality(old) + 1
    BY <1>7, <1>8, FS_AddElement
  <2> QED
    BY <1>4, <1>8, <1>9, <2>1, <2>2
<1>10. CASE ~(job.id = id /\ vid[From] = from /\ vid[To] = to)
  <2>1. new = old
    BY <1>5, <1>6, <1>7, <1>10
  <2> HIDE DEF old, new
  <2> QED
    BY <1>4, <1>8, <1>10, <2>1
<1> QED
  BY <1>9, <1>10

LEMMA RoadsStoring ==
  ASSUME NetInv, NetInv', OsmInv, StoreStep, UNCHANGED osmVars, reading,
         NEW id, NEW from, NEW to, RoadsFor(id, from, to)
  PROVE  RoadsFor(id, from, to)'
<1>1. /\ UNCHANGED <<way, stage, i, due, history, job>> /\ IndexStays /\ pc # "idle" /\ pc' # "idle"
  BY StoreMoves, StoreKeepsIndex DEF osmVars
<1>2. way # Nothing
  BY <1>1 DEF OsmInv, WayOK
<1>3. pc # "returned"
  BY DEF StoreStep, Begin, TakeMap, Reserve, ReserveFails, Intern, InternThrows, Record,
         RecordFails, StoreVertex, StoreVertexFails, StoreEdge, StoreEdgeFails, IndexVertex,
         IndexFails, Merge, MergeFails, Unwind
<1>4. Passed(from, to)' = Passed(from, to)
  BY <1>1 DEF Passed
<1>5. /\ DueAt(1, from, to)' = DueAt(1, from, to) /\ DueAt(2, from, to)' = DueAt(2, from, to)
  BY <1>1 DEF DueAt
<1>6. AtNodes => job.kind = "vertex" /\ stage = "nodes"
  BY <1>1 DEF AtNodes
<1>7. AtEdges => job.kind = "edge" /\ job.id = way.id /\ stage = "edges"
  BY <1>1 DEF AtEdges
<1>8. AtNodes \/ AtEdges
  BY <1>2, CurrentWay
<1>9. CASE StoreEdge
  <2>1. /\ job.kind = "edge" /\ pc = "add" /\ pc' = "returned"
    BY <1>9 DEF StoreEdge, Returns
  <2>2. job.id = way.id /\ stage = "edges"
    BY <1>6, <1>7, <1>8, <2>1
  <2>3. Asking(from, to)' = 0
    BY <2>1 DEF Asking
  <2>4. Asking(from, to) = IF Placed(job.from, from) /\ Placed(job.to, to) THEN 1 ELSE 0
    BY <2>1, <2>2 DEF Asking
  <2>5. Roads(id, from, to)' = Roads(id, from, to)
             + (IF job.id = id /\ Placed(job.from, from) /\ Placed(job.to, to) THEN 1 ELSE 0)
    BY <1>9, RoadsEdgeStored
  <2>6. /\ Roads(id, from, to) \in Nat /\ DueAt(1, from, to) \in {0, 1} /\ DueAt(2, from, to) \in {0, 1}
    BY RoadsAre, WaitingIs
  <2>7. Earlier(id, from, to)' = Earlier(id, from, to)
    BY <1>1, HistorySame
  <2>8. CASE way.id = id
    <3>1. Roads(id, from, to)' = Roads(id, from, to) + Asking(from, to)
      BY <2>2, <2>4, <2>5, <2>8
    <3>2. Roads(id, from, to) + Waiting(from, to) = Earlier(id, from, to) + Passed(from, to)
      BY <1>2, <2>8 DEF RoadsFor
    <3>3. Asking(from, to) \in {0, 1}
      BY WaitingIs
    <3>4. Roads(id, from, to)' + Waiting(from, to)' = Roads(id, from, to) + Waiting(from, to)
      BY <1>5, <2>3, <2>6, <3>1, <3>3 DEF Waiting
    <3> QED
      BY <1>1, <1>2, <1>4, <2>7, <2>8, <3>2, <3>4 DEF RoadsFor
  <2>9. CASE way.id # id
    <3>1. Roads(id, from, to)' = Roads(id, from, to)
      BY <2>2, <2>5, <2>6, <2>9
    <3> QED
      BY <1>1, <1>2, <2>7, <2>9, <3>1 DEF RoadsFor
  <2> QED
    BY <2>8, <2>9
<1>10. CASE ~StoreEdge
  <2>1. Roads(id, from, to)' = Roads(id, from, to)
    BY <1>1, <1>10, EdgesAlone, RoadsKept
  <2>2. Asking(from, to)' = Asking(from, to)
    <3>1. CASE stage = "nodes"
      BY <1>1, <3>1 DEF Asking
    <3>2. CASE stage = "edges"
      <4>1. job.kind = "edge"
        BY <1>6, <1>7, <1>8, <3>2
      <4>2. pc' # "returned"
        <5>1. SUFFICES ASSUME pc' = "returned" PROVE FALSE
          OBVIOUS
        <5>2. CASE Merge
          BY <4>1, <5>2, MergeData
        <5>3. CASE IndexVertex
          BY <4>1, <5>3 DEF IndexVertex, NetInv, ProgressOK
        <5>4. CASE Unwind
          <6>1. pc' \in {Head(control.stack).at, "gave up", "throw"} /\ pc = "throw"
            BY <5>4 DEF Unwind
          <6>2. ControlOK(control) /\ Len(control.stack) >= 1
            BY <6>1 DEF NetInv, CallsInv, PlaceOK
          <6>3. Head(control.stack).at \in Points
            BY <6>2, CaughtStaysAt
          <6> QED
            BY <5>1, <6>1, <6>3 DEF Points
        <5> QED
          BY <1>10, <5>1, <5>2, <5>3, <5>4
          DEF StoreStep, Begin, TakeMap, Reserve, ReserveFails, Intern, InternThrows, Record,
              RecordFails, StoreVertex, StoreVertexFails, StoreEdgeFails, IndexFails, MergeFails, Fails
      <4>3. {job.from, job.to} \subseteq 0..(Len(indexMap) - 1) /\ indexMap \in Seq(Vertices)
        BY <4>1 DEF NetInv, JobOK, NetworkOK
      <4>4. job.from + 1 \in DOMAIN indexMap /\ job.to + 1 \in DOMAIN indexMap
        BY <4>3, LenProperties
      <4>5. Placed(job.from, from)' <=> Placed(job.from, from)
        BY <1>1, <4>4 DEF Placed, IndexStays
      <4>6. Placed(job.to, to)' <=> Placed(job.to, to)
        BY <1>1, <4>4 DEF Placed, IndexStays
      <4> QED
        BY <1>1, <1>3, <4>2, <4>5, <4>6 DEF Asking
    <3> QED
      BY <1>6, <1>7, <1>8, <3>1, <3>2
  <2>3. Waiting(from, to)' = Waiting(from, to)
    BY <1>5, <2>2 DEF Waiting
  <2> QED
    BY <1>1, <1>4, <2>1, <2>3, RoadsFrame
<1> QED
  BY <1>9, <1>10

LEMMA RoadsStep ==
  NetInv /\ NetInv' /\ OsmInv /\ RoadsOK /\ [OsmNext]_allVars => RoadsOK'
<1> SUFFICES ASSUME NetInv, NetInv', OsmInv, RoadsOK, [OsmNext]_allVars, reading',
                    NEW id \in DOMAIN WayTags, NEW from \in DOMAIN NodeTags,
                    NEW to \in DOMAIN NodeTags
             PROVE  RoadsFor(id, from, to)'
  BY DEF RoadsOK
<1>1. reading
  BY DEF OsmNext, ReadNode, ReadWay, WayNode, VertexAdded, NodesDone, WayPair, WayEdge, EdgeAdded,
         WayDone, ReadingEnds, Simplify, TagsMerged, osmVars, allVars
<1>2. RoadsFor(id, from, to)
  BY <1>1 DEF RoadsOK
<1>3. CASE \E w \in Ways : ReadWay(w)
  BY <1>2, <1>3, RoadsReadWay
<1>4. CASE WayNode \/ VertexAdded
  BY <1>2, <1>4, RoadsFirstLoop
<1>5. CASE NodesDone
  BY <1>2, <1>5, RoadsNodesDone
<1>6. CASE WayPair
  BY <1>2, <1>6, RoadsWayPair
<1>7. CASE WayEdge
  BY <1>2, <1>7, RoadsWayEdge
<1>8. CASE EdgeAdded
  BY <1>2, <1>8, RoadsEdgeAdded
<1>9. CASE WayDone
  BY <1>2, <1>9, RoadsWayDone
<1>10. CASE StoreStep /\ UNCHANGED osmVars
  BY <1>1, <1>2, <1>10, RoadsStoring
<1>11. CASE \E x \in DOMAIN NodeTags : ReadNode(x)
  BY <1>2, <1>11, RoadsIdle DEF ReadNode, importStoreVars, graphDataVars
<1>12. CASE UNCHANGED allVars
  <2>1. /\ UNCHANGED <<way, history, stage, due, i, pc, job, graph, vid, eid, indexMap>>
    BY <1>12 DEF allVars, osmVars, importStoreVars, graphDataVars
  <2>2. Roads(id, from, to)' = Roads(id, from, to)
    BY <2>1, NetworkAlone
  <2>3. Waiting(from, to)' = Waiting(from, to) /\ Passed(from, to)' = Passed(from, to)
    BY <2>1 DEF Waiting, Passed, DueAt, Asking, Placed
  <2> QED
    BY <1>2, <2>1, <2>2, <2>3, RoadsFrame
<1>13. ~(ReadingEnds \/ Simplify \/ TagsMerged)
  BY <1>1 DEF ReadingEnds, Simplify, TagsMerged
<1> QED
  BY <1>3, <1>4, <1>5, <1>6, <1>7, <1>8, <1>9, <1>10, <1>11, <1>12, <1>13 DEF OsmNext

LEMMA RoadsInit == OsmInit => RoadsOK
<1> SUFFICES ASSUME OsmInit PROVE RoadsOK
  OBVIOUS
<1>1. /\ way = Nothing /\ history = <<>> /\ graph.edges = <<>>
  BY DEF OsmInit, ImportStoreInit, EmptyGraph
<1>2. ASSUME NEW id, NEW from, NEW to PROVE RoadsFor(id, from, to)
  <2>1. Roads(id, from, to) = 0
    <3>1. Members(graph.edges) = {}
      BY <1>1, EmptyList
    <3>2. RoadSet(id, from, to) = {}
      BY <3>1 DEF RoadSet
    <3>3. Roads(id, from, to) = Cardinality(RoadSet(id, from, to))
      BY DEF Roads, RoadSet
    <3> QED
      BY <3>2, <3>3, FS_EmptySet
  <2>2. Expected(id, from, to) = 0
    <3> DEFINE none == [k \in DOMAIN history |-> IF history[k].way.id = id THEN Asked(history[k], from, to) ELSE 0]
    <3>1. DOMAIN history = {}
      BY <1>1, EmptySeq
    <3>2. none = <<>>
      BY <3>1
    <3>3. Expected(id, from, to) = Total(none)
      BY DEF Expected
    <3> HIDE DEF none
    <3> QED
      BY <3>2, <3>3, EmptySeq, TotalIsNat
  <2> QED
    BY <1>1, <2>1, <2>2 DEF RoadsFor
<1> QED
  BY <1>2 DEF RoadsOK

\* Once the reading of a way is over, the network has, for every way of the file, exactly the edges
\* that Described says between the neighbours known by then, as often as the way was read, and
\* no others, whatever failed in between; and the searches find the nodes (osm_handler.hpp, node and
\* way; osm_handler_helper.hpp).
THEOREM NetworkIsAsRead == OsmSpec => []NetworkFollowsFile
<1>1. OsmInit => RoadsOK
  BY RoadsInit
<1>2. (NetInv /\ OsmInv) /\ (NetInv /\ OsmInv)' /\ RoadsOK /\ [OsmNext]_allVars => RoadsOK'
  BY RoadsStep
<1>3. OsmSpec => []RoadsOK
  BY <1>1, <1>2, OsmInvariant, PTL DEF OsmSpec
<1>4. RoadsOK => RoadsImported
  BY DEF RoadsOK, RoadsFor, RoadsImported, Settled
<1>5. KnownAreFound /\ RoadsImported => NetworkFollowsFile
  BY DEF NetworkFollowsFile
<1> QED
  BY <1>3, <1>4, <1>5, NodesAreFound, PTL

=============================================================================
