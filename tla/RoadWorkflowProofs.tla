------------------------ MODULE RoadWorkflowProofs -------------------------
(***************************************************************************)
(* Proofs about RoadWorkflow.  First the drive, for any recording; then    *)
(* the road graph that is built from any file, the search for shortest     *)
(* paths in it and the matching of a drive to it; then the center line of  *)
(* a drive, and the report.                                                *)
(***************************************************************************)
EXTENDS RoadWorkflow, ListTheorems

-----------------------------------------------------------------------------
\* The order of the file names.

\* How many numbers of D are less than n, and how many are not greater.
Below(D, n) == { m \in D : m < n }
Rank(D, n) == Cardinality(Below(D, n))

LEMMA RankIsNat ==
  ASSUME NEW D \in SUBSET Nat, IsFiniteSet(D), NEW n
  PROVE  IsFiniteSet(Below(D, n)) /\ Rank(D, n) \in Nat
<1>1. Below(D, n) \in SUBSET D
  BY DEF Below
<1> QED
  BY <1>1, FS_Subset, FS_CardinalityType DEF Rank

LEMMA PartIsFinite ==
  ASSUME NEW D, IsFiniteSet(D), NEW part \in SUBSET D
  PROVE  IsFiniteSet(part) /\ Cardinality(part) \in Nat
BY FS_Subset, FS_CardinalityType

\* What lies from f on up to g is the difference of the ranks.
LEMMA RankDifference ==
  ASSUME NEW D \in SUBSET Nat, IsFiniteSet(D), NEW f \in D, NEW g \in D, f < g
  PROVE  /\ Rank(D, f) < Rank(D, g)
         /\ Cardinality({ n \in D : f < n /\ n <= g }) = Rank(D, g) - Rank(D, f)
<1> DEFINE between == { n \in D : f < n /\ n <= g }
           from == { n \in D : f <= n /\ n < g }
<1>0. f \in Nat /\ g \in Nat /\ \A n \in D : n \in Nat
  OBVIOUS
<1>1. /\ IsFiniteSet(Below(D, f)) /\ IsFiniteSet(Below(D, g))
      /\ Rank(D, f) \in Nat /\ Rank(D, g) \in Nat
  BY RankIsNat
<1>2. IsFiniteSet(from) /\ Cardinality(from) \in Nat
  <2>1. from \in SUBSET D
    OBVIOUS
  <2> HIDE DEF from
  <2> QED
    BY <2>1, PartIsFinite
<1>4. Cardinality(Below(D, g)) = Cardinality(Below(D, f)) + Cardinality(from)
  <2>1. Below(D, g) = Below(D, f) \cup from
    <3>1. ASSUME NEW m \in D PROVE m < g <=> (m < f \/ (f <= m /\ m < g))
      BY <1>0, <3>1
    <3> QED
      BY <3>1 DEF Below
  <2>2. Below(D, f) \cap from = {}
    <3>1. ASSUME NEW m \in D PROVE ~(m < f /\ f <= m)
      BY <1>0
    <3> QED
      BY <3>1 DEF Below
  <2>3. Cardinality(Below(D, f) \cap from) = 0
    BY <2>2, FS_EmptySet
  <2> HIDE DEF from
  <2>4. Cardinality(Below(D, f) \cup from)
          = Cardinality(Below(D, f)) + Cardinality(from) - Cardinality(Below(D, f) \cap from)
    BY <1>1, <1>2, FS_Union
  <2> QED
    BY <1>1, <1>2, <2>1, <2>3, <2>4 DEF Rank
<1>5. Cardinality(between) = Cardinality(from)
  <2> DEFINE inner == { n \in D : f < n /\ n < g }
  <2>1. IsFiniteSet(inner) /\ Cardinality(inner) \in Nat
    <3>1. inner \in SUBSET D
      OBVIOUS
    <3> HIDE DEF inner
    <3> QED
      BY <3>1, PartIsFinite
  <2>2. from = inner \cup {f} /\ f \notin inner /\ between = inner \cup {g} /\ g \notin inner
    <3>1. ASSUME NEW n \in D
          PROVE  /\ (f <= n /\ n < g) <=> ((f < n /\ n < g) \/ n = f)
                 /\ (f < n /\ n <= g) <=> ((f < n /\ n < g) \/ n = g)
      BY <1>0
    <3>2. from = inner \cup {f}
      <4>1. ASSUME NEW m PROVE m \in from <=> m \in inner \cup {f}
        BY <1>0, <3>1
      <4> QED
        BY <4>1
    <3>3. between = inner \cup {g}
      <4>1. ASSUME NEW m PROVE m \in between <=> m \in inner \cup {g}
        BY <1>0, <3>1
      <4> QED
        BY <4>1
    <3>4. ~(f < f) /\ ~(g < g)
      BY <1>0
    <3> QED
      BY <3>2, <3>3, <3>4
  <2> HIDE DEF inner, from, between
  <2>3. Cardinality(inner \cup {f}) = Cardinality(inner) + 1
    BY <2>1, <2>2, FS_AddElement
  <2>4. Cardinality(inner \cup {g}) = Cardinality(inner) + 1
    BY <2>1, <2>2, FS_AddElement
  <2> QED
    BY <2>2, <2>3, <2>4
<1>6. Cardinality(from) > 0
  <2>1. from # {}
    OBVIOUS
  <2> HIDE DEF from
  <2> QED
    BY <1>2, <2>1, FS_EmptySet
<1> HIDE DEF from, between
<1>7. Cardinality(between) = Rank(D, g) - Rank(D, f) /\ Rank(D, f) < Rank(D, g)
  BY <1>1, <1>2, <1>4, <1>5, <1>6 DEF Rank
<1> QED
  BY <1>7 DEF between

LEMMA RankGrows ==
  ASSUME NEW D \in SUBSET Nat, IsFiniteSet(D), NEW f \in D, NEW g \in D, f < g
  PROVE  Rank(D, f) < Rank(D, g)
BY RankDifference

\* A rank is less than the number of files.
LEMMA RankIsLess ==
  ASSUME NEW D \in SUBSET Nat, IsFiniteSet(D), NEW f \in D
  PROVE  Rank(D, f) \in 0..Cardinality(D) - 1
<1>1. Below(D, f) \in SUBSET D /\ Below(D, f) # D
  BY DEF Below
<1>2. Cardinality(Below(D, f)) <= Cardinality(D) /\ Cardinality(D) # Cardinality(Below(D, f))
  BY <1>1, FS_Subset
<1>3. Cardinality(D) \in Nat /\ Rank(D, f) \in Nat
  BY FS_CardinalityType, RankIsNat
<1> QED
  BY <1>2, <1>3 DEF Rank

\* Each rank is taken.
LEMMA RankIsTaken ==
  ASSUME NEW D \in SUBSET Nat, IsFiniteSet(D), NEW r \in 0..Cardinality(D) - 1
  PROVE  \E n \in D : Rank(D, n) = r
<1> SUFFICES ASSUME \A n \in D : Rank(D, n) # r PROVE FALSE
  OBVIOUS
<1> DEFINE T == (0..Cardinality(D) - 1) \ {r}
           rank == [n \in D |-> Rank(D, n)]
<1>1. Cardinality(D) \in Nat
  BY FS_CardinalityType
<1>2. IsFiniteSet(T) /\ Cardinality(T) < Cardinality(D)
  <2>1. IsFiniteSet(0..Cardinality(D) - 1) /\ Cardinality(0..Cardinality(D) - 1) = Cardinality(D)
    <3>1. 0 \in Int /\ Cardinality(D) - 1 \in Int
      BY <1>1
    <3> QED
      BY <1>1, <3>1, FS_Interval
  <2>2. IsFiniteSet(T) /\ Cardinality(T) = Cardinality(0..Cardinality(D) - 1) - 1
    BY <2>1, FS_RemoveElement
  <2> QED
    BY <1>1, <2>1, <2>2
<1>3. rank \in [D -> T]
  BY RankIsLess
<1>4. PICK f, g \in D : f # g /\ rank[f] = rank[g]
  <2> HIDE DEF T, rank
  <2> QED
    BY <1>2, <1>3, FS_PigeonHole
<1>5. f \in Nat /\ g \in Nat /\ Rank(D, f) = Rank(D, g) /\ Rank(D, f) \in Nat
  BY <1>4, RankIsNat
<1>6. CASE f < g
  BY <1>5, <1>6, RankGrows
<1>7. CASE g < f
  BY <1>5, <1>7, RankGrows
<1> QED
  BY <1>4, <1>5, <1>6, <1>7

\* list has the files of D, the i-th at place i.
Lists(list, D) ==
  /\ Len(list) = Cardinality(D) /\ DOMAIN list = 1..Cardinality(D)
  /\ \A i \in 1..Cardinality(D) : list[i] \in D /\ Rank(D, list[i]) = i - 1
  /\ \A n \in D : \E i \in 1..Cardinality(D) : list[i] = n

\* The readers see every file once, in the order of the recording.
LEMMA ListedInOrder ==
  ASSUME NEW dir, DOMAIN dir \subseteq Nat, IsFiniteSet(DOMAIN dir)
  PROVE  Lists(InNameOrder(dir), DOMAIN dir)
<1> DEFINE D == DOMAIN dir
           list == InNameOrder(dir)
<1>1. D \in SUBSET Nat /\ Cardinality(D) \in Nat
  BY FS_CardinalityType
<1>2. list = [i \in 1..Cardinality(D) |-> CHOOSE n \in D : Rank(D, n) = i - 1]
  BY DEF InNameOrder, Rank, Below
<1> HIDE DEF D, list
<1>3. IsFiniteSet(D)
  BY DEF D
<1>4. ASSUME NEW i \in 1..Cardinality(D) PROVE list[i] \in D /\ Rank(D, list[i]) = i - 1
  <2>1. i - 1 \in 0..Cardinality(D) - 1
    BY <1>1
  <2>2. \E n \in D : Rank(D, n) = i - 1
    BY <1>1, <1>3, <2>1, RankIsTaken
  <2> QED
    BY <1>2, <2>2
<1>5. ASSUME NEW n \in D PROVE \E i \in 1..Cardinality(D) : list[i] = n
  <2>1. Rank(D, n) \in 0..Cardinality(D) - 1
    BY <1>1, <1>3, RankIsLess
  <2> DEFINE i == Rank(D, n) + 1
  <2>2. i \in 1..Cardinality(D) /\ i - 1 = Rank(D, n)
    BY <1>1, <2>1
  <2> HIDE DEF i
  <2>3. list[i] \in D /\ Rank(D, list[i]) = Rank(D, n)
    BY <1>4, <2>2
  <2>4. list[i] = n
    <3>1. list[i] \in Nat /\ n \in Nat /\ Rank(D, n) \in Nat
      <4>1. Rank(D, n) \in Nat
        BY <1>1, <2>1
      <4>2. n \in Nat
        BY <1>1
      <4>3. list[i] \in Nat
        BY <1>1, <2>3
      <4> QED
        BY <4>1, <4>2, <4>3
    <3>2. ~(list[i] < n)
      BY <1>1, <1>3, <2>3, <3>1, RankGrows
    <3>3. ~(n < list[i])
      BY <1>1, <1>3, <2>3, <3>1, RankGrows
    <3> QED
      BY <3>1, <3>2, <3>3
  <2> QED
    BY <2>2, <2>4
<1>6. Len(list) = Cardinality(D) /\ DOMAIN list = 1..Cardinality(D)
  <2>1. DOMAIN list = 1..Cardinality(D)
    BY <1>2
  <2>2. list \in Seq(D)
    BY <1>1, <1>2, <1>4
  <2> QED
    BY <1>1, <2>1, <2>2
<1>7. Lists(list, D)
  BY <1>4, <1>5, <1>6 DEF Lists
<1> QED
  BY <1>7 DEF list, D

LEMMA OrderOfNumbers ==
  ASSUME NEW d, NEW e, DOMAIN d = DOMAIN e
  PROVE  InNameOrder(d) = InNameOrder(e)
BY DEF InNameOrder

-----------------------------------------------------------------------------
\* What the GPS reader has after the first `read` files of a directory.

Frame == [file : Nat, time : Int, enu : Int \X Int]
FrameLists == Seq(Frame)
Places == Int \X Int
GpsRecord == [frames : FrameLists, anchor : Places, parsed : Nat, skipped : Nat]

IsGpsDirectory(dir) ==
  /\ DOMAIN dir \subseteq Nat /\ IsFiniteSet(DOMAIN dir)
  /\ \A n \in DOMAIN dir : dir[n] = Malformed \/ dir[n] \in Int \X Int

\* f was read from file j.
ReadFrom(f, dir, anchor, j) ==
  LET file == InNameOrder(dir)[j]
  IN  /\ f.file = file /\ f.time = (j - 1) * SampleTime
      /\ dir[file] # Malformed /\ f.enu = Difference(dir[file], anchor)

CountsFiles(x, read) == x.parsed = Len(x.frames) /\ x.parsed + x.skipped = read
FramesAreRead(x, dir, read) ==
  \A i \in 1..Len(x.frames) : \E j \in 1..read : ReadFrom(x.frames[i], dir, x.anchor, j)
NoFrameLost(x, dir, read) ==
  \A j \in 1..read :
    dir[InNameOrder(dir)[j]] # Malformed =>
      \E i \in 1..Len(x.frames) : x.frames[i].file = InNameOrder(dir)[j]
FramesInOrder(x) ==
  \A i, k \in 1..Len(x.frames) : i < k => x.frames[i].file < x.frames[k].file
AnchorIsFirst(x, dir) == x.frames # << >> => x.anchor = dir[x.frames[1].file]
NoneSkipped(x, dir) ==
  x.skipped = 0 => \A i \in 1..Len(x.frames) : x.frames[i].file = InNameOrder(dir)[i]

FramesOf(x, dir, read) ==
  /\ x \in GpsRecord
  /\ CountsFiles(x, read)
  /\ FramesAreRead(x, dir, read)
  /\ NoFrameLost(x, dir, read)
  /\ FramesInOrder(x)
  /\ AnchorIsFirst(x, dir)
  /\ NoneSkipped(x, dir)

LEMMA NoFramesYet ==
  ASSUME NEW dir
  PROVE  FramesOf(NoFrames, dir, 0)
BY DEF FramesOf, NoFrames, GpsRecord, FrameLists, Places, CountsFiles, FramesAreRead, NoFrameLost, FramesInOrder,
       AnchorIsFirst, NoneSkipped

Skipped(x) == [x EXCEPT !.skipped = @ + 1]

LEMMA SkippingKeepsFrames ==
  ASSUME NEW dir, IsGpsDirectory(dir), NEW x, NEW read \in 0..Cardinality(DOMAIN dir) - 1,
         FramesOf(x, dir, read), dir[InNameOrder(dir)[read + 1]] = Malformed
  PROVE  FramesOf(Skipped(x), dir, read + 1)
<1> DEFINE y == Skipped(x)
<1>1. x \in GpsRecord /\ Cardinality(DOMAIN dir) \in Nat
  BY FS_CardinalityType DEF FramesOf, IsGpsDirectory
<1>2. /\ y \in GpsRecord /\ y.frames = x.frames /\ y.anchor = x.anchor
      /\ y.parsed = x.parsed /\ y.skipped = x.skipped + 1
  <2>1. x.skipped + 1 \in Nat
    BY <1>1 DEF GpsRecord
  <2> QED
    BY <1>1, <2>1 DEF GpsRecord, Skipped
<1> HIDE DEF y
<1>3. read \in Nat /\ x.skipped \in Nat /\ x.parsed \in Nat
  BY <1>1 DEF GpsRecord
<1>4. CountsFiles(y, read + 1)
  BY <1>2, <1>3, SMTT(30) DEF FramesOf, CountsFiles
<1>5. FramesAreRead(y, dir, read + 1)
  <2>1. \A j \in 1..read : j \in 1..(read + 1)
    BY <1>3
  <2> QED
    BY <1>2, <2>1 DEF FramesOf, FramesAreRead
<1>6. NoFrameLost(y, dir, read + 1)
  <2>1. ASSUME NEW j \in 1..(read + 1) PROVE j \in 1..read \/ j = read + 1
    BY <1>3
  <2> QED
    BY <1>2, <2>1 DEF FramesOf, NoFrameLost
<1>7. FramesInOrder(y) /\ AnchorIsFirst(y, dir)
  BY <1>2 DEF FramesOf, FramesInOrder, AnchorIsFirst
<1>8. NoneSkipped(y, dir)
  BY <1>2, <1>3 DEF NoneSkipped
<1>9. FramesOf(y, dir, read + 1)
  BY <1>2, <1>4, <1>5, <1>6, <1>7, <1>8 DEF FramesOf
<1> QED
  BY <1>9 DEF y

AnchorFor(x, position) == IF x.parsed = 0 THEN position ELSE x.anchor
FrameOf(x, dir, read) ==
  LET file == InNameOrder(dir)[read + 1]
  IN  [file |-> file, time |-> read * SampleTime,
       enu |-> Difference(dir[file], AnchorFor(x, dir[file]))]
Parsed(x, dir, read) ==
  [x EXCEPT !.anchor = AnchorFor(x, dir[InNameOrder(dir)[read + 1]]),
            !.frames = Append(@, FrameOf(x, dir, read)), !.parsed = @ + 1]

LEMMA ParsingKeepsFrames ==
  ASSUME NEW dir, IsGpsDirectory(dir), NEW x, NEW read \in 0..Cardinality(DOMAIN dir) - 1,
         FramesOf(x, dir, read), dir[InNameOrder(dir)[read + 1]] # Malformed
  PROVE  FramesOf(Parsed(x, dir, read), dir, read + 1)
<1> DEFINE y == Parsed(x, dir, read)
           list == InNameOrder(dir)
           file == list[read + 1]
           anchor == AnchorFor(x, dir[file])
           frame == FrameOf(x, dir, read)
           size == Len(x.frames)
           D == DOMAIN dir
<1>1. x \in GpsRecord /\ Cardinality(D) \in Nat /\ D \in SUBSET Nat /\ IsFiniteSet(D)
  BY FS_CardinalityType DEF FramesOf, IsGpsDirectory
<1>2. Lists(list, D)
  BY ListedInOrder DEF IsGpsDirectory
<1>3. read \in Nat /\ read + 1 \in 1..Cardinality(D)
  BY <1>1
<1>4. file \in D /\ file \in Nat /\ dir[file] \in Int \X Int
  <2> HIDE DEF D, list
  <2>1. file \in D
    BY <1>2, <1>3 DEF Lists
  <2> QED
    BY <1>1, <2>1 DEF IsGpsDirectory, D, list
<1>5. anchor \in Int \X Int /\ (x.parsed # 0 => anchor = x.anchor) /\ (x.parsed = 0 => anchor = dir[file])
  BY <1>1, <1>4 DEF AnchorFor, GpsRecord, Places
<1>6. /\ frame.file = file /\ frame.time = read * SampleTime
      /\ frame.enu = Difference(dir[file], anchor)
      /\ frame \in [file : Nat, time : Int, enu : Int \X Int]
  <2>1. read * SampleTime \in Int
    BY <1>3, RecordingAssumption
  <2>2. Difference(dir[file], anchor) \in Int \X Int
    <3> HIDE DEF anchor, file
    <3> QED
      BY <1>4, <1>5 DEF Difference
  <2> QED
    BY <1>4, <2>1, <2>2 DEF FrameOf
<1> HIDE DEF frame, D
<1>7. /\ y \in GpsRecord /\ y.frames = Append(x.frames, frame) /\ y.anchor = anchor
      /\ y.parsed = x.parsed + 1 /\ y.skipped = x.skipped
  <2>1. x.frames \in FrameLists /\ x.parsed + 1 \in Nat
    BY <1>1 DEF GpsRecord
  <2>2. Append(x.frames, frame) \in FrameLists
    BY <1>6, <2>1 DEF FrameLists, Frame
  <2>3. y = [x EXCEPT !.anchor = anchor, !.frames = Append(@, frame), !.parsed = @ + 1]
    BY DEF Parsed, frame
  <2>4. anchor \in Places
    BY <1>5 DEF Places
  <2> HIDE DEF y, anchor
  <2> QED
    BY <1>1, <2>1, <2>2, <2>3, <2>4 DEF GpsRecord
<1> HIDE DEF y, file, list, anchor
<1>8. /\ size \in Nat /\ x.frames \in Seq(Frame)
      /\ x.skipped \in Nat /\ x.parsed \in Nat /\ x.parsed = size /\ x.parsed + x.skipped = read
  BY <1>1 DEF GpsRecord, FrameLists, FramesOf, CountsFiles
<1>9. /\ Len(y.frames) = size + 1 /\ y.frames[size + 1] = frame
      /\ \A i \in 1..size : y.frames[i] = x.frames[i]
  BY <1>7, <1>8
<1> HIDE DEF size
<1>10. ASSUME NEW i \in 1..(size + 1) PROVE i \in 1..size \/ i = size + 1
  BY <1>8
<1>11. ASSUME NEW j \in 1..(read + 1) PROVE j \in 1..read \/ j = read + 1
  BY <1>3
<1>12. \A j \in 1..read : j \in 1..(read + 1)
  BY <1>3
<1>13. \A i \in 1..size : i \in 1..(size + 1)
  BY <1>8
<1>14. ASSUME NEW i \in 1..size PROVE anchor = x.anchor
  <2>1. size # 0
    BY <1>8
  <2> QED
    BY <1>5, <1>8, <2>1
<1>15. CountsFiles(y, read + 1)
  BY <1>3, <1>7, <1>8, <1>9, SMTT(30) DEF CountsFiles
<1>16. FramesAreRead(y, dir, read + 1)
  <2> SUFFICES ASSUME NEW i \in 1..(size + 1)
               PROVE  \E j \in 1..(read + 1) : ReadFrom(y.frames[i], dir, y.anchor, j)
    BY <1>9 DEF FramesAreRead
  <2>1. CASE i \in 1..size
    <3>1. PICK j \in 1..read : ReadFrom(x.frames[i], dir, x.anchor, j)
      BY <2>1 DEF FramesOf, FramesAreRead, size
    <3> QED
      BY <1>7, <1>9, <1>12, <1>14, <2>1, <3>1
  <2>2. CASE i = size + 1
    <3>1. read + 1 \in 1..(read + 1) /\ (read + 1) - 1 = read
      BY <1>3
    <3>2. ReadFrom(frame, dir, anchor, read + 1)
      BY <1>6, <3>1 DEF ReadFrom, list, file
    <3> QED
      BY <1>7, <1>9, <2>2, <3>1, <3>2
  <2> QED
    BY <1>10, <2>1, <2>2
<1>17. NoFrameLost(y, dir, read + 1)
  <2> SUFFICES ASSUME NEW j \in 1..(read + 1), dir[list[j]] # Malformed
               PROVE  \E i \in 1..(size + 1) : y.frames[i].file = list[j]
    BY <1>9 DEF NoFrameLost, list
  <2>1. CASE j \in 1..read
    <3>1. PICK i \in 1..size : x.frames[i].file = list[j]
      BY <2>1 DEF FramesOf, NoFrameLost, size, list
    <3> QED
      BY <1>9, <1>13, <3>1
  <2>2. CASE j = read + 1
    <3>1. size + 1 \in 1..(size + 1)
      BY <1>8
    <3> QED
      BY <1>6, <1>9, <2>2, <3>1 DEF file
  <2> QED
    BY <1>11, <2>1, <2>2
\* The new file comes after all others.
<1>18. ASSUME NEW i \in 1..size PROVE x.frames[i].file < file
  <2>1. PICK j \in 1..read : ReadFrom(x.frames[i], dir, x.anchor, j)
    BY DEF FramesOf, FramesAreRead, size
  <2>2. x.frames[i].file = list[j]
    BY <2>1 DEF ReadFrom, list
  <2>3. j \in 1..Cardinality(D) /\ j - 1 < (read + 1) - 1 /\ j - 1 \in Nat
    BY <1>1, <1>3
  <2>4. list[j] \in D /\ Rank(D, list[j]) = j - 1
    BY <1>2, <2>3 DEF Lists
  <2>5. file \in D /\ Rank(D, file) = (read + 1) - 1
    BY <1>2, <1>3 DEF Lists, file
  <2>6. list[j] \in Nat /\ file \in Nat
    BY <1>1, <2>4, <2>5
  <2>7. ~(file < list[j])
    <3> SUFFICES ASSUME file < list[j] PROVE FALSE
      OBVIOUS
    <3>1. Rank(D, file) < Rank(D, list[j])
      BY <1>1, <2>4, <2>5, RankGrows
    <3> QED
      BY <1>3, <2>3, <2>4, <2>5, <3>1
  <2>8. file # list[j]
    BY <1>3, <2>3, <2>4, <2>5
  <2> QED
    BY <2>2, <2>6, <2>7, <2>8
<1>19. FramesInOrder(y)
  <2> SUFFICES ASSUME NEW i \in 1..(size + 1), NEW k \in 1..(size + 1), i < k
               PROVE  y.frames[i].file < y.frames[k].file
    BY <1>9 DEF FramesInOrder
  <2>1. i \in 1..size
    BY <1>8
  <2>2. CASE k \in 1..size
    <3>1. x.frames[i].file < x.frames[k].file
      BY <2>1, <2>2 DEF FramesOf, FramesInOrder, size
    <3> QED
      BY <1>9, <2>1, <2>2, <3>1
  <2>3. CASE k = size + 1
    BY <1>6, <1>9, <1>18, <2>1, <2>3
  <2> QED
    BY <1>10, <2>2, <2>3
<1>20. AnchorIsFirst(y, dir)
  <2> SUFFICES y.anchor = dir[y.frames[1].file]
    BY DEF AnchorIsFirst
  <2>1. CASE size = 0
    <3>1. y.frames[1] = frame
      BY <1>9, <2>1
    <3> QED
      BY <1>5, <1>6, <1>7, <1>8, <2>1, <3>1
  <2>2. CASE size # 0
    <3>1. 1 \in 1..size /\ x.frames # << >>
      BY <1>8, <2>2 DEF size
    <3>2. x.anchor = dir[x.frames[1].file]
      BY <3>1 DEF FramesOf, AnchorIsFirst
    <3> QED
      BY <1>7, <1>9, <1>14, <3>1, <3>2
  <2> QED
    BY <2>1, <2>2
<1>21. NoneSkipped(y, dir)
  <2> SUFFICES ASSUME x.skipped = 0, NEW i \in 1..(size + 1)
               PROVE  y.frames[i].file = list[i]
    BY <1>7, <1>9 DEF NoneSkipped, list
  <2>1. CASE i \in 1..size
    <3>1. x.frames[i].file = list[i]
      BY <2>1 DEF FramesOf, NoneSkipped, size, list
    <3> QED
      BY <1>9, <2>1, <3>1
  <2>2. CASE i = size + 1
    <3>1. i = read + 1
      BY <1>8, <2>2
    <3> QED
      BY <1>6, <1>9, <2>2, <3>1 DEF file
  <2> QED
    BY <1>10, <2>1, <2>2
<1>22. FramesOf(y, dir, read + 1)
  BY <1>7, <1>15, <1>16, <1>17, <1>19, <1>20, <1>21 DEF FramesOf
<1> QED
  BY <1>22 DEF y

-----------------------------------------------------------------------------
\* What the GPS reader has when it has read all files.

ReadableFiles(dir) == { n \in DOMAIN dir : dir[n] # Malformed }
FarApart(f, g, dir) ==
  /\ f.file < g.file
  /\ f.time + SampleTime <= g.time
  /\ Difference(g.enu, f.enu) = Difference(dir[g.file], dir[f.file])
FarApartInTime(x, dir) ==
  \A i, k \in DOMAIN x.frames : i < k => FarApart(x.frames[i], x.frames[k], dir)

\* The time is that of the file name as long as no file is missing.
InTime(f, dir) == 0..f.file \subseteq DOMAIN dir => f.time = f.file * SampleTime
FramesInTime(x, dir) == \A i \in DOMAIN x.frames : InTime(x.frames[i], dir)

LEMMA RankOfNumber ==
  ASSUME NEW D \in SUBSET Nat, NEW n \in Nat, 0..n \subseteq D
  PROVE  Rank(D, n) = n
<1>1. Below(D, n) = 0..n - 1
  <2>1. ASSUME NEW m \in Below(D, n) PROVE m \in 0..n - 1
    BY <2>1 DEF Below
  <2>2. ASSUME NEW m \in 0..n - 1 PROVE m \in Below(D, n)
    <3>1. m \in 0..n /\ m < n
      BY <2>2
    <3> QED
      BY <3>1 DEF Below
  <2> QED
    BY <2>1, <2>2
<1>2. Cardinality(0..n - 1) = n
  <2>1. 0 \in Int /\ n - 1 \in Int
    OBVIOUS
  <2>2. Cardinality(0..n - 1) = IF 0 > n - 1 THEN 0 ELSE (n - 1) - 0 + 1
    BY <2>1, FS_Interval
  <2> QED
    BY <2>2
<1> QED
  BY <1>1, <1>2 DEF Rank

LEMMA FramesAreInTime ==
  ASSUME NEW dir, IsGpsDirectory(dir), NEW x, FramesOf(x, dir, Cardinality(DOMAIN dir))
  PROVE  FramesInTime(x, dir)
<1> DEFINE list == InNameOrder(dir)
           D == DOMAIN dir
<1>1. Lists(list, D) /\ Cardinality(D) \in Nat /\ D \in SUBSET Nat
  BY ListedInOrder, FS_CardinalityType DEF IsGpsDirectory
<1>2. x.frames \in Seq(Frame) /\ DOMAIN x.frames = 1..Len(x.frames)
  BY DEF FramesOf, GpsRecord, FrameLists
<1> SUFFICES ASSUME NEW i \in 1..Len(x.frames), 0..x.frames[i].file \subseteq D
             PROVE  x.frames[i].time = x.frames[i].file * SampleTime
  BY <1>2 DEF FramesInTime, InTime
<1>3. PICK a \in 1..Cardinality(D) : ReadFrom(x.frames[i], dir, x.anchor, a)
  BY DEF FramesOf, FramesAreRead
<1> HIDE DEF list, D
<1>4. x.frames[i].file = list[a] /\ x.frames[i].time = (a - 1) * SampleTime
  BY <1>3 DEF ReadFrom, list
<1>5. x.frames[i].file \in D /\ Rank(D, x.frames[i].file) = a - 1
  BY <1>1, <1>4 DEF Lists
<1>6. x.frames[i].file = a - 1
  BY <1>1, <1>5, RankOfNumber
<1> QED
  BY <1>4, <1>6

LEMMA AllFilesAreFrames ==
  ASSUME NEW dir, IsGpsDirectory(dir), NEW x, FramesOf(x, dir, Cardinality(DOMAIN dir))
  PROVE  { f.file : f \in ToSet(x.frames) } = ReadableFiles(dir)
<1> DEFINE list == InNameOrder(dir)
           size == Cardinality(DOMAIN dir)
<1>1. Lists(list, DOMAIN dir)
  BY ListedInOrder DEF IsGpsDirectory
<1>2. x.frames \in Seq(Frame) /\ DOMAIN x.frames = 1..Len(x.frames)
  BY DEF FramesOf, GpsRecord, FrameLists
<1>3. ToSet(x.frames) = { x.frames[i] : i \in 1..Len(x.frames) }
  BY <1>2 DEF ToSet
<1>4. ASSUME NEW i \in 1..Len(x.frames) PROVE x.frames[i].file \in ReadableFiles(dir)
  <2>1. PICK j \in 1..size : ReadFrom(x.frames[i], dir, x.anchor, j)
    BY DEF FramesOf, FramesAreRead
  <2> QED
    BY <1>1, <2>1 DEF ReadFrom, ReadableFiles, Lists
<1>5. ASSUME NEW n \in ReadableFiles(dir) PROVE \E i \in 1..Len(x.frames) : x.frames[i].file = n
  <2>1. PICK j \in 1..size : list[j] = n
    BY <1>1 DEF ReadableFiles, Lists
  <2> QED
    BY <2>1 DEF FramesOf, NoFrameLost, ReadableFiles
<1> QED
  BY <1>3, <1>4, <1>5

LEMMA OffsetsCancel ==
  ASSUME NEW p \in Int \X Int, NEW q \in Int \X Int, NEW o \in Int \X Int
  PROVE  Difference(Difference(q, o), Difference(p, o)) = Difference(q, p)
BY DEF Difference

LEMMA ProductGrows ==
  ASSUME NEW x \in Int, NEW y \in Int, NEW z \in Nat, x <= y
  PROVE  x * z <= y * z /\ x * z \in Int /\ y * z \in Int
<1>1. (y - x) * z >= 0 /\ (y - x) * z = y * z - x * z
  OBVIOUS
<1> QED
  BY <1>1

LEMMA LaterByASample ==
  ASSUME NEW a \in Int, NEW b \in Int, NEW s \in Nat, a < b
  PROVE  a * s \in Int /\ b * s \in Int /\ a * s + s <= b * s
<1>1. a + 1 \in Int /\ a + 1 <= b
  OBVIOUS
<1>2. (a + 1) * s <= b * s /\ (a + 1) * s \in Int /\ b * s \in Int
  BY <1>1, ProductGrows
<1>3. (a + 1) * s = a * s + s /\ a * s \in Int
  OBVIOUS
<1> QED
  BY <1>2, <1>3

LEMMA FramesAreFarApart ==
  ASSUME NEW dir, IsGpsDirectory(dir), NEW x, FramesOf(x, dir, Cardinality(DOMAIN dir))
  PROVE  FarApartInTime(x, dir)
<1> DEFINE list == InNameOrder(dir)
           D == DOMAIN dir
<1>1. Lists(list, D) /\ Cardinality(D) \in Nat /\ D \in SUBSET Nat /\ IsFiniteSet(D)
  BY ListedInOrder, FS_CardinalityType DEF IsGpsDirectory
<1>2. x.frames \in Seq(Frame) /\ DOMAIN x.frames = 1..Len(x.frames) /\ x.anchor \in Int \X Int
  BY DEF FramesOf, GpsRecord, FrameLists, Places
<1> SUFFICES ASSUME NEW i \in 1..Len(x.frames), NEW k \in 1..Len(x.frames), i < k
             PROVE  FarApart(x.frames[i], x.frames[k], dir)
  BY <1>2 DEF FarApartInTime
<1> DEFINE f == x.frames[i]
           g == x.frames[k]
<1>3. PICK a \in 1..Cardinality(D) : ReadFrom(f, dir, x.anchor, a)
  BY DEF FramesOf, FramesAreRead
<1>4. PICK b \in 1..Cardinality(D) : ReadFrom(g, dir, x.anchor, b)
  BY DEF FramesOf, FramesAreRead
<1>5. f.file < g.file
  BY DEF FramesOf, FramesInOrder
<1> HIDE DEF f, g, list, D
<1>6. /\ f.file = list[a] /\ f.time = (a - 1) * SampleTime
      /\ f.enu = Difference(dir[f.file], x.anchor) /\ dir[f.file] # Malformed
  BY <1>3 DEF ReadFrom, list
<1>7. /\ g.file = list[b] /\ g.time = (b - 1) * SampleTime
      /\ g.enu = Difference(dir[g.file], x.anchor) /\ dir[g.file] # Malformed
  BY <1>4 DEF ReadFrom, list
<1>8. f.file \in D /\ g.file \in D /\ Rank(D, f.file) = a - 1 /\ Rank(D, g.file) = b - 1
  BY <1>1, <1>6, <1>7 DEF Lists
<1>9. a \in Nat /\ b \in Nat /\ a - 1 < b - 1
  <2>1. Rank(D, f.file) < Rank(D, g.file)
    BY <1>1, <1>5, <1>8, RankGrows
  <2> QED
    BY <1>1, <1>8, <2>1
<1>10. f.time + SampleTime <= g.time
  <2> DEFINE p == a - 1
             q == b - 1
  <2>1. SampleTime \in Nat /\ p \in Int /\ q \in Int /\ p < q
    BY <1>9, RecordingAssumption
  <2>2. f.time = p * SampleTime /\ g.time = q * SampleTime
    BY <1>6, <1>7
  <2> HIDE DEF p, q
  <2>3. p * SampleTime + SampleTime <= q * SampleTime
    BY <2>1, LaterByASample
  <2> QED
    BY <2>2, <2>3
<1>11. Difference(g.enu, f.enu) = Difference(dir[g.file], dir[f.file])
  <2>1. dir[f.file] \in Int \X Int /\ dir[g.file] \in Int \X Int
    BY <1>6, <1>7, <1>8 DEF IsGpsDirectory, D
  <2> QED
    BY <1>2, <1>6, <1>7, <2>1, OffsetsCancel, SMTT(30)
<1> QED
  BY <1>5, <1>10, <1>11 DEF FarApart, f, g

LEMMA FirstIsOrigin ==
  ASSUME NEW dir, IsGpsDirectory(dir), NEW x, NEW read \in 0..Cardinality(DOMAIN dir),
         FramesOf(x, dir, read), x.frames # << >>
  PROVE  x.frames[1].enu = << 0, 0 >>
<1> DEFINE list == InNameOrder(dir)
           D == DOMAIN dir
<1>1. Lists(list, D) /\ Cardinality(D) \in Nat
  BY ListedInOrder, FS_CardinalityType DEF IsGpsDirectory
<1>2. x.frames \in Seq(Frame) /\ 1 \in 1..Len(x.frames)
  BY DEF FramesOf, GpsRecord, FrameLists
<1>3. PICK j \in 1..read : ReadFrom(x.frames[1], dir, x.anchor, j)
  BY <1>2 DEF FramesOf, FramesAreRead
<1> HIDE DEF list, D
<1>4. /\ x.frames[1].file = list[j] /\ dir[list[j]] # Malformed
      /\ x.frames[1].enu = Difference(dir[list[j]], x.anchor)
  BY <1>3 DEF ReadFrom, list
<1>5. j \in 1..Cardinality(D)
  BY <1>1 DEF D
<1>6. dir[list[j]] \in Int \X Int
  BY <1>1, <1>4, <1>5 DEF Lists, IsGpsDirectory, D
<1>7. x.anchor = dir[list[j]]
  BY <1>4 DEF FramesOf, AnchorIsFirst
<1> QED
  BY <1>4, <1>6, <1>7 DEF Difference

-----------------------------------------------------------------------------
\* What the LiDAR reader has after the first `read` files of a directory.

Scan == [file : Nat, index : Nat]
ScanLists == Seq(Scan)
ScanRecord == [frames : ScanLists, read : Nat, failed : Nat, mismatches : Nat]

IsScanDirectory(dir) == DOMAIN dir \subseteq Nat /\ IsFiniteSet(DOMAIN dir)

NoneFailed(x, dir) ==
  x.failed = 0 => \A i \in 1..Len(x.frames) : x.frames[i].file = InNameOrder(dir)[i]
ScansOf(x, dir, read) ==
  x \in ScanRecord /\ Len(x.frames) + x.failed = read /\ NoneFailed(x, dir)

LEMMA NoScansYet ==
  ASSUME NEW dir
  PROVE  ScansOf(NoScans, dir, 0)
BY DEF ScansOf, NoScans, ScanRecord, ScanLists, NoneFailed

Cut(x) == [x EXCEPT !.failed = @ + 1]
ReadWhole(x, dir, read) ==
  [x EXCEPT !.frames = Append(@, [file |-> InNameOrder(dir)[read + 1], index |-> read]),
            !.read = @ + 1,
            !.mismatches = @ + (IF dir[InNameOrder(dir)[read + 1]] = "mismatch" THEN 1 ELSE 0)]

LEMMA CutKeepsScans ==
  ASSUME NEW dir, NEW x, NEW read \in Nat, ScansOf(x, dir, read)
  PROVE  ScansOf(Cut(x), dir, read + 1)
<1> DEFINE y == Cut(x)
<1>1. x \in ScanRecord /\ x.failed + 1 \in Nat /\ x.frames \in Seq(Scan) /\ x.failed \in Nat
  BY DEF ScansOf, ScanRecord, ScanLists
<1>2. y \in ScanRecord /\ y.frames = x.frames /\ y.failed = x.failed + 1
  BY <1>1 DEF ScanRecord, Cut
<1> HIDE DEF y
<1>3. Len(y.frames) + y.failed = read + 1
  <2>1. Len(x.frames) \in Nat /\ Len(x.frames) + x.failed = read
    BY <1>1 DEF ScansOf
  <2> QED
    BY <1>1, <1>2, <2>1
<1>4. NoneFailed(y, dir)
  BY <1>1, <1>2 DEF NoneFailed
<1>5. ScansOf(y, dir, read + 1)
  BY <1>2, <1>3, <1>4 DEF ScansOf
<1> QED
  BY <1>5 DEF y

LEMMA ReadingKeepsScans ==
  ASSUME NEW dir, IsScanDirectory(dir), NEW x, NEW read \in 0..Cardinality(DOMAIN dir) - 1,
         ScansOf(x, dir, read)
  PROVE  ScansOf(ReadWhole(x, dir, read), dir, read + 1)
<1> DEFINE y == ReadWhole(x, dir, read)
           list == InNameOrder(dir)
           scan == [file |-> list[read + 1], index |-> read]
           more == IF dir[list[read + 1]] = "mismatch" THEN 1 ELSE 0
           size == Len(x.frames)
<1>1. Lists(list, DOMAIN dir) /\ Cardinality(DOMAIN dir) \in Nat
  BY ListedInOrder, FS_CardinalityType DEF IsScanDirectory
<1>2. /\ x \in ScanRecord /\ x.frames \in Seq(Scan) /\ x.failed \in Nat /\ x.read \in Nat
      /\ x.mismatches \in Nat /\ size \in Nat /\ size + x.failed = read
  BY DEF ScansOf, ScanRecord, ScanLists
<1>3. scan \in Scan /\ scan.file = list[read + 1]
  <2> HIDE DEF list
  <2>1. read \in Nat /\ read + 1 \in 1..Cardinality(DOMAIN dir)
    BY <1>1
  <2>2. list[read + 1] \in Nat
    BY <1>1, <2>1 DEF Lists, IsScanDirectory
  <2> QED
    BY <2>1, <2>2 DEF Scan
<1>4. more \in Nat
  OBVIOUS
<1>5. y = [x EXCEPT !.frames = Append(@, scan), !.read = @ + 1, !.mismatches = @ + more]
  BY DEF ReadWhole
<1> HIDE DEF y, scan, more
<1>6. Append(x.frames, scan) \in ScanLists /\ x.read + 1 \in Nat /\ x.mismatches + more \in Nat
  BY <1>2, <1>3, <1>4 DEF ScanLists
<1>7. y \in ScanRecord /\ y.frames = Append(x.frames, scan) /\ y.failed = x.failed
  BY <1>2, <1>5, <1>6 DEF ScanRecord
<1>8. /\ Len(y.frames) = size + 1 /\ y.frames[size + 1] = scan
      /\ \A i \in 1..size : y.frames[i] = x.frames[i]
  BY <1>2, <1>7
<1> HIDE DEF size, list
<1>9. NoneFailed(y, dir)
  <2> SUFFICES ASSUME x.failed = 0, NEW i \in 1..(size + 1)
               PROVE  y.frames[i].file = list[i]
    BY <1>7, <1>8 DEF NoneFailed, list
  <2>1. CASE i \in 1..size
    <3>1. x.frames[i].file = list[i]
      BY <2>1 DEF ScansOf, NoneFailed, size, list
    <3> QED
      BY <1>8, <2>1, <3>1
  <2>2. CASE i = size + 1
    <3>1. i = read + 1
      BY <1>2, <2>2
    <3> QED
      BY <1>3, <1>8, <2>2, <3>1
  <2>3. i \in 1..size \/ i = size + 1
    BY <1>2
  <2> QED
    BY <2>1, <2>2, <2>3
<1>10. Len(y.frames) + y.failed = read + 1
  BY <1>2, <1>7, <1>8
<1>11. ScansOf(y, dir, read + 1)
  BY <1>7, <1>9, <1>10 DEF ScansOf
<1> QED
  BY <1>11 DEF y

-----------------------------------------------------------------------------
\* The invariant of the drive.

DriveOK ==
  /\ drive \in [oxts : OxtsDirectories, velodyne : { << >> } \cup VelodyneDirectories]
  /\ reading \in [what : {"oxts", "velodyne"}, index : Nat]
GpsOK ==
  /\ reading.index <= Cardinality(DOMAIN drive.oxts)
  /\ lidar = NoScans
  /\ FramesOf(oxts, drive.oxts, reading.index)
LidarOK ==
  /\ drive.velodyne \in VelodyneDirectories
  /\ reading.index <= Cardinality(DOMAIN drive.velodyne)
  /\ FramesOf(oxts, drive.oxts, Cardinality(DOMAIN drive.oxts))
  /\ ScansOf(lidar, drive.velodyne, reading.index)

DriveInv ==
  /\ DriveOK
  /\ reading.what = "oxts" => GpsOK
  /\ reading.what = "velodyne" => LidarOK

LEMMA DriveInitial == SequenceInit => DriveInv
<1> SUFFICES ASSUME SequenceInit PROVE DriveInv
  OBVIOUS
<1>1. DriveOK /\ reading.what = "oxts" /\ reading.index = 0
  BY DEF SequenceInit, DriveOK, InList
<1>2. IsFiniteSet(DOMAIN drive.oxts)
  BY <1>1, RecordingAssumption DEF DriveOK
<1>3. Cardinality(DOMAIN drive.oxts) \in Nat
  BY <1>2, FS_CardinalityType
<1>4. GpsOK
  BY <1>1, <1>3, NoFramesYet DEF SequenceInit, GpsOK
<1> QED
  BY <1>1, <1>4 DEF DriveInv

\* Each reader sees the list of its own directory.
LEMMA Directories ==
  ASSUME DriveInv
  PROVE  /\ IsGpsDirectory(drive.oxts) /\ Cardinality(DOMAIN drive.oxts) \in Nat
         /\ Lists(InNameOrder(drive.oxts), DOMAIN drive.oxts)
         /\ reading.what = "oxts" => Files = InNameOrder(drive.oxts)
         /\ reading.what = "velodyne" =>
              /\ Files = InNameOrder(drive.velodyne)
              /\ IsScanDirectory(drive.velodyne) /\ Cardinality(DOMAIN drive.velodyne) \in Nat
              /\ Lists(InNameOrder(drive.velodyne), DOMAIN drive.velodyne)
<1>1. IsGpsDirectory(drive.oxts)
  BY RecordingAssumption DEF DriveInv, DriveOK, IsGpsDirectory
<1>2. Cardinality(DOMAIN drive.oxts) \in Nat /\ Lists(InNameOrder(drive.oxts), DOMAIN drive.oxts)
  BY <1>1, FS_CardinalityType, ListedInOrder DEF IsGpsDirectory
<1>3. reading.what = "oxts" => Files = InNameOrder(drive.oxts)
  BY DEF Files
<1>4. ASSUME reading.what = "velodyne"
      PROVE  /\ Files = InNameOrder(drive.velodyne)
             /\ IsScanDirectory(drive.velodyne) /\ Cardinality(DOMAIN drive.velodyne) \in Nat
             /\ Lists(InNameOrder(drive.velodyne), DOMAIN drive.velodyne)
  <2>1. Files = InNameOrder(drive.velodyne)
    BY <1>4 DEF Files
  <2>2. IsScanDirectory(drive.velodyne)
    BY <1>4, RecordingAssumption DEF DriveInv, LidarOK, IsScanDirectory
  <2> QED
    BY <2>1, <2>2, FS_CardinalityType, ListedInOrder DEF IsScanDirectory
<1> QED
  BY <1>1, <1>2, <1>3, <1>4

LEMMA SkipKeepsDrive ==
  ASSUME DriveInv, SkipFile
  PROVE  DriveInv'
<1> DEFINE dir == drive.oxts
<1>1. /\ reading.what = "oxts" /\ IsGpsDirectory(dir) /\ Cardinality(DOMAIN dir) \in Nat
      /\ Lists(InNameOrder(dir), DOMAIN dir) /\ Files = InNameOrder(dir)
      /\ reading.index < Len(Files)
  BY Directories DEF SkipFile, HasFile
<1>2. /\ reading.index \in 0..Cardinality(DOMAIN dir) - 1
      /\ FramesOf(oxts, dir, reading.index) /\ lidar = NoScans
  BY <1>1 DEF DriveInv, DriveOK, GpsOK, Lists
<1>3. dir[InNameOrder(dir)[reading.index + 1]] = Malformed /\ oxts' = Skipped(oxts)
  BY <1>1 DEF SkipFile, DriveFile, Skipped
<1>4. FramesOf(oxts', dir, reading.index + 1)
  BY <1>1, <1>2, <1>3, SkippingKeepsFrames
<1>5. drive' = drive /\ lidar' = lidar /\ reading' = [what |-> "oxts", index |-> reading.index + 1]
  BY <1>1 DEF SkipFile, NextDriveFile, InList
<1>6. DriveOK'
  BY <1>5 DEF DriveInv, DriveOK
<1>7. GpsOK'
  BY <1>1, <1>2, <1>4, <1>5 DEF GpsOK
<1> QED
  BY <1>5, <1>6, <1>7 DEF DriveInv

LEMMA ParseKeepsDrive ==
  ASSUME DriveInv, ParseFile
  PROVE  DriveInv'
<1> DEFINE dir == drive.oxts
<1>1. /\ reading.what = "oxts" /\ IsGpsDirectory(dir) /\ Cardinality(DOMAIN dir) \in Nat
      /\ Lists(InNameOrder(dir), DOMAIN dir) /\ Files = InNameOrder(dir)
      /\ reading.index < Len(Files)
  BY Directories DEF ParseFile, HasFile
<1>2. /\ reading.index \in 0..Cardinality(DOMAIN dir) - 1
      /\ FramesOf(oxts, dir, reading.index) /\ lidar = NoScans
  BY <1>1 DEF DriveInv, DriveOK, GpsOK, Lists
<1>3. dir[InNameOrder(dir)[reading.index + 1]] # Malformed
  BY <1>1 DEF ParseFile, DriveFile
<1>4. oxts' = Parsed(oxts, dir, reading.index)
  <2>1. DriveFile = InNameOrder(dir)[reading.index + 1]
    BY <1>1 DEF DriveFile
  <2> QED
    BY <2>1 DEF ParseFile, Parsed, FrameOf, AnchorFor, AnchorOf, Timestamp
<1>5. FramesOf(oxts', dir, reading.index + 1)
  BY <1>1, <1>2, <1>3, <1>4, ParsingKeepsFrames
<1>6. drive' = drive /\ lidar' = lidar /\ reading' = [what |-> "oxts", index |-> reading.index + 1]
  BY <1>1 DEF ParseFile, NextDriveFile, InList
<1>7. DriveOK'
  BY <1>6 DEF DriveInv, DriveOK
<1>8. GpsOK'
  BY <1>1, <1>2, <1>5, <1>6 DEF GpsOK
<1> QED
  BY <1>6, <1>7, <1>8 DEF DriveInv

LEMMA StartKeepsDrive ==
  ASSUME DriveInv, StartScans
  PROVE  DriveInv'
<1>1. PICK scans \in VelodyneDirectories : drive' = [drive EXCEPT !.velodyne = scans]
  BY DEF StartScans
<1>2. /\ reading.what = "oxts" /\ reading' = [what |-> "velodyne", index |-> 0]
      /\ oxts' = oxts /\ lidar' = lidar /\ ~(reading.index < Len(Files))
  BY DEF StartScans, HasFile, InList
<1>3. drive'.oxts = drive.oxts /\ drive'.velodyne = scans /\ DriveOK'
  BY <1>1, <1>2 DEF DriveInv, DriveOK
<1>4. Len(Files) = Cardinality(DOMAIN drive.oxts) /\ Cardinality(DOMAIN drive.oxts) \in Nat
  BY <1>2, Directories DEF Lists
<1>5. reading.index = Cardinality(DOMAIN drive.oxts)
  BY <1>2, <1>4 DEF DriveInv, DriveOK, GpsOK
<1>6. /\ FramesOf(oxts, drive.oxts, Cardinality(DOMAIN drive.oxts))
      /\ lidar = NoScans
  BY <1>2, <1>5 DEF DriveInv, GpsOK
<1>7. Cardinality(DOMAIN scans) \in Nat
  BY RecordingAssumption, FS_CardinalityType
<1>8. LidarOK'
  BY <1>2, <1>3, <1>6, <1>7, NoScansYet DEF LidarOK
<1> QED
  BY <1>2, <1>3, <1>8 DEF DriveInv

LEMMA ScanKeepsDrive ==
  ASSUME DriveInv, ReadScan
  PROVE  DriveInv'
<1> DEFINE dir == drive.velodyne
<1>1. /\ reading.what = "velodyne" /\ IsScanDirectory(dir) /\ Cardinality(DOMAIN dir) \in Nat
      /\ Lists(InNameOrder(dir), DOMAIN dir) /\ Files = InNameOrder(dir)
      /\ reading.index < Len(Files)
  BY Directories DEF ReadScan, HasFile
<1>2. /\ reading.index \in 0..Cardinality(DOMAIN dir) - 1
      /\ dir \in VelodyneDirectories
      /\ FramesOf(oxts, drive.oxts, Cardinality(DOMAIN drive.oxts))
      /\ ScansOf(lidar, dir, reading.index)
  BY <1>1 DEF DriveInv, DriveOK, LidarOK, Lists
<1>3. lidar' = Cut(lidar) \/ lidar' = ReadWhole(lidar, dir, reading.index)
  <2>1. DriveFile = InNameOrder(dir)[reading.index + 1]
    BY <1>1 DEF DriveFile
  <2> QED
    BY <2>1 DEF ReadScan, Cut, ReadWhole
<1>4. ScansOf(lidar', dir, reading.index + 1)
  <2>1. reading.index \in Nat
    BY <1>2
  <2> QED
    BY <1>1, <1>2, <1>3, <2>1, CutKeepsScans, ReadingKeepsScans
<1>5. /\ drive' = drive /\ oxts' = oxts
      /\ reading' = [what |-> "velodyne", index |-> reading.index + 1]
  BY <1>1 DEF ReadScan, NextDriveFile, InList
<1>6. DriveOK'
  BY <1>5 DEF DriveInv, DriveOK
<1>7. LidarOK'
  BY <1>1, <1>2, <1>4, <1>5 DEF LidarOK
<1> QED
  BY <1>5, <1>6, <1>7 DEF DriveInv

LEMMA DriveStep == DriveInv /\ [SequenceNext]_sequenceVars => DriveInv'
<1> SUFFICES ASSUME DriveInv, [SequenceNext]_sequenceVars PROVE DriveInv'
  OBVIOUS
<1>1. CASE SkipFile
  BY <1>1, SkipKeepsDrive
<1>2. CASE ParseFile
  BY <1>2, ParseKeepsDrive
<1>3. CASE StartScans
  BY <1>3, StartKeepsDrive
<1>4. CASE ReadScan
  BY <1>4, ScanKeepsDrive
<1>5. CASE UNCHANGED sequenceVars
  BY <1>5 DEF sequenceVars, DriveInv, DriveOK, GpsOK, LidarOK
<1> QED
  BY <1>1, <1>2, <1>3, <1>4, <1>5 DEF SequenceNext

-----------------------------------------------------------------------------
\* What the invariant says of a loaded sequence.

LEMMA PairsAreSound ==
  ASSUME DriveInv, Loaded, oxts.skipped = 0, lidar.failed = 0,
         DOMAIN drive.oxts = DOMAIN drive.velodyne
  PROVE  PairsShareAnIndex /\ TotalFrames = FrameCount
<1> DEFINE list == InNameOrder(drive.oxts)
           size == Cardinality(DOMAIN drive.oxts)
<1>1. /\ reading.what = "velodyne" /\ size \in Nat
      /\ Files = InNameOrder(drive.velodyne)
      /\ Lists(InNameOrder(drive.velodyne), DOMAIN drive.velodyne)
      /\ ~(reading.index < Len(Files))
  BY Directories DEF Loaded, HasFile
<1>2. InNameOrder(drive.velodyne) = list
  BY OrderOfNumbers
<1>3. reading.index = size
  <2>1. Len(Files) = size
    BY <1>1 DEF Lists
  <2> HIDE DEF size
  <2>2. reading.index <= size /\ reading.index \in Nat
    BY <1>1 DEF DriveInv, DriveOK, LidarOK, size
  <2> QED
    BY <1>1, <2>1, <2>2
<1>4. FramesOf(oxts, drive.oxts, size) /\ ScansOf(lidar, drive.velodyne, size)
  BY <1>1, <1>3 DEF DriveInv, LidarOK
<1> HIDE DEF list, size
<1>5. /\ oxts.frames \in Seq(Frame) /\ Len(oxts.frames) = size
      /\ \A i \in 1..size : oxts.frames[i].file = list[i]
  BY <1>1, <1>4 DEF FramesOf, GpsRecord, FrameLists, CountsFiles, NoneSkipped, list
<1>6. /\ lidar.frames \in Seq(Scan) /\ Len(lidar.frames) = size
      /\ \A i \in 1..size : lidar.frames[i].file = list[i]
  BY <1>1, <1>2, <1>4 DEF ScansOf, ScanRecord, ScanLists, NoneFailed
<1>7. Max({size, size}) = size /\ Min({size, size}) = size
  BY <1>1 DEF Max, Min
<1>8. TotalFrames = size /\ FrameCount = size
  BY <1>5, <1>6, <1>7 DEF TotalFrames, FrameCount
<1>9. PairsShareAnIndex
  BY <1>5, <1>6, <1>8 DEF PairsShareAnIndex, GetFrame
<1> QED
  BY <1>8, <1>9

LEMMA DriveIsSound == DriveInv => FramesKeepTheirTime
<1> SUFFICES ASSUME DriveInv PROVE FramesKeepTheirTime
  OBVIOUS
<1> DEFINE dir == drive.oxts
<1>1. IsGpsDirectory(dir) /\ Cardinality(DOMAIN dir) \in Nat
  BY Directories
<1>2. ASSUME reading.what = "velodyne"
      PROVE  /\ { f.file : f \in ToSet(oxts.frames) } = ReadableFiles(dir)
             /\ oxts.parsed + oxts.skipped = Cardinality(DOMAIN dir)
             /\ FramesInTime(oxts, dir) /\ FarApartInTime(oxts, dir)
  <2>1. FramesOf(oxts, dir, Cardinality(DOMAIN dir))
    BY <1>2 DEF DriveInv, LidarOK
  <2>2. oxts.parsed + oxts.skipped = Cardinality(DOMAIN dir)
    BY <2>1 DEF FramesOf, CountsFiles
  <2> QED
    BY <1>1, <2>1, <2>2, AllFilesAreFrames, FramesAreInTime, FramesAreFarApart
<1>3. ASSUME oxts.frames # << >> PROVE oxts.frames[1].enu = << 0, 0 >>
  <2>1. reading.index \in Nat /\ reading.what \in {"oxts", "velodyne"}
    BY DEF DriveInv, DriveOK
  <2>2. CASE reading.what = "oxts"
    <3>1. reading.index \in 0..Cardinality(DOMAIN dir) /\ FramesOf(oxts, dir, reading.index)
      BY <1>1, <2>1, <2>2 DEF DriveInv, GpsOK
    <3> QED
      BY <1>1, <1>3, <3>1, FirstIsOrigin
  <2>3. CASE reading.what = "velodyne"
    <3>1. /\ Cardinality(DOMAIN dir) \in 0..Cardinality(DOMAIN dir)
          /\ FramesOf(oxts, dir, Cardinality(DOMAIN dir))
      BY <1>1, <2>3 DEF DriveInv, LidarOK
    <3> QED
      BY <1>1, <1>3, <3>1, FirstIsOrigin
  <2> QED
    BY <2>1, <2>2, <2>3
<1> HIDE DEF dir
<1> QED
  BY <1>2, <1>3, PairsAreSound
     DEF FramesKeepTheirTime, NoneMissing, ReadableFiles, FramesInTime, InTime, FarApartInTime, FarApart, dir

\* Whatever GPS files are malformed or missing: the frames of a drive are the files that could
\* be read, in their order and place, a sample time or more apart; each has the time of its
\* index where no file before it is missing, and shares the index of its scan where nothing
\* was left out.
THEOREM DriveKeepsTime == SequenceSpec => []FramesKeepTheirTime
<1>1. SequenceInit => DriveInv
  BY DriveInitial
<1>2. DriveInv /\ [SequenceNext]_sequenceVars => DriveInv'
  BY DriveStep
<1>3. DriveInv => FramesKeepTheirTime
  BY DriveIsSound
<1> QED
  BY <1>1, <1>2, <1>3, PTL DEF SequenceSpec

-----------------------------------------------------------------------------
\* The search for a shortest path.

RoadNodes == DOMAIN graph.nodes
RoadEdges == DOMAIN graph.edges

\* What the search needs of a graph: edges between its nodes, as long as a number tells,
\* and each in the list of the node that it leaves.
IsList(s) == Len(s) \in Nat /\ s = [i \in 1..Len(s) |-> s[i]]

EdgesFit(g) ==
  \A e \in DOMAIN g.edges :
    g.edges[e].from \in DOMAIN g.nodes /\ g.edges[e].to \in DOMAIN g.nodes /\ g.edges[e].length \in Nat
ListsFit(g) ==
  \A n \in DOMAIN g.nodes :
    /\ g.adjacency[n] \in Seq(DOMAIN g.edges)
    /\ \A e \in DOMAIN g.edges : g.edges[e].from = n => \E i \in DOMAIN g.adjacency[n] : g.adjacency[n][i] = e
    /\ \A i \in DOMAIN g.adjacency[n] : g.edges[g.adjacency[n][i]].from = n
\* What the matching needs: edges that run from a place to a place.
LinesFit(g) ==
  /\ IsList(g.edges)
  /\ \A e \in 1..Len(g.edges) : g.edges[e].polyline[1] \in Int \X Int /\ g.edges[e].polyline[2] \in Int \X Int
GraphFits == IsList(graph.nodes) /\ EdgesFit(graph) /\ ListsFit(graph) /\ LinesFit(graph)

Distances == [RoadNodes -> Nat \cup {Unreached}]
Searches ==
  [phase : {"search", "trace", "found", "unreachable"}, source : RoadNodes, target : RoadNodes,
   nodes : Seq(RoadNodes), at : RoadNodes \cup {0}, queue : SUBSET (Nat \X RoadNodes),
   prev : [RoadNodes -> RoadNodes \cup {0}], dist : Distances]

Reached(s, n) == s.dist[n] # Unreached

\* All edges out of n were looked at with its distance.
Closed(s, n) ==
  \A e \in RoadEdges : graph.edges[e].from = n =>
    Reached(s, graph.edges[e].to) /\ s.dist[graph.edges[e].to] <= s.dist[n] + graph.edges[e].length

\* A way from the source to n against the predecessors, over nodes of D.
ByEdge(s, a, b) == \E e \in Edge(a, b) : s.dist[b] = s.dist[a] + graph.edges[e].length
Trail(s, D, w, n) ==
  /\ w \in Seq(RoadNodes) /\ Len(w) >= 1 /\ w[1] = s.source /\ w[Len(w)] = n /\ IsInjective(w)
  /\ \A i \in 1..Len(w) - 1 : w[i] \in D /\ s.prev[w[i + 1]] = w[i] /\ ByEdge(s, w[i], w[i + 1])
HasTrail(s, D, n) == \E w : Trail(s, D, w, n)

\* D are the nodes that were taken out of the queue, none of them farther than b, and
\* what is in the queue is not closer.
QueueFits(s, b) == \A p \in s.queue : b <= p[1] /\ Reached(s, p[2]) /\ s.dist[p[2]] <= p[1]
NotForgotten(s, D) == \A n \in RoadNodes : Reached(s, n) => n \in D \/ << s.dist[n], n >> \in s.queue
DoneFits(s, D, b) == \A n \in D : Reached(s, n) /\ s.dist[n] <= b
TrailsFit(s, D) == \A n \in RoadNodes : Reached(s, n) => HasTrail(s, D, n)
Frontier(s, D, b) ==
  /\ s \in Searches /\ D \in SUBSET RoadNodes /\ b \in Nat
  /\ s.dist[s.source] = 0
  /\ QueueFits(s, b) /\ NotForgotten(s, D) /\ DoneFits(s, D, b) /\ TrailsFit(s, D)

AllClosed(s, D) == \A n \in D : Closed(s, n)
Searching(s) == \E D, b : Frontier(s, D, b) /\ AllClosed(s, D) /\ s.target \notin D

-----------------------------------------------------------------------------
\* The first entry of the queue.

LEMMA LeastNumber ==
  ASSUME NEW S \in SUBSET Nat, S # {}
  PROVE  \E n \in S : \A m \in S : n <= m
<1>1. PICK n \in S : \A m \in S : ~(<<m, n>> \in OpToRel(<, Nat))
  BY NatLessThanWellFounded, WFMin
<1>2. ASSUME NEW m \in S PROVE n <= m
  <2>1. n \in Nat /\ m \in Nat
    OBVIOUS
  <2>2. ~(m < n)
    BY <1>1, <2>1 DEF OpToRel
  <2> QED
    BY <2>1, <2>2
<1> QED
  BY <1>2

LEMMA MinIsLeast ==
  ASSUME NEW S \in SUBSET Nat, S # {}
  PROVE  Min(S) \in S /\ \A m \in S : Min(S) <= m
BY LeastNumber DEF Min

LEMMA FirstEntry ==
  ASSUME NEW N \in SUBSET Nat, NEW Q \in SUBSET (Nat \X N), Q # {}
  PROVE  \E p \in Q : \A q \in Q : Earlier(p, q)
<1> DEFINE D == { p[1] : p \in Q }
<1>1. D \in SUBSET Nat /\ D # {}
  OBVIOUS
<1> HIDE DEF D
<1>2. PICK d \in D : \A m \in D : d <= m
  BY <1>1, LeastNumber
<1> DEFINE M == { p[2] : p \in { q \in Q : q[1] = d } }
<1>3. M \in SUBSET Nat /\ M # {}
  BY DEF D
<1> HIDE DEF M
<1>4. PICK n \in M : \A m \in M : n <= m
  BY <1>3, LeastNumber
<1>5. PICK p \in Q : p[1] = d /\ p[2] = n
  BY <1>4 DEF M
<1>6. ASSUME NEW q \in Q PROVE Earlier(p, q)
  <2>1. q[1] \in D /\ d \in Nat /\ q[1] \in Nat
    BY <1>1 DEF D
  <2>2. d <= q[1]
    BY <1>2, <2>1
  <2>3. CASE q[1] = d
    <3>1. q[2] \in M
      BY <2>3 DEF M
    <3> QED
      BY <1>4, <1>5, <2>3, <3>1 DEF Earlier
  <2>4. CASE q[1] # d
    BY <1>5, <2>1, <2>2, <2>4 DEF Earlier
  <2> QED
    BY <2>3, <2>4
<1> QED
  BY <1>6

LEMMA TopIsFirst ==
  ASSUME IsList(graph.nodes), search \in Searches, search.queue # {}
  PROVE  /\ Top \in search.queue /\ Top \in Nat \X RoadNodes
         /\ \A p \in search.queue : Top[1] <= p[1]
<1>1. RoadNodes \in SUBSET Nat
  BY DEF RoadNodes, IsList
<1>2. search.queue \in SUBSET (Nat \X RoadNodes)
  BY DEF Searches
<1>3. \E p \in search.queue : \A q \in search.queue : Earlier(p, q)
  BY <1>1, <1>2, FirstEntry
<1>4. Top \in search.queue /\ \A q \in search.queue : Earlier(Top, q)
  BY <1>3 DEF Top
<1>5. ASSUME NEW p \in search.queue PROVE Top[1] <= p[1]
  <2>1. p[1] \in Nat /\ Top[1] \in Nat
    BY <1>2, <1>4
  <2> QED
    BY <1>4, <2>1 DEF Earlier
<1> QED
  BY <1>2, <1>4, <1>5

-----------------------------------------------------------------------------
\* One edge is looked at.

LEMMA TrailWithin ==
  ASSUME NEW s, NEW D, NEW E, D \subseteq E, NEW n, HasTrail(s, D, n)
  PROVE  HasTrail(s, E, n)
<1>1. PICK w : Trail(s, D, w, n)
  BY DEF HasTrail
<1>2. Trail(s, E, w, n)
  BY <1>1 DEF Trail
<1> QED
  BY <1>2 DEF HasTrail

\* A trail over nodes that keep their distances and predecessors is still one.
LEMMA TrailStays ==
  ASSUME NEW s, NEW t, NEW D, NEW n, HasTrail(s, D, n), t.source = s.source,
         \A k \in D \cup {n} : t.dist[k] = s.dist[k] /\ t.prev[k] = s.prev[k]
  PROVE  HasTrail(t, D, n)
<1>1. PICK w : Trail(s, D, w, n)
  BY DEF HasTrail
<1>2. Len(w) \in Nat
  BY <1>1, LenProperties DEF Trail
<1>3. ASSUME NEW i \in 1..Len(w) - 1
      PROVE  w[i] \in D /\ t.prev[w[i + 1]] = w[i] /\ ByEdge(t, w[i], w[i + 1])
  <2>1. w[i] \in D /\ s.prev[w[i + 1]] = w[i] /\ ByEdge(s, w[i], w[i + 1])
    BY <1>1 DEF Trail
  <2>2. w[i + 1] \in D \cup {n}
    <3>1. CASE i + 1 = Len(w)
      BY <1>1, <3>1 DEF Trail
    <3>2. CASE i + 1 # Len(w)
      <4>1. i + 1 \in 1..Len(w) - 1
        BY <1>2, <3>2
      <4> QED
        BY <1>1, <4>1 DEF Trail
    <3> QED
      BY <3>1, <3>2
  <2>3. t.dist[w[i]] = s.dist[w[i]] /\ t.dist[w[i + 1]] = s.dist[w[i + 1]] /\ t.prev[w[i + 1]] = s.prev[w[i + 1]]
    BY <2>1, <2>2
  <2> QED
    BY <2>1, <2>3 DEF ByEdge
<1>4. Trail(t, D, w, n)
  BY <1>1, <1>3 DEF Trail
<1> QED
  BY <1>4 DEF HasTrail

\* A trail to a node of D goes on to a node that is not.
LEMMA TrailGoesOn ==
  ASSUME NEW s, NEW D \in SUBSET RoadNodes, NEW a \in D, NEW b \in RoadNodes \ D, HasTrail(s, D, a),
         s.prev[b] = a, ByEdge(s, a, b)
  PROVE  HasTrail(s, D, b)
<1>1. PICK w : Trail(s, D, w, a)
  BY DEF HasTrail
<1> DEFINE v == Append(w, b)
<1>2. /\ w \in Seq(RoadNodes) /\ Len(w) \in Nat /\ Len(w) >= 1 /\ DOMAIN w = 1..Len(w)
      /\ w[1] = s.source /\ w[Len(w)] = a /\ IsInjective(w)
  BY <1>1, LenProperties DEF Trail
<1>0. Len(w) \in Nat
  BY <1>2
<1>3. /\ v \in Seq(RoadNodes) /\ Len(v) = Len(w) + 1 /\ v[Len(w) + 1] = b
      /\ \A i \in 1..Len(w) : v[i] = w[i]
  BY <1>2, AppendProperties
<1>4. DOMAIN v = 1..Len(w) + 1
  BY <1>3, LenProperties, SMTT(30)
<1> HIDE DEF v
<1>5. \A i \in 1..Len(w) : w[i] \in D
  <2> SUFFICES ASSUME NEW i \in 1..Len(w) PROVE w[i] \in D
    OBVIOUS
  <2>1. i = Len(w) \/ i \in 1..Len(w) - 1
    BY <1>0
  <2> QED
    BY <1>1, <1>2, <2>1, Zenon DEF Trail
<1>6. IsInjective(v)
  <2> SUFFICES ASSUME NEW i \in 1..Len(w) + 1, NEW k \in 1..Len(w) + 1, v[i] = v[k] PROVE i = k
    BY <1>4 DEF IsInjective
  <2>1. i \in 1..Len(w) \/ i = Len(w) + 1
    BY <1>2
  <2>2. k \in 1..Len(w) \/ k = Len(w) + 1
    BY <1>2
  <2>3. CASE i \in 1..Len(w) /\ k \in 1..Len(w)
    BY <1>2, <1>3, <2>3 DEF IsInjective
  <2> QED
    BY <1>3, <1>5, <2>1, <2>2, <2>3
<1>7. ASSUME NEW i \in 1..Len(v) - 1
      PROVE  v[i] \in D /\ s.prev[v[i + 1]] = v[i] /\ ByEdge(s, v[i], v[i + 1])
  <2>1. i \in 1..Len(w)
    BY <1>2, <1>3
  <2>2. CASE i = Len(w)
    BY <1>2, <1>3, <1>5, <2>1, <2>2
  <2>3. CASE i # Len(w)
    <3>1. i \in 1..Len(w) - 1 /\ i + 1 \in 1..Len(w)
      BY <1>0, <2>1, <2>3
    <3>2. v[i] = w[i] /\ v[i + 1] = w[i + 1]
      BY <1>3, <3>1, <2>1
    <3> QED
      BY <1>1, <3>1, <3>2 DEF Trail
  <2> QED
    BY <2>2, <2>3
<1>8. v[1] = s.source /\ v[Len(v)] = b /\ Len(v) >= 1
  BY <1>2, <1>3
<1>9. Trail(s, D, v, b)
  BY <1>3, <1>6, <1>7, <1>8 DEF Trail
<1> QED
  BY <1>9 DEF HasTrail

SameCall(s, t) ==
  t.phase = s.phase /\ t.source = s.source /\ t.target = s.target /\ t.nodes = s.nodes /\ t.at = s.at
NoFarther(s, t, D) ==
  /\ \A n \in RoadNodes : Reached(s, n) => Reached(t, n) /\ t.dist[n] <= s.dist[n]
  /\ \A n \in D : t.dist[n] = s.dist[n]
LookedAt(s, e) ==
  Reached(s, graph.edges[e].to) /\ s.dist[graph.edges[e].to] <= s.dist[graph.edges[e].from] + graph.edges[e].length

\* A node that gets a distance is none of those that are done.
LEMMA RelaxStep ==
  ASSUME EdgesFit(graph), NEW s, NEW D, NEW d, Frontier(s, D, d),
         NEW e \in RoadEdges, graph.edges[e].from \in D, s.dist[graph.edges[e].from] = d
  PROVE  LET t == Relax(s, e, d)
         IN  Frontier(t, D, d) /\ SameCall(s, t) /\ NoFarther(s, t, D) /\ LookedAt(t, e)
<1> DEFINE u == graph.edges[e].from
           m == graph.edges[e].to
           nd == d + graph.edges[e].length
           t == Relax(s, e, d)
<1>1. u \in RoadNodes /\ m \in RoadNodes /\ graph.edges[e].length \in Nat /\ d \in Nat /\ nd \in Nat
      /\ s \in Searches /\ D \in SUBSET RoadNodes
  BY DEF EdgesFit, RoadEdges, RoadNodes, Frontier
<1>2. s.dist \in Distances /\ s.prev \in [RoadNodes -> RoadNodes \cup {0}]
      /\ \A n \in RoadNodes : s.dist[n] \in Int /\ (Reached(s, n) => s.dist[n] \in Nat)
  <2>1. s.dist \in Distances /\ s.prev \in [RoadNodes -> RoadNodes \cup {0}]
    BY <1>1 DEF Searches
  <2>2. \A n \in RoadNodes : s.dist[n] \in Nat \cup {Unreached}
    BY <2>1 DEF Distances
  <2>3. Unreached \in Int
    BY DEF Unreached
  <2> QED
    BY <2>1, <2>2, <2>3 DEF Reached
<1>3. CASE s.dist[m] # Unreached /\ nd >= s.dist[m]
  <2>1. t = s
    BY <1>3 DEF Relax
  <2>2. LookedAt(s, e)
    BY <1>1, <1>2, <1>3 DEF LookedAt, Reached
  <2>3. SameCall(s, s) /\ NoFarther(s, s, D)
    BY <1>1, <1>2 DEF SameCall, NoFarther
  <2> HIDE DEF t
  <2>4. Frontier(t, D, d) /\ SameCall(s, t) /\ NoFarther(s, t, D) /\ LookedAt(t, e)
    BY <2>1, <2>2, <2>3
  <2> QED
    BY <2>4 DEF t
<1>4. CASE ~(s.dist[m] # Unreached /\ nd >= s.dist[m])
  <2>1. t = [s EXCEPT !.dist[m] = nd, !.prev[m] = u, !.queue = @ \cup {<< nd, m >>}]
    BY <1>4 DEF Relax
  <2>2. /\ t.dist = [s.dist EXCEPT ![m] = nd] /\ t.prev = [s.prev EXCEPT ![m] = u]
        /\ t.queue = s.queue \cup {<< nd, m >>}
        /\ SameCall(s, t)
    BY <1>1, <2>1 DEF Searches, SameCall
  <2>3. t \in Searches
    <3>1. t.dist \in Distances
      BY <1>1, <1>2, <2>2 DEF Distances
    <3>2. t.prev \in [RoadNodes -> RoadNodes \cup {0}]
      BY <1>1, <1>2, <2>2
    <3>3. t.queue \in SUBSET (Nat \X RoadNodes)
      BY <1>1, <2>2 DEF Searches
    <3>4. t = [s EXCEPT !.dist = t.dist, !.prev = t.prev, !.queue = t.queue]
      BY <1>1, <2>1, <2>2 DEF Searches
    <3> HIDE DEF t
    <3> DEFINE P == [RoadNodes -> RoadNodes \cup {0}]
               Q == SUBSET (Nat \X RoadNodes)
               PHASES == {"search", "trace", "found", "unreachable"}
               S == Seq(RoadNodes)
               A == RoadNodes \cup {0}
    <3>5. s \in [phase : PHASES, source : RoadNodes, target : RoadNodes, nodes : S, at : A, queue : Q,
                 prev : P, dist : Distances]
      BY <1>1 DEF Searches
    <3>6. t.prev \in P /\ t.queue \in Q
      BY <3>2, <3>3
    <3>7. t \in [phase : PHASES, source : RoadNodes, target : RoadNodes, nodes : S, at : A, queue : Q,
                 prev : P, dist : Distances]
      <4> HIDE DEF P, Q, S, A, PHASES
      <4> QED
        BY <3>1, <3>4, <3>5, <3>6
    <3> QED
      BY <3>7 DEF Searches
  <2> HIDE DEF t
  <2>4. t.dist[m] = nd /\ t.prev[m] = u /\ \A n \in RoadNodes \ {m} : t.dist[n] = s.dist[n] /\ t.prev[n] = s.prev[n]
    BY <1>1, <1>2, <2>2 DEF Distances
  <2>5. m \notin D /\ m # s.source /\ m # u
    <3>1. u \in D /\ s.dist[u] = d
      OBVIOUS
    <3>2. \A n \in D : Reached(s, n) /\ s.dist[n] <= d
      BY DEF Frontier, DoneFits
    <3>3. m \notin D
      <4> SUFFICES ASSUME m \in D PROVE FALSE
        OBVIOUS
      <4>1. s.dist[m] # Unreached /\ s.dist[m] <= d /\ s.dist[m] \in Int
        BY <1>1, <1>2, <3>2 DEF Reached
      <4> QED
        BY <1>1, <1>4, <4>1
    <3>4. m # s.source
      <4>1. s.dist[s.source] = 0 /\ 0 # Unreached
        BY DEF Frontier, Unreached
      <4> QED
        BY <1>1, <1>4, <4>1
    <3> QED
      BY <3>1, <3>3, <3>4
  <2>6. \A n \in RoadNodes : Reached(s, n) => Reached(t, n) /\ t.dist[n] <= s.dist[n]
    <3> SUFFICES ASSUME NEW n \in RoadNodes, Reached(s, n) PROVE Reached(t, n) /\ t.dist[n] <= s.dist[n]
      OBVIOUS
    <3>1. nd # Unreached
      BY <1>1 DEF Unreached
    <3> QED
      BY <1>1, <1>2, <1>4, <2>4, <3>1 DEF Reached
  <2>7. NoFarther(s, t, D)
    BY <1>1, <2>4, <2>5, <2>6 DEF NoFarther
  <2>8. Reached(t, m) /\ LookedAt(t, e)
    <3>1. t.dist[u] = d
      BY <1>1, <2>4, <2>5
    <3>2. nd # Unreached
      BY <1>1 DEF Unreached
    <3> QED
      BY <1>1, <2>4, <3>1, <3>2 DEF LookedAt, Reached
  <2>9. QueueFits(t, d)
    <3> SUFFICES ASSUME NEW p \in t.queue PROVE d <= p[1] /\ Reached(t, p[2]) /\ t.dist[p[2]] <= p[1]
      BY DEF QueueFits
    <3>1. CASE p = << nd, m >>
      BY <1>1, <2>4, <2>8, <3>1
    <3>2. CASE p \in s.queue
      <4>1. p[1] \in Nat /\ p[2] \in RoadNodes
        BY <1>1, <3>2 DEF Searches
      <4>2. d <= p[1] /\ Reached(s, p[2]) /\ s.dist[p[2]] <= p[1]
        BY <3>2 DEF Frontier, QueueFits
      <4>3. Reached(t, p[2]) /\ t.dist[p[2]] <= s.dist[p[2]]
        BY <2>6, <4>1, <4>2
      <4>4. t.dist[p[2]] \in Int /\ s.dist[p[2]] \in Int
        BY <1>1, <1>2, <2>4, <4>1
      <4> QED
        BY <4>1, <4>2, <4>3, <4>4
    <3> QED
      BY <2>2, <3>1, <3>2
  <2>10. NotForgotten(t, D)
    <3> SUFFICES ASSUME NEW n \in RoadNodes, Reached(t, n) PROVE n \in D \/ << t.dist[n], n >> \in t.queue
      BY DEF NotForgotten
    <3>1. CASE n = m
      BY <2>2, <2>4, <3>1
    <3>2. CASE n # m
      <4>1. t.dist[n] = s.dist[n] /\ Reached(s, n)
        BY <2>4, <3>2 DEF Reached
      <4>2. n \in D \/ << s.dist[n], n >> \in s.queue
        BY <4>1 DEF Frontier, NotForgotten
      <4> QED
        BY <2>2, <4>1, <4>2
    <3> QED
      BY <3>1, <3>2
  <2>11. DoneFits(t, D, d)
    BY <1>1, <2>5, <2>4 DEF DoneFits, Frontier, Reached
  <2>12. ASSUME NEW n \in RoadNodes, n # m, Reached(s, n) PROVE HasTrail(t, D, n)
    <3>1. HasTrail(s, D, n)
      BY <2>12 DEF Frontier, TrailsFit
    <3>2. \A k \in D \cup {n} : t.dist[k] = s.dist[k] /\ t.prev[k] = s.prev[k]
      BY <1>1, <2>4, <2>5, <2>12
    <3>3. t.source = s.source
      BY <2>2 DEF SameCall
    <3> QED
      BY <3>1, <3>2, <3>3, TrailStays
  <2>13. HasTrail(t, D, m)
    <3>1. u \in D /\ Reached(s, u)
      BY DEF Frontier, DoneFits
    <3>2. HasTrail(t, D, u)
      BY <1>1, <2>5, <2>12, <3>1
    <3>3. e \in Edge(u, m) /\ t.dist[u] = d
      BY <1>1, <2>4, <2>5 DEF Edge, RoadEdges
    <3>4. ByEdge(t, u, m)
      BY <2>4, <3>3 DEF ByEdge
    <3> HIDE DEF u, m
    <3> QED
      BY <1>1, <2>4, <2>5, <3>1, <3>2, <3>4, TrailGoesOn
  <2>14. TrailsFit(t, D)
    <3> SUFFICES ASSUME NEW n \in RoadNodes, Reached(t, n) PROVE HasTrail(t, D, n)
      BY DEF TrailsFit
    <3>1. n = m \/ Reached(s, n)
      BY <2>4 DEF Reached
    <3> QED
      BY <2>12, <2>13, <3>1
  <2>15. t.dist[t.source] = 0
    <3>1. s.source \in RoadNodes /\ t.source = s.source
      BY <1>1, <2>2 DEF Searches, SameCall
    <3> QED
      BY <2>4, <2>5, <3>1 DEF Frontier
  <2>16. Frontier(t, D, d)
    BY <1>1, <2>3, <2>9, <2>10, <2>11, <2>14, <2>15 DEF Frontier
  <2> QED
    BY <2>2, <2>7, <2>8, <2>16 DEF t
<1> QED
  BY <1>3, <1>4

\* The recursion in RelaxAll.
LEMMA RelaxAllUnfolds ==
  ASSUME NEW S, NEW d, NEW u,
         Len(graph.adjacency[u]) \in Nat, Popped \in S, \A n \in 1..Len(graph.adjacency[u]) : \A x \in S : Relax(x, graph.adjacency[u][n], d) \in S
  PROVE  \E r \in [0..Len(graph.adjacency[u]) -> S] :
           /\ r[0] = Popped /\ RelaxAll(d, u) = r[Len(graph.adjacency[u])]
           /\ \A n \in 1..Len(graph.adjacency[u]) : r[n] = Relax(r[n - 1], graph.adjacency[u][n], d)
<1> DEFINE step == [x \in Nat \X S |-> IF x[1] \in 1..Len(graph.adjacency[u]) THEN Relax(x[2], graph.adjacency[u][x[1]], d) ELSE x[2]]
           F(g) == [n \in 0..Len(graph.adjacency[u]) |-> IF n = 0 THEN Popped ELSE Relax(g[n - 1], graph.adjacency[u][n], d)]
           rec == CHOOSE g : g = F(g)
<1>1. step \in [Nat \X S -> S]
  OBVIOUS
<1>2. PICK g \in [0..Len(graph.adjacency[u]) -> S] : Steps(g, Popped, step, Len(graph.adjacency[u]))
  <2> HIDE DEF step
  <2> QED
    BY <1>1, Recursion
<1>3. ASSUME NEW n \in 1..Len(graph.adjacency[u]) PROVE n - 1 \in 0..Len(graph.adjacency[u]) /\ g[n - 1] \in S /\ g[n] = Relax(g[n - 1], graph.adjacency[u][n], d)
  <2>1. n - 1 \in 0..Len(graph.adjacency[u]) /\ n \in Nat
    OBVIOUS
  <2>2. g[n - 1] \in S
    BY <1>2, <2>1
  <2>3. step[<< n, g[n - 1] >>] = Relax(g[n - 1], graph.adjacency[u][n], d)
    BY <2>1, <2>2
  <2>4. g[n] = step[<< n, g[n - 1] >>]
    BY <1>2 DEF Steps
  <2> HIDE DEF step
  <2> QED
    BY <2>1, <2>2, <2>3, <2>4
<1>4. g = F(g)
  <2>1. ASSUME NEW n \in 0..Len(graph.adjacency[u]) PROVE g[n] = F(g)[n]
    <3>1. n = 0 \/ (n # 0 /\ n \in 1..Len(graph.adjacency[u]))
      OBVIOUS
    <3>2. F(g)[n] = IF n = 0 THEN Popped ELSE Relax(g[n - 1], graph.adjacency[u][n], d)
      OBVIOUS
    <3>3. g[0] = Popped
      BY <1>2 DEF Steps
    <3> HIDE DEF F
    <3> QED
      BY <1>3, <3>1, <3>2, <3>3
  <2>2. g = [n \in 0..Len(graph.adjacency[u]) |-> g[n]]
    BY <1>2
  <2>3. F(g) = [n \in 0..Len(graph.adjacency[u]) |-> F(g)[n]]
    OBVIOUS
  <2> HIDE DEF F
  <2> QED
    BY <2>1, <2>2, <2>3
<1>5. rec = F(rec)
  <2> HIDE DEF F
  <2> QED
    BY <1>4
<1>6. RelaxAll(d, u) = rec[Len(graph.adjacency[u])]
  BY DEF RelaxAll
<1> HIDE DEF rec
<1>7. \A n \in 0..Len(graph.adjacency[u]) : rec[n] = IF n = 0 THEN Popped ELSE Relax(rec[n - 1], graph.adjacency[u][n], d)
  BY <1>5
<1> DEFINE T == { n \in Nat : n \in 0..Len(graph.adjacency[u]) => rec[n] = g[n] }
<1>8. 0 \in T
  <2>1. rec[0] = Popped /\ g[0] = Popped
    BY <1>2, <1>7 DEF Steps
  <2> QED
    BY <2>1
<1>9. ASSUME NEW n \in T PROVE n + 1 \in T
  <2> SUFFICES ASSUME n + 1 \in 0..Len(graph.adjacency[u]) PROVE rec[n + 1] = g[n + 1]
    OBVIOUS
  <2>1. n \in 0..Len(graph.adjacency[u]) /\ n + 1 \in 1..Len(graph.adjacency[u]) /\ n + 1 # 0 /\ (n + 1) - 1 = n /\ rec[n] = g[n]
    OBVIOUS
  <2>2. rec[n + 1] = Relax(rec[(n + 1) - 1], graph.adjacency[u][(n + 1)], d)
    BY <1>7, <2>1
  <2>3. g[n + 1] = Relax(g[(n + 1) - 1], graph.adjacency[u][(n + 1)], d)
    BY <1>3, <2>1
  <2> QED
    BY <2>1, <2>2, <2>3
<1>10. T = Nat
  <2>1. T \in SUBSET Nat
    OBVIOUS
  <2> HIDE DEF T
  <2> QED
    BY <1>8, <1>9, <2>1, Induction
<1>11. rec[Len(graph.adjacency[u])] = g[Len(graph.adjacency[u])]
  <2>1. Len(graph.adjacency[u]) \in T /\ Len(graph.adjacency[u]) \in 0..Len(graph.adjacency[u])
    BY <1>10
  <2> QED
    BY <2>1
<1>12. g[0] = Popped /\ RelaxAll(d, u) = g[Len(graph.adjacency[u])] /\ \A n \in 1..Len(graph.adjacency[u]) : g[n] = Relax(g[n - 1], graph.adjacency[u][n], d)
  <2>1. g[0] = Popped
    BY <1>2 DEF Steps
  <2> QED
    BY <1>3, <1>6, <1>11, <2>1
<1> QED
  BY <1>2, <1>12

\* The first entry leaves the queue.

LEMMA PoppedIsSearch ==
  ASSUME search \in Searches
  PROVE  /\ Popped \in Searches /\ Popped.dist = search.dist /\ Popped.prev = search.prev
         /\ Popped.queue = search.queue \ {Top} /\ SameCall(search, Popped)
<1>1. /\ Popped.dist = search.dist /\ Popped.prev = search.prev
      /\ Popped.queue = search.queue \ {Top} /\ SameCall(search, Popped)
  BY DEF Popped, Searches, SameCall
<1> DEFINE P == [RoadNodes -> RoadNodes \cup {0}]
           Q == SUBSET (Nat \X RoadNodes)
           PHASES == {"search", "trace", "found", "unreachable"}
           S == Seq(RoadNodes)
           A == RoadNodes \cup {0}
<1>2. search \in [phase : PHASES, source : RoadNodes, target : RoadNodes, nodes : S, at : A, queue : Q,
                  prev : P, dist : Distances]
  BY DEF Searches
<1>3. search.queue \ {Top} \in Q
  BY <1>2
<1>4. Popped \in [phase : PHASES, source : RoadNodes, target : RoadNodes, nodes : S, at : A, queue : Q,
                  prev : P, dist : Distances]
  <2> HIDE DEF P, Q, S, A, PHASES
  <2> QED
    BY <1>2, <1>3 DEF Popped
<1>5. Popped \in Searches
  BY <1>4 DEF Searches
<1> QED
  BY <1>1, <1>5

LEMMA PopFits ==
  ASSUME GraphFits, NEW D, NEW b, Frontier(search, D, b), search.queue # {}
  PROVE  /\ Top \in search.queue /\ Top[1] \in Nat /\ Top[2] \in RoadNodes /\ b <= Top[1]
         /\ Reached(search, Top[2]) /\ search.dist[Top[2]] \in Nat /\ search.dist[Top[2]] <= Top[1]
         /\ search.dist[Top[2]] < Top[1] => Frontier(Popped, D, b)
         /\ search.dist[Top[2]] = Top[1] => Frontier(Popped, D \cup {Top[2]}, Top[1])
<1>1. search \in Searches /\ D \in SUBSET RoadNodes /\ b \in Nat
  BY DEF Frontier
<1>2. /\ Top \in search.queue /\ Top[1] \in Nat /\ Top[2] \in RoadNodes
      /\ \A p \in search.queue : Top[1] <= p[1]
  BY <1>1, TopIsFirst DEF GraphFits
<1>3. b <= Top[1] /\ Reached(search, Top[2]) /\ search.dist[Top[2]] <= Top[1]
  BY <1>2 DEF Frontier, QueueFits
<1>4. \A n \in RoadNodes : Reached(search, n) => search.dist[n] \in Nat
  <2>1. search.dist \in Distances
    BY <1>1 DEF Searches
  <2> QED
    BY <2>1 DEF Distances, Reached
<1>5. /\ Popped \in Searches /\ Popped.dist = search.dist /\ Popped.prev = search.prev
      /\ Popped.queue = search.queue \ {Top} /\ SameCall(search, Popped)
  BY <1>1, PoppedIsSearch
<1>6. Popped.source = search.source /\ Popped.dist[Popped.source] = 0
  BY <1>5 DEF SameCall, Frontier
<1>7. ASSUME NEW E, D \subseteq E PROVE TrailsFit(Popped, E)
  <2> SUFFICES ASSUME NEW n \in RoadNodes, Reached(Popped, n) PROVE HasTrail(Popped, E, n)
    BY DEF TrailsFit
  <2>1. HasTrail(search, D, n)
    BY <1>5 DEF Frontier, TrailsFit, Reached
  <2>2. HasTrail(search, E, n)
    BY <1>7, <2>1, TrailWithin
  <2> QED
    BY <1>5, <1>6, <2>2, TrailStays
<1>8. ASSUME search.dist[Top[2]] < Top[1] PROVE Frontier(Popped, D, b)
  <2>1. QueueFits(Popped, b)
    BY <1>5 DEF Frontier, QueueFits, Reached
  <2>2. NotForgotten(Popped, D)
    <3> SUFFICES ASSUME NEW n \in RoadNodes, Reached(Popped, n)
                 PROVE  n \in D \/ << Popped.dist[n], n >> \in Popped.queue
      BY DEF NotForgotten
    <3>1. n \in D \/ << search.dist[n], n >> \in search.queue
      BY <1>5 DEF Frontier, NotForgotten, Reached
    <3>2. << search.dist[n], n >> # Top
      <4>1. CASE n = Top[2]
        BY <1>2, <1>3, <1>4, <1>8, <4>1
      <4>2. CASE n # Top[2]
        BY <4>2
      <4> QED
        BY <4>1, <4>2
    <3> QED
      BY <1>5, <3>1, <3>2
  <2>3. DoneFits(Popped, D, b)
    BY <1>5 DEF Frontier, DoneFits, Reached
  <2>4. TrailsFit(Popped, D)
    BY <1>7
  <2> QED
    BY <1>1, <1>5, <1>6, <2>1, <2>2, <2>3, <2>4 DEF Frontier
<1>9. ASSUME search.dist[Top[2]] = Top[1] PROVE Frontier(Popped, D \cup {Top[2]}, Top[1])
  <2>1. QueueFits(Popped, Top[1])
    BY <1>2, <1>5 DEF Frontier, QueueFits, Reached
  <2>2. NotForgotten(Popped, D \cup {Top[2]})
    <3> SUFFICES ASSUME NEW n \in RoadNodes, Reached(Popped, n), n \notin D, n # Top[2]
                 PROVE  << Popped.dist[n], n >> \in Popped.queue
      BY DEF NotForgotten
    <3>1. << search.dist[n], n >> \in search.queue
      BY <1>5 DEF Frontier, NotForgotten, Reached
    <3>2. << search.dist[n], n >> # Top
      OBVIOUS
    <3> QED
      BY <1>5, <3>1, <3>2
  <2>3. DoneFits(Popped, D \cup {Top[2]}, Top[1])
    <3> SUFFICES ASSUME NEW n \in D \cup {Top[2]} PROVE Reached(Popped, n) /\ Popped.dist[n] <= Top[1]
      BY DEF DoneFits
    <3>1. CASE n = Top[2]
      BY <1>2, <1>3, <1>5, <1>9, <3>1 DEF Reached
    <3>2. CASE n \in D
      <4>1. Reached(search, n) /\ search.dist[n] <= b /\ n \in RoadNodes
        BY <1>1, <3>2 DEF Frontier, DoneFits
      <4>2. search.dist[n] \in Nat
        BY <1>4, <4>1
      <4> QED
        BY <1>1, <1>2, <1>3, <1>5, <4>1, <4>2 DEF Reached
    <3> QED
      BY <3>1, <3>2
  <2>4. TrailsFit(Popped, D \cup {Top[2]})
    BY <1>7
  <2> QED
    BY <1>1, <1>2, <1>5, <1>6, <2>1, <2>2, <2>3, <2>4 DEF Frontier
<1> QED
  BY <1>2, <1>3, <1>4, <1>8, <1>9

\* After all edges of a node were looked at, it is closed.
LEMMA ClosedStays ==
  ASSUME EdgesFit(graph), NEW s \in Searches, NEW t \in Searches, NEW D \in SUBSET RoadNodes, NoFarther(s, t, D),
         NEW n \in D, Closed(s, n)
  PROVE  Closed(t, n)
<1> SUFFICES ASSUME NEW e \in RoadEdges, graph.edges[e].from = n
             PROVE  Reached(t, graph.edges[e].to) /\ t.dist[graph.edges[e].to] <= t.dist[n] + graph.edges[e].length
  BY DEF Closed
<1> DEFINE m == graph.edges[e].to
<1>1. m \in RoadNodes /\ graph.edges[e].length \in Nat
  BY DEF EdgesFit, RoadEdges, RoadNodes
<1>2. Reached(s, m) /\ s.dist[m] <= s.dist[n] + graph.edges[e].length
  BY DEF Closed
<1>3. Reached(t, m) /\ t.dist[m] <= s.dist[m] /\ t.dist[n] = s.dist[n]
  BY <1>1, <1>2 DEF NoFarther
<1>4. \A k \in RoadNodes : s.dist[k] \in Int /\ t.dist[k] \in Int
  <2>1. s.dist \in Distances /\ t.dist \in Distances
    BY DEF Searches
  <2>2. \A k \in RoadNodes : s.dist[k] \in Nat \cup {Unreached} /\ t.dist[k] \in Nat \cup {Unreached}
    BY <2>1 DEF Distances
  <2> QED
    BY <2>2 DEF Unreached
<1> HIDE DEF m
<1>5. t.dist[m] <= t.dist[n] + graph.edges[e].length
  BY <1>1, <1>2, <1>3, <1>4
<1> QED
  BY <1>3, <1>5 DEF m

LEMMA LookedAtStays ==
  ASSUME EdgesFit(graph), NEW s \in Searches, NEW t \in Searches, NEW D \in SUBSET RoadNodes, NoFarther(s, t, D),
         NEW e \in RoadEdges, graph.edges[e].from \in D, LookedAt(s, e)
  PROVE  LookedAt(t, e)
<1> DEFINE n == graph.edges[e].from
           m == graph.edges[e].to
<1>1. m \in RoadNodes /\ n \in RoadNodes /\ graph.edges[e].length \in Nat
  BY DEF EdgesFit, RoadEdges, RoadNodes
<1>2. Reached(s, m) /\ s.dist[m] <= s.dist[n] + graph.edges[e].length
  BY DEF LookedAt
<1>3. Reached(t, m) /\ t.dist[m] <= s.dist[m] /\ t.dist[n] = s.dist[n]
  BY <1>1, <1>2 DEF NoFarther
<1>4. \A k \in RoadNodes : s.dist[k] \in Int /\ t.dist[k] \in Int
  <2>1. s.dist \in Distances /\ t.dist \in Distances
    BY DEF Searches
  <2>2. \A k \in RoadNodes : s.dist[k] \in Nat \cup {Unreached} /\ t.dist[k] \in Nat \cup {Unreached}
    BY <2>1 DEF Distances
  <2> QED
    BY <2>2 DEF Unreached
<1> HIDE DEF m, n
<1>5. t.dist[m] <= t.dist[n] + graph.edges[e].length
  BY <1>1, <1>2, <1>3, <1>4
<1> QED
  BY <1>3, <1>5 DEF m, n, LookedAt

LEMMA NoFartherFurther ==
  ASSUME NEW s \in Searches, NEW t \in Searches, NEW v \in Searches, NEW D \in SUBSET RoadNodes,
         NoFarther(s, t, D), NoFarther(t, v, D)
  PROVE  NoFarther(s, v, D)
<1>1. \A n \in RoadNodes : s.dist[n] \in Int /\ t.dist[n] \in Int /\ v.dist[n] \in Int
  <2>1. s.dist \in Distances /\ t.dist \in Distances /\ v.dist \in Distances
    BY DEF Searches
  <2>2. \A k \in RoadNodes : /\ s.dist[k] \in Nat \cup {Unreached} /\ t.dist[k] \in Nat \cup {Unreached}
                             /\ v.dist[k] \in Nat \cup {Unreached}
    BY <2>1 DEF Distances
  <2> QED
    BY <2>2 DEF Unreached
<1> QED
  BY <1>1 DEF NoFarther

LEMMA RelaxAllFits ==
  ASSUME GraphFits, NEW D, NEW b, Frontier(search, D, b), AllClosed(search, D), search.queue # {},
         search.dist[Top[2]] = Top[1]
  PROVE  LET t == RelaxAll(Top[1], Top[2])
         IN  Frontier(t, D \cup {Top[2]}, Top[1]) /\ AllClosed(t, D \cup {Top[2]}) /\ SameCall(search, t)
<1> DEFINE d == Top[1]
           u == Top[2]
           E == D \cup {u}
           out == graph.adjacency[u]
           S == { s \in Searches : Frontier(s, E, d) /\ s.dist[u] = d /\ SameCall(search, s) /\ NoFarther(Popped, s, E) }
<1>1. d \in Nat /\ u \in RoadNodes /\ Frontier(Popped, E, d) /\ D \in SUBSET RoadNodes /\ search \in Searches
  BY PopFits DEF Frontier
<1>2. Popped \in Searches /\ Popped.dist = search.dist /\ SameCall(search, Popped)
  BY <1>1, PoppedIsSearch
<1>3. /\ out \in Seq(RoadEdges) /\ Len(out) \in Nat /\ DOMAIN out = 1..Len(out)
      /\ \A n \in 1..Len(out) : out[n] \in RoadEdges /\ graph.edges[out[n]].from = u
      /\ \A e \in RoadEdges : graph.edges[e].from = u => \E i \in 1..Len(out) : out[i] = e
  <2>1. out \in Seq(RoadEdges)
    BY <1>1 DEF GraphFits, ListsFit, RoadNodes, RoadEdges
  <2>2. Len(out) \in Nat /\ DOMAIN out = 1..Len(out) /\ \A n \in 1..Len(out) : out[n] \in RoadEdges
    BY <2>1, LenProperties, ElementOfSeq
  <2> QED
    BY <1>1, <2>1, <2>2 DEF GraphFits, ListsFit, RoadNodes, RoadEdges
<1>4. \A n \in RoadNodes : Popped.dist[n] \in Int
  <2>1. Popped.dist \in Distances
    BY <1>2 DEF Searches
  <2>2. \A n \in RoadNodes : Popped.dist[n] \in Nat \cup {Unreached}
    BY <2>1 DEF Distances
  <2> QED
    BY <2>2 DEF Unreached
<1>5. NoFarther(Popped, Popped, E)
  BY <1>4 DEF NoFarther
<1>6. Popped \in S
  BY <1>1, <1>2, <1>5
<1>7. ASSUME NEW n \in 1..Len(out), NEW s \in S
      PROVE  Relax(s, out[n], d) \in S /\ LookedAt(Relax(s, out[n], d), out[n]) /\ NoFarther(s, Relax(s, out[n], d), E)
  <2> DEFINE t == Relax(s, out[n], d)
  <2>1. EdgesFit(graph) /\ out[n] \in RoadEdges /\ graph.edges[out[n]].from = u /\ u \in E
    BY <1>3 DEF GraphFits
  <2>2. Frontier(s, E, d) /\ s.dist[u] = d /\ SameCall(search, s) /\ NoFarther(Popped, s, E) /\ s \in Searches
    OBVIOUS
  <2> HIDE DEF S, E, d, u, out
  <2>3. Frontier(t, E, d) /\ SameCall(s, t) /\ NoFarther(s, t, E) /\ LookedAt(t, out[n])
    BY <2>1, <2>2, RelaxStep
  <2>4. t \in Searches /\ E \in SUBSET RoadNodes
    BY <2>3 DEF Frontier
  <2> HIDE DEF t
  <2>5. t.dist[u] = d
    BY <2>1, <2>2, <2>3 DEF NoFarther
  <2>6. SameCall(search, t)
    BY <2>2, <2>3 DEF SameCall
  <2>7. NoFarther(Popped, t, E)
    BY <1>2, <2>2, <2>3, <2>4, NoFartherFurther
  <2>8. t \in S
    BY <2>3, <2>4, <2>5, <2>6, <2>7 DEF S
  <2> QED
    BY <2>3, <2>8 DEF t
<1>8. \E r \in [0..Len(out) -> S] :
        /\ r[0] = Popped /\ RelaxAll(d, u) = r[Len(out)]
        /\ \A n \in 1..Len(out) : r[n] = Relax(r[n - 1], out[n], d)
  <2> HIDE DEF S, d, u
  <2> QED
    BY <1>3, <1>6, <1>7, RelaxAllUnfolds
<1>9. PICK r \in [0..Len(out) -> S] :
        /\ r[0] = Popped /\ RelaxAll(d, u) = r[Len(out)]
        /\ \A n \in 1..Len(out) : r[n] = Relax(r[n - 1], out[n], d)
  BY <1>8
<1> DEFINE T == { n \in Nat : n \in 0..Len(out) => \A k \in 1..n : LookedAt(r[n], out[k]) }
<1>10. 0 \in T
  OBVIOUS
<1>11. ASSUME NEW n \in T PROVE n + 1 \in T
  <2> SUFFICES ASSUME n + 1 \in 0..Len(out), NEW k \in 1..n + 1 PROVE LookedAt(r[n + 1], out[k])
    OBVIOUS
  <2>1. n \in 0..Len(out) /\ n + 1 \in 1..Len(out) /\ (n + 1) - 1 = n /\ k \in 1..Len(out)
    BY <1>3
  <2>2. r[n] \in S /\ r[n + 1] = Relax(r[n], out[n + 1], d)
    BY <1>9, <2>1
  <2>3. r[n + 1] \in S /\ LookedAt(r[n + 1], out[n + 1]) /\ NoFarther(r[n], r[n + 1], E)
    <3> HIDE DEF S, E
    <3> QED
      BY <1>7, <2>1, <2>2
  <2>4. CASE k = n + 1
    BY <2>3, <2>4
  <2>5. CASE k # n + 1
    <3>1. k \in 1..n
      BY <2>1, <2>5
    <3>2. LookedAt(r[n], out[k])
      BY <2>1, <3>1, SMTT(30)
    <3>3. r[n] \in Searches /\ r[n + 1] \in Searches /\ E \in SUBSET RoadNodes
      BY <1>1, <2>2, <2>3
    <3>4. out[k] \in RoadEdges /\ graph.edges[out[k]].from \in E /\ EdgesFit(graph)
      BY <1>3, <2>1 DEF GraphFits
    <3> HIDE DEF S, E, out, T
    <3> QED
      BY <2>3, <3>2, <3>3, <3>4, LookedAtStays
  <2> QED
    BY <2>4, <2>5
<1>12. T = Nat
  <2>1. T \in SUBSET Nat
    OBVIOUS
  <2> HIDE DEF T
  <2> QED
    BY <1>10, <1>11, <2>1, Induction
<1> DEFINE t == RelaxAll(d, u)
<1>13. \A k \in 1..Len(out) : LookedAt(t, out[k])
  <2>1. Len(out) \in T /\ Len(out) \in 0..Len(out)
    <3>1. Len(out) \in Nat
      BY <1>3
    <3> HIDE DEF T
    <3> QED
      BY <3>1, <1>12
  <2> QED
    BY <1>9, <2>1
<1>14. t \in S
  <2>1. Len(out) \in 0..Len(out)
    BY <1>3
  <2> HIDE DEF S
  <2> QED
    BY <1>9, <2>1
<1> HIDE DEF t, T
<1>15. t \in Searches /\ Frontier(t, E, d) /\ t.dist[u] = d /\ SameCall(search, t) /\ NoFarther(Popped, t, E)
  BY <1>14
<1>16. ASSUME NEW n \in E PROVE Closed(t, n)
  <2>1. CASE n = u
    <3> SUFFICES ASSUME NEW e \in RoadEdges, graph.edges[e].from = u
                 PROVE  Reached(t, graph.edges[e].to) /\ t.dist[graph.edges[e].to] <= t.dist[u] + graph.edges[e].length
      BY <2>1 DEF Closed
    <3>1. PICK i \in 1..Len(out) : out[i] = e
      BY <1>3
    <3>2. LookedAt(t, e)
      BY <1>13, <3>1
    <3> QED
      BY <3>2 DEF LookedAt
  <2>2. CASE n \in D
    <3>1. Closed(search, n)
      BY <2>2 DEF AllClosed
    <3>2. Closed(Popped, n)
      BY <1>2, <3>1 DEF Closed, Reached
    <3>3. EdgesFit(graph) /\ E \in SUBSET RoadNodes
      BY <1>1 DEF GraphFits
    <3> HIDE DEF E
    <3> QED
      BY <1>2, <1>15, <3>2, <3>3, ClosedStays
  <2> QED
    BY <2>1, <2>2
<1>17. AllClosed(t, E)
  BY <1>16 DEF AllClosed
<1> QED
  BY <1>15, <1>17 DEF t

-----------------------------------------------------------------------------
\* Walks and their lengths.

LEMMA EdgeLengths ==
  ASSUME EdgesFit(graph), NEW a \in RoadNodes, NEW b \in RoadNodes, Edge(a, b) # {}
  PROVE  /\ Shortest(a, b) \in Nat
         /\ \E e \in Edge(a, b) : graph.edges[e].length = Shortest(a, b)
         /\ \A e \in Edge(a, b) : Shortest(a, b) <= graph.edges[e].length /\ graph.edges[e].length \in Nat
<1> DEFINE S == { graph.edges[e].length : e \in Edge(a, b) }
<1>1. S \in SUBSET Nat /\ S # {}
  BY DEF EdgesFit, Edge
<1>2. Min(S) \in S /\ \A m \in S : Min(S) <= m
  <2> HIDE DEF S
  <2> QED
    BY <1>1, MinIsLeast
<1>3. Shortest(a, b) = Min(S)
  BY DEF Shortest
<1> QED
  BY <1>1, <1>2, <1>3

\* The length of the way to each node of a walk.
PartLengths(walk, r) ==
  /\ r \in [0..Len(walk) - 1 -> Nat] /\ r[0] = 0 /\ Length(walk) = r[Len(walk) - 1]
  /\ \A n \in 1..Len(walk) - 1 : Edge(walk[n], walk[n + 1]) # {} /\ r[n] = r[n - 1] + Shortest(walk[n], walk[n + 1])

LEMMA WalkHasLengths ==
  ASSUME EdgesFit(graph), NEW w \in Seq(RoadNodes), Len(w) >= 1,
         \A i \in 1..Len(w) - 1 : Edge(w[i], w[i + 1]) # {}
  PROVE  \E r : PartLengths(w, r)
<1>1. Len(w) \in Nat /\ Len(w) - 1 \in Nat /\ \A n \in 1..Len(w) : w[n] \in RoadNodes
  BY LenProperties, ElementOfSeq
<1>2. ASSUME NEW n \in 1..Len(w) - 1 PROVE Shortest(w[n], w[n + 1]) \in Nat
  <2>1. w[n] \in RoadNodes /\ w[n + 1] \in RoadNodes
    <3>1. n \in 1..Len(w) /\ n + 1 \in 1..Len(w)
      BY <1>1
    <3> QED
      BY <1>1, <3>1
  <2> QED
    BY <2>1, EdgeLengths
<1>3. Costs(w) \in [1..Len(w) - 1 -> Nat]
  BY <1>2 DEF Costs
<1>4. Costs(w) \in Seq(Nat) /\ Len(Costs(w)) = Len(w) - 1
  <2>1. Costs(w) \in Seq(Nat) /\ DOMAIN Costs(w) = 1..Len(w) - 1
    BY <1>1, <1>3, SeqDef
  <2> QED
    BY <1>1, <2>1, LenProperties
<1>5. PICK r : Adds(r, Costs(w))
  BY <1>4, SumUnfolds
<1>6. Length(w) = SumOf(Costs(w))
  BY DEF Length, SumOf
<1>7. PartLengths(w, r)
  BY <1>4, <1>5, <1>6 DEF Adds, PartLengths, Costs
<1> QED
  BY <1>7

LEMMA WalkIsList ==
  ASSUME IsList(graph.nodes), NEW a, NEW b, NEW w \in Walks(a, b)
  PROVE  /\ w \in Seq(RoadNodes) /\ Len(w) \in Nat /\ Len(w) >= 1 /\ w[1] = a /\ w[Len(w)] = b
         /\ \A i \in 1..Len(w) - 1 : Edge(w[i], w[i + 1]) # {}
         /\ \A i \in 1..Len(w) : w[i] \in RoadNodes
<1>1. PICK n \in 1..Len(graph.nodes) : w \in [1..n -> RoadNodes]
  BY DEF Walks, RoadNodes
<1>2. n \in Nat /\ n >= 1
  BY DEF IsList
<1>3. w \in Seq(RoadNodes) /\ DOMAIN w = 1..n
  BY <1>1, <1>2, SeqDef
<1>4. Len(w) = n
  BY <1>2, <1>3, LenProperties
<1> QED
  BY <1>1, <1>2, <1>3, <1>4 DEF Walks

\* A walk of distinct nodes is no longer than there are nodes.
LEMMA TrailIsWalk ==
  ASSUME IsList(graph.nodes), EdgesFit(graph), NEW s, NEW D, NEW n, NEW w, Trail(s, D, w, n)
  PROVE  w \in Walks(s.source, n)
<1>1. w \in Seq(RoadNodes) /\ Len(w) \in Nat /\ Len(w) >= 1 /\ DOMAIN w = 1..Len(w) /\ IsInjective(w)
  BY LenProperties DEF Trail
<1>2. w \in [1..Len(w) -> RoadNodes]
  BY <1>1, SeqDef
<1>3. Len(w) <= Len(graph.nodes)
  <2>1. RoadNodes = 1..Len(graph.nodes) /\ Len(graph.nodes) \in Nat
    BY DEF RoadNodes, IsList
  <2>2. IsFiniteSet(RoadNodes) /\ Cardinality(RoadNodes) = Len(graph.nodes)
    BY <2>1, FS_Interval
  <2>3. IsFiniteSet(1..Len(w)) /\ Cardinality(1..Len(w)) = Len(w)
    BY <1>1, FS_Interval
  <2> SUFFICES ASSUME Len(graph.nodes) < Len(w) PROVE FALSE
    BY <1>1, <2>1
  <2>4. \E x, y \in 1..Len(w) : x # y /\ w[x] = w[y]
    BY <1>2, <2>2, <2>3, FS_PigeonHole
  <2> QED
    BY <1>1, <2>4 DEF IsInjective
<1>4. Len(w) \in 1..Len(graph.nodes)
  BY <1>1, <1>3 DEF IsList
<1>5. \A i \in 1..Len(w) - 1 : Edge(w[i], w[i + 1]) # {}
  BY DEF Trail, ByEdge
<1>6. w[1] = s.source /\ w[Len(w)] = n
  BY DEF Trail
<1>7. w \in UNION { [1..k -> DOMAIN graph.nodes] : k \in 1..Len(graph.nodes) }
  BY <1>2, <1>4 DEF RoadNodes
<1> QED
  BY <1>1, <1>5, <1>6, <1>7 DEF Walks

\* The distances along a trail add up.
LEMMA TrailHasLength ==
  ASSUME IsList(graph.nodes), EdgesFit(graph), NEW s \in Searches, s.dist[s.source] = 0,
         NEW D \in SUBSET RoadNodes, AllClosed(s, D), NEW n, NEW w, Trail(s, D, w, n)
  PROVE  s.dist[n] = Length(w)
<1>1. /\ w \in Seq(RoadNodes) /\ Len(w) \in Nat /\ Len(w) >= 1 /\ w[1] = s.source /\ w[Len(w)] = n
      /\ \A i \in 1..Len(w) - 1 : Edge(w[i], w[i + 1]) # {}
      /\ \A i \in 1..Len(w) : w[i] \in RoadNodes
  <2>1. w \in Walks(s.source, n)
    BY TrailIsWalk
  <2> QED
    BY <2>1, WalkIsList
<1>2. PICK r : PartLengths(w, r)
  BY <1>1, WalkHasLengths
<1>3. \A k \in RoadNodes : s.dist[k] \in Int
  <2>1. s.dist \in Distances
    BY DEF Searches
  <2>2. \A k \in RoadNodes : s.dist[k] \in Nat \cup {Unreached}
    BY <2>1 DEF Distances
  <2> QED
    BY <2>2 DEF Unreached
<1>4. ASSUME NEW i \in 1..Len(w) - 1 PROVE s.dist[w[i + 1]] = s.dist[w[i]] + Shortest(w[i], w[i + 1])
  <2> DEFINE a == w[i]
             b == w[i + 1]
  <2>1. a \in RoadNodes /\ b \in RoadNodes /\ Edge(a, b) # {} /\ a \in D /\ ByEdge(s, a, b)
    <3>1. i \in 1..Len(w) /\ i + 1 \in 1..Len(w)
      BY <1>1
    <3> QED
      BY <1>1, <3>1 DEF Trail
  <2> HIDE DEF a, b
  <2>2. /\ Shortest(a, b) \in Nat
        /\ \E e \in Edge(a, b) : graph.edges[e].length = Shortest(a, b)
        /\ \A e \in Edge(a, b) : Shortest(a, b) <= graph.edges[e].length /\ graph.edges[e].length \in Nat
    BY <2>1, EdgeLengths
  <2>3. PICK e \in Edge(a, b) : s.dist[b] = s.dist[a] + graph.edges[e].length
    BY <2>1 DEF ByEdge
  <2>4. PICK f \in Edge(a, b) : graph.edges[f].length = Shortest(a, b)
    BY <2>2
  <2>5. s.dist[b] <= s.dist[a] + graph.edges[f].length
    BY <2>1, <2>4 DEF AllClosed, Closed, Edge, RoadEdges
  <2>6. s.dist[a] \in Int /\ s.dist[b] \in Int
    BY <1>3, <2>1
  <2>7. s.dist[b] = s.dist[a] + Shortest(a, b)
    BY <2>2, <2>3, <2>4, <2>5, <2>6
  <2> QED
    BY <2>7 DEF a, b
<1> DEFINE T == { i \in Nat : i \in 0..Len(w) - 1 => s.dist[w[i + 1]] = r[i] }
<1>5. 0 \in T
  <2>1. r[0] = 0 /\ w[0 + 1] = s.source
    BY <1>1, <1>2 DEF PartLengths
  <2> QED
    BY <2>1
<1>6. ASSUME NEW i \in T PROVE i + 1 \in T
  <2> SUFFICES ASSUME i + 1 \in 0..Len(w) - 1 PROVE s.dist[w[(i + 1) + 1]] = r[i + 1]
    OBVIOUS
  <2>1. i \in 0..Len(w) - 1 /\ i + 1 \in 1..Len(w) - 1 /\ (i + 1) - 1 = i /\ s.dist[w[i + 1]] = r[i]
    BY <1>1
  <2>2. r[i + 1] = r[(i + 1) - 1] + Shortest(w[i + 1], w[(i + 1) + 1])
    BY <1>2, <2>1 DEF PartLengths
  <2>3. s.dist[w[(i + 1) + 1]] = s.dist[w[i + 1]] + Shortest(w[i + 1], w[(i + 1) + 1])
    BY <1>4, <2>1
  <2> QED
    BY <2>1, <2>2, <2>3
<1>7. T = Nat
  <2>1. T \in SUBSET Nat
    OBVIOUS
  <2> HIDE DEF T
  <2> QED
    BY <1>5, <1>6, <2>1, Induction
<1>8. Len(w) - 1 \in T /\ Len(w) - 1 \in 0..Len(w) - 1 /\ (Len(w) - 1) + 1 = Len(w)
  BY <1>1, <1>7
<1>9. s.dist[n] = r[Len(w) - 1]
  BY <1>1, <1>8
<1> QED
  BY <1>2, <1>9 DEF PartLengths

\* Where everything in the queue is at least m away, so is all that a walk meets
\* before it leaves the nodes that are done; among these it is no shorter than they are far.
LEMMA WalkIsNotShorter ==
  ASSUME IsList(graph.nodes), EdgesFit(graph), NEW s, NEW D, NEW b, Frontier(s, D, b), AllClosed(s, D),
         NEW m \in Int, \A p \in s.queue : m <= p[1],
         NEW n, NEW w \in Walks(s.source, n)
  PROVE  Length(w) \in Nat /\ (m <= Length(w) \/ (n \in D /\ s.dist[n] <= Length(w)))
<1>1. /\ w \in Seq(RoadNodes) /\ Len(w) \in Nat /\ Len(w) >= 1 /\ w[1] = s.source /\ w[Len(w)] = n
      /\ \A i \in 1..Len(w) - 1 : Edge(w[i], w[i + 1]) # {}
      /\ \A i \in 1..Len(w) : w[i] \in RoadNodes
  <2> HIDE DEF Frontier
  <2> QED
    BY WalkIsList
<1>2. PICK r : PartLengths(w, r)
  BY <1>1, WalkHasLengths
<1>3. \A k \in RoadNodes : s.dist[k] \in Int
  <2>1. s.dist \in Distances
    BY DEF Frontier, Searches
  <2>2. \A k \in RoadNodes : s.dist[k] \in Nat \cup {Unreached}
    BY <2>1 DEF Distances
  <2> QED
    BY <2>2 DEF Unreached
<1>4. \A i \in 0..Len(w) - 1 : r[i] \in Nat
  BY <1>2 DEF PartLengths
<1>5. ASSUME NEW a \in RoadNodes, Reached(s, a) PROVE m <= s.dist[a] \/ a \in D
  <2>1. a \in D \/ << s.dist[a], a >> \in s.queue
    BY <1>5 DEF Frontier, NotForgotten
  <2> QED
    BY <2>1
<1> DEFINE T == { i \in Nat : i \in 0..Len(w) - 1 => m <= r[i] \/ (w[i + 1] \in D /\ s.dist[w[i + 1]] <= r[i]) }
<1>6. 0 \in T
  <2>1. r[0] = 0 /\ w[0 + 1] = s.source /\ s.source \in RoadNodes
    BY <1>1, <1>2 DEF PartLengths
  <2>2. s.dist[s.source] = 0 /\ Reached(s, s.source)
    BY DEF Frontier, Reached, Unreached
  <2> QED
    BY <1>5, <2>1, <2>2
<1>7. ASSUME NEW i \in T PROVE i + 1 \in T
  <2> SUFFICES ASSUME i + 1 \in 0..Len(w) - 1
               PROVE  m <= r[i + 1] \/ (w[(i + 1) + 1] \in D /\ s.dist[w[(i + 1) + 1]] <= r[i + 1])
    OBVIOUS
  <2>1. i \in 0..Len(w) - 1 /\ i + 1 \in 1..Len(w) - 1 /\ (i + 1) - 1 = i
        /\ i + 1 \in 1..Len(w) /\ (i + 1) + 1 \in 1..Len(w)
    BY <1>1
  <2> DEFINE a == w[i + 1]
             c == w[(i + 1) + 1]
  <2>2. a \in RoadNodes /\ c \in RoadNodes /\ Edge(a, c) # {}
    BY <1>1, <2>1
  <2>3. r[i + 1] = r[i] + Shortest(a, c)
    BY <1>2, <2>1 DEF PartLengths
  <2>4. m <= r[i] \/ (a \in D /\ s.dist[a] <= r[i])
    BY <2>1
  <2> HIDE DEF a, c, T
  <2>5. Shortest(a, c) \in Nat /\ \E e \in Edge(a, c) : graph.edges[e].length = Shortest(a, c)
    BY <2>2, EdgeLengths
  <2>6. r[i] \in Nat /\ r[i + 1] \in Nat
    BY <1>4, <2>1
  <2>7. CASE m <= r[i]
    BY <2>3, <2>5, <2>6, <2>7
  <2>8. CASE a \in D /\ s.dist[a] <= r[i]
    <3>1. PICK e \in Edge(a, c) : graph.edges[e].length = Shortest(a, c)
      BY <2>5
    <3>2. Reached(s, c) /\ s.dist[c] <= s.dist[a] + Shortest(a, c)
      BY <2>8, <3>1 DEF AllClosed, Closed, Edge, RoadEdges
    <3>3. s.dist[c] <= r[i + 1]
      BY <1>3, <2>2, <2>3, <2>5, <2>6, <2>8, <3>2
    <3>4. m <= s.dist[c] \/ c \in D
      BY <1>5, <2>2, <3>2
    <3>5. s.dist[c] \in Int
      BY <1>3, <2>2
    <3>6. m <= r[i + 1] \/ (c \in D /\ s.dist[c] <= r[i + 1])
      BY <2>6, <3>3, <3>4, <3>5
    <3> QED
      BY <3>6 DEF c
  <2> QED
    BY <2>4, <2>7, <2>8
<1>8. T = Nat
  <2>1. T \in SUBSET Nat
    OBVIOUS
  <2> HIDE DEF T
  <2> QED
    BY <1>6, <1>7, <2>1, Induction
<1>9. Len(w) - 1 \in T /\ Len(w) - 1 \in 0..Len(w) - 1 /\ (Len(w) - 1) + 1 = Len(w)
  BY <1>1, <1>8
<1>10. m <= r[Len(w) - 1] \/ (n \in D /\ s.dist[n] <= r[Len(w) - 1])
  BY <1>1, <1>9
<1> QED
  BY <1>2, <1>4, <1>9, <1>10 DEF PartLengths

-----------------------------------------------------------------------------
\* The whole search.

\* w is the way that the search has found.
IsAnswer(s, w) ==
  /\ w \in Walks(s.source, s.target) /\ s.dist[s.target] = Length(w)
  /\ \A v \in Walks(s.source, s.target) : s.dist[s.target] <= Length(v)
  /\ \A i \in 1..Len(w) - 1 : s.prev[w[i + 1]] = w[i]
TracedTo(s, w, k) == IsAnswer(s, w) /\ k \in 1..Len(w) /\ s.at = w[k] /\ s.nodes = SubSeq(w, k + 1, Len(w))
Tracing(s) == \E w, k : TracedTo(s, w, k)

Started == search \in Searches
SearchFits ==
  \/ search = NoSearch
  \/ search.phase = "unreachable" /\ ~({search.source, search.target} \subseteq RoadNodes)
  \/ /\ Started
     /\ search.phase = "search" => Searching(search) /\ search.at = search.target /\ search.nodes = << >>
     /\ search.phase = "trace" => Tracing(search)
     /\ search.phase = "found" => IsAnswer(search, search.nodes)
     /\ search.phase = "unreachable" => Walks(search.source, search.target) = {}

LEMMA FoundIsShortest ==
  ASSUME SearchFits
  PROVE  PathIsShortest
<1>1. CASE search = NoSearch
  BY <1>1 DEF NoSearch, PathIsShortest
<1>2. CASE search.phase = "unreachable" /\ ~({search.source, search.target} \subseteq RoadNodes)
  BY <1>2 DEF PathIsShortest, RoadNodes
<1>3. CASE /\ search.phase = "found" => IsAnswer(search, search.nodes)
           /\ search.phase = "unreachable" => Walks(search.source, search.target) = {}
  BY <1>3 DEF PathIsShortest, IsAnswer
<1> QED
  BY <1>1, <1>2, <1>3 DEF SearchFits

\* The target leaves the queue with its distance.
LEMMA TargetIsResult ==
  ASSUME GraphFits, NEW D, NEW b, Frontier(search, D, b), AllClosed(search, D), search.queue # {},
         search.dist[Top[2]] = Top[1], Top[2] = search.target
  PROVE  \E w : IsAnswer(search, w)
<1>1. IsList(graph.nodes) /\ EdgesFit(graph) /\ search \in Searches /\ D \in SUBSET RoadNodes
  BY DEF GraphFits, Frontier
<1>2. Top[2] \in RoadNodes /\ Top[1] \in Nat /\ Reached(search, Top[2]) /\ \A p \in search.queue : Top[1] <= p[1]
  BY <1>1, PopFits, TopIsFirst
<1>3. PICK w : Trail(search, D, w, search.target)
  BY <1>2 DEF Frontier, TrailsFit, HasTrail
<1>4. w \in Walks(search.source, search.target)
  BY <1>1, <1>3, TrailIsWalk
<1>5. search.dist[search.target] = Length(w)
  <2>1. search.dist[search.source] = 0
    BY DEF Frontier
  <2> QED
    BY <1>1, <1>3, <2>1, TrailHasLength
<1>6. ASSUME NEW v \in Walks(search.source, search.target) PROVE search.dist[search.target] <= Length(v)
  <2>1. Top[1] \in Int
    BY <1>2
  <2>2. Top[1] <= Length(v) \/ search.dist[search.target] <= Length(v)
    BY <1>1, <1>2, <2>1, WalkIsNotShorter
  <2> QED
    BY <2>2
<1>7. \A i \in 1..Len(w) - 1 : search.prev[w[i + 1]] = w[i]
  BY <1>3 DEF Trail
<1>8. IsAnswer(search, w)
  BY <1>4, <1>5, <1>6, <1>7 DEF IsAnswer
<1> QED
  BY <1>8

\* Nothing is left in the queue.
LEMMA NothingToTrace ==
  ASSUME GraphFits, Searching(search), search.queue = {}
  PROVE  search.dist[search.target] = Unreached /\ Walks(search.source, search.target) = {}
<1>1. PICK D, b : Frontier(search, D, b) /\ AllClosed(search, D) /\ search.target \notin D
  BY DEF Searching
<1>2. IsList(graph.nodes) /\ EdgesFit(graph) /\ search \in Searches /\ search.target \in RoadNodes
  BY <1>1 DEF GraphFits, Frontier, Searches
<1>3. ~Reached(search, search.target)
  BY <1>1, <1>2 DEF Frontier, NotForgotten
<1>4. ASSUME NEW v \in Walks(search.source, search.target) PROVE FALSE
  <2>1. Length(v) \in Nat
    BY <1>1, <1>2, WalkIsNotShorter
  <2>2. Length(v) + 1 \in Int /\ ~(Length(v) + 1 <= Length(v))
    BY <2>1
  <2>3. Length(v) + 1 <= Length(v) \/ search.target \in D
    BY <1>1, <1>2, <2>2, WalkIsNotShorter
  <2> QED
    BY <1>1, <2>2, <2>3
<1> QED
  BY <1>3, <1>4 DEF Reached

\* The fields that a step of the search can change keep their types.
LEMMA SearchWith ==
  ASSUME NEW s \in Searches, NEW ph \in {"search", "trace", "found", "unreachable"},
         NEW a \in RoadNodes \cup {0}, NEW l \in Seq(RoadNodes)
  PROVE  /\ [s EXCEPT !.phase = ph] \in Searches
         /\ [s EXCEPT !.nodes = l, !.at = a, !.phase = ph] \in Searches
<1> DEFINE P == [RoadNodes -> RoadNodes \cup {0}]
           Q == SUBSET (Nat \X RoadNodes)
           PHASES == {"search", "trace", "found", "unreachable"}
           S == Seq(RoadNodes)
           A == RoadNodes \cup {0}
           R == [phase : PHASES, source : RoadNodes, target : RoadNodes, nodes : S, at : A, queue : Q,
                 prev : P, dist : Distances]
<1>1. s \in R /\ ph \in PHASES /\ a \in A /\ l \in S
  BY DEF Searches
<1>2. [s EXCEPT !.phase = ph] \in R /\ [s EXCEPT !.nodes = l, !.at = a, !.phase = ph] \in R
  <2> HIDE DEF P, Q, S, A, PHASES
  <2> QED
    BY <1>1
<1> QED
  BY <1>2 DEF Searches

LEMMA NodesAreNumbers ==
  ASSUME IsList(graph.nodes)
  PROVE  RoadNodes \in SUBSET Nat /\ 0 \notin RoadNodes
BY DEF IsList, RoadNodes

\* What the search is in stays, as the graph does.
LEMMA SearchIsIn ==
  ASSUME graph' = graph, NEW s, search' = s, s \in Searches
  PROVE  search' \in Searches'
<1>1. RoadNodes' = RoadNodes
  BY DEF RoadNodes
<1>2. Searches' = Searches
  BY <1>1 DEF Searches, Distances
<1> QED
  BY <1>2

LEMMA WalksStay ==
  ASSUME graph' = graph
  PROVE  /\ RoadNodes' = RoadNodes /\ RoadEdges' = RoadEdges
         /\ \A a, b : Edge(a, b)' = Edge(a, b) /\ Walks(a, b)' = Walks(a, b)
         /\ \A w : Length(w)' = Length(w)
<1>1. RoadNodes' = RoadNodes /\ RoadEdges' = RoadEdges
  BY DEF RoadNodes, RoadEdges
<1>2. \A a, b : Edge(a, b)' = Edge(a, b)
  BY DEF Edge
<1>3. \A a, b : Walks(a, b)' = Walks(a, b)
  BY <1>2 DEF Walks
<1>4. \A w : Length(w)' = Length(w)
  <2>1. \A a, b : Shortest(a, b)' = Shortest(a, b)
    BY <1>2 DEF Shortest
  <2>2. \A w : Costs(w)' = Costs(w)
    BY <2>1 DEF Costs
  <2> QED
    BY <2>2 DEF Length
<1> QED
  BY <1>1, <1>2, <1>3, <1>4

LEMMA SearchGoesOn ==
  ASSUME graph' = graph, NEW s, search' = s, Searching(s)
  PROVE  Searching(search)'
<1>1. PICK D, b : Frontier(s, D, b) /\ AllClosed(s, D) /\ s.target \notin D
  BY DEF Searching
<1>2. RoadNodes' = RoadNodes /\ RoadEdges' = RoadEdges /\ \A a, c : Edge(a, c)' = Edge(a, c)
  BY WalksStay
<1>3. s \in Searches /\ D \in SUBSET RoadNodes /\ b \in Nat /\ s.dist[s.source] = 0
  BY <1>1 DEF Frontier
<1>4. (search \in Searches)'
  BY <1>3, SearchIsIn
<1>5. QueueFits(search, b)' /\ NotForgotten(search, D)' /\ DoneFits(search, D, b)'
  BY <1>1, <1>2 DEF Frontier, QueueFits, NotForgotten, DoneFits, Reached
<1>6. TrailsFit(search, D)'
  <2> SUFFICES ASSUME NEW n \in RoadNodes, Reached(s, n) PROVE HasTrail(search, D, n)'
    BY <1>2 DEF TrailsFit, Reached
  <2>1. PICK w : Trail(s, D, w, n)
    BY <1>1 DEF Frontier, TrailsFit, HasTrail
  <2>2. \A a, c : ByEdge(s, a, c) => ByEdge(search, a, c)'
    BY <1>2 DEF ByEdge
  <2>3. Trail(search, D, w, n)'
    BY <1>2, <2>1, <2>2 DEF Trail, IsInjective
  <2> QED
    BY <2>3 DEF HasTrail
<1>7. AllClosed(search, D)'
  BY <1>1, <1>2 DEF AllClosed, Closed, Reached
<1>8. Frontier(search, D, b)'
  BY <1>2, <1>3, <1>4, <1>5, <1>6 DEF Frontier
<1> QED
  BY <1>1, <1>7, <1>8 DEF Searching

LEMMA SearchStarts ==
  ASSUME GraphFits, NEW source, NEW target, StartSearch(source, target)
  PROVE  SearchFits'
<1>1. graph' = graph /\ RoadNodes' = RoadNodes
  BY DEF StartSearch, RoadNodes
<1>2. CASE ~(source \in DOMAIN graph.nodes /\ target \in DOMAIN graph.nodes)
  <2>1. search' = [phase |-> "unreachable", source |-> source, target |-> target]
    BY <1>2 DEF StartSearch
  <2>2. ~({search.source, search.target} \subseteq RoadNodes)' /\ search'.phase = "unreachable"
    BY <1>1, <1>2, <2>1 DEF RoadNodes
  <2> QED
    BY <2>2 DEF SearchFits
<1>3. CASE source \in DOMAIN graph.nodes /\ target \in DOMAIN graph.nodes
  <2> DEFINE s == [phase |-> "search", source |-> source, target |-> target, nodes |-> << >>, at |-> target,
                   queue |-> {<< 0, source >>}, prev |-> [n \in RoadNodes |-> 0],
                   dist |-> [n \in RoadNodes |-> IF n = source THEN 0 ELSE Unreached]]
  <2>1. search' = s /\ source \in RoadNodes /\ target \in RoadNodes
    BY <1>3 DEF StartSearch, RoadNodes
  <2>2. s \in Searches
    <3>1. [n \in RoadNodes |-> IF n = source THEN 0 ELSE Unreached] \in Distances
      BY DEF Distances
    <3>2. << >> \in Seq(RoadNodes)
      OBVIOUS
    <3>3. {<< 0, source >>} \in SUBSET (Nat \X RoadNodes) /\ [n \in RoadNodes |-> 0] \in [RoadNodes -> RoadNodes \cup {0}]
      BY <2>1
    <3> QED
      BY <2>1, <3>1, <3>2, <3>3 DEF Searches
  <2>3. /\ s.source = source /\ s.target = target /\ s.dist[source] = 0 /\ s.queue = {<< 0, source >>}
        /\ \A n \in RoadNodes : Reached(s, n) <=> n = source
        /\ s.phase = "search" /\ s.at = s.target /\ s.nodes = << >>
    BY <2>1 DEF Reached, Unreached
  <2> HIDE DEF s
  <2>4. HasTrail(s, {}, source)
    <3> DEFINE w == << source >>
    <3>1. w \in Seq(RoadNodes) /\ Len(w) = 1 /\ w[1] = source /\ DOMAIN w = 1..1
      BY <2>1
    <3> HIDE DEF w
    <3>2. IsInjective(w)
      BY <3>1 DEF IsInjective
    <3>3. Trail(s, {}, w, source)
      BY <2>3, <3>1, <3>2 DEF Trail
    <3> QED
      BY <3>3 DEF HasTrail
  <2>5. QueueFits(s, 0) /\ NotForgotten(s, {}) /\ DoneFits(s, {}, 0) /\ TrailsFit(s, {})
    BY <2>1, <2>3, <2>4 DEF QueueFits, NotForgotten, DoneFits, TrailsFit
  <2>6. Frontier(s, {}, 0) /\ AllClosed(s, {}) /\ s.target \notin {}
    BY <2>2, <2>3, <2>5 DEF Frontier, AllClosed
  <2>7. Searching(s)
    BY <2>6 DEF Searching
  <2>8. SearchFits'
    <3>1. Searching(search)'
      BY <1>1, <2>1, <2>7, SearchGoesOn
    <3>2. Started'
      BY <1>1, <2>1, <2>2, SearchIsIn DEF Started
    <3> QED
      BY <2>1, <2>3, <3>1, <3>2 DEF SearchFits
  <2> QED
    BY <2>8
<1> QED
  BY <1>2, <1>3

\* What the search has found stays, as its distances and predecessors do.
LEMMA AnswerStays ==
  ASSUME graph' = graph, search'.source = search.source, search'.target = search.target,
         search'.dist = search.dist, search'.prev = search.prev, NEW w, IsAnswer(search, w)
  PROVE  IsAnswer(search, w)'
<1>1. /\ \A a, b : Walks(a, b)' = Walks(a, b)
      /\ \A v : Length(v)' = Length(v)
  BY WalksStay
<1>2. w \in Walks(search.source, search.target)' /\ search'.dist[search'.target] = Length(w)'
  BY <1>1 DEF IsAnswer
<1>3. \A v \in Walks(search.source, search.target)' : search'.dist[search'.target] <= Length(v)'
  BY <1>1 DEF IsAnswer
<1>4. \A i \in 1..Len(w) - 1 : search'.prev[w[i + 1]] = w[i]
  BY DEF IsAnswer
<1> QED
  BY <1>2, <1>3, <1>4 DEF IsAnswer

\* The target leaves the queue: the trace starts.
LEMMA TraceStarts ==
  ASSUME GraphFits, NEW D, NEW b, Frontier(search, D, b), AllClosed(search, D), search.queue # {},
         search.dist[Top[2]] = Top[1], Top[2] = search.target,
         search.at = search.target, search.nodes = << >>,
         graph' = graph, search' = [search EXCEPT !.phase = "trace"]
  PROVE  SearchFits'
<1>1. search \in Searches
  BY DEF Frontier
<1>2. PICK w : IsAnswer(search, w)
  BY TargetIsResult
<1>3. [search EXCEPT !.phase = "trace"] \in Searches
  <2>1. "trace" \in {"search", "trace", "found", "unreachable"} /\ 0 \in RoadNodes \cup {0} /\ << >> \in Seq(RoadNodes)
    OBVIOUS
  <2> QED
    BY <1>1, <2>1, SearchWith
<1>4. Started'
  BY <1>3, SearchIsIn DEF Started
<1>5. /\ search'.source = search.source /\ search'.target = search.target /\ search'.dist = search.dist
      /\ search'.prev = search.prev /\ search'.at = search.at /\ search'.nodes = << >> /\ search'.phase = "trace"
  BY <1>1 DEF Searches
<1>6. IsAnswer(search, w)'
  BY <1>2, <1>5, AnswerStays
<1>7. w \in Seq(RoadNodes) /\ Len(w) \in Nat /\ Len(w) >= 1 /\ w[Len(w)] = search.target
  <2>1. w \in Walks(search.source, search.target) /\ IsList(graph.nodes)
    BY <1>2 DEF IsAnswer, GraphFits
  <2> QED
    BY <2>1, WalkIsList
<1>8. SubSeq(w, Len(w) + 1, Len(w)) = << >>
  <2>1. Len(w) + 1 \in Int /\ Len(w) \in Int /\ Len(w) < Len(w) + 1
    BY <1>7
  <2> QED
    BY <2>1, SubSeqEmpty
<1>9. search'.at = w[Len(w)] /\ search'.nodes = SubSeq(w, Len(w) + 1, Len(w)) /\ Len(w) \in 1..Len(w)
  <2>1. Len(w) \in 1..Len(w)
    BY <1>7
  <2>2. search'.at = w[Len(w)]
    BY <1>5, <1>7
  <2>3. search'.nodes = SubSeq(w, Len(w) + 1, Len(w))
    BY <1>5, <1>8, Zenon
  <2> QED
    BY <2>1, <2>2, <2>3
<1>10. TracedTo(search, w, Len(w))'
  BY <1>6, <1>9 DEF TracedTo
<1>11. Tracing(search)'
  BY <1>10 DEF Tracing
<1> QED
  BY <1>4, <1>5, <1>11 DEF SearchFits

LEMMA SearchGoesOnFits ==
  ASSUME graph' = graph, NEW s, search' = s, Searching(s), s.phase = "search", s.at = s.target, s.nodes = << >>
  PROVE  SearchFits'
<1>1. s \in Searches
  BY DEF Searching, Frontier
<1>2. Started'
  BY <1>1, SearchIsIn DEF Started
<1>3. Searching(search)'
  BY SearchGoesOn
<1> QED
  BY <1>2, <1>3 DEF SearchFits

\* An entry of the queue is stale, or is the target, or the edges of its node are looked at.
LEMMA PopKeeps ==
  ASSUME GraphFits, SearchFits, PopQueue
  PROVE  SearchFits'
<1>1. search.phase = "search" /\ search.queue # {} /\ graph' = graph
  BY DEF PopQueue
<1>2. search # NoSearch /\ search.phase # "unreachable"
  BY <1>1 DEF NoSearch
<1>3. search \in Searches /\ Searching(search) /\ search.at = search.target /\ search.nodes = << >>
  BY <1>1, <1>2 DEF SearchFits, Started
<1>4. PICK D, b : Frontier(search, D, b) /\ AllClosed(search, D) /\ search.target \notin D
  BY <1>3 DEF Searching
<1>5. /\ Top \in search.queue /\ Top[1] \in Nat /\ Top[2] \in RoadNodes /\ search.dist[Top[2]] \in Nat
      /\ search.dist[Top[2]] <= Top[1]
      /\ search.dist[Top[2]] < Top[1] => Frontier(Popped, D, b)
  BY <1>1, <1>4, PopFits
<1>6. search' = IF Top[1] > search.dist[Top[2]] THEN Popped
                ELSE IF Top[2] = search.target THEN [search EXCEPT !.phase = "trace"]
                ELSE RelaxAll(Top[1], Top[2])
  BY DEF PopQueue, EndsAt
<1>7. Popped.dist = search.dist /\ SameCall(search, Popped)
  BY <1>3, PoppedIsSearch
<1>8. CASE Top[1] > search.dist[Top[2]]
  <2>1. search' = Popped /\ Frontier(Popped, D, b)
    BY <1>5, <1>6, <1>8
  <2>2. AllClosed(Popped, D)
    BY <1>4, <1>7 DEF AllClosed, Closed, Reached
  <2>3. /\ Popped.target = search.target /\ Popped.at = Popped.target /\ Popped.nodes = << >>
        /\ Popped.phase = "search"
    BY <1>1, <1>3, <1>7 DEF SameCall
  <2>4. Searching(Popped)
    BY <1>4, <2>1, <2>2, <2>3 DEF Searching
  <2> QED
    BY <1>1, <2>1, <2>3, <2>4, SearchGoesOnFits
<1>9. CASE ~(Top[1] > search.dist[Top[2]]) /\ Top[2] = search.target
  <2>1. search.dist[Top[2]] = Top[1]
    BY <1>5, <1>9
  <2>2. search' = [search EXCEPT !.phase = "trace"]
    BY <1>6, <1>9
  <2> QED
    BY <1>1, <1>3, <1>4, <1>9, <2>1, <2>2, TraceStarts
<1>10. CASE ~(Top[1] > search.dist[Top[2]]) /\ Top[2] # search.target
  <2> DEFINE t == RelaxAll(Top[1], Top[2])
  <2>1. search.dist[Top[2]] = Top[1]
    BY <1>5, <1>10
  <2>2. search' = t
    BY <1>6, <1>10
  <2>3. Frontier(t, D \cup {Top[2]}, Top[1]) /\ AllClosed(t, D \cup {Top[2]}) /\ SameCall(search, t)
    BY <1>1, <1>4, <2>1, RelaxAllFits
  <2> HIDE DEF t
  <2>4. t.target = search.target /\ t.at = t.target /\ t.nodes = << >> /\ t.phase = "search"
    BY <1>1, <1>3, <2>3 DEF SameCall
  <2>5. t.target \notin D \cup {Top[2]}
    BY <1>4, <1>10, <2>4
  <2>6. Searching(t)
    BY <2>3, <2>5 DEF Searching
  <2> QED
    BY <1>1, <2>2, <2>4, <2>6, SearchGoesOnFits
<1> QED
  BY <1>8, <1>9, <1>10

LEMMA QueueEmptyKeeps ==
  ASSUME GraphFits, SearchFits, QueueEmpty
  PROVE  SearchFits'
<1>1. search.phase = "search" /\ search.queue = {} /\ graph' = graph
  BY DEF QueueEmpty
<1>2. search # NoSearch /\ search.phase # "unreachable"
  BY <1>1 DEF NoSearch
<1>3. search \in Searches /\ Searching(search)
  BY <1>1, <1>2 DEF SearchFits, Started
<1>4. search.dist[search.target] = Unreached /\ Walks(search.source, search.target) = {}
  BY <1>1, <1>3, NothingToTrace
<1>5. search' = [search EXCEPT !.phase = "unreachable"]
  BY <1>4 DEF QueueEmpty
<1>6. [search EXCEPT !.phase = "unreachable"] \in Searches
  <2>1. "unreachable" \in {"search", "trace", "found", "unreachable"} /\ 0 \in RoadNodes \cup {0} /\ << >> \in Seq(RoadNodes)
    OBVIOUS
  <2> QED
    BY <1>3, <2>1, SearchWith
<1>7. Started'
  BY <1>1, <1>5, <1>6, SearchIsIn DEF Started
<1>8. search'.source = search.source /\ search'.target = search.target /\ search'.phase = "unreachable"
  BY <1>3, <1>5 DEF Searches
<1>9. Walks(search.source, search.target)' = {}
  BY <1>1, <1>4, <1>8, WalksStay
<1> QED
  BY <1>7, <1>8, <1>9 DEF SearchFits

LEMMA TraceKeeps ==
  ASSUME GraphFits, SearchFits, Trace
  PROVE  SearchFits'
<1>1. search.phase = "trace" /\ graph' = graph
  BY DEF Trace
<1>2. search # NoSearch /\ search.phase # "unreachable"
  BY <1>1 DEF NoSearch
<1>3. search \in Searches /\ Tracing(search)
  BY <1>1, <1>2 DEF SearchFits, Started
<1>4. PICK w, k : TracedTo(search, w, k)
  BY <1>3 DEF Tracing
<1>5. IsAnswer(search, w) /\ k \in 1..Len(w) /\ search.at = w[k] /\ search.nodes = SubSeq(w, k + 1, Len(w))
  BY <1>4 DEF TracedTo
<1>6. w \in Walks(search.source, search.target) /\ IsList(graph.nodes)
  BY <1>5 DEF IsAnswer, GraphFits
<1>7. /\ w \in Seq(RoadNodes) /\ Len(w) \in Nat /\ Len(w) >= 1 /\ w[1] = search.source
      /\ \A i \in 1..Len(w) : w[i] \in RoadNodes
  BY <1>6, WalkIsList
<1>8. DOMAIN w = 1..Len(w) /\ IsInjective(w)
  BY <1>6, <1>7, LenProperties DEF Walks
<1> DEFINE ph == IF search.at = search.source THEN "found" ELSE "trace"
           a == search.prev[search.at]
           l == << search.at >> \o search.nodes
<1>9. search' = [search EXCEPT !.nodes = l, !.at = a, !.phase = ph]
  BY DEF Trace
<1>10. search.at = search.source <=> k = 1
  BY <1>5, <1>7, <1>8 DEF IsInjective
<1>11. a \in RoadNodes \cup {0}
  <2>1. search.prev \in [RoadNodes -> RoadNodes \cup {0}] /\ search.at \in RoadNodes
    BY <1>3, <1>5, <1>7 DEF Searches
  <2> QED
    BY <2>1
<1>12. l = SubSeq(w, k, Len(w))
  BY <1>5, <1>7
<1>13. l \in Seq(RoadNodes)
  BY <1>3, <1>5, <1>7 DEF Searches
<1>14. k # 1 => a = w[k - 1]
  <2> SUFFICES ASSUME k # 1 PROVE search.prev[w[k]] = w[k - 1]
    BY <1>5
  <2>1. k - 1 \in 1..Len(w) - 1 /\ (k - 1) + 1 = k
    BY <1>5, <1>7
  <2> QED
    BY <1>5, <2>1 DEF IsAnswer
<1>15. ph \in {"search", "trace", "found", "unreachable"}
  OBVIOUS
<1> HIDE DEF ph, a, l
<1>16. [search EXCEPT !.nodes = l, !.at = a, !.phase = ph] \in Searches
  BY <1>3, <1>11, <1>13, <1>15, SearchWith
<1>17. Started'
  BY <1>1, <1>9, <1>16, SearchIsIn DEF Started
<1>18. /\ search'.source = search.source /\ search'.target = search.target /\ search'.dist = search.dist
       /\ search'.prev = search.prev /\ search'.at = a /\ search'.nodes = l /\ search'.phase = ph
  BY <1>3, <1>9 DEF Searches
<1>19. IsAnswer(search, w)'
  BY <1>1, <1>5, <1>18, AnswerStays
<1>20. CASE k = 1
  <2>1. SubSeq(w, 1, Len(w)) = w
    BY <1>7
  <2>2. search'.nodes = w /\ search'.phase = "found"
    BY <1>10, <1>12, <1>18, <1>20, <2>1 DEF ph
  <2> QED
    BY <1>17, <1>19, <2>2 DEF SearchFits
<1>21. CASE k # 1
  <2>1. k - 1 \in 1..Len(w) /\ (k - 1) + 1 = k
    BY <1>5, <1>7, <1>21
  <2>2. search'.phase = "trace" /\ search'.at = w[k - 1] /\ search'.nodes = SubSeq(w, (k - 1) + 1, Len(w))
    BY <1>10, <1>12, <1>14, <1>18, <1>21, <2>1 DEF ph
  <2>3. TracedTo(search, w, k - 1)'
    BY <1>19, <2>1, <2>2 DEF TracedTo
  <2>4. Tracing(search)'
    BY <2>3 DEF Tracing
  <2> QED
    BY <1>17, <2>2, <2>4 DEF SearchFits
<1> QED
  BY <1>20, <1>21

LEMMA SearchStays ==
  ASSUME SearchFits, UNCHANGED << graph, search >>
  PROVE  SearchFits'
<1>1. /\ RoadNodes' = RoadNodes
      /\ \A a, b : Walks(a, b)' = Walks(a, b)
      /\ \A v : Length(v)' = Length(v)
  BY WalksStay
<1>2. Started => Started'
  BY SearchIsIn DEF Started
<1>3. Searching(search) => Searching(search)'
  BY SearchGoesOn
<1>4. \A w : IsAnswer(search, w) => IsAnswer(search, w)'
  BY AnswerStays
<1>5. Tracing(search) => Tracing(search)'
  BY <1>4 DEF Tracing, TracedTo
<1>6. CASE search = NoSearch
  BY <1>6 DEF SearchFits, NoSearch
<1>7. CASE search.phase = "unreachable" /\ ~({search.source, search.target} \subseteq RoadNodes)
  BY <1>1, <1>7 DEF SearchFits
<1>8. CASE /\ Started
           /\ search.phase = "search" => Searching(search) /\ search.at = search.target /\ search.nodes = << >>
           /\ search.phase = "trace" => Tracing(search)
           /\ search.phase = "found" => IsAnswer(search, search.nodes)
           /\ search.phase = "unreachable" => Walks(search.source, search.target) = {}
  <2>1. search.phase = "unreachable" => Walks(search.source, search.target)' = {}
    BY <1>1, <1>8
  <2> QED
    BY <1>2, <1>3, <1>4, <1>5, <1>8, <2>1 DEF SearchFits
<1> QED
  BY <1>6, <1>7, <1>8 DEF SearchFits


-----------------------------------------------------------------------------
\* The recursions that build the graph.

\* An edge from each ref to the next one.
LEMMA AddWayUnfolds ==
  ASSUME NEW g, NEW way, NEW anchor,
         Len(way.refs) - 1 \in Nat
  PROVE  \E r : /\ r[0] = g /\ AddWay(g, way, anchor) = r[Len(way.refs) - 1]
                /\ \A n \in 1..Len(way.refs) - 1 : r[n] = AddPair(r[n - 1], way, anchor, way.refs[n], way.refs[n + 1])
<1> DEFINE Op(n, x) == AddPair(x, way, anchor, way.refs[n], way.refs[n + 1])
           base == g
           N == Len(way.refs) - 1
           F(v) == [n \in 0..N |-> IF n = 0 THEN base ELSE Op(n, v[n - 1])]
           rec == CHOOSE v : v = F(v)
           Good(m, v) == v[0] = base /\ \A n \in 1..m : v[n] = Op(n, v[n - 1])
           T == { m \in Nat : \E v : Good(m, v) }
<1>1. AddWay(g, way, anchor) = rec[N]
  BY DEF AddWay
<1>2. N \in Nat
  OBVIOUS
<1> HIDE DEF Op, base, N
<1>3. 0 \in T
  <2>1. Good(0, [n \in 0..0 |-> base])
    OBVIOUS
  <2> QED
    BY <2>1
<1>4. ASSUME NEW m \in T PROVE m + 1 \in T
  <2>1. PICK v : Good(m, v)
    OBVIOUS
  <2> DEFINE h == [n \in 0..m + 1 |-> IF n = m + 1 THEN Op(m + 1, v[m]) ELSE v[n]]
  <2>2. m \in Nat /\ m + 1 # 0 /\ m + 1 \in 0..m + 1 /\ (m + 1) - 1 = m
    OBVIOUS
  <2>3. h[m + 1] = Op(m + 1, v[m]) /\ \A n \in 0..m : h[n] = v[n]
    BY <2>2
  <2> HIDE DEF h
  <2>4. ASSUME NEW n \in 1..m + 1 PROVE h[n] = Op(n, h[n - 1])
    <3>1. n - 1 \in 0..m
      BY <2>2
    <3>2. h[n - 1] = v[n - 1]
      BY <2>3, <3>1
    <3>3. CASE n = m + 1
      <4>1. h[n - 1] = v[m]
        BY <2>2, <3>2, <3>3
      <4> QED
        BY <2>3, <3>3, <4>1
    <3>4. CASE n # m + 1
      <4>1. n \in 1..m /\ n \in 0..m
        BY <2>2, <3>4
      <4>2. h[n] = v[n] /\ v[n] = Op(n, v[n - 1])
        BY <2>1, <2>3, <4>1
      <4> QED
        BY <3>2, <4>2
    <3> QED
      BY <3>3, <3>4
  <2>5. h[0] = base
    BY <2>1, <2>2, <2>3
  <2>6. Good(m + 1, h)
    BY <2>4, <2>5
  <2> HIDE DEF Good
  <2> QED
    BY <2>2, <2>6
<1>5. T = Nat
  <2>1. T \in SUBSET Nat
    OBVIOUS
  <2> HIDE DEF T
  <2> QED
    BY <1>3, <1>4, <2>1, Induction
<1>6. PICK v : Good(N, v)
  BY <1>2, <1>5
<1> DEFINE f == [n \in 0..N |-> v[n]]
<1>7. f = F(f)
  <2>1. ASSUME NEW n \in 0..N PROVE f[n] = IF n = 0 THEN base ELSE Op(n, f[n - 1])
    <3>1. CASE n = 0
      BY <1>6, <3>1
    <3>2. CASE n # 0
      <4>1. n \in 1..N /\ n - 1 \in 0..N
        BY <1>2, <3>2
      <4>2. f[n] = v[n] /\ f[n - 1] = v[n - 1]
        BY <4>1
      <4> HIDE DEF f
      <4> QED
        BY <1>6, <3>2, <4>1, <4>2
    <3> QED
      BY <3>1, <3>2
  <2>2. f = [n \in 0..N |-> f[n]]
    OBVIOUS
  <2> HIDE DEF f
  <2> QED
    BY <2>1, <2>2
<1>8. rec = F(rec)
  <2> HIDE DEF F, f
  <2> QED
    BY <1>7
<1> HIDE DEF rec
<1>9. \A n \in 0..N : rec[n] = IF n = 0 THEN base ELSE Op(n, rec[n - 1])
  BY <1>8
<1>10. rec[0] = base
  BY <1>2, <1>9
<1>11. \A n \in 1..N : rec[n] = Op(n, rec[n - 1])
  BY <1>2, <1>9
<1>12. /\ rec[0] = base /\ AddWay(g, way, anchor) = rec[N]
       /\ \A n \in 1..N : rec[n] = Op(n, rec[n - 1])
  BY <1>1, <1>10, <1>11
<1> QED
  BY <1>12 DEF Op, base, N

\* One way after the other.
LEMMA AddWaysUnfolds ==
  ASSUME NEW anchor,
         Len(rawWays) \in Nat
  PROVE  \E r : /\ r[0] = NoGraph /\ AddWays(anchor) = r[Len(rawWays)]
                /\ \A n \in 1..Len(rawWays) : r[n] = AddIfKept(r[n - 1], rawWays[n], anchor)
<1> DEFINE Op(n, x) == AddIfKept(x, rawWays[n], anchor)
           base == NoGraph
           N == Len(rawWays)
           F(v) == [n \in 0..N |-> IF n = 0 THEN base ELSE Op(n, v[n - 1])]
           rec == CHOOSE v : v = F(v)
           Good(m, v) == v[0] = base /\ \A n \in 1..m : v[n] = Op(n, v[n - 1])
           T == { m \in Nat : \E v : Good(m, v) }
<1>1. AddWays(anchor) = rec[N]
  BY DEF AddWays
<1>2. N \in Nat
  OBVIOUS
<1> HIDE DEF Op, base, N
<1>3. 0 \in T
  <2>1. Good(0, [n \in 0..0 |-> base])
    OBVIOUS
  <2> QED
    BY <2>1
<1>4. ASSUME NEW m \in T PROVE m + 1 \in T
  <2>1. PICK v : Good(m, v)
    OBVIOUS
  <2> DEFINE h == [n \in 0..m + 1 |-> IF n = m + 1 THEN Op(m + 1, v[m]) ELSE v[n]]
  <2>2. m \in Nat /\ m + 1 # 0 /\ m + 1 \in 0..m + 1 /\ (m + 1) - 1 = m
    OBVIOUS
  <2>3. h[m + 1] = Op(m + 1, v[m]) /\ \A n \in 0..m : h[n] = v[n]
    BY <2>2
  <2> HIDE DEF h
  <2>4. ASSUME NEW n \in 1..m + 1 PROVE h[n] = Op(n, h[n - 1])
    <3>1. n - 1 \in 0..m
      BY <2>2
    <3>2. h[n - 1] = v[n - 1]
      BY <2>3, <3>1
    <3>3. CASE n = m + 1
      <4>1. h[n - 1] = v[m]
        BY <2>2, <3>2, <3>3
      <4> QED
        BY <2>3, <3>3, <4>1
    <3>4. CASE n # m + 1
      <4>1. n \in 1..m /\ n \in 0..m
        BY <2>2, <3>4
      <4>2. h[n] = v[n] /\ v[n] = Op(n, v[n - 1])
        BY <2>1, <2>3, <4>1
      <4> QED
        BY <3>2, <4>2
    <3> QED
      BY <3>3, <3>4
  <2>5. h[0] = base
    BY <2>1, <2>2, <2>3
  <2>6. Good(m + 1, h)
    BY <2>4, <2>5
  <2> HIDE DEF Good
  <2> QED
    BY <2>2, <2>6
<1>5. T = Nat
  <2>1. T \in SUBSET Nat
    OBVIOUS
  <2> HIDE DEF T
  <2> QED
    BY <1>3, <1>4, <2>1, Induction
<1>6. PICK v : Good(N, v)
  BY <1>2, <1>5
<1> DEFINE f == [n \in 0..N |-> v[n]]
<1>7. f = F(f)
  <2>1. ASSUME NEW n \in 0..N PROVE f[n] = IF n = 0 THEN base ELSE Op(n, f[n - 1])
    <3>1. CASE n = 0
      BY <1>6, <3>1
    <3>2. CASE n # 0
      <4>1. n \in 1..N /\ n - 1 \in 0..N
        BY <1>2, <3>2
      <4>2. f[n] = v[n] /\ f[n - 1] = v[n - 1]
        BY <4>1
      <4> HIDE DEF f
      <4> QED
        BY <1>6, <3>2, <4>1, <4>2
    <3> QED
      BY <3>1, <3>2
  <2>2. f = [n \in 0..N |-> f[n]]
    OBVIOUS
  <2> HIDE DEF f
  <2> QED
    BY <2>1, <2>2
<1>8. rec = F(rec)
  <2> HIDE DEF F, f
  <2> QED
    BY <1>7
<1> HIDE DEF rec
<1>9. \A n \in 0..N : rec[n] = IF n = 0 THEN base ELSE Op(n, rec[n - 1])
  BY <1>8
<1>10. rec[0] = base
  BY <1>2, <1>9
<1>11. \A n \in 1..N : rec[n] = Op(n, rec[n - 1])
  BY <1>2, <1>9
<1>12. /\ rec[0] = base /\ AddWays(anchor) = rec[N]
       /\ \A n \in 1..N : rec[n] = Op(n, rec[n - 1])
  BY <1>1, <1>10, <1>11
<1> QED
  BY <1>12 DEF Op, base, N

\* One edge after the other.
LEMMA OutEdgesUnfolds ==
  ASSUME NEW g,
         Len(g.edges) \in Nat
  PROVE  \E r : /\ r[0] = [n \in DOMAIN g.nodes |-> << >>] /\ OutEdges(g) = r[Len(g.edges)]
                /\ \A n \in 1..Len(g.edges) : r[n] = AtSource(r[n - 1], g, n)
<1> DEFINE Op(n, x) == AtSource(x, g, n)
           base == [n \in DOMAIN g.nodes |-> << >>]
           N == Len(g.edges)
           F(v) == [n \in 0..N |-> IF n = 0 THEN base ELSE Op(n, v[n - 1])]
           rec == CHOOSE v : v = F(v)
           Good(m, v) == v[0] = base /\ \A n \in 1..m : v[n] = Op(n, v[n - 1])
           T == { m \in Nat : \E v : Good(m, v) }
<1>1. OutEdges(g) = rec[N]
  BY DEF OutEdges
<1>2. N \in Nat
  OBVIOUS
<1> HIDE DEF Op, base, N
<1>3. 0 \in T
  <2>1. Good(0, [n \in 0..0 |-> base])
    OBVIOUS
  <2> QED
    BY <2>1
<1>4. ASSUME NEW m \in T PROVE m + 1 \in T
  <2>1. PICK v : Good(m, v)
    OBVIOUS
  <2> DEFINE h == [n \in 0..m + 1 |-> IF n = m + 1 THEN Op(m + 1, v[m]) ELSE v[n]]
  <2>2. m \in Nat /\ m + 1 # 0 /\ m + 1 \in 0..m + 1 /\ (m + 1) - 1 = m
    OBVIOUS
  <2>3. h[m + 1] = Op(m + 1, v[m]) /\ \A n \in 0..m : h[n] = v[n]
    BY <2>2
  <2> HIDE DEF h
  <2>4. ASSUME NEW n \in 1..m + 1 PROVE h[n] = Op(n, h[n - 1])
    <3>1. n - 1 \in 0..m
      BY <2>2
    <3>2. h[n - 1] = v[n - 1]
      BY <2>3, <3>1
    <3>3. CASE n = m + 1
      <4>1. h[n - 1] = v[m]
        BY <2>2, <3>2, <3>3
      <4> QED
        BY <2>3, <3>3, <4>1
    <3>4. CASE n # m + 1
      <4>1. n \in 1..m /\ n \in 0..m
        BY <2>2, <3>4
      <4>2. h[n] = v[n] /\ v[n] = Op(n, v[n - 1])
        BY <2>1, <2>3, <4>1
      <4> QED
        BY <3>2, <4>2
    <3> QED
      BY <3>3, <3>4
  <2>5. h[0] = base
    BY <2>1, <2>2, <2>3
  <2>6. Good(m + 1, h)
    BY <2>4, <2>5
  <2> HIDE DEF Good
  <2> QED
    BY <2>2, <2>6
<1>5. T = Nat
  <2>1. T \in SUBSET Nat
    OBVIOUS
  <2> HIDE DEF T
  <2> QED
    BY <1>3, <1>4, <2>1, Induction
<1>6. PICK v : Good(N, v)
  BY <1>2, <1>5
<1> DEFINE f == [n \in 0..N |-> v[n]]
<1>7. f = F(f)
  <2>1. ASSUME NEW n \in 0..N PROVE f[n] = IF n = 0 THEN base ELSE Op(n, f[n - 1])
    <3>1. CASE n = 0
      BY <1>6, <3>1
    <3>2. CASE n # 0
      <4>1. n \in 1..N /\ n - 1 \in 0..N
        BY <1>2, <3>2
      <4>2. f[n] = v[n] /\ f[n - 1] = v[n - 1]
        BY <4>1
      <4> HIDE DEF f
      <4> QED
        BY <1>6, <3>2, <4>1, <4>2
    <3> QED
      BY <3>1, <3>2
  <2>2. f = [n \in 0..N |-> f[n]]
    OBVIOUS
  <2> HIDE DEF f
  <2> QED
    BY <2>1, <2>2
<1>8. rec = F(rec)
  <2> HIDE DEF F, f
  <2> QED
    BY <1>7
<1> HIDE DEF rec
<1>9. \A n \in 0..N : rec[n] = IF n = 0 THEN base ELSE Op(n, rec[n - 1])
  BY <1>8
<1>10. rec[0] = base
  BY <1>2, <1>9
<1>11. \A n \in 1..N : rec[n] = Op(n, rec[n - 1])
  BY <1>2, <1>9
<1>12. /\ rec[0] = base /\ OutEdges(g) = rec[N]
       /\ \A n \in 1..N : rec[n] = Op(n, rec[n - 1])
  BY <1>1, <1>10, <1>11
<1> QED
  BY <1>12 DEF Op, base, N

-----------------------------------------------------------------------------
\* The graph that is built.

IsWay(w) == w = [x \in DOMAIN w |-> w[x]] /\ "refs" \in DOMAIN w /\ IsList(w.refs)
RawFits ==
  /\ \A id \in DOMAIN rawNodes : rawNodes[id] \in Int \X Int
  /\ IsList(rawWays) /\ \A k \in 1..Len(rawWays) : IsWay(rawWays[k])

\* A graph that grows: nodes with a place, and edges between them.
IsGraph(g) == g = [nodes |-> g.nodes, edges |-> g.edges, adjacency |-> g.adjacency]
NodesFit(g) ==
  IsList(g.nodes) /\ \A n \in 1..Len(g.nodes) : g.nodes[n].id \in DOMAIN rawNodes /\ g.nodes[n].pos \in Int \X Int
LinksFit(g) ==
  /\ IsList(g.edges)
  /\ \A e \in 1..Len(g.edges) :
       g.edges[e].from \in 1..Len(g.nodes) /\ g.edges[e].to \in 1..Len(g.nodes) /\ g.edges[e].length \in Nat
Sound(g) == IsGraph(g) /\ NodesFit(g) /\ LinksFit(g) /\ LinesFit(g)

LEMMA ListGrows ==
  ASSUME NEW s, IsList(s), NEW x
  PROVE  /\ IsList(Append(s, x)) /\ Len(Append(s, x)) = Len(s) + 1 /\ DOMAIN s = 1..Len(s)
         /\ Append(s, x)[Len(s) + 1] = x /\ \A i \in 1..Len(s) : Append(s, x)[i] = s[i]
<1> DEFINE S == { s[i] : i \in 1..Len(s) } \cup {x}
           n == Len(s)
           t == Append(s, x)
<1>1. n \in Nat /\ s = [i \in 1..n |-> s[i]]
  BY DEF IsList
<1>2. s \in [1..n -> S]
  BY <1>1
<1>3. s \in Seq(S)
  BY <1>1, <1>2, SeqDef
<1>4. x \in S
  OBVIOUS
<1> HIDE DEF S
<1>5. /\ t \in Seq(S) /\ Len(t) = n + 1 /\ t[n + 1] = x
      /\ \A i \in 1..n : t[i] = s[i]
  BY <1>3, <1>4, AppendProperties
<1> HIDE DEF t
<1>6. t \in [1..n + 1 -> S]
  <2>1. DOMAIN t = 1..n + 1
    BY <1>5, LenProperties
  <2> QED
    BY <1>5, <2>1, LenProperties
<1>7. IsList(t)
  BY <1>1, <1>5, <1>6 DEF IsList
<1>8. DOMAIN s = 1..Len(s)
  BY <1>2
<1> QED
  BY <1>5, <1>7, <1>8 DEF t

LEMMA EmptyIsList == IsList(<< >>) /\ Len(<< >>) = 0
<1>1. Len(<< >>) = 0
  OBVIOUS
<1>2. << >> = [i \in 1..0 |-> << >>[i]]
  <2>1. << >> \in [1..0 -> {}]
    OBVIOUS
  <2> QED
    BY <2>1
<1> QED
  BY <1>1, <1>2 DEF IsList

LEMMA NothingIsSound == Sound(NoGraph)
<1>1. NoGraph.nodes = << >> /\ NoGraph.edges = << >> /\ IsGraph(NoGraph)
  BY DEF NoGraph, IsGraph
<1>2. NodesFit(NoGraph)
  BY <1>1, EmptyIsList DEF NodesFit
<1>3. LinksFit(NoGraph)
  BY <1>1, EmptyIsList DEF LinksFit
<1>4. LinesFit(NoGraph)
  BY <1>1, EmptyIsList DEF LinesFit
<1> QED
  BY <1>1, <1>2, <1>3, <1>4 DEF Sound

\* Nodes are only added.
Grows(g, h) ==
  /\ h.edges = g.edges
  /\ \A id : HasNode(g.nodes, id) => HasNode(h.nodes, id)

LEMMA NodeIsFound ==
  ASSUME RawFits, NEW g, Sound(g), NEW anchor \in Int \X Int, NEW id
  PROVE  LET h == GetNode(g, anchor, id)
         IN  Sound(h) /\ Grows(g, h) /\ (id \in DOMAIN rawNodes => HasNode(h.nodes, id))
<1> DEFINE h == GetNode(g, anchor, id)
<1>1. CASE id \notin DOMAIN rawNodes \/ HasNode(g.nodes, id)
  <2>1. h = g
    BY <1>1 DEF GetNode
  <2> QED
    BY <1>1, <2>1 DEF Grows
<1>2. CASE ~(id \notin DOMAIN rawNodes \/ HasNode(g.nodes, id))
  <2> DEFINE node == [id |-> id, pos |-> ToEnu(rawNodes[id], anchor)]
             nodes == Append(g.nodes, node)
  <2>1. h = [g EXCEPT !.nodes = nodes]
    BY <1>2 DEF GetNode
  <2>2. node.id = id /\ node.pos \in Int \X Int
    <3>1. rawNodes[id] \in Int \X Int
      BY <1>2 DEF RawFits
    <3>2. ToEnu(rawNodes[id], anchor) \in Int \X Int
      BY <3>1 DEF ToEnu
    <3> QED
      BY <3>2
  <2> HIDE DEF node
  <2>3. IsList(g.nodes) /\ Len(g.nodes) \in Nat
    BY DEF Sound, NodesFit, IsList
  <2>4. /\ IsList(nodes) /\ Len(nodes) = Len(g.nodes) + 1 /\ DOMAIN g.nodes = 1..Len(g.nodes)
        /\ nodes[Len(g.nodes) + 1] = node /\ \A i \in 1..Len(g.nodes) : nodes[i] = g.nodes[i]
    BY <2>3, ListGrows
  <2> HIDE DEF nodes
  <2>5. h.nodes = nodes /\ h.edges = g.edges /\ IsGraph(h)
    BY <2>1 DEF Sound, IsGraph
  <2> HIDE DEF h
  <2>6. DOMAIN nodes = 1..Len(g.nodes) + 1
    BY <2>4 DEF IsList
  <2>7. NodesFit(h)
    <3> SUFFICES ASSUME NEW n \in 1..Len(nodes) PROVE nodes[n].id \in DOMAIN rawNodes /\ nodes[n].pos \in Int \X Int
      BY <2>4, <2>5 DEF NodesFit
    <3>1. CASE n = Len(g.nodes) + 1
      BY <1>2, <2>2, <2>4, <3>1
    <3>2. CASE n # Len(g.nodes) + 1
      <4>1. n \in 1..Len(g.nodes)
        BY <2>3, <2>4, <3>2
      <4> QED
        BY <2>4, <4>1 DEF Sound, NodesFit
    <3> QED
      BY <3>1, <3>2
  <2>8. LinksFit(h)
    <3>1. \A i \in 1..Len(g.nodes) : i \in 1..Len(nodes)
      BY <2>3, <2>4
    <3> QED
      BY <2>5, <3>1 DEF Sound, LinksFit
  <2>9. HasNode(h.nodes, id)
    BY <2>2, <2>3, <2>4, <2>5, <2>6 DEF HasNode
  <2>10. ASSUME NEW x, HasNode(g.nodes, x) PROVE HasNode(h.nodes, x)
    <3>1. PICK i \in 1..Len(g.nodes) : g.nodes[i].id = x
      BY <2>4, <2>10 DEF HasNode
    <3>2. i \in DOMAIN nodes /\ nodes[i].id = x
      BY <2>3, <2>4, <2>6, <3>1
    <3> QED
      BY <2>5, <3>2 DEF HasNode
  <2>11. LinesFit(h)
    BY <2>5 DEF Sound, LinesFit
  <2>12. Sound(h) /\ Grows(g, h)
    BY <2>5, <2>7, <2>8, <2>10, <2>11 DEF Sound, Grows
  <2> QED
    BY <2>9, <2>12 DEF h
<1> QED
  BY <1>1, <1>2

LEMMA DistanceIsNat ==
  ASSUME NEW p \in Int \X Int, NEW q \in Int \X Int
  PROVE  Distance(p, q) \in Nat
<1>1. p[1] - q[1] \in Int /\ p[2] - q[2] \in Int
  OBVIOUS
<1>2. Abs(p[1] - q[1]) \in Nat /\ Abs(p[2] - q[2]) \in Nat
  BY <1>1 DEF Abs
<1> QED
  BY <1>2 DEF Distance

LEMMA EdgeIsAdded ==
  ASSUME RawFits, NEW g, Sound(g), NEW way, NEW a, NEW b,
         a \in DOMAIN rawNodes => HasNode(g.nodes, a), b \in DOMAIN rawNodes => HasNode(g.nodes, b)
  PROVE  Sound(AddEdge(g, way, a, b))
<1> DEFINE h == AddEdge(g, way, a, b)
<1>1. CASE a \notin DOMAIN rawNodes \/ b \notin DOMAIN rawNodes
  BY <1>1 DEF AddEdge
<1>2. CASE ~(a \notin DOMAIN rawNodes \/ b \notin DOMAIN rawNodes)
  <2> DEFINE from == IndexOf(g.nodes, a)
             to == IndexOf(g.nodes, b)
             ends == << g.nodes[from].pos, g.nodes[to].pos >>
             edge == [id |-> Len(g.edges), from |-> from, to |-> to, speed |-> SpeedOf(way),
                      class |-> way.highway, polyline |-> ends, length |-> Distance(ends[1], ends[2])]
             edges == Append(g.edges, edge)
  <2>1. h = [g EXCEPT !.edges = edges]
    BY <1>2 DEF AddEdge
  <2>2. IsList(g.nodes) /\ DOMAIN g.nodes = 1..Len(g.nodes)
    BY ListGrows DEF Sound, NodesFit
  <2>3. from \in 1..Len(g.nodes) /\ to \in 1..Len(g.nodes)
    BY <1>2, <2>2 DEF HasNode, IndexOf
  <2> HIDE DEF from, to
  <2>4. g.nodes[from].pos \in Int \X Int /\ g.nodes[to].pos \in Int \X Int
    BY <2>3 DEF Sound, NodesFit
  <2>5. ends[1] \in Int \X Int /\ ends[2] \in Int \X Int
    BY <2>4
  <2>6. Distance(ends[1], ends[2]) \in Nat
    BY <2>5, DistanceIsNat
  <2> HIDE DEF ends
  <2>7. /\ edge.from \in 1..Len(g.nodes) /\ edge.to \in 1..Len(g.nodes) /\ edge.length \in Nat
        /\ edge.polyline = ends
    BY <2>3, <2>6
  <2> HIDE DEF edge
  <2>8. IsList(g.edges) /\ Len(g.edges) \in Nat
    BY DEF Sound, LinksFit, IsList
  <2>9. /\ IsList(edges) /\ Len(edges) = Len(g.edges) + 1
        /\ edges[Len(g.edges) + 1] = edge /\ \A i \in 1..Len(g.edges) : edges[i] = g.edges[i]
    BY <2>8, ListGrows
  <2> HIDE DEF edges
  <2>10. h.nodes = g.nodes /\ h.edges = edges /\ IsGraph(h)
    BY <2>1 DEF Sound, IsGraph
  <2> HIDE DEF h
  <2>11. NodesFit(h)
    BY <2>10 DEF Sound, NodesFit
  <2>12. LinksFit(h)
    <3> SUFFICES ASSUME NEW e \in 1..Len(edges)
                 PROVE  /\ edges[e].from \in 1..Len(g.nodes) /\ edges[e].to \in 1..Len(g.nodes)
                        /\ edges[e].length \in Nat
      BY <2>9, <2>10 DEF LinksFit
    <3>1. CASE e = Len(g.edges) + 1
      BY <2>7, <2>9, <3>1
    <3>2. CASE e # Len(g.edges) + 1
      <4>1. e \in 1..Len(g.edges)
        BY <2>8, <2>9, <3>2
      <4> QED
        BY <2>9, <4>1 DEF Sound, LinksFit
    <3> QED
      BY <3>1, <3>2
  <2>13. LinesFit(h)
    <3> SUFFICES ASSUME NEW e \in 1..Len(edges)
                 PROVE  edges[e].polyline[1] \in Int \X Int /\ edges[e].polyline[2] \in Int \X Int
      BY <2>9, <2>10 DEF LinesFit
    <3>1. CASE e = Len(g.edges) + 1
      BY <2>5, <2>7, <2>9, <3>1
    <3>2. CASE e # Len(g.edges) + 1
      <4>1. e \in 1..Len(g.edges)
        BY <2>8, <2>9, <3>2
      <4> QED
        BY <2>9, <4>1 DEF Sound, LinesFit
    <3> QED
      BY <3>1, <3>2
  <2>14. Sound(h)
    BY <2>10, <2>11, <2>12, <2>13 DEF Sound
  <2> QED
    BY <2>14 DEF h
<1> QED
  BY <1>1, <1>2

LEMMA PairIsAdded ==
  ASSUME RawFits, NEW g, Sound(g), NEW way, NEW anchor \in Int \X Int, NEW a, NEW b
  PROVE  Sound(AddPair(g, way, anchor, a, b))
<1> DEFINE h == GetNode(g, anchor, a)
           k == GetNode(h, anchor, b)
<1>1. Sound(h) /\ (a \in DOMAIN rawNodes => HasNode(h.nodes, a))
  BY NodeIsFound
<1> HIDE DEF h
<1>2. Sound(k) /\ Grows(h, k) /\ (b \in DOMAIN rawNodes => HasNode(k.nodes, b))
  BY <1>1, NodeIsFound
<1> HIDE DEF k
<1>3. a \in DOMAIN rawNodes => HasNode(k.nodes, a)
  BY <1>1, <1>2 DEF Grows
<1>4. Sound(AddEdge(k, way, a, b))
  BY <1>2, <1>3, EdgeIsAdded
<1> QED
  BY <1>4 DEF AddPair, h, k

LEMMA WayIsAdded ==
  ASSUME RawFits, NEW g, Sound(g), NEW way, IsWay(way), NEW anchor \in Int \X Int
  PROVE  Sound(AddIfKept(g, way, anchor))
<1>1. CASE ~Kept(way)
  BY <1>1 DEF AddIfKept
<1>2. CASE Kept(way)
  <2> DEFINE N == Len(way.refs) - 1
  <2>1. N \in Nat
    BY <1>2 DEF Kept, IsWay, IsList
  <2>11. Len(way.refs) - 1 \in Nat
    BY <2>1
  <2>12. \E r : /\ r[0] = g /\ AddWay(g, way, anchor) = r[Len(way.refs) - 1]
                /\ \A n \in 1..Len(way.refs) - 1 :
                     r[n] = AddPair(r[n - 1], way, anchor, way.refs[n], way.refs[n + 1])
    BY ONLY <2>11, AddWayUnfolds, SMTT(30)
  <2>2. PICK r : /\ r[0] = g /\ AddWay(g, way, anchor) = r[N]
                 /\ \A n \in 1..N : r[n] = AddPair(r[n - 1], way, anchor, way.refs[n], way.refs[n + 1])
    BY ONLY <2>12
  <2> HIDE DEF N
  <2> DEFINE T == { n \in Nat : n \in 0..N => Sound(r[n]) }
  <2>3. 0 \in T
    <3>1. Sound(r[0])
      BY <2>2
    <3> QED
      BY <3>1
  <2>4. ASSUME NEW n \in T PROVE n + 1 \in T
    <3> SUFFICES ASSUME n + 1 \in 0..N PROVE Sound(r[n + 1])
      OBVIOUS
    <3>1. n \in 0..N /\ n + 1 \in 1..N /\ (n + 1) - 1 = n
      BY <2>1
    <3>2. Sound(r[n])
      BY <3>1
    <3>3. r[n + 1] = AddPair(r[n], way, anchor, way.refs[n + 1], way.refs[(n + 1) + 1])
      BY <2>2, <3>1
    <3> QED
      BY <3>2, <3>3, PairIsAdded
  <2>5. T = Nat
    <3>1. T \in SUBSET Nat
      OBVIOUS
    <3> HIDE DEF T
    <3> QED
      BY <2>3, <2>4, <3>1, Induction
  <2>6. Sound(r[N])
    BY <2>1, <2>5
  <2> QED
    BY <1>2, <2>2, <2>6 DEF AddIfKept
<1> QED
  BY <1>1, <1>2

LEMMA WaysAreAdded ==
  ASSUME RawFits, NEW anchor \in Int \X Int
  PROVE  Sound(AddWays(anchor))
<1>1. Len(rawWays) \in Nat
  BY DEF RawFits, IsList
<1>2. PICK r : /\ r[0] = NoGraph /\ AddWays(anchor) = r[Len(rawWays)]
               /\ \A n \in 1..Len(rawWays) : r[n] = AddIfKept(r[n - 1], rawWays[n], anchor)
  BY <1>1, AddWaysUnfolds
<1> DEFINE T == { n \in Nat : n \in 0..Len(rawWays) => Sound(r[n]) }
<1>3. 0 \in T
  BY <1>2, NothingIsSound
<1>4. ASSUME NEW n \in T PROVE n + 1 \in T
  <2> SUFFICES ASSUME n + 1 \in 0..Len(rawWays) PROVE Sound(r[n + 1])
    OBVIOUS
  <2>1. n \in 0..Len(rawWays) /\ n + 1 \in 1..Len(rawWays) /\ (n + 1) - 1 = n
    BY <1>1
  <2>2. Sound(r[n]) /\ IsWay(rawWays[n + 1])
    BY <2>1 DEF RawFits
  <2>3. r[n + 1] = AddIfKept(r[n], rawWays[n + 1], anchor)
    BY <1>2, <2>1
  <2> QED
    BY <2>2, <2>3, WayIsAdded
<1>5. T = Nat
  <2>1. T \in SUBSET Nat
    OBVIOUS
  <2> HIDE DEF T
  <2> QED
    BY <1>3, <1>4, <2>1, Induction
<1>6. Sound(r[Len(rawWays)])
  BY <1>1, <1>5
<1> QED
  BY <1>2, <1>6

\* The lists after the first k edges: each of them is in the list of its source, and
\* nothing else is.
ListsUpTo(lists, g, k) ==
  /\ lists \in [DOMAIN g.nodes -> Seq(DOMAIN g.edges)]
  /\ \A n \in DOMAIN g.nodes :
       /\ \A e \in 1..k : g.edges[e].from = n => \E i \in DOMAIN lists[n] : lists[n][i] = e
       /\ \A i \in DOMAIN lists[n] : g.edges[lists[n][i]].from = n

LEMMA ListWithEdge ==
  ASSUME NEW g, LinksFit(g), DOMAIN g.nodes = 1..Len(g.nodes), DOMAIN g.edges = 1..Len(g.edges),
         NEW k \in Nat, k + 1 \in 1..Len(g.edges), NEW lists, ListsUpTo(lists, g, k)
  PROVE  ListsUpTo(AtSource(lists, g, k + 1), g, k + 1)
<1> DEFINE N == DOMAIN g.nodes
           E == DOMAIN g.edges
           src == g.edges[k + 1].from
           after == AtSource(lists, g, k + 1)
<1>1. src \in N /\ k + 1 \in E
  BY DEF LinksFit
<1>2. lists \in [N -> Seq(E)]
  BY DEF ListsUpTo
<1>3. after = [lists EXCEPT ![src] = Append(@, k + 1)]
  BY DEF AtSource
<1> HIDE DEF after, src
<1> DEFINE old == lists[src]
           new == Append(old, k + 1)
<1>4. old \in Seq(E)
  BY <1>1, <1>2
<1> HIDE DEF E
<1>5. /\ new \in Seq(E) /\ Len(new) = Len(old) + 1 /\ new[Len(old) + 1] = k + 1
      /\ \A i \in 1..Len(old) : new[i] = old[i]
  BY <1>1, <1>4, AppendProperties
<1>6. DOMAIN new = 1..Len(old) + 1 /\ DOMAIN old = 1..Len(old) /\ Len(old) \in Nat
  BY <1>4, <1>5, LenProperties
<1>7. after[src] = new /\ \A n \in N : n # src => after[n] = lists[n]
  BY <1>1, <1>2, <1>3
<1>8. after \in [N -> Seq(E)]
  BY <1>1, <1>2, <1>3, <1>5
<1> HIDE DEF new
<1>9. ASSUME NEW n \in N, NEW e \in 1..k + 1, g.edges[e].from = n
      PROVE  \E i \in DOMAIN after[n] : after[n][i] = e
  <2>1. CASE e = k + 1
    <3>1. n = src
      BY <1>9, <2>1 DEF src
    <3>2. Len(old) + 1 \in DOMAIN new /\ new[Len(old) + 1] = e
      BY <1>5, <1>6, <2>1
    <3> QED
      BY <1>7, <3>1, <3>2
  <2>2. CASE e # k + 1
    <3>1. e \in 1..k
      BY <2>2
    <3>2. PICK i \in DOMAIN lists[n] : lists[n][i] = e
      BY <1>9, <3>1 DEF ListsUpTo
    <3>3. CASE n = src
      <4>1. i \in 1..Len(old) /\ old[i] = e
        BY <1>6, <3>2, <3>3
      <4>2. i \in DOMAIN new /\ new[i] = e
        BY <1>5, <1>6, <4>1
      <4> QED
        BY <1>7, <3>3, <4>2
    <3>4. CASE n # src
      BY <1>7, <3>2, <3>4
    <3> QED
      BY <3>3, <3>4
  <2> QED
    BY <2>1, <2>2
<1>10. ASSUME NEW n \in N, NEW i \in DOMAIN after[n] PROVE g.edges[after[n][i]].from = n
  <2>1. CASE n = src
    <3>1. i \in 1..Len(old) + 1 /\ after[n] = new
      BY <1>6, <1>7, <2>1
    <3>2. CASE i = Len(old) + 1
      BY <1>5, <2>1, <3>1, <3>2 DEF src
    <3>3. CASE i # Len(old) + 1
      <4>1. i \in 1..Len(old) /\ i \in DOMAIN lists[n]
        BY <1>6, <2>1, <3>1, <3>3
      <4>2. g.edges[lists[n][i]].from = n
        BY <4>1 DEF ListsUpTo
      <4> QED
        BY <1>5, <2>1, <3>1, <4>1, <4>2
    <3> QED
      BY <3>2, <3>3
  <2>2. CASE n # src
    BY <1>7, <2>2 DEF ListsUpTo
  <2> QED
    BY <2>1, <2>2
<1>11. ListsUpTo(after, g, k + 1)
  BY <1>8, <1>9, <1>10 DEF ListsUpTo, E
<1> QED
  BY <1>11 DEF after

LEMMA OutEdgesAre ==
  ASSUME NEW g, Sound(g)
  PROVE  ListsUpTo(OutEdges(g), g, Len(g.edges)) /\ DOMAIN g.nodes = 1..Len(g.nodes) /\ DOMAIN g.edges = 1..Len(g.edges)
<1>1. LinksFit(g) /\ DOMAIN g.nodes = 1..Len(g.nodes) /\ DOMAIN g.edges = 1..Len(g.edges) /\ Len(g.edges) \in Nat
  <2>1. IsList(g.nodes) /\ IsList(g.edges)
    BY DEF Sound, NodesFit, LinksFit
  <2>2. DOMAIN g.nodes = 1..Len(g.nodes) /\ DOMAIN g.edges = 1..Len(g.edges)
    BY <2>1, ListGrows
  <2> QED
    BY <2>1, <2>2 DEF Sound, IsList
<1> DEFINE N == Len(g.edges)
           base == [n \in DOMAIN g.nodes |-> << >>]
<1>2. PICK r : /\ r[0] = base /\ OutEdges(g) = r[N]
               /\ \A n \in 1..N : r[n] = AtSource(r[n - 1], g, n)
  BY <1>1, OutEdgesUnfolds
<1> DEFINE T == { n \in Nat : n \in 0..N => ListsUpTo(r[n], g, n) }
<1>3. 0 \in T
  <2>1. << >> \in Seq(DOMAIN g.edges) /\ DOMAIN << >> = {}
    OBVIOUS
  <2>2. base \in [DOMAIN g.nodes -> Seq(DOMAIN g.edges)]
    BY <2>1
  <2>3. ListsUpTo(base, g, 0)
    BY <2>1, <2>2 DEF ListsUpTo
  <2> QED
    BY <1>2, <2>3
<1> HIDE DEF base
<1>4. ASSUME NEW n \in T PROVE n + 1 \in T
  <2> SUFFICES ASSUME n + 1 \in 0..N PROVE ListsUpTo(r[n + 1], g, n + 1)
    OBVIOUS
  <2>1. n \in Nat /\ n \in 0..N /\ n + 1 \in 1..N /\ (n + 1) - 1 = n
    BY <1>1
  <2>2. ListsUpTo(r[n], g, n) /\ r[n + 1] = AtSource(r[n], g, n + 1)
    BY <1>2, <2>1
  <2> HIDE DEF T
  <2> QED
    BY <1>1, <2>1, <2>2, ListWithEdge
<1>5. T = Nat
  <2>1. T \in SUBSET Nat
    OBVIOUS
  <2> HIDE DEF T
  <2> QED
    BY <1>3, <1>4, <2>1, Induction
<1>6. ListsUpTo(r[N], g, N)
  BY <1>1, <1>5
<1> QED
  BY <1>1, <1>2, <1>6

\* The graph that is built is one that can be searched.
LEMMA BuiltGraphFits ==
  ASSUME RawFits, NEW anchor \in Int \X Int, BuildGraph(anchor)
  PROVE  GraphFits'
<1> DEFINE g == AddWays(anchor)
           h == BuildAdjacency(g)
<1>1. Sound(g)
  BY WaysAreAdded
<1> HIDE DEF g
<1>2. /\ ListsUpTo(OutEdges(g), g, Len(g.edges))
      /\ DOMAIN g.nodes = 1..Len(g.nodes) /\ DOMAIN g.edges = 1..Len(g.edges)
  BY <1>1, OutEdgesAre
<1>3. graph' = h
  BY DEF BuildGraph, g
<1>4. h.nodes = g.nodes /\ h.edges = g.edges /\ h.adjacency = OutEdges(g)
  BY <1>1 DEF BuildAdjacency, Sound, IsGraph
<1> HIDE DEF h
<1>5. IsList(h.nodes)
  BY <1>1, <1>4 DEF Sound, NodesFit
<1>6. EdgesFit(h)
  BY <1>1, <1>2, <1>4 DEF Sound, LinksFit, EdgesFit
<1>7. ListsFit(h)
  <2> SUFFICES ASSUME NEW n \in DOMAIN g.nodes
               PROVE  /\ h.adjacency[n] \in Seq(DOMAIN g.edges)
                      /\ \A e \in DOMAIN g.edges : g.edges[e].from = n =>
                           \E i \in DOMAIN h.adjacency[n] : h.adjacency[n][i] = e
                      /\ \A i \in DOMAIN h.adjacency[n] : g.edges[h.adjacency[n][i]].from = n
    BY <1>4 DEF ListsFit
  <2> QED
    BY <1>2, <1>4 DEF ListsUpTo
<1>8. LinesFit(h)
  BY <1>1, <1>4 DEF Sound, LinesFit
<1> QED
  BY <1>3, <1>5, <1>6, <1>7, <1>8 DEF GraphFits

-----------------------------------------------------------------------------
\* The reader of the file.

ReaderFits ==
  /\ RawFits /\ IsWay(building)
  /\ roadLine \in Nat \ {0} /\ Len(roadFile) \in Nat
  /\ \A i \in 1..Len(roadFile) : roadFile[i].kind = "node" => roadFile[i].at \in Int \X Int

LEMMA NoWayIsWay == IsWay(NoWay)
<1>1. "refs" \in DOMAIN NoWay /\ NoWay.refs = << >> /\ NoWay = [x \in DOMAIN NoWay |-> NoWay[x]]
  BY DEF NoWay
<1> QED
  BY <1>1, EmptyIsList DEF IsWay

LEMMA RefIsAdded ==
  ASSUME NEW w, IsWay(w), NEW x, NEW v, v = [w EXCEPT !.refs = Append(@, x)]
  PROVE  IsWay(v)
<1>1. w = [y \in DOMAIN w |-> w[y]] /\ "refs" \in DOMAIN w /\ IsList(w.refs)
  BY DEF IsWay
<1>2. DOMAIN v = DOMAIN w /\ v.refs = Append(w.refs, x) /\ v = [y \in DOMAIN v |-> v[y]]
  BY <1>1
<1>3. IsList(Append(w.refs, x))
  BY <1>1, ListGrows
<1> QED
  BY <1>1, <1>2, <1>3 DEF IsWay

LEMMA TagIsSet ==
  ASSUME NEW w, IsWay(w), NEW x, NEW k, k # "refs", NEW v, v = [w EXCEPT ![k] = x]
  PROVE  IsWay(v)
<1>1. w = [y \in DOMAIN w |-> w[y]] /\ "refs" \in DOMAIN w /\ IsList(w.refs)
  BY DEF IsWay
<1>2. DOMAIN v = DOMAIN w /\ v.refs = w.refs /\ v = [y \in DOMAIN v |-> v[y]]
  BY <1>1
<1> QED
  BY <1>1, <1>2 DEF IsWay

LEMMA ReaderStarts ==
  ASSUME RoadInit
  PROVE  ReaderFits
<1>1. /\ roadFile = << >> /\ roadLine = 1 /\ rawNodes = << >> /\ rawWays = << >> /\ building = NoWay
  BY DEF RoadInit
<1>2. RawFits
  <2>1. DOMAIN rawNodes = {} /\ IsList(rawWays) /\ Len(rawWays) = 0
    BY <1>1, EmptyIsList
  <2> QED
    BY <2>1 DEF RawFits
<1>3. Len(roadFile) = 0
  BY <1>1, EmptyIsList
<1> QED
  BY <1>1, <1>2, <1>3, NoWayIsWay DEF ReaderFits

LEMMA FileIsOpened ==
  ASSUME ReaderFits, NEW content \in RoadFiles, OpenFile(content)
  PROVE  ReaderFits'
BY RoadFilesAssumption DEF ReaderFits, RawFits, OpenFile

LEMMA NodeIsRead ==
  ASSUME ReaderFits, ReadNode
  PROVE  RawFits'
<1> DEFINE id == roadFile[roadLine].id
           at == roadFile[roadLine].at
<1>1. at \in Int \X Int
  BY DEF ReadNode, Reading, ReaderFits
<1>2. /\ rawNodes' = [x \in DOMAIN rawNodes \cup {id} |-> IF x = id THEN at ELSE rawNodes[x]]
      /\ rawWays' = rawWays
  BY DEF ReadNode
<1> HIDE DEF id, at
<1>3. \A x \in DOMAIN rawNodes' : rawNodes'[x] = at \/ (x \in DOMAIN rawNodes /\ rawNodes'[x] = rawNodes[x])
  BY <1>2
<1> QED
  BY <1>1, <1>2, <1>3 DEF RawFits, ReaderFits

LEMMA WayIsEnded ==
  ASSUME ReaderFits, EndWay
  PROVE  RawFits'
<1>1. rawNodes' = rawNodes /\ (rawWays' = rawWays \/ rawWays' = Append(rawWays, building))
  BY DEF EndWay
<1>2. IsList(rawWays) /\ Len(rawWays) \in Nat /\ \A k \in 1..Len(rawWays) : IsWay(rawWays[k])
  BY DEF ReaderFits, RawFits, IsList
<1>3. CASE rawWays' = rawWays
  BY <1>1, <1>3 DEF ReaderFits, RawFits
<1>4. CASE rawWays' = Append(rawWays, building)
  <2> DEFINE ways == Append(rawWays, building)
  <2>1. /\ IsList(ways) /\ Len(ways) = Len(rawWays) + 1 /\ ways[Len(rawWays) + 1] = building
        /\ \A i \in 1..Len(rawWays) : ways[i] = rawWays[i]
    BY <1>2, ListGrows
  <2> HIDE DEF ways
  <2>2. ASSUME NEW k \in 1..Len(ways) PROVE IsWay(ways[k])
    <3>1. k = Len(rawWays) + 1 \/ k \in 1..Len(rawWays)
      BY <1>2, <2>1
    <3> QED
      BY <1>2, <2>1, <3>1 DEF ReaderFits
  <2>3. rawWays' = ways
    BY <1>4 DEF ways
  <2> QED
    BY <1>1, <2>1, <2>2, <2>3 DEF ReaderFits, RawFits
<1> QED
  BY <1>1, <1>3, <1>4

LEMMA ReaderKeeps ==
  ASSUME ReaderFits, ReaderNext
  PROVE  ReaderFits'
<1>1. roadLine' = roadLine + 1 /\ roadFile' = roadFile /\ roadLine \in Nat \ {0}
  BY DEF ReaderNext, ReadNode, ReadWay, ReadRef, ReadTag, EndWay, Consume, ReaderFits
<1>2. RawFits'
  <2>1. CASE ReadNode
    BY <2>1, NodeIsRead
  <2>2. CASE EndWay
    BY <2>2, WayIsEnded
  <2>3. CASE ReadWay \/ ReadRef \/ ReadTag
    <3>1. rawNodes' = rawNodes /\ rawWays' = rawWays
      BY <2>3 DEF ReadWay, ReadRef, ReadTag
    <3> QED
      BY <3>1 DEF RawFits, ReaderFits
  <2> QED
    BY <2>1, <2>2, <2>3 DEF ReaderNext
<1>3. IsWay(building')
  <2>1. CASE ReadNode \/ EndWay
    <3>1. building' = building
      BY <2>1 DEF ReadNode, EndWay
    <3> QED
      BY <3>1 DEF ReaderFits
  <2>2. CASE ReadWay
    <3>1. building' = NoWay
      BY <2>2 DEF ReadWay, FreshWay
    <3> QED
      BY <3>1, NoWayIsWay
  <2>3. CASE ReadRef
    <3>1. building' = building \/ \E x : building' = [building EXCEPT !.refs = Append(@, x)]
      BY <2>3 DEF ReadRef
    <3>2. IsWay(building)
      BY DEF ReaderFits
    <3>3. CASE building' = building
      BY <3>2, <3>3
    <3>4. ASSUME NEW x, building' = [building EXCEPT !.refs = Append(@, x)] PROVE IsWay(building')
      BY <3>2, <3>4, RefIsAdded
    <3> QED
      BY <3>1, <3>3, <3>4
  <2>4. CASE ReadTag
    <3>1. building' = building \/ \E x : \E k \in {"highway", "maxspeed"} : building' = [building EXCEPT ![k] = x]
      BY <2>4 DEF ReadTag
    <3>2. IsWay(building)
      BY DEF ReaderFits
    <3>3. CASE building' = building
      BY <3>2, <3>3
    <3>4. ASSUME NEW k \in {"highway", "maxspeed"}, NEW x, building' = [building EXCEPT ![k] = x] PROVE IsWay(building')
      <4>1. k # "refs"
        OBVIOUS
      <4> QED
        BY <3>2, <3>4, <4>1, TagIsSet
    <3> QED
      BY <3>1, <3>3, <3>4
  <2> QED
    BY <2>1, <2>2, <2>3, <2>4 DEF ReaderNext
<1> QED
  BY <1>1, <1>2, <1>3 DEF ReaderFits

-----------------------------------------------------------------------------
\* The candidates of a position.

LEMMA ClampIsInt ==
  ASSUME NEW n \in Int, NEW a \in Int, NEW b \in Int
  PROVE  Clamp(n, a, b) \in Int
<1>1. ASSUME NEW x \in Int, NEW y \in Int PROVE Max({x, y}) \in {x, y} /\ Min({x, y}) \in {x, y}
  <2>1. \E z \in {x, y} : \A u \in {x, y} : z >= u
    OBVIOUS
  <2>2. \E z \in {x, y} : \A u \in {x, y} : z <= u
    OBVIOUS
  <2> QED
    BY <2>1, <2>2 DEF Max, Min
<1>2. Max({a, b}) \in Int /\ Min({a, b}) \in Int
  BY <1>1
<1>3. Min({n, Max({a, b})}) \in Int
  BY <1>1, <1>2
<1>4. Max({Min({n, Max({a, b})}), Min({a, b})}) \in Int
  BY <1>1, <1>2, <1>3
<1> QED
  BY <1>4 DEF Clamp

\* So far is the edge from the position, and there it is nearest.
IsCandidate(c) == c.dist \in Nat /\ c.snapped \in Int \X Int

LEMMA CandidateFits ==
  ASSUME LinesFit(graph), NEW e \in 1..Len(graph.edges), NEW q \in Int \X Int
  PROVE  IsCandidate(Candidate(e, q)) /\ Candidate(e, q).edge = e
<1> DEFINE line == graph.edges[e].polyline
           at == Project(q, line[1], line[2])
<1>1. line[1] \in Int \X Int /\ line[2] \in Int \X Int
  BY DEF LinesFit
<1>2. at \in Int \X Int
  <2>1. /\ q[1] \in Int /\ q[2] \in Int /\ line[1][1] \in Int /\ line[1][2] \in Int
        /\ line[2][1] \in Int /\ line[2][2] \in Int
    BY <1>1
  <2>2. Clamp(q[1], line[1][1], line[2][1]) \in Int /\ Clamp(q[2], line[1][2], line[2][2]) \in Int
    BY <2>1, ClampIsInt
  <2> QED
    BY <2>2 DEF Project
<1>3. Candidate(e, q) = [edge |-> e, dist |-> Distance(q, at), snapped |-> at]
  BY DEF Candidate, EdgeDistance
<1> HIDE DEF at
<1>4. Distance(q, at) \in Nat
  BY <1>2, DistanceIsNat
<1> QED
  BY <1>2, <1>3, <1>4 DEF IsCandidate

\* The candidates of a position: different edges, the nearest first.
CandsFit(l) ==
  /\ IsList(l)
  /\ \A j \in 1..Len(l) : IsCandidate(l[j])
  /\ \A j, k \in 1..Len(l) : j < k => l[j].dist <= l[k].dist /\ l[j].edge # l[k].edge

LEMMA NearEdges ==
  ASSUME LinesFit(graph), NEW q \in Int \X Int
  PROVE  /\ IsFiniteSet(Within(q)) /\ \A c \in Within(q) : IsCandidate(c)
         /\ \A c, d \in Within(q) : c # d => c.edge # d.edge
<1> DEFINE near == { f \in DOMAIN graph.edges : EdgeDistance(f, q) <= Radius }
           f == [e \in near |-> Candidate(e, q)]
<1>1. IsList(graph.edges) /\ Len(graph.edges) \in Nat /\ DOMAIN graph.edges = 1..Len(graph.edges)
  BY ListGrows DEF LinesFit, IsList
<1>2. IsFiniteSet(near) /\ near \subseteq 1..Len(graph.edges)
  <2>1. IsFiniteSet(1..Len(graph.edges))
    BY <1>1, FS_Interval
  <2>2. near \in SUBSET (1..Len(graph.edges))
    BY <1>1
  <2> QED
    BY <2>1, <2>2, FS_Subset
<1>3. Within(q) = { Candidate(e, q) : e \in near }
  BY DEF Within
<1> HIDE DEF near
<1>4. IsFiniteSet(Within(q))
  <2>1. f \in Surjection(near, Within(q))
    BY <1>3 DEF Surjection
  <2> QED
    BY <1>2, <2>1, FS_Surjection
<1>5. \A e \in near : IsCandidate(Candidate(e, q)) /\ Candidate(e, q).edge = e
  BY <1>2, CandidateFits
<1> QED
  BY <1>3, <1>4, <1>5

LEMMA CandidatesFit ==
  ASSUME LinesFit(graph), NEW q \in Int \X Int, NEW s \in NearestFirst(Within(q)),
         NEW list, list = SubSeq(s, 1, Min({ Len(s), MaxCandidates }))
  PROVE  CandsFit(list) /\ \A j \in 1..Len(list) : list[j] \in Within(q)
<1> DEFINE W == Within(q)
           c == Cardinality(W)
           n == Min({ Len(s), MaxCandidates })
           l == SubSeq(s, 1, n)
<1>1. /\ IsFiniteSet(W) /\ \A x \in W : IsCandidate(x)
      /\ \A x, y \in W : x # y => x.edge # y.edge
  BY NearEdges
<1>2. c \in Nat
  BY <1>1, FS_CardinalityType
<1>3. s \in [1..c -> W] /\ \A i, j \in 1..c : i # j => s[i] # s[j]
  BY DEF NearestFirst, SetToSeqs
<1>4. \A i, k \in 1..c : i < k => s[i].dist <= s[k].dist
  BY <1>3 DEF NearestFirst
<1> HIDE DEF W
<1> HIDE DEF c
<1>5. s \in Seq(W) /\ Len(s) = c
  BY <1>2, <1>3
<1>6. n \in 0..c
  <2>1. MaxCandidates \in Nat
    BY MatcherAssumption
  <2>2. \E z \in {c, MaxCandidates} : \A u \in {c, MaxCandidates} : z <= u
    BY <1>2, <2>1
  <2>3. n \in {c, MaxCandidates} /\ n <= c
    BY <1>2, <1>5, <2>1, <2>2 DEF Min
  <2> QED
    BY <1>2, <2>1, <2>3
<1> HIDE DEF n
<1>7. l \in Seq(W) /\ Len(l) = n /\ \A i \in 1..n : l[i] = s[i]
  BY <1>2, <1>5, <1>6
<1> HIDE DEF l
<1>8. IsList(l)
  BY <1>6, <1>7, LenProperties DEF IsList
<1>9. \A i \in 1..n : i \in 1..c /\ l[i] = s[i] /\ s[i] \in W
  BY <1>2, <1>3, <1>6, <1>7
<1>10. \A i \in 1..n : IsCandidate(l[i])
  BY <1>1, <1>9
<1>11. \A i, k \in 1..n : i < k => l[i].dist <= l[k].dist /\ l[i].edge # l[k].edge
  <2> SUFFICES ASSUME NEW i \in 1..n, NEW k \in 1..n, i < k PROVE l[i].dist <= l[k].dist /\ l[i].edge # l[k].edge
    OBVIOUS
  <2>1. i \in 1..c /\ k \in 1..c /\ i # k /\ l[i] = s[i] /\ l[k] = s[k]
    BY <1>6, <1>9
  <2>2. s[i] # s[k] /\ s[i] \in W /\ s[k] \in W
    BY <1>3, <2>1
  <2> QED
    BY <1>1, <1>4, <2>1, <2>2
<1>12. CandsFit(l) /\ \A j \in 1..Len(l) : l[j] \in W
  BY <1>7, <1>8, <1>9, <1>10, <1>11 DEF CandsFit
<1> QED
  BY <1>12 DEF l, n, W

-----------------------------------------------------------------------------
\* The trellis.  All claims are about drives with candidates from position m on: before it
\* there are none.

StartsAt(m) == m \in 1..Len(cands) /\ \A i \in 1..Len(cands) : cands[i] # << >> <=> m <= i
Slots(i) == 1..Len(cands[i])

DriveFits == IsList(positions) /\ \A i \in 1..Len(positions) : positions[i] \in Int \X Int
AllFound ==
  /\ IsList(cands) /\ Len(cands) = Len(positions)
  /\ \A i \in 1..Len(cands) : CandsFit(cands[i])

\* The first layer that is scored: candidates at later positions get no score at first.
FirstScored(m) == IF m = 1 THEN 1 ELSE m + 1

SelfScore(i, j) == Emission(cands[i][j].dist)
Link(i, k, j) ==
  -Abs(Distance(positions[i - 1], positions[i]) - Distance(cands[i - 1][k].snapped, cands[i][j].snapped))
Through(i, k, j) == vit[i - 1][k] + Link(i, k, j) + SelfScore(i, j)

\* The score of a candidate is the best one over its predecessors (Bellman's equation).
BestThrough(i, j) ==
  /\ predecessors[i][j] \in Slots(i - 1) /\ vit[i][j] = Through(i, predecessors[i][j], j)
  /\ \A k \in Slots(i - 1) : Through(i, k, j) <= vit[i][j]
IsScore(x) == x \in Int /\ x <= 0
ScoredAt(m, i) ==
  \A j \in Slots(i) :
    /\ IsScore(vit[i][j])
    /\ i = FirstScored(m) => vit[i][j] = SelfScore(i, j) /\ predecessors[i][j] = 0
    /\ i # FirstScored(m) => BestThrough(i, j)
Unscored(i) == \A j \in Slots(i) : vit[i][j] = NegInf /\ predecessors[i][j] = 0

IsTable(t) ==
  /\ t = [i \in 1..Len(cands) |-> t[i]]
  /\ \A i \in 1..Len(cands) : t[i] = [j \in Slots(i) |-> t[i][j]]
Scored(m, l) ==
  /\ IsTable(vit) /\ IsTable(predecessors)
  /\ \A i \in 1..Len(cands) : IF FirstScored(m) <= i /\ i <= l THEN ScoredAt(m, i) ELSE Unscored(i)

ForwardFits ==
  \A m : StartsAt(m) => Scored(m, layer - 1) /\ prevLayer = IF m < layer THEN layer - 1 ELSE 1

LEMMA SelfScoreIsScore ==
  ASSUME AllFound, NEW i \in 1..Len(cands), NEW j \in Slots(i)
  PROVE  IsScore(SelfScore(i, j))
<1>1. cands[i][j].dist \in Nat
  BY DEF AllFound, CandsFit, IsCandidate, Slots
<1> DEFINE square == cands[i][j].dist * cands[i][j].dist
<1>2. square \in Nat
  BY <1>1
<1>3. SelfScore(i, j) = -square
  BY DEF SelfScore, Emission
<1> HIDE DEF square
<1>4. -square \in Int /\ -square <= 0
  BY <1>2
<1>5. SelfScore(i, j) \in Int /\ SelfScore(i, j) <= 0
  BY <1>3, <1>4
<1> QED
  BY <1>5 DEF IsScore

LEMMA LinkIsScore ==
  ASSUME DriveFits, AllFound, NEW i \in 2..Len(cands), NEW k \in Slots(i - 1), NEW j \in Slots(i)
  PROVE  IsScore(Link(i, k, j))
<1>1. i \in 1..Len(positions) /\ i - 1 \in 1..Len(positions) /\ i - 1 \in 1..Len(cands) /\ i \in 1..Len(cands)
  BY DEF AllFound, IsList
<1>2. positions[i] \in Int \X Int /\ positions[i - 1] \in Int \X Int
  BY <1>1 DEF DriveFits
<1>3. cands[i][j].snapped \in Int \X Int /\ cands[i - 1][k].snapped \in Int \X Int
  BY <1>1 DEF AllFound, CandsFit, IsCandidate, Slots
<1>4. /\ Distance(positions[i - 1], positions[i]) \in Nat
      /\ Distance(cands[i - 1][k].snapped, cands[i][j].snapped) \in Nat
  BY <1>2, <1>3, DistanceIsNat
<1> DEFINE d == Distance(positions[i - 1], positions[i]) - Distance(cands[i - 1][k].snapped, cands[i][j].snapped)
<1>5. d \in Int
  BY <1>4
<1>6. Link(i, k, j) = -Abs(d)
  BY DEF Link
<1> HIDE DEF d
<1>7. -Abs(d) \in Int /\ -Abs(d) <= 0
  BY <1>5 DEF Abs
<1> QED
  BY <1>6, <1>7 DEF IsScore

LEMMA SlotsAre ==
  ASSUME AllFound, NEW i \in 1..Len(cands)
  PROVE  /\ DOMAIN cands[i] = Slots(i) /\ Len(cands[i]) \in Nat
         /\ cands[i] = << >> <=> Slots(i) = {}
<1>1. IsList(cands[i]) /\ Len(cands[i]) \in Nat
  BY DEF AllFound, CandsFit, IsList
<1>2. DOMAIN cands[i] = 1..Len(cands[i])
  BY <1>1, ListGrows
<1>3. cands[i] = << >> => Len(cands[i]) = 0
  BY EmptyIsList
<1>4. ASSUME Len(cands[i]) = 0 PROVE cands[i] = << >>
  <2>1. cands[i] = [k \in 1..0 |-> cands[i][k]]
    BY <1>1, <1>4 DEF IsList
  <2>2. cands[i] \in [1..0 -> {}]
    BY <2>1
  <2> QED
    BY <2>2
<1>5. Len(cands[i]) = 0 <=> Slots(i) = {}
  <2>1. Len(cands[i]) # 0 => 1 \in Slots(i)
    BY <1>1 DEF Slots
  <2>2. Len(cands[i]) = 0 => Slots(i) = {}
    BY DEF Slots
  <2> QED
    BY <2>1, <2>2
<1>6. DOMAIN cands[i] = Slots(i)
  BY <1>2 DEF Slots
<1> QED
  BY <1>1, <1>3, <1>4, <1>5, <1>6

\* The tables when the trellis is seeded.
LEMMA SeedFits ==
  ASSUME AllFound, layer' = 2, prevLayer' = 1, UNCHANGED cands, cands # << >>,
         vit' = [i \in DOMAIN cands |->
           [j \in DOMAIN cands[i] |-> IF i = 1 THEN Emission(cands[i][j].dist) ELSE NegInf]],
         predecessors' = [i \in DOMAIN cands |-> [j \in DOMAIN cands[i] |-> 0]]
  PROVE  ForwardFits'
<1> SUFFICES ASSUME NEW m, StartsAt(m)
             PROVE  Scored(m, 1)' /\ prevLayer' = IF m < 2 THEN 1 ELSE 1
  BY DEF ForwardFits, StartsAt
<1>1. DOMAIN cands = 1..Len(cands) /\ Len(cands) \in Nat /\ m \in 1..Len(cands)
  BY ListGrows DEF AllFound, IsList, StartsAt
<1>2. \A i \in 1..Len(cands) : DOMAIN cands[i] = Slots(i)
  BY SlotsAre
<1>3. /\ Slots(1)' = Slots(1) /\ \A i : Slots(i)' = Slots(i)
      /\ \A i, j : SelfScore(i, j)' = SelfScore(i, j)
  BY DEF Slots, SelfScore
<1>4. vit' = [i \in 1..Len(cands) |-> [j \in Slots(i) |-> IF i = 1 THEN SelfScore(i, j) ELSE NegInf]]
  BY <1>1, <1>2 DEF SelfScore
<1>5. predecessors' = [i \in 1..Len(cands) |-> [j \in Slots(i) |-> 0]]
  BY <1>1, <1>2
<1>6. IsTable(vit)' /\ IsTable(predecessors)'
  BY <1>3, <1>4, <1>5 DEF IsTable
<1>7. ASSUME NEW i \in 1..Len(cands), FirstScored(m) <= i, i <= 1 PROVE ScoredAt(m, i)'
  <2>1. m = 1 /\ i = 1
    BY <1>1, <1>7 DEF FirstScored
  <2>2. \A j \in Slots(i) : IsScore(SelfScore(i, j)) /\ vit'[i][j] = SelfScore(i, j) /\ predecessors'[i][j] = 0
    BY <1>4, <1>5, <2>1, SelfScoreIsScore
  <2> QED
    BY <1>3, <2>1, <2>2 DEF ScoredAt, FirstScored
<1>8. ASSUME NEW i \in 1..Len(cands), ~(FirstScored(m) <= i /\ i <= 1) PROVE Unscored(i)'
  <2>1. i # 1 \/ Slots(i) = {}
    <3> SUFFICES ASSUME i = 1, Slots(1) # {} PROVE FALSE
      OBVIOUS
    <3>1. cands[1] # << >>
      BY <1>1, SlotsAre
    <3>2. m = 1
      BY <1>1, <3>1 DEF StartsAt
    <3> QED
      BY <1>8, <3>2 DEF FirstScored
  <2>2. \A j \in Slots(i) : vit'[i][j] = NegInf /\ predecessors'[i][j] = 0
    BY <1>4, <1>5, <2>1
  <2> QED
    BY <1>3, <2>2 DEF Unscored
<1>9. Scored(m, 1)'
  BY <1>6, <1>7, <1>8 DEF Scored
<1> QED
  BY <1>9

\* What depends on the candidates and the tables only.
LEMMA TrellisStays ==
  ASSUME UNCHANGED << positions, cands, vit, predecessors >>
  PROVE  /\ DriveFits' = DriveFits /\ AllFound' = AllFound
         /\ \A m : StartsAt(m)' = StartsAt(m)
         /\ \A m, l : Scored(m, l)' = Scored(m, l)
<1>1. DriveFits' = DriveFits /\ AllFound' = AllFound /\ \A m : StartsAt(m)' = StartsAt(m)
  BY DEF DriveFits, AllFound, StartsAt
<1>2. /\ \A i : Slots(i)' = Slots(i)
      /\ \A i, j : SelfScore(i, j)' = SelfScore(i, j)
      /\ \A i, k, j : Link(i, k, j)' = Link(i, k, j)
  BY DEF Slots, SelfScore, Link
<1>3. \A i, k, j : Through(i, k, j)' = Through(i, k, j)
  BY <1>2 DEF Through
<1>4. \A i, j : BestThrough(i, j)' = BestThrough(i, j)
  BY <1>2, <1>3 DEF BestThrough
<1>5. \A m, i : ScoredAt(m, i)' = ScoredAt(m, i)
  BY <1>2, <1>4 DEF ScoredAt, FirstScored
<1>6. \A i : Unscored(i)' = Unscored(i)
  BY <1>2 DEF Unscored
<1>7. IsTable(vit)' = IsTable(vit) /\ IsTable(predecessors)' = IsTable(predecessors)
  BY <1>2 DEF IsTable
<1> QED
  BY <1>1, <1>5, <1>6, <1>7 DEF Scored, FirstScored

\* A layer before the first one that is scored adds nothing.
LEMMA NothingScored ==
  ASSUME NEW m, NEW l \in Int, NEW k \in Int, l < FirstScored(m), k < FirstScored(m), m \in Nat, IsList(cands),
         Scored(m, l)
  PROVE  Scored(m, k)
<1>1. FirstScored(m) \in Int /\ Len(cands) \in Nat
  BY DEF FirstScored, IsList
<1>2. \A i \in 1..Len(cands) : ~(FirstScored(m) <= i /\ i <= l) /\ ~(FirstScored(m) <= i /\ i <= k)
  BY <1>1
<1> QED
  BY <1>2 DEF Scored

LEMMA PassKeeps ==
  ASSUME AllFound, layer \in 2..Len(cands), ForwardFits, PassLayer
  PROVE  ForwardFits'
<1> SUFFICES ASSUME NEW m, StartsAt(m)
             PROVE  Scored(m, layer) /\ prevLayer' = IF m < layer + 1 THEN layer ELSE 1
  <2>1. UNCHANGED << positions, cands, vit, predecessors >> /\ layer' = layer + 1 /\ layer' - 1 = layer
    BY DEF PassLayer
  <2> QED
    BY <2>1, TrellisStays DEF ForwardFits
<1>1. /\ m \in 1..Len(cands) /\ Len(cands) \in Nat /\ IsList(cands)
      /\ \A i \in 1..Len(cands) : cands[i] # << >> <=> m <= i
  BY DEF StartsAt, AllFound, IsList
<1>2. Scored(m, layer - 1) /\ prevLayer = IF m < layer THEN layer - 1 ELSE 1
  BY DEF ForwardFits
<1>3. /\ cands[layer] = << >> \/ cands[prevLayer] = << >>
      /\ prevLayer' = IF cands[layer] = << >> THEN prevLayer ELSE layer
  BY DEF PassLayer
<1>4. prevLayer \in 1..Len(cands) /\ layer \in 1..Len(cands)
  BY <1>1, <1>2
<1>5. m >= layer /\ (cands[layer] = << >> <=> m # layer)
  BY <1>1, <1>2, <1>3, <1>4
<1>6. layer < FirstScored(m) /\ layer - 1 < FirstScored(m)
  BY <1>1, <1>5 DEF FirstScored
<1>7. Scored(m, layer)
  BY <1>1, <1>2, <1>6, NothingScored
<1> QED
  BY <1>1, <1>2, <1>3, <1>5, <1>7

\* Finitely many numbers have a greatest one.
LEMMA GreatestOf ==
  ASSUME NEW n \in Nat, n >= 1, NEW f, \A j \in 1..n : f[j] \in Int
  PROVE  \E j \in 1..n : \A k \in 1..n : f[k] <= f[j]
<1> DEFINE T == { i \in Nat : i + 1 \in 1..n => \E j \in 1..i + 1 : \A k \in 1..i + 1 : f[k] <= f[j] }
<1>1. 0 \in T
  <2> SUFFICES \A k \in 1..0 + 1 : f[k] <= f[1]
    OBVIOUS
  <2>1. 1 \in 1..n
    OBVIOUS
  <2>2. f[1] \in Int
    BY <2>1
  <2>3. \A k \in 1..0 + 1 : k = 1
    OBVIOUS
  <2> QED
    BY <2>2, <2>3
<1>2. ASSUME NEW i \in T PROVE i + 1 \in T
  <2> SUFFICES ASSUME (i + 1) + 1 \in 1..n
               PROVE  \E j \in 1..(i + 1) + 1 : \A k \in 1..(i + 1) + 1 : f[k] <= f[j]
    OBVIOUS
  <2>1. i \in Nat /\ i + 1 \in 1..n
    OBVIOUS
  <2>2. PICK j \in 1..i + 1 : \A k \in 1..i + 1 : f[k] <= f[j]
    BY <2>1
  <2> HIDE DEF T
  <2> DEFINE m == (i + 1) + 1
  <2>3. f[j] \in Int /\ f[m] \in Int /\ j \in 1..m /\ m \in 1..m
    <3>1. j \in 1..n /\ m \in 1..n
      BY <2>1
    <3> QED
      BY <2>1, <3>1
  <2>4. \A k \in 1..m : f[k] \in Int /\ (k \in 1..i + 1 \/ k = m)
    BY <2>1
  <2>5. CASE f[m] <= f[j]
    BY <2>2, <2>3, <2>4, <2>5
  <2>6. CASE f[j] <= f[m]
    <3>1. ASSUME NEW k \in 1..m PROVE f[k] <= f[m]
      <4>1. CASE k = m
        BY <2>3, <4>1
      <4>2. CASE k \in 1..i + 1
        <5>1. f[k] <= f[j] /\ f[k] \in Int
          BY <2>2, <2>4, <4>2
        <5> QED
          BY <2>3, <2>6, <5>1
      <4> QED
        BY <2>4, <4>1, <4>2
    <3> QED
      BY <2>3, <3>1
  <2> QED
    BY <2>3, <2>5, <2>6
<1>3. T = Nat
  <2>1. T \in SUBSET Nat
    OBVIOUS
  <2> HIDE DEF T
  <2> QED
    BY <1>1, <1>2, <2>1, Induction
<1>4. n - 1 \in Nat /\ (n - 1) + 1 = n
  OBVIOUS
<1>5. n - 1 \in T
  BY <1>3, <1>4
<1> QED
  BY <1>4, <1>5

LEMMA ThroughIsScore ==
  ASSUME DriveFits, AllFound, NEW i \in 2..Len(cands), NEW k \in Slots(i - 1), NEW j \in Slots(i),
         IsScore(vit[i - 1][k])
  PROVE  IsScore(Through(i, k, j))
<1>1. i \in 1..Len(cands)
  OBVIOUS
<1>2. IsScore(Link(i, k, j)) /\ IsScore(SelfScore(i, j))
  BY <1>1, LinkIsScore, SelfScoreIsScore
<1> QED
  BY <1>2 DEF IsScore, Through

\* Only layers that were scored have a score.
LEMMA ScoreOrNone ==
  ASSUME NEW m, NEW l, Scored(m, l), NEW i \in 1..Len(cands), NEW j \in Slots(i)
  PROVE  /\ FirstScored(m) <= i /\ i <= l => IsScore(vit[i][j]) /\ vit[i][j] # NegInf
         /\ ~(FirstScored(m) <= i /\ i <= l) => vit[i][j] = NegInf
<1>1. \A x : IsScore(x) => x # NegInf
  BY DEF IsScore, NegInf
<1> QED
  BY <1>1 DEF Scored, ScoredAt, Unscored

\* What the layer that is scored gets.
LEMMA ScoreKeeps ==
  ASSUME DriveFits, AllFound, layer \in 2..Len(cands), ForwardFits, ScoreLayer
  PROVE  ForwardFits'
<1> SUFFICES ASSUME NEW m, StartsAt(m), NEW l, l = layer
             PROVE  Scored(m, l)' /\ prevLayer' = IF m < l + 1 THEN l ELSE 1
  <2>1. UNCHANGED << positions, cands >> /\ layer' = layer + 1
    BY DEF ScoreLayer
  <2>2. \A m : StartsAt(m)' = StartsAt(m)
    BY <2>1 DEF StartsAt
  <2>3. layer' - 1 = layer
    BY <2>1
  <2> QED
    BY <2>1, <2>2, <2>3 DEF ForwardFits
<1>1. /\ m \in 1..Len(cands) /\ Len(cands) \in Nat
      /\ \A i \in 1..Len(cands) : cands[i] # << >> <=> m <= i
  BY DEF StartsAt, AllFound, IsList
<1>2. Scored(m, l - 1) /\ prevLayer = IF m < l THEN l - 1 ELSE 1
  BY DEF ForwardFits
<1>3. cands[l] # << >> /\ cands[prevLayer] # << >> /\ prevLayer' = l /\ UNCHANGED << positions, cands >>
  BY DEF ScoreLayer
<1>4. prevLayer \in 1..Len(cands) /\ l \in 1..Len(cands)
  BY <1>1, <1>2
<1>5. m < l /\ prevLayer = l - 1
  BY <1>1, <1>2, <1>3, <1>4
<1> DEFINE p == l - 1
           row == [j \in Slots(l) |-> IF Viable = {} THEN SelfScore(l, j) ELSE Score(Best(j), j)]
           from == [j \in Slots(l) |-> IF Viable = {} THEN 0 ELSE Best(j)]
<1>6. /\ DOMAIN cands[p] = Slots(p) /\ p \in 1..Len(cands) /\ Slots(p) # {}
      /\ DOMAIN vit[l] = Slots(l) /\ DOMAIN predecessors[l] = Slots(l)
  <2>1. p \in 1..Len(cands) /\ cands[p] # << >>
    BY <1>3, <1>4, <1>5
  <2>2. DOMAIN vit[l] = Slots(l) /\ DOMAIN predecessors[l] = Slots(l)
    BY <1>2, <1>4 DEF Scored, IsTable
  <2> QED
    BY <2>1, <2>2, SlotsAre
<1>7. vit' = [vit EXCEPT ![l] = row] /\ predecessors' = [predecessors EXCEPT ![l] = from]
  BY <1>6 DEF ScoreLayer, SelfScore
<1>8. \A k, j : k \in Slots(p) => Score(k, j) = Through(l, k, j)
  BY <1>5 DEF Score, Through, Transition, Link, SelfScore
<1>9. Viable = { k \in Slots(p) : vit[p][k] # NegInf }
  BY <1>5, <1>6 DEF Viable
<1> HIDE DEF row, from
<1>10. vit'[l] = row /\ predecessors'[l] = from /\ \A i \in 1..Len(cands) : i # l => vit'[i] = vit[i] /\ predecessors'[i] = predecessors[i]
  <2>1. DOMAIN vit = 1..Len(cands) /\ DOMAIN predecessors = 1..Len(cands)
    BY <1>2 DEF Scored, IsTable
  <2> QED
    BY <1>4, <1>7, <2>1
<1>11. /\ \A i : Slots(i)' = Slots(i)
       /\ \A i, j : SelfScore(i, j)' = SelfScore(i, j)
       /\ \A i, k, j : Link(i, k, j)' = Link(i, k, j)
  BY <1>3 DEF Slots, SelfScore, Link
<1>12. \A i, k, j : i \in 1..l /\ i \in 1..Len(cands) /\ i - 1 \in 1..Len(cands) => Through(i, k, j)' = Through(i, k, j)
  <2> SUFFICES ASSUME NEW i \in 1..l, NEW k, NEW j, i \in 1..Len(cands), i - 1 \in 1..Len(cands)
               PROVE  Through(i, k, j)' = Through(i, k, j)
    OBVIOUS
  <2>1. i - 1 # l
    BY <1>4
  <2>2. vit'[i - 1] = vit[i - 1]
    BY <1>10, <2>1
  <2> QED
    BY <1>11, <2>2 DEF Through
<1>13. IsTable(vit)' /\ IsTable(predecessors)'
  <2>1. vit' = [i \in 1..Len(cands) |-> vit'[i]] /\ predecessors' = [i \in 1..Len(cands) |-> predecessors'[i]]
    <3>1. vit = [i \in 1..Len(cands) |-> vit[i]] /\ predecessors = [i \in 1..Len(cands) |-> predecessors[i]]
      BY <1>2 DEF Scored, IsTable
    <3> QED
      BY <1>7, <3>1
  <2>2. ASSUME NEW i \in 1..Len(cands)
        PROVE  vit'[i] = [j \in Slots(i) |-> vit'[i][j]] /\ predecessors'[i] = [j \in Slots(i) |-> predecessors'[i][j]]
    <3>1. CASE i = l
      BY <1>10, <3>1 DEF row, from
    <3>2. CASE i # l
      BY <1>2, <1>10, <3>2 DEF Scored, IsTable
    <3> QED
      BY <3>1, <3>2
  <2> QED
    BY <1>3, <1>11, <2>1, <2>2 DEF IsTable
<1>14. ASSUME l = FirstScored(m) PROVE ScoredAt(m, l)'
  <2>1. ~(FirstScored(m) <= p /\ p <= l - 1)
    BY <1>4, <1>14
  <2>2. Viable = {}
    BY <1>2, <1>6, <1>9, <2>1, ScoreOrNone
  <2>3. ASSUME NEW j \in Slots(l)
        PROVE  IsScore(vit'[l][j]) /\ vit'[l][j] = SelfScore(l, j) /\ predecessors'[l][j] = 0
    <3>1. vit'[l][j] = SelfScore(l, j) /\ predecessors'[l][j] = 0
      BY <1>10, <2>2 DEF row, from
    <3> QED
      BY <1>4, <3>1, SelfScoreIsScore
  <2>4. ScoredAt(m, l)'
    BY <1>11, <1>14, <2>3 DEF ScoredAt, FirstScored
  <2> QED
    BY <2>4
<1>15. ASSUME l # FirstScored(m) PROVE ScoredAt(m, l)'
  <2>1. FirstScored(m) <= p /\ p <= l - 1
    BY <1>1, <1>4, <1>5, <1>15 DEF FirstScored
  <2>2. \A k \in Slots(p) : IsScore(vit[p][k]) /\ vit[p][k] # NegInf
    BY <1>2, <1>6, <2>1, ScoreOrNone
  <2>3. Viable = Slots(p)
    BY <1>9, <2>2
  <2>4. ASSUME NEW j \in Slots(l)
        PROVE  /\ Best(j) \in Slots(p) /\ \A k \in Slots(p) : Through(l, k, j) <= Through(l, Best(j), j)
               /\ IsScore(Through(l, Best(j), j))
    <3>1. ASSUME NEW k \in Slots(p) PROVE IsScore(Through(l, k, j))
      <4>1. k \in Slots(l - 1) /\ IsScore(vit[l - 1][k])
        BY <2>2
      <4> QED
        BY <4>1, ThroughIsScore
    <3> DEFINE f == [k \in Slots(p) |-> Through(l, k, j)]
               S == { k \in Slots(p) : \A x \in Slots(p) : Through(l, x, j) <= Through(l, k, j) }
               n == Len(cands[p])
    <3>2. n \in Nat /\ Slots(p) = 1..n
      BY <1>6, SlotsAre DEF Slots
    <3>3. n >= 1
      BY <1>6, <3>2
    <3>4. \A k \in 1..n : f[k] = Through(l, k, j) /\ f[k] \in Int
      BY <3>1, <3>2 DEF IsScore
    <3> HIDE DEF f, n
    <3>5. \E k \in 1..n : \A x \in 1..n : f[x] <= f[k]
      BY <3>2, <3>3, <3>4, GreatestOf
    <3>6. S # {} /\ S \in SUBSET Nat
      <4>1. PICK k \in Slots(p) : \A x \in Slots(p) : f[x] <= f[k]
        BY <3>2, <3>5
      <4>2. \A x \in Slots(p) : f[x] = Through(l, x, j)
        BY <3>2, <3>4
      <4>3. k \in S
        BY <4>1, <4>2
      <4> QED
        BY <3>2, <4>3
    <3>7. Best(j) = Min(S)
      <4>1. { k \in Viable : \A x \in Viable : Score(x, j) <= Score(k, j) } = S
        BY <1>8, <2>3
      <4> HIDE DEF S
      <4> QED
        BY <4>1 DEF Best
    <3>8. Best(j) \in S
      <4> HIDE DEF S
      <4> QED
        BY <3>6, <3>7, MinIsLeast
    <3> QED
      BY <3>1, <3>8
  <2>5. Viable # {}
    BY <1>6, <2>3
  <2>6. ASSUME NEW j \in Slots(l)
        PROVE  IsScore(vit'[l][j]) /\ BestThrough(l, j)'
    <3>1. predecessors'[l][j] = Best(j)
      BY <1>10, <2>5 DEF from
    <3>2. vit'[l][j] = Through(l, Best(j), j)
      BY <1>8, <1>10, <2>4, <2>5 DEF row
    <3>3. \A k : Through(l, k, j)' = Through(l, k, j)
      BY <1>4, <1>6, <1>12
    <3> QED
      BY <1>11, <2>4, <3>1, <3>2, <3>3 DEF BestThrough
  <2>7. ScoredAt(m, l)'
    BY <1>11, <1>15, <2>6 DEF ScoredAt, FirstScored
  <2> QED
    BY <2>7
<1>16. ASSUME NEW i \in 1..Len(cands) PROVE IF FirstScored(m) <= i /\ i <= l THEN ScoredAt(m, i)' ELSE Unscored(i)'
  <2>1. CASE i = l
    <3>1. FirstScored(m) <= l
      BY <1>1, <1>4, <1>5 DEF FirstScored
    <3> QED
      BY <1>4, <1>14, <1>15, <2>1, <3>1
  <2>2. CASE FirstScored(m) <= i /\ i < l
    <3>1. ScoredAt(m, i) /\ i \in 1..l
      BY <1>2, <1>4, <2>2 DEF Scored
    <3>2. vit'[i] = vit[i] /\ predecessors'[i] = predecessors[i]
      BY <1>4, <1>10, <2>2
    <3>3. ASSUME NEW j \in Slots(i), i # FirstScored(m) PROVE BestThrough(i, j)'
      <4>1. i - 1 \in 1..Len(cands)
        BY <1>1, <2>2, <3>3 DEF FirstScored
      <4>2. \A k : Through(i, k, j)' = Through(i, k, j)
        BY <1>12, <3>1, <4>1
      <4>3. BestThrough(i, j)
        BY <3>1, <3>3 DEF ScoredAt
      <4> QED
        BY <1>11, <3>2, <4>2, <4>3 DEF BestThrough
    <3>4. ScoredAt(m, i)'
      BY <1>11, <3>1, <3>2, <3>3 DEF ScoredAt, FirstScored
    <3> QED
      BY <1>4, <2>2, <3>4
  <2>3. CASE ~(FirstScored(m) <= i /\ i <= l)
    <3>1. i # l
      BY <1>1, <1>4, <1>5, <2>3 DEF FirstScored
    <3>2. Unscored(i)
      <4>1. ~(FirstScored(m) <= i /\ i <= l - 1)
        BY <1>1, <1>4, <2>3
      <4> QED
        BY <1>2, <4>1 DEF Scored
    <3>3. vit'[i] = vit[i] /\ predecessors'[i] = predecessors[i]
      BY <1>10, <3>1
    <3>4. Unscored(i)'
      BY <1>11, <3>2, <3>3 DEF Unscored
    <3> QED
      BY <2>3, <3>4
  <2> QED
    BY <1>1, <1>4, <2>1, <2>2, <2>3 DEF FirstScored
<1>17. Scored(m, l)'
  <2>1. Len(cands)' = Len(cands) /\ \A i \in 1..Len(cands) : IF FirstScored(m)' <= i /\ i <= l THEN ScoredAt(m, i)' ELSE Unscored(i)'
    BY <1>3, <1>16 DEF FirstScored
  <2> QED
    BY <1>13, <2>1 DEF Scored
<1>18. m < l + 1
  BY <1>1, <1>4, <1>5
<1> QED
  BY <1>3, <1>17, <1>18

-----------------------------------------------------------------------------
\* The walk back along the best predecessors.

WalkBack(w, t) ==
  /\ \A i \in t..Len(cands) : w[i] \in Slots(i) /\ (i = Len(cands) => w[i] = BestOf(i))
  /\ \A i \in t + 1..Len(cands) : w[i - 1] = Predecessor(i, w[i])
PointsFrom(w, t) ==
  roadPoints = [i \in 1..Len(cands) |-> IF t <= i THEN Snap(cands[i][w[i]]) ELSE Unmatched]
WalkedTo(w, t) == WalkBack(w, t) /\ w[t] = cursor /\ \A u : u = t + 1 => PointsFrom(w, u)
WalkedFrom(m) == \E w : WalkBack(w, m) /\ PointsFrom(w, m)

Blank == roadPoints = [i \in 1..Len(positions) |-> Unmatched]
BackFits ==
  \A m : StartsAt(m) =>
    /\ Scored(m, Len(cands)) /\ layer \in m..Len(cands)
    /\ \E w : WalkedTo(w, layer)
MadeFits == \A m : StartsAt(m) => Scored(m, Len(cands)) /\ WalkedFrom(m)

\* The best candidate of a layer has a score that no other is above, if all or none are scored.
LEMMA BestOfFits ==
  ASSUME AllFound, NEW i \in 1..Len(cands), cands[i] # << >>, NEW m, NEW l, Scored(m, l)
  PROVE  BestOf(i) \in Slots(i) /\ \A k \in Slots(i) : NotAbove(vit[i][k], vit[i][BestOf(i)])
<1> DEFINE S == { j \in Slots(i) : \A k \in Slots(i) : NotAbove(vit[i][k], vit[i][j]) }
           n == Len(cands[i])
           f == vit[i]
<1>1. n \in Nat /\ Slots(i) = 1..n /\ Slots(i) # {} /\ DOMAIN vit[i] = Slots(i)
  <2>1. DOMAIN vit[i] = Slots(i)
    BY DEF Scored, IsTable
  <2> QED
    BY <2>1, SlotsAre DEF Slots
<1>2. n >= 1 /\ 1 \in Slots(i)
  BY <1>1
<1>3. S # {}
  <2>1. CASE FirstScored(m) <= i /\ i <= l
    <3>1. \A j \in Slots(i) : IsScore(vit[i][j])
      BY <2>1, ScoreOrNone
    <3>2. \A j \in 1..n : f[j] \in Int
      BY <1>1, <3>1 DEF IsScore
    <3>3. \A j \in 1..n : f[j] # NegInf
      BY <1>1, <3>1 DEF IsScore, NegInf
    <3> HIDE DEF f, n
    <3>4. PICK j \in 1..n : \A k \in 1..n : f[k] <= f[j]
      BY <1>1, <1>2, <3>2, GreatestOf
    <3>5. \A k \in Slots(i) : NotAbove(f[k], f[j])
      BY <1>1, <3>3, <3>4 DEF NotAbove
    <3> QED
      BY <1>1, <3>4, <3>5 DEF f
  <2>2. CASE ~(FirstScored(m) <= i /\ i <= l)
    <3>1. \A j \in Slots(i) : vit[i][j] = NegInf
      BY <2>2, ScoreOrNone
    <3>2. \A k \in Slots(i) : NotAbove(vit[i][k], vit[i][1])
      BY <3>1 DEF NotAbove
    <3>3. 1 \in S
      BY <1>2, <3>2
    <3> HIDE DEF S
    <3> QED
      BY <3>3
  <2> QED
    BY <2>1, <2>2
<1>4. S \in SUBSET Nat
  BY <1>1
<1>5. BestOf(i) = Min(S)
  BY <1>1 DEF BestOf
<1>6. Min(S) \in S
  BY <1>3, <1>4, MinIsLeast
<1> QED
  BY <1>5, <1>6

\* Where the walk goes on, as long as it is in a layer that has candidates.
LEMMA PredecessorFits ==
  ASSUME AllFound, NEW m, StartsAt(m), Scored(m, Len(cands)), NEW i \in 1..Len(cands), m < i, NEW j \in Slots(i)
  PROVE  Predecessor(i, j) \in Slots(i - 1) /\ i - 1 \in 1..Len(cands)
<1>1. /\ m \in 1..Len(cands) /\ Len(cands) \in Nat
      /\ \A k \in 1..Len(cands) : cands[k] # << >> <=> m <= k
  BY DEF StartsAt, AllFound, IsList
<1>2. i - 1 \in 1..Len(cands) /\ m <= i - 1
  BY <1>1
<1>3. cands[i - 1] # << >>
  BY <1>1, <1>2
<1>4. FirstScored(m) <= i /\ i <= Len(cands)
  BY <1>1 DEF FirstScored
<1>5. ScoredAt(m, i)
  BY <1>4 DEF Scored
<1>6. CASE i = FirstScored(m)
  <2>1. predecessors[i][j] = 0
    BY <1>5, <1>6 DEF ScoredAt
  <2>2. Predecessor(i, j) = BestOf(i - 1)
    BY <1>3, <2>1 DEF Predecessor
  <2> QED
    BY <1>2, <1>3, <2>2, BestOfFits
<1>7. CASE i # FirstScored(m)
  <2>1. predecessors[i][j] \in Slots(i - 1)
    BY <1>5, <1>7 DEF ScoredAt, BestThrough
  <2>2. predecessors[i][j] # 0
    BY <2>1 DEF Slots
  <2> QED
    BY <1>2, <2>1, <2>2 DEF Predecessor
<1> QED
  BY <1>6, <1>7

LEMMA BacktraceStarts ==
  ASSUME AllFound, layer = Len(cands) + 1, ForwardFits, StartBacktrace, Len(positions) >= 1, Blank
  PROVE  \/ matching' = "back" /\ BackFits'
         \/ matching' = "done" /\ MadeFits'
<1> DEFINE L == Len(cands)
<1>1. UNCHANGED << positions, cands, vit, predecessors, roadPoints >>
  BY DEF StartBacktrace, trellisVars
<1>2. L \in Nat /\ L >= 1 /\ L = Len(positions) /\ DOMAIN cands = 1..L
  BY ListGrows DEF AllFound, IsList
<1>3. CASE Layers = {}
  <2>1. ASSUME NEW m PROVE ~StartsAt(m)
    <3> SUFFICES ASSUME StartsAt(m) PROVE FALSE
      OBVIOUS
    <3>1. m \in 1..L /\ cands[m] # << >>
      BY <1>2 DEF StartsAt
    <3> QED
      BY <1>2, <1>3, <3>1 DEF Layers
  <2>2. MadeFits'
    BY <1>1, <2>1, TrellisStays DEF MadeFits
  <2> QED
    BY <1>3, <2>2 DEF StartBacktrace
<1>4. CASE Layers # {}
  <2>1. matching' = "back" /\ layer' = Max(Layers) /\ cursor' = BestOf(Max(Layers))
    BY <1>4 DEF StartBacktrace
  <2>2. ASSUME NEW m, StartsAt(m), NEW t, t = L
        PROVE  Scored(m, t)' /\ t \in m..t /\ layer' = t /\ \E w : WalkedTo(w, t)'
    <3>1. m \in 1..L /\ \A i \in 1..L : cands[i] # << >> <=> m <= i
      BY <2>2 DEF StartsAt
    <3>2. t \in 1..L /\ cands[t] # << >> /\ Layers \subseteq 1..L
      BY <1>2, <2>2, <3>1 DEF Layers
    <3>3. Max(Layers) = t
      <4>1. t \in Layers /\ \A x \in Layers : t >= x
        BY <1>2, <2>2, <3>2 DEF Layers
      <4>2. \A x \in Layers : x \in Int
        BY <3>2
      <4> QED
        BY <4>1, <4>2 DEF Max
    <3>4. Scored(m, t)
      <4>1. Scored(m, layer - 1) /\ layer - 1 = t
        BY <1>2, <2>2 DEF ForwardFits
      <4> QED
        BY <4>1
    <3>5. BestOf(t) \in Slots(t)
      BY <3>2, <3>4, BestOfFits
    <3>6. BestOf(t)' = BestOf(t) /\ \A i : Slots(i)' = Slots(i)
      BY <1>1 DEF BestOf, Slots
    <3>7. PICK w : w[t] = BestOf(t)
      <4>1. [i \in {t} |-> BestOf(t)][t] = BestOf(t)
        OBVIOUS
      <4> QED
        BY <4>1
    <3>8. WalkBack(w, t)'
      <4>1. Len(cands') = t /\ t \in Nat
        BY <1>1, <1>2, <2>2
      <4>3. \A i \in t..t : w[i] \in Slots(i)' /\ w[i] = BestOf(i)'
        BY <3>5, <3>6, <3>7, <4>1
      <4>4. t + 1..t = {}
        BY <4>1
      <4> QED
        BY <4>1, <4>3, <4>4 DEF WalkBack
    <3>9. ASSUME NEW u, u = t + 1 PROVE PointsFrom(w, u)'
      <4>1. \A i \in 1..L : ~(u <= i)
        BY <1>2, <2>2, <3>9
      <4>2. roadPoints = [i \in 1..L |-> Unmatched]
        BY <1>2 DEF Blank
      <4> QED
        BY <1>1, <4>1, <4>2 DEF PointsFrom
    <3>10. layer' = t /\ w[t] = cursor'
      BY <2>1, <3>3, <3>7
    <3>11. WalkedTo(w, t)'
      BY <3>8, <3>9, <3>10 DEF WalkedTo
    <3>12. Scored(m, t)'
      BY <1>1, <3>4, TrellisStays
    <3> QED
      BY <1>2, <2>2, <3>1, <3>10, <3>11, <3>12
  <2>3. BackFits'
    <3>1. Len(cands') = L
      BY <1>1
    <3>2. \A m : StartsAt(m)' = StartsAt(m)
      BY <1>1, TrellisStays
    <3> QED
      BY <2>2, <3>1, <3>2 DEF BackFits
  <2> QED
    BY <2>1, <2>3
<1> QED
  BY <1>3, <1>4

LEMMA BacktraceGoesOn ==
  ASSUME AllFound, BackFits, BacktraceStep
  PROVE  \/ matching' = "back" /\ BackFits'
         \/ matching' = "done" /\ MadeFits'
<1> DEFINE L == Len(cands)
           next == IF layer = 1 THEN 0 ELSE Predecessor(layer, cursor)
<1>1. /\ UNCHANGED << positions, cands, vit, predecessors >>
      /\ roadPoints' = [roadPoints EXCEPT ![layer] = Snap(cands[layer][cursor])]
      /\ cursor' = next /\ matching' = (IF next = 0 THEN "done" ELSE "back")
      /\ layer' = IF layer = 1 THEN 1 ELSE layer - 1
  BY DEF BacktraceStep, trellisVars
<1>2. \A m : StartsAt(m)' = StartsAt(m) /\ \A l : Scored(m, l)' = Scored(m, l)
  BY <1>1, TrellisStays
<1>3. \A i : Slots(i)' = Slots(i) /\ BestOf(i)' = BestOf(i) /\ \A j : Predecessor(i, j)' = Predecessor(i, j)
  BY <1>1 DEF Slots, BestOf, Predecessor
<1>4. \A w, t : WalkBack(w, t)' = WalkBack(w, t)
  BY <1>1, <1>3 DEF WalkBack
<1>5. ASSUME NEW m, StartsAt(m)
      PROVE  /\ Scored(m, L) /\ m \in 1..L /\ L \in Nat
             /\ \A i \in 1..L : cands[i] # << >> <=> m <= i
             /\ layer \in m..L /\ \E w : WalkedTo(w, layer)
  BY <1>5 DEF BackFits, StartsAt, AllFound, IsList
<1>6. ASSUME NEW m, StartsAt(m), NEW w, WalkedTo(w, layer)
      PROVE  \A t : t = layer => PointsFrom(w, t)'
  <2>1. roadPoints = [i \in 1..L |-> IF layer + 1 <= i THEN Snap(cands[i][w[i]]) ELSE Unmatched]
    BY <1>6 DEF WalkedTo, PointsFrom
  <2>2. layer \in 1..L /\ L \in Nat /\ w[layer] = cursor
    BY <1>5, <1>6 DEF WalkedTo
  <2>3. roadPoints' = [i \in 1..L |-> IF layer <= i THEN Snap(cands[i][w[i]]) ELSE Unmatched]
    <3>1. \A i \in 1..L : layer <= i <=> i = layer \/ layer + 1 <= i
      BY <2>2
    <3>2. roadPoints' = [i \in 1..L |-> IF i = layer THEN Snap(cands[layer][cursor]) ELSE roadPoints[i]]
      BY <1>1, <2>1
    <3> QED
      BY <2>1, <2>2, <3>1, <3>2
  <2> QED
    BY <1>1, <2>3 DEF PointsFrom, Snap
<1>7. ASSUME NEW m, StartsAt(m), layer = m
      PROVE  next = 0 /\ WalkedFrom(m)'
  <2>1. PICK w : WalkedTo(w, layer)
    BY <1>5, <1>7
  <2>2. WalkBack(w, m)' /\ PointsFrom(w, m)'
    <3>1. WalkBack(w, m)
      BY <1>7, <2>1 DEF WalkedTo
    <3> QED
      BY <1>4, <1>6, <1>7, <2>1, <3>1
  <2>3. next = 0
    <3> SUFFICES ASSUME layer # 1 PROVE Predecessor(layer, cursor) = 0
      OBVIOUS
    <3>1. m \in 1..L /\ m # 1 /\ m - 1 \in 1..L /\ cands[m - 1] = << >>
      BY <1>5, <1>7
    <3>2. Unscored(m)
      <4>1. Scored(m, L) /\ ~(FirstScored(m) <= m)
        BY <1>5, <1>7, <3>1 DEF FirstScored
      <4> QED
        BY <3>1, <4>1 DEF Scored
    <3>3. cursor \in Slots(m)
      <4>1. m \in m..L /\ w[m] = cursor
        BY <1>7, <2>1, <3>1, <1>5 DEF WalkedTo
      <4> QED
        BY <1>7, <2>1, <4>1 DEF WalkedTo, WalkBack
    <3>4. predecessors[m][cursor] = 0
      BY <3>2, <3>3 DEF Unscored
    <3> QED
      BY <1>7, <3>1, <3>4 DEF Predecessor
  <2> QED
    BY <2>2, <2>3 DEF WalkedFrom
<1>8. ASSUME NEW m, StartsAt(m), layer # m
      PROVE  next # 0 /\ layer' \in m..L /\ \A t : t = layer' => \E w : WalkedTo(w, t)'
  <2>1. PICK w : WalkedTo(w, layer)
    BY <1>5, <1>8
  <2>2. /\ layer \in 1..L /\ m < layer /\ L \in Nat /\ m \in 1..L /\ Scored(m, L)
        /\ layer # 1 /\ layer' = layer - 1 /\ layer - 1 \in m..L
    BY <1>1, <1>5, <1>8
  <2>3. /\ \A i \in layer..L : w[i] \in Slots(i) /\ (i = L => w[i] = BestOf(i))
        /\ \A i \in layer + 1..L : w[i - 1] = Predecessor(i, w[i])
        /\ w[layer] = cursor
    BY <2>1 DEF WalkedTo, WalkBack
  <2>4. cursor \in Slots(layer)
    BY <2>2, <2>3
  <2>5. next = Predecessor(layer, cursor) /\ next \in Slots(layer - 1)
    BY <1>8, <2>2, <2>4, PredecessorFits
  <2>6. next # 0
    BY <2>5 DEF Slots
  <2> HIDE DEF next
  <2>7. PICK v : v[layer - 1] = next /\ \A i \in layer..L : v[i] = w[i]
    <3> DEFINE longer == [i \in layer - 1..L |-> IF i = layer - 1 THEN next ELSE w[i]]
    <3>1. longer[layer - 1] = next /\ \A i \in layer..L : longer[i] = w[i]
      BY <2>2
    <3> QED
      BY <3>1
  <2>8. WalkBack(v, layer - 1)
    <3>2. ASSUME NEW i \in layer - 1..L PROVE v[i] \in Slots(i) /\ (i = L => v[i] = BestOf(i))
      <4>1. (i = layer - 1 /\ i # L) \/ i \in layer..L
        BY <2>2
      <4> QED
        BY <2>3, <2>5, <2>7, <4>1
    <3>3. ASSUME NEW i \in (layer - 1) + 1..L PROVE v[i - 1] = Predecessor(i, v[i])
      <4>1. CASE i = layer
        BY <2>2, <2>3, <2>5, <2>7, <4>1
      <4>2. CASE i # layer
        <5>1. i \in layer + 1..L /\ i - 1 \in layer..L /\ i \in layer..L
          BY <2>2, <4>2
        <5> QED
          BY <2>3, <2>7, <5>1
      <4> QED
        BY <4>1, <4>2
    <3> QED
      BY <3>2, <3>3 DEF WalkBack
  <2>9. ASSUME NEW t, t = layer PROVE PointsFrom(v, t)'
    <3>1. roadPoints' = [i \in 1..L |-> IF layer <= i THEN Snap(cands[i][w[i]]) ELSE Unmatched]
      <4>1. PointsFrom(w, t)'
        BY <1>6, <1>8, <2>1, <2>9
      <4> QED
        BY <1>1, <2>9, <4>1 DEF PointsFrom, Snap
    <3>2. \A i \in 1..L : layer <= i => v[i] = w[i]
      BY <2>2, <2>7
    <3>3. roadPoints' = [i \in 1..L |-> IF layer <= i THEN Snap(cands[i][v[i]]) ELSE Unmatched]
      BY <3>1, <3>2
    <3> QED
      BY <1>1, <2>9, <3>3 DEF PointsFrom, Snap
  <2>10. ASSUME NEW t, t = layer' PROVE WalkedTo(v, t)'
    <3>1. t = layer - 1 /\ t + 1 = layer
      BY <2>2, <2>10
    <3>2. WalkBack(v, t)'
      BY <1>4, <2>8, <3>1
    <3>3. v[t] = cursor'
      BY <1>1, <2>7, <3>1
    <3>4. ASSUME NEW u, u = t + 1 PROVE PointsFrom(v, u)'
      BY <2>9, <3>1, <3>4
    <3> QED
      BY <3>2, <3>3, <3>4 DEF WalkedTo
  <2> QED
    BY <2>2, <2>6, <2>10
<1>9. CASE next = 0
  <2>1. ASSUME NEW m, StartsAt(m) PROVE Scored(m, L) /\ WalkedFrom(m)'
    BY <1>5, <1>7, <1>8, <1>9, <2>1
  <2>2. MadeFits'
    BY <1>1, <1>2, <2>1 DEF MadeFits
  <2> QED
    BY <1>1, <1>9, <2>2
<1>10. CASE next # 0
  <2>1. ASSUME NEW m, StartsAt(m)
        PROVE  Scored(m, L) /\ layer' \in m..L /\ \A t : t = layer' => \E w : WalkedTo(w, t)'
    BY <1>5, <1>7, <1>8, <1>10, <2>1
  <2>2. BackFits'
    BY <1>1, <1>2, <2>1 DEF BackFits
  <2> QED
    BY <1>1, <1>10, <2>2
<1> QED
  BY <1>9, <1>10

-----------------------------------------------------------------------------
\* The whole matching.

Collecting ==
  /\ IsList(cands) /\ layer = Len(cands) + 1 /\ Len(cands) <= Len(positions) /\ Len(positions) >= 1
  /\ (\A i \in 1..Len(cands) : CandsFit(cands[i])) /\ Blank
Forwarding == AllFound /\ layer \in 2..Len(cands) + 1 /\ Len(positions) >= 1 /\ Blank /\ ForwardFits
MatchFits ==
  /\ DriveFits
  /\ matching \in {"candidates", "forward", "back", "done", "crashed"}
  /\ matching = "candidates" => Collecting
  /\ matching = "forward" => Forwarding
  /\ matching = "back" => AllFound /\ BackFits
  /\ matching = "done" => cands = << >> \/ (AllFound /\ MadeFits)

LEMMA DriveHasPlaces ==
  ASSUME DriveInv
  PROVE  IsList(DrivePositions) /\ \A i \in 1..Len(DrivePositions) : DrivePositions[i] \in Int \X Int
<1> DEFINE d == DrivePositions
           frames == oxts.frames
           n == Len(frames)
<1>1. oxts \in GpsRecord
  BY DEF DriveInv, DriveOK, GpsOK, LidarOK, FramesOf
<1>2. frames \in Seq(Frame)
  BY <1>1 DEF GpsRecord, FrameLists
<1>3. d = [i \in DOMAIN frames |-> frames[i].enu]
  BY DEF DrivePositions
<1> HIDE DEF frames, d
<1>4. n \in Nat /\ DOMAIN frames = 1..n /\ \A i \in 1..n : frames[i] \in Frame
  BY <1>2
<1> HIDE DEF n
<1>5. \A i \in 1..n : frames[i].enu \in Int \X Int
  BY <1>4 DEF Frame
<1>6. d = [i \in 1..n |-> frames[i].enu]
  BY <1>3, <1>4
<1>7. d \in [1..n -> Int \X Int]
  BY <1>5, <1>6
<1>8. d \in Seq(Int \X Int) /\ Len(d) = n
  BY <1>4, <1>7
<1>9. d = [i \in 1..n |-> d[i]] /\ \A i \in 1..n : d[i] \in Int \X Int
  BY <1>7
<1> QED
  BY <1>4, <1>8, <1>9 DEF IsList, d

LEMMA MatchingStarts ==
  ASSUME DriveInv, StartMatching(DrivePositions), cands = << >>
  PROVE  MatchFits'
<1> DEFINE d == DrivePositions
<1>1. IsList(d) /\ \A i \in 1..Len(d) : d[i] \in Int \X Int
  BY DriveHasPlaces
<1>2. /\ positions' = d /\ roadPoints' = [i \in DOMAIN d |-> Unmatched] /\ layer' = 1 /\ cands' = << >>
      /\ matching' = (IF d = << >> \/ graph.edges = << >> THEN "done" ELSE "candidates")
  BY DEF StartMatching
<1> HIDE DEF d
<1>3. DriveFits'
  BY <1>1, <1>2 DEF DriveFits
<1>4. CASE matching' = "done"
  BY <1>2, <1>3, <1>4 DEF MatchFits
<1>5. CASE matching' = "candidates"
  <2>1. d # << >>
    BY <1>2, <1>5
  <2>2. Len(d) \in Nat /\ d = [i \in 1..Len(d) |-> d[i]] /\ DOMAIN d = 1..Len(d)
    BY <1>1, ListGrows DEF IsList
  <2>3. Len(d) # 0
    <3> SUFFICES ASSUME Len(d) = 0 PROVE d = << >>
      BY <2>1
    <3>1. d \in [1..0 -> {}]
      BY <2>2
    <3> QED
      BY <3>1
  <2>4. Blank'
    BY <1>2, <2>2 DEF Blank
  <2>5. IsList(cands') /\ Len(cands') = 0
    BY <1>2, EmptyIsList
  <2>6. Collecting'
    BY <1>2, <2>2, <2>3, <2>4, <2>5 DEF Collecting
  <2> QED
    BY <1>3, <1>5, <2>6 DEF MatchFits
<1> QED
  BY <1>2, <1>4, <1>5

LEMMA FindKeeps ==
  ASSUME MatchFits, LinesFit(graph), FindCandidates
  PROVE  MatchFits'
<1>1. Collecting /\ DriveFits /\ layer <= Len(positions) /\ matching' = "candidates"
  BY DEF FindCandidates, MatchFits
<1>2. UNCHANGED << positions, roadPoints >> /\ layer' = layer + 1
  BY DEF FindCandidates
<1>3. IsList(cands) /\ layer = Len(cands) + 1 /\ Len(cands) \in Nat /\ Len(positions) \in Nat
  BY <1>1 DEF Collecting, DriveFits, IsList
<1>4. positions[layer] \in Int \X Int
  BY <1>1, <1>3 DEF DriveFits
<1>5. PICK l : cands' = Append(cands, l) /\ CandsFit(l)
  <2>1. PICK s \in NearestFirst(Within(positions[layer])) :
          cands' = Append(cands, SubSeq(s, 1, Min({ Len(s), MaxCandidates })))
    BY DEF FindCandidates
  <2>2. CandsFit(SubSeq(s, 1, Min({ Len(s), MaxCandidates })))
    BY <1>4, CandidatesFit
  <2> QED
    BY <2>1, <2>2
<1>6. /\ IsList(cands') /\ Len(cands') = Len(cands) + 1
      /\ cands'[Len(cands) + 1] = l /\ \A i \in 1..Len(cands) : cands'[i] = cands[i]
  BY <1>3, <1>5, ListGrows
<1>7. ASSUME NEW i \in 1..Len(cands') PROVE CandsFit(cands'[i])
  <2>1. i \in 1..Len(cands) \/ i = Len(cands) + 1
    BY <1>3, <1>6
  <2> QED
    BY <1>1, <1>5, <1>6, <2>1 DEF Collecting
<1>8. \A k \in 1..Len(cands') : CandsFit(cands[k])'
  BY <1>7 DEF CandsFit, IsList, IsCandidate
<1>9. Blank' /\ Len(positions') >= 1
  BY <1>1, <1>2 DEF Collecting, Blank
<1>10. Collecting'
  BY <1>1, <1>2, <1>3, <1>6, <1>8, <1>9 DEF Collecting
<1>11. DriveFits'
  BY <1>1, <1>2 DEF DriveFits
<1> QED
  BY <1>1, <1>10, <1>11 DEF MatchFits

LEMMA SeedKeeps ==
  ASSUME MatchFits, SeedTrellis
  PROVE  MatchFits'
<1>1. Collecting /\ DriveFits /\ layer > Len(positions) /\ matching' = "forward"
  BY DEF SeedTrellis, MatchFits
<1>2. UNCHANGED << positions, cands, roadPoints >> /\ layer' = 2 /\ prevLayer' = 1
  BY DEF SeedTrellis
<1>3. Len(cands) = Len(positions) /\ Len(cands) >= 1 /\ Len(cands) \in Nat
  <2>1. Len(cands) \in Nat /\ Len(positions) \in Nat
    BY <1>1 DEF Collecting, DriveFits, IsList
  <2>2. layer = Len(cands) + 1 /\ Len(cands) <= Len(positions) /\ Len(positions) >= 1
    BY <1>1 DEF Collecting
  <2> QED
    BY <1>1, <2>1, <2>2
<1>4. AllFound
  BY <1>1, <1>3 DEF Collecting, AllFound
<1>5. cands # << >>
  BY <1>3, EmptyIsList
<1>6. ForwardFits'
  BY <1>2, <1>4, <1>5, SeedFits DEF SeedTrellis
<1>7. AllFound' /\ DriveFits' /\ Blank'
  BY <1>1, <1>2, <1>4 DEF AllFound, DriveFits, Blank, Collecting
<1>8. Forwarding'
  BY <1>2, <1>3, <1>6, <1>7 DEF Forwarding
<1> QED
  BY <1>1, <1>7, <1>8 DEF MatchFits

LEMMA LayerKeeps ==
  ASSUME MatchFits, PassLayer \/ ScoreLayer
  PROVE  MatchFits'
<1>1. Forwarding /\ DriveFits /\ layer <= Len(positions) /\ matching' = "forward"
  BY DEF PassLayer, ScoreLayer, MatchFits
<1>2. UNCHANGED << positions, cands, roadPoints >> /\ layer' = layer + 1
  BY DEF PassLayer, ScoreLayer
<1>3. layer \in 2..Len(cands) /\ Len(cands) \in Nat
  BY <1>1 DEF Forwarding, AllFound, IsList
<1>4. ForwardFits'
  BY <1>1, <1>3, PassKeeps, ScoreKeeps DEF Forwarding
<1>5. AllFound' /\ DriveFits' /\ Blank'
  BY <1>1, <1>2 DEF AllFound, DriveFits, Blank, Forwarding
<1>6. Forwarding'
  BY <1>1, <1>2, <1>3, <1>4, <1>5 DEF Forwarding
<1> QED
  BY <1>1, <1>5, <1>6 DEF MatchFits

LEMMA BacktraceKeeps ==
  ASSUME MatchFits, StartBacktrace \/ BacktraceStep \/ ReadBeyond
  PROVE  MatchFits'
<1>1. UNCHANGED << positions, cands, vit, predecessors >>
  BY DEF StartBacktrace, BacktraceStep, ReadBeyond, trellisVars
<1>2. DriveFits' /\ AllFound' = AllFound
  BY <1>1, TrellisStays DEF MatchFits
<1>3. CASE StartBacktrace
  <2>1. Forwarding /\ layer > Len(positions)
    BY <1>3 DEF StartBacktrace, MatchFits
  <2>2. layer = Len(cands) + 1 /\ AllFound
    BY <2>1 DEF Forwarding, AllFound, IsList
  <2>3. \/ matching' = "back" /\ BackFits'
        \/ matching' = "done" /\ MadeFits'
    BY <1>3, <2>1, <2>2, BacktraceStarts DEF Forwarding
  <2> QED
    BY <1>2, <2>2, <2>3 DEF MatchFits
<1>4. CASE BacktraceStep
  <2>1. AllFound /\ BackFits
    BY <1>4 DEF BacktraceStep, MatchFits
  <2>2. \/ matching' = "back" /\ BackFits'
        \/ matching' = "done" /\ MadeFits'
    BY <1>4, <2>1, BacktraceGoesOn
  <2> QED
    BY <1>2, <2>1, <2>2 DEF MatchFits
<1>5. CASE ReadBeyond
  BY <1>2, <1>5 DEF ReadBeyond, MatchFits
<1> QED
  BY <1>3, <1>4, <1>5

LEMMA MatcherKeeps ==
  ASSUME MatchFits, LinesFit(graph), MatcherNext
  PROVE  MatchFits'
BY FindKeeps, SeedKeeps, LayerKeeps, BacktraceKeeps DEF MatcherNext

LEMMA MatchStays ==
  ASSUME UNCHANGED matcherVars
  PROVE  MatchFits' = MatchFits
<1>1. UNCHANGED << positions, cands, vit, predecessors, prevLayer, layer, cursor, roadPoints, matching >>
  BY DEF matcherVars, trellisVars
<1>2. /\ DriveFits' = DriveFits /\ AllFound' = AllFound
      /\ \A m : StartsAt(m)' = StartsAt(m)
      /\ \A m, l : Scored(m, l)' = Scored(m, l)
  BY <1>1, TrellisStays
<1>3. /\ \A i : Slots(i)' = Slots(i) /\ BestOf(i)' = BestOf(i)
      /\ \A i, j : Predecessor(i, j)' = Predecessor(i, j)
  BY <1>1 DEF Slots, BestOf, Predecessor
<1>4. \A w, t : WalkBack(w, t)' = WalkBack(w, t)
  BY <1>1, <1>3 DEF WalkBack
<1>5. \A w, t : PointsFrom(w, t)' = PointsFrom(w, t)
  BY <1>1 DEF PointsFrom, Snap
<1>6. \A w, t : WalkedTo(w, t)' = WalkedTo(w, t)
  BY <1>1, <1>4, <1>5 DEF WalkedTo
<1>7. \A t : WalkedFrom(t)' = WalkedFrom(t)
  BY <1>4, <1>5 DEF WalkedFrom
<1>8. BackFits' = BackFits
  BY <1>1, <1>2, <1>6 DEF BackFits
<1>9. MadeFits' = MadeFits
  BY <1>1, <1>2, <1>7 DEF MadeFits
<1>10. ForwardFits' = ForwardFits /\ Blank' = Blank
  BY <1>1, <1>2 DEF ForwardFits, Blank
<1>11. Collecting' = Collecting
  BY <1>1, <1>10 DEF Collecting
<1>12. Forwarding' = Forwarding
  BY <1>1, <1>2, <1>10 DEF Forwarding
<1> QED
  BY <1>1, <1>2, <1>8, <1>9, <1>11, <1>12 DEF MatchFits

-----------------------------------------------------------------------------
\* The score of a choice.

\* The score of a choice, link by link.
LEMMA ChainUnfolds ==
  ASSUME NEW choice, NEW first,
         Len(cands) \in Nat
  PROVE  \E r : /\ r[0] = 0 /\ ChainScore(choice, first) = r[Len(cands)]
                /\ \A n \in 1..Len(cands) : r[n] = r[n - 1] + LinkScore(choice, n, first)
<1> DEFINE Op(n, x) == x + LinkScore(choice, n, first)
           base == 0
           N == Len(cands)
           F(v) == [n \in 0..N |-> IF n = 0 THEN base ELSE Op(n, v[n - 1])]
           rec == CHOOSE v : v = F(v)
           Good(m, v) == v[0] = base /\ \A n \in 1..m : v[n] = Op(n, v[n - 1])
           T == { m \in Nat : \E v : Good(m, v) }
<1>1. ChainScore(choice, first) = rec[N]
  BY DEF ChainScore
<1>2. N \in Nat
  OBVIOUS
<1> HIDE DEF Op, base, N
<1>3. 0 \in T
  <2>1. Good(0, [n \in 0..0 |-> base])
    OBVIOUS
  <2> QED
    BY <2>1
<1>4. ASSUME NEW m \in T PROVE m + 1 \in T
  <2>1. PICK v : Good(m, v)
    OBVIOUS
  <2> DEFINE h == [n \in 0..m + 1 |-> IF n = m + 1 THEN Op(m + 1, v[m]) ELSE v[n]]
  <2>2. m \in Nat /\ m + 1 # 0 /\ m + 1 \in 0..m + 1 /\ (m + 1) - 1 = m
    OBVIOUS
  <2>3. h[m + 1] = Op(m + 1, v[m]) /\ \A n \in 0..m : h[n] = v[n]
    BY <2>2
  <2> HIDE DEF h
  <2>4. ASSUME NEW n \in 1..m + 1 PROVE h[n] = Op(n, h[n - 1])
    <3>1. n - 1 \in 0..m
      BY <2>2
    <3>2. h[n - 1] = v[n - 1]
      BY <2>3, <3>1
    <3>3. CASE n = m + 1
      <4>1. h[n - 1] = v[m]
        BY <2>2, <3>2, <3>3
      <4> QED
        BY <2>3, <3>3, <4>1
    <3>4. CASE n # m + 1
      <4>1. n \in 1..m /\ n \in 0..m
        BY <2>2, <3>4
      <4>2. h[n] = v[n] /\ v[n] = Op(n, v[n - 1])
        BY <2>1, <2>3, <4>1
      <4> QED
        BY <3>2, <4>2
    <3> QED
      BY <3>3, <3>4
  <2>5. h[0] = base
    BY <2>1, <2>2, <2>3
  <2>6. Good(m + 1, h)
    BY <2>4, <2>5
  <2> HIDE DEF Good
  <2> QED
    BY <2>2, <2>6
<1>5. T = Nat
  <2>1. T \in SUBSET Nat
    OBVIOUS
  <2> HIDE DEF T
  <2> QED
    BY <1>3, <1>4, <2>1, Induction
<1>6. PICK v : Good(N, v)
  BY <1>2, <1>5
<1> DEFINE f == [n \in 0..N |-> v[n]]
<1>7. f = F(f)
  <2>1. ASSUME NEW n \in 0..N PROVE f[n] = IF n = 0 THEN base ELSE Op(n, f[n - 1])
    <3>1. CASE n = 0
      BY <1>6, <3>1
    <3>2. CASE n # 0
      <4>1. n \in 1..N /\ n - 1 \in 0..N
        BY <1>2, <3>2
      <4>2. f[n] = v[n] /\ f[n - 1] = v[n - 1]
        BY <4>1
      <4> HIDE DEF f
      <4> QED
        BY <1>6, <3>2, <4>1, <4>2
    <3> QED
      BY <3>1, <3>2
  <2>2. f = [n \in 0..N |-> f[n]]
    OBVIOUS
  <2> HIDE DEF f
  <2> QED
    BY <2>1, <2>2
<1>8. rec = F(rec)
  <2> HIDE DEF F, f
  <2> QED
    BY <1>7
<1> HIDE DEF rec
<1>9. \A n \in 0..N : rec[n] = IF n = 0 THEN base ELSE Op(n, rec[n - 1])
  BY <1>8
<1>10. rec[0] = base
  BY <1>2, <1>9
<1>11. \A n \in 1..N : rec[n] = Op(n, rec[n - 1])
  BY <1>2, <1>9
<1>12. /\ rec[0] = base /\ ChainScore(choice, first) = rec[N]
       /\ \A n \in 1..N : rec[n] = Op(n, rec[n - 1])
  BY <1>1, <1>10, <1>11
<1> QED
  BY <1>12 DEF Op, base, N

Links(r, x, f) ==
  /\ r[0] = 0 /\ ChainScore(x, f) = r[Len(cands)]
  /\ \A n \in 1..Len(cands) : r[n] = r[n - 1] + LinkScore(x, n, f)
LEMMA LinksAdd ==
  ASSUME NEW x, NEW f, Len(cands) \in Nat
  PROVE  \E r : Links(r, x, f)
BY ChainUnfolds DEF Links

LEMMA LinkScoreIs ==
  ASSUME NEW x, NEW f \in 1..Len(cands), NEW i \in 1..Len(cands), AllFound, DriveFits,
         \A k \in f..Len(cands) : x[k] \in Slots(k)
  PROVE  /\ i < f => LinkScore(x, i, f) = 0
         /\ i = f => LinkScore(x, i, f) = SelfScore(i, x[i])
         /\ f < i => LinkScore(x, i, f) = Link(i, x[i - 1], x[i]) + SelfScore(i, x[i])
<1>1. Len(cands) \in Nat
  BY DEF AllFound, IsList
<1>2. CASE i < f
  BY <1>1, <1>2 DEF LinkScore
<1>3. CASE i = f
  <2>1. x[i] \in Slots(i)
    BY <1>1, <1>3
  <2>2. SelfScore(i, x[i]) \in Int
    BY <2>1, SelfScoreIsScore DEF IsScore
  <2>3. LinkScore(x, i, f) = SelfScore(i, x[i]) - 0
    BY <1>1, <1>3 DEF LinkScore, SelfScore
  <2> QED
    BY <1>1, <1>3, <2>2, <2>3
<1>4. CASE f < i
  <2>1. x[i] \in Slots(i) /\ x[i - 1] \in Slots(i - 1) /\ i \in 2..Len(cands)
    BY <1>1, <1>4
  <2> DEFINE d == Distance(positions[i - 1], positions[i])
                    - Distance(cands[i - 1][x[i - 1]].snapped, cands[i][x[i]].snapped)
             self == SelfScore(i, x[i])
  <2>2. self \in Int
    BY <2>1, SelfScoreIsScore DEF IsScore
  <2>3. Link(i, x[i - 1], x[i]) = -Abs(d)
    BY DEF Link
  <2>4. Abs(d) \in Int
    <3>1. i \in 1..Len(positions) /\ i - 1 \in 1..Len(positions) /\ i - 1 \in 1..Len(cands) /\ i \in 1..Len(cands)
      BY <1>1, <2>1 DEF AllFound
    <3>2. positions[i] \in Int \X Int /\ positions[i - 1] \in Int \X Int
      BY <3>1 DEF DriveFits
    <3>3. cands[i][x[i]].snapped \in Int \X Int /\ cands[i - 1][x[i - 1]].snapped \in Int \X Int
      BY <2>1, <3>1 DEF AllFound, CandsFit, IsCandidate, Slots
    <3>4. /\ Distance(positions[i - 1], positions[i]) \in Nat
          /\ Distance(cands[i - 1][x[i - 1]].snapped, cands[i][x[i]].snapped) \in Nat
      BY <3>2, <3>3, DistanceIsNat
    <3> QED
      BY <3>4 DEF Abs
  <2>5. LinkScore(x, i, f) = self - Abs(d)
    BY <1>1, <1>4, <2>1 DEF LinkScore, SelfScore
  <2> HIDE DEF d, self
  <2>6. self - Abs(d) = -Abs(d) + self
    BY <2>2, <2>4
  <2> QED
    BY <1>1, <1>4, <2>3, <2>5, <2>6 DEF self
<1> QED
  BY <1>1, <1>2, <1>3, <1>4

\* No choice from the first layer that is scored is better than the score of its last
\* candidate, and the one along the best predecessors is as good.
LEMMA ChoiceIsBelow ==
  ASSUME AllFound, DriveFits, NEW m, StartsAt(m), Scored(m, Len(cands)), NEW f, f = FirstScored(m), f <= Len(cands),
         NEW x, \A k \in f..Len(cands) : x[k] \in Slots(k)
  PROVE  /\ ChainScore(x, f) \in Int /\ ChainScore(x, f) <= vit[Len(cands)][x[Len(cands)]]
         /\ (\A k \in f + 1..Len(cands) : x[k - 1] = predecessors[k][x[k]]) =>
              ChainScore(x, f) = vit[Len(cands)][x[Len(cands)]]
<1> DEFINE L == Len(cands)
           Follows == \A k \in f + 1..L : x[k - 1] = predecessors[k][x[k]]
<1>1. L \in Nat /\ m \in 1..L /\ f \in 1..L
  BY DEF StartsAt, AllFound, IsList, FirstScored
<1> PICK r : Links(r, x, f)
  <2>1. Len(cands) \in Nat
    BY <1>1
  <2>2. \E r : Links(r, x, f)
    BY <2>1, LinksAdd
  <2> QED
    BY <2>2
<1>2. r[0] = 0 /\ ChainScore(x, f) = r[L] /\ \A n \in 1..L : r[n] = r[n - 1] + LinkScore(x, n, f)
  BY DEF Links
<1> DEFINE Reaches(i) ==
             /\ i < f => r[i] = 0
             /\ f <= i => r[i] \in Int /\ r[i] <= vit[i][x[i]] /\ (Follows => r[i] = vit[i][x[i]])
           T == { i \in Nat : i <= L => Reaches(i) }
<1>3. 0 \in T
  <2>1. 0 < f /\ ~(f <= 0)
    BY <1>1
  <2> QED
    BY <1>2, <2>1
<1>4. ASSUME NEW i \in T PROVE i + 1 \in T
  <2>1. i \in Nat /\ i + 1 \in Nat
    OBVIOUS
  <2> SUFFICES ASSUME i + 1 <= L PROVE Reaches(i + 1)
    BY <2>1
  <2> DEFINE n == i + 1
  <2>2. Reaches(i) /\ n \in 1..L /\ n - 1 = i
    BY <1>1, <2>1
  <2>3. r[n] = r[i] + LinkScore(x, n, f)
    BY <1>2, <2>2
  <2>4. CASE n < f
    <3>1. i < f /\ ~(f <= n)
      BY <1>1, <2>1, <2>4
    <3>2. LinkScore(x, n, f) = 0
      BY <1>1, <2>2, <2>4, LinkScoreIs
    <3>3. r[n] = 0
      BY <2>2, <2>3, <3>1, <3>2
    <3> QED
      BY <3>1, <3>3
  <2>5. CASE n = f
    <3>1. i < f /\ ~(n < f)
      BY <1>1, <2>1, <2>5
    <3>2. x[n] \in Slots(n)
      BY <1>1, <2>2, <2>5
    <3>3. LinkScore(x, n, f) = SelfScore(n, x[n])
      BY <1>1, <2>2, <2>5, LinkScoreIs
    <3>4. ScoredAt(m, n)
      BY <1>1, <2>2, <2>5 DEF Scored
    <3>5. vit[n][x[n]] = SelfScore(n, x[n]) /\ SelfScore(n, x[n]) \in Int
      BY <2>5, <3>2, <3>4 DEF ScoredAt, IsScore
    <3> DEFINE self == SelfScore(n, x[n])
    <3> HIDE DEF self
    <3>6. r[n] = self
      BY <2>2, <2>3, <3>1, <3>3, <3>5 DEF self
    <3>7. vit[n][x[n]] = self /\ self \in Int
      BY <3>5 DEF self
    <3> QED
      BY <3>1, <3>6, <3>7
  <2>6. CASE f < n
    <3>1. f <= i /\ i \in 1..L /\ ~(n < f) /\ n # f
      BY <1>1, <2>1, <2>2, <2>6
    <3>2. x[n] \in Slots(n) /\ x[i] \in Slots(i)
      BY <1>1, <2>2, <2>6, <3>1
    <3>3. LinkScore(x, n, f) = Link(n, x[i], x[n]) + SelfScore(n, x[n])
      BY <1>1, <2>2, <2>6, LinkScoreIs
    <3>4. ScoredAt(m, n) /\ ScoredAt(m, i)
      BY <1>1, <2>2, <2>6, <3>1 DEF Scored
    <3>5. BestThrough(n, x[n]) /\ IsScore(vit[n][x[n]]) /\ IsScore(vit[i][x[i]])
      BY <3>1, <3>2, <3>4 DEF ScoredAt
    <3> DEFINE link == Link(n, x[i], x[n])
               self == SelfScore(n, x[n])
               here == vit[n][x[n]]
               before == vit[i][x[i]]
    <3>6. link \in Int /\ self \in Int /\ here \in Int /\ before \in Int
      <4>1. n \in 2..L /\ n \in 1..L
        BY <1>1, <2>2, <2>6
      <4>2. IsScore(Link(n, x[i], x[n])) /\ IsScore(SelfScore(n, x[n]))
        BY <2>2, <3>2, <4>1, LinkIsScore, SelfScoreIsScore
      <4> QED
        BY <3>5, <4>2 DEF IsScore
    <3>7. Through(n, x[i], x[n]) = before + link + self
      BY <2>2 DEF Through
    <3>8. Through(n, x[i], x[n]) <= here
      BY <2>2, <3>2, <3>5 DEF BestThrough
    <3>9. Follows => here = Through(n, x[i], x[n])
      <4> SUFFICES ASSUME Follows PROVE here = Through(n, x[i], x[n])
        OBVIOUS
      <4>1. n \in f + 1..L
        BY <1>1, <2>2, <2>6
      <4>2. x[i] = predecessors[n][x[n]]
        BY <2>2, <4>1
      <4> QED
        BY <3>5, <4>2 DEF BestThrough
    <3>10. r[i] \in Int /\ r[i] <= before /\ (Follows => r[i] = before)
      BY <2>2, <3>1
    <3>11. r[n] = r[i] + (link + self)
      BY <2>3, <3>3
    <3> HIDE DEF link, self, here, before, Follows, n
    <3>12. r[n] \in Int /\ r[n] <= here /\ (Follows => r[n] = here)
      BY <3>6, <3>7, <3>8, <3>9, <3>10, <3>11
    <3> QED
      BY <3>1, <3>12 DEF here, n
  <2> QED
    BY <1>1, <2>2, <2>4, <2>5, <2>6
<1>5. T = Nat
  <2>1. T \in SUBSET Nat
    OBVIOUS
  <2> HIDE DEF T
  <2> QED
    BY <1>3, <1>4, <2>1, Induction
<1>6. L \in T
  BY <1>1, <1>5
<1>7. Reaches(L)
  BY <1>6, <1>1
<1> QED
  BY <1>1, <1>2, <1>7

\* The last layer is not scored if it is the only one, and not the first of the drive:
\* then the nearest candidate is chosen.
LEMMA SquareGrows ==
  ASSUME NEW a \in Nat, NEW b \in Nat, a <= b
  PROVE  Emission(b) <= Emission(a)
<1>1. PICK c \in Nat : b = a + c
  <2>1. b - a \in Nat /\ b = a + (b - a)
    OBVIOUS
  <2> QED
    BY <2>1
<1>2. (a + c) * (a + c) = a * a + a * c + c * a + c * c
  OBVIOUS
<1>3. a * a \in Nat /\ a * c \in Nat /\ c * a \in Nat /\ c * c \in Nat
  OBVIOUS
<1> DEFINE p == a * a
           q == a * c
           u == c * a
           v == c * c
<1> HIDE DEF p, q, u, v
<1>4. Emission(a) = -p /\ Emission(b) = -(p + q + u + v)
  BY <1>1, <1>2 DEF Emission, p, q, u, v
<1>5. p \in Nat /\ q \in Nat /\ u \in Nat /\ v \in Nat
  BY <1>3 DEF p, q, u, v
<1> QED
  BY <1>4, <1>5

LEMMA NearestIsChosen ==
  ASSUME AllFound, DriveFits, NEW m, StartsAt(m), Scored(m, Len(cands)), Len(cands) < FirstScored(m),
         NEW l, l = Len(cands), NEW k \in Slots(l)
  PROVE  BestOf(l) \in Slots(l) /\ SelfScore(l, k) <= SelfScore(l, BestOf(l))
<1>1. Len(cands) \in Nat /\ m \in 1..Len(cands) /\ m = l /\ l \in 1..Len(cands) /\ cands[l] # << >>
  BY DEF StartsAt, AllFound, IsList, FirstScored
<1> DEFINE n == Len(cands[l])
           S == { j \in Slots(l) : \A i \in Slots(l) : NotAbove(vit[l][i], vit[l][j]) }
<1>2. n \in Nat /\ Slots(l) = 1..n /\ 1 \in Slots(l)
  <2>1. n \in Nat /\ Slots(l) = 1..n
    BY <1>1, SlotsAre DEF Slots
  <2> QED
    BY <2>1
<1>3. \A i \in Slots(l) : vit[l][i] = NegInf
  <2>1. ~(FirstScored(m) <= l /\ l <= Len(cands))
    BY <1>1 DEF FirstScored
  <2> QED
    BY <1>1, <2>1, ScoreOrNone
<1>4. DOMAIN vit[l] = Slots(l)
  BY <1>1 DEF Scored, IsTable
<1>5. S = Slots(l)
  BY <1>3 DEF NotAbove
<1>6. BestOf(l) = Min(S)
  BY <1>4 DEF BestOf
<1> HIDE DEF S
<1>7. BestOf(l) = 1
  <2>1. S \in SUBSET Nat /\ S # {} /\ 1 \in S
    BY <1>2, <1>5
  <2>2. Min(S) \in S /\ Min(S) <= 1
    BY <2>1, MinIsLeast
  <2> QED
    BY <1>2, <1>5, <1>6, <2>2
<1>8. CandsFit(cands[l])
  BY <1>1 DEF AllFound
<1>9. cands[l][1].dist \in Nat /\ cands[l][k].dist \in Nat
  BY <1>2, <1>8 DEF CandsFit, IsCandidate, Slots
<1>10. cands[l][1].dist <= cands[l][k].dist
  <2>1. k = 1 \/ 1 < k
    BY <1>2
  <2>2. 1 \in 1..Len(cands[l]) /\ k \in 1..Len(cands[l])
    BY <1>2 DEF Slots
  <2> QED
    BY <1>8, <1>9, <2>1, <2>2 DEF CandsFit
<1> QED
  BY <1>2, <1>7, <1>9, <1>10, SquareGrows DEF SelfScore

\* The candidate that was chosen for a position is the one that the result shows.
LEMMA ShownIsChosen ==
  ASSUME AllFound, NEW m, StartsAt(m), NEW w, WalkBack(w, m), PointsFrom(w, m), NEW i \in m..Len(cands)
  PROVE  /\ w[i] \in Slots(i) /\ roadPoints[i] = Snap(cands[i][w[i]])
         /\ (CHOOSE j \in DOMAIN cands[i] : Snap(cands[i][j]) = roadPoints[i]) = w[i]
<1>1. Len(cands) \in Nat /\ m \in 1..Len(cands) /\ i \in 1..Len(cands)
  BY DEF StartsAt, AllFound, IsList
<1>2. w[i] \in Slots(i)
  BY DEF WalkBack
<1>3. roadPoints[i] = Snap(cands[i][w[i]])
  BY <1>1 DEF PointsFrom
<1>4. DOMAIN cands[i] = Slots(i) /\ CandsFit(cands[i]) /\ Len(cands[i]) \in Nat
  BY <1>1, SlotsAre DEF AllFound
<1>5. ASSUME NEW j \in DOMAIN cands[i], Snap(cands[i][j]) = roadPoints[i] PROVE j = w[i]
  <2>1. cands[i][j].edge = cands[i][w[i]].edge
    BY <1>3, <1>5 DEF Snap
  <2>2. j \in 1..Len(cands[i]) /\ w[i] \in 1..Len(cands[i])
    BY <1>2, <1>4 DEF Slots
  <2>3. ~(j < w[i]) /\ ~(w[i] < j)
    BY <1>4, <2>1, <2>2 DEF CandsFit
  <2> QED
    BY <1>4, <2>2, <2>3
<1>6. w[i] \in DOMAIN cands[i] /\ Snap(cands[i][w[i]]) = roadPoints[i]
  BY <1>2, <1>3, <1>4
<1>7. (CHOOSE j \in DOMAIN cands[i] : Snap(cands[i][j]) = roadPoints[i]) = w[i]
  BY <1>5, <1>6
<1> QED
  BY <1>2, <1>3, <1>7

\* All choices against the one along the walk back.
LEMMA WalkIsBest ==
  ASSUME AllFound, DriveFits, NEW m, StartsAt(m), Scored(m, Len(cands)), NEW w, WalkBack(w, m),
         NEW x, NEW y, NEW f, f = (IF FirstScored(m) <= Len(cands) THEN FirstScored(m) ELSE Len(cands)),
         \A i \in f..Len(cands) : x[i] \in Slots(i) /\ y[i] = w[i]
  PROVE  ChainScore(x, f) <= ChainScore(y, f)
<1> DEFINE L == Len(cands)
<1>1. L \in Nat /\ L >= 1 /\ m \in 1..L /\ f \in m..L /\ f \in 1..L
  BY DEF StartsAt, AllFound, IsList, FirstScored
<1>2. /\ \A i \in m..L : w[i] \in Slots(i) /\ (i = L => w[i] = BestOf(i))
      /\ \A i \in m + 1..L : w[i - 1] = Predecessor(i, w[i])
  BY DEF WalkBack
<1>3. \A i \in f..L : y[i] \in Slots(i) /\ x[i] \in Slots(i)
  BY <1>1, <1>2
<1>4. y[L] = BestOf(L) /\ x[L] \in Slots(L) /\ y[L] \in Slots(L)
  BY <1>1, <1>2, <1>3
<1>5. CASE FirstScored(m) <= L
  <2>1. f = FirstScored(m) /\ f <= L
    BY <1>5
  <2>2. ASSUME NEW k \in f + 1..L PROVE y[k - 1] = predecessors[k][y[k]]
    <3>1. k \in 1..L /\ k \in f..L /\ k - 1 \in f..L /\ k \in m + 1..L /\ k # f
      BY <1>1
    <3>2. y[k - 1] = Predecessor(k, y[k]) /\ y[k] \in Slots(k)
      BY <1>2, <1>3, <3>1
    <3>3. ScoredAt(m, k)
      BY <1>1, <2>1, <3>1 DEF Scored
    <3>4. predecessors[k][y[k]] \in Slots(k - 1)
      BY <2>1, <3>1, <3>2, <3>3 DEF ScoredAt, BestThrough
    <3>5. predecessors[k][y[k]] # 0
      BY <3>4 DEF Slots
    <3> QED
      BY <3>2, <3>5 DEF Predecessor
  <2>3. ChainScore(y, f) = vit[L][y[L]]
    BY <1>3, <2>1, <2>2, ChoiceIsBelow
  <2>4. ChainScore(x, f) \in Int /\ ChainScore(x, f) <= vit[L][x[L]]
    BY <1>3, <2>1, ChoiceIsBelow
  <2>5. vit[L][x[L]] <= vit[L][y[L]] /\ vit[L][x[L]] \in Int /\ vit[L][y[L]] \in Int
    <3>1. cands[L] # << >>
      BY <1>1 DEF StartsAt
    <3>2. NotAbove(vit[L][x[L]], vit[L][BestOf(L)])
      BY <1>1, <1>4, <3>1, BestOfFits
    <3>3. /\ IsScore(vit[L][x[L]]) /\ vit[L][x[L]] # NegInf
          /\ IsScore(vit[L][y[L]]) /\ vit[L][y[L]] # NegInf
      BY <1>1, <1>4, <1>5, ScoreOrNone
    <3> QED
      BY <1>4, <3>2, <3>3 DEF NotAbove, IsScore
  <2> QED
    BY <2>3, <2>4, <2>5
<1>6. CASE L < FirstScored(m)
  <2>1. f = L
    BY <1>1, <1>6 DEF FirstScored
  <2>2. ASSUME NEW z, \A i \in f..L : z[i] \in Slots(i) PROVE ChainScore(z, L) = SelfScore(L, z[L])
    <3>1. PICK r : Links(r, z, f)
      <4>1. Len(cands) \in Nat
        BY <1>1
      <4> QED
        BY <4>1, LinksAdd
    <3>2. r[0] = 0 /\ ChainScore(z, f) = r[L] /\ \A n \in 1..L : r[n] = r[n - 1] + LinkScore(z, n, f)
      BY <3>1 DEF Links
    <3>3. \A n \in 1..L : n < f => LinkScore(z, n, f) = 0
      BY <1>1, <2>2, LinkScoreIs
    <3>4. LinkScore(z, L, f) = SelfScore(L, z[L])
      BY <1>1, <2>1, <2>2, LinkScoreIs
    <3> DEFINE T == { n \in Nat : n < L => r[n] = 0 }
    <3>5. 0 \in T
      BY <3>2
    <3>6. ASSUME NEW n \in T PROVE n + 1 \in T
      <4> SUFFICES ASSUME n + 1 < L PROVE r[n + 1] = 0
        OBVIOUS
      <4>1. n \in Nat /\ n + 1 \in 1..L /\ n < L /\ n + 1 < f /\ (n + 1) - 1 = n
        BY <1>1, <2>1
      <4>2. r[n] = 0
        BY <4>1
      <4>3. r[n + 1] = r[n] + LinkScore(z, n + 1, f)
        BY <3>2, <4>1
      <4>4. LinkScore(z, n + 1, f) = 0
        BY <3>3, <4>1
      <4> QED
        BY <4>2, <4>3, <4>4
    <3>7. T = Nat
      <4>1. T \in SUBSET Nat
        OBVIOUS
      <4> HIDE DEF T
      <4> QED
        BY <3>5, <3>6, <4>1, Induction
    <3>8. r[L - 1] = 0
      <4>1. L - 1 \in Nat /\ L - 1 < L
        BY <1>1
      <4> QED
        BY <3>7, <4>1
    <3>9. r[L] = r[L - 1] + SelfScore(L, z[L])
      BY <1>1, <3>2, <3>4
    <3>10. SelfScore(L, z[L]) \in Int
      BY <1>1, <2>1, <2>2, SelfScoreIsScore DEF IsScore
    <3> QED
      BY <2>1, <3>2, <3>8, <3>9, <3>10
  <2>3. SelfScore(L, x[L]) <= SelfScore(L, BestOf(L))
    BY <1>4, <1>6, NearestIsChosen
  <2> QED
    BY <1>3, <1>4, <2>1, <2>2, <2>3
<1>7. FirstScored(m) <= L \/ L < FirstScored(m)
  BY <1>1 DEF FirstScored
<1> QED
  BY <1>5, <1>6, <1>7

LEMMA MatchedAre ==
  ASSUME AllFound, NEW m, StartsAt(m), NEW w, PointsFrom(w, m)
  PROVE  { i \in DOMAIN roadPoints : roadPoints[i].matched } = m..Len(cands)
<1>1. Len(cands) \in Nat /\ m \in 1..Len(cands)
  BY DEF StartsAt, AllFound, IsList
<1>2. DOMAIN roadPoints = 1..Len(cands)
  BY DEF PointsFrom
<1>3. (\A c : Snap(c).matched = TRUE) /\ Unmatched.matched = FALSE
  BY DEF Snap, Unmatched
<1>4. ASSUME NEW i \in 1..Len(cands) PROVE roadPoints[i].matched <=> m <= i
  <2>1. CASE m <= i
    <3>1. roadPoints[i] = Snap(cands[i][w[i]])
      BY <2>1 DEF PointsFrom
    <3> QED
      BY <1>3, <2>1, <3>1
  <2>2. CASE ~(m <= i)
    <3>1. roadPoints[i] = Unmatched
      BY <2>2 DEF PointsFrom
    <3>2. roadPoints[i].matched = FALSE
      BY <1>3, <3>1
    <3> QED
      BY <2>2, <3>2
  <2> QED
    BY <2>1, <2>2
<1>5. \A i : i \in m..Len(cands) <=> i \in 1..Len(cands) /\ m <= i
  BY <1>1
<1> QED
  BY <1>2, <1>4, <1>5

LEMMA FirstIs ==
  ASSUME NEW n \in Nat, NEW m \in 1..n
  PROVE  /\ (IF m = 1 THEN 1 ELSE Min({ m + 1, n })) = (IF FirstScored(m) <= n THEN FirstScored(m) ELSE n)
         /\ (IF FirstScored(m) <= n THEN FirstScored(m) ELSE n) \in m..n
<1>1. \E z \in {m + 1, n} : \A u \in {m + 1, n} : z <= u
  OBVIOUS
<1>2. Min({m + 1, n}) \in {m + 1, n} /\ Min({m + 1, n}) <= m + 1 /\ Min({m + 1, n}) <= n
  BY <1>1 DEF Min
<1> QED
  BY <1>2 DEF FirstScored

LEMMA SelectionsAre ==
  ASSUME AllFound, NEW f \in 1..Len(cands), NEW c \in Selections(f), NEW i \in f..Len(cands)
  PROVE  c[i] \in Slots(i)
<1>1. Len(cands) \in Nat
  BY DEF AllFound, IsList
<1>2. c \in [f..Len(cands) -> 1..MaxCandidates] /\ \A k \in DOMAIN c : c[k] <= Len(cands[k])
  BY DEF Selections
<1>3. c[i] \in 1..MaxCandidates /\ c[i] <= Len(cands[i]) /\ i \in 1..Len(cands)
  BY <1>1, <1>2
<1>4. Len(cands[i]) \in Nat
  BY <1>3, SlotsAre
<1> QED
  BY <1>3, <1>4, MatcherAssumption DEF Slots

LEMMA MatchIsMostLikely == MatchFits => MostLikelyChoice
<1> DEFINE m == Min(Layers)
           L == Len(cands)
           first == IF m = 1 THEN 1 ELSE Min({ m + 1, L })
           shown(i) == CHOOSE j \in DOMAIN cands[i] : Snap(cands[i][j]) = roadPoints[i]
           made == [i \in Layers |-> shown(i)]
<1> SUFFICES ASSUME MatchFits, matching = "done", Layers # {}, Layers = m..L
             PROVE  /\ { i \in DOMAIN roadPoints : roadPoints[i].matched } = Layers
                    /\ \A c \in Selections(first) : ChainScore(c, first) <= ChainScore(made, first)
  BY DEF MostLikelyChoice
<1>1. AllFound /\ MadeFits /\ DriveFits
  <2>1. cands # << >>
    BY DEF Layers
  <2> QED
    BY <2>1 DEF MatchFits
<1>2. L \in Nat /\ DOMAIN cands = 1..L /\ Layers \subseteq 1..L
  BY <1>1, ListGrows DEF AllFound, IsList, Layers
<1>3. m \in Layers /\ m \in 1..L
  <2>1. Layers \in SUBSET Nat
    BY <1>2
  <2> QED
    BY <1>2, <2>1, MinIsLeast
<1>4. \A i \in 1..L : cands[i] # << >> <=> i \in Layers
  BY <1>2 DEF Layers
<1> HIDE DEF m
<1>5. StartsAt(m)
  <2>1. \A i \in 1..L : i \in Layers <=> m <= i
    BY <1>2, <1>3
  <2> QED
    BY <1>3, <1>4, <2>1 DEF StartsAt
<1>6. Scored(m, L) /\ WalkedFrom(m)
  BY <1>1, <1>5 DEF MadeFits
<1>7. PICK w : WalkBack(w, m) /\ PointsFrom(w, m)
  BY <1>6 DEF WalkedFrom
<1>8. \A i \in m..L : shown(i) = w[i]
  BY <1>1, <1>5, <1>7, ShownIsChosen
<1> HIDE DEF shown
<1>9. \A i \in m..L : made[i] = w[i]
  BY <1>8
<1> HIDE DEF made
<1>10. { i \in DOMAIN roadPoints : roadPoints[i].matched } = Layers
  BY <1>1, <1>5, <1>7, MatchedAre
<1>11. first = (IF FirstScored(m) <= L THEN FirstScored(m) ELSE L) /\ first \in m..L
  <2>1. L \in Nat /\ m \in 1..L
    BY <1>2, <1>3
  <2> HIDE DEF L
  <2> QED
    BY <2>1, FirstIs
<1> HIDE DEF first
<1>12. ASSUME NEW c \in Selections(first) PROVE ChainScore(c, first) <= ChainScore(made, first)
  <2>1. first \in 1..L
    BY <1>2, <1>3, <1>11
  <2>2. ASSUME NEW i \in first..L PROVE i \in m..L
    <3>1. first \in m..L /\ L \in Nat /\ m \in 1..L
      BY <1>2, <1>3, <1>11
    <3> HIDE DEF L
    <3> QED
      BY <3>1, SMTT(30)
  <2>3. ASSUME NEW i \in first..L PROVE c[i] \in Slots(i) /\ made[i] = w[i]
    <3>1. AllFound /\ first \in 1..Len(cands) /\ i \in first..Len(cands) /\ c \in Selections(first)
      BY <1>1, <2>1
    <3>2. c[i] \in Slots(i)
      BY <3>1, SelectionsAre
    <3> QED
      BY <1>9, <2>2, <3>2
  <2> QED
    BY <1>1, <1>5, <1>6, <1>7, <1>11, <2>3, WalkIsBest, SMTT(30)
<1> QED
  BY <1>10, <1>12 DEF first, made, shown, m

-----------------------------------------------------------------------------
\* The whole workflow: no search runs before the graph is built, nor after the matching
\* has started, and the matching has the drive and the graph that were read.

NotMatching == matching = "none" /\ cands = << >>

RoadInv ==
  /\ DriveInv
  /\ stage \in {"load", "import"} => ReaderFits
  /\ stage # "baseline" => search = NoSearch
  /\ stage \in {"baseline", "match", "done"} => GraphFits
  /\ SearchFits
  /\ stage \in {"match", "done"} => MatchFits
  /\ stage \notin {"match", "done"} => NotMatching

LEMMA AnchorIsPlace ==
  ASSUME DriveInv
  PROVE  oxts.anchor \in Int \X Int
<1>1. oxts \in GpsRecord
  BY DEF DriveInv, DriveOK, GpsOK, LidarOK, FramesOf
<1> QED
  BY <1>1 DEF GpsRecord, Places

LEMMA RoadInitial == WorkflowInit => RoadInv
<1> SUFFICES ASSUME WorkflowInit PROVE RoadInv
  OBVIOUS
<1>1. SequenceInit /\ RoadInit /\ MatcherInit /\ stage = "load"
  BY DEF WorkflowInit
<1>2. search = NoSearch
  BY <1>1 DEF RoadInit
<1>3. DriveInv /\ ReaderFits
  BY <1>1, DriveInitial, ReaderStarts
<1> QED
  BY <1>1, <1>2, <1>3 DEF RoadInv, SearchFits, MatcherInit, NotMatching

LEMMA ReaderStays ==
  ASSUME UNCHANGED readerVars, ReaderFits
  PROVE  ReaderFits'
BY DEF readerVars, ReaderFits, RawFits

LEMMA GraphStays ==
  ASSUME UNCHANGED graph, GraphFits
  PROVE  GraphFits'
BY DEF GraphFits

LEMMA DriveGoesOn ==
  ASSUME DriveInv, WorkflowNext
  PROVE  DriveInv'
<1>1. SequenceNext \/ UNCHANGED sequenceVars
  BY DEF WorkflowNext, LoadStep, CenterlineStep, OxtsLoaded, ImportStep, SearchStep, Baseline, MatchStep, Report
<1> QED
  BY <1>1, DriveStep

LEMMA MatchingStays ==
  ASSUME UNCHANGED matcherVars
  PROVE  MatchFits' = MatchFits /\ NotMatching' = NotMatching
<1>1. UNCHANGED << cands, matching >>
  BY DEF matcherVars, trellisVars
<1> QED
  BY <1>1, MatchStays DEF NotMatching

LEMMA RoadStep == RoadInv /\ [WorkflowNext]_workflowVars => RoadInv'
<1> SUFFICES ASSUME RoadInv, [WorkflowNext]_workflowVars PROVE RoadInv'
  OBVIOUS
<1>1. DriveInv /\ SearchFits
  BY DEF RoadInv
<1>2. DriveInv'
  <2>1. CASE UNCHANGED workflowVars
    BY <1>1, <2>1, DriveStep DEF workflowVars
  <2> QED
    BY <1>1, <2>1, DriveGoesOn
<1>3. CASE UNCHANGED << roadVars, matcherVars, stage >>
  <2>1. UNCHANGED << readerVars, graph, search, stage >>
    BY <1>3 DEF roadVars
  <2>2. MatchFits' = MatchFits /\ NotMatching' = NotMatching
    BY <1>3, MatchingStays
  <2> QED
    BY <1>1, <1>2, <2>1, <2>2, ReaderStays, GraphStays, SearchStays DEF RoadInv
<1>4. CASE UNCHANGED << roadVars, matcherVars >> /\ stage = "load" /\ stage' \in {"centerline", "skipped"}
  <2>1. UNCHANGED << graph, search >>
    BY <1>4 DEF roadVars
  <2>2. NotMatching' = NotMatching
    BY <1>4, MatchingStays
  <2> QED
    BY <1>1, <1>2, <1>4, <2>1, <2>2, SearchStays DEF RoadInv
<1>5. CASE OxtsLoaded /\ stage' = "import"
  <2>1. PICK content \in RoadFiles :
          OpenFile(content) /\ stage = "load" /\ stage' = "import" /\ UNCHANGED matcherVars
    BY <1>5 DEF OxtsLoaded
  <2>2. UNCHANGED << graph, search >>
    BY <2>1 DEF OpenFile
  <2>3. ReaderFits'
    BY <2>1, FileIsOpened DEF RoadInv
  <2>4. NotMatching' = NotMatching
    BY <2>1, MatchingStays
  <2> QED
    BY <1>1, <1>2, <2>1, <2>2, <2>3, <2>4, SearchStays DEF RoadInv
<1>6. CASE stage = "import" /\ ReaderNext /\ UNCHANGED << stage, matcherVars >>
  <2>1. UNCHANGED << graph, search >>
    BY <1>6 DEF ReaderNext, ReadNode, ReadWay, ReadRef, ReadTag, EndWay, Consume
  <2>2. ReaderFits'
    BY <1>6, ReaderKeeps DEF RoadInv
  <2>3. NotMatching' = NotMatching
    BY <1>6, MatchingStays
  <2> QED
    BY <1>1, <1>2, <1>6, <2>1, <2>2, <2>3, SearchStays DEF RoadInv
<1>7. CASE stage = "import" /\ BuildGraph(oxts.anchor) /\ stage' = "baseline" /\ UNCHANGED matcherVars
  <2>1. search = NoSearch /\ search' = NoSearch
    BY <1>7 DEF RoadInv, BuildGraph
  <2>2. RawFits /\ oxts.anchor \in Int \X Int
    BY <1>1, <1>7, AnchorIsPlace DEF RoadInv, ReaderFits
  <2>3. GraphFits'
    BY <1>7, <2>2, BuiltGraphFits
  <2>4. SearchFits'
    BY <2>1 DEF SearchFits, NoSearch
  <2>5. NotMatching'
    BY <1>7, MatchingStays DEF RoadInv
  <2> QED
    BY <1>2, <1>7, <2>3, <2>4, <2>5 DEF RoadInv
<1>8. CASE SearchStep
  <2>1. stage = "baseline" /\ stage' = "baseline" /\ GraphFits /\ UNCHANGED matcherVars
    BY <1>8 DEF SearchStep, RoadInv
  <2>2. UNCHANGED graph
    BY <1>8 DEF SearchStep, StartSearch, SearchNext, PopQueue, QueueEmpty, Trace
  <2>3. GraphFits'
    BY <2>1, <2>2, GraphStays
  <2>4. (\E s, t : StartSearch(s, t)) \/ PopQueue \/ QueueEmpty \/ Trace
    BY <1>8 DEF SearchStep, SearchNext
  <2>5. SearchFits'
    BY <1>1, <2>1, <2>4, SearchStarts, PopKeeps, QueueEmptyKeeps, TraceKeeps
  <2>6. NotMatching'
    BY <2>1, MatchingStays DEF RoadInv
  <2> QED
    BY <1>2, <2>1, <2>3, <2>5, <2>6 DEF RoadInv
<1>9. CASE Baseline
  <2>1. /\ stage = "baseline" /\ stage' = "match" /\ search = NoSearch /\ UNCHANGED roadVars
        /\ StartMatching(DrivePositions)
    BY <1>9 DEF Baseline
  <2>2. UNCHANGED << graph, search >>
    BY <2>1 DEF roadVars
  <2>3. GraphFits' /\ SearchFits'
    BY <1>1, <2>1, <2>2, GraphStays, SearchStays DEF RoadInv
  <2>4. MatchFits'
    BY <1>1, <2>1, MatchingStarts DEF RoadInv, NotMatching
  <2> QED
    BY <1>2, <2>1, <2>2, <2>3, <2>4 DEF RoadInv
<1>10. CASE MatchStep
  <2>1. stage = "match" /\ stage' = "match" /\ MatcherNext /\ UNCHANGED << graph, search >>
    BY <1>10 DEF MatchStep, roadVars
  <2>2. GraphFits /\ GraphFits' /\ SearchFits'
    BY <1>1, <2>1, GraphStays, SearchStays DEF RoadInv
  <2>3. MatchFits'
    BY <2>1, <2>2, MatcherKeeps DEF RoadInv, GraphFits
  <2> QED
    BY <1>2, <2>1, <2>2, <2>3 DEF RoadInv
<1>11. CASE Report
  <2>1. stage = "match" /\ stage' = "done" /\ UNCHANGED << graph, search >> /\ UNCHANGED matcherVars
    BY <1>11 DEF Report, roadVars
  <2>2. GraphFits' /\ SearchFits' /\ MatchFits'
    BY <1>1, <2>1, GraphStays, SearchStays, MatchingStays DEF RoadInv
  <2> QED
    BY <1>2, <2>1, <2>2 DEF RoadInv
<1>12. CASE WorkflowNext
  <2>1. CASE LoadStep
    BY <1>3, <2>1 DEF LoadStep
  <2>2. CASE CenterlineStep
    <3>1. UNCHANGED << roadVars, matcherVars >>
      BY <2>2 DEF CenterlineStep
    <3>2. UNCHANGED stage \/ (stage = "load" /\ stage' = "centerline")
      BY <2>2 DEF CenterlineStep
    <3> QED
      BY <1>3, <1>4, <3>1, <3>2
  <2>3. CASE OxtsLoaded
    <3>1. stage = "load" /\ ((UNCHANGED << roadVars, matcherVars >> /\ stage' = "skipped") \/ stage' = "import")
      BY <2>3 DEF OxtsLoaded
    <3> QED
      BY <1>4, <1>5, <2>3, <3>1
  <2>4. CASE ImportStep
    BY <1>6, <1>7, <2>4 DEF ImportStep
  <2> QED
    BY <1>8, <1>9, <1>10, <1>11, <1>12, <2>1, <2>2, <2>3, <2>4 DEF WorkflowNext
<1>13. CASE UNCHANGED workflowVars
  BY <1>3, <1>13 DEF workflowVars
<1> QED
  BY <1>12, <1>13

\* Whatever roads the file has and whichever nodes are asked for: a path that is found is a
\* walk along the edges and none is shorter, and none is found only where there is none.
THEOREM SearchesAreShortest == WorkflowSpec => []PathIsShortest
<1>1. WorkflowInit => RoadInv
  BY RoadInitial
<1>2. RoadInv /\ [WorkflowNext]_workflowVars => RoadInv'
  BY RoadStep
<1>3. RoadInv => PathIsShortest
  BY FoundIsShortest DEF RoadInv
<1> QED
  BY <1>1, <1>2, <1>3, PTL DEF WorkflowSpec

\* Whatever drive is matched to whatever roads: a position is matched if and only if it has
\* a candidate, and no choice of candidates is more likely than the one that was made.
THEOREM ChoiceIsMostLikely == WorkflowSpec => []MostLikelyChoice
<1>1. WorkflowInit => RoadInv
  BY RoadInitial
<1>2. RoadInv /\ [WorkflowNext]_workflowVars => RoadInv'
  BY RoadStep
<1>3. RoadInv => MostLikelyChoice
  <2> SUFFICES ASSUME RoadInv PROVE MostLikelyChoice
    OBVIOUS
  <2>1. CASE stage \in {"match", "done"}
    BY <2>1, MatchIsMostLikely DEF RoadInv
  <2>2. CASE stage \notin {"match", "done"}
    BY <2>2 DEF RoadInv, NotMatching, MostLikelyChoice
  <2> QED
    BY <2>1, <2>2
<1> QED
  BY <1>1, <1>2, <1>3, PTL DEF WorkflowSpec

-----------------------------------------------------------------------------
\* The sums of the center lines.

\* The recursion in Total.
LEMMA TotalSteps ==
  ASSUME NEW S, NEW list,
         Len(list) \in Nat
  PROVE  \E r : /\ r[0] = 0 /\ Total(S, list) = r[Len(list)]
                /\ \A n \in 1..Len(list) : r[n] = r[n - 1] + (IF n \in S THEN list[n] ELSE 0)
<1> DEFINE Op(n, x) == x + (IF n \in S THEN list[n] ELSE 0)
           base == 0
           N == Len(list)
           F(v) == [n \in 0..N |-> IF n = 0 THEN base ELSE Op(n, v[n - 1])]
           rec == CHOOSE v : v = F(v)
           Good(m, v) == v[0] = base /\ \A n \in 1..m : v[n] = Op(n, v[n - 1])
           T == { m \in Nat : \E v : Good(m, v) }
<1>1. Total(S, list) = rec[N]
  BY DEF Total
<1>2. N \in Nat
  OBVIOUS
<1> HIDE DEF Op, base, N
<1>3. 0 \in T
  <2>1. Good(0, [n \in 0..0 |-> base])
    OBVIOUS
  <2> QED
    BY <2>1
<1>4. ASSUME NEW m \in T PROVE m + 1 \in T
  <2>1. PICK v : Good(m, v)
    OBVIOUS
  <2> DEFINE h == [n \in 0..m + 1 |-> IF n = m + 1 THEN Op(m + 1, v[m]) ELSE v[n]]
  <2>2. m \in Nat /\ m + 1 # 0 /\ m + 1 \in 0..m + 1 /\ (m + 1) - 1 = m
    OBVIOUS
  <2>3. h[m + 1] = Op(m + 1, v[m]) /\ \A n \in 0..m : h[n] = v[n]
    BY <2>2
  <2> HIDE DEF h
  <2>4. ASSUME NEW n \in 1..m + 1 PROVE h[n] = Op(n, h[n - 1])
    <3>1. n - 1 \in 0..m
      BY <2>2
    <3>2. h[n - 1] = v[n - 1]
      BY <2>3, <3>1
    <3>3. CASE n = m + 1
      <4>1. h[n - 1] = v[m]
        BY <2>2, <3>2, <3>3
      <4> QED
        BY <2>3, <3>3, <4>1
    <3>4. CASE n # m + 1
      <4>1. n \in 1..m /\ n \in 0..m
        BY <2>2, <3>4
      <4>2. h[n] = v[n] /\ v[n] = Op(n, v[n - 1])
        BY <2>1, <2>3, <4>1
      <4> QED
        BY <3>2, <4>2
    <3> QED
      BY <3>3, <3>4
  <2>5. h[0] = base
    BY <2>1, <2>2, <2>3
  <2>6. Good(m + 1, h)
    BY <2>4, <2>5
  <2> HIDE DEF Good
  <2> QED
    BY <2>2, <2>6
<1>5. T = Nat
  <2>1. T \in SUBSET Nat
    OBVIOUS
  <2> HIDE DEF T
  <2> QED
    BY <1>3, <1>4, <2>1, Induction
<1>6. PICK v : Good(N, v)
  BY <1>2, <1>5
<1> DEFINE f == [n \in 0..N |-> v[n]]
<1>7. f = F(f)
  <2>1. ASSUME NEW n \in 0..N PROVE f[n] = IF n = 0 THEN base ELSE Op(n, f[n - 1])
    <3>1. CASE n = 0
      BY <1>6, <3>1
    <3>2. CASE n # 0
      <4>1. n \in 1..N /\ n - 1 \in 0..N
        BY <1>2, <3>2
      <4>2. f[n] = v[n] /\ f[n - 1] = v[n - 1]
        BY <4>1
      <4> HIDE DEF f
      <4> QED
        BY <1>6, <3>2, <4>1, <4>2
    <3> QED
      BY <3>1, <3>2
  <2>2. f = [n \in 0..N |-> f[n]]
    OBVIOUS
  <2> HIDE DEF f
  <2> QED
    BY <2>1, <2>2
<1>8. rec = F(rec)
  <2> HIDE DEF F, f
  <2> QED
    BY <1>7
<1> HIDE DEF rec
<1>9. \A n \in 0..N : rec[n] = IF n = 0 THEN base ELSE Op(n, rec[n - 1])
  BY <1>8
<1>10. rec[0] = base
  BY <1>2, <1>9
<1>11. \A n \in 1..N : rec[n] = Op(n, rec[n - 1])
  BY <1>2, <1>9
<1>12. /\ rec[0] = base /\ Total(S, list) = rec[N]
       /\ \A n \in 1..N : rec[n] = Op(n, rec[n - 1])
  BY <1>1, <1>10, <1>11
<1> QED
  BY <1>12 DEF Op, base, N

\* The places of the list, one after the other.
Term(S, list, i) == IF i \in S THEN list[i] ELSE 0
Partial(r, S, list) ==
  /\ r[0] = 0 /\ Total(S, list) = r[Len(list)]
  /\ \A i \in 1..Len(list) : r[i] = r[i - 1] + Term(S, list, i)
IsNumbers(list) == Len(list) \in Nat /\ \A i \in 1..Len(list) : list[i] \in Int

LEMMA TotalUnfolds ==
  ASSUME NEW S, NEW list, IsNumbers(list)
  PROVE  \E r : Partial(r, S, list) /\ \A i \in 0..Len(list) : r[i] \in Int
<1>1. Len(list) \in Nat
  BY DEF IsNumbers
<1>2. PICK r : /\ r[0] = 0 /\ Total(S, list) = r[Len(list)]
               /\ \A i \in 1..Len(list) : r[i] = r[i - 1] + (IF i \in S THEN list[i] ELSE 0)
  BY <1>1, TotalSteps
<1>3. Partial(r, S, list)
  BY <1>2 DEF Partial, Term
<1> DEFINE T == { i \in Nat : i <= Len(list) => r[i] \in Int }
<1>4. 0 \in T
  BY <1>2
<1>5. ASSUME NEW i \in T PROVE i + 1 \in T
  <2> SUFFICES ASSUME i + 1 <= Len(list) PROVE r[i + 1] \in Int
    OBVIOUS
  <2>1. i \in Nat /\ i + 1 \in 1..Len(list) /\ (i + 1) - 1 = i /\ r[i] \in Int
    BY <1>1
  <2>2. r[i + 1] = r[i] + (IF i + 1 \in S THEN list[i + 1] ELSE 0)
    BY <1>2, <2>1
  <2>3. list[i + 1] \in Int
    BY <2>1 DEF IsNumbers
  <2> QED
    BY <2>1, <2>2, <2>3
<1>6. T = Nat
  <2>1. T \in SUBSET Nat
    OBVIOUS
  <2> HIDE DEF T
  <2> QED
    BY <1>4, <1>5, <2>1, Induction
<1>7. \A i \in 0..Len(list) : r[i] \in Int
  <2> SUFFICES ASSUME NEW i \in 0..Len(list) PROVE r[i] \in Int
    OBVIOUS
  <2>1. i \in Nat /\ i <= Len(list)
    BY <1>1
  <2>2. i \in T
    BY <1>6, <2>1
  <2> QED
    BY <2>1, <2>2
<1> QED
  BY <1>3, <1>7

\* Two sums that differ in one place, or in none.
LEMMA TotalsDiffer ==
  ASSUME NEW S, NEW T, NEW f, NEW g, IsNumbers(f), IsNumbers(g), Len(f) = Len(g), NEW k \in Nat, NEW d \in Int,
         k \in 1..Len(f) => Term(T, g, k) = Term(S, f, k) + d,
         \A i \in 1..Len(f) : i # k => Term(T, g, i) = Term(S, f, i)
  PROVE  /\ k \in 1..Len(f) => Total(T, g) = Total(S, f) + d
         /\ k \notin 1..Len(f) => Total(T, g) = Total(S, f)
<1> DEFINE n == Len(f)
<1>1. n \in Nat /\ Len(g) = n
  BY DEF IsNumbers
<1>2. PICK p : Partial(p, S, f) /\ \A i \in 0..Len(f) : p[i] \in Int
  BY TotalUnfolds
<1>3. PICK q : Partial(q, T, g) /\ \A i \in 0..Len(g) : q[i] \in Int
  BY TotalUnfolds
<1>4. /\ p[0] = 0 /\ Total(S, f) = p[n] /\ \A i \in 1..n : p[i] = p[i - 1] + Term(S, f, i)
      /\ q[0] = 0 /\ Total(T, g) = q[n] /\ \A i \in 1..n : q[i] = q[i - 1] + Term(T, g, i)
      /\ \A i \in 0..n : p[i] \in Int /\ q[i] \in Int
  BY <1>1, <1>2, <1>3 DEF Partial
<1>5. \A i \in 1..n : Term(S, f, i) \in Int /\ Term(T, g, i) \in Int
  BY <1>1 DEF Term, IsNumbers
<1> HIDE DEF n
<1>6. \A i \in 1..n : i # k => Term(T, g, i) = Term(S, f, i)
  BY DEF n
<1>7. k \in 1..n => Term(T, g, k) = Term(S, f, k) + d
  BY DEF n
<1> DEFINE U == { i \in Nat : i <= n => q[i] = IF k <= i /\ 1 <= k THEN p[i] + d ELSE p[i] }
<1>8. 0 \in U
  BY <1>4
<1>9. ASSUME NEW i \in U PROVE i + 1 \in U
  <2> SUFFICES ASSUME i + 1 <= n PROVE q[i + 1] = IF k <= i + 1 /\ 1 <= k THEN p[i + 1] + d ELSE p[i + 1]
    OBVIOUS
  <2>1. i \in Nat /\ i + 1 \in 1..n /\ (i + 1) - 1 = i /\ i \in 0..n
    BY <1>1 DEF n
  <2>2. q[i] = IF k <= i /\ 1 <= k THEN p[i] + d ELSE p[i]
    BY <1>1, <2>1 DEF n
  <2> DEFINE a == Term(S, f, i + 1)
             b == Term(T, g, i + 1)
  <2>3. q[i + 1] = q[i] + b /\ p[i + 1] = p[i] + a
    BY <1>4, <2>1
  <2>4. a \in Int /\ b \in Int /\ p[i] \in Int /\ q[i] \in Int
    BY <1>4, <1>5, <2>1
  <2>5. CASE i + 1 = k
    <3>1. b = a + d /\ ~(k <= i)
      BY <1>7, <2>1, <2>5
    <3> HIDE DEF a, b
    <3>2. q[i + 1] = p[i + 1] + d
      BY <2>1, <2>2, <2>3, <2>4, <3>1
    <3> QED
      BY <2>1, <2>5, <3>2
  <2>6. CASE i + 1 # k
    <3>1. b = a /\ (k <= i + 1 <=> k <= i)
      BY <1>6, <2>1, <2>6
    <3> HIDE DEF a, b
    <3> QED
      BY <2>1, <2>2, <2>3, <2>4, <3>1
  <2> QED
    BY <2>5, <2>6
<1>10. U = Nat
  <2>1. U \in SUBSET Nat
    OBVIOUS
  <2> HIDE DEF U
  <2> QED
    BY <1>8, <1>9, <2>1, Induction
<1>11. q[n] = IF k <= n /\ 1 <= k THEN p[n] + d ELSE p[n]
  <2>1. n \in Nat
    BY <1>1 DEF n
  <2>2. n \in U
    BY <1>10, <2>1
  <2> QED
    BY <2>1, <2>2
<1>12. k \in 1..n <=> k <= n /\ 1 <= k
  BY <1>1 DEF n
<1>13. /\ k \in 1..n => Total(T, g) = Total(S, f) + d
       /\ k \notin 1..n => Total(T, g) = Total(S, f)
  BY <1>4, <1>11, <1>12
<1> QED
  BY <1>13 DEF n

\* One more entry at the end.
LEMMA TotalGrows ==
  ASSUME NEW S, NEW T, NEW f, NEW g, IsNumbers(f), IsNumbers(g), Len(g) = Len(f) + 1,
         \A i \in 1..Len(f) : Term(T, g, i) = Term(S, f, i)
  PROVE  Total(T, g) = Total(S, f) + Term(T, g, Len(g))
<1> DEFINE n == Len(f)
<1>1. n \in Nat /\ Len(g) = n + 1
  BY DEF IsNumbers
<1>2. PICK p : Partial(p, S, f) /\ \A i \in 0..Len(f) : p[i] \in Int
  BY TotalUnfolds
<1>3. PICK q : Partial(q, T, g) /\ \A i \in 0..Len(g) : q[i] \in Int
  BY TotalUnfolds
<1>4. /\ p[0] = 0 /\ Total(S, f) = p[n] /\ \A i \in 1..n : p[i] = p[i - 1] + Term(S, f, i)
      /\ q[0] = 0 /\ Total(T, g) = q[n + 1] /\ \A i \in 1..n + 1 : q[i] = q[i - 1] + Term(T, g, i)
  BY <1>1, <1>2, <1>3 DEF Partial
<1>5. \A i \in 1..n : Term(T, g, i) = Term(S, f, i)
  OBVIOUS
<1> HIDE DEF n
<1> DEFINE U == { i \in Nat : i <= n => q[i] = p[i] }
<1>6. 0 \in U
  BY <1>4
<1>7. ASSUME NEW i \in U PROVE i + 1 \in U
  <2> SUFFICES ASSUME i + 1 <= n PROVE q[i + 1] = p[i + 1]
    OBVIOUS
  <2>1. i \in Nat /\ i + 1 \in 1..n /\ (i + 1) - 1 = i /\ i + 1 \in 1..n + 1 /\ q[i] = p[i]
    BY <1>1 DEF n
  <2> QED
    BY <1>4, <1>5, <2>1
<1>8. U = Nat
  <2>1. U \in SUBSET Nat
    OBVIOUS
  <2> HIDE DEF U
  <2> QED
    BY <1>6, <1>7, <2>1, Induction
<1>9. n \in Nat
  BY <1>1 DEF n
<1>10. q[n] = p[n]
  <2>1. n \in U
    BY <1>8, <1>9
  <2> QED
    BY <1>9, <2>1
<1>11. q[n + 1] = q[n] + Term(T, g, n + 1)
  <2>1. n + 1 \in 1..n + 1 /\ (n + 1) - 1 = n
    BY <1>9
  <2> QED
    BY <1>4, <2>1
<1>12. Len(g) = n + 1
  BY DEF n
<1> QED
  BY <1>4, <1>10, <1>11, <1>12
\* Entries that count for nothing.
LEMMA TotalOfNothing ==
  ASSUME NEW S, NEW f, IsNumbers(f), \A i \in 1..Len(f) : Term(S, f, i) = 0
  PROVE  Total(S, f) = 0
<1>1. Len(f) \in Nat
  BY DEF IsNumbers
<1>2. PICK r : Partial(r, S, f)
  BY TotalUnfolds
<1>3. /\ r[0] = 0 /\ Total(S, f) = r[Len(f)]
      /\ \A i \in 1..Len(f) : r[i] = r[i - 1] + Term(S, f, i)
  BY <1>2 DEF Partial
<1> DEFINE T == { i \in Nat : i <= Len(f) => r[i] = 0 }
<1>4. 0 \in T
  BY <1>3
<1>5. ASSUME NEW i \in T PROVE i + 1 \in T
  <2> SUFFICES ASSUME i + 1 <= Len(f) PROVE r[i + 1] = 0
    OBVIOUS
  <2>1. i \in Nat /\ i + 1 \in 1..Len(f) /\ (i + 1) - 1 = i /\ r[i] = 0
    BY <1>1
  <2>2. r[i + 1] = r[i] + Term(S, f, i + 1) /\ Term(S, f, i + 1) = 0
    BY <1>3, <2>1
  <2> QED
    BY <2>1, <2>2
<1>6. T = Nat
  <2>1. T \in SUBSET Nat
    OBVIOUS
  <2> HIDE DEF T
  <2> QED
    BY <1>4, <1>5, <2>1, Induction
<1>7. Len(f) \in T
  BY <1>1, <1>6
<1> QED
  BY <1>1, <1>3, <1>7

-----------------------------------------------------------------------------
\* The nearest center.

LEMMA ProductTells ==
  ASSUME NEW x \in Int, NEW y \in Int, NEW z \in Nat \ {0}, x * z <= y * z
  PROVE  x <= y
<1> SUFFICES ASSUME y + 1 <= x PROVE FALSE
  OBVIOUS
<1>1. (y + 1) * z <= x * z
  BY ProductGrows
<1>2. (y + 1) * z = y * z + z /\ y * z \in Int /\ x * z \in Int
  OBVIOUS
<1> QED
  BY <1>1, <1>2

\* a / s <= b / t and b / t <= c / u.
LEMMA FractionsFollow ==
  ASSUME NEW a \in Int, NEW b \in Int, NEW c \in Int,
         NEW s \in Nat \ {0}, NEW t \in Nat \ {0}, NEW u \in Nat \ {0},
         a * t <= b * s, b * u <= c * t
  PROVE  a * u <= c * s
<1>1. (a * t) * u <= (b * s) * u
  BY ProductGrows
<1>2. (b * u) * s <= (c * t) * s
  BY ProductGrows
<1>3. (b * s) * u = (b * u) * s /\ (a * t) * u = (a * u) * t /\ (c * t) * s = (c * s) * t
  OBVIOUS
<1>4. (a * t) * u \in Int /\ (b * s) * u \in Int /\ (b * u) * s \in Int /\ (c * t) * s \in Int
  OBVIOUS
<1>5. (a * u) * t <= (c * s) * t
  BY <1>1, <1>2, <1>3, <1>4
<1>6. a * u \in Int /\ c * s \in Int
  OBVIOUS
<1> QED
  BY <1>5, <1>6, ProductTells

Cluster == [bin : Bins, sum : Places, support : Nat \ {0}]
Clusters == Seq(Cluster)

LEMMA ClustersAre ==
  ASSUME NEW list \in Clusters
  PROVE  /\ Len(list) \in Nat /\ DOMAIN list = 1..Len(list)
         /\ \A i \in 1..Len(list) :
              /\ list[i] \in Cluster /\ list[i].bin \in Bins /\ list[i].sum \in Places
              /\ list[i].support \in Nat \ {0} /\ list[i].sum[1] \in Int /\ list[i].sum[2] \in Int
<1>1. Len(list) \in Nat /\ DOMAIN list = 1..Len(list) /\ \A i \in 1..Len(list) : list[i] \in Cluster
  BY DEF Clusters
<1>2. ASSUME NEW c \in Cluster
      PROVE  c.bin \in Bins /\ c.sum \in Places /\ c.support \in Nat \ {0} /\ c.sum[1] \in Int /\ c.sum[2] \in Int
  BY <1>2 DEF Cluster, Places
<1> QED
  BY <1>1, <1>2

LEMMA DistanceToCenter ==
  ASSUME NEW c \in Cluster, NEW p \in Places
  PROVE  ScaledDistance(c, p) \in Int
<1>1. /\ c.sum[1] \in Int /\ c.sum[2] \in Int /\ c.support \in Int /\ p[1] \in Int /\ p[2] \in Int
  BY DEF Cluster, Places
<1>2. c.sum[1] - c.support * p[1] \in Int /\ c.sum[2] - c.support * p[2] \in Int
  BY <1>1
<1>3. \A n \in Int : Magnitude(n) \in Int
  BY DEF Magnitude
<1> QED
  BY <1>2, <1>3 DEF ScaledDistance

\* Any two centers can be compared, and so can any three.
LEMMA CloserIsOrder ==
  ASSUME clusters \in Clusters, NEW p \in Places
  PROVE  /\ \A i, k \in 1..Len(clusters) : Closer(i, k, p) \/ Closer(k, i, p)
         /\ \A i, k, m \in 1..Len(clusters) : Closer(i, k, p) /\ Closer(k, m, p) => Closer(i, m, p)
<1> DEFINE d(i) == ScaledDistance(clusters[i], p)
           w(i) == clusters[i].support
<1>1. \A i \in 1..Len(clusters) : d(i) \in Int /\ w(i) \in Nat \ {0}
  <2> SUFFICES ASSUME NEW i \in 1..Len(clusters) PROVE d(i) \in Int /\ w(i) \in Nat \ {0}
    OBVIOUS
  <2>1. clusters[i] \in Cluster /\ w(i) \in Nat \ {0}
    BY ClustersAre
  <2> QED
    BY <2>1, DistanceToCenter
<1>2. \A i, k : Closer(i, k, p) <=> d(i) * w(k) <= d(k) * w(i)
  BY DEF Closer
<1> HIDE DEF d, w
<1>3. ASSUME NEW i \in 1..Len(clusters), NEW k \in 1..Len(clusters)
      PROVE  Closer(i, k, p) \/ Closer(k, i, p)
  <2>1. d(i) * w(k) \in Int /\ d(k) * w(i) \in Int
    BY <1>1
  <2> QED
    BY <1>2, <2>1
<1>4. ASSUME NEW i \in 1..Len(clusters), NEW k \in 1..Len(clusters), NEW m \in 1..Len(clusters),
             Closer(i, k, p), Closer(k, m, p)
      PROVE  Closer(i, m, p)
  <2>1. d(i) \in Int /\ d(k) \in Int /\ d(m) \in Int
    BY <1>1
  <2>2. w(i) \in Nat \ {0} /\ w(k) \in Nat \ {0} /\ w(m) \in Nat \ {0}
    BY <1>1
  <2>3. d(i) * w(k) <= d(k) * w(i) /\ d(k) * w(m) <= d(m) * w(k)
    BY <1>2, <1>4
  <2>4. d(i) * w(m) <= d(m) * w(i)
    BY <2>1, <2>2, <2>3, FractionsFollow
  <2> QED
    BY <1>2, <2>4
<1>5. \A i, k \in 1..Len(clusters) : Closer(i, k, p) \/ Closer(k, i, p)
  BY <1>3
<1>6. \A i, k, m \in 1..Len(clusters) : Closer(i, k, p) /\ Closer(k, m, p) => Closer(i, m, p)
  BY <1>4
<1> QED
  BY <1>5, <1>6

LEMMA GreatestNumber ==
  ASSUME NEW n \in Nat, NEW S \in SUBSET (1..n), S # {}
  PROVE  Max(S) \in S /\ \A i \in S : i <= Max(S)
<1> DEFINE R == { n - i : i \in S }
<1>1. R \in SUBSET Nat /\ R # {}
  <2>1. \A i \in S : n - i \in Nat
    OBVIOUS
  <2>2. PICK i \in S : TRUE
    OBVIOUS
  <2>3. n - i \in R
    OBVIOUS
  <2> QED
    BY <2>1, <2>3
<1>2. PICK m \in R : \A k \in R : m <= k
  <2> HIDE DEF R
  <2> QED
    BY <1>1, LeastNumber
<1>3. PICK i \in S : m = n - i
  OBVIOUS
<1>4. \A k \in S : i >= k
  BY <1>2, <1>3, SMTT(30)
<1>5. \E x \in S : \A k \in S : x >= k
  BY <1>3, <1>4
<1>6. Max(S) \in S /\ \A k \in S : Max(S) >= k
  BY <1>5 DEF Max
<1> QED
  BY <1>6

LEMMA NearestIsOne ==
  ASSUME clusters \in Clusters, NEW p \in Places, NEW S \in SUBSET (DOMAIN clusters), S # {}
  PROVE  Nearest(S, p) \in S
<1> DEFINE N == Len(clusters)
           C(i, k) == Closer(i, k, p)
           T == { n \in Nat : \A i \in S : i <= n => \E j \in S : \A k \in S : k <= n => C(j, k) }
<1>1. N \in Nat /\ S \in SUBSET (1..N)
  BY ClustersAre
<1>2. /\ \A i, k \in 1..N : C(i, k) \/ C(k, i)
      /\ \A i, k, m \in 1..N : C(i, k) /\ C(k, m) => C(i, m)
  BY CloserIsOrder
<1>3. Nearest(S, p) = Max({ i \in S : \A k \in S : C(i, k) })
  BY DEF Nearest
<1> HIDE DEF N, C
<1>4. 0 \in T
  BY <1>1
<1>5. ASSUME NEW n \in T PROVE n + 1 \in T
  <2> SUFFICES ASSUME NEW i \in S, i <= n + 1
               PROVE  \E j \in S : \A k \in S : k <= n + 1 => C(j, k)
    OBVIOUS
  <2>1. n \in Nat /\ \A k \in S : k \in Nat /\ (k <= n + 1 => k <= n \/ k = n + 1)
    BY <1>1
  <2>2. CASE \A k \in S : ~(k <= n)
    <3>1. i = n + 1 /\ C(i, i)
      BY <1>1, <1>2, <2>1, <2>2
    <3> QED
      BY <2>1, <2>2, <3>1
  <2>3. CASE \E k \in S : k <= n
    <3>1. PICK j \in S : \A k \in S : k <= n => C(j, k)
      BY <2>3
    <3>2. CASE n + 1 \notin S
      BY <2>1, <3>1, <3>2
    <3>3. CASE n + 1 \in S /\ C(j, n + 1)
      BY <2>1, <3>1, <3>3
    <3>4. CASE n + 1 \in S /\ C(n + 1, j)
      <4>1. C(n + 1, n + 1)
        BY <1>1, <1>2, <3>4
      <4>2. \A k \in S : k <= n => C(n + 1, k)
        BY <1>1, <1>2, <3>1, <3>4
      <4> QED
        BY <2>1, <3>4, <4>1, <4>2
    <3> QED
      BY <1>1, <1>2, <3>2, <3>3, <3>4
  <2> QED
    BY <2>2, <2>3
<1>6. T = Nat
  <2>1. T \in SUBSET Nat
    OBVIOUS
  <2> HIDE DEF T
  <2> QED
    BY <1>4, <1>5, <2>1, Induction
<1>7. PICK i \in S : TRUE
  OBVIOUS
<1>8. \E j \in S : \A k \in S : k <= N => C(j, k)
  <2>1. N \in T
    BY <1>1, <1>6
  <2> QED
    BY <1>1, <1>7, <2>1
<1> DEFINE M == { j \in S : \A k \in S : C(j, k) }
<1>9. M \in SUBSET (1..N) /\ M # {}
  BY <1>1, <1>8
<1>10. M \in SUBSET S
  OBVIOUS
<1> HIDE DEF M
<1>11. Max(M) \in M
  BY <1>1, <1>9, GreatestNumber
<1> QED
  BY <1>3, <1>10, <1>11 DEF M
-----------------------------------------------------------------------------
\* The sums of the groups, one position after the other.

Passed(bin) == { i \in Moving(bin) : i < sample }
CountedIn(bin) ==
  /\ Total(Members(bin), Supports) = Cardinality(Passed(bin))
  /\ \A c \in 1..2 : Total(Members(bin), CenterSums(c)) = Total(Passed(bin), Coordinates(c))
Counted == \A bin \in Bins : CountedIn(bin)
TraceFits == trace \in Seq(Places) /\ sample \in Nat

LEMMA PlacesAreNumbers ==
  ASSUME NEW p \in Places
  PROVE  p[1] \in Int /\ p[2] \in Int /\ \A c \in 1..2 : p[c] \in Int
<1>1. p[1] \in Int /\ p[2] \in Int
  BY DEF Places
<1>2. \A c \in 1..2 : c = 1 \/ c = 2
  OBVIOUS
<1> QED
  BY <1>1, <1>2

LEMMA TraceIs ==
  ASSUME TraceFits
  PROVE  /\ Len(trace) \in Nat /\ \A i \in 1..Len(trace) : trace[i] \in Places
         /\ \A c : Len(Coordinates(c)) = Len(trace) /\ \A i \in 1..Len(trace) : Coordinates(c)[i] = trace[i][c]
         /\ \A c \in 1..2 : IsNumbers(Coordinates(c))
<1>1. Len(trace) \in Nat /\ DOMAIN trace = 1..Len(trace) /\ \A i \in 1..Len(trace) : trace[i] \in Places
  BY DEF TraceFits
<1>2. ASSUME NEW c
      PROVE  Len(Coordinates(c)) = Len(trace) /\ \A i \in 1..Len(trace) : Coordinates(c)[i] = trace[i][c]
  <2>1. Coordinates(c) = [i \in 1..Len(trace) |-> trace[i][c]]
    BY <1>1 DEF Coordinates
  <2> DEFINE n == Len(trace)
             R == { trace[i][c] : i \in 1..n }
  <2>2. Coordinates(c) \in [1..n -> R] /\ n \in Nat
    BY <1>1, <2>1
  <2> HIDE DEF R, n
  <2>3. Coordinates(c) \in Seq(R) /\ Len(Coordinates(c)) = n
    BY <2>2
  <2> QED
    BY <2>1, <2>3 DEF n
<1>3. \A c \in 1..2 : IsNumbers(Coordinates(c))
  BY <1>1, <1>2, PlacesAreNumbers DEF IsNumbers
<1> QED
  BY <1>1, <1>2, <1>3

LEMMA TotalIsNumber ==
  ASSUME NEW S, NEW f, IsNumbers(f)
  PROVE  Total(S, f) \in Int
<1>1. PICK r : Partial(r, S, f) /\ \A i \in 0..Len(f) : r[i] \in Int
  BY TotalUnfolds
<1>2. Len(f) \in 0..Len(f) /\ Total(S, f) = r[Len(f)]
  BY <1>1 DEF Partial, IsNumbers
<1> QED
  BY <1>1, <1>2

SupportsOf(list) == [i \in DOMAIN list |-> list[i].support]
SumsOf(list, c) == [i \in DOMAIN list |-> list[i].sum[c]]

LEMMA SumsAre ==
  ASSUME NEW list \in Clusters
  PROVE  /\ Len(SupportsOf(list)) = Len(list) /\ \A i \in 1..Len(list) : SupportsOf(list)[i] = list[i].support
         /\ IsNumbers(SupportsOf(list))
         /\ \A c \in 1..2 : /\ Len(SumsOf(list, c)) = Len(list) /\ IsNumbers(SumsOf(list, c))
                           /\ \A i \in 1..Len(list) : SumsOf(list, c)[i] = list[i].sum[c]
<1> DEFINE n == Len(list)
<1>1. n \in Nat /\ DOMAIN list = 1..n
  BY ClustersAre
<1>2. ASSUME NEW f, f = [i \in 1..n |-> f[i]] PROVE Len(f) = n
  <2> DEFINE R == { f[i] : i \in 1..n }
  <2>1. f \in [1..n -> R]
    BY <1>2
  <2> HIDE DEF R, n
  <2> QED
    BY <1>1, <2>1
<1>3. SupportsOf(list) = [i \in 1..n |-> list[i].support]
  BY <1>1 DEF SupportsOf
<1>4. \A c : SumsOf(list, c) = [i \in 1..n |-> list[i].sum[c]]
  BY <1>1 DEF SumsOf
<1>5. Len(SupportsOf(list)) = n /\ \A i \in 1..n : SupportsOf(list)[i] = list[i].support
  BY <1>2, <1>3
<1>6. ASSUME NEW c PROVE Len(SumsOf(list, c)) = n /\ \A i \in 1..n : SumsOf(list, c)[i] = list[i].sum[c]
  BY <1>2, <1>4
<1>7. \A i \in 1..n : list[i].support \in Int /\ list[i].sum \in Places
  BY ClustersAre
<1>8. IsNumbers(SupportsOf(list))
  BY <1>1, <1>5, <1>7 DEF IsNumbers
<1>9. ASSUME NEW c \in 1..2 PROVE IsNumbers(SumsOf(list, c))
  <2>1. \A i \in 1..n : list[i].sum[c] \in Int
    BY <1>7, PlacesAreNumbers
  <2> QED
    BY <1>1, <1>6, <2>1 DEF IsNumbers
<1> QED
  BY <1>5, <1>6, <1>8, <1>9

\* The position that is looked at is one more of its direction, and of no other.
LEMMA PositionPasses ==
  ASSUME TraceFits, Sampling, NextSample, NEW bin \in Bins
  PROVE  /\ Cardinality(Passed(bin)') = Cardinality(Passed(bin)) + (IF bin = Bin THEN 1 ELSE 0)
         /\ Cardinality(Passed(bin)) \in Nat
         /\ \A c \in 1..2 : Total(Passed(bin)', Coordinates(c)') =
                              Total(Passed(bin), Coordinates(c)) + (IF bin = Bin THEN trace[sample][c] ELSE 0)
<1> DEFINE P == Passed(bin)
           Q == Passed(bin)'
           k == sample
<1>1. Len(trace) \in Nat /\ sample \in Nat /\ sample >= 1 /\ sample < Len(trace) /\ sample' = sample + 1 /\ trace' = trace
  BY TraceIs DEF TraceFits, Sampling, NextSample
<1>2. Moving(bin)' = Moving(bin) /\ Moving(bin) \in SUBSET (1..Len(trace) - 1)
  BY <1>1 DEF Moving
<1>3. sample \in Moving(bin) <=> bin = Bin
  BY <1>1 DEF Moving, Bin
<1>4. P = { i \in Moving(bin) : i < sample } /\ Q = { i \in Moving(bin) : i < sample + 1 }
  BY <1>1, <1>2 DEF Passed
<1>5. \A i \in 1..Len(trace) - 1 : i < sample + 1 <=> i < sample \/ i = sample
  BY <1>1
<1> HIDE DEF P, Q
<1>6. k \notin P /\ P \in SUBSET (1..Len(trace) - 1)
  BY <1>1, <1>2, <1>4
<1>7. Q = (IF bin = Bin THEN P \cup {k} ELSE P)
  BY <1>2, <1>3, <1>4, <1>5
<1>8. IsFiniteSet(P) /\ Cardinality(P) \in Nat
  <2>1. IsFiniteSet(1..Len(trace) - 1)
    BY <1>1, FS_Interval
  <2> QED
    BY <1>6, <2>1, PartIsFinite
<1>9. Cardinality(Q) = Cardinality(P) + (IF bin = Bin THEN 1 ELSE 0)
  <2>1. Cardinality(P \cup {k}) = Cardinality(P) + 1
    <3> HIDE DEF k
    <3> QED
      BY <1>6, <1>8, FS_AddElement
  <2>2. CASE bin = Bin
    BY <1>7, <2>1, <2>2
  <2>3. CASE bin # Bin
    BY <1>7, <1>8, <2>3
  <2> QED
    BY <2>2, <2>3
<1>10. ASSUME NEW c \in 1..2
       PROVE  Total(Q, Coordinates(c)') = Total(P, Coordinates(c)) + (IF bin = Bin THEN trace[sample][c] ELSE 0)
  <2>1. Coordinates(c)' = Coordinates(c)
    BY <1>1 DEF Coordinates
  <2> DEFINE f == Coordinates(c)
             d == IF bin = Bin THEN trace[sample][c] ELSE 0
  <2>2. IsNumbers(f) /\ Len(f) = Len(trace) /\ \A i \in 1..Len(f) : f[i] = trace[i][c]
    BY TraceIs
  <2>3. k \in 1..Len(f) /\ k \in Nat
    BY <1>1, <2>2
  <2>4. f[k] \in Int /\ f[k] = trace[sample][c]
    BY <2>2, <2>3 DEF IsNumbers
  <2>5. d \in Int
    BY <2>4
  <2>6. Term(Q, f, k) = Term(P, f, k) + d
    <3>1. Term(P, f, k) = 0
      BY <1>6 DEF Term
    <3>2. Term(Q, f, k) = d
      BY <1>6, <1>7, <2>4 DEF Term
    <3> QED
      BY <2>5, <3>1, <3>2
  <2>7. ASSUME NEW i \in 1..Len(f), i # k PROVE Term(Q, f, i) = Term(P, f, i)
    BY <1>7, <2>7 DEF Term
  <2> HIDE DEF f, d, k
  <2>8. Total(Q, f) = Total(P, f) + d
    BY <2>2, <2>3, <2>5, <2>6, <2>7, TotalsDiffer
  <2> QED
    BY <2>1, <2>8 DEF f, d
<1> QED
  BY <1>8, <1>9, <1>10 DEF P, Q
\* What a step adds to the sums of the groups of its direction is what it passes.
LEMMA CountGoesOn ==
  ASSUME TraceFits, Sampling, NextSample, clusters \in Clusters, NEW bin \in Bins, CountedIn(bin),
         Total(Members(bin)', Supports') = Total(Members(bin), Supports) + (IF bin = Bin THEN 1 ELSE 0),
         \A c \in 1..2 : Total(Members(bin)', CenterSums(c)') =
                           Total(Members(bin), CenterSums(c)) + (IF bin = Bin THEN trace[sample][c] ELSE 0)
  PROVE  CountedIn(bin)'
<1>1. Total(Members(bin), Supports) = Cardinality(Passed(bin))
  BY DEF CountedIn
<1>2. Cardinality(Passed(bin)') = Cardinality(Passed(bin)) + (IF bin = Bin THEN 1 ELSE 0)
  BY PositionPasses
<1>3. Total(Members(bin)', Supports') = Cardinality(Passed(bin)')
  BY <1>1, <1>2
<1>4. ASSUME NEW c \in 1..2
      PROVE  Total(Members(bin)', CenterSums(c)') = Total(Passed(bin)', Coordinates(c)')
  <2>1. Total(Members(bin), CenterSums(c)) = Total(Passed(bin), Coordinates(c))
    BY DEF CountedIn
  <2>2. Total(Passed(bin)', Coordinates(c)') =
          Total(Passed(bin), Coordinates(c)) + (IF bin = Bin THEN trace[sample][c] ELSE 0)
    BY PositionPasses
  <2> QED
    BY <2>1, <2>2
<1> QED
  BY <1>3, <1>4 DEF CountedIn

\* The place of the position that is looked at.
LEMMA SampleIsPlace ==
  ASSUME TraceFits, Sampling
  PROVE  /\ trace[sample] \in Places /\ trace[sample + 1] \in Places
         /\ Bin # << 0, 0 >> => Bin \in Bins
<1>1. sample \in 1..Len(trace) /\ sample + 1 \in 1..Len(trace)
  BY TraceIs DEF TraceFits, Sampling
<1>2. trace[sample] \in Places /\ trace[sample + 1] \in Places
  BY <1>1, TraceIs
<1>3. \A n : Sign(n) \in {-1, 0, 1}
  BY DEF Sign
<1>4. PICK e \in {-1, 0, 1}, n \in {-1, 0, 1} : Bin = << e, n >>
  BY <1>3 DEF Bin, Direction
<1> QED
  BY <1>2, <1>4 DEF Bins

LEMMA StandingCounts ==
  ASSUME TraceFits, clusters \in Clusters, Counted, SkipStanding
  PROVE  Counted'
<1>1. Sampling /\ NextSample /\ Bin = << 0, 0 >> /\ clusters' = clusters
  BY DEF SkipStanding
<1>2. ASSUME NEW bin \in Bins PROVE CountedIn(bin)'
  <2>1. bin # Bin
    BY <1>1 DEF Bins
  <2>2. Members(bin)' = Members(bin) /\ Supports' = Supports /\ \A c : CenterSums(c)' = CenterSums(c)
    BY <1>1 DEF Members, Supports, CenterSums
  <2>3. CountedIn(bin)
    BY DEF Counted
  <2>4. Total(Members(bin)', Supports') = Total(Members(bin), Supports)
    BY <2>2
  <2>5. Total(Members(bin), Supports) \in Int
    <3>1. Cardinality(Passed(bin)) \in Nat
      BY <1>1, PositionPasses
    <3> QED
      BY <2>3, <3>1 DEF CountedIn
  <2>6. ASSUME NEW c \in 1..2
        PROVE  Total(Members(bin)', CenterSums(c)') = Total(Members(bin), CenterSums(c))
    BY <2>2
  <2>7. ASSUME NEW c \in 1..2 PROVE Total(Members(bin), CenterSums(c)) \in Int
    <3>1. CenterSums(c) = SumsOf(clusters, c)
      BY DEF CenterSums, SumsOf
    <3> QED
      BY <3>1, SumsAre, TotalIsNumber
  <2> QED
    BY <1>1, <2>1, <2>3, <2>4, <2>5, <2>6, <2>7, CountGoesOn
<1> QED
  BY <1>2 DEF Counted

LEMMA JoiningCounts ==
  ASSUME TraceFits, clusters \in Clusters, Counted, JoinCluster
  PROVE  clusters' \in Clusters /\ Counted'
<1> DEFINE n == Len(clusters)
<1>1. PICK p, g, i :
        /\ p = trace[sample] /\ g = Bin /\ i = Nearest(InReach(g, p), p) /\ InReach(g, p) # {}
        /\ clusters' = [clusters EXCEPT ![i].sum = << @[1] + p[1], @[2] + p[2] >>, ![i].support = @ + 1]
        /\ Sampling /\ NextSample /\ Bin # << 0, 0 >>
  BY DEF JoinCluster
<1>2. p \in Places /\ g \in Bins
  BY <1>1, SampleIsPlace
<1>3. i \in 1..n /\ clusters[i].bin = g
  <2>1. InReach(g, p) \in SUBSET (DOMAIN clusters)
    BY DEF InReach
  <2>2. i \in InReach(g, p)
    BY <1>1, <1>2, <2>1, NearestIsOne
  <2> QED
    BY <2>2, ClustersAre DEF InReach
<1> DEFINE joined == [bin |-> clusters[i].bin, sum |-> << clusters[i].sum[1] + p[1], clusters[i].sum[2] + p[2] >>,
                      support |-> clusters[i].support + 1]
<1>4. joined \in Cluster
  BY <1>2, <1>3, ClustersAre, PlacesAreNumbers DEF Cluster, Places
<1>5. n \in Nat /\ DOMAIN clusters = 1..n /\ \A k \in 1..n : clusters[k] \in Cluster
  BY ClustersAre
<1>6. clusters[i] = [bin |-> clusters[i].bin, sum |-> clusters[i].sum, support |-> clusters[i].support]
  BY <1>3, <1>5 DEF Cluster
<1>7. clusters' = [clusters EXCEPT ![i] = joined]
  <2> DEFINE c == clusters[i]
             s == << c.sum[1] + p[1], c.sum[2] + p[2] >>
             half == [clusters EXCEPT ![i].sum = s]
  <2>1. clusters' = [half EXCEPT ![i].support = half[i].support + 1]
    BY <1>1
  <2>2. half = [clusters EXCEPT ![i] = [bin |-> c.bin, sum |-> s, support |-> c.support]]
    <3>1. c = [bin |-> c.bin, sum |-> c.sum, support |-> c.support]
      BY <1>6
    <3> HIDE DEF s
    <3>2. [c EXCEPT !.sum = s] = [bin |-> c.bin, sum |-> s, support |-> c.support]
      <4> HIDE DEF c
      <4> QED
        BY <3>1
    <3>3. half = [clusters EXCEPT ![i] = [c EXCEPT !.sum = s]]
      OBVIOUS
    <3> HIDE DEF half, c
    <3> QED
      BY <3>2, <3>3
  <2>3. DOMAIN half = 1..n /\ half[i] = [bin |-> c.bin, sum |-> s, support |-> c.support]
    <3> HIDE DEF c, s, half
    <3> QED
      BY <1>3, <1>5, <2>2
  <2>4. [half[i] EXCEPT !.support = half[i].support + 1] = [bin |-> c.bin, sum |-> s, support |-> c.support + 1]
    <3> HIDE DEF c, s, half
    <3> QED
      BY <2>3
  <2>5. clusters' = [half EXCEPT ![i] = joined]
    <3>1. clusters' = [half EXCEPT ![i] = [half[i] EXCEPT !.support = half[i].support + 1]]
      <4> HIDE DEF half
      <4> QED
        BY <2>1
    <3>2. joined = [bin |-> c.bin, sum |-> s, support |-> c.support + 1]
      OBVIOUS
    <3> HIDE DEF half, joined, c, s
    <3> QED
      BY <2>4, <3>1, <3>2
  <2> HIDE DEF c, s, half, joined
  <2> QED
    BY <1>3, <1>5, <2>2, <2>5
<1>8. clusters' \in Clusters /\ Len(clusters') = n /\ DOMAIN clusters' = 1..n
  <2> HIDE DEF joined
  <2> QED
    BY <1>3, <1>4, <1>7 DEF Clusters
<1>9. clusters'[i] = joined /\ \A k \in 1..n : k # i => clusters'[k] = clusters[k]
  <2> HIDE DEF joined
  <2> QED
    BY <1>3, <1>5, <1>7
<1>10. ASSUME NEW bin \in Bins PROVE CountedIn(bin)'
  <2> DEFINE S == Members(bin)
  <2>1. S = { k \in 1..n : clusters[k].bin = bin } /\ Members(bin)' = { k \in 1..n : clusters'[k].bin = bin }
    BY <1>5, <1>8 DEF Members
  <2>2. \A k \in 1..n : clusters'[k].bin = clusters[k].bin
    BY <1>9
  <2>3. Members(bin)' = S /\ (i \in S <=> bin = g)
    BY <1>3, <2>1, <2>2
  <2> HIDE DEF S
  <2>4. ASSUME NEW f, NEW h, IsNumbers(f), IsNumbers(h), Len(f) = n, Len(h) = n, NEW d \in Int,
               h[i] = f[i] + d, \A k \in 1..n : k # i => h[k] = f[k]
        PROVE  Total(S, h) = Total(S, f) + (IF bin = g THEN d ELSE 0)
    <3> DEFINE x == IF bin = g THEN d ELSE 0
    <3>1. x \in Int /\ i \in Nat /\ f[i] \in Int
      BY <1>3, <1>5, <2>4 DEF IsNumbers
    <3>2. Term(S, h, i) = Term(S, f, i) + x
      BY <2>3, <2>4, <3>1 DEF Term
    <3>3. \A k \in 1..Len(f) : k # i => Term(S, h, k) = Term(S, f, k)
      BY <2>4 DEF Term
    <3> HIDE DEF x
    <3>4. Total(S, h) = Total(S, f) + x
      BY <1>3, <2>4, <3>1, <3>2, <3>3, TotalsDiffer
    <3> QED
      BY <3>4 DEF x
  <2>5. /\ Len(Supports) = n /\ IsNumbers(Supports) /\ \A k \in 1..n : Supports[k] = clusters[k].support
        /\ Len(Supports') = n /\ IsNumbers(Supports') /\ \A k \in 1..n : Supports'[k] = clusters'[k].support
    <3>1. Supports = SupportsOf(clusters) /\ Supports' = SupportsOf(clusters')
      BY DEF Supports, SupportsOf
    <3> QED
      BY <1>8, <3>1, SumsAre
  <2>6. Total(S, Supports') = Total(S, Supports) + (IF bin = g THEN 1 ELSE 0)
    <3>1. Supports'[i] = Supports[i] + 1
      BY <1>3, <1>9, <2>5
    <3>2. \A k \in 1..n : k # i => Supports'[k] = Supports[k]
      BY <1>9, <2>5
    <3> QED
      BY <2>4, <2>5, <3>1, <3>2
  <2>7. ASSUME NEW c \in 1..2
        PROVE  Total(S, CenterSums(c)') = Total(S, CenterSums(c)) + (IF bin = g THEN p[c] ELSE 0)
    <3>1. /\ Len(CenterSums(c)) = n /\ IsNumbers(CenterSums(c)) /\ \A k \in 1..n : CenterSums(c)[k] = clusters[k].sum[c]
          /\ Len(CenterSums(c)') = n /\ IsNumbers(CenterSums(c)')
          /\ \A k \in 1..n : CenterSums(c)'[k] = clusters'[k].sum[c]
      <4>1. CenterSums(c) = SumsOf(clusters, c) /\ CenterSums(c)' = SumsOf(clusters', c)
        BY DEF CenterSums, SumsOf
      <4> QED
        BY <1>8, <4>1, SumsAre
    <3>2. joined.sum[c] = clusters[i].sum[c] + p[c]
      <4>1. c = 1 \/ c = 2
        OBVIOUS
      <4> QED
        BY <4>1
    <3>3. CenterSums(c)'[i] = CenterSums(c)[i] + p[c]
      BY <1>3, <1>9, <3>1, <3>2
    <3>4. \A k \in 1..n : k # i => CenterSums(c)'[k] = CenterSums(c)[k]
      BY <1>9, <3>1
    <3>5. p[c] \in Int
      BY <1>2, PlacesAreNumbers
    <3> QED
      BY <2>4, <3>1, <3>3, <3>4, <3>5
  <2>8. CountedIn(bin)
    BY DEF Counted
  <2> QED
    BY <1>1, <2>3, <2>6, <2>7, <2>8, CountGoesOn DEF S
<1> QED
  BY <1>8, <1>10 DEF Counted
LEMMA NewGroupCounts ==
  ASSUME TraceFits, clusters \in Clusters, Counted, NewCluster
  PROVE  clusters' \in Clusters /\ Counted'
<1> DEFINE n == Len(clusters)
<1>1. PICK p, g :
        /\ p = trace[sample] /\ g = Bin /\ clusters' = Append(clusters, [bin |-> g, sum |-> p, support |-> 1])
        /\ Sampling /\ NextSample /\ Bin # << 0, 0 >>
  BY DEF NewCluster
<1>2. p \in Places /\ g \in Bins
  BY <1>1, SampleIsPlace
<1> DEFINE added == [bin |-> g, sum |-> p, support |-> 1]
<1>3. added \in Cluster
  BY <1>2 DEF Cluster
<1>4. n \in Nat /\ DOMAIN clusters = 1..n /\ \A k \in 1..n : clusters[k] \in Cluster
  BY ClustersAre
<1>5. added.bin = g /\ added.sum = p /\ added.support = 1
  OBVIOUS
<1>6. clusters' = Append(clusters, added)
  BY <1>1
<1> HIDE DEF added
<1>7. /\ clusters' \in Clusters /\ Len(clusters') = n + 1
      /\ clusters'[n + 1] = added /\ \A k \in 1..n : clusters'[k] = clusters[k]
  BY <1>3, <1>6 DEF Clusters
<1>8. DOMAIN clusters' = 1..n + 1
  BY <1>7, ClustersAre
<1>9. ASSUME NEW bin \in Bins PROVE CountedIn(bin)'
  <2> DEFINE S == Members(bin)
             T == Members(bin)'
  <2>1. S = { k \in 1..n : clusters[k].bin = bin } /\ T = { k \in 1..n + 1 : clusters'[k].bin = bin }
    BY <1>4, <1>8 DEF Members
  <2>2. ASSUME NEW k \in 1..n PROVE k \in T <=> k \in S
    BY <1>4, <1>7, <2>1
  <2>3. n + 1 \in T <=> bin = g
    BY <1>4, <1>5, <1>7, <2>1
  <2> HIDE DEF S, T
  <2>4. ASSUME NEW f, NEW h, IsNumbers(f), IsNumbers(h), Len(f) = n, Len(h) = n + 1,
               \A k \in 1..n : h[k] = f[k]
        PROVE  Total(T, h) = Total(S, f) + (IF bin = g THEN h[n + 1] ELSE 0)
    <3>1. \A k \in 1..Len(f) : Term(T, h, k) = Term(S, f, k)
      BY <2>2, <2>4 DEF Term
    <3>2. Total(T, h) = Total(S, f) + Term(T, h, n + 1)
      BY <2>4, <3>1, TotalGrows
    <3>3. Term(T, h, n + 1) = (IF bin = g THEN h[n + 1] ELSE 0)
      BY <2>3 DEF Term
    <3> QED
      BY <3>2, <3>3
  <2>5. Total(T, Supports') = Total(S, Supports) + (IF bin = g THEN 1 ELSE 0)
    <3>1. Supports = SupportsOf(clusters) /\ Supports' = SupportsOf(clusters')
      BY DEF Supports, SupportsOf
    <3>2. /\ Len(Supports) = n /\ IsNumbers(Supports) /\ \A k \in 1..n : Supports[k] = clusters[k].support
          /\ Len(Supports') = n + 1 /\ IsNumbers(Supports')
          /\ \A k \in 1..n + 1 : Supports'[k] = clusters'[k].support
      BY <1>7, <3>1, SumsAre
    <3>3. Supports'[n + 1] = 1 /\ \A k \in 1..n : Supports'[k] = Supports[k]
      <4>1. n + 1 \in 1..n + 1 /\ \A k \in 1..n : k \in 1..n + 1
        BY <1>4
      <4> QED
        BY <1>5, <1>7, <3>2, <4>1
    <3> QED
      BY <2>4, <3>2, <3>3
  <2>6. ASSUME NEW c \in 1..2
        PROVE  Total(T, CenterSums(c)') = Total(S, CenterSums(c)) + (IF bin = g THEN p[c] ELSE 0)
    <3>1. CenterSums(c) = SumsOf(clusters, c) /\ CenterSums(c)' = SumsOf(clusters', c)
      BY DEF CenterSums, SumsOf
    <3>2. /\ Len(CenterSums(c)) = n /\ IsNumbers(CenterSums(c)) /\ \A k \in 1..n : CenterSums(c)[k] = clusters[k].sum[c]
          /\ Len(CenterSums(c)') = n + 1 /\ IsNumbers(CenterSums(c)')
          /\ \A k \in 1..n + 1 : CenterSums(c)'[k] = clusters'[k].sum[c]
      BY <1>7, <3>1, SumsAre
    <3>3. CenterSums(c)'[n + 1] = p[c] /\ \A k \in 1..n : CenterSums(c)'[k] = CenterSums(c)[k]
      <4>1. n + 1 \in 1..n + 1 /\ \A k \in 1..n : k \in 1..n + 1
        BY <1>4
      <4> QED
        BY <1>5, <1>7, <3>2, <4>1
    <3> QED
      BY <2>4, <3>2, <3>3
  <2>7. CountedIn(bin)
    BY DEF Counted
  <2> QED
    BY <1>1, <2>5, <2>6, <2>7, CountGoesOn DEF S, T
<1> QED
  BY <1>7, <1>9 DEF Counted

LEMMA CountingStays ==
  ASSUME Counted, UNCHANGED << trace, clusters >>, \A k \in 1..Len(trace) - 1 : k < sample <=> k < sample'
  PROVE  Counted'
<1>1. ASSUME NEW bin \in Bins PROVE CountedIn(bin)'
  <2>1. Members(bin)' = Members(bin) /\ Supports' = Supports
    BY DEF Members, Supports
  <2>2. \A c : CenterSums(c)' = CenterSums(c) /\ Coordinates(c)' = Coordinates(c)
    BY DEF CenterSums, Coordinates
  <2>3. Passed(bin)' = Passed(bin)
    <3>1. Moving(bin)' = Moving(bin) /\ Moving(bin) \in SUBSET (1..Len(trace) - 1)
      BY DEF Moving
    <3> QED
      BY <3>1 DEF Passed
  <2>4. CountedIn(bin)
    BY DEF Counted
  <2> QED
    BY <2>1, <2>2, <2>3, <2>4 DEF CountedIn
<1> QED
  BY <1>1 DEF Counted

\* A drive that nothing was passed of yet.
NothingPassed ==
  /\ trace \in Seq(Places) /\ clusters = << >> /\ sample \in {0, 1} /\ centerline = NoLine
  /\ sample = 0 => trace = << >>

LEMMA NothingCounts ==
  ASSUME NothingPassed
  PROVE  TraceFits /\ clusters \in Clusters /\ Counted
<1>1. TraceFits
  BY DEF NothingPassed, TraceFits
<1>2. clusters \in Clusters /\ Len(clusters) = 0
  BY DEF NothingPassed, Clusters
<1>3. ASSUME NEW bin \in Bins PROVE CountedIn(bin)
  <2>1. Passed(bin) = {}
    <3>1. \A i \in 1..Len(trace) - 1 : ~(i < sample)
      BY <1>1, TraceIs DEF NothingPassed
    <3> QED
      BY <3>1 DEF Passed, Moving
  <2>2. Cardinality(Passed(bin)) = 0
    BY <2>1, FS_EmptySet
  <2>3. \A S, f : IsNumbers(f) /\ Len(f) = 0 => Total(S, f) = 0
    BY TotalOfNothing
  <2>4. Total(Members(bin), Supports) = 0
    <3>1. Supports = SupportsOf(clusters)
      BY DEF Supports, SupportsOf
    <3> QED
      BY <1>2, <2>3, <3>1, SumsAre
  <2>5. ASSUME NEW c \in 1..2 PROVE Total(Members(bin), CenterSums(c)) = Total(Passed(bin), Coordinates(c))
    <3>1. CenterSums(c) = SumsOf(clusters, c)
      BY DEF CenterSums, SumsOf
    <3>2. Total(Members(bin), CenterSums(c)) = 0
      BY <1>2, <2>3, <3>1, SumsAre
    <3>3. IsNumbers(Coordinates(c))
      BY <1>1, TraceIs
    <3>4. \A i \in 1..Len(Coordinates(c)) : Term({}, Coordinates(c), i) = 0
      BY DEF Term
    <3>5. Total(Passed(bin), Coordinates(c)) = 0
      BY <2>1, <3>3, <3>4, TotalOfNothing
    <3> QED
      BY <3>2, <3>5
  <2> QED
    BY <2>2, <2>4, <2>5 DEF CountedIn
<1> QED
  BY <1>1, <1>2, <1>3 DEF Counted

-----------------------------------------------------------------------------
\* The chains of centers.

Edges == centerline.edges
From(e) == Edges[e][1]
To(e) == Edges[e][2]
EdgePairs == Seq(Nat \X Nat)
IsLine == centerline = [edges |-> centerline.edges, intersections |-> centerline.intersections, left |-> centerline.left]

EdgesBetween ==
  \A e \in DOMAIN Edges :
    /\ From(e) \in DOMAIN clusters /\ To(e) \in DOMAIN clusters
    /\ clusters[From(e)].bin = clusters[To(e)].bin /\ clusters[From(e)].bin \notin centerline.left
    /\ NotBehind(From(e), To(e), clusters[From(e)].bin)
EdgesApart == \A e, f \in DOMAIN Edges : e # f => From(e) # From(f) /\ To(e) # To(f)

Joined(bin) == { e \in DOMAIN Edges : From(e) \in Members(bin) }
LinkCount(bin) == Max({ 0, Cardinality(Members(bin)) - 1 })
EdgesCounted ==
  \A bin \in Bins : Cardinality(Joined(bin)) = (IF bin \in centerline.left THEN 0 ELSE LinkCount(bin))

ChainsFit ==
  /\ centerline.left \in SUBSET Bins /\ \A bin \in centerline.left : Members(bin) # {}
  /\ EdgesBetween /\ EdgesApart /\ EdgesCounted

CenterFits ==
  /\ TraceFits /\ clusters \in Clusters /\ Counted
  /\ IsLine /\ Edges \in EdgePairs
  /\ sample <= Len(trace) => Edges = << >> /\ centerline.left = {}
  /\ sample > Len(trace) => ChainsFit

LEMMA MembersAreFinite ==
  ASSUME clusters \in Clusters, NEW bin
  PROVE  /\ Members(bin) \in SUBSET (1..Len(clusters)) /\ IsFiniteSet(Members(bin)) /\ Cardinality(Members(bin)) \in Nat
         /\ Members(bin) = {} <=> Cardinality(Members(bin)) = 0
<1>1. Len(clusters) \in Nat /\ Members(bin) \in SUBSET (1..Len(clusters))
  BY ClustersAre DEF Members
<1>2. IsFiniteSet(1..Len(clusters))
  BY <1>1, FS_Interval
<1>3. IsFiniteSet(Members(bin)) /\ Cardinality(Members(bin)) \in Nat
  BY <1>1, <1>2, PartIsFinite
<1> QED
  BY <1>1, <1>3, FS_EmptySet

LEMMA LinksOf ==
  ASSUME NEW m \in Nat
  PROVE  Max({ 0, m - 1 }) = (IF m = 0 THEN 0 ELSE m - 1)
<1> DEFINE x == IF m = 0 THEN 0 ELSE m - 1
<1>1. x \in { 0, m - 1 } /\ \A y \in { 0, m - 1 } : y \in Int /\ x >= y
  OBVIOUS
<1>2. \A z \in { 0, m - 1 } : (\A y \in { 0, m - 1 } : z >= y) => z = x
  BY <1>1
<1> QED
  BY <1>1, <1>2 DEF Max

LEMMA LineStarts ==
  ASSUME NothingPassed
  PROVE  CenterFits
<1>1. TraceFits /\ clusters \in Clusters /\ Counted
  BY NothingCounts
<1>2. centerline.edges = << >> /\ centerline.left = {} /\ IsLine
  BY DEF NothingPassed, NoLine, IsLine
<1>3. Edges \in EdgePairs /\ DOMAIN Edges = {} /\ Edges = << >>
  BY <1>2 DEF Edges, EdgePairs
<1>4. \A bin : Joined(bin) = {} /\ Members(bin) = {}
  BY <1>3 DEF Joined, Members, NothingPassed
<1>5. ASSUME NEW bin PROVE Cardinality(Joined(bin)) = 0 /\ LinkCount(bin) = 0
  <2>1. Cardinality({}) = 0
    BY FS_EmptySet
  <2>2. LinkCount(bin) = Max({ 0, 0 - 1 })
    BY <1>4, <2>1 DEF LinkCount
  <2>3. Max({ 0, 0 - 1 }) = 0
    BY LinksOf
  <2> QED
    BY <1>4, <2>1, <2>2, <2>3
<1>6. EdgesBetween /\ EdgesApart /\ EdgesCounted
  BY <1>3, <1>5 DEF EdgesBetween, EdgesApart, EdgesCounted
<1> QED
  BY <1>1, <1>2, <1>3, <1>6 DEF CenterFits, ChainsFit

LEMMA GroupingKeeps ==
  ASSUME CenterFits, SkipStanding \/ JoinCluster \/ NewCluster
  PROVE  CenterFits'
<1>1. TraceFits /\ clusters \in Clusters /\ Counted /\ IsLine /\ Edges \in EdgePairs
  BY DEF CenterFits
<1>2. Sampling /\ NextSample /\ centerline' = centerline
  BY DEF SkipStanding, JoinCluster, NewCluster, SameLine
<1>3. Len(trace) \in Nat /\ sample \in Nat /\ sample < Len(trace) /\ sample' = sample + 1 /\ trace' = trace
  BY <1>1, <1>2, TraceIs DEF TraceFits, Sampling, NextSample
<1>4. clusters' \in Clusters /\ Counted'
  <2>1. CASE SkipStanding
    BY <1>1, <2>1, StandingCounts DEF SkipStanding
  <2> QED
    BY <1>1, <2>1, JoiningCounts, NewGroupCounts
<1>5. Edges = << >> /\ centerline.left = {}
  BY <1>3 DEF CenterFits
<1>6. sample' <= Len(trace') /\ TraceFits'
  BY <1>1, <1>3 DEF TraceFits
<1>7. ~(sample' > Len(trace'))
  BY <1>3
<1>8. Edges' = Edges /\ centerline'.left = centerline.left /\ IsLine'
  BY <1>1, <1>2 DEF Edges, IsLine
<1> QED
  BY <1>1, <1>4, <1>5, <1>6, <1>7, <1>8 DEF CenterFits

\* Now every direction that has groups is left to be joined.
LEMMA MarkingKeeps ==
  ASSUME CenterFits, MarkIntersections
  PROVE  CenterFits'
<1>1. TraceFits /\ clusters \in Clusters /\ Counted /\ IsLine /\ Edges \in EdgePairs
  BY DEF CenterFits
<1>2. /\ sample' = sample + 1 /\ trace' = trace /\ clusters' = clusters /\ sample >= 1 /\ sample = Len(trace)
      /\ centerline' = [centerline EXCEPT !.intersections = Crossings, !.left = { c.bin : c \in ToSet(clusters) }]
  BY DEF MarkIntersections, NextSample
<1>3. Len(trace) \in Nat /\ sample \in Nat
  BY <1>1, TraceIs DEF TraceFits
<1> DEFINE bins == { c.bin : c \in ToSet(clusters) }
<1>4. centerline' = [edges |-> << >>, intersections |-> Crossings, left |-> bins]
  <2>1. centerline.edges = << >>
    BY <1>2, <1>3 DEF CenterFits, Edges
  <2> HIDE DEF bins
  <2> QED
    BY <1>1, <1>2, <2>1 DEF IsLine, bins
<1>5. centerline'.edges = << >> /\ centerline'.left = bins /\ IsLine'
  <2> HIDE DEF bins
  <2> QED
    BY <1>4 DEF IsLine
<1>6. \A b : b \in bins <=> Members(b)' # {}
  <2>1. DOMAIN clusters = 1..Len(clusters)
    BY <1>1, ClustersAre
  <2>2. \A b : b \in bins <=> \E i \in DOMAIN clusters : clusters[i].bin = b
    BY DEF ToSet
  <2> QED
    BY <1>2, <2>2 DEF Members
<1>7. bins \in SUBSET Bins
  <2>1. \A i \in DOMAIN clusters : clusters[i].bin \in Bins
    BY <1>1, ClustersAre
  <2> QED
    BY <2>1 DEF ToSet
<1> HIDE DEF bins
<1>8. Edges' = << >> /\ DOMAIN Edges' = {} /\ Edges' \in EdgePairs
  BY <1>5 DEF Edges, EdgePairs
<1>9. (EdgesBetween /\ EdgesApart)'
  BY <1>8 DEF EdgesBetween, EdgesApart
<1>10. EdgesCounted'
  <2> SUFFICES ASSUME NEW b \in Bins
               PROVE  Cardinality(Joined(b)') = (IF b \in centerline'.left THEN 0 ELSE LinkCount(b)')
    BY DEF EdgesCounted
  <2>1. Joined(b)' = {} /\ Cardinality({}) = 0
    BY <1>8, FS_EmptySet DEF Joined
  <2>2. CASE b \notin bins
    <3>1. Members(b)' = {}
      BY <1>6, <2>2
    <3>2. LinkCount(b)' = 0
      BY <2>1, <3>1, LinksOf DEF LinkCount
    <3> QED
      BY <2>1, <3>2
  <2> QED
    BY <1>5, <2>1, <2>2
<1>11. ChainsFit'
  BY <1>5, <1>6, <1>7, <1>9, <1>10 DEF ChainsFit
<1>12. TraceFits' /\ ~(sample' <= Len(trace'))
  BY <1>1, <1>2, <1>3 DEF TraceFits
<1>13. Counted'
  <2>1. \A k \in 1..Len(trace) - 1 : k < sample <=> k < sample'
    BY <1>2, <1>3
  <2> QED
    BY <1>1, <1>2, <2>1, CountingStays
<1> QED
  BY <1>1, <1>2, <1>5, <1>8, <1>11, <1>12, <1>13 DEF CenterFits
LEMMA ListsJoined ==
  ASSUME NEW X, NEW a \in Seq(X), NEW b \in Seq(X)
  PROVE  /\ a \o b \in Seq(X) /\ Len(a \o b) = Len(a) + Len(b) /\ DOMAIN (a \o b) = 1..Len(a) + Len(b)
         /\ \A i \in 1..Len(a) : (a \o b)[i] = a[i]
         /\ \A k \in 1..Len(b) : (a \o b)[Len(a) + k] = b[k]
<1>1. a \o b \in Seq(X) /\ Len(a \o b) = Len(a) + Len(b)
  OBVIOUS
<1>2. DOMAIN (a \o b) = 1..Len(a) + Len(b)
  BY <1>1
<1>3. \A i \in 1..Len(a) : (a \o b)[i] = a[i]
  OBVIOUS
<1>4. \A k \in 1..Len(b) : (a \o b)[Len(a) + k] = b[k]
  OBVIOUS
<1> QED
  BY <1>1, <1>2, <1>3, <1>4

LEMMA JoiningBinKeeps ==
  ASSUME CenterFits, ConnectBin
  PROVE  CenterFits'
<1> DEFINE n == Len(Edges)
           m == Len(clusters)
<1>1. TraceFits /\ clusters \in Clusters /\ Counted /\ IsLine /\ Edges \in EdgePairs
  BY DEF CenterFits
<1>2. PICK g, s :
        /\ g \in centerline.left /\ s \in Orders(g)
        /\ centerline' = [centerline EXCEPT !.edges = @ \o Chain(s), !.left = @ \ {g}]
        /\ UNCHANGED << trace, sample, clusters >>
  BY DEF ConnectBin
<1>3. ChainsFit /\ sample > Len(trace)
  BY <1>1, <1>2, TraceIs DEF CenterFits, TraceFits
<1>4. g \in Bins /\ Members(g) # {} /\ centerline.left \in SUBSET Bins
  BY <1>2, <1>3 DEF ChainsFit
<1> DEFINE M == Members(g)
           q == Cardinality(M)
<1>5. M \in SUBSET (1..m) /\ q \in Nat /\ q # 0 /\ m \in Nat
  BY <1>1, <1>4, MembersAreFinite, ClustersAre
<1>6. /\ s \in [1..q -> M] /\ \A i, k \in 1..q : i # k => s[i] # s[k]
      /\ \A i, k \in DOMAIN s : i < k => NotBehind(s[i], s[k], g)
  BY <1>2 DEF Orders, SetToSeqs
<1> HIDE DEF M, q
<1>7. Len(s) = q /\ DOMAIN s = 1..q
  BY <1>5, <1>6
<1> DEFINE t == Chain(s)
           h == Edges \o t
<1>8. t = [k \in 1..q - 1 |-> << s[k], s[k + 1] >>]
  BY <1>7 DEF Chain
<1>9. \A k \in 1..q - 1 : k \in 1..q /\ k + 1 \in 1..q /\ k < k + 1 /\ s[k] \in M /\ s[k + 1] \in M
  BY <1>5, <1>6
<1>10. t \in EdgePairs /\ Len(t) = q - 1
  <2>1. \A k \in 1..q - 1 : << s[k], s[k + 1] >> \in Nat \X Nat
    <3>1. \A i \in M : i \in Nat
      BY <1>5
    <3>2. \A k \in 1..q - 1 : s[k] \in Nat /\ s[k + 1] \in Nat
      BY <1>9, <3>1
    <3> QED
      BY <3>2
  <2>2. q - 1 \in Nat
    BY <1>5
  <2> DEFINE r == q - 1
  <2>3. t \in [1..r -> Nat \X Nat] /\ r \in Nat
    BY <1>8, <2>1, <2>2
  <2> HIDE DEF r, t
  <2>4. t \in Seq(Nat \X Nat) /\ Len(t) = r
    BY <2>3
  <2> QED
    BY <2>4 DEF r, EdgePairs
<1> HIDE DEF t
<1>11. n \in Nat /\ DOMAIN Edges = 1..n
  BY <1>1 DEF EdgePairs
<1>12. /\ h \in EdgePairs /\ Len(h) = n + (q - 1) /\ DOMAIN h = 1..n + (q - 1)
       /\ \A e \in 1..n : h[e] = Edges[e]
       /\ \A k \in 1..q - 1 : h[n + k] = t[k]
  <2> DEFINE E == Edges
  <2> HIDE DEF E
  <2>1. E \in EdgePairs
    BY <1>1 DEF E
  <2>2. /\ E \o t \in EdgePairs /\ Len(E \o t) = Len(E) + Len(t) /\ DOMAIN (E \o t) = 1..Len(E) + Len(t)
        /\ \A e \in 1..Len(E) : (E \o t)[e] = E[e]
        /\ \A k \in 1..Len(t) : (E \o t)[Len(E) + k] = t[k]
    <3> DEFINE P == Nat \X Nat
    <3>1. E \in Seq(P) /\ t \in Seq(P) /\ EdgePairs = Seq(P)
      BY <1>10, <2>1 DEF EdgePairs
    <3> HIDE DEF P
    <3> QED
      BY <3>1, ListsJoined
  <2> QED
    BY <1>10, <2>2 DEF E
<1>13. /\ centerline'.edges = h /\ centerline'.left = centerline.left \ {g} /\ IsLine'
  <2>1. centerline' = [edges |-> h, intersections |-> centerline.intersections, left |-> centerline.left \ {g}]
    BY <1>1, <1>2 DEF IsLine, Edges, t
  <2> HIDE DEF h
  <2> QED
    BY <2>1 DEF IsLine
<1>14. Edges' = h
  BY <1>13 DEF Edges
<1> HIDE DEF h
\* The edges are those that were there and those along the chain.
<1>15. ASSUME NEW e \in DOMAIN h
       PROVE  \/ e \in 1..n /\ From(e)' = From(e) /\ To(e)' = To(e)
              \/ \E k \in 1..q - 1 : e = n + k /\ From(e)' = s[k] /\ To(e)' = s[k + 1]
  <2>1. From(e)' = h[e][1] /\ To(e)' = h[e][2]
    BY <1>14 DEF From, To
  <2>2. CASE e \in 1..n
    BY <1>12, <2>1, <2>2 DEF From, To
  <2>3. CASE e \notin 1..n
    <3>1. e - n \in 1..q - 1 /\ e = n + (e - n)
      BY <1>5, <1>11, <1>12, <2>3
    <3>2. PICK k \in 1..q - 1 : e = n + k
      BY <3>1
    <3>3. h[e] = << s[k], s[k + 1] >>
      BY <1>8, <1>12, <3>2
    <3> QED
      BY <2>1, <3>2, <3>3
  <2> QED
    BY <2>2, <2>3
<1>16. \A b : Members(b)' = Members(b)
  BY <1>2 DEF Members
<1>17. \A i \in M : i \in DOMAIN clusters /\ clusters[i].bin = g
  BY DEF M, Members
<1>18. ASSUME NEW e \in 1..n PROVE From(e) \notin M /\ To(e) \notin M
  BY <1>2, <1>3, <1>11, <1>17 DEF ChainsFit, EdgesBetween
<1>19. EdgesBetween'
  <2> SUFFICES ASSUME NEW e \in DOMAIN h
               PROVE  /\ From(e)' \in DOMAIN clusters /\ To(e)' \in DOMAIN clusters
                      /\ clusters[From(e)'].bin = clusters[To(e)'].bin
                      /\ clusters[From(e)'].bin \notin centerline'.left
                      /\ NotBehind(From(e)', To(e)', clusters[From(e)'].bin)
    <3>1. \A i, k, b : NotBehind(i, k, b)' <=> NotBehind(i, k, b)
      BY <1>2 DEF NotBehind, Along
    <3> QED
      BY <1>2, <1>14, <3>1 DEF EdgesBetween
  <2>1. CASE e \in 1..n /\ From(e)' = From(e) /\ To(e)' = To(e)
    BY <1>3, <1>11, <1>13, <2>1 DEF ChainsFit, EdgesBetween
  <2>2. CASE \E k \in 1..q - 1 : e = n + k /\ From(e)' = s[k] /\ To(e)' = s[k + 1]
    <3>1. PICK k \in 1..q - 1 : From(e)' = s[k] /\ To(e)' = s[k + 1]
      BY <2>2
    <3>2. NotBehind(s[k], s[k + 1], g)
      BY <1>6, <1>7, <1>9
    <3>3. /\ s[k] \in DOMAIN clusters /\ s[k + 1] \in DOMAIN clusters
          /\ clusters[s[k]].bin = g /\ clusters[s[k + 1]].bin = g
      BY <1>9, <1>17
    <3> QED
      BY <1>13, <3>1, <3>2, <3>3
  <2> QED
    BY <1>15, <2>1, <2>2
<1>20. EdgesApart'
  <2> SUFFICES ASSUME NEW e \in DOMAIN h, NEW f \in DOMAIN h, e # f
               PROVE  From(e)' # From(f)' /\ To(e)' # To(f)'
    BY <1>14 DEF EdgesApart
  <2> DEFINE Old(x) == x \in 1..n /\ From(x)' = From(x) /\ To(x)' = To(x)
             New(x) == \E k \in 1..q - 1 : x = n + k /\ From(x)' = s[k] /\ To(x)' = s[k + 1]
  <2>1. ASSUME NEW x, NEW y, Old(x), Old(y), x # y PROVE From(x)' # From(y)' /\ To(x)' # To(y)'
    BY <1>3, <1>11, <2>1 DEF ChainsFit, EdgesApart
  <2>2. ASSUME NEW x, NEW y, Old(x), New(y) PROVE From(x)' # From(y)' /\ To(x)' # To(y)'
    <3>1. PICK k \in 1..q - 1 : From(y)' = s[k] /\ To(y)' = s[k + 1]
      BY <2>2
    <3> QED
      BY <1>9, <1>18, <2>2, <3>1
  <2>3. ASSUME NEW x, NEW y, New(x), New(y), x # y PROVE From(x)' # From(y)' /\ To(x)' # To(y)'
    <3>1. PICK k \in 1..q - 1 : x = n + k /\ From(x)' = s[k] /\ To(x)' = s[k + 1]
      BY <2>3
    <3>2. PICK l \in 1..q - 1 : y = n + l /\ From(y)' = s[l] /\ To(y)' = s[l + 1]
      BY <2>3
    <3>3. k # l /\ k + 1 # l + 1
      BY <1>5, <2>3, <3>1, <3>2
    <3> QED
      BY <1>6, <1>9, <3>1, <3>2, <3>3
  <2>4. (Old(e) \/ New(e)) /\ (Old(f) \/ New(f))
    BY <1>15
  <2> HIDE DEF Old, New
  <2> QED
    BY <2>1, <2>2, <2>3, <2>4
<1>21. EdgesCounted'
  <2> SUFFICES ASSUME NEW b \in Bins
               PROVE  Cardinality(Joined(b)') = (IF b \in centerline'.left THEN 0 ELSE LinkCount(b)')
    BY DEF EdgesCounted
  <2>1. LinkCount(b)' = LinkCount(b)
    BY <1>16 DEF LinkCount
  <2>2. Joined(b) = { e \in 1..n : From(e) \in Members(b) }
    BY <1>11 DEF Joined
  <2>3. Joined(b)' = { e \in DOMAIN h : From(e)' \in Members(b) }
    BY <1>14, <1>16 DEF Joined
  <2>4. CASE b = g
    <3>1. Joined(b)' = n + 1 .. n + (q - 1)
      <4>1. ASSUME NEW e \in DOMAIN h PROVE From(e)' \in M <=> e \in n + 1 .. n + (q - 1)
        <5>1. CASE e \in 1..n /\ From(e)' = From(e)
          BY <1>11, <1>18, <5>1
        <5>2. CASE \E k \in 1..q - 1 : e = n + k /\ From(e)' = s[k]
          BY <1>5, <1>9, <1>11, <5>2
        <5> QED
          BY <1>15, <5>1, <5>2
      <4>2. n + 1 .. n + (q - 1) \in SUBSET (DOMAIN h)
        BY <1>11, <1>12
      <4> QED
        BY <2>3, <2>4, <4>1, <4>2 DEF M
    <3>2. Cardinality(n + 1 .. n + (q - 1)) = q - 1
      <4> DEFINE a == n + 1
                 z == n + (q - 1)
      <4>1. a \in Int /\ z \in Int /\ (IF a > z THEN 0 ELSE z - a + 1) = q - 1
        BY <1>5, <1>11
      <4> HIDE DEF a, z
      <4>2. Cardinality(a..z) = (IF a > z THEN 0 ELSE z - a + 1)
        BY <4>1, FS_Interval
      <4> QED
        BY <4>1, <4>2 DEF a, z
    <3>3. LinkCount(b) = q - 1
      <4>1. LinkCount(b) = Max({ 0, q - 1 })
        BY <2>4 DEF LinkCount, q, M
      <4> QED
        BY <1>5, <4>1, LinksOf
    <3> QED
      BY <1>13, <2>1, <2>4, <3>1, <3>2, <3>3
  <2>5. CASE b # g
    <3>1. Members(b) \cap M = {}
      BY <2>5 DEF M, Members
    <3>2. Joined(b)' = Joined(b)
      <4>1. ASSUME NEW e \in DOMAIN h PROVE From(e)' \in Members(b) <=> e \in 1..n /\ From(e) \in Members(b)
        <5>1. CASE e \in 1..n /\ From(e)' = From(e)
          BY <5>1
        <5>2. CASE \E k \in 1..q - 1 : e = n + k /\ From(e)' = s[k]
          BY <1>5, <1>9, <1>11, <3>1, <5>2
        <5> QED
          BY <1>15, <5>1, <5>2
      <4>2. 1..n \in SUBSET (DOMAIN h)
        BY <1>5, <1>11, <1>12
      <4> QED
        BY <2>2, <2>3, <4>1, <4>2
    <3>3. Cardinality(Joined(b)) = (IF b \in centerline.left THEN 0 ELSE LinkCount(b))
      BY <1>3 DEF ChainsFit, EdgesCounted
    <3> QED
      BY <1>13, <2>1, <2>5, <3>2, <3>3
  <2> QED
    BY <2>4, <2>5
<1>22. ChainsFit'
  <2>1. centerline'.left \in SUBSET Bins /\ \A b \in centerline'.left : Members(b)' # {}
    BY <1>3, <1>13, <1>16 DEF ChainsFit
  <2> QED
    BY <1>19, <1>20, <1>21, <2>1 DEF ChainsFit
<1>23. (TraceFits /\ clusters \in Clusters /\ Counted)'
  BY <1>1, <1>2, CountingStays DEF TraceFits
<1>24. Edges' \in EdgePairs /\ ~(sample' <= Len(trace'))
  <2>1. Len(trace) \in Nat /\ sample \in Nat
    BY <1>1, TraceIs DEF TraceFits
  <2> QED
    BY <1>2, <1>3, <1>12, <1>14, <2>1
<1> QED
  BY <1>13, <1>22, <1>23, <1>24 DEF CenterFits

LEMMA CenterStep ==
  ASSUME CenterFits, CenterlineNext
  PROVE  CenterFits'
BY GroupingKeeps, MarkingKeeps, JoiningBinKeeps DEF CenterlineNext

LEMMA CenterStays ==
  ASSUME CenterFits, UNCHANGED centerlineVars
  PROVE  CenterFits'
<1>1. UNCHANGED << trace, sample, clusters >> /\ centerline' = centerline
  BY DEF centerlineVars
<1>2. Counted'
  BY <1>1, CountingStays DEF CenterFits
<1>3. Edges' = Edges /\ (IsLine' <=> IsLine) /\ \A b : Members(b)' = Members(b)
  BY <1>1 DEF Edges, IsLine, Members
<1>4. ChainsFit' <=> ChainsFit
  <2>1. \A e : From(e)' = From(e) /\ To(e)' = To(e)
    BY <1>3 DEF From, To
  <2>2. \A i, k, b : NotBehind(i, k, b)' <=> NotBehind(i, k, b)
    BY <1>1 DEF NotBehind, Along
  <2>3. \A b : Joined(b)' = Joined(b) /\ LinkCount(b)' = LinkCount(b)
    BY <1>3, <2>1 DEF Joined, LinkCount
  <2>4. EdgesBetween' <=> EdgesBetween
    BY <1>1, <1>3, <2>1, <2>2 DEF EdgesBetween
  <2>5. EdgesApart' <=> EdgesApart
    BY <1>3, <2>1 DEF EdgesApart
  <2>6. EdgesCounted' <=> EdgesCounted
    BY <1>1, <2>3 DEF EdgesCounted
  <2> QED
    BY <1>1, <1>3, <2>4, <2>5, <2>6 DEF ChainsFit
<1> QED
  BY <1>1, <1>2, <1>3, <1>4 DEF CenterFits, TraceFits

\* Once all are joined, nothing is left out.
LEMMA CenterIsSound ==
  ASSUME CenterFits
  PROVE  CenterlineIsSound
<1> SUFFICES ASSUME sample > Len(trace), centerline.left = {}
             PROVE  /\ \A bin \in Bins :
                         /\ Total(Members(bin), Supports) = Cardinality(Moving(bin))
                         /\ \A c \in 1..2 : Total(Members(bin), CenterSums(c)) = Total(Moving(bin), Coordinates(c))
                         /\ Cardinality(Joined(bin)) = LinkCount(bin)
                    /\ \A e \in DOMAIN Edges :
                         /\ clusters[From(e)].bin = clusters[To(e)].bin
                         /\ NotBehind(From(e), To(e), clusters[From(e)].bin)
                         /\ \A f \in DOMAIN Edges \ {e} : From(f) # From(e) /\ To(f) # To(e)
  BY DEF CenterlineIsSound, Joined, LinkCount, From, To, Edges
<1>1. TraceFits /\ Counted /\ ChainsFit
  BY DEF CenterFits
<1>2. ASSUME NEW bin \in Bins
      PROVE  /\ Total(Members(bin), Supports) = Cardinality(Moving(bin))
             /\ \A c \in 1..2 : Total(Members(bin), CenterSums(c)) = Total(Moving(bin), Coordinates(c))
             /\ Cardinality(Joined(bin)) = LinkCount(bin)
  <2>1. Passed(bin) = Moving(bin)
    <3>1. Moving(bin) \in SUBSET (1..Len(trace) - 1)
      BY DEF Moving
    <3>2. \A i \in 1..Len(trace) - 1 : i < sample
      BY <1>1, TraceIs DEF TraceFits
    <3> QED
      BY <3>1, <3>2 DEF Passed
  <2>2. CountedIn(bin)
    BY <1>1 DEF Counted
  <2>3. Cardinality(Joined(bin)) = LinkCount(bin)
    BY <1>1 DEF ChainsFit, EdgesCounted
  <2> QED
    BY <2>1, <2>2, <2>3 DEF CountedIn
<1>3. ASSUME NEW e \in DOMAIN Edges
      PROVE  /\ clusters[From(e)].bin = clusters[To(e)].bin
             /\ NotBehind(From(e), To(e), clusters[From(e)].bin)
             /\ \A f \in DOMAIN Edges \ {e} : From(f) # From(e) /\ To(f) # To(e)
  BY <1>1 DEF ChainsFit, EdgesBetween, EdgesApart
<1> QED
  BY <1>2, <1>3

\* The drive, and the line that is made of it.
CenterInv == DriveInv /\ CenterFits

LEMMA CenterKeeps == CenterInv /\ [WorkflowNext]_workflowVars => CenterInv'
<1> SUFFICES ASSUME CenterInv, [WorkflowNext]_workflowVars PROVE CenterInv'
  OBVIOUS
<1>1. DriveInv /\ CenterFits
  BY DEF CenterInv
<1>2. DriveInv'
  <2>1. CASE UNCHANGED workflowVars
    BY <1>1, <2>1, DriveStep DEF workflowVars
  <2> QED
    BY <1>1, <2>1, DriveGoesOn
<1>3. CASE UNCHANGED centerlineVars
  BY <1>1, <1>2, <1>3, CenterStays DEF CenterInv
<1>4. CASE CenterlineStep
  <2>1. CASE CenterlineNext
    BY <1>1, <1>2, <2>1, CenterStep DEF CenterInv
  <2>2. CASE StartCenterline(DrivePositions)
    <3> DEFINE d == DrivePositions
    <3>1. IsList(d) /\ \A i \in 1..Len(d) : d[i] \in Int \X Int
      BY <1>1, DriveHasPlaces
    <3>2. trace' = d /\ clusters' = << >> /\ sample' = 1 /\ centerline' = NoLine
      BY <2>2 DEF StartCenterline
    <3> HIDE DEF d
    <3>3. d \in Seq(Places)
      <4>1. d \in [1..Len(d) -> Places] /\ Len(d) \in Nat
        BY <3>1 DEF IsList, Places
      <4> QED
        BY <4>1
    <3>4. NothingPassed'
      BY <3>2, <3>3 DEF NothingPassed, NoLine
    <3>5. CenterFits'
      BY <3>4, LineStarts, PTL
    <3> QED
      BY <1>2, <3>5 DEF CenterInv
  <2> QED
    BY <1>4, <2>1, <2>2 DEF CenterlineStep
<1>5. CASE WorkflowNext
  <2>1. CenterlineStep \/ UNCHANGED centerlineVars
    BY <1>5 DEF WorkflowNext, LoadStep, OxtsLoaded, ImportStep, SearchStep, Baseline, MatchStep, Report
  <2> QED
    BY <1>3, <1>4, <2>1
<1>6. CASE UNCHANGED workflowVars
  BY <1>3, <1>6 DEF workflowVars
<1> QED
  BY <1>5, <1>6

\* Whatever drive a center line is made of: every position that the drive moved on from is
\* in one group of its direction, and the groups of a direction are one chain of edges, none
\* of which leads backwards.
THEOREM CenterlinesAreSound == WorkflowSpec => []CenterlineIsSound
<1>1. WorkflowInit => CenterInv
  <2> SUFFICES ASSUME WorkflowInit PROVE CenterInv
    OBVIOUS
  <2>1. SequenceInit /\ CenterlineInit
    BY DEF WorkflowInit
  <2>2. NothingPassed
    BY <2>1 DEF CenterlineInit, NothingPassed
  <2> QED
    BY <2>1, <2>2, DriveInitial, LineStarts DEF CenterInv
<1>2. CenterInv /\ [WorkflowNext]_workflowVars => CenterInv'
  BY CenterKeeps
<1>3. CenterInv => CenterlineIsSound
  BY CenterIsSound DEF CenterInv
<1> QED
  BY <1>1, <1>2, <1>3, PTL DEF WorkflowSpec

-----------------------------------------------------------------------------
\* The order of a sample.

IsSample(d) == IsList(d) /\ \A i \in 1..Len(d) : d[i] \in Nat

\* The places of the entries that are not below x.
UpFrom(d, x) == { i \in DOMAIN d : d[i] >= x }

LEMMA PlacesOf ==
  ASSUME NEW n \in Nat
  PROVE  IsFiniteSet(1..n) /\ Cardinality(1..n) = n
BY FS_Interval

LEMMA PartsOfSample ==
  ASSUME NEW d, IsSample(d), NEW x \in Int
  PROVE  /\ Len(d) \in Nat /\ DOMAIN d = 1..Len(d) /\ ToSet(d) \in SUBSET Nat
         /\ IsFiniteSet(UpTo(d, x)) /\ Cardinality(UpTo(d, x)) \in 0..Len(d)
         /\ IsFiniteSet(UpFrom(d, x)) /\ Cardinality(UpFrom(d, x)) \in 0..Len(d)
<1>1. Len(d) \in Nat /\ DOMAIN d = 1..Len(d) /\ \A i \in 1..Len(d) : d[i] \in Nat
  BY ListGrows DEF IsSample, IsList
<1>2. ToSet(d) \in SUBSET Nat
  BY <1>1 DEF ToSet
<1>3. IsFiniteSet(1..Len(d)) /\ Cardinality(1..Len(d)) = Len(d)
  BY <1>1, PlacesOf
<1>4. ASSUME NEW S \in SUBSET (1..Len(d)) PROVE IsFiniteSet(S) /\ Cardinality(S) \in 0..Len(d)
  <2>1. IsFiniteSet(S) /\ Cardinality(S) <= Len(d)
    BY <1>3, FS_Subset
  <2> QED
    BY <1>1, <2>1, FS_CardinalityType
<1>5. UpTo(d, x) \in SUBSET (1..Len(d)) /\ UpFrom(d, x) \in SUBSET (1..Len(d))
  BY <1>1 DEF UpTo, UpFrom
<1> QED
  BY <1>1, <1>2, <1>4, <1>5

LEMMA PartsGrow ==
  ASSUME NEW d, IsSample(d), NEW x \in Int, NEW y \in Int, x <= y
  PROVE  /\ Cardinality(UpTo(d, x)) <= Cardinality(UpTo(d, y))
         /\ Cardinality(UpFrom(d, y)) <= Cardinality(UpFrom(d, x))
<1>1. \A i \in DOMAIN d : d[i] \in Nat
  BY PartsOfSample DEF IsSample
<1>2. UpTo(d, x) \in SUBSET UpTo(d, y) /\ UpFrom(d, y) \in SUBSET UpFrom(d, x)
  BY <1>1 DEF UpTo, UpFrom
<1>3. IsFiniteSet(UpTo(d, y)) /\ IsFiniteSet(UpFrom(d, x))
  BY PartsOfSample
<1> QED
  BY <1>2, <1>3, FS_Subset

\* At least k entries are not above the k-th one, and all but k - 1 are not below it.
LEMMA OrderedFits ==
  ASSUME NEW d, IsSample(d), NEW k \in 1..Len(d), NEW v, v = Ordered(d)[k]
  PROVE  /\ v \in ToSet(d) /\ v \in Nat
         /\ Cardinality(UpTo(d, v)) >= k
         /\ Cardinality(UpFrom(d, v)) >= Len(d) - k + 1
<1> DEFINE n == Len(d)
           S == { x \in ToSet(d) : Cardinality(UpTo(d, x)) >= k }
<1>1. n \in Nat /\ DOMAIN d = 1..n /\ (\A i \in 1..n : d[i] \in Nat) /\ ToSet(d) \in SUBSET Nat /\ n >= 1
  <2>1. 0 \in Int
    OBVIOUS
  <2> QED
    BY <2>1, PartsOfSample DEF IsSample
<1>2. v = Min(S)
  BY <1>1 DEF Ordered
<1>3. S # {}
  <2>1. PICK j \in 1..n : \A i \in 1..n : d[i] <= d[j]
    <3>1. \A i \in 1..n : d[i] \in Int
      BY <1>1
    <3> QED
      BY <1>1, <3>1, GreatestOf
  <2>2. UpTo(d, d[j]) = 1..n
    BY <1>1, <2>1 DEF UpTo
  <2>3. Cardinality(UpTo(d, d[j])) = n
    BY <1>1, <2>2, PlacesOf
  <2>4. d[j] \in ToSet(d)
    BY <1>1 DEF ToSet
  <2>5. n >= k
    BY <1>1
  <2>6. d[j] \in S
    BY <2>3, <2>4, <2>5
  <2> QED
    BY <2>6
<1>4. S \in SUBSET Nat
  BY <1>1
<1>5. v \in S /\ \A x \in S : v <= x
  <2> HIDE DEF S
  <2> QED
    BY <1>2, <1>3, <1>4, MinIsLeast
<1>6. v \in ToSet(d) /\ v \in Nat /\ Cardinality(UpTo(d, v)) >= k
  BY <1>1, <1>5
<1> DEFINE below == { i \in 1..n : d[i] < v }
<1>7. IsFiniteSet(below) /\ Cardinality(below) \in Nat /\ Cardinality(below) < k
  <2>1. IsFiniteSet(1..n)
    BY <1>1, PlacesOf
  <2>2. below \in SUBSET (1..n)
    OBVIOUS
  <2> HIDE DEF below
  <2>3. IsFiniteSet(below) /\ Cardinality(below) \in Nat
    BY <2>1, <2>2, FS_Subset, FS_CardinalityType
  <2>4. CASE below = {}
    BY <2>3, <2>4, FS_EmptySet
  <2>5. CASE below # {}
    <3> DEFINE f == [i \in 1..n |-> IF i \in below THEN d[i] ELSE -1]
    <3>1. \A i \in 1..n : f[i] \in Int
      BY <1>1
    <3>2. PICK j \in 1..n : \A i \in 1..n : f[i] <= f[j]
      <4> HIDE DEF f
      <4> QED
        BY <1>1, <3>1, GreatestOf
    <3>3. PICK b \in below : TRUE
      BY <2>5
    <3>4. f[b] >= 0 /\ b \in 1..n
      BY <1>1, <2>2, <3>3
    <3>5. j \in below
      <4> SUFFICES ASSUME j \notin below PROVE FALSE
        OBVIOUS
      <4>1. f[j] = -1 /\ f[b] <= f[j] /\ f[b] \in Int
        BY <3>1, <3>2, <3>4
      <4> QED
        BY <3>4, <4>1
    <3>6. \A i \in below : d[i] <= d[j]
      BY <2>2, <3>2, <3>5
    <3>7. below \in SUBSET UpTo(d, d[j])
      BY <1>1, <2>2, <3>6 DEF UpTo
    <3>8. d[j] \in Nat /\ d[j] < v /\ d[j] \in ToSet(d)
      BY <1>1, <3>5 DEF below, ToSet
    <3>9. Cardinality(below) <= Cardinality(UpTo(d, d[j])) /\ Cardinality(UpTo(d, d[j])) \in Nat
      <4>1. IsFiniteSet(UpTo(d, d[j])) /\ Cardinality(UpTo(d, d[j])) \in 0..Len(d)
        <5>1. d[j] \in Int
          BY <3>8
        <5> QED
          BY <5>1, PartsOfSample
      <4> QED
        BY <3>7, <4>1, FS_Subset
    <3>10. ~(Cardinality(UpTo(d, d[j])) >= k)
      <4> SUFFICES ASSUME Cardinality(UpTo(d, d[j])) >= k PROVE FALSE
        OBVIOUS
      <4>1. d[j] \in S
        BY <3>8
      <4>2. v <= d[j]
        BY <1>5, <4>1
      <4> QED
        BY <1>6, <3>8, <4>2
    <3> QED
      BY <2>3, <3>9, <3>10
  <2> QED
    BY <2>3, <2>4, <2>5
<1>8. Cardinality(UpFrom(d, v)) = n - Cardinality(below)
  <2>1. IsFiniteSet(UpFrom(d, v)) /\ Cardinality(UpFrom(d, v)) \in 0..n
    <3>1. v \in Int
      BY <1>6
    <3> QED
      BY <3>1, PartsOfSample
  <2>2. 1..n = UpFrom(d, v) \cup below /\ UpFrom(d, v) \cap below = {}
    BY <1>1, <1>6 DEF UpFrom
  <2> HIDE DEF below
  <2>3. Cardinality(1..n) = Cardinality(UpFrom(d, v)) + Cardinality(below) - Cardinality(UpFrom(d, v) \cap below)
    BY <1>7, <2>1, <2>2, FS_Union
  <2>4. Cardinality(1..n) = n
    BY <1>1, PlacesOf
  <2>5. Cardinality(UpFrom(d, v) \cap below) = 0
    BY <2>2, FS_EmptySet
  <2> QED
    BY <1>1, <1>7, <2>1, <2>3, <2>4, <2>5
<1> HIDE DEF below
<1>9. Cardinality(UpFrom(d, v)) >= n - k + 1
  BY <1>1, <1>7, <1>8
<1> QED
  BY <1>6, <1>9

LEMMA OrderedGrows ==
  ASSUME NEW d, IsSample(d), NEW j \in 1..Len(d), NEW k \in 1..Len(d), j <= k
  PROVE  Ordered(d)[j] <= Ordered(d)[k]
<1> DEFINE S == { x \in ToSet(d) : Cardinality(UpTo(d, x)) >= j }
           v == Ordered(d)[k]
<1>1. DOMAIN d = 1..Len(d) /\ ToSet(d) \in SUBSET Nat
  <2>1. 0 \in Int
    OBVIOUS
  <2> QED
    BY <2>1, PartsOfSample
<1>2. Ordered(d)[j] = Min(S)
  BY <1>1 DEF Ordered
<1>3. v \in ToSet(d) /\ v \in Nat /\ Cardinality(UpTo(d, v)) >= k
  BY OrderedFits
<1> HIDE DEF v
<1>4. Cardinality(UpTo(d, v)) \in Int
  BY <1>3, PartsOfSample
<1>5. v \in S
  BY <1>3, <1>4
<1>6. S \in SUBSET Nat
  BY <1>1
<1> HIDE DEF S
<1>7. Min(S) <= v
  BY <1>5, <1>6, MinIsLeast
<1> QED
  BY <1>2, <1>7 DEF v

-----------------------------------------------------------------------------
\* The percentiles of a sample.

\* Half of the entries are not above entry k, and half not below entry l.
LEMMA HalvesFit ==
  ASSUME NEW d, IsSample(d), NEW x \in Int, NEW k \in 1..Len(d), NEW l \in 1..Len(d),
         2 * k >= Len(d), 2 * (Len(d) - l + 1) >= Len(d),
         100 * Ordered(d)[k] <= x, x <= 100 * Ordered(d)[l]
  PROVE  HalfAround(d, x)
<1> DEFINE v == Ordered(d)[k]
           w == Ordered(d)[l]
           low == { i \in DOMAIN d : 100 * d[i] <= x }
           high == { i \in DOMAIN d : 100 * d[i] >= x }
<1>1. v \in Nat /\ Cardinality(UpTo(d, v)) >= k /\ w \in Nat /\ Cardinality(UpFrom(d, w)) >= Len(d) - l + 1
  BY OrderedFits
<1>2. 100 * v <= x /\ x <= 100 * w
  OBVIOUS
<1> HIDE DEF v, w
<1>3. /\ Len(d) \in Nat /\ DOMAIN d = 1..Len(d)
      /\ Cardinality(UpTo(d, v)) \in Nat /\ Cardinality(UpFrom(d, w)) \in Nat
  BY <1>1, PartsOfSample
<1>4. \A i \in DOMAIN d : d[i] \in Nat
  BY <1>3 DEF IsSample
<1>5. UpTo(d, v) \in SUBSET low /\ UpFrom(d, w) \in SUBSET high
  <2>1. ASSUME NEW i \in DOMAIN d, d[i] <= v PROVE 100 * d[i] <= x
    BY <1>1, <1>2, <1>4, <2>1
  <2>2. ASSUME NEW i \in DOMAIN d, d[i] >= w PROVE 100 * d[i] >= x
    BY <1>1, <1>2, <1>4, <2>2
  <2> QED
    BY <2>1, <2>2 DEF UpTo, UpFrom
<1>6. low \in SUBSET (1..Len(d)) /\ high \in SUBSET (1..Len(d))
  BY <1>3
<1>7. HalfAround(d, x) <=> 2 * Cardinality(low) >= Len(d) /\ 2 * Cardinality(high) >= Len(d)
  BY DEF HalfAround
<1> HIDE DEF low, high
<1>8. IsFiniteSet(low) /\ IsFiniteSet(high)
  BY <1>3, <1>6, PlacesOf, FS_Subset
<1>9. /\ Cardinality(UpTo(d, v)) <= Cardinality(low) /\ Cardinality(UpFrom(d, w)) <= Cardinality(high)
      /\ Cardinality(low) \in Nat /\ Cardinality(high) \in Nat
  BY <1>5, <1>8, FS_Subset, FS_CardinalityType
<1> QED
  BY <1>1, <1>3, <1>7, <1>9, SMTT(30)

\* The rank and what is left of it.
LEMMA RanksFit ==
  ASSUME NEW n \in Nat, n >= 2
  PROVE  /\ RankBelow(50, n) + 1 \in 1..n - 1 /\ RankBelow(95, n) + 1 \in 1..n - 1
         /\ RankBelow(50, n) <= RankBelow(95, n)
         /\ (50 * (n - 1)) % 100 \in 0..99 /\ (95 * (n - 1)) % 100 \in 0..99
         /\ RankBelow(50, n) = RankBelow(95, n) => (50 * (n - 1)) % 100 <= (95 * (n - 1)) % 100
         /\ \/ n = 2 * RankBelow(50, n) + 1 /\ (50 * (n - 1)) % 100 = 0
            \/ n = 2 * RankBelow(50, n) + 2
BY DEF RankBelow

LEMMA RankBetween ==
  ASSUME NEW d, IsSample(d), Len(d) >= 2, NEW p \in {50, 95}, NEW lo, lo = RankBelow(p, Len(d)) + 1
  PROVE  /\ lo \in 1..Len(d) - 1
         /\ Percentile(d, p) = 100 * Ordered(d)[lo]
              + ((p * (Len(d) - 1)) % 100) * (Ordered(d)[lo + 1] - Ordered(d)[lo])
         /\ Percentile(d, p) \in Int
         /\ 100 * Ordered(d)[lo] <= Percentile(d, p) /\ Percentile(d, p) <= 100 * Ordered(d)[lo + 1]
<1> DEFINE n == Len(d)
           rest == (p * (n - 1)) % 100
           a == Ordered(d)[lo]
           b == Ordered(d)[lo + 1]
<1>1. n \in Nat /\ n >= 2
  BY DEF IsSample, IsList
<1>2. lo \in 1..n - 1 /\ rest \in 0..99
  BY <1>1, RanksFit
<1>3. ~(n = 0) /\ ~(lo + 1 > n) /\ lo \in 1..n /\ lo + 1 \in 1..n /\ lo <= lo + 1
  BY <1>1, <1>2
<1>4. Percentile(d, p) = 100 * a + rest * (b - a)
  BY <1>3 DEF Percentile
<1>5. a \in Nat /\ b \in Nat /\ a <= b
  BY <1>3, OrderedFits, OrderedGrows
<1> HIDE DEF rest, a, b
<1>6. 0 * (b - a) <= rest * (b - a) /\ rest * (b - a) <= 100 * (b - a) /\ rest * (b - a) \in Int
  <2>1. b - a \in Nat
    BY <1>5
  <2>2. rest \in Int /\ 0 <= rest /\ rest <= 100
    BY <1>2
  <2> QED
    BY <2>1, <2>2, ProductGrows
<1>7. Percentile(d, p) \in Int /\ 100 * a <= Percentile(d, p) /\ Percentile(d, p) <= 100 * b
  BY <1>4, <1>5, <1>6
<1> QED
  BY <1>2, <1>4, <1>7 DEF n, rest, a, b

LEMMA PercentilesFit ==
  ASSUME NEW d, IsSample(d), Len(d) >= 1
  PROVE  /\ HalfAround(d, Percentile(d, 50))
         /\ Percentile(d, 50) <= Percentile(d, 95)
         /\ Percentile(d, 50) \in Int /\ Percentile(d, 95) \in Int
         /\ \E x \in ToSet(d) : Percentile(d, 95) <= 100 * x
<1> DEFINE n == Len(d)
           v == Ordered(d)
<1>1. n \in Nat /\ n >= 1
  BY DEF IsSample, IsList
<1>2. \A k \in 1..n : v[k] \in ToSet(d) /\ v[k] \in Nat
  BY OrderedFits
<1>3. CASE n = 1
  <2>1. Percentile(d, 50) = 100 * v[1] /\ Percentile(d, 95) = 100 * v[1]
    <3>1. RankBelow(50, 1) + 1 = 1 /\ RankBelow(95, 1) + 1 = 1
      BY DEF RankBelow
    <3> QED
      BY <1>3, <3>1 DEF Percentile
  <2>2. v[1] \in Nat /\ 1 \in 1..n /\ v[1] \in ToSet(d)
    BY <1>2, <1>3
  <2> HIDE DEF v
  <2>3. 100 * v[1] \in Int /\ 100 * v[1] <= 100 * v[1]
    BY <2>2
  <2>4. HalfAround(d, 100 * v[1])
    <3>1. 2 * 1 >= Len(d) /\ 2 * (Len(d) - 1 + 1) >= Len(d) /\ 1 \in 1..Len(d)
      BY <1>3
    <3> QED
      BY <2>3, <3>1, HalvesFit DEF v
  <2> QED
    BY <2>1, <2>2, <2>3, <2>4
<1>4. CASE n >= 2
  <2> DEFINE lo == RankBelow(50, n) + 1
             hi == RankBelow(95, n) + 1
             r == (50 * (n - 1)) % 100
             s == (95 * (n - 1)) % 100
             p == Percentile(d, 50)
             q == Percentile(d, 95)
  <2>1. /\ lo \in 1..n - 1 /\ hi \in 1..n - 1 /\ lo <= hi /\ r \in 0..99 /\ s \in 0..99
        /\ lo = hi => r <= s
        /\ (n = 2 * lo - 1 /\ r = 0) \/ n = 2 * lo
    <3>1. /\ lo \in 1..n - 1 /\ hi \in 1..n - 1 /\ RankBelow(50, n) <= RankBelow(95, n)
          /\ r \in 0..99 /\ s \in 0..99
          /\ RankBelow(50, n) = RankBelow(95, n) => r <= s
          /\ (n = 2 * RankBelow(50, n) + 1 /\ r = 0) \/ n = 2 * RankBelow(50, n) + 2
      BY <1>1, <1>4, RanksFit, ZenonT(40)
    <3>2. RankBelow(50, n) \in Int /\ RankBelow(95, n) \in Int
      BY <1>1 DEF RankBelow
    <3> HIDE DEF r, s, n
    <3> QED
      BY <1>1, <3>1, <3>2, SMTT(30)
  <2>2. p = 100 * v[lo] + r * (v[lo + 1] - v[lo]) /\ p \in Int /\ 100 * v[lo] <= p /\ p <= 100 * v[lo + 1]
    BY <1>4, RankBetween
  <2>3. q = 100 * v[hi] + s * (v[hi + 1] - v[hi]) /\ q \in Int /\ 100 * v[hi] <= q /\ q <= 100 * v[hi + 1]
    BY <1>4, RankBetween
  <2> HIDE DEF lo, hi, r, s, p, q
  <2>4. lo \in 1..n /\ lo + 1 \in 1..n /\ hi \in 1..n /\ hi + 1 \in 1..n
    BY <1>1, <2>1
  <2>5. v[lo] \in Nat /\ v[lo + 1] \in Nat /\ v[hi] \in Nat /\ v[hi + 1] \in Nat /\ v[hi + 1] \in ToSet(d)
    BY <1>2, <2>4
  <2>6. HalfAround(d, p)
    <3>1. CASE n = 2 * lo - 1 /\ r = 0
      <4>1. p <= 100 * v[lo]
        <5>1. 0 * (v[lo + 1] - v[lo]) = 0
          BY <2>5
        <5> QED
          BY <2>2, <2>5, <3>1, <5>1
      <4>2. 2 * lo >= n /\ 2 * (n - lo + 1) >= n
        BY <1>1, <2>1, <3>1
      <4> QED
        BY <2>2, <2>4, <4>1, <4>2, HalvesFit
    <3>2. CASE n = 2 * lo
      <4>1. 2 * lo >= n /\ 2 * (n - (lo + 1) + 1) >= n
        BY <1>1, <2>1, <3>2
      <4> QED
        BY <2>2, <2>4, <4>1, HalvesFit
    <3> QED
      BY <2>1, <3>1, <3>2
  <2>7. p <= q
    <3>1. CASE lo = hi
      <4>1. r * (v[lo + 1] - v[lo]) <= s * (v[lo + 1] - v[lo])
        <5>1. v[lo + 1] - v[lo] \in Nat
          BY <2>1, <2>4, <2>5, OrderedGrows
        <5>2. r \in Int /\ s \in Int /\ r <= s
          BY <2>1, <3>1
        <5> QED
          BY <5>1, <5>2, ProductGrows
      <4>2. r * (v[lo + 1] - v[lo]) \in Int /\ s * (v[lo + 1] - v[lo]) \in Int
        BY <2>1, <2>5, SMTT(30)
      <4> QED
        BY <2>2, <2>3, <2>5, <3>1, <4>1, <4>2
    <3>2. CASE lo # hi
      <4>1. lo + 1 <= hi
        BY <2>1, <2>4, <3>2
      <4>2. v[lo + 1] <= v[hi]
        BY <2>4, <4>1, OrderedGrows
      <4> QED
        BY <2>2, <2>3, <2>5, <4>2
    <3> QED
      BY <3>1, <3>2
  <2> QED
    BY <2>2, <2>3, <2>5, <2>6, <2>7 DEF p, q
<1>5. n = 1 \/ n >= 2
  <2> HIDE DEF n
  <2> QED
    BY <1>1
<1> QED
  BY <1>3, <1>4, <1>5

\* No sum is above the greatest entry times the number of entries.
LEMMA TotalIsBounded ==
  ASSUME NEW d, IsSample(d), NEW most \in Nat, \A i \in 1..Len(d) : d[i] <= most
  PROVE  Total(DOMAIN d, d) <= Len(d) * most
<1> DEFINE n == Len(d)
<1>1. n \in Nat /\ DOMAIN d = 1..n /\ \A i \in 1..n : d[i] \in Nat
  BY ListGrows DEF IsSample, IsList
<1>2. IsNumbers(d)
  BY <1>1 DEF IsNumbers
<1>3. PICK r : Partial(r, 1..n, d) /\ \A i \in 0..n : r[i] \in Int
  BY <1>2, TotalUnfolds
<1>4. r[0] = 0 /\ Total(1..n, d) = r[n] /\ \A i \in 1..n : r[i] = r[i - 1] + d[i]
  BY <1>3 DEF Partial, Term
<1> HIDE DEF n
<1>5. \A i \in 1..n : d[i] <= most
  BY DEF n
<1> DEFINE T == { i \in Nat : i <= n => r[i] <= i * most }
<1>6. 0 \in T
  <2>1. 0 * most = 0
    OBVIOUS
  <2> QED
    BY <1>4, <2>1
<1>7. ASSUME NEW i \in T PROVE i + 1 \in T
  <2> SUFFICES ASSUME i + 1 <= n PROVE r[i + 1] <= (i + 1) * most
    OBVIOUS
  <2>1. i \in Nat /\ i + 1 \in 1..n /\ (i + 1) - 1 = i /\ i \in 0..n /\ r[i] <= i * most
    BY <1>1
  <2>2. r[i + 1] = r[i] + d[i + 1]
    BY <1>4, <2>1
  <2>3. d[i + 1] \in Nat /\ d[i + 1] <= most /\ r[i] \in Int
    BY <1>1, <1>3, <1>5, <2>1
  <2>4. (i + 1) * most = i * most + most /\ i * most \in Int
    BY <2>1
  <2> QED
    BY <2>1, <2>2, <2>3, <2>4
<1>8. T = Nat
  <2>1. T \in SUBSET Nat
    OBVIOUS
  <2> HIDE DEF T
  <2> QED
    BY <1>6, <1>7, <2>1, Induction
<1>9. n \in T
  BY <1>1, <1>8
<1>10. r[n] <= n * most
  BY <1>1, <1>9
<1> QED
  BY <1>1, <1>4, <1>10 DEF n

LEMMA GreatestOfSample ==
  ASSUME NEW d, IsSample(d)
  PROVE  LET most == Max({0} \cup ToSet(d)) IN most \in Nat /\ \A x \in ToSet(d) : x <= most
<1> DEFINE n == Len(d)
           S == {0} \cup ToSet(d)
<1>1. n \in Nat /\ DOMAIN d = 1..n /\ \A i \in 1..n : d[i] \in Nat
  BY ListGrows DEF IsSample, IsList
<1>2. ToSet(d) = { d[i] : i \in 1..n }
  BY <1>1 DEF ToSet
<1>3. \E x \in S : \A y \in S : x >= y
  <2>1. CASE n = 0
    BY <1>2, <2>1
  <2>2. CASE n # 0
    <3>1. n >= 1
      BY <1>1, <2>2
    <3>2. PICK j \in 1..n : \A i \in 1..n : d[i] <= d[j]
      <4>1. \A i \in 1..n : d[i] \in Int
        BY <1>1
      <4> QED
        BY <1>1, <3>1, <4>1, GreatestOf
    <3>3. d[j] \in S /\ \A y \in S : d[j] >= y
      BY <1>1, <1>2, <3>2
    <3> QED
      BY <3>3
  <2> QED
    BY <2>1, <2>2
<1>4. Max(S) \in S /\ \A y \in S : Max(S) >= y
  BY <1>3 DEF Max
<1>5. S \in SUBSET Nat
  BY <1>1, <1>2
<1> HIDE DEF S
<1>6. Max(S) \in Nat /\ \A y \in S : y <= Max(S)
  BY <1>4, <1>5
<1> QED
  BY <1>6 DEF S

\* The statistics of any sample.
StatsAgree(s) == s.p50 <= s.p95 /\ s.p95 <= 100 * s.max /\ s.sum <= s.count * s.max

LEMMA StatsFit ==
  ASSUME NEW d, IsSample(d)
  PROVE  /\ StatsAgree(SnapStats(d)) /\ HalfAround(d, SnapStats(d).p50)
         /\ SnapStats(d).count = Len(d)
<1> DEFINE most == Max({0} \cup ToSet(d))
<1>1. SnapStats(d) = [count |-> Len(d), sum |-> Total(DOMAIN d, d), p50 |-> Percentile(d, 50),
                      p95 |-> Percentile(d, 95), max |-> most]
  BY DEF SnapStats
<1>2. most \in Nat /\ \A x \in ToSet(d) : x <= most
  BY GreatestOfSample
<1> HIDE DEF most
<1>3. Len(d) \in Nat /\ DOMAIN d = 1..Len(d) /\ \A i \in 1..Len(d) : d[i] \in Nat
  BY ListGrows DEF IsSample, IsList
<1>4. Total(DOMAIN d, d) <= Len(d) * most
  <2>1. \A i \in 1..Len(d) : d[i] \in ToSet(d)
    BY <1>3 DEF ToSet
  <2> QED
    BY <1>2, <2>1, TotalIsBounded
<1>5. /\ HalfAround(d, Percentile(d, 50)) /\ Percentile(d, 50) <= Percentile(d, 95)
      /\ Percentile(d, 95) <= 100 * most
  <2>1. CASE Len(d) = 0
    <3>1. Percentile(d, 50) = 0 /\ Percentile(d, 95) = 0
      BY <2>1 DEF Percentile
    <3>2. { i \in DOMAIN d : 100 * d[i] <= 0 } = {} /\ { i \in DOMAIN d : 100 * d[i] >= 0 } = {}
      BY <1>3, <2>1
    <3>3. HalfAround(d, 0)
      BY <2>1, <3>2, FS_EmptySet DEF HalfAround
    <3> QED
      BY <1>2, <3>1, <3>3
  <2>2. CASE Len(d) # 0
    <3>1. Len(d) >= 1
      BY <1>3, <2>2
    <3>2. /\ HalfAround(d, Percentile(d, 50)) /\ Percentile(d, 50) <= Percentile(d, 95)
          /\ Percentile(d, 95) \in Int /\ \E x \in ToSet(d) : Percentile(d, 95) <= 100 * x
      BY <3>1, PercentilesFit
    <3>3. PICK x \in ToSet(d) : Percentile(d, 95) <= 100 * x
      BY <3>2
    <3>4. x \in Nat /\ x <= most
      BY <1>2, <1>3, <3>3 DEF ToSet
    <3> QED
      BY <1>2, <3>2, <3>3, <3>4
  <2> QED
    BY <2>1, <2>2
<1> QED
  BY <1>1, <1>4, <1>5 DEF StatsAgree
-----------------------------------------------------------------------------
\* The points of a report.

\* The recursion in MatchedDistances.
LEMMA DistancesUnfold ==
  ASSUME Len(roadPoints) \in Nat
  PROVE  \E r : /\ r[0] = << >> /\ MatchedDistances = r[Len(roadPoints)]
                /\ \A n \in 1..Len(roadPoints) : r[n] = DistanceIfMatched(r[n - 1], roadPoints[n])
<1> DEFINE Op(n, x) == DistanceIfMatched(x, roadPoints[n])
           base == << >>
           N == Len(roadPoints)
           F(v) == [n \in 0..N |-> IF n = 0 THEN base ELSE Op(n, v[n - 1])]
           rec == CHOOSE v : v = F(v)
           Good(m, v) == v[0] = base /\ \A n \in 1..m : v[n] = Op(n, v[n - 1])
           T == { m \in Nat : \E v : Good(m, v) }
<1>1. MatchedDistances = rec[N]
  BY DEF MatchedDistances
<1>2. N \in Nat
  OBVIOUS
<1> HIDE DEF Op, base, N
<1>3. 0 \in T
  <2>1. Good(0, [n \in 0..0 |-> base])
    OBVIOUS
  <2> QED
    BY <2>1
<1>4. ASSUME NEW m \in T PROVE m + 1 \in T
  <2>1. PICK v : Good(m, v)
    OBVIOUS
  <2> DEFINE h == [n \in 0..m + 1 |-> IF n = m + 1 THEN Op(m + 1, v[m]) ELSE v[n]]
  <2>2. m \in Nat /\ m + 1 # 0 /\ m + 1 \in 0..m + 1 /\ (m + 1) - 1 = m
    OBVIOUS
  <2>3. h[m + 1] = Op(m + 1, v[m]) /\ \A n \in 0..m : h[n] = v[n]
    BY <2>2
  <2> HIDE DEF h
  <2>4. ASSUME NEW n \in 1..m + 1 PROVE h[n] = Op(n, h[n - 1])
    <3>1. n - 1 \in 0..m
      BY <2>2
    <3>2. h[n - 1] = v[n - 1]
      BY <2>3, <3>1
    <3>3. CASE n = m + 1
      <4>1. h[n - 1] = v[m]
        BY <2>2, <3>2, <3>3
      <4> QED
        BY <2>3, <3>3, <4>1
    <3>4. CASE n # m + 1
      <4>1. n \in 1..m /\ n \in 0..m
        BY <2>2, <3>4
      <4>2. h[n] = v[n] /\ v[n] = Op(n, v[n - 1])
        BY <2>1, <2>3, <4>1
      <4> QED
        BY <3>2, <4>2
    <3> QED
      BY <3>3, <3>4
  <2>5. h[0] = base
    BY <2>1, <2>2, <2>3
  <2>6. Good(m + 1, h)
    BY <2>4, <2>5
  <2> HIDE DEF Good
  <2> QED
    BY <2>2, <2>6
<1>5. T = Nat
  <2>1. T \in SUBSET Nat
    OBVIOUS
  <2> HIDE DEF T
  <2> QED
    BY <1>3, <1>4, <2>1, Induction
<1>6. PICK v : Good(N, v)
  BY <1>2, <1>5
<1> DEFINE f == [n \in 0..N |-> v[n]]
<1>7. f = F(f)
  <2>1. ASSUME NEW n \in 0..N PROVE f[n] = IF n = 0 THEN base ELSE Op(n, f[n - 1])
    <3>1. CASE n = 0
      BY <1>6, <3>1
    <3>2. CASE n # 0
      <4>1. n \in 1..N /\ n - 1 \in 0..N
        BY <1>2, <3>2
      <4>2. f[n] = v[n] /\ f[n - 1] = v[n - 1]
        BY <4>1
      <4> HIDE DEF f
      <4> QED
        BY <1>6, <3>2, <4>1, <4>2
    <3> QED
      BY <3>1, <3>2
  <2>2. f = [n \in 0..N |-> f[n]]
    OBVIOUS
  <2> HIDE DEF f
  <2> QED
    BY <2>1, <2>2
<1>8. rec = F(rec)
  <2> HIDE DEF F, f
  <2> QED
    BY <1>7
<1> HIDE DEF rec
<1>9. \A n \in 0..N : rec[n] = IF n = 0 THEN base ELSE Op(n, rec[n - 1])
  BY <1>8
<1>10. rec[0] = base
  BY <1>2, <1>9
<1>11. \A n \in 1..N : rec[n] = Op(n, rec[n - 1])
  BY <1>2, <1>9
<1>12. /\ rec[0] = base /\ MatchedDistances = rec[N]
       /\ \A n \in 1..N : rec[n] = Op(n, rec[n - 1])
  BY <1>1, <1>10, <1>11
<1> QED
  BY <1>12 DEF Op, base, N

\* A point of the result is unmatched, or on an edge within the radius.
IsPoint(p, q) == p = Unmatched \/ \E c \in Within(q) : p = Snap(c)
PointsFit ==
  /\ IsList(roadPoints) /\ Len(roadPoints) = Len(positions)
  /\ \A i \in 1..Len(positions) : IsPoint(roadPoints[i], positions[i])

LEMMA PointIs ==
  ASSUME LinesFit(graph), NEW q \in Int \X Int, NEW p, IsPoint(p, q)
  PROVE  /\ p.matched \in BOOLEAN
         /\ p.matched => p.dist \in Nat /\ NearestDistance(q) <= p.dist /\ NearestDistance(q) <= Radius
<1>1. CASE p = Unmatched
  BY <1>1 DEF Unmatched
<1>2. CASE p # Unmatched
  <2>1. PICK e \in DOMAIN graph.edges : EdgeDistance(e, q) <= Radius /\ p = Snap(Candidate(e, q))
    BY <1>2 DEF IsPoint, Within
  <2>2. p.matched = TRUE /\ p.dist = EdgeDistance(e, q)
    BY <2>1 DEF Snap, Candidate
  <2>3. DOMAIN graph.edges = 1..Len(graph.edges)
    BY ListGrows DEF LinesFit
  <2>4. \A f \in 1..Len(graph.edges) : EdgeDistance(f, q) \in Nat
    <3> SUFFICES ASSUME NEW f \in 1..Len(graph.edges) PROVE EdgeDistance(f, q) \in Nat
      OBVIOUS
    <3>1. IsCandidate(Candidate(f, q))
      BY CandidateFits
    <3> QED
      BY <3>1 DEF IsCandidate, Candidate
  <2> DEFINE S == { EdgeDistance(f, q) : f \in DOMAIN graph.edges } \cup {NoDistance}
  <2>5. S \in SUBSET Nat /\ EdgeDistance(e, q) \in S
    BY <2>3, <2>4, MatcherAssumption
  <2>6. NearestDistance(q) = Min(S)
    BY DEF NearestDistance
  <2> HIDE DEF S
  <2>7. Min(S) \in S /\ Min(S) <= EdgeDistance(e, q)
    BY <2>5, MinIsLeast
  <2>8. NearestDistance(q) \in Nat /\ NearestDistance(q) <= EdgeDistance(e, q) /\ EdgeDistance(e, q) \in Nat
    BY <2>5, <2>6, <2>7
  <2>9. Radius \in Nat
    BY MatcherAssumption
  <2>10. p.dist \in Nat /\ NearestDistance(q) <= p.dist /\ NearestDistance(q) <= Radius
    BY <2>1, <2>2, <2>8, <2>9
  <2> QED
    BY <2>2, <2>10
<1> QED
  BY <1>1, <1>2

LEMMA NearestIsNat ==
  ASSUME LinesFit(graph), NEW q \in Int \X Int
  PROVE  NearestDistance(q) \in Nat
<1> DEFINE S == { EdgeDistance(f, q) : f \in DOMAIN graph.edges } \cup {NoDistance}
<1>1. DOMAIN graph.edges = 1..Len(graph.edges)
  BY ListGrows DEF LinesFit
<1>2. \A f \in 1..Len(graph.edges) : EdgeDistance(f, q) \in Nat
  <2> SUFFICES ASSUME NEW f \in 1..Len(graph.edges) PROVE EdgeDistance(f, q) \in Nat
    OBVIOUS
  <2>1. IsCandidate(Candidate(f, q))
    BY CandidateFits
  <2> QED
    BY <2>1 DEF IsCandidate, Candidate
<1>3. S \in SUBSET Nat /\ S # {}
  BY <1>1, <1>2, MatcherAssumption
<1>4. NearestDistance(q) = Min(S)
  BY DEF NearestDistance
<1> HIDE DEF S
<1> QED
  BY <1>3, <1>4, MinIsLeast

\* As many distances as matched points.
LEMMA DistancesFit ==
  ASSUME LinesFit(graph), DriveFits, PointsFit
  PROVE  IsSample(MatchedDistances) /\ Len(MatchedDistances) = Cardinality(MatchedPoints)
<1> DEFINE n == Len(roadPoints)
           upTo(i) == { k \in 1..i : roadPoints[k].matched }
           Agrees(l, i) == IsSample(l) /\ Len(l) = Cardinality(upTo(i))
<1>1. n \in Nat /\ DOMAIN roadPoints = 1..n
  BY ListGrows DEF PointsFit, IsList
<1>2. PICK r : /\ r[0] = << >> /\ MatchedDistances = r[n]
               /\ \A i \in 1..n : r[i] = DistanceIfMatched(r[i - 1], roadPoints[i])
  BY <1>1, DistancesUnfold
<1>3. ASSUME NEW i \in 1..n
      PROVE  roadPoints[i].matched \in BOOLEAN /\ (roadPoints[i].matched => roadPoints[i].dist \in Nat)
  <2>1. positions[i] \in Int \X Int /\ IsPoint(roadPoints[i], positions[i])
    BY DEF PointsFit, DriveFits
  <2> QED
    BY <2>1, PointIs
<1> DEFINE T == { i \in Nat : i <= n => Agrees(r[i], i) }
<1>4. 0 \in T
  <2>1. upTo(0) = {}
    OBVIOUS
  <2> HIDE DEF upTo
  <2>2. Agrees(<< >>, 0)
    BY <2>1, EmptyIsList, FS_EmptySet DEF IsSample
  <2> QED
    BY <1>2, <2>2
<1>5. ASSUME NEW i \in T PROVE i + 1 \in T
  <2> SUFFICES ASSUME i + 1 <= n PROVE Agrees(r[i + 1], i + 1)
    OBVIOUS
  <2>1. i \in Nat /\ i + 1 \in 1..n /\ (i + 1) - 1 = i /\ Agrees(r[i], i)
    BY <1>1
  <2>2. r[i + 1] = DistanceIfMatched(r[i], roadPoints[i + 1])
    BY <1>2, <2>1
  <2>3. IsSample(r[i]) /\ Len(r[i]) = Cardinality(upTo(i)) /\ IsList(r[i]) /\ Len(r[i]) \in Nat
    BY <2>1 DEF IsSample, IsList
  <2>4. IsFiniteSet(upTo(i)) /\ i + 1 \notin upTo(i)
    <3>1. IsFiniteSet(1..i) /\ upTo(i) \in SUBSET (1..i)
      BY <2>1, PlacesOf
    <3>2. i + 1 \notin 1..i
      BY <2>1
    <3> QED
      BY <3>1, <3>2, FS_Subset
  <2>5. CASE roadPoints[i + 1].matched
    <3>1. r[i + 1] = Append(r[i], roadPoints[i + 1].dist)
      BY <2>2, <2>5 DEF DistanceIfMatched
    <3>2. upTo(i + 1) = upTo(i) \cup {i + 1}
      <4>1. \A k : k \in 1..i + 1 <=> k \in 1..i \/ k = i + 1
        BY <2>1
      <4> QED
        BY <2>5, <4>1
    <3> HIDE DEF upTo
    <3>3. Cardinality(upTo(i + 1)) = Cardinality(upTo(i)) + 1
      BY <2>4, <3>2, FS_AddElement
    <3> DEFINE x == roadPoints[i + 1].dist
    <3>4. x \in Nat
      BY <1>3, <2>1, <2>5
    <3>5. r[i + 1] = Append(r[i], x)
      BY <3>1
    <3> HIDE DEF x
    <3>6. /\ IsList(r[i + 1]) /\ Len(r[i + 1]) = Len(r[i]) + 1
          /\ r[i + 1][Len(r[i]) + 1] = x /\ \A k \in 1..Len(r[i]) : r[i + 1][k] = r[i][k]
      BY <2>3, <3>5, ListGrows
    <3>7. \A k \in 1..Len(r[i + 1]) : k \in 1..Len(r[i]) \/ k = Len(r[i]) + 1
      BY <2>3, <3>6
    <3>8. \A k \in 1..Len(r[i]) : r[i][k] \in Nat
      BY <2>3 DEF IsSample
    <3>9. IsSample(r[i + 1])
      BY <3>4, <3>6, <3>7, <3>8 DEF IsSample
    <3> QED
      BY <2>3, <3>3, <3>6, <3>9
  <2>6. CASE ~roadPoints[i + 1].matched
    <3>1. r[i + 1] = r[i]
      BY <2>2, <2>6 DEF DistanceIfMatched
    <3>2. upTo(i + 1) = upTo(i)
      <4>1. \A k : k \in 1..i + 1 <=> k \in 1..i \/ k = i + 1
        BY <2>1
      <4> QED
        BY <2>6, <4>1
    <3> HIDE DEF upTo
    <3> QED
      BY <2>3, <3>1, <3>2
  <2> QED
    BY <2>5, <2>6
<1>6. T = Nat
  <2>1. T \in SUBSET Nat
    OBVIOUS
  <2> HIDE DEF T
  <2> QED
    BY <1>4, <1>5, <2>1, Induction
<1>7. Agrees(r[n], n)
  <2>1. n <= n /\ n \in Nat
    BY <1>1
  <2>2. n \in T
    BY <1>6, <2>1
  <2> HIDE DEF Agrees, n
  <2> QED
    BY <2>1, <2>2
<1>8. upTo(n) = MatchedPoints
  BY <1>1 DEF MatchedPoints
<1> QED
  BY <1>2, <1>7, <1>8
-----------------------------------------------------------------------------
\* The candidates of a position are edges within its radius, and a point is one of them.

Found == \A i \in 1..Len(cands) : \A j \in 1..Len(cands[i]) : cands[i][j] \in Within(positions[i])
LayerIsThere == matching = "back" => layer \in 1..Len(cands)
Snapping == PointsFit /\ Found /\ LayerIsThere

LEMMA SameRoads ==
  ASSUME UNCHANGED graph
  PROVE  /\ \A q : Within(q)' = Within(q) /\ NearestDistance(q)' = NearestDistance(q)
         /\ \A p, q : IsPoint(p, q)' = IsPoint(p, q)
<1>1. \A e, q : EdgeDistance(e, q)' = EdgeDistance(e, q)
  BY DEF EdgeDistance
<1>2. \A e, q : Candidate(e, q)' = Candidate(e, q)
  BY <1>1 DEF Candidate
<1>3. \A q : Within(q)' = Within(q)
  BY <1>1, <1>2 DEF Within
<1>4. \A q : NearestDistance(q)' = NearestDistance(q)
  BY <1>1 DEF NearestDistance
<1> QED
  BY <1>3, <1>4 DEF IsPoint, Snap, Unmatched

LEMMA PointsStay ==
  ASSUME UNCHANGED << graph, positions, roadPoints >>, PointsFit
  PROVE  PointsFit'
BY SameRoads DEF PointsFit

LEMMA FoundStays ==
  ASSUME UNCHANGED << graph, positions, cands >>, Found
  PROVE  Found'
BY SameRoads DEF Found

LEMMA FindSnaps ==
  ASSUME MatchFits, LinesFit(graph), UNCHANGED graph, Snapping, FindCandidates
  PROVE  Snapping'
<1>1. Collecting /\ DriveFits /\ layer <= Len(positions) /\ matching' = "candidates"
  BY DEF FindCandidates, MatchFits
<1>2. UNCHANGED << positions, roadPoints >>
  BY DEF FindCandidates
<1>3. IsList(cands) /\ layer = Len(cands) + 1 /\ Len(cands) \in Nat /\ Len(positions) \in Nat
  BY <1>1 DEF Collecting, DriveFits, IsList
<1>4. positions[layer] \in Int \X Int
  BY <1>1, <1>3 DEF DriveFits
<1>5. PICK l : cands' = Append(cands, l) /\ \A j \in 1..Len(l) : l[j] \in Within(positions[layer])
  <2>1. PICK s \in NearestFirst(Within(positions[layer])) :
          cands' = Append(cands, SubSeq(s, 1, Min({ Len(s), MaxCandidates })))
    BY DEF FindCandidates
  <2> QED
    BY <1>4, <2>1, CandidatesFit
<1>6. /\ Len(cands') = Len(cands) + 1
      /\ cands'[Len(cands) + 1] = l /\ \A i \in 1..Len(cands) : cands'[i] = cands[i]
  BY <1>3, <1>5, ListGrows
<1>7. ASSUME NEW i \in 1..Len(cands'), NEW j \in 1..Len(cands'[i])
      PROVE  cands'[i][j] \in Within(positions[i])
  <2>1. i \in 1..Len(cands) \/ i = Len(cands) + 1
    BY <1>3, <1>6
  <2>2. CASE i \in 1..Len(cands)
    BY <1>6, <1>7, <2>2 DEF Snapping, Found
  <2>3. CASE i = Len(cands) + 1
    BY <1>3, <1>5, <1>6, <1>7, <2>3
  <2> QED
    BY <2>1, <2>2, <2>3
<1>8. Found'
  BY <1>2, <1>7, SameRoads DEF Found
<1> QED
  BY <1>1, <1>2, <1>8, PointsStay DEF Snapping, LayerIsThere

LEMMA BacktraceSnaps ==
  ASSUME MatchFits, UNCHANGED graph, Snapping, StartBacktrace \/ BacktraceStep \/ ReadBeyond
  PROVE  Snapping'
<1>1. UNCHANGED << positions, cands >>
  BY DEF StartBacktrace, BacktraceStep, ReadBeyond, trellisVars
<1>2. Found' /\ PointsFit /\ LayerIsThere
  BY <1>1, FoundStays DEF Snapping
<1>3. CASE StartBacktrace
  <2>1. PointsFit'
    BY <1>1, <1>2, <1>3, PointsStay DEF StartBacktrace
  <2>2. AllFound
    BY <1>3 DEF StartBacktrace, MatchFits, Forwarding
  <2>3. Len(cands) \in Nat /\ Layers \in SUBSET (1..Len(cands))
    BY <2>2, ListGrows DEF AllFound, IsList, Layers
  <2>4. ASSUME Layers # {} PROVE Max(Layers) \in 1..Len(cands)
    BY <2>3, <2>4, GreatestNumber
  <2>5. LayerIsThere'
    BY <1>1, <1>3, <2>4 DEF StartBacktrace, LayerIsThere
  <2> QED
    BY <1>2, <2>1, <2>5 DEF Snapping
<1>4. CASE BacktraceStep
  <2>1. AllFound /\ layer \in 1..Len(cands) /\ cursor \in DOMAIN cands[layer] /\ Len(cands) \in Nat
    BY <1>2, <1>4 DEF BacktraceStep, MatchFits, LayerIsThere, AllFound, IsList
  <2>2. Len(cands) = Len(positions) /\ DOMAIN cands[layer] = 1..Len(cands[layer])
    BY <2>1, ListGrows DEF AllFound, CandsFit
  <2> DEFINE c == cands[layer][cursor]
  <2>3. c \in Within(positions[layer])
    BY <2>1, <2>2 DEF Snapping, Found
  <2>4. roadPoints' = [roadPoints EXCEPT ![layer] = Snap(c)] /\ UNCHANGED << graph, positions >>
    BY <1>1, <1>4 DEF BacktraceStep
  <2> HIDE DEF c
  <2>5. IsPoint(Snap(c), positions[layer])
    BY <2>3 DEF IsPoint
  <2> DEFINE n == Len(positions)
             s == Snap(c)
  <2>6. /\ roadPoints = [i \in 1..n |-> roadPoints[i]] /\ n \in Nat /\ Len(roadPoints) = n
        /\ layer \in 1..n /\ \A i \in 1..n : IsPoint(roadPoints[i], positions[i])
    BY <1>2, <2>1, <2>2 DEF PointsFit, IsList
  <2> HIDE DEF n, s
  <2>7. roadPoints' = [i \in 1..n |-> IF i = layer THEN s ELSE roadPoints[i]]
    BY <2>4, <2>6 DEF s
  <2>8. IsList(roadPoints') /\ Len(roadPoints') = n
    <3> DEFINE V == { roadPoints'[i] : i \in 1..n }
    <3>1. roadPoints' \in [1..n -> V]
      BY <2>7
    <3>2. Len(roadPoints') = n
      <4> HIDE DEF V
      <4> QED
        BY <2>6, <3>1
    <3>3. roadPoints' = [i \in 1..n |-> roadPoints'[i]]
      BY <2>7
    <3> QED
      BY <2>6, <3>2, <3>3 DEF IsList
  <2>9. \A i \in 1..n : IsPoint(roadPoints'[i], positions[i])
    BY <2>5, <2>6, <2>7 DEF s
  <2>10. \A i \in 1..n : IsPoint(roadPoints[i], positions[i])'
    BY <2>4, <2>9 DEF IsPoint, Within, Candidate, EdgeDistance, Snap, Unmatched
  <2>11. PointsFit'
    BY <2>4, <2>8, <2>10 DEF PointsFit, IsList, n
  <2>12. LayerIsThere'
    <3>1. layer' \in 1..Len(cands)
      BY <1>4, <2>1 DEF BacktraceStep
    <3> QED
      BY <1>1, <3>1 DEF LayerIsThere
  <2> QED
    BY <1>2, <2>11, <2>12 DEF Snapping
<1>5. CASE ReadBeyond
  <2>1. PointsFit' /\ matching' = "crashed"
    BY <1>1, <1>2, <1>5, PointsStay DEF ReadBeyond
  <2> QED
    BY <1>2, <2>1 DEF Snapping, LayerIsThere
<1> QED
  BY <1>3, <1>4, <1>5

LEMMA MatcherSnaps ==
  ASSUME MatchFits, LinesFit(graph), UNCHANGED graph, Snapping, MatcherNext
  PROVE  Snapping'
<1>1. CASE SeedTrellis \/ PassLayer \/ ScoreLayer
  <2>1. UNCHANGED << positions, cands, roadPoints >> /\ matching' = "forward"
    BY <1>1 DEF SeedTrellis, PassLayer, ScoreLayer
  <2> QED
    BY <2>1, PointsStay, FoundStays DEF Snapping, LayerIsThere
<1> QED
  BY <1>1, FindSnaps, BacktraceSnaps DEF MatcherNext

\* Before the first step every point is unmatched.
LEMMA SnappingStarts ==
  ASSUME DriveInv, StartMatching(DrivePositions), cands = << >>
  PROVE  Snapping'
<1> DEFINE d == DrivePositions
           n == Len(d)
<1>1. IsList(d)
  BY DriveHasPlaces
<1>2. /\ positions' = d /\ roadPoints' = [i \in DOMAIN d |-> Unmatched] /\ cands' = << >>
      /\ matching' \in {"done", "candidates"}
  BY DEF StartMatching
<1> HIDE DEF d
<1>3. n \in Nat /\ DOMAIN d = 1..n
  BY <1>1, ListGrows DEF IsList
<1> HIDE DEF n
<1>4. roadPoints' = [i \in 1..n |-> Unmatched]
  BY <1>2, <1>3
<1>5. Len(roadPoints') = n /\ IsList(roadPoints')
  <2>1. roadPoints' \in [1..n -> {Unmatched}]
    BY <1>4
  <2>2. Len(roadPoints') = n
    BY <1>3, <2>1
  <2>3. roadPoints' = [i \in 1..n |-> roadPoints'[i]]
    BY <1>4
  <2> QED
    BY <1>3, <2>2, <2>3 DEF IsList
<1>6. PointsFit'
  BY <1>2, <1>4, <1>5 DEF PointsFit, IsPoint, IsList, n
<1>7. Len(cands') = 0
  BY <1>2, EmptyIsList
<1> QED
  BY <1>2, <1>6, <1>7 DEF Snapping, Found, LayerIsThere

-----------------------------------------------------------------------------
\* The report is made of the points and the baseline.

NearestAre == baseline = [i \in 1..Len(positions) |-> NearestDistance(positions[i])]
ReportFits ==
  /\ report.hmm = SnapStats(MatchedDistances) /\ report.base = SnapStats(baseline)
  /\ report.total = Len(roadPoints) /\ report.matched = Cardinality(MatchedPoints)
ReportInv ==
  /\ RoadInv
  /\ stage \in {"match", "done"} => Snapping /\ NearestAre
  /\ stage = "done" => ReportFits

LEMMA ReportStays ==
  ASSUME UNCHANGED << graph, matcherVars, baseline, report >>
  PROVE  Snapping' = Snapping /\ NearestAre' = NearestAre /\ ReportFits' = ReportFits
<1>1. UNCHANGED << positions, cands, roadPoints, matching, layer >>
  BY DEF matcherVars, trellisVars
<1>2. PointsFit' = PointsFit /\ Found' = Found /\ NearestAre' = NearestAre
  BY <1>1, SameRoads DEF PointsFit, Found, NearestAre
<1>3. LayerIsThere' = LayerIsThere
  BY <1>1 DEF LayerIsThere
<1>4. MatchedDistances' = MatchedDistances /\ MatchedPoints' = MatchedPoints
  BY <1>1 DEF MatchedDistances, MatchedPoints
<1>5. ReportFits' = ReportFits
  BY <1>1, <1>4 DEF ReportFits
<1> QED
  BY <1>2, <1>3, <1>5 DEF Snapping

LEMMA ReportStep == ReportInv /\ [WorkflowNext]_workflowVars => ReportInv'
<1> SUFFICES ASSUME ReportInv, [WorkflowNext]_workflowVars PROVE ReportInv'
  OBVIOUS
<1>1. RoadInv /\ RoadInv'
  BY RoadStep DEF ReportInv
<1>2. CASE stage \notin {"match", "done"} /\ stage' \notin {"match", "done"}
  BY <1>1, <1>2 DEF ReportInv
<1>3. CASE Baseline
  <2>1. /\ stage = "baseline" /\ stage' = "match" /\ UNCHANGED roadVars /\ StartMatching(DrivePositions)
        /\ baseline' = [i \in DOMAIN oxts.frames |-> NearestDistance(oxts.frames[i].enu)]
    BY <1>3 DEF Baseline
  <2>2. DriveInv /\ cands = << >>
    BY <1>1, <2>1 DEF RoadInv, NotMatching
  <2>3. Snapping'
    BY <2>1, <2>2, SnappingStarts
  <2>4. UNCHANGED graph /\ positions' = DrivePositions
    BY <2>1 DEF roadVars, StartMatching
  <2>5. NearestAre'
    <3>1. IsList(DrivePositions)
      BY <2>2, DriveHasPlaces
    <3>2. DOMAIN DrivePositions = 1..Len(DrivePositions)
      BY <3>1, ListGrows
    <3>3. baseline' = [i \in 1..Len(DrivePositions) |-> NearestDistance(DrivePositions[i])]
      BY <2>1, <3>2 DEF DrivePositions
    <3> QED
      BY <2>4, <3>3, SameRoads DEF NearestAre
  <2> QED
    BY <1>1, <2>1, <2>3, <2>5 DEF ReportInv
<1>4. CASE MatchStep
  <2>1. stage = "match" /\ stage' = "match" /\ MatcherNext /\ UNCHANGED << graph, baseline >>
    BY <1>4 DEF MatchStep, roadVars
  <2>2. MatchFits /\ LinesFit(graph) /\ Snapping /\ NearestAre
    BY <1>1, <2>1 DEF RoadInv, GraphFits, ReportInv
  <2>3. Snapping'
    BY <2>1, <2>2, MatcherSnaps
  <2>4. UNCHANGED positions
    BY <2>1 DEF MatcherNext, FindCandidates, SeedTrellis, PassLayer, ScoreLayer, StartBacktrace, BacktraceStep,
                ReadBeyond, trellisVars
  <2>5. NearestAre'
    BY <2>1, <2>2, <2>4, SameRoads DEF NearestAre
  <2> QED
    BY <1>1, <2>1, <2>3, <2>5 DEF ReportInv
<1>5. CASE Report
  <2>1. /\ stage = "match" /\ stage' = "done" /\ UNCHANGED << graph, matcherVars, baseline >>
        /\ report'.hmm = SnapStats(MatchedDistances) /\ report'.base = SnapStats(baseline)
        /\ report'.total = Len(roadPoints) /\ report'.matched = Cardinality(MatchedPoints)
    BY <1>5 DEF Report, roadVars
  <2>2. UNCHANGED << positions, cands, roadPoints, matching, layer >>
    BY <2>1 DEF matcherVars, trellisVars
  <2>3. Snapping /\ NearestAre
    BY <2>1 DEF ReportInv
  <2>4. Snapping' /\ NearestAre'
    BY <2>1, <2>2, <2>3, PointsStay, FoundStays, SameRoads DEF Snapping, NearestAre, LayerIsThere
  <2>5. MatchedDistances' = MatchedDistances /\ MatchedPoints' = MatchedPoints
    BY <2>2 DEF MatchedDistances, MatchedPoints
  <2>6. ReportFits'
    BY <2>1, <2>2, <2>5 DEF ReportFits
  <2> QED
    BY <1>1, <2>1, <2>4, <2>6 DEF ReportInv
<1>6. CASE WorkflowNext
  <2>1. stage # "done"
    BY <1>6 DEF WorkflowNext, LoadStep, CenterlineStep, OxtsLoaded, ImportStep, SearchStep, Baseline, MatchStep, Report
  <2>2. \/ stage \notin {"match", "done"} /\ stage' \notin {"match", "done"}
        \/ Baseline \/ MatchStep \/ Report
    BY <1>6 DEF WorkflowNext, LoadStep, CenterlineStep, OxtsLoaded, ImportStep, SearchStep
  <2> QED
    BY <1>2, <1>3, <1>4, <1>5, <2>2
<1>7. CASE UNCHANGED workflowVars
  <2>1. UNCHANGED << graph, matcherVars, baseline, report, stage >>
    BY <1>7 DEF workflowVars, roadVars
  <2>2. Snapping' = Snapping /\ NearestAre' = NearestAre /\ ReportFits' = ReportFits
    BY <2>1, ReportStays
  <2> QED
    BY <1>1, <2>1, <2>2 DEF ReportInv
<1> QED
  BY <1>6, <1>7

LEMMA ReportAgrees == ReportInv => ReportIsConsistent
<1> SUFFICES ASSUME ReportInv, stage = "done" PROVE ReportIsConsistent
  BY DEF ReportIsConsistent
<1>1. PointsFit /\ NearestAre /\ ReportFits /\ LinesFit(graph) /\ DriveFits
  BY DEF ReportInv, RoadInv, Snapping, GraphFits, MatchFits
<1> DEFINE n == Len(positions)
<1>2. /\ n \in Nat /\ DOMAIN roadPoints = 1..n /\ Len(roadPoints) = n
      /\ \A i \in 1..n : positions[i] \in Int \X Int /\ IsPoint(roadPoints[i], positions[i])
  BY <1>1, ListGrows DEF PointsFit, DriveFits, IsList
<1>3. baseline = [i \in 1..n |-> NearestDistance(positions[i])]
  BY <1>1 DEF NearestAre
<1> HIDE DEF n
<1>4. \A i \in 1..n : baseline[i] \in Nat
  BY <1>1, <1>2, <1>3, NearestIsNat
<1>5. IsSample(baseline) /\ Len(baseline) = n
  <2>1. baseline \in [1..n -> Nat]
    BY <1>3, <1>4
  <2>2. Len(baseline) = n /\ baseline = [i \in 1..n |-> baseline[i]]
    BY <1>2, <2>1
  <2> QED
    BY <1>2, <1>4, <2>2 DEF IsSample, IsList
<1>6. ASSUME NEW i \in DOMAIN roadPoints, roadPoints[i].matched
      PROVE  baseline[i] <= roadPoints[i].dist /\ baseline[i] <= Radius
  BY <1>1, <1>2, <1>3, <1>6, PointIs
<1>7. IsSample(MatchedDistances) /\ Len(MatchedDistances) = Cardinality(MatchedPoints)
  BY <1>1, DistancesFit
<1>8. /\ StatsAgree(report.hmm) /\ HalfAround(MatchedDistances, report.hmm.p50)
      /\ report.hmm.count = Cardinality(MatchedPoints)
  BY <1>1, <1>7, StatsFit DEF ReportFits
<1>9. StatsAgree(report.base) /\ HalfAround(baseline, report.base.p50) /\ report.base.count = n
  BY <1>1, <1>5, StatsFit DEF ReportFits
<1>10. report.total = n /\ report.matched = Cardinality(MatchedPoints)
  BY <1>1, <1>2 DEF ReportFits
<1> QED
  BY <1>6, <1>8, <1>9, <1>10 DEF ReportIsConsistent, StatsAgree

\* Whatever drive is matched to whatever roads, the two kinds of numbers of the report fit
\* together: no matched position is closer to its edge than the nearest edge is, half of each
\* sample is on each side of its median, and no percentile is above the maximum.
THEOREM ReportsAreConsistent == WorkflowSpec => []ReportIsConsistent
<1>1. WorkflowInit => ReportInv
  <2> SUFFICES ASSUME WorkflowInit PROVE ReportInv
    OBVIOUS
  <2>1. RoadInv /\ stage = "load"
    BY RoadInitial DEF WorkflowInit
  <2> QED
    BY <2>1 DEF ReportInv
<1>2. ReportInv /\ [WorkflowNext]_workflowVars => ReportInv'
  BY ReportStep
<1>3. ReportInv => ReportIsConsistent
  BY ReportAgrees
<1> QED
  BY <1>1, <1>2, <1>3, PTL DEF WorkflowSpec
=============================================================================
