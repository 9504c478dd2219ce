--------------------------- MODULE KittiSequence ---------------------------
(***************************************************************************)
(* A recorded drive: one OXTS file (GPS) and one Velodyne file (LiDAR) for *)
(* each index of the recording.  Both readers go through the files of a    *)
(* directory in the order of their names, leave out what they cannot read, *)
(* and KittiSequence then pairs their results.                             *)
(* A directory is a function from the numbers in the file names to what    *)
(* the files hold; an OXTS file holds a position or Malformed.  `file` in  *)
(* a frame is a ghost: the number of the file it was read from.            *)
(***************************************************************************)
EXTENDS Integers, FiniteSetsExt, SequencesExt

CONSTANTS
    OxtsDirectories, VelodyneDirectories,
    Malformed,   \* an OXTS record with too few, infinite or impossible values
    SampleTime   \* the nominal time between two samples

\* A recording has finitely many files, numbered from 0; a position is two integers.
ASSUME RecordingAssumption ==
  /\ SampleTime \in Nat
  /\ Malformed \notin Int \X Int
  /\ \A dir \in OxtsDirectories :
       /\ DOMAIN dir \subseteq Nat /\ IsFiniteSet(DOMAIN dir)
       /\ \A n \in DOMAIN dir : dir[n] = Malformed \/ dir[n] \in Int \X Int
  /\ \A dir \in VelodyneDirectories : DOMAIN dir \subseteq Nat /\ IsFiniteSet(DOMAIN dir)

VARIABLES drive, oxts, lidar, reading

sequenceVars == << drive, oxts, lidar, reading >>

Difference(p, q) == << p[1] - q[1], p[2] - q[2] >>
InNameOrder(dir) ==
  [i \in 1..Cardinality(DOMAIN dir) |->
     CHOOSE n \in DOMAIN dir : Cardinality({ m \in DOMAIN dir : m < n }) = i - 1]

\* The files of the directory that is read, and the position in its list.
InList(what, index) == [what |-> what, index |-> index]
Files == InNameOrder(IF reading.what = "oxts" THEN drive.oxts ELSE drive.velodyne)
DriveFile == Files[reading.index + 1]
HasFile(what) == reading.what = what /\ reading.index < Len(Files)

NoFrames == [frames |-> << >>, anchor |-> << 0, 0 >>, parsed |-> 0, skipped |-> 0]
NoScans == [frames |-> << >>, read |-> 0, failed |-> 0, mismatches |-> 0]

SequenceInit ==
  /\ drive \in [oxts : OxtsDirectories, velodyne : { << >> }]
  /\ oxts = NoFrames /\ lidar = NoScans
  /\ reading = InList("oxts", 0)

-----------------------------------------------------------------------------
\* The GPS reader.  The first frame that is parsed is the origin of all positions.

NextDriveFile == reading' = InList(reading.what, reading.index + 1)

SkipFile ==
  /\ HasFile("oxts") /\ drive.oxts[DriveFile] = Malformed
  /\ oxts' = [oxts EXCEPT !.skipped = @ + 1]
  /\ NextDriveFile /\ UNCHANGED << drive, lidar >>

AnchorOf(position) == IF oxts.parsed = 0 THEN position ELSE oxts.anchor

\* Time runs with the files that are read.
TimesOfParsed(index) == oxts.parsed * SampleTime
Timestamp(index) == index * SampleTime

ParseFile ==
  /\ HasFile("oxts") /\ drive.oxts[DriveFile] # Malformed
  /\ LET position == drive.oxts[DriveFile]
         frame == [file |-> DriveFile, time |-> Timestamp(reading.index),
                   enu |-> Difference(position, AnchorOf(position))]
     IN  oxts' = [oxts EXCEPT !.anchor = AnchorOf(position), !.frames = Append(@, frame), !.parsed = @ + 1]
  /\ NextDriveFile /\ UNCHANGED << drive, lidar >>

-----------------------------------------------------------------------------
\* The LiDAR reader, which KittiSequence::load calls after the GPS reader.

StartScans ==
  /\ reading.what = "oxts" /\ ~HasFile("oxts")
  /\ \E dir \in VelodyneDirectories : drive' = [drive EXCEPT !.velodyne = dir]
  /\ reading' = InList("velodyne", 0)
  /\ UNCHANGED << oxts, lidar >>

\* A scan whose size is no multiple of 16 bytes throws and is only counted; one
\* that differs from its checksum is counted and kept.
ReadScan ==
  /\ HasFile("velodyne")
  /\ lidar' = IF drive.velodyne[DriveFile] = "cut"
              THEN [lidar EXCEPT !.failed = @ + 1]
              ELSE [lidar EXCEPT !.frames = Append(@, [file |-> DriveFile, index |-> reading.index]),
                                 !.read = @ + 1, !.mismatches = @ + (IF drive.velodyne[DriveFile] = "mismatch" THEN 1 ELSE 0)]
  /\ NextDriveFile /\ UNCHANGED << drive, oxts >>

Loaded == reading.what = "velodyne" /\ ~HasFile("velodyne")

SequenceNext == SkipFile \/ ParseFile \/ StartScans \/ ReadScan

SequenceSpec == SequenceInit /\ [][SequenceNext]_sequenceVars

-----------------------------------------------------------------------------
\* What the loaded sequence answers.

FrameCount == Max({ Len(oxts.frames), Len(lidar.frames) })
HasBoth(i) == i <= Len(oxts.frames) /\ i <= Len(lidar.frames)
GetFrame(i) == [oxts |-> oxts.frames[i], lidar |-> lidar.frames[i]]

TotalFrames ==
  IF lidar.frames = << >> THEN Len(oxts.frames) ELSE Min({ Len(oxts.frames), Len(lidar.frames) })

-----------------------------------------------------------------------------
\* "Synchronized accessor: pairs OXTS and LiDAR by shared index" (kitti_sequence.hpp:69):
\* whatever the readers left out, the two records of a frame are from files of one index.
PairsShareAnIndex ==
  \A i \in 1..TotalFrames : HasBoth(i) => GetFrame(i).oxts.file = GetFrame(i).lidar.file

\* The files are numbered from 0, and those up to this one are all in the directory.
NoneMissing(n) == 0..n \subseteq DOMAIN drive.oxts

\* A file that is left out as malformed is a hole in the time line and nothing else: every
\* file that could be read is a frame, the frames are in the order of the recording and at
\* least one sample time apart, and every position is relative to the first frame.  The
\* time is that of the index in the file name as long as no file is missing.  Behind a
\* missing file it is less: the code counts the files, where its comment says "Timestamp
\* derived from filename index" (kitti_oxts_importer.cpp:126).  The GPS and the LiDAR
\* record of a frame are from files of one index if none was left out by either reader;
\* what the class says beyond that is PairsShareAnIndex, which does not hold
\* (kitti_oxts_importer.cpp:90-145, kitti_sequence.hpp:52-117).
FramesKeepTheirTime ==
  /\ reading.what = "velodyne" =>
       /\ { f.file : f \in ToSet(oxts.frames) } = { n \in DOMAIN drive.oxts : drive.oxts[n] # Malformed }
       /\ oxts.parsed + oxts.skipped = Cardinality(DOMAIN drive.oxts)
       /\ \A i \in DOMAIN oxts.frames :
            NoneMissing(oxts.frames[i].file) => oxts.frames[i].time = oxts.frames[i].file * SampleTime
       /\ \A i, k \in DOMAIN oxts.frames :
            LET f == oxts.frames[i]
                g == oxts.frames[k]
            IN  i < k =>
                  /\ f.file < g.file
                  /\ f.time + SampleTime <= g.time
                  /\ Difference(g.enu, f.enu) = Difference(drive.oxts[g.file], drive.oxts[f.file])
       /\ oxts.frames # << >> => oxts.frames[1].enu = << 0, 0 >>
  /\ Loaded /\ oxts.skipped = 0 /\ lidar.failed = 0 /\ DOMAIN drive.oxts = DOMAIN drive.velodyne =>
       PairsShareAnIndex /\ TotalFrames = FrameCount
=============================================================================
