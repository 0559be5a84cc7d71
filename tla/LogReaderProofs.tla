-------------------------- MODULE LogReaderProofs --------------------------
(***************************************************************************)
(* Readers of a log that is not cleaned, as the broker's are not, with one *)
(* appender: for every segment size, message set, buffer length and number *)
(* of readers, a reader starts at a record at or before the offset it was  *)
(* asked for, and the bytes it delivers are consecutive bytes of the log,  *)
(* whatever is appended between its steps.                                 *)
(*                                                                         *)
(* What a reader relies on is said of the files, the segments and the base *)
(* offsets it sees (ReaderOK).  The log only grows (Grown): the address of *)
(* a byte that is there does not change, since only the last file grows    *)
(* and a new file comes after it.                                          *)
(***************************************************************************)
EXTENDS LogReader, CommitLogProofs, SegmentFileProofs

\* Broker.startReplica opens its logs with MaxLogBytes -1.
NeverCleaned == MaxLogBytes = -1

-----------------------------------------------------------------------------
\* The log a reader sees.

\* From dir to new, files got longer or were added, and the bytes that were there
\* are where they were.
Grown(dir, new) ==
  \A b \in DOMAIN dir :
    /\ b \in DOMAIN new
    /\ BytesBefore(new, b) = BytesBefore(dir, b)
    /\ FileEnd(dir[b]) <= FileEnd(new[b])
    /\ \A k \in DOMAIN dir[b] : k \in DOMAIN new[b] /\ new[b][k] = dir[b][k]

\* The segments snap are the first of segs.
Prefix(snap, segs) == \A i \in DOMAIN snap : i \in DOMAIN segs /\ snap[i] = segs[i]

\* No record starts beyond the end of its file.
InFile(dir) == \A b \in DOMAIN dir : \A k \in DOMAIN dir[b] : dir[b][k].at <= FileEnd(dir[b])

\* What a step of the log may do.
LogGrows ==
  /\ Grown(disk, disk') /\ (InFile(disk) => InFile(disk'))
  /\ Prefix(segments, segments')
  /\ \A i \in DOMAIN segments : BaseOffset'[segments[i]] = BaseOffset[segments[i]]

\* The log's files are a directory, before and after a step.
LEMMA DiskIsDir == ASSUME TypeOK PROVE IsDir(disk)
  BY FileEndType DEF TypeOK, IsDir
LEMMA DiskIsDirNext == ASSUME TypeOK' PROVE IsDir(disk')
  BY FileEndType DEF TypeOK, IsDir

\* Nothing grows when nothing is written.
LEMMA GrownSame ==
  ASSUME NEW dir, IsDir(dir), NEW new, IsDir(new),
         DOMAIN new = DOMAIN dir /\ \A b \in DOMAIN dir : new[b] = dir[b]
  PROVE  Grown(dir, new)
<1>1. \A b \in DOMAIN dir : FileEnd(dir[b]) <= FileEnd(new[b]) /\ b \in Nat
  BY DEF IsDir
<1>2. \A b : Size(dir, b) = Size(new, b)
  BY Zenon DEF Size
<1>3. \A b \in DOMAIN dir : BytesBefore(new, b) = BytesBefore(dir, b)
  BY <1>1, <1>2, BytesSame
<1> QED
  BY <1>1, <1>3, Zenon DEF Grown

\* A new, empty file moves no byte.
LEMMA CreateGrows ==
  ASSUME SingleAppender, IInv, IInv', NEW a \in Appenders, SplitNewSegment(a)
  PROVE  LogGrows
<1>0. PICK x, len, new : Created(a, x, len, new)
  BY CreateEffect
<1>1. /\ x \in Nat /\ x \notin DOMAIN disk /\ segments' = segments
      /\ disk' = [c \in DOMAIN disk \cup {x} |-> IF c = x THEN <<>> ELSE disk[c]]
  BY <1>0 DEF Created
<1>2. \A s \in Objects : BaseOffset'[s] = BaseOffset[s]
  BY <1>0, Zenon DEF Created
<1>3. IsDir(disk) /\ IsDir(disk')
  BY DiskIsDir, DiskIsDirNext DEF IInv
<1>4. /\ DOMAIN disk' = DOMAIN disk \cup {x} /\ disk'[x] = <<>>
      /\ \A b \in DOMAIN disk : disk'[b] = disk[b]
  BY <1>1
<1>5. FileEnd(<<>>) = 0 /\ DOMAIN <<>> = {}
  BY DEF FileEnd
<1>6. \A b : Size(disk', b) = Size(disk, b)
  BY <1>1, <1>4, <1>5, Zenon DEF Size
<1>7. \A b \in DOMAIN disk : b \in Nat
  BY <1>3 DEF IsDir
<1>8. \A b \in DOMAIN disk : BytesBefore(disk', b) = BytesBefore(disk, b)
  BY <1>3, <1>6, <1>7, BytesSame
<1>9. Grown(disk, disk')
  <2>1. \A b \in DOMAIN disk : FileEnd(disk[b]) <= FileEnd(disk'[b])
    BY <1>3, <1>4 DEF IsDir
  <2> QED
    BY <1>4, <1>8, <2>1, Zenon DEF Grown
<1>10. InFile(disk) => InFile(disk')
  BY <1>4, <1>5, Zenon DEF InFile
<1>11. \A i \in DOMAIN segments : BaseOffset'[segments[i]] = BaseOffset[segments[i]]
  BY <1>2, SegmentTypes DEF IInv
<1>12. Prefix(segments, segments')
  BY <1>1, Zenon DEF Prefix
<1> QED
  BY <1>9, <1>10, <1>11, <1>12, Zenon DEF LogGrows

\* Outside a split the last segment has the greatest base offset of the files.
LEMMA LastFile ==
  ASSUME SingleAppender, IInv, NEW a \in Appenders, pc[a] = "write", NEW b \in DOMAIN disk
  PROVE  b <= BaseOffset[active] /\ b \in Nat /\ BaseOffset[active] \in Nat
<1>1. Appenders = {a}
  BY DEF SingleAppender
<1> DEFINE n == Len(segments)
<1>2. n \in DOMAIN segments /\ active = segments[n]
  BY <1>1 DEF IInv, TypeOK, ActiveOK, SegmentsOK, Busy
<1>3. PICK i \in DOMAIN segments : b = BaseOffset[segments[i]]
  BY <1>1 DEF IInv, FilesOK
<1>4. /\ i \in Nat /\ n \in Nat /\ i <= n
      /\ BaseOffset[segments[i]] \in Nat /\ NextOffset[segments[i]] \in Nat
      /\ BaseOffset[segments[n]] \in Nat
  BY <1>2, <1>3, SegmentTypes DEF IInv
<1>5. i < n => /\ BaseOffset[segments[i]] < NextOffset[segments[i]]
               /\ NextOffset[segments[i]] <= BaseOffset[segments[n]]
  BY <1>2, <1>3 DEF IInv, SegmentsOK
<1> HIDE DEF n
<1> QED
  BY <1>2, <1>3, <1>4, <1>5

\* A record goes to the end of the last file.
LEMMA WriteGrows ==
  ASSUME SingleAppender, IInv, IInv', NEW a \in Appenders, SegmentWrite(a)
  PROVE  LogGrows
<1>0. PICK f, r : Wrote(a, f, r)
  BY WriteEffect
<1> DEFINE x == BaseOffset[active]
<1>1. /\ x \in DOMAIN disk /\ f = disk[x] /\ f \in Seq(Records) /\ r \in Records
      /\ r.at = FileEnd(f) /\ FileEnd(f) \in Nat /\ pc[a] = "write"
      /\ segments' = segments /\ BaseOffset' = BaseOffset
  BY <1>0 DEF Wrote
<1>2. disk' = [c \in DOMAIN disk |-> IF c = x THEN Append(f, r) ELSE disk[c]]
  BY <1>0, Zenon DEF Wrote
<1>3. IsDir(disk) /\ IsDir(disk')
  BY DiskIsDir, DiskIsDirNext DEF IInv
<1>4. /\ DOMAIN disk' = DOMAIN disk /\ disk'[x] = Append(f, r)
      /\ \A b \in DOMAIN disk : b # x => disk'[b] = disk[b]
  BY <1>1, <1>2
<1>5. r.len \in Nat
  BY <1>1, LensAssumption, Zenon DEF Records
<1>6. /\ Len(f) \in Nat /\ Len(Append(f, r)) = Len(f) + 1
      /\ Append(f, r)[Len(f) + 1] = r
      /\ \A k \in 1 .. Len(f) : Append(f, r)[k] = f[k]
      /\ FileEnd(Append(f, r)) = r.at + r.len
  BY <1>1, AppendRecord
<1>7. /\ DOMAIN f = 1 .. Len(f) /\ DOMAIN Append(f, r) = 1 .. Len(f) + 1
      /\ FileEnd(f) <= FileEnd(Append(f, r)) /\ r.at <= FileEnd(Append(f, r))
  BY <1>1, <1>5, <1>6
<1>8. \A b \in DOMAIN disk : b <= x /\ b \in Nat /\ x \in Nat
  BY <1>1, LastFile
<1> HIDE DEF x
<1>9. ASSUME NEW b \in DOMAIN disk PROVE BytesBefore(disk', b) = BytesBefore(disk, b)
  <2>1. b \in Nat /\ \A c \in 0 .. b - 1 : c # x
    BY <1>8
  <2>2. \A c \in 0 .. b - 1 : Size(disk, c) = Size(disk', c)
    BY <1>4, <2>1, Zenon DEF Size
  <2> QED
    BY <1>3, <2>1, <2>2, BytesSame
<1>10. ASSUME NEW b \in DOMAIN disk
       PROVE  /\ FileEnd(disk[b]) <= FileEnd(disk'[b])
              /\ \A k \in DOMAIN disk[b] : k \in DOMAIN disk'[b] /\ disk'[b][k] = disk[b][k]
  <2>1. CASE b = x
    <3>1. disk[b] = f /\ disk'[b] = Append(f, r)
      BY <1>1, <1>4, <2>1 DEF x
    <3>2. \A k \in DOMAIN f : k \in DOMAIN Append(f, r) /\ Append(f, r)[k] = f[k]
      BY <1>6, <1>7
    <3> QED
      BY <1>7, <3>1, <3>2, Zenon
  <2>2. CASE b # x
    BY <1>3, <1>4, <2>2 DEF IsDir
  <2> QED
    BY <2>1, <2>2
<1>11. Grown(disk, disk')
  BY <1>4, <1>9, <1>10, Zenon DEF Grown
<1>12. ASSUME InFile(disk) PROVE InFile(disk')
  <2> SUFFICES ASSUME NEW b \in DOMAIN disk', NEW k \in DOMAIN disk'[b]
               PROVE  disk'[b][k].at <= FileEnd(disk'[b])
    BY DEF InFile
  <2>1. CASE b # x
    BY <1>4, <1>12, <2>1, Zenon DEF InFile
  <2>2. CASE b = x /\ k = Len(f) + 1
    BY <1>4, <1>6, <1>7, <2>2, Zenon
  <2>3. CASE b = x /\ k # Len(f) + 1
    <3>1. k \in 1 .. Len(f) /\ disk'[b][k] = f[k]
      BY <1>4, <1>6, <1>7, <2>3
    <3>2. f[k].at <= FileEnd(f)
      BY <1>1, <1>7, <1>12, <3>1, Zenon DEF InFile
    <3>3. f[k].at \in Nat
      <4>1. f[k] \in Records
        BY <1>1, <3>1
      <4> QED
        BY <4>1, Zenon DEF Records
    <3>4. disk'[b] = Append(f, r)
      BY <1>4, <2>3
    <3>5. \A i, j, k1 \in Nat : i <= j => i <= j + k1
      OBVIOUS
    <3>6. f[k].at <= FileEnd(f) + r.len
      BY <1>1, <1>5, <3>2, <3>3, <3>5, Zenon
    <3> QED
      BY <1>1, <1>6, <3>1, <3>4, <3>6, Zenon
  <2> QED
    BY <2>1, <2>2, <2>3
<1> QED
  BY <1>1, <1>11, <1>12, Zenon DEF LogGrows, Prefix

\* A cleaner without a retention size drops nothing.
LEMMA CleanGrows ==
  ASSUME SingleAppender, NeverCleaned, IInv, IInv', NEW a \in Appenders, SplitClean(a)
  PROVE  LogGrows
<1>0. PICK segs, n, first : Cleaned(a, segs, n, first)
  BY CleanEffect
<1>1. /\ n \in Nat /\ n = Len(segments) /\ segments \in Seq(Objects) /\ first \in 1 .. n + 1
      /\ segs \in Seq(Objects) /\ Len(segs) = n + 1
      /\ DOMAIN segments' = 1 .. n + 2 - first /\ BaseOffset' = BaseOffset
  BY <1>0 DEF Cleaned, ToClean
<1>2. first - 1 \notin DOMAIN segs
  BY <1>0, Zenon DEF Cleaned, ToClean, FirstKept, Kept, NeverCleaned
<1>3. first = 1
  BY <1>1, <1>2
<1>4. {segs[i] : i \in 1 .. first - 1} = {}
  BY <1>3
<1>5. disk' = [b \in DOMAIN disk \ {BaseOffset[s] : s \in {segs[i] : i \in 1 .. first - 1}} |-> disk[b]]
  BY <1>0, Zenon DEF Cleaned, ToClean
<1>6. disk' = [b \in DOMAIN disk |-> disk[b]]
  BY <1>4, <1>5
<1>7. DOMAIN disk' = DOMAIN disk /\ \A b \in DOMAIN disk : disk'[b] = disk[b]
  BY <1>6
<1>8. \A k \in 1 .. n + 1 : segments'[k] = segs[k]
  <2>1. \A k \in 1 .. n + 2 - first : segments'[k] = segs[first + k - 1]
    BY <1>0, Zenon DEF Cleaned, ToClean
  <2>2. \A k \in 1 .. n + 1 : k \in 1 .. n + 2 - first /\ first + k - 1 = k
    BY <1>1, <1>3
  <2> QED
    BY <2>1, <2>2
<1>9. \A i \in 1 .. n : i \in DOMAIN segments /\ segs[i] = segments[i]
  BY <1>0, Zenon DEF Cleaned, ToClean
<1>10. DOMAIN segments = 1 .. n /\ \A i \in 1 .. n : i \in 1 .. n + 1 /\ i \in DOMAIN segments'
  BY <1>1, <1>3
<1>11. Prefix(segments, segments')
  BY <1>8, <1>9, <1>10, Zenon DEF Prefix
<1>12. Grown(disk, disk')
  BY <1>7, GrownSame, DiskIsDir, DiskIsDirNext DEF IInv
<1>13. InFile(disk) => InFile(disk')
  BY <1>7, Zenon DEF InFile
<1> QED
  BY <1>1, <1>11, <1>12, <1>13, Zenon DEF LogGrows

\* Every step of Append makes the log grow.
LEMMA NextGrows ==
  ASSUME SingleAppender, NeverCleaned, IInv, IInv', [Next]_vars
  PROVE  LogGrows
<1>1. ASSUME UNCHANGED <<disk, BaseOffset, segments>> PROVE LogGrows
  <2>1. Grown(disk, disk')
    BY <1>1, GrownSame, DiskIsDir, DiskIsDirNext DEF IInv
  <2> QED
    BY <1>1, <2>1, Zenon DEF LogGrows, Prefix
<1>2. CASE UNCHANGED vars
  BY <1>1, <1>2 DEF vars, files, heap
<1>3. ASSUME NEW a \in Appenders, AppendStep(a) PROVE LogGrows
  <2>1. CASE \/ \E v \in Values, n \in Lens : CheckSplit(a, v, n)
             \/ SplitStoreActive(a) \/ AppendPosition(a) \/ AppendPutOffset(a) \/ IndexWriteEntry(a)
    <3>1. UNCHANGED <<disk, BaseOffset, segments>>
      BY <2>1, Zenon
         DEF CheckSplit, SplitStoreActive, AppendPosition, AppendPutOffset, IndexWriteEntry, files, heap
    <3> QED
      BY <1>1, <3>1
  <2> QED
    BY <1>3, <2>1, CreateGrows, WriteGrows, CleanGrows DEF AppendStep
<1> QED
  BY <1>2, <1>3 DEF Next

-----------------------------------------------------------------------------
\* The readers.

RLabels == {"none", "entry", "ready", "reading"}
ReaderStates ==
  [wanted : Nat, snap : Seq(Nat), idx : Nat, pos : Nat, left : Nat, start : Nat, got : Nat]

\* The first byte delivered is the first of a record at or before the offset wanted.
Started(dir, R) ==
  \E b \in DOMAIN dir :
    \/ R.start = BytesBefore(dir, b) + 0 /\ b <= R.wanted
    \/ \E k \in DOMAIN dir[b] :
         R.start = BytesBefore(dir, b) + dir[b][k].at /\ dir[b][k].off <= R.wanted

\* The reader is in the file of b, after the bytes it has delivered.
Placed(dir, b, R) == R.pos <= FileEnd(dir[b]) /\ BytesBefore(dir, b) + R.pos = R.start + R.got

\* A reader's segments are the first of the log's.  NewReader has found one that
\* does not begin after the offset; from then on the reader is in its place.
ReaderOK(dir, segs, bases, label, R) ==
  label # "none" =>
    /\ R.idx \in DOMAIN R.snap /\ Prefix(R.snap, segs)
    /\ label = "entry" => bases[R.snap[R.idx]] <= R.wanted /\ R.got = 0
    /\ label \in {"ready", "reading"} => Placed(dir, bases[R.snap[R.idx]], R) /\ Started(dir, R)

\* The log starts at offset 0, and every reader is all right.
RInv ==
  /\ rpc \in [Readers -> RLabels] /\ rd \in [Readers -> ReaderStates]
  /\ InFile(disk) /\ BaseOffset[segments[1]] = 0
  /\ \A r \in Readers : ReaderOK(disk, segments, BaseOffset, rpc[r], rd[r])

\* The segment a reader is in.
LEMMA ReaderSegment ==
  ASSUME IInv, NEW R, R.idx \in DOMAIN R.snap, Prefix(R.snap, segments)
  PROVE  /\ R.idx \in DOMAIN segments /\ R.snap[R.idx] = segments[R.idx]
         /\ R.snap[R.idx] \in Objects /\ SegmentOK(R.snap[R.idx])
         /\ BaseOffset[R.snap[R.idx]] \in DOMAIN disk /\ BaseOffset[R.snap[R.idx]] \in Nat
<1>1. R.idx \in DOMAIN segments /\ R.snap[R.idx] = segments[R.idx]
  BY Zenon DEF Prefix
<1>2. segments[R.idx] \in Objects /\ BaseOffset[segments[R.idx]] \in Nat
  BY <1>1, SegmentTypes DEF IInv
<1>3. SegmentOK(segments[R.idx])
  BY <1>1 DEF IInv, SegmentsOK
<1> QED
  BY <1>1, <1>2, <1>3 DEF SegmentOK

\* A step of the log leaves a reader all right.
LEMMA GrowsReaderOK ==
  ASSUME IInv, IInv', LogGrows, NEW label, NEW R \in ReaderStates,
         ReaderOK(disk, segments, BaseOffset, label, R)
  PROVE  ReaderOK(disk', segments', BaseOffset', label, R)
<1> SUFFICES ASSUME label # "none" PROVE ReaderOK(disk', segments', BaseOffset', label, R)
  BY DEF ReaderOK
<1> DEFINE b == BaseOffset[R.snap[R.idx]]
<1>1. R.idx \in DOMAIN R.snap /\ Prefix(R.snap, segments)
  BY DEF ReaderOK
<1>2. R.idx \in DOMAIN segments /\ R.snap[R.idx] = segments[R.idx] /\ b \in DOMAIN disk
  BY <1>1, ReaderSegment
<1>3. BaseOffset'[R.snap[R.idx]] = b
  BY <1>2 DEF LogGrows
<1>4. Prefix(R.snap, segments')
  BY <1>1, Zenon DEF LogGrows, Prefix
<1>5. IsDir(disk) /\ IsDir(disk')
  BY DiskIsDir, DiskIsDirNext DEF IInv
<1>6. Grown(disk, disk')
  BY DEF LogGrows
<1> HIDE DEF b
<1>7. ASSUME Placed(disk, b, R) PROVE Placed(disk', b, R)
  <2>1. /\ b \in DOMAIN disk' /\ BytesBefore(disk', b) = BytesBefore(disk, b)
        /\ FileEnd(disk[b]) <= FileEnd(disk'[b])
    BY <1>2, <1>6, Zenon DEF Grown
  <2>2. FileEnd(disk[b]) \in Nat /\ FileEnd(disk'[b]) \in Nat /\ R.pos \in Nat
    BY <1>2, <1>5, <2>1 DEF IsDir, ReaderStates
  <2> QED
    BY <1>7, <2>1, <2>2 DEF Placed
<1>8. ASSUME Started(disk, R) PROVE Started(disk', R)
  BY <1>6, <1>8, Zenon DEF Started, Grown
<1> QED
  BY <1>1, <1>3, <1>4, <1>7, <1>8, Zenon DEF ReaderOK, b

\* A step of a reader changes that reader only, and leaves it all right.
ReaderMoves(r) ==
  /\ UNCHANGED vars
  /\ \E label \in RLabels, R \in ReaderStates :
       /\ rpc' = [rpc EXCEPT ![r] = label] /\ rd' = [rd EXCEPT ![r] = R]
       /\ ReaderOK(disk, segments, BaseOffset, label, R)

\* The segments are a sequence of numbers, and their own prefix.
LEMMA SegmentsSeq ==
  ASSUME IInv
  PROVE  /\ segments \in Seq(Nat) /\ DOMAIN segments = 1 .. Len(segments) /\ Len(segments) \in Nat
         /\ 1 \in DOMAIN segments /\ Prefix(segments, segments)
<1>1. segments \in Seq(Objects) /\ BaseOffset \in Seq(Nat) /\ segments # <<>>
  BY DEF IInv, TypeOK, SegmentsOK
<1>2. Objects \subseteq Nat
  BY <1>1 DEF Objects
<1> HIDE DEF Objects
<1>3. \A S, T, q : S \subseteq T /\ q \in Seq(S) => q \in Seq(T)
  OBVIOUS
<1>4. segments \in Seq(Nat)
  BY <1>1, <1>2, <1>3, Zenon
<1>5. DOMAIN segments = 1 .. Len(segments) /\ Len(segments) \in Nat /\ Len(segments) # 0
  BY <1>1, <1>4
<1>6. 1 \in DOMAIN segments
  BY <1>5
<1>7. Prefix(segments, segments)
  BY Zenon DEF Prefix
<1> QED
  BY <1>4, <1>5, <1>6, <1>7

\* NewReader finds a segment that does not begin after the offset: the first one,
\* which begins at 0, or the one after a segment that ends at or before it.
LEMMA NewReaderSegmentMoves ==
  ASSUME IInv, RInv, NEW r \in Readers, NEW offset \in 0 .. MaxOffset, NewReaderSegment(r, offset)
  PROVE  ReaderMoves(r)
<1> DEFINE nexts == [i \in DOMAIN segments |-> NextOffset[segments[i]]]
           found == IF offset = 0 THEN 1 ELSE FindSegment(nexts, offset)
           R == [NoReader EXCEPT !.wanted = offset, !.snap = segments, !.idx = found]
<1>1. /\ found # 0 /\ UNCHANGED vars
      /\ rd' = [rd EXCEPT ![r] = R] /\ rpc' = [rpc EXCEPT ![r] = "entry"]
  BY DEF NewReaderSegment, RGoto
<1>2. offset \in Nat /\ BaseOffset[segments[1]] = 0
  BY MaxOffsetAssumption DEF RInv
<1>3. /\ segments \in Seq(Nat) /\ DOMAIN segments = 1 .. Len(segments) /\ Len(segments) \in Nat
      /\ 1 \in DOMAIN segments /\ Prefix(segments, segments)
  BY SegmentsSeq
<1>4. \A i \in DOMAIN segments : NextOffset[segments[i]] \in Nat /\ BaseOffset[segments[i]] \in Nat
  BY SegmentTypes DEF IInv
<1>5. nexts \in Seq(Nat) /\ Len(nexts) = Len(segments)
  BY <1>3, <1>4
<1>6. found \in DOMAIN segments /\ BaseOffset[segments[found]] <= offset
  <2>1. CASE offset = 0
    BY <1>2, <1>3, <2>1
  <2>2. CASE offset # 0 /\ found = 1
    BY <1>2, <1>3, <2>2
  <2>3. CASE offset # 0 /\ found # 1
    <3>1. found = FindSegment(nexts, offset)
      BY <2>3
    <3> HIDE DEF found, nexts
    <3>2. found \in 0 .. Len(nexts) /\ nexts[found - 1] <= offset
      BY <1>1, <1>2, <1>5, <2>3, <3>1, FindSegmentBorder, Zenon
    <3>3. found \in DOMAIN segments /\ found - 1 \in DOMAIN segments /\ found - 1 < found /\ found = (found - 1) + 1
      BY <1>1, <1>3, <1>5, <2>3, <3>2
    <3>4. nexts[found - 1] = NextOffset[segments[found - 1]]
      BY <3>3 DEF nexts
    <3>5. NextOffset[segments[found - 1]] = BaseOffset[segments[found]]
      BY <3>3, Zenon DEF IInv, SegmentsOK
    <3> QED
      BY <3>2, <3>3, <3>4, <3>5, Zenon
  <2> QED
    BY <2>1, <2>2, <2>3, Zenon
<1>7. found \in Nat
  BY <1>3, <1>6
<1> HIDE DEF found
<1>8. R \in ReaderStates /\ R.wanted = offset /\ R.snap = segments /\ R.idx = found /\ R.got = 0
  BY <1>2, <1>3, <1>7, Zenon DEF NoReader, ReaderStates
<1> HIDE DEF R
<1>9. ReaderOK(disk, segments, BaseOffset, "entry", R)
  BY <1>3, <1>6, <1>8 DEF ReaderOK
<1> QED
  BY <1>1, <1>8, <1>9, Zenon DEF ReaderMoves, RLabels

\* A file f, of a segment that begins at b, and its index ix.
FileIndex(f, ix, b) ==
  /\ f \in Seq(Records) /\ FileEnd(f) \in Nat /\ ix \in Seq(Entries) /\ b \in Nat
  /\ Len(ix) <= Len(f) /\ \A k \in DOMAIN ix : ix[k] = [off |-> f[k].off, pos |-> f[k].at]
  /\ \A k \in DOMAIN f : f[k].off = b + k - 1 /\ f[k].at <= FileEnd(f)

\* Entry e is the place of a record of f that is not past the offset, or the
\* beginning of f.
InPlace(f, wanted, e) ==
  /\ e.pos \in Nat /\ e.pos <= FileEnd(f)
  /\ e.pos = 0 \/ \E k \in DOMAIN f : e.pos = f[k].at /\ f[k].off <= wanted

\* findEntry returns such an entry.
LEMMA EntryPlace ==
  ASSUME NEW f, NEW ix, NEW b, FileIndex(f, ix, b),
         NEW wanted \in Nat, b <= wanted, FindEntry(ix, wanted) # NoEntry
  PROVE  InPlace(f, wanted, FindEntry(ix, wanted))
<1> DEFINE e == FindEntry(ix, wanted)
<1>1. \A k \in DOMAIN ix : ix[k] = [off |-> f[k].off, pos |-> f[k].at]
  BY Zenon DEF FileIndex
<1>2. /\ Len(ix) \in Nat /\ DOMAIN ix = 1 .. Len(ix) /\ Len(ix) <= Len(f)
      /\ Len(f) \in Nat /\ DOMAIN f = 1 .. Len(f) /\ FileEnd(f) \in Nat /\ b \in Nat
  BY DEF FileIndex
<1>3. \A k \in DOMAIN ix : k \in DOMAIN f
  BY <1>2
<1>4. \A k \in DOMAIN ix : ix[k].off = f[k].off /\ ix[k].pos = f[k].at
  BY <1>1
<1>5. Dense(ix, b)
  BY <1>2, <1>3, <1>4, Zenon DEF Dense, FileIndex
<1>6. e = ZeroEntry \/ \E k \in DOMAIN ix : e = ix[k] /\ ix[k].off <= wanted
  BY <1>2, <1>5, FindEntryAtOrBefore
<1> HIDE DEF e
<1>7. CASE e = ZeroEntry
  <2>1. e.pos = 0
    BY <1>7 DEF ZeroEntry
  <2> QED
    BY <1>2, <2>1 DEF e, InPlace
<1>8. CASE \E k \in DOMAIN ix : e = ix[k] /\ ix[k].off <= wanted
  <2>1. PICK k \in DOMAIN ix : e = ix[k] /\ ix[k].off <= wanted
    BY <1>8
  <2>2. k \in DOMAIN f /\ e.pos = f[k].at /\ f[k].off <= wanted
    BY <1>3, <1>4, <2>1, Zenon
  <2>3. f[k].at \in Nat
    <3>1. f[k] \in Records
      BY <2>2 DEF FileIndex
    <3>2. \A q \in Records : q.at \in Nat
      BY DEF Records
    <3> QED
      BY <3>1, <3>2, Zenon
  <2> QED
    BY <2>2, <2>3, Zenon DEF e, InPlace, FileIndex
<1> QED
  BY <1>6, <1>7, <1>8, Zenon

\* NewReader starts at an entry that is not past the offset, or at the first byte
\* of a segment that is not.
LEMMA NewReaderEntryMoves ==
  ASSUME LogInv, RInv, NEW r \in Readers, NewReaderEntry(r)
  PROVE  ReaderMoves(r)
<1> DEFINE O == rd[r]
           s == O.snap[O.idx]
           b == BaseOffset[s]
           e == FindEntry(Index[s], O.wanted)
           start == BytesBefore(disk, b) + e.pos
           R == [O EXCEPT !.pos = e.pos, !.start = start]
<1>1. rpc[r] = "entry" /\ UNCHANGED vars
  BY DEF NewReaderEntry
<1>2. IInv /\ O \in ReaderStates /\ ReaderOK(disk, segments, BaseOffset, "entry", O)
  BY <1>1, Zenon DEF LogInv, RInv
<1>3. O.idx \in DOMAIN O.snap /\ Prefix(O.snap, segments) /\ b <= O.wanted /\ O.got = 0
  BY <1>2, Zenon DEF ReaderOK
<1>4. /\ O.idx \in DOMAIN segments /\ s = segments[O.idx] /\ s \in Objects
      /\ SegmentOK(s) /\ b \in DOMAIN disk /\ b \in Nat
  BY <1>2, <1>3, ReaderSegment
<1>5. CASE e = NoEntry
  <2>1. rd' = [rd EXCEPT ![r] = NoReader] /\ rpc' = [rpc EXCEPT ![r] = "none"]
    BY <1>5, Zenon DEF NewReaderEntry, RGoto
  <2>2. NoReader \in ReaderStates
    BY DEF NoReader, ReaderStates
  <2>3. ReaderOK(disk, segments, BaseOffset, "none", NoReader)
    BY DEF ReaderOK
  <2> QED
    BY <1>1, <2>1, <2>2, <2>3, Zenon DEF ReaderMoves, RLabels
<1>6. CASE e # NoEntry
  <2>1. rd' = [rd EXCEPT ![r] = R] /\ rpc' = [rpc EXCEPT ![r] = "ready"]
    BY <1>6, Zenon DEF NewReaderEntry, RGoto, Address
  <2>2. IsDir(disk) /\ disk[b] \in Seq(Records) /\ Index[s] \in Seq(Entries) /\ O.wanted \in Nat
    BY <1>2, <1>4, DiskIsDir, Zenon DEF IInv, TypeOK, ReaderStates
  <2>3. BytesBefore(disk, b) \in Nat /\ FileEnd(disk[b]) \in Nat
    BY <1>4, <2>2, BytesStep, Zenon DEF IsDir
  <2>4. /\ Len(Index[s]) <= Len(disk[b])
        /\ \A k \in DOMAIN Index[s] : Index[s][k] = [off |-> disk[b][k].off, pos |-> disk[b][k].at]
    <3>1. Indexed(s)
      BY <1>4, Zenon DEF LogInv, IndexOK
    <3>2. Len(Index[s]) = Len(disk[b]) - Missing(s)
      BY <3>1, Zenon DEF Indexed, ExactIndex, File
    <3>3. Missing(s) \in {0, 1}
      BY Zenon DEF Missing
    <3>4. Len(disk[b]) \in Nat
      BY <2>2
    <3>5. Len(Index[s]) <= Len(disk[b])
      BY <3>2, <3>3, <3>4
    <3> QED
      BY <3>1, <3>5, Zenon DEF Indexed, ExactIndex, File
  <2>5. FileIndex(disk[b], Index[s], b)
    BY <1>4, <2>2, <2>3, <2>4, Zenon DEF SegmentOK, RInv, InFile, FileIndex
  <2>6. InPlace(disk[b], O.wanted, e)
    BY <1>3, <1>6, <2>2, <2>5, EntryPlace, Zenon
  <2> HIDE DEF e, b, s
  <2>7. start \in Nat
    BY <2>3, <2>6 DEF InPlace
  <2>8. /\ R \in ReaderStates /\ R.wanted = O.wanted /\ R.snap = O.snap /\ R.idx = O.idx
        /\ R.got = O.got /\ R.pos = e.pos /\ R.start = start
    <3> HIDE DEF start, O
    <3> QED
      BY <1>2, <2>6, <2>7, Zenon DEF ReaderStates, InPlace
  <2> HIDE DEF R
  <2>9. Placed(disk, b, R)
    BY <1>3, <2>3, <2>6, <2>7, <2>8 DEF Placed, InPlace
  <2>10. Started(disk, R)
    <3>1. CASE e.pos = 0
      BY <1>3, <1>4, <2>8, <3>1, Zenon DEF Started
    <3>2. CASE \E k \in DOMAIN disk[b] : e.pos = disk[b][k].at /\ disk[b][k].off <= O.wanted
      BY <1>4, <2>8, <3>2, Zenon DEF Started
    <3> QED
      BY <2>6, <3>1, <3>2 DEF InPlace
  <2>11. ReaderOK(disk, segments, BaseOffset, "ready", R)
    <3>1. BaseOffset[R.snap[R.idx]] = b
      BY <2>8 DEF b, s
    <3> QED
      BY <1>3, <2>8, <2>9, <2>10, <3>1 DEF ReaderOK
  <2> QED
    BY <1>1, <2>1, <2>8, <2>11, ZenonT(30) DEF ReaderMoves, RLabels
<1> QED
  BY <1>5, <1>6, Zenon

\* Read takes the log's segments, which begin with those the reader had.
LEMMA ReadStartMoves ==
  ASSUME IInv, RInv, NEW r \in Readers, NEW n \in ReadSizes, ReadStart(r, n)
  PROVE  ReaderMoves(r)
<1> DEFINE O == rd[r]
           R == [O EXCEPT !.snap = segments, !.left = n]
<1>1. rpc[r] = "ready" /\ UNCHANGED vars /\ rd' = [rd EXCEPT ![r] = R] /\ rpc' = [rpc EXCEPT ![r] = "reading"]
  BY Zenon DEF ReadStart, RGoto
<1>2. O \in ReaderStates /\ ReaderOK(disk, segments, BaseOffset, "ready", O)
  BY <1>1 DEF RInv
<1>3. /\ O.idx \in DOMAIN O.snap /\ Prefix(O.snap, segments)
      /\ Placed(disk, BaseOffset[O.snap[O.idx]], O) /\ Started(disk, O)
  BY <1>2 DEF ReaderOK
<1>4. O.idx \in DOMAIN segments /\ segments[O.idx] = O.snap[O.idx]
  BY <1>3, Zenon DEF Prefix
<1>5. segments \in Seq(Nat) /\ Prefix(segments, segments) /\ n \in Nat
  BY SegmentsSeq, ReadSizesAssumption
<1> HIDE DEF O
<1>6. /\ R \in ReaderStates /\ R.wanted = O.wanted /\ R.snap = segments /\ R.idx = O.idx
      /\ R.got = O.got /\ R.pos = O.pos /\ R.start = O.start
  BY <1>2, <1>5, Zenon DEF ReaderStates
<1> HIDE DEF R
<1>7. Started(disk, R) /\ Placed(disk, BaseOffset[R.snap[R.idx]], R)
  BY <1>3, <1>4, <1>6, Zenon DEF Started, Placed
<1>8. ReaderOK(disk, segments, BaseOffset, "reading", R)
  BY <1>4, <1>5, <1>6, <1>7 DEF ReaderOK
<1> QED
  BY <1>1, <1>6, <1>8, Zenon DEF ReaderMoves, RLabels

\* ReadAt reads what the buffer has room for, or else all the file has.
ReadLength(left, pos, end) == Max({0, Min({left, end - pos})})
LEMMA ReadAtLength ==
  ASSUME NEW left \in Nat, NEW pos \in Nat, NEW end \in Nat, pos <= end
  PROVE  LET n == ReadLength(left, pos, end)
         IN  n \in Nat /\ n <= left /\ pos + n <= end /\ (n # left => pos + n = end)
<1>1. \A i, j \in Int : Min({i, j}) = IF i <= j THEN i ELSE j
  BY DEF Min
<1>2. \A i, j \in Int : Max({i, j}) = IF i <= j THEN j ELSE i
  BY DEF Max
<1>3. Min({left, end - pos}) = IF left <= end - pos THEN left ELSE end - pos
  BY <1>1
<1>4. ReadLength(left, pos, end) = IF left <= end - pos THEN left ELSE end - pos
  BY <1>2, <1>3 DEF ReadLength
<1> QED
  BY <1>4

\* No file lies between those of two segments that follow each other.
LEMMA NextSegment ==
  ASSUME SingleAppender, IInv, NEW i \in DOMAIN segments, i + 1 \in DOMAIN segments
  PROVE  BytesBefore(disk, BaseOffset[segments[i + 1]]) =
           BytesBefore(disk, BaseOffset[segments[i]]) + FileEnd(disk[BaseOffset[segments[i]]])
<1> DEFINE base(j) == BaseOffset[segments[j]]
<1>1. IsDir(disk) /\ base(i) \in DOMAIN disk /\ base(i) \in Nat /\ base(i + 1) \in Nat
  BY DiskIsDir, SegmentTypes DEF IInv, SegmentsOK, SegmentOK
<1>2. /\ i \in Nat /\ DOMAIN segments = 1 .. Len(segments) /\ Len(segments) \in Nat
      /\ \A j \in DOMAIN segments : j \in Nat /\ base(j) \in Nat /\ NextOffset[segments[j]] \in Nat
  BY SegmentsSeq, SegmentTypes DEF IInv
<1>3. ASSUME NEW j \in DOMAIN segments, NEW k \in DOMAIN segments, j < k
      PROVE  base(j) < base(k)
  <2>1. base(j) < NextOffset[segments[j]] /\ NextOffset[segments[j]] <= base(k)
    BY <1>3 DEF IInv, SegmentsOK
  <2> QED
    BY <1>2, <2>1
<1>4. base(i) < base(i + 1)
  <2>1. i < i + 1
    BY <1>2
  <2> QED
    BY <1>3, <2>1
<1>5. ASSUME NEW c \in DOMAIN disk, base(i) < c, c < base(i + 1) PROVE FALSE
  <2>1. CASE \E j \in DOMAIN segments : c = base(j)
    <3>1. PICK j \in DOMAIN segments : c = base(j)
      BY <2>1
    <3>2. j = i \/ j = i + 1 \/ j < i \/ i + 1 < j
      BY <1>2
    <3>3. c \in Nat
      BY <1>2, <3>1
    <3> HIDE DEF base
    <3>4. CASE j = i \/ j = i + 1
      BY <1>1, <1>5, <3>1, <3>4
    <3>5. CASE j < i
      BY <1>1, <1>2, <1>3, <1>5, <3>1, <3>5
    <3>6. CASE i + 1 < j
      BY <1>1, <1>2, <1>3, <1>5, <3>1, <3>6
    <3> QED
      BY <3>2, <3>4, <3>5, <3>6
  <2>2. CASE \E a \in Appenders : pc[a] = "clean" /\ c = BaseOffset[loc[a].seg]
    <3>1. PICK a \in Appenders : pc[a] = "clean" /\ c = BaseOffset[loc[a].seg]
      BY <2>2, Zenon
    <3>2. c = NextOffset[active]
      BY <3>1, Zenon DEF IInv, ActiveOK
    <3>3. active = segments[Len(segments)]
      BY <3>1, Zenon DEF SingleAppender, IInv, ActiveOK, Busy
    <3>4. Len(segments) \in DOMAIN segments /\ (i + 1 = Len(segments) \/ i + 1 < Len(segments))
      BY <1>2
    <3>5. base(i + 1) <= base(Len(segments))
      BY <1>2, <1>3, <3>4
    <3>6. base(Len(segments)) < NextOffset[active]
      BY <3>1, <3>3, Zenon DEF IInv, ActiveOK
    <3>7. c \in Nat /\ base(Len(segments)) \in Nat
      BY <1>2, <3>2, <3>3, <3>4
    <3> HIDE DEF base
    <3> QED
      BY <1>1, <1>5, <3>2, <3>5, <3>6, <3>7
  <2> QED
    BY <2>1, <2>2, Zenon DEF IInv, FilesOK
<1> QED
  BY <1>1, <1>4, <1>5, BytesNextFile

\* What a turn of Read makes of a reader, without and with a change of segment.
ReadBytes(R, n) == [R EXCEPT !.pos = @ + n, !.left = @ - n, !.got = @ + n]
NextFile(R) == [R EXCEPT !.idx = @ + 1, !.pos = 0]

\* A reader counts.
LEMMA ReaderFields ==
  ASSUME NEW R \in ReaderStates
  PROVE  /\ R.wanted \in Nat /\ R.snap \in Seq(Nat) /\ R.idx \in Nat /\ R.pos \in Nat
         /\ R.left \in Nat /\ R.start \in Nat /\ R.got \in Nat
BY DEF ReaderStates

\* The fields of a reader that has read n bytes.
LEMMA ReadFields ==
  ASSUME NEW O \in ReaderStates, NEW n \in Nat, n <= O.left, NEW R, R = ReadBytes(O, n)
  PROVE  /\ R \in ReaderStates /\ R.wanted = O.wanted /\ R.snap = O.snap /\ R.idx = O.idx
         /\ R.got = O.got + n /\ R.pos = O.pos + n /\ R.start = O.start
<1>1. O.pos + n \in Nat /\ O.left - n \in Nat /\ O.got + n \in Nat
  BY ReaderFields
<1> DEFINE W(i, j, k) == [O EXCEPT !.pos = i, !.left = j, !.got = k]
<1>2. ASSUME NEW i \in Nat, NEW j \in Nat, NEW k \in Nat
      PROVE  /\ W(i, j, k) \in ReaderStates /\ W(i, j, k).wanted = O.wanted
             /\ W(i, j, k).snap = O.snap /\ W(i, j, k).idx = O.idx
             /\ W(i, j, k).got = k /\ W(i, j, k).pos = i /\ W(i, j, k).start = O.start
  BY Zenon DEF ReaderStates
<1> DEFINE w == W(O.pos + n, O.left - n, O.got + n)
<1>3. R = w
  BY DEF ReadBytes
<1> HIDE DEF W
<1>4. /\ w \in ReaderStates /\ w.wanted = O.wanted /\ w.snap = O.snap /\ w.idx = O.idx
      /\ w.got = O.got + n /\ w.pos = O.pos + n /\ w.start = O.start
  BY <1>1, <1>2
<1> HIDE DEF w
<1> QED
  BY <1>3, <1>4, Zenon

\* The fields of a reader that has gone to the next segment.
LEMMA NextFields ==
  ASSUME NEW O \in ReaderStates, NEW R, R = NextFile(O)
  PROVE  /\ R \in ReaderStates /\ R.wanted = O.wanted /\ R.snap = O.snap /\ R.idx = O.idx + 1
         /\ R.got = O.got /\ R.pos = 0 /\ R.start = O.start
<1>1. O.idx + 1 \in Nat
  BY ReaderFields
<1> DEFINE W(i) == [O EXCEPT !.idx = i, !.pos = 0]
<1>2. ASSUME NEW i \in Nat
      PROVE  /\ W(i) \in ReaderStates /\ W(i).wanted = O.wanted /\ W(i).snap = O.snap
             /\ W(i).idx = i /\ W(i).got = O.got /\ W(i).pos = 0 /\ W(i).start = O.start
  BY Zenon DEF ReaderStates
<1> DEFINE w == W(O.idx + 1)
<1>3. R = w
  BY DEF NextFile
<1> HIDE DEF W
<1>4. /\ w \in ReaderStates /\ w.wanted = O.wanted /\ w.snap = O.snap /\ w.idx = O.idx + 1
      /\ w.got = O.got /\ w.pos = 0 /\ w.start = O.start
  BY <1>1, <1>2, Zenon
<1> HIDE DEF w
<1> QED
  BY <1>3, <1>4, Zenon

\* A turn of Read delivers the bytes that follow those delivered, and goes to the
\* next segment only at the end of the file.
LEMMA ReadAtMoves ==
  ASSUME SingleAppender, IInv, RInv, NEW r \in Readers, ReadAt(r)
  PROVE  ReaderMoves(r)
<1> DEFINE O == rd[r]
           s == O.snap[O.idx]
           b == BaseOffset[s]
           end == FileEnd(disk[b])
           n == ReadLength(O.left, O.pos, end)
           read == ReadBytes(O, n)
           next == NextFile(read)
<1>1. rpc[r] = "reading" /\ UNCHANGED vars
  BY Zenon DEF ReadAt
<1>2. O \in ReaderStates /\ ReaderOK(disk, segments, BaseOffset, "reading", O) /\ rpc \in [Readers -> RLabels]
  BY <1>1, Zenon DEF RInv
<1>3. /\ O.idx \in DOMAIN O.snap /\ Prefix(O.snap, segments)
      /\ Placed(disk, b, O) /\ Started(disk, O)
  BY <1>2, Zenon DEF ReaderOK
<1>4. /\ O.idx \in DOMAIN segments /\ s = segments[O.idx] /\ SegmentOK(s)
      /\ b \in DOMAIN disk /\ b \in Nat
  BY <1>3, ReaderSegment, Zenon
<1>5. s \notin closed
  BY <1>4, SMTT(20) DEF SegmentOK
<1>6. \/ rd' = [rd EXCEPT ![r] = read] /\ rpc' = [rpc EXCEPT ![r] = "ready"]
      \/ n # O.left /\ O.idx < Len(O.snap) /\ rd' = [rd EXCEPT ![r] = next] /\ rpc' = rpc
  BY <1>5, Zenon DEF ReadAt, RGoto, ReadBytes, NextFile, ReadLength
<1>7. IsDir(disk) /\ BytesBefore(disk, b) \in Nat /\ end \in Nat
  <2>1. IsDir(disk)
    BY DiskIsDir DEF IInv
  <2> QED
    BY <1>4, <2>1, BytesStep, Zenon DEF IsDir
<1>8. /\ O.wanted \in Nat /\ O.snap \in Seq(Nat) /\ O.idx \in Nat /\ O.pos \in Nat /\ O.left \in Nat
      /\ O.start \in Nat /\ O.got \in Nat
      /\ O.pos <= end /\ BytesBefore(disk, b) + O.pos = O.start + O.got
  <2>1. O.pos <= end /\ BytesBefore(disk, b) + O.pos = O.start + O.got
    BY <1>3, Zenon DEF Placed
  <2> QED
    BY <1>2, <2>1, ReaderFields, Zenon
<1>9. n \in Nat /\ n <= O.left /\ O.pos + n <= end /\ (n # O.left => O.pos + n = end)
  BY <1>7, <1>8, ReadAtLength, Zenon
<1> HIDE DEF O, s, b, end, n
<1> DEFINE before == BytesBefore(disk, b)
           pos == O.pos
           start == O.start
           got == O.got
<1>10. before + (pos + n) = start + (got + n) /\ (before + (pos + n)) + 0 = start + (got + n)
  <2>1. before \in Nat /\ pos \in Nat /\ start \in Nat /\ got \in Nat /\ n \in Nat /\ before + pos = start + got
    BY <1>7, <1>8, <1>9, Zenon
  <2> HIDE DEF before, pos, start, got
  <2> QED
    BY <2>1
<1>11. /\ read \in ReaderStates /\ read.wanted = O.wanted /\ read.snap = O.snap /\ read.idx = O.idx
       /\ read.got = O.got + n /\ read.pos = O.pos + n /\ read.start = O.start
  BY <1>2, <1>9, ReadFields, Zenon
<1>12. /\ next \in ReaderStates /\ next.wanted = O.wanted /\ next.snap = O.snap
       /\ next.idx = O.idx + 1 /\ next.got = O.got + n /\ next.pos = 0 /\ next.start = O.start
  <2> HIDE DEF read
  <2> QED
    BY <1>11, NextFields, Zenon
<1> HIDE DEF read, next
<1>13. CASE rd' = [rd EXCEPT ![r] = read] /\ rpc' = [rpc EXCEPT ![r] = "ready"]
  <2>1. Placed(disk, b, read)
    BY <1>9, <1>11, <1>10, Zenon DEF Placed, end
  <2>2. Started(disk, read)
    BY <1>3, <1>11, Zenon DEF Started
  <2>3. BaseOffset[read.snap[read.idx]] = b
    BY <1>11, Zenon DEF b, s
  <2>4. ReaderOK(disk, segments, BaseOffset, "ready", read)
    BY <1>3, <1>11, <2>1, <2>2, <2>3 DEF ReaderOK
  <2> QED
    BY <1>1, <1>11, <1>13, <2>4, Zenon DEF ReaderMoves, RLabels
<1>14. CASE n # O.left /\ O.idx < Len(O.snap) /\ rd' = [rd EXCEPT ![r] = next] /\ rpc' = rpc
  <2>1. O.idx + 1 \in DOMAIN O.snap
    BY <1>8, <1>14
  <2>2. O.idx + 1 \in DOMAIN segments /\ O.snap[O.idx + 1] = segments[O.idx + 1]
    BY <1>3, <2>1, Zenon DEF Prefix
  <2> DEFINE c == BaseOffset[segments[O.idx + 1]]
  <2>3. BytesBefore(disk, c) = BytesBefore(disk, b) + end
    BY <1>4, <2>2, NextSegment DEF b, end
  <2>4. c \in DOMAIN disk /\ FileEnd(disk[c]) \in Nat
    BY <1>7, <2>2 DEF IInv, SegmentsOK, SegmentOK, IsDir
  <2> HIDE DEF c
  <2>5. Placed(disk, c, next)
    <3>1. BytesBefore(disk, c) + next.pos = next.start + next.got
      BY <1>9, <1>12, <1>14, <1>10, <2>3, Zenon
    <3>2. next.pos <= FileEnd(disk[c])
      BY <1>12, <2>4
    <3> QED
      BY <3>1, <3>2, Zenon DEF Placed
  <2>6. Started(disk, next)
    BY <1>3, <1>12, Zenon DEF Started
  <2>7. BaseOffset[next.snap[next.idx]] = c
    BY <1>12, <2>2, Zenon DEF c
  <2>8. ReaderOK(disk, segments, BaseOffset, "reading", next)
    BY <1>3, <1>12, <2>1, <2>5, <2>6, <2>7 DEF ReaderOK
  <2>9. rpc' = [rpc EXCEPT ![r] = "reading"]
    BY <1>1, <1>2, <1>14
  <2> QED
    BY <1>1, <1>12, <1>14, <2>8, <2>9, Zenon DEF ReaderMoves, RLabels
<1> QED
  BY <1>6, <1>13, <1>14, Zenon

-----------------------------------------------------------------------------
\* The theorems.

\* At the start there is one empty file and no reader.
LEMMA InitRInv == InitR => RInv
<1> SUFFICES ASSUME InitR PROVE RInv
  OBVIOUS
<1>1. InFile(disk) /\ BaseOffset[segments[1]] = 0
  BY DEF InitR, Init, InFile
<1>2. NoReader \in ReaderStates
  BY DEF NoReader, ReaderStates
<1>3. rpc \in [Readers -> RLabels] /\ rd \in [Readers -> ReaderStates] /\ \A r \in Readers : rpc[r] = "none"
  BY <1>2 DEF InitR, RLabels
<1> QED
  BY <1>1, <1>3 DEF RInv, ReaderOK

\* A step of a reader preserves the invariant.
LEMMA MovesRInv ==
  ASSUME RInv, NEW r \in Readers, ReaderMoves(r)
  PROVE  RInv'
<1>1. PICK label \in RLabels, R \in ReaderStates :
        /\ rpc' = [rpc EXCEPT ![r] = label] /\ rd' = [rd EXCEPT ![r] = R]
        /\ ReaderOK(disk, segments, BaseOffset, label, R)
  BY Zenon DEF ReaderMoves
<1>2. disk' = disk /\ segments' = segments /\ BaseOffset' = BaseOffset
  BY DEF ReaderMoves, vars, files, heap
<1>3. rpc \in [Readers -> RLabels] /\ rd \in [Readers -> ReaderStates]
  BY DEF RInv
<1>4. rpc' \in [Readers -> RLabels] /\ rd' \in [Readers -> ReaderStates]
  BY <1>1, <1>3
<1>5. ASSUME NEW q \in Readers PROVE ReaderOK(disk, segments, BaseOffset, rpc'[q], rd'[q])
  <2>1. CASE q = r
    <3>1. rpc'[q] = label /\ rd'[q] = R
      BY <1>1, <1>3, <2>1
    <3> QED
      BY <1>1, <3>1, Zenon
  <2>2. CASE q # r
    <3>1. rpc'[q] = rpc[q] /\ rd'[q] = rd[q]
      BY <1>1, <1>3, <2>2
    <3> QED
      BY <3>1, Zenon DEF RInv
  <2> QED
    BY <2>1, <2>2
<1>6. InFile(disk) /\ BaseOffset[segments[1]] = 0
  BY DEF RInv
<1> QED
  BY <1>2, <1>4, <1>5, <1>6, Zenon DEF RInv

\* A step of the log preserves it.
LEMMA GrowsRInv ==
  ASSUME IInv, IInv', RInv, LogGrows, UNCHANGED rvars
  PROVE  RInv'
<1>1. rpc' = rpc /\ rd' = rd
  BY DEF rvars
<1>2. InFile(disk')
  BY DEF RInv, LogGrows
<1>3. BaseOffset'[segments'[1]] = 0
  BY SegmentsSeq, Zenon DEF RInv, LogGrows, Prefix
<1>4. ASSUME NEW r \in Readers PROVE ReaderOK(disk', segments', BaseOffset', rpc[r], rd[r])
  <2>1. rd[r] \in ReaderStates /\ ReaderOK(disk, segments, BaseOffset, rpc[r], rd[r])
    BY DEF RInv
  <2> QED
    BY <2>1, GrowsReaderOK, Zenon
<1>5. rpc \in [Readers -> RLabels] /\ rd \in [Readers -> ReaderStates]
  BY DEF RInv
<1> QED
  BY <1>1, <1>2, <1>3, <1>4, <1>5, Zenon DEF RInv

\* Readers do not write: their log behaves as it does without them.
LEMMA LogBelow == SpecR => Spec
<1>1. InitR => Init
  BY DEF InitR
<1>2. [NextR]_allVars => [Next]_vars
  BY Zenon DEF NextR, ReaderStep, NewReaderSegment, NewReaderEntry, ReadStart, ReadAt, allVars
<1> QED
  BY <1>1, <1>2, PTL DEF SpecR, Spec

\* The readers of a log that is not cleaned are all right, whatever their number,
\* the offsets they ask for and the sizes of their buffers.
THEOREM RInvariant == ASSUME SingleAppender, NeverCleaned PROVE SpecR => []RInv
<1>1. LogInv /\ LogInv' /\ RInv /\ [NextR]_allVars => RInv'
  <2> SUFFICES ASSUME LogInv, LogInv', RInv, [NextR]_allVars PROVE RInv'
    OBVIOUS
  <2>1. IInv /\ IInv'
    BY DEF LogInv
  <2>2. CASE [Next]_vars /\ UNCHANGED rvars
    BY <2>1, <2>2, NextGrows, GrowsRInv
  <2>3. ASSUME NEW r \in Readers, ReaderStep(r) PROVE RInv'
    <3>1. ReaderMoves(r)
      BY <2>1, <2>3, NewReaderSegmentMoves, NewReaderEntryMoves, ReadStartMoves, ReadAtMoves, Zenon
         DEF ReaderStep
    <3> QED
      BY <3>1, MovesRInv
  <2>4. \/ [Next]_vars /\ UNCHANGED rvars
        \/ \E r \in Readers : ReaderStep(r)
    BY Zenon DEF NextR, allVars
  <2> QED
    BY <2>2, <2>3, <2>4
<1> QED
  BY <1>1, InitRInv, LogBelow, LogInvariant, PTL DEF SpecR

\* NewReader never starts past the offset it was asked for, whatever Append has
\* written of the record and of its index entry meanwhile.
THEOREM StartsAtOrBeforeAlways == ASSUME SingleAppender, NeverCleaned PROVE SpecR => []StartsAtOrBefore
<1>1. RInv => StartsAtOrBefore
  <2> SUFFICES ASSUME RInv, NEW r \in Readers, rpc[r] \in {"ready", "reading"}
               PROVE  Started(disk, rd[r])
    BY Zenon DEF StartsAtOrBefore, Started, Address
  <2> QED
    BY DEF RInv, ReaderOK
<1> QED
  BY <1>1, RInvariant, PTL

\* Read delivers consecutive bytes of the log, across the segments and whatever is
\* appended between its steps.
THEOREM StreamConsecutiveAlways == ASSUME SingleAppender, NeverCleaned PROVE SpecR => []StreamConsecutive
<1>1. RInv => StreamConsecutive
  BY DEF RInv, ReaderOK, Placed, StreamConsecutive, Address
<1> QED
  BY <1>1, RInvariant, PTL
=============================================================================
