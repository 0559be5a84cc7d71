--------------------- MODULE CommitLogRefinementProofs ---------------------
(***************************************************************************)
(* A log with the delete policy and one appender implements PartitionLog,  *)
(* whatever its segments, its retention size and its message sets are, as  *)
(* long as it is not opened again: opening rebuilds the indexes with a     *)
(* scan that is right for some files only, which TLC explores. The         *)
(* invariant of CommitLogProofs says that no two records on disk have one  *)
(* offset, so the abstract log is a function of the files. And the cleaner *)
(* keeps what fits in the retention size: the bytes it adds up, segment by *)
(* segment, are those of the files it leaves.                              *)
(***************************************************************************)
EXTENDS CommitLogRefinement, CommitLogProofs, SegmentFileProofs

\* A log opened once with the delete policy.
InitDelete == InitLog /\ policy = "delete"
NextOpened == policy = "delete" /\ Next /\ UNCHANGED compactVars
SpecDelete == InitDelete /\ [][NextOpened]_logVars

\* Its policy stays, and the rest is the invariant of CommitLog.
DeleteInv == LogInv /\ policy = "delete"

\* A step of such a log, without the cleaner's state, is one of CommitLog.
LEMMA OpenedStep ==
  ASSUME [NextOpened]_logVars
  PROVE  [Next]_vars /\ policy' = policy
  BY DEF NextOpened, logVars, compactVars

\* A log opened once with the delete policy keeps the invariant of CommitLog.
THEOREM DeleteInvariant == ASSUME SingleAppender PROVE SpecDelete => []DeleteInv
<1>1. InitDelete => DeleteInv
  BY InitLogInv DEF InitDelete, InitLog, DeleteInv
<1>2. DeleteInv /\ [NextOpened]_logVars => DeleteInv'
  BY OpenedStep, NextLogInv DEF DeleteInv
<1> QED
  BY <1>1, <1>2, PTL DEF SpecDelete

-----------------------------------------------------------------------------
\* The abstract log as a function of the records.
ContentOf(S) == [o \in {r.off : r \in S} |-> (CHOOSE r \in S : r.off = o).val]

\* Where every record has an offset of its own, the log maps it to its value.
LEMMA ContentOfUnique ==
  ASSUME NEW S, \A p, q \in S : p.off = q.off => p = q
  PROVE  /\ DOMAIN ContentOf(S) = {r.off : r \in S}
         /\ \A r \in S : ContentOf(S)[r.off] = r.val
<1>1. ASSUME NEW r \in S PROVE ContentOf(S)[r.off] = r.val
  <2>1. (CHOOSE q \in S : q.off = r.off) \in S /\ (CHOOSE q \in S : q.off = r.off).off = r.off
    OBVIOUS
  <2>2. (CHOOSE q \in S : q.off = r.off) = r
    BY <2>1
  <2> QED
    BY <2>2 DEF ContentOf
<1> QED
  BY <1>1 DEF ContentOf

\* A record on disk is one of a file.
LEMMA InStored ==
  ASSUME NEW r
  PROVE  r \in Stored <=> \E b \in DOMAIN disk : \E k \in DOMAIN disk[b] : r = disk[b][k]
  BY DEF Stored

\* Every record on disk belongs to a segment of the log and carries an offset
\* between the segment's ends; the file of a segment being created is empty.
LEMMA StoredWhere ==
  ASSUME SingleAppender, IInv, NEW r \in Stored
  PROVE  \E i \in DOMAIN segments : \E k \in DOMAIN File(segments[i]) :
           /\ r = File(segments[i])[k] /\ k \in Nat
           /\ r.off = BaseOffset[segments[i]] + k - 1
           /\ BaseOffset[segments[i]] <= r.off /\ r.off < NextOffset[segments[i]]
           /\ r.off \in Nat
<1>1. PICK b \in DOMAIN disk : \E k \in DOMAIN disk[b] : r = disk[b][k]
  BY InStored
<1>2. PICK k \in DOMAIN disk[b] : r = disk[b][k]
  BY <1>1
<1>3. disk[b] \in Seq(Records) /\ k \in 1 .. Len(disk[b]) /\ Len(disk[b]) \in Nat /\ b \in Nat
  BY DEF IInv, TypeOK
<1>4. ASSUME NEW a \in Appenders, pc[a] = "clean", b = BaseOffset[loc[a].seg] PROVE FALSE
  <2>1. SegmentOK(loc[a].seg) /\ NextOffset[loc[a].seg] = BaseOffset[loc[a].seg]
    BY <1>4 DEF IInv, ActiveOK
  <2>2. b = b + Len(disk[b])
    BY <1>4, <2>1 DEF SegmentOK
  <2> QED
    BY <1>3, <2>2
<1>5. PICK i \in DOMAIN segments : b = BaseOffset[segments[i]]
  BY <1>4 DEF IInv, FilesOK
<1>6. r.off = b + k - 1 /\ NextOffset[segments[i]] = b + Len(disk[b])
  BY <1>2, <1>5 DEF IInv, SegmentsOK, SegmentOK
<1>7. b <= r.off /\ r.off < NextOffset[segments[i]] /\ r.off \in Nat /\ k \in Nat
  BY <1>3, <1>6
<1> QED
  BY <1>2, <1>5, <1>6, <1>7, Zenon DEF File

\* No offset is stored twice.
LEMMA StoredUnique ==
  ASSUME SingleAppender, IInv, NEW p \in Stored, NEW q \in Stored, p.off = q.off
  PROVE  p = q
<1>1. PICK i \in DOMAIN segments : \E k \in DOMAIN File(segments[i]) :
        /\ p = File(segments[i])[k] /\ k \in Nat
        /\ p.off = BaseOffset[segments[i]] + k - 1
        /\ BaseOffset[segments[i]] <= p.off /\ p.off < NextOffset[segments[i]]
        /\ p.off \in Nat
  BY StoredWhere, Zenon
<1>2. PICK j \in DOMAIN segments : \E k \in DOMAIN File(segments[j]) :
        /\ q = File(segments[j])[k] /\ k \in Nat
        /\ q.off = BaseOffset[segments[j]] + k - 1
        /\ BaseOffset[segments[j]] <= q.off /\ q.off < NextOffset[segments[j]]
        /\ q.off \in Nat
  BY StoredWhere, Zenon
<1>3. /\ i \in Nat /\ j \in Nat /\ BaseOffset[segments[i]] \in Nat /\ BaseOffset[segments[j]] \in Nat
      /\ NextOffset[segments[i]] \in Nat /\ NextOffset[segments[j]] \in Nat
  BY SegmentTypes DEF IInv
<1>4. i < j => NextOffset[segments[i]] <= BaseOffset[segments[j]]
  BY DEF IInv, SegmentsOK
<1>5. j < i => NextOffset[segments[j]] <= BaseOffset[segments[i]]
  BY DEF IInv, SegmentsOK
<1>6. i = j
  BY <1>1, <1>2, <1>3, <1>4, <1>5
<1>7. PICK k \in DOMAIN File(segments[i]) :
        p = File(segments[i])[k] /\ k \in Nat /\ p.off = BaseOffset[segments[i]] + k - 1
  BY <1>1
<1>8. PICK l \in DOMAIN File(segments[i]) :
        q = File(segments[i])[l] /\ l \in Nat /\ q.off = BaseOffset[segments[i]] + l - 1
  BY <1>2, <1>6
<1>9. k = l
  BY <1>3, <1>7, <1>8
<1> QED
  BY <1>7, <1>8, <1>9

\* Every stored offset is below NewestOffset.
LEMMA StoredBelow ==
  ASSUME SingleAppender, IInv, NEW r \in Stored
  PROVE  r.off \in Nat /\ NewestOffset \in Nat /\ r.off < NewestOffset
<1>1. PICK i \in DOMAIN segments : r.off \in Nat /\ r.off < NextOffset[segments[i]]
  BY StoredWhere, Zenon
<1>2. NewestOffset \in Nat /\ NewestOffset = NextOffset[active] /\ Len(segments) \in DOMAIN segments
  BY DEF IInv, TypeOK, SegmentsOK, NewestOffset
<1>3. NewestOffset = NextOffset[segments[Len(segments)]]
  BY <1>2 DEF SingleAppender, IInv, ActiveOK, Busy
<1>4. /\ i \in Nat /\ Len(segments) \in Nat /\ i <= Len(segments)
      /\ NextOffset[segments[i]] \in Nat /\ BaseOffset[segments[Len(segments)]] \in Nat
  BY <1>2, SegmentTypes DEF IInv
<1>5. i < Len(segments) => NextOffset[segments[i]] <= BaseOffset[segments[Len(segments)]]
  BY <1>2 DEF IInv, SegmentsOK
<1>6. BaseOffset[segments[Len(segments)]] <= NextOffset[segments[Len(segments)]]
  <2>1. SegmentOK(segments[Len(segments)])
    BY <1>2 DEF IInv, SegmentsOK
  <2>2. Len(disk[BaseOffset[segments[Len(segments)]]]) \in Nat
    <3>1. BaseOffset[segments[Len(segments)]] \in DOMAIN disk
      BY <2>1 DEF SegmentOK
    <3>2. disk[BaseOffset[segments[Len(segments)]]] \in Seq(Records)
      BY <3>1, Zenon DEF IInv, TypeOK
    <3> QED
      BY <3>2
  <2> QED
    BY <1>4, <2>1, <2>2 DEF SegmentOK
<1> QED
  BY <1>1, <1>2, <1>3, <1>4, <1>5, <1>6

-----------------------------------------------------------------------------
\* The steps.

\* Creating a segment, activating it, looking offsets up and writing the index
\* entry leave the stored records and NewestOffset alone.
LEMMA QuietSteps ==
  ASSUME SingleAppender, IInv, NEW a \in Appenders, AppendStep(a),
         ~SegmentWrite(a), ~SplitClean(a)
  PROVE  Stored' = Stored /\ NewestOffset' = NewestOffset
<1>1. CASE SplitNewSegment(a)
  <2>1. PICK x, len, new : Created(a, x, len, new)
    BY <1>1, CreateEffect
  <2>2. DOMAIN disk' = DOMAIN disk \cup {x} /\ disk'[x] = <<>> /\ x \notin DOMAIN disk
    BY <2>1 DEF Created
  <2>3. \A b \in DOMAIN disk : disk'[b] = disk[b]
    BY <2>1 DEF Created
  <2>4. DOMAIN <<>> = {}
    OBVIOUS
  <2>5. {disk'[x][k] : k \in DOMAIN disk'[x]} = {}
    BY <2>2, <2>4
  <2>6. Stored' = Stored
    <3> DEFINE Of(d, b) == {d[b][k] : k \in DOMAIN d[b]}
    <3>1. Of(disk', x) = {} /\ \A b \in DOMAIN disk : Of(disk', b) = Of(disk, b)
      BY <2>3, <2>5, Zenon
    <3>2. Stored = UNION {Of(disk, b) : b \in DOMAIN disk}
      BY DEF Stored
    <3>3. Stored' = UNION {Of(disk', b) : b \in DOMAIN disk'}
      BY DEF Stored
    <3> HIDE DEF Of
    <3>4. ASSUME NEW r PROVE r \in Stored' <=> r \in Stored
      <4>1. r \in Stored <=> \E b \in DOMAIN disk : r \in Of(disk, b)
        BY <3>2
      <4>2. r \in Stored' <=> \E b \in DOMAIN disk' : r \in Of(disk', b)
        BY <3>3
      <4> QED
        BY <2>2, <3>1, <4>1, <4>2, Zenon
    <3> QED
      BY <3>4
  <2>7. active' = active /\ active \in Objects
    BY <2>1, EndTypes DEF Created
  <2>8. NewestOffset' = NewestOffset
    BY <2>1, <2>7 DEF NewestOffset, Created
  <2> QED
    BY <2>6, <2>8
<1>2. CASE SplitStoreActive(a)
  <2>1. /\ UNCHANGED <<disk, NextOffset>> /\ active' = loc[a].seg
        /\ NextOffset[loc[a].seg] = NextOffset[active]
    BY <1>2 DEF SplitStoreActive, files, heap, IInv, ActiveOK
  <2> QED
    BY <2>1 DEF Stored, NewestOffset
<1>3. CASE \/ \E v \in Values, n \in Lens : CheckSplit(a, v, n)
           \/ AppendPosition(a) \/ AppendPutOffset(a) \/ IndexWriteEntry(a)
  <2>1. UNCHANGED <<disk, NextOffset, active>>
    BY <1>3, Zenon DEF CheckSplit, AppendPosition, AppendPutOffset, IndexWriteEntry, files, heap
  <2> QED
    BY <2>1 DEF Stored, NewestOffset
<1> QED
  BY <1>1, <1>2, <1>3 DEF AppendStep

\* Segment.Write stores one more record, at NewestOffset.
LEMMA WriteStores ==
  ASSUME SingleAppender, IInv, NEW a \in Appenders, SegmentWrite(a)
  PROVE  \E r : /\ Stored' = Stored \cup {r} /\ r.val \in Values
                /\ r.off = NewestOffset /\ NewestOffset' = NewestOffset + 1
<1>1. PICK f, r : Wrote(a, f, r)
  BY WriteEffect, Zenon
<1> DEFINE b == BaseOffset[active]
           Of(d, c) == {d[c][k] : k \in DOMAIN d[c]}
<1>2. b \in DOMAIN disk /\ disk[b] = f /\ f \in Seq(Records) /\ r \in Records
  BY <1>1, Zenon DEF Wrote
<1>3. /\ DOMAIN disk' = DOMAIN disk /\ disk'[b] = Append(f, r)
      /\ \A c \in DOMAIN disk \ {b} : disk'[c] = disk[c]
  BY <1>1 DEF Wrote
<1>4. Of(disk', b) = Of(disk, b) \cup {r}
  <2>1. /\ DOMAIN Append(f, r) = DOMAIN f \cup {Len(f) + 1}
        /\ \A k \in DOMAIN f : Append(f, r)[k] = f[k]
        /\ Append(f, r)[Len(f) + 1] = r
    BY <1>2
  <2> QED
    BY <1>2, <1>3, <2>1
<1>5. \A c \in DOMAIN disk \ {b} : Of(disk', c) = Of(disk, c)
  BY <1>3
<1>6. Stored = UNION {Of(disk, c) : c \in DOMAIN disk}
  BY DEF Stored
<1>7. Stored' = UNION {Of(disk', c) : c \in DOMAIN disk'}
  BY DEF Stored
<1>8. Stored' = Stored \cup {r}
  <2> HIDE DEF Of, b
  <2> QED
    BY <1>2, <1>3, <1>4, <1>5, <1>6, <1>7
<1>9. r.val \in Values /\ r.off = NewestOffset
  BY <1>1 DEF Wrote, Records, NewestOffset
<1>10. NewestOffset' = NewestOffset + 1
  <2>1. active' = active /\ active \in Objects /\ NextOffset' = [NextOffset EXCEPT ![active] = @ + 1]
    BY <1>1 DEF Wrote
  <2> QED
    BY <2>1 DEF IInv, TypeOK, NewestOffset
<1> QED
  BY <1>8, <1>9, <1>10, Zenon

\* The delete cleaner drops the records below the base offset of the oldest
\* segment it keeps, and no others.
LEMMA CleanTrims ==
  ASSUME SingleAppender, IInv, IInv', NEW a \in Appenders, SplitClean(a)
  PROVE  \E oldest \in 0 .. NewestOffset :
           /\ Stored' = {r \in Stored : r.off >= oldest}
           /\ NewestOffset' = NewestOffset
<1>0. PICK segs, n, first : Cleaned(a, segs, n, first)
  BY CleanEffect, Zenon
<1>1. /\ n \in Nat /\ n = Len(segments) /\ n \in DOMAIN segments /\ first \in 1 .. n + 1
      /\ BaseOffset' = BaseOffset /\ NextOffset' = NextOffset /\ active' = active
      /\ DOMAIN segments = 1 .. n /\ segs[n + 1] = loc[a].seg /\ pc[a] = "clean"
      /\ DOMAIN segments' = 1 .. n + 2 - first
  BY <1>0 DEF Cleaned, ToClean
<1>2. \A i \in 1 .. n : segs[i] = segments[i]
  BY <1>0 DEF Cleaned, ToClean
<1>3. \A k \in 1 .. n + 2 - first : segments'[k] = segs[first + k - 1]
  BY <1>0, Zenon DEF Cleaned, ToClean
<1>4. \A i \in 1 .. n + 1 : BaseOffset[segs[i]] \in Nat /\ NextOffset[segs[i]] \in Nat
  BY <1>0, Zenon DEF Cleaned, ToClean
<1>5. \A i, j \in 1 .. n + 1 : i < j =>
        /\ BaseOffset[segs[i]] < NextOffset[segs[i]]
        /\ NextOffset[segs[i]] <= BaseOffset[segs[j]]
  BY <1>0, ZenonT(30) DEF Cleaned, ToClean
<1> DEFINE oldest == BaseOffset[segs[first]]
<1>6. BaseOffset[segs[n + 1]] = NewestOffset /\ NewestOffset \in Nat /\ NewestOffset' = NewestOffset
  BY <1>1, <1>4 DEF IInv, ActiveOK, NewestOffset
<1>7. oldest \in 0 .. NewestOffset
  <2>1. n + 1 \in 1 .. n + 1 /\ (first = n + 1 \/ first < n + 1)
    BY <1>1
  <2>2. oldest \in Nat /\ NextOffset[segs[first]] \in Nat
    BY <1>1, <1>4, Zenon
  <2>3. first < n + 1 => /\ oldest < NextOffset[segs[first]]
                         /\ NextOffset[segs[first]] <= BaseOffset[segs[n + 1]]
    BY <1>1, <1>5, <2>1, Zenon
  <2> QED
    BY <1>6, <2>1, <2>2, <2>3
<1>8. \A i \in 1 .. n + 1 : i < first => NextOffset[segs[i]] <= oldest
  BY <1>1, <1>5, Zenon
<1>9. \A i \in 1 .. n + 1 : ~(i < first) => oldest <= BaseOffset[segs[i]]
  <2> SUFFICES ASSUME NEW i \in 1 .. n + 1, ~(i < first) PROVE oldest <= BaseOffset[segs[i]]
    OBVIOUS
  <2>1. i = first \/ first < i
    BY <1>1
  <2>2. oldest \in Nat /\ NextOffset[segs[first]] \in Nat /\ BaseOffset[segs[i]] \in Nat
    BY <1>1, <1>4, Zenon
  <2>3. first < i => oldest < NextOffset[segs[first]] /\ NextOffset[segs[first]] <= BaseOffset[segs[i]]
    BY <1>1, <1>5, Zenon
  <2> QED
    BY <2>1, <2>2, <2>3
<1>10. DOMAIN disk' \subseteq DOMAIN disk /\ \A b \in DOMAIN disk' : disk'[b] = disk[b]
  BY <1>0, Zenon DEF Cleaned, ToClean
<1>11. \A i \in 1 .. n + 1 : ~(i < first) => BaseOffset[segs[i]] \in DOMAIN disk'
  <2> SUFFICES ASSUME NEW i \in 1 .. n + 1, ~(i < first) PROVE BaseOffset[segs[i]] \in DOMAIN disk'
    OBVIOUS
  <2>1. i - first + 1 \in DOMAIN segments' /\ segments'[i - first + 1] = segs[i]
    BY <1>1, <1>3
  <2> QED
    BY <1>1, <2>1, Zenon DEF IInv, SegmentsOK, SegmentOK
<1> HIDE DEF oldest
<1>12. ASSUME NEW r \in Stored
       PROVE  r \in Stored' <=> r.off >= oldest
  <2>1. PICK i \in DOMAIN segments : \E k \in DOMAIN File(segments[i]) :
          /\ r = File(segments[i])[k]
          /\ BaseOffset[segments[i]] <= r.off /\ r.off < NextOffset[segments[i]]
          /\ r.off \in Nat
    BY StoredWhere, Zenon
  <2>2. /\ i \in 1 .. n /\ i \in 1 .. n + 1 /\ segs[i] = segments[i]
        /\ BaseOffset[segs[i]] \in Nat /\ NextOffset[segs[i]] \in Nat /\ oldest \in Nat
    BY <1>1, <1>2, <1>4, <1>7 DEF oldest
  <2>3. CASE i < first
    <3>1. r.off < oldest
      BY <1>8, <2>1, <2>2, <2>3
    <3>2. r \notin Stored'
      <4> SUFFICES ASSUME r \in Stored' PROVE FALSE
        OBVIOUS
      <4>1. PICK b \in DOMAIN disk' : \E k \in DOMAIN disk'[b] : r = disk'[b][k]
        BY DEF Stored
      <4>2. PICK k \in DOMAIN disk'[b] : r = disk'[b][k]
        BY <4>1
      <4>3. PICK j \in DOMAIN segments' : b = BaseOffset'[segments'[j]]
        <5>1. \A c \in Appenders : pc'[c] = "activate"
          BY <1>0 DEF Cleaned, ToClean, SingleAppender
        <5>2. FilesOK'
          BY DEF IInv
        <5> QED
          BY <5>1, <5>2, Zenon DEF FilesOK
      <4>4. r.off = b + k - 1 /\ disk'[b] \in Seq(Records) /\ b \in Nat
        BY <4>2, <4>3, ZenonT(30) DEF IInv, TypeOK, SegmentsOK, SegmentOK
      <4>5. k \in Nat /\ k >= 1
        BY <4>4
      <4>6. b = BaseOffset[segs[first + j - 1]] /\ first + j - 1 \in 1 .. n + 1 /\ ~(first + j - 1 < first)
        BY <1>1, <1>3, <4>3
      <4>7. oldest <= b
        BY <1>9, <4>6, Zenon
      <4> QED
        BY <2>2, <3>1, <4>4, <4>5, <4>7
    <3> QED
      BY <2>1, <2>2, <3>1, <3>2
  <2>4. CASE ~(i < first)
    <3>1. oldest <= r.off
      BY <1>9, <2>1, <2>2, <2>4
    <3>2. BaseOffset[segs[i]] \in DOMAIN disk' /\ disk'[BaseOffset[segs[i]]] = File(segments[i])
      BY <1>10, <1>11, <2>2, <2>4 DEF File
    <3>3. r \in Stored'
      BY <2>1, <3>2 DEF Stored
    <3> QED
      BY <2>1, <2>2, <3>1, <3>3, Zenon
  <2> QED
    BY <2>3, <2>4
<1>13. Stored' \subseteq Stored
  BY <1>10 DEF Stored
<1> QED
  BY <1>6, <1>7, <1>12, <1>13, Zenon

-----------------------------------------------------------------------------
\* The mapped state.

\* A step that stores and drops nothing changes nothing a user sees.
LEMMA StutterMapped ==
  ASSUME Stored' = Stored, NewestOffset' = NewestOffset, policy' = policy
  PROVE  UNCHANGED Abstract!vars
<1>1. Content' = Content
  BY DEF Content
<1> QED
  BY <1>1 DEF Abstract!vars

\* A step that stores one record more, at NewestOffset, is an append.
LEMMA AppendMapped ==
  ASSUME SingleAppender, IInv, NEW r, Stored' = Stored \cup {r}, r.off = NewestOffset,
         NewestOffset' = NewestOffset + 1, policy' = policy
  PROVE  Abstract!Append(r.val)
<1>1. \A p, q \in Stored : p.off = q.off => p = q
  BY StoredUnique
<1>2. \A p \in Stored : p.off # r.off
  <2> SUFFICES ASSUME NEW p \in Stored PROVE p.off # r.off
    OBVIOUS
  <2>1. p.off \in Nat /\ NewestOffset \in Nat /\ p.off < NewestOffset
    BY StoredBelow
  <2> QED
    BY <2>1
<1> DEFINE T == Stored \cup {r}
<1>3. \A p, q \in T : p.off = q.off => p = q
  BY <1>1, <1>2
<1>4. DOMAIN ContentOf(Stored) = {p.off : p \in Stored} /\ \A p \in Stored : ContentOf(Stored)[p.off] = p.val
  BY <1>1, ContentOfUnique, Zenon
<1>5. DOMAIN ContentOf(T) = {p.off : p \in T} /\ \A p \in T : ContentOf(T)[p.off] = p.val
  BY <1>3, ContentOfUnique, Zenon
<1>6. Content = ContentOf(Stored) /\ Content' = ContentOf(T)
  BY DEF Content, ContentOf
<1> DEFINE g == [o \in DOMAIN Content \cup {NewestOffset} |-> IF o = NewestOffset THEN r.val ELSE Content[o]]
<1>7. Content' = g
  <2>1. DOMAIN Content' = DOMAIN g
    <3>1. {p.off : p \in T} = {p.off : p \in Stored} \cup {NewestOffset}
      OBVIOUS
    <3>2. DOMAIN g = DOMAIN Content \cup {NewestOffset}
      OBVIOUS
    <3> HIDE DEF g, T
    <3> QED
      BY <1>4, <1>5, <1>6, <3>1, <3>2, Zenon
  <2>2. ASSUME NEW o \in DOMAIN g PROVE Content'[o] = g[o]
    <3>1. CASE o = NewestOffset
      <4>1. g[o] = r.val /\ r \in T
        BY <3>1
      <4> HIDE DEF g, T
      <4> QED
        BY <1>5, <1>6, <3>1, <4>1, Zenon
    <3>2. CASE o # NewestOffset
      <4>1. o \in DOMAIN Content /\ g[o] = Content[o]
        BY <3>2
      <4>2. PICK p \in Stored : o = p.off
        BY <1>4, <1>6, <4>1
      <4>3. p \in T
        OBVIOUS
      <4> HIDE DEF g, T
      <4> QED
        BY <1>4, <1>5, <1>6, <4>1, <4>2, <4>3, Zenon
    <3> QED
      BY <3>1, <3>2
  <2>3. Content' = [o \in DOMAIN Content' |-> Content'[o]]
    BY <1>6 DEF ContentOf
  <2>4. g = [o \in DOMAIN g |-> g[o]]
    OBVIOUS
  <2> HIDE DEF g
  <2> QED
    BY <2>1, <2>2, <2>3, <2>4
<1> QED
  BY <1>7 DEF Abstract!Append

\* A step that drops the records below oldest is a trim.
LEMMA TrimMapped ==
  ASSUME SingleAppender, IInv, NEW oldest, Stored' = {r \in Stored : r.off >= oldest},
         NewestOffset' = NewestOffset, policy' = policy, policy = "delete"
  PROVE  Abstract!Trim(oldest)
<1>1. \A p, q \in Stored : p.off = q.off => p = q
  BY StoredUnique
<1> DEFINE T == {r \in Stored : r.off >= oldest}
<1>2. \A p, q \in T : p.off = q.off => p = q
  BY <1>1
<1>3. DOMAIN ContentOf(Stored) = {p.off : p \in Stored} /\ \A p \in Stored : ContentOf(Stored)[p.off] = p.val
  BY <1>1, ContentOfUnique, Zenon
<1>4. DOMAIN ContentOf(T) = {p.off : p \in T} /\ \A p \in T : ContentOf(T)[p.off] = p.val
  BY <1>2, ContentOfUnique, Zenon
<1>5. Content = ContentOf(Stored) /\ Content' = ContentOf(T)
  BY DEF Content, ContentOf
<1> DEFINE g == [o \in {x \in DOMAIN Content : x >= oldest} |-> Content[o]]
<1>6. Content' = g
  <2>1. DOMAIN Content' = DOMAIN g
    <3>1. {p.off : p \in T} = {x \in {p.off : p \in Stored} : x >= oldest}
      OBVIOUS
    <3>2. DOMAIN g = {x \in DOMAIN Content : x >= oldest}
      OBVIOUS
    <3> HIDE DEF g, T
    <3> QED
      BY <1>3, <1>4, <1>5, <3>1, <3>2
  <2>2. ASSUME NEW o \in DOMAIN g PROVE Content'[o] = g[o]
    <3>1. o \in DOMAIN Content /\ o >= oldest /\ g[o] = Content[o]
      OBVIOUS
    <3>2. PICK p \in Stored : o = p.off
      BY <1>3, <1>5, <3>1
    <3>3. p \in T
      BY <3>1, <3>2
    <3> HIDE DEF g, T
    <3> QED
      BY <1>3, <1>4, <1>5, <3>1, <3>2, <3>3, Zenon
  <2>3. Content' = [o \in DOMAIN Content' |-> Content'[o]]
    BY <1>5 DEF ContentOf
  <2>4. g = [o \in DOMAIN g |-> g[o]]
    OBVIOUS
  <2> HIDE DEF g
  <2> QED
    BY <2>1, <2>2, <2>3, <2>4, Zenon
<1> QED
  BY <1>6 DEF Abstract!Trim

\* The empty log is the empty abstract log.
LEMMA InitMapped == InitDelete => Abstract!Init
<1> SUFFICES ASSUME InitDelete PROVE Abstract!Init
  OBVIOUS
<1>1. disk = [b \in {0} |-> <<>>] /\ NextOffset = <<0>> /\ active = 1 /\ policy = "delete"
  BY DEF InitDelete, InitLog, Init
<1>2. Stored = {}
  <2>1. DOMAIN disk = {0} /\ disk[0] = <<>>
    BY <1>1
  <2>2. DOMAIN <<>> = {}
    OBVIOUS
  <2> QED
    BY <2>1, <2>2 DEF Stored
<1>3. Content = [o \in {} |-> 0]
  <2>1. {r.off : r \in Stored} = {}
    BY <1>2
  <2> QED
    BY <2>1, Zenon DEF Content
<1>4. NewestOffset = 0
  BY <1>1 DEF NewestOffset
<1> QED
  BY <1>1, <1>3, <1>4 DEF Abstract!Init

\* Every step of a log opened once with the delete policy is a step of the
\* abstract log, or none.
LEMMA StepMapped ==
  ASSUME SingleAppender, DeleteInv, DeleteInv', [NextOpened]_logVars
  PROVE  [Abstract!Next]_(Abstract!vars)
<1>0. IInv /\ IInv' /\ policy' = policy /\ policy = "delete"
  BY OpenedStep DEF DeleteInv, LogInv
<1>1. CASE UNCHANGED vars
  <2>1. UNCHANGED <<disk, NextOffset, active>>
    BY <1>1 DEF vars, files, heap
  <2>2. Stored' = Stored /\ NewestOffset' = NewestOffset
    BY <2>1 DEF Stored, NewestOffset
  <2> QED
    BY <1>0, <2>2, StutterMapped
<1>2. ASSUME NEW a \in Appenders, AppendStep(a) PROVE [Abstract!Next]_(Abstract!vars)
  <2>1. CASE SegmentWrite(a)
    <3>1. PICK r : /\ Stored' = Stored \cup {r} /\ r.val \in Values
                   /\ r.off = NewestOffset /\ NewestOffset' = NewestOffset + 1
      BY <1>0, <2>1, WriteStores, Zenon
    <3>2. Abstract!Append(r.val)
      BY <1>0, <3>1, AppendMapped
    <3> QED
      BY <3>1, <3>2 DEF Abstract!Next
  <2>2. CASE SplitClean(a)
    <3>1. PICK oldest \in 0 .. NewestOffset :
            Stored' = {r \in Stored : r.off >= oldest} /\ NewestOffset' = NewestOffset
      BY <1>0, <2>2, CleanTrims, Zenon
    <3>2. Abstract!Trim(oldest)
      BY <1>0, <3>1, TrimMapped, Zenon
    <3> QED
      BY <3>1, <3>2 DEF Abstract!Next
  <2>3. CASE ~SegmentWrite(a) /\ ~SplitClean(a)
    <3>1. Stored' = Stored /\ NewestOffset' = NewestOffset
      BY <1>0, <1>2, <2>3, QuietSteps
    <3> QED
      BY <1>0, <3>1, StutterMapped
  <2> QED
    BY <2>1, <2>2, <2>3
<1>3. [Next]_vars
  BY OpenedStep
<1> QED
  BY <1>1, <1>2, <1>3 DEF Next

\* A log with the delete policy, opened once and with one appender, behaves like
\* PartitionLog: Append adds one value at NewestOffset, no stored value changes,
\* and the cleaner drops a prefix of the offsets.
THEOREM DeleteLogImplements == ASSUME SingleAppender PROVE SpecDelete => ImplementsPartitionLog
<1>1. DeleteInv /\ DeleteInv' /\ [NextOpened]_logVars => [Abstract!Next]_(Abstract!vars)
  BY StepMapped
<1>2. SpecDelete => Abstract!Spec
  BY <1>1, InitMapped, DeleteInvariant, PTL DEF SpecDelete, Abstract!Spec
<1> QED
  BY <1>2 DEF ImplementsPartitionLog

\* What such a log acknowledged is not lost: a record stays on disk, with its
\* offset and its payload, until the cleaner drops its segment.
THEOREM DeleteLogKeeps == ASSUME SingleAppender PROVE SpecDelete => []AckedKept
<1>1. SpecDelete => Spec
  <2>1. InitDelete => Init
    BY DEF InitDelete, InitLog
  <2>2. [NextOpened]_logVars => [Next]_vars
    BY OpenedStep
  <2> QED
    BY <2>1, <2>2, PTL DEF SpecDelete, Spec
<1>2. DeleteInv /\ AckedDurable => AckedKept
  BY DEF DeleteInv, AckedKept
<1> QED
  BY <1>1, <1>2, DeleteInvariant, AckedDurableAlways, PTL

-----------------------------------------------------------------------------
\* The retention size.

\* What the cleaner kept fits, and a segment is written to only while it is not
\* full.
Keeping ==
  /\ MaxLogBytes # -1 /\ Busy("activate") => TailBytes(segments, 1) <= MaxLogBytes
  /\ \A i \in DOMAIN segments : \E len \in Lens : Position[segments[i]] < MaxSegmentBytes + len
  /\ \A a \in Appenders :
       /\ pc[a] \in {"clean", "activate"} => Position[loc[a].seg] = 0
       /\ pc[a] \in {"position", "offset", "write"} => Position[active] < MaxSegmentBytes

\* An empty segment is within the bound.
LEMMA EmptyFits == \E len \in Lens : 0 < MaxSegmentBytes + len
<1>1. PICK len \in Lens : TRUE
  BY LensAssumption, Zenon
<1>2. len \in Nat
  BY LensAssumption
<1>3. 0 < MaxSegmentBytes + len
  BY <1>2, MaxSegmentBytesAssumption
<1> QED
  BY <1>3

\* The empty log fits.
LEMMA InitKeeping == Init => Keeping
<1> SUFFICES ASSUME Init PROVE Keeping
  OBVIOUS
<1>1. /\ \A a \in Appenders : pc[a] = "idle"
      /\ \A i \in DOMAIN segments : Position[segments[i]] = 0
  BY DEF Init
<1>3. \A i \in DOMAIN segments : \E l \in Lens : Position[segments[i]] < MaxSegmentBytes + l
  BY <1>1, EmptyFits, Zenon
<1> QED
  BY <1>1, <1>3 DEF Keeping, Busy

\* The bytes Clean adds up are those of the segments it keeps.
LEMMA TailKept ==
  ASSUME NEW a \in Appenders, NEW segs, NEW n, NEW first, Cleaned(a, segs, n, first), TypeOK
  PROVE  TailBytes(segments, 1)' = TailBytes(segs, first)
<1> DEFINE w == [i \in 0 .. Len(segs) - first |-> Position[segs[Len(segs) - i]]]
           v == [i \in 0 .. Len(segments') - 1 |-> Position'[segments'[Len(segments') - i]]]
<1>1. /\ n \in Nat /\ first \in 1 .. n + 1 /\ Len(segs) = n + 1 /\ Len(segments') = n + 2 - first
      /\ Position' = Position
  BY DEF Cleaned, ToClean
<1>2. \A k \in 1 .. n + 2 - first : segments'[k] = segs[first + k - 1]
  BY Zenon DEF Cleaned, ToClean
<1>3. \A i \in 1 .. n + 1 : Position[segs[i]] \in Nat
  <2>1. \A i \in 1 .. n + 1 : segs[i] \in Objects
    BY Zenon DEF Cleaned, ToClean
  <2> QED
    BY <2>1 DEF TypeOK
<1> DEFINE k == n + 2 - first
<1>4. k \in Nat /\ Len(segs) - first + 1 = k /\ Len(segments') - 1 + 1 = k
  BY <1>1
<1>5. \A i \in 0 .. k - 1 : w[i] = Position[segs[n + 1 - i]] /\ n + 1 - i \in 1 .. n + 1
  BY <1>1
<1>6. \A i \in 0 .. k - 1 : v[i] = Position[segs[n + 1 - i]]
  <2> SUFFICES ASSUME NEW i \in 0 .. k - 1 PROVE v[i] = Position[segs[n + 1 - i]]
    OBVIOUS
  <2>1. k - i \in 1 .. n + 2 - first /\ first + (k - i) - 1 = n + 1 - i
    BY <1>1
  <2>2. segments'[k - i] = segs[n + 1 - i]
    BY <1>2, <2>1
  <2>3. i \in 0 .. Len(segments') - 1 /\ Len(segments') - i = k - i
    BY <1>1
  <2> QED
    BY <1>1, <2>2, <2>3
<1>7. Weights(w, k) /\ \A i \in 0 .. k - 1 : w[i] = v[i]
  BY <1>3, <1>5, <1>6, Zenon DEF Weights
<1>8. TailBytes(segs, first) = Total(w, k)
  BY <1>4 DEF TailBytes
<1>9. TailBytes(segments, 1)' = Total(v, k)
  BY <1>4, Zenon DEF TailBytes
<1> HIDE DEF w, v, k
<1> QED
  BY <1>4, <1>7, <1>8, <1>9, TotalSame

\* The segments Clean keeps fit in the retention size, the empty one included.
LEMMA FirstFits ==
  ASSUME NEW a \in Appenders, NEW segs, NEW n, NEW first, Cleaned(a, segs, n, first),
         MaxLogBytes # -1, Position[loc[a].seg] = 0
  PROVE  TailBytes(segs, first) <= MaxLogBytes
<1>1. n \in Nat /\ first \in 1 .. n + 1 /\ Len(segs) = n + 1 /\ segs[n + 1] = loc[a].seg
  BY DEF Cleaned, ToClean
<1>2. \A i \in first .. Len(segs) - 1 : TailBytes(segs, i) <= MaxLogBytes
  BY Zenon DEF Cleaned, ToClean, FirstKept, Kept
<1>3. CASE first < n + 1
  BY <1>1, <1>2, <1>3
<1>4. CASE first = n + 1
  <2> DEFINE w == [i \in 0 .. Len(segs) - first |-> Position[segs[Len(segs) - i]]]
  <2>0. Len(segs) - first = 0 /\ Len(segs) - 0 = n + 1 /\ 0 \in 0 .. 0 /\ \A i \in 0 .. 1 - 1 : i = 0
    BY <1>1, <1>4
  <2>5. w[0] = 0
    BY <1>1, <2>0, Zenon
  <2>1. w[0] = 0 /\ Weights(w, 1)
    BY <2>0, <2>5 DEF Weights
  <2>2. TailBytes(segs, first) = Total(w, 1)
    BY <1>1, <1>4 DEF TailBytes
  <2> HIDE DEF w
  <2>3. Total(w, 0 + 1) = Total(w, 0) + w[0]
    BY <2>1, TotalStep
  <2>4. Total(w, 0) = 0
    BY TotalZero, Zenon
  <2> QED
    BY <2>1, <2>2, <2>3, <2>4, MaxLogBytesAssumption
<1> QED
  BY <1>1, <1>3, <1>4

\* The cleaner's step.
LEMMA SplitCleanKeeping ==
  ASSUME SingleAppender, IInv, Keeping, NEW a \in Appenders, SplitClean(a)
  PROVE  Keeping'
<1>0. PICK segs, n, first : Cleaned(a, segs, n, first)
  BY CleanEffect
<1>1. Appenders = {a}
  BY Zenon DEF SingleAppender
<1>2. /\ n \in Nat /\ first \in 1 .. n + 1 /\ Position' = Position /\ loc' = loc
      /\ DOMAIN segments' = 1 .. n + 2 - first /\ segs[n + 1] = loc[a].seg
      /\ pc[a] = "clean" /\ pc'[a] = "activate"
  BY <1>0 DEF Cleaned, ToClean
<1>3. \A k \in 1 .. n + 2 - first : segments'[k] = segs[first + k - 1]
  BY <1>0, Zenon DEF Cleaned, ToClean
<1>4. \A i \in 1 .. n : i \in DOMAIN segments /\ segs[i] = segments[i]
  BY <1>0, Zenon DEF Cleaned, ToClean
<1>5. Position[loc[a].seg] = 0
  BY <1>2, Zenon DEF Keeping
<1>6. MaxLogBytes # -1 => TailBytes(segments, 1)' <= MaxLogBytes
  BY <1>0, <1>5, TailKept, FirstFits DEF IInv
<1>7. ASSUME NEW k \in DOMAIN segments'
      PROVE  \E len \in Lens : Position'[segments'[k]] < MaxSegmentBytes + len
  <2>1. first + k - 1 \in 1 .. n + 1 /\ segments'[k] = segs[first + k - 1]
    BY <1>2, <1>3
  <2>2. CASE first + k - 1 = n + 1
    <3>1. Position'[segments'[k]] = 0
      BY <1>2, <1>5, <2>1, <2>2, Zenon
    <3> QED
      BY <3>1, EmptyFits, Zenon
  <2>3. CASE first + k - 1 \in 1 .. n
    BY <1>2, <1>4, <2>1, <2>3, Zenon DEF Keeping
  <2> QED
    BY <1>2, <2>1, <2>2, <2>3
<1> QED
  BY <1>1, <1>2, <1>5, <1>6, <1>7, Zenon DEF Keeping

\* Segment.Write: the record that fills a segment is the last one it gets.
LEMMA SegmentWriteKeeping ==
  ASSUME SingleAppender, IInv, Keeping, NEW a \in Appenders, SegmentWrite(a)
  PROVE  Keeping'
<1>0. PICK f, r : Wrote(a, f, r)
  BY WriteEffect
<1>1. Appenders = {a}
  BY DEF SingleAppender
<1>2. /\ pc[a] = "write" /\ pc'[a] = "index" /\ segments' = segments /\ active \in Objects
      /\ Position' = [Position EXCEPT ![active] = @ + loc[a].len]
  BY <1>0 DEF Wrote
<1>3. /\ Position[active] < MaxSegmentBytes /\ loc[a].len \in Lens /\ loc[a].len \in Nat
      /\ Position \in [Objects -> Nat]
  <2>1. Position[active] < MaxSegmentBytes
    BY <1>2, Zenon DEF Keeping
  <2>2. loc[a].len \in Lens
    BY <1>2, Zenon DEF IInv, LocalsOK
  <2>3. Position \in [Objects -> Nat]
    BY DEF IInv, TypeOK
  <2> QED
    BY <2>1, <2>2, <2>3, LensAssumption, Zenon
<1>4. ASSUME NEW i \in DOMAIN segments
      PROVE  \E len \in Lens : Position'[segments[i]] < MaxSegmentBytes + len
  <2>1. segments[i] \in Objects
    BY SegmentTypes, Zenon DEF IInv
  <2>2. CASE segments[i] = active
    <3>1. Position'[segments[i]] = Position[active] + loc[a].len
      BY <1>2, <1>3, <2>2, Zenon
    <3>2. Position[active] + loc[a].len < MaxSegmentBytes + loc[a].len
      BY <1>2, <1>3, MaxSegmentBytesAssumption
    <3> QED
      BY <1>3, <3>1, <3>2, Zenon
  <2>3. CASE segments[i] # active
    <3>1. Position'[segments[i]] = Position[segments[i]]
      BY <1>2, <1>3, <2>1, <2>3, Zenon
    <3> QED
      BY <3>1, Zenon DEF Keeping
  <2> QED
    BY <2>2, <2>3
<1> QED
  BY <1>1, <1>2, <1>4, Zenon DEF Keeping, Busy

\* A new segment is empty.
LEMMA SplitNewSegmentKeeping ==
  ASSUME SingleAppender, IInv, Keeping, NEW a \in Appenders, SplitNewSegment(a)
  PROVE  Keeping'
<1>0. PICK x, len, new : Created(a, x, len, new)
  BY CreateEffect
<1>1. Appenders = {a}
  BY DEF SingleAppender
<1>2. /\ segments' = segments /\ pc'[a] = "clean" /\ loc'[a].seg = new /\ Position'[new] = 0
      /\ \A s \in Objects : Position'[s] = Position[s]
  BY <1>0, Zenon DEF Created
<1>3. \A i \in DOMAIN segments : Position'[segments[i]] = Position[segments[i]]
  BY <1>2, SegmentTypes, Zenon DEF IInv
<1>4. \A i \in DOMAIN segments' : \E l \in Lens : Position'[segments'[i]] < MaxSegmentBytes + l
  BY <1>2, <1>3, Zenon DEF Keeping
<1> QED
  BY <1>1, <1>2, <1>4, Zenon DEF Keeping, Busy

\* checkSplit lets Append go on only when the active segment is not full; the
\* new segment is empty when it becomes active.
LEMMA QuietKeeping ==
  ASSUME SingleAppender, IInv, Keeping, NEW a \in Appenders,
         \/ \E v \in Values, n \in Lens : CheckSplit(a, v, n)
         \/ SplitStoreActive(a) \/ AppendPosition(a) \/ AppendPutOffset(a) \/ IndexWriteEntry(a)
  PROVE  Keeping'
<1>1. Appenders = {a}
  BY DEF SingleAppender
<1>2. UNCHANGED <<Position, segments>>
  BY Zenon DEF CheckSplit, SplitStoreActive, AppendPosition, AppendPutOffset, IndexWriteEntry, files, heap
<1>3. pc \in [Appenders -> Labels] /\ Position[active] \in Nat
  BY DEF IInv, TypeOK
<1>4. /\ pc'[a] \notin {"clean", "activate"}
      /\ pc'[a] \in {"position", "offset", "write"} => Position[active'] < MaxSegmentBytes
  <2>1. CASE \E v \in Values, n \in Lens : CheckSplit(a, v, n)
    <3>1. pc'[a] = (IF IsFull(active) THEN "split" ELSE "position") /\ active' = active
      BY <1>3, <2>1, ZenonT(30) DEF CheckSplit, Goto
    <3> QED
      BY <1>3, <3>1, MaxSegmentBytesAssumption DEF IsFull
  <2>2. CASE SplitStoreActive(a)
    <3>1. pc[a] = "activate" /\ pc'[a] = "position" /\ active' = loc[a].seg
      BY <1>3, <2>2, Zenon DEF SplitStoreActive, Goto
    <3> QED
      BY <3>1, MaxSegmentBytesAssumption DEF Keeping
  <2>3. CASE AppendPosition(a)
    <3>1. pc[a] = "position" /\ pc'[a] = "offset" /\ active' = active
      BY <1>3, <2>3, Zenon DEF AppendPosition, Goto
    <3> QED
      BY <3>1 DEF Keeping
  <2>4. CASE AppendPutOffset(a)
    <3>1. pc[a] = "offset" /\ pc'[a] = "write" /\ active' = active
      BY <1>3, <2>4, Zenon DEF AppendPutOffset, Goto
    <3> QED
      BY <3>1 DEF Keeping
  <2>5. CASE IndexWriteEntry(a)
    <3>1. pc'[a] = "idle"
      BY <1>3, <2>5, Zenon DEF IndexWriteEntry, Return, Goto
    <3> QED
      BY <3>1
  <2> QED
    BY <2>1, <2>2, <2>3, <2>4, <2>5, Zenon
<1> QED
  BY <1>1, <1>2, <1>4, Zenon DEF Keeping, Busy

\* Every step.
LEMMA NextKeeping == ASSUME SingleAppender, IInv, Keeping, [Next]_vars PROVE Keeping'
<1>1. CASE UNCHANGED vars
  <2>1. UNCHANGED <<Position, segments, active, pc, loc>>
    BY <1>1, Zenon DEF vars, files, heap
  <2>2. TailBytes(segments, 1)' = TailBytes(segments, 1)
    BY <2>1 DEF TailBytes
  <2> QED
    BY <2>1, <2>2 DEF Keeping, Busy
<1>2. ASSUME NEW a \in Appenders, AppendStep(a) PROVE Keeping'
  BY <1>2, SplitCleanKeeping, SegmentWriteKeeping, SplitNewSegmentKeeping, QuietKeeping, Zenon DEF AppendStep
<1> QED
  BY <1>1, <1>2, Zenon DEF Next

\* After a clean the files on disk are those of the segments, so their bytes are
\* the ones Clean added up.
LEMMA BytesKept ==
  ASSUME SingleAppender, LogInv, Busy("activate")
  PROVE  BytesBefore(disk, Max(DOMAIN disk) + 1) = TailBytes(segments, 1)
<1>0. IInv /\ IndexOK
  BY DEF LogInv
<1>1. PICK a \in Appenders : pc[a] = "activate"
  BY DEF Busy
<1>2. Appenders = {a}
  BY DEF SingleAppender
<1> DEFINE n == Len(segments)
           bases == [i \in 1 .. n |-> BaseOffset[segments[i]]]
           w == [i \in 0 .. n - 1 |-> Position[segments[n - i]]]
<1>3. n \in Nat \ {0} /\ DOMAIN segments = 1 .. n
  BY <1>0 DEF IInv, TypeOK, SegmentsOK
<1>4. /\ \A i \in 1 .. n : BaseOffset[segments[i]] \in Nat /\ NextOffset[segments[i]] \in Nat
      /\ \A i \in 1 .. n : BaseOffset[segments[i]] \in DOMAIN disk
  BY <1>0, <1>3, SegmentTypes, Zenon DEF IInv, SegmentsOK, SegmentOK
<1>5. \A i, j \in 1 .. n : i < j => BaseOffset[segments[i]] < BaseOffset[segments[j]]
  BY <1>0, <1>3, <1>4 DEF IInv, SegmentsOK
<1>6. \A b \in DOMAIN disk : \E i \in 1 .. n : b = BaseOffset[segments[i]]
  BY <1>0, <1>1, <1>2, <1>3, Zenon DEF IInv, FilesOK
<1>7. InOrder(disk, bases, n)
  BY <1>3, <1>4, <1>5, <1>6, Zenon DEF InOrder
<1>8. IsDir(disk)
  <2>1. DOMAIN disk \subseteq Nat /\ \A b \in DOMAIN disk : disk[b] \in Seq(Records)
    BY <1>0, Zenon DEF IInv, TypeOK
  <2>2. ASSUME NEW b \in DOMAIN disk PROVE FileEnd(disk[b]) \in Nat
    <3>1. PICK i \in 1 .. n : b = BaseOffset[segments[i]]
      BY <1>6, SMTT(20)
    <3>2. Position[segments[i]] = FileEnd(disk[b])
      BY <1>0, <1>3, <3>1, Zenon DEF IndexOK, Indexed, ExactIndex, File
    <3>3. segments[i] \in Objects
      BY <1>0, <1>3, SegmentTypes DEF IInv
    <3> QED
      BY <1>0, <3>2, <3>3, Zenon DEF IInv, TypeOK
  <2> QED
    BY <2>1, <2>2, Zenon DEF IsDir
<1>9. \A i \in 0 .. n - 1 : w[i] = FileEnd(disk[bases[n - i]])
  <2> SUFFICES ASSUME NEW i \in 0 .. n - 1 PROVE w[i] = FileEnd(disk[bases[n - i]])
    BY Zenon
  <2>1. n - i \in 1 .. n
    BY <1>3
  <2>2. Position[segments[n - i]] = FileEnd(disk[BaseOffset[segments[n - i]]])
    BY <1>0, <1>3, <2>1, Zenon DEF IndexOK, Indexed, ExactIndex, File
  <2> QED
    BY <2>1, <2>2
<1>10. Max(DOMAIN disk) = bases[n]
  <2>0. n \in 1 .. n /\ bases[n] = BaseOffset[segments[n]] /\ \A i \in 1 .. n : i < n \/ i = n
    <3>1. \A k \in Nat \ {0} : k \in 1 .. k /\ \A i \in 1 .. k : i < k \/ i = k
      OBVIOUS
    <3>2. n \in 1 .. n /\ \A i \in 1 .. n : i < n \/ i = n
      BY <1>3, <3>1, Zenon
    <3> QED
      BY <3>2, Zenon
  <2>1. bases[n] \in DOMAIN disk /\ bases[n] \in Nat /\ \A b \in DOMAIN disk : bases[n] >= b
    <3>1. ASSUME NEW b \in DOMAIN disk PROVE bases[n] >= b
      <4>1. PICK i \in 1 .. n : b = BaseOffset[segments[i]]
        BY <1>6
      <4>2. b = bases[n] \/ b < bases[n]
        BY <1>5, <2>0, <4>1, Zenon
      <4> QED
        BY <1>4, <2>0, <4>1, <4>2
    <3> QED
      BY <1>4, <2>0, <3>1, Zenon
  <2>2. \A x, y \in DOMAIN disk : x >= y /\ y >= x => x = y
    BY <1>0 DEF IInv, TypeOK
  <2> DEFINE top == Max(DOMAIN disk)
  <2>3. top \in DOMAIN disk /\ \A b \in DOMAIN disk : top >= b
    BY <2>1, Zenon DEF Max
  <2> HIDE DEF bases, top
  <2>4. top = bases[n]
    BY <2>1, <2>2, <2>3
  <2> QED
    BY <2>4 DEF top
<1>11. TailBytes(segments, 1) = Total(w, n)
  <2>1. n - 1 + 1 = n
    BY <1>3
  <2> QED
    BY <2>1 DEF TailBytes
<1> HIDE DEF bases, w
<1> QED
  BY <1>7, <1>8, <1>9, <1>10, <1>11, BytesInOrder

\* A log with the delete policy, opened once and with one appender, keeps no more
\* than the retention size once a split has cleaned it, and no segment of it
\* grows past its size by more than the record that filled it.
THEOREM DeleteLogBounded == ASSUME SingleAppender PROVE SpecDelete => []RetentionKept
<1>1. SpecDelete => [](DeleteInv /\ Keeping)
  <2>1. InitDelete => Keeping
    BY InitKeeping DEF InitDelete, InitLog
  <2>2. DeleteInv /\ Keeping /\ [NextOpened]_logVars => Keeping'
    BY OpenedStep, NextKeeping, Zenon DEF DeleteInv, LogInv
  <2> QED
    BY <2>1, <2>2, DeleteInvariant, PTL DEF SpecDelete
<1>2. DeleteInv /\ Keeping => RetentionKept
  <2> SUFFICES ASSUME DeleteInv, Keeping PROVE RetentionBound
    BY DEF RetentionKept
  <2>1. LogInv
    BY DEF DeleteInv
  <2> QED
    BY <2>1, BytesKept DEF Keeping, RetentionBound, Busy
<1> QED
  BY <1>1, <1>2, PTL
=============================================================================
