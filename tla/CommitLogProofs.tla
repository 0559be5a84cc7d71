-------------------------- MODULE CommitLogProofs --------------------------
(***************************************************************************)
(* A log with one appender at a time hands out consecutive offsets: for    *)
(* every segment size, retention size, payload and number of records the   *)
(* segments follow one another without a gap, every record carries its     *)
(* offset, and every index entry points at its record.  What Append        *)
(* acknowledged stays until the cleaner drops its segment, and neither end *)
(* of the log ever moves back.                                             *)
(***************************************************************************)
EXTENDS CommitLog, TLAPS

\* Broker.Run handles one produce request after the other.
SingleAppender == \A a, b \in Appenders : a = b

Busy(label) == \E a \in Appenders : pc[a] = label

\* One segment: the k-th record of its file carries the k-th offset.
SegmentOK(s) ==
  /\ s \notin closed
  /\ BaseOffset[s] \in DOMAIN disk
  /\ NextOffset[s] = BaseOffset[s] + Len(disk[BaseOffset[s]])
  /\ \A k \in DOMAIN disk[BaseOffset[s]] : disk[BaseOffset[s]][k].off = BaseOffset[s] + k - 1
  /\ NextOffset[s] = BaseOffset[s] => Position[s] = 0

\* The segments of the log lie side by side, in order, and only the last may be
\* empty.
SegmentsOK ==
  /\ segments # <<>>
  /\ \A i \in DOMAIN segments : SegmentOK(segments[i])
  /\ \A i, j \in DOMAIN segments : i < j =>
       /\ BaseOffset[segments[i]] < NextOffset[segments[i]]
       /\ NextOffset[segments[i]] <= BaseOffset[segments[j]]
       /\ j = i + 1 => NextOffset[segments[i]] = BaseOffset[segments[j]]

\* Outside a split the active segment is the last one; in it, the new segment
\* starts where the active one ends and is empty.
ActiveOK ==
  /\ ~Busy("activate") => active = segments[Len(segments)]
  /\ \A a \in Appenders :
       /\ pc[a] = "split" => BaseOffset[active] < NextOffset[active]
       /\ pc[a] = "clean" =>
            /\ SegmentOK(loc[a].seg)
            /\ BaseOffset[active] < NextOffset[active]
            /\ BaseOffset[loc[a].seg] = NextOffset[active]
            /\ NextOffset[loc[a].seg] = NextOffset[active]
       /\ pc[a] = "activate" =>
            loc[a].seg = segments[Len(segments)] /\ NextOffset[loc[a].seg] = NextOffset[active]
       /\ pc[a] = "write" => loc[a].off = NextOffset[active]

\* The files are those of the segments, and of the new one during a split.
FilesOK ==
  \A b \in DOMAIN disk :
    \/ \E i \in DOMAIN segments : b = BaseOffset[segments[i]]
    \/ \E a \in Appenders : pc[a] = "clean" /\ b = BaseOffset[loc[a].seg]

\* An Append under way holds a message set.
LocalsOK ==
  \A a \in Appenders : pc[a] # "idle" => loc[a].val \in Values /\ loc[a].len \in Lens

IInv == TypeOK /\ status = "open" /\ LocalsOK /\ SegmentsOK /\ ActiveOK /\ FilesOK

\* The empty log is consistent.
LEMMA InitIInv == Init => IInv
<1> SUFFICES ASSUME Init PROVE IInv
  OBVIOUS
<1>1. TypeOK
  <2>1. DOMAIN disk \subseteq Nat /\ \A b \in DOMAIN disk : disk[b] \in Seq(Records)
    BY DEF Init
  <2>2. /\ Objects = {1} /\ BaseOffset \in Seq(Nat)
        /\ NextOffset \in [Objects -> Nat] /\ Position \in [Objects -> Nat]
    BY DEF Init, Objects
  <2>3. Index \in [Objects -> Seq(Entries)]
    <3>1. \A E : E \in Seq(Entries) => <<E>> \in [{1} -> Seq(Entries)]
      OBVIOUS
    <3>2. <<>> \in Seq(Entries)
      OBVIOUS
    <3>3. Index = << <<>> >>
      BY DEF Init
    <3> QED
      BY <2>2, <3>1, <3>2, <3>3, Zenon
  <2>4. closed \subseteq Objects
    BY DEF Init
  <2>5. segments \in Seq(Objects) /\ active \in Objects
    BY <2>2 DEF Init
  <2>6. pc \in [Appenders -> Labels] /\ loc \in [Appenders -> Locals]
    BY DEF Init, Labels, Locals, NoLocals
  <2> QED
    BY <2>1, <2>2, <2>3, <2>4, <2>5, <2>6 DEF Init, TypeOK
<1>2. SegmentOK(1)
  BY DEF Init, SegmentOK
<1>3. SegmentsOK
  BY <1>2 DEF Init, SegmentsOK
<1>4. ActiveOK /\ LocalsOK
  BY DEF Init, ActiveOK, LocalsOK
<1>5. FilesOK
  BY DEF Init, FilesOK
<1> QED
  BY <1>1, <1>3, <1>4, <1>5 DEF IInv, Init

\* The steps of Append that touch neither the segments nor the files.

\* The check for a full active segment (commitlog.go checkSplit) keeps the invariant.
LEMMA CheckSplitIInv ==
  ASSUME SingleAppender, IInv,
         NEW a \in Appenders, NEW v \in Values, NEW n \in Lens, CheckSplit(a, v, n)
  PROVE  IInv'
<1>1. Appenders = {a}
  BY DEF SingleAppender
<1>2. /\ pc[a] = "idle" /\ pc'[a] \in {"split", "position"}
      /\ pc' \in [Appenders -> Labels] /\ loc' \in [Appenders -> Locals]
      /\ loc'[a].val = v /\ loc'[a].len = n
  BY LensAssumption, ZenonT(30) DEF IInv, TypeOK, CheckSplit, Goto, Labels, Locals
<1>3. TypeOK' /\ (status = "open")'
  BY <1>1, <1>2 DEF IInv, TypeOK, CheckSplit, files, heap, Objects
<1>4. LocalsOK'
  BY <1>1, <1>2 DEF LocalsOK
<1>5. SegmentsOK'
  BY DEF IInv, CheckSplit, files, heap, SegmentsOK, SegmentOK
<1>6. FilesOK'
  BY <1>1, <1>2 DEF IInv, CheckSplit, files, heap, FilesOK
<1>7. active = segments[Len(segments)] /\ SegmentOK(active)
  BY <1>1, <1>2 DEF IInv, ActiveOK, SegmentsOK, Busy, TypeOK
<1>8. pc'[a] = "split" => BaseOffset[active] < NextOffset[active]
  <2>1. SUFFICES ASSUME IsFull(active) PROVE BaseOffset[active] < NextOffset[active]
    BY DEF CheckSplit, Goto, IInv, TypeOK
  <2>2. /\ BaseOffset[active] \in DOMAIN disk /\ BaseOffset[active] \in Nat
        /\ disk[BaseOffset[active]] \in Seq(Records)
    BY <1>7 DEF SegmentOK, IInv, TypeOK
  <2>3. Len(disk[BaseOffset[active]]) \in Nat
    BY <2>2
  <2>4. Position[active] # 0
    BY <2>1, MaxSegmentBytesAssumption DEF IsFull
  <2> QED
    BY <1>7, <2>2, <2>3, <2>4 DEF SegmentOK
<1>9. ActiveOK'
  BY <1>1, <1>2, <1>7, <1>8 DEF CheckSplit, files, heap, ActiveOK, Busy
<1> QED
  BY <1>3, <1>4, <1>5, <1>6, <1>9 DEF IInv

\* Reading the position to write at keeps the invariant.
LEMMA AppendPositionIInv ==
  ASSUME SingleAppender, IInv, NEW a \in Appenders, AppendPosition(a)
  PROVE  IInv'
<1>1. Appenders = {a}
  BY DEF SingleAppender
<1>2. /\ pc[a] = "position" /\ pc'[a] = "offset"
      /\ pc' \in [Appenders -> Labels] /\ loc' \in [Appenders -> Locals]
      /\ loc'[a].val = loc[a].val /\ loc'[a].len = loc[a].len
  BY ZenonT(30) DEF IInv, TypeOK, AppendPosition, Goto, Labels, Locals
<1>3. TypeOK' /\ (status = "open")'
  BY <1>1, <1>2, Zenon DEF IInv, TypeOK, AppendPosition, files, heap, Objects
<1>4. LocalsOK' /\ FilesOK'
  BY <1>1, <1>2 DEF IInv, LocalsOK, FilesOK, AppendPosition, files, heap
<1>5. SegmentsOK'
  BY DEF IInv, AppendPosition, files, heap, SegmentsOK, SegmentOK
<1>6. ActiveOK'
  BY <1>1, <1>2 DEF IInv, AppendPosition, files, heap, ActiveOK, Busy
<1> QED
  BY <1>3, <1>4, <1>5, <1>6 DEF IInv

\* Putting the next offset in the message set keeps the invariant.
LEMMA AppendPutOffsetIInv ==
  ASSUME SingleAppender, IInv, NEW a \in Appenders, AppendPutOffset(a)
  PROVE  IInv'
<1>1. Appenders = {a}
  BY DEF SingleAppender
<1>2. /\ pc[a] = "offset" /\ pc'[a] = "write"
      /\ pc' \in [Appenders -> Labels] /\ loc' \in [Appenders -> Locals]
      /\ loc'[a].val = loc[a].val /\ loc'[a].len = loc[a].len
      /\ loc'[a].off = NextOffset[active]
  BY Zenon DEF IInv, TypeOK, AppendPutOffset, Goto, Labels, Locals
<1>3. TypeOK' /\ (status = "open")'
  BY <1>1, <1>2 DEF IInv, TypeOK, AppendPutOffset, files, heap, Objects
<1>4. LocalsOK' /\ FilesOK'
  BY <1>1, <1>2 DEF IInv, LocalsOK, FilesOK, AppendPutOffset, files, heap
<1>5. SegmentsOK'
  BY DEF IInv, AppendPutOffset, files, heap, SegmentsOK, SegmentOK
<1>6. ActiveOK'
  BY <1>1, <1>2 DEF IInv, AppendPutOffset, files, heap, ActiveOK, Busy
<1> QED
  BY <1>3, <1>4, <1>5, <1>6 DEF IInv

\* Storing the new segment as the active one (the end of split) keeps the invariant.
LEMMA SplitStoreActiveIInv ==
  ASSUME SingleAppender, IInv, NEW a \in Appenders, SplitStoreActive(a)
  PROVE  IInv'
<1>1. Appenders = {a}
  BY DEF SingleAppender
<1>2. /\ pc[a] = "activate" /\ pc'[a] = "position" /\ pc' \in [Appenders -> Labels]
      /\ active' = segments[Len(segments)] /\ active' \in Objects
  BY DEF IInv, TypeOK, SplitStoreActive, Goto, Labels, ActiveOK
<1>3. TypeOK' /\ (status = "open")'
  BY <1>1, <1>2, Zenon DEF IInv, TypeOK, SplitStoreActive, files, heap, Objects
<1>4. LocalsOK' /\ FilesOK'
  BY <1>1, <1>2 DEF IInv, LocalsOK, FilesOK, SplitStoreActive, files, heap
<1>5. SegmentsOK'
  BY DEF IInv, SplitStoreActive, files, heap, SegmentsOK, SegmentOK
<1>6. ActiveOK'
  BY <1>1, <1>2 DEF IInv, SplitStoreActive, files, heap, ActiveOK, Busy
<1> QED
  BY <1>3, <1>4, <1>5, <1>6 DEF IInv

\* Writing the index entry of the message set keeps the invariant, and acknowledges it.
LEMMA IndexWriteEntryIInv ==
  ASSUME SingleAppender, IInv, NEW a \in Appenders, IndexWriteEntry(a)
  PROVE  IInv'
<1>1. Appenders = {a}
  BY DEF SingleAppender
<1>2. /\ pc[a] = "index" /\ pc'[a] = "idle"
      /\ pc' \in [Appenders -> Labels] /\ loc' \in [Appenders -> Locals]
  BY Zenon DEF IInv, TypeOK, IndexWriteEntry, Return, Goto, Labels, Locals, NoLocals
<1>3. Index' \in [Objects -> Seq(Entries)]
  <2>1. [off |-> loc[a].off, pos |-> loc[a].pos] \in Entries
    BY DEF IInv, TypeOK, Locals, Entries
  <2> QED
    BY <2>1 DEF IInv, TypeOK, IndexWriteEntry
<1>4. acked' \subseteq [off : Nat, val : Values]
  BY <1>2 DEF IInv, TypeOK, LocalsOK, IndexWriteEntry, Locals
<1>5. TypeOK' /\ (status = "open")'
  BY <1>1, <1>2, <1>3, <1>4, Zenon DEF IInv, TypeOK, IndexWriteEntry, files, Objects
<1>6. LocalsOK' /\ FilesOK'
  BY <1>1, <1>2 DEF IInv, LocalsOK, FilesOK, IndexWriteEntry, files
<1>7. SegmentsOK'
  BY DEF IInv, IndexWriteEntry, files, SegmentsOK, SegmentOK
<1>8. ActiveOK'
  BY <1>1, <1>2 DEF IInv, IndexWriteEntry, files, ActiveOK, Busy
<1> QED
  BY <1>5, <1>6, <1>7, <1>8 DEF IInv

\* What TypeOK says of one segment of the log.
LEMMA SegmentTypes ==
  ASSUME TypeOK, NEW i \in DOMAIN segments
  PROVE  /\ i \in Nat /\ 1 <= i /\ i <= Len(segments)
         /\ segments[i] \in Objects
         /\ BaseOffset[segments[i]] \in Nat /\ NextOffset[segments[i]] \in Nat
<1>1. segments \in Seq(Objects)
  BY DEF TypeOK
<1>2. DOMAIN segments = 1 .. Len(segments) /\ segments[i] \in Objects
  BY <1>1
<1>3. BaseOffset \in [Objects -> Nat] /\ NextOffset \in [Objects -> Nat]
  <2>1. BaseOffset \in Seq(Nat) /\ NextOffset \in [Objects -> Nat]
    BY DEF TypeOK
  <2> QED
    BY <2>1 DEF Objects
<1>4. Len(segments) \in Nat
  BY <1>1
<1> QED
  BY <1>2, <1>3, <1>4

\* The segments of the log have base offsets of their own.
LEMMA BasesDistinct ==
  ASSUME TypeOK, SegmentsOK, NEW i \in DOMAIN segments, NEW j \in DOMAIN segments, i # j
  PROVE  BaseOffset[segments[i]] # BaseOffset[segments[j]]
<1>1. \A k \in DOMAIN segments : /\ k \in Nat /\ BaseOffset[segments[k]] \in Nat
                                 /\ NextOffset[segments[k]] \in Nat
  BY SegmentTypes
<1> QED
  BY <1>1 DEF SegmentsOK

\* Adding one to the length of a file.
LEMMA OneMore ==
  /\ \A l \in Nat : l + 1 # 0
  /\ \A x, l \in Nat : (x + l) + 1 = x + (l + 1) /\ (x + l) + 1 # x
  OBVIOUS

\* What is left of a sequence of n + 1 elements from the first kept on.
LEMMA TailFrom ==
  ASSUME NEW S, NEW s \in Seq(S), NEW n \in Nat, Len(s) = n + 1, NEW first \in 1 .. n + 1
  PROVE  /\ SubSeq(s, first, n + 1) \in Seq(S) /\ Len(SubSeq(s, first, n + 1)) = n + 2 - first
         /\ DOMAIN SubSeq(s, first, n + 1) = 1 .. n + 2 - first
         /\ \A k \in 1 .. n + 2 - first : SubSeq(s, first, n + 1)[k] = s[first + k - 1]
  OBVIOUS

\* A file has a length.
LEMMA FileEndType == ASSUME NEW f \in Seq(Records) PROVE FileEnd(f) \in Nat
<1>1. CASE f = <<>>
  BY <1>1 DEF FileEnd
<1>2. CASE f # <<>>
  <2>1. f[Len(f)] \in Records
    BY <1>2
  <2>2. f[Len(f)].at \in Nat /\ f[Len(f)].len \in Nat
    BY <2>1, LensAssumption, Zenon DEF Records
  <2> QED
    BY <1>2, <2>2 DEF FileEnd
<1> QED
  BY <1>1, <1>2

\* What Segment.Write does for a single appender: record r goes to the end of f,
\* the file of the active segment, which is the last one.
Wrote(a, f, r) ==
  /\ pc[a] = "write" /\ Len(segments) \in DOMAIN segments
  /\ active = segments[Len(segments)] /\ SegmentOK(active)
  /\ active \in Objects /\ active \notin closed
  /\ BaseOffset[active] \in DOMAIN disk /\ BaseOffset[active] \in Nat
  /\ f = disk[BaseOffset[active]] /\ f \in Seq(Records)
  /\ loc[a].off = NextOffset[active] /\ FileEnd(f) \in Nat
  /\ r = [off |-> loc[a].off, at |-> FileEnd(f), len |-> loc[a].len, val |-> loc[a].val]
  /\ r \in Records
  /\ pc'[a] = "index" /\ pc' \in [Appenders -> Labels] /\ loc' = loc
  /\ disk' = [c \in DOMAIN disk |-> IF c = BaseOffset[active] THEN Append(f, r) ELSE disk[c]]
  /\ NextOffset' = [NextOffset EXCEPT ![active] = @ + 1]
  /\ Position' = [Position EXCEPT ![active] = @ + loc[a].len]
  /\ UNCHANGED <<status, orphans, BaseOffset, Index, closed, segments, active, acked>>
  /\ Append(f, r) \in Seq(Records) /\ Len(Append(f, r)) = Len(f) + 1

\* The active segment is open, so the write succeeds.
LEMMA WriteEffect ==
  ASSUME SingleAppender, IInv, NEW a \in Appenders, SegmentWrite(a)
  PROVE  \E f, r : Wrote(a, f, r)
<1> DEFINE n == Len(segments)
           b == BaseOffset[active]
           f == disk[b]
           r == [off |-> loc[a].off, at |-> FileEnd(f), len |-> loc[a].len, val |-> loc[a].val]
<1>1. Appenders = {a}
  BY DEF SingleAppender
<1>2. pc[a] = "write" /\ active = segments[n] /\ n \in DOMAIN segments /\ SegmentOK(active)
  BY <1>1 DEF IInv, TypeOK, ActiveOK, SegmentsOK, Busy, SegmentWrite
<1>3. /\ active \in Objects /\ active \notin closed
      /\ b \in DOMAIN disk /\ b \in Nat /\ f \in Seq(Records)
      /\ loc[a].off = NextOffset[active]
  BY <1>2 DEF IInv, TypeOK, SegmentOK, ActiveOK
<1>4. FileEnd(f) \in Nat
  BY <1>3, FileEndType
<1>5. r \in Records
  BY <1>2, <1>4, Zenon DEF IInv, TypeOK, LocalsOK, Locals, Records
<1>6. /\ pc'[a] = "index" /\ pc' \in [Appenders -> Labels] /\ loc' = loc
      /\ disk' = [c \in DOMAIN disk |-> IF c = b THEN Append(f, r) ELSE disk[c]]
      /\ NextOffset' = [NextOffset EXCEPT ![active] = @ + 1]
      /\ Position' = [Position EXCEPT ![active] = @ + loc[a].len]
      /\ UNCHANGED <<status, orphans, BaseOffset, Index, closed, segments, active, acked>>
  BY <1>2, <1>3, Zenon DEF IInv, TypeOK, SegmentWrite, Goto, Labels
<1>7. Append(f, r) \in Seq(Records) /\ Len(Append(f, r)) = Len(f) + 1
  BY <1>3, <1>5
<1>8. Wrote(a, f, r)
  BY <1>2, <1>3, <1>4, <1>5, <1>6, <1>7, Zenon DEF Wrote
<1> QED
  BY <1>8, Zenon

\* The record goes to the end of the last segment, whose next offset it carries.
LEMMA SegmentWriteIInv ==
  ASSUME SingleAppender, IInv, NEW a \in Appenders, SegmentWrite(a)
  PROVE  IInv'
<1> DEFINE n == Len(segments)
           b == BaseOffset[active]
<1>0. PICK f, r : Wrote(a, f, r)
  BY WriteEffect
<1>1. Appenders = {a}
  BY DEF SingleAppender
<1>2. pc[a] = "write" /\ active = segments[n] /\ n \in DOMAIN segments /\ SegmentOK(active)
  BY <1>0 DEF Wrote
<1>3. /\ active \in Objects /\ active \notin closed
      /\ b \in DOMAIN disk /\ b \in Nat /\ f \in Seq(Records) /\ f = disk[b]
      /\ loc[a].off = NextOffset[active]
  BY <1>0 DEF Wrote
<1>5. r \in Records /\ r.off = loc[a].off
  BY <1>0 DEF Wrote
<1>6. /\ pc'[a] = "index" /\ pc' \in [Appenders -> Labels] /\ loc' = loc
      /\ disk' = [c \in DOMAIN disk |-> IF c = b THEN Append(f, r) ELSE disk[c]]
      /\ NextOffset' = [NextOffset EXCEPT ![active] = @ + 1]
      /\ Position' = [Position EXCEPT ![active] = @ + loc[a].len]
      /\ UNCHANGED <<status, orphans, BaseOffset, Index, closed, segments, active, acked>>
  BY <1>0 DEF Wrote
<1>7. Append(f, r) \in Seq(Records) /\ Len(Append(f, r)) = Len(f) + 1
  BY <1>0 DEF Wrote
<1>8. TypeOK' /\ (status = "open")'
  <2>1. loc[a].len \in Nat
    BY DEF IInv, TypeOK, Locals
  <2>2. NextOffset' \in [Objects -> Nat] /\ Position' \in [Objects -> Nat]
    <3>1. /\ NextOffset \in [Objects -> Nat] /\ Position \in [Objects -> Nat]
      BY DEF IInv, TypeOK
    <3>2. /\ NextOffset' = [NextOffset EXCEPT ![active] = @ + 1]
          /\ Position' = [Position EXCEPT ![active] = @ + loc[a].len]
      BY <1>6
    <3> QED
      BY <1>3, <2>1, <3>1, <3>2
  <2>3. \A c \in DOMAIN disk : disk'[c] \in Seq(Records)
    BY <1>6, <1>7 DEF IInv, TypeOK
  <2> QED
    BY <1>1, <1>2, <1>6, <2>2, <2>3, Zenon DEF IInv, TypeOK, Objects
<1>9. LocalsOK' /\ FilesOK'
  BY <1>1, <1>2, <1>6 DEF IInv, LocalsOK, FilesOK
<1>10. SegmentOK(active)'
  <2>1. b \in DOMAIN disk' /\ disk'[b] = Append(f, r)
    BY <1>3, <1>6
  <2>2. NextOffset[active] = b + Len(f) /\ NextOffset'[active] = NextOffset[active] + 1
    BY <1>2, <1>3, <1>6 DEF SegmentOK, IInv, TypeOK
  <2>3. \A k \in DOMAIN Append(f, r) : Append(f, r)[k].off = b + k - 1
    BY <1>2, <1>3, <1>5, <2>2, SMTT(40) DEF SegmentOK
  <2>4. Len(f) \in Nat
    BY <1>3
  <2>5. NextOffset'[active] = b + Len(disk'[b]) /\ NextOffset'[active] # b
    <3>1. NextOffset'[active] = (b + Len(f)) + 1 /\ Len(disk'[b]) = Len(f) + 1
      BY <1>7, <2>1, <2>2, Zenon
    <3>2. (b + Len(f)) + 1 = b + (Len(f) + 1) /\ (b + Len(f)) + 1 # b
      BY <1>3, <2>4, OneMore, Zenon
    <3> QED
      BY <3>1, <3>2, Zenon
  <2>6. active' = active /\ BaseOffset' = BaseOffset /\ active \notin closed'
    BY <1>3, <1>6
  <2> QED
    BY <2>1, <2>3, <2>5, <2>6, Zenon DEF SegmentOK
<1>11. ASSUME NEW i \in DOMAIN segments, i # n
       PROVE  /\ BaseOffset[segments[i]] # b /\ segments[i] # active
              /\ SegmentOK(segments[i])'
              /\ NextOffset'[segments[i]] = NextOffset[segments[i]]
  <2>1. BaseOffset[segments[i]] # b /\ segments[i] # active
    BY <1>2, <1>11, BasesDistinct DEF IInv
  <2>2. SegmentOK(segments[i]) /\ segments[i] \in Objects
    BY SegmentTypes DEF IInv, SegmentsOK
  <2>3. /\ NextOffset'[segments[i]] = NextOffset[segments[i]]
        /\ Position'[segments[i]] = Position[segments[i]]
    BY <1>6, <2>1, <2>2 DEF IInv, TypeOK
  <2>4. /\ BaseOffset[segments[i]] \in DOMAIN disk'
        /\ disk'[BaseOffset[segments[i]]] = disk[BaseOffset[segments[i]]]
    BY <1>6, <2>1, <2>2 DEF SegmentOK
  <2> QED
    BY <1>6, <2>1, <2>2, <2>3, <2>4 DEF SegmentOK
<1>12. SegmentsOK'
  <2>1. \A i \in DOMAIN segments : SegmentOK(segments[i])'
    BY <1>2, <1>6, <1>10, <1>11
  <2>2. \A i, j \in DOMAIN segments : i < j => i # n
    BY SegmentTypes DEF IInv
  <2> QED
    BY <1>6, <1>11, <2>1, <2>2 DEF IInv, SegmentsOK
<1>13. ActiveOK'
  BY <1>1, <1>2, <1>6 DEF ActiveOK, Busy
<1> QED
  BY <1>8, <1>9, <1>12, <1>13 DEF IInv

\* The fields of the segment objects, as sequences of one length.
LEMMA HeapTypes ==
  ASSUME TypeOK
  PROVE  /\ BaseOffset \in Seq(Nat) /\ NextOffset \in Seq(Nat) /\ Position \in Seq(Nat)
         /\ Index \in Seq(Seq(Entries))
         /\ Objects = 1 .. Len(BaseOffset) /\ Len(BaseOffset) \in Nat
         /\ Len(NextOffset) = Len(BaseOffset) /\ Len(Position) = Len(BaseOffset)
         /\ Len(Index) = Len(BaseOffset)
<1> DEFINE n == Len(BaseOffset)
<1>1. /\ BaseOffset \in Seq(Nat) /\ NextOffset \in [Objects -> Nat]
      /\ Position \in [Objects -> Nat] /\ Index \in [Objects -> Seq(Entries)]
  BY DEF TypeOK
<1>2. n \in Nat /\ Objects = 1 .. n
  BY <1>1 DEF Objects
<1>3. \A S : \A f \in [1 .. n -> S] : f \in Seq(S) /\ Len(f) = n
  BY <1>2
<1> QED
  BY <1>1, <1>2, <1>3

\* Append keeps the elements that are there.
LEMMA AppendElements ==
  ASSUME NEW S, NEW f \in Seq(S), NEW e \in S, NEW n \in Nat, Len(f) = n
  PROVE  /\ Append(f, e) \in Seq(S) /\ Append(f, e) \in [1 .. n + 1 -> S]
         /\ Append(f, e)[n + 1] = e /\ \A k \in 1 .. n : Append(f, e)[k] = f[k]
<1>1. Append(f, e) \in Seq(S) /\ Len(Append(f, e)) = n + 1
  OBVIOUS
<1>2. Append(f, e)[n + 1] = e /\ \A k \in 1 .. n : Append(f, e)[k] = f[k]
  OBVIOUS
<1>3. \A g \in Seq(S) : Len(g) = n + 1 => g \in [1 .. n + 1 -> S]
  OBVIOUS
<1> QED
  BY <1>1, <1>2, <1>3, Zenon

\* Appending a natural number to a sequence of them, as SegmentWrite does to an index.
LEMMA AppendNat ==
  ASSUME NEW f \in Seq(Nat), NEW e \in Nat
  PROVE  /\ Append(f, e) \in [1 .. Len(f) + 1 -> Nat] /\ Append(f, e)[Len(f) + 1] = e
         /\ \A k \in 1 .. Len(f) : Append(f, e)[k] = f[k]
<1>1. Append(f, e) \in Seq(Nat) /\ Len(Append(f, e)) = Len(f) + 1
  OBVIOUS
<1>2. Append(f, e)[Len(f) + 1] = e /\ \A k \in 1 .. Len(f) : Append(f, e)[k] = f[k]
  OBVIOUS
<1>3. Append(f, e) \in [1 .. Len(f) + 1 -> Nat]
  <2>1. \A g \in Seq(Nat) : g \in [1 .. Len(g) -> Nat]
    OBVIOUS
  <2> QED
    BY <1>1, <2>1, Zenon
<1> QED
  BY <1>1, <1>2, <1>3

\* What the creation of a segment does for a single appender: object new, number
\* len + 1, with an empty file at x, the end of the active segment, beyond the
\* files that are there.
Created(a, x, len, new) ==
  /\ x \in Nat /\ x = NextOffset[active]
  /\ len \in Nat /\ len = Len(BaseOffset) /\ new \in Nat /\ new = len + 1
  /\ pc[a] = "split" /\ active = segments[Len(segments)] /\ Len(segments) \in DOMAIN segments
  /\ BaseOffset[active] < x
  /\ \A i \in DOMAIN segments : BaseOffset[segments[i]] < x
  /\ x \notin DOMAIN disk
  /\ pc'[a] = "clean" /\ pc' \in [Appenders -> Labels] /\ loc' \in [Appenders -> Locals]
  /\ loc'[a].val = loc[a].val /\ loc'[a].len = loc[a].len /\ loc'[a].seg = new
  /\ disk' = [c \in DOMAIN disk \cup {x} |-> IF c = x THEN <<>> ELSE disk[c]]
  /\ UNCHANGED <<closed, status, orphans, segments, active, acked>>
  /\ Objects' = Objects \cup {new} /\ new \notin Objects
  /\ BaseOffset' \in Seq(Nat) /\ NextOffset' \in [Objects' -> Nat]
  /\ Position' \in [Objects' -> Nat] /\ Index' \in [Objects' -> Seq(Entries)]
  /\ BaseOffset'[new] = x /\ NextOffset'[new] = x
  /\ Position'[new] = 0 /\ Index'[new] = <<>>
  /\ \A s \in Objects : /\ BaseOffset'[s] = BaseOffset[s] /\ NextOffset'[s] = NextOffset[s]
                        /\ Position'[s] = Position[s] /\ Index'[s] = Index[s]

\* A split makes an empty segment that begins where the active one ends: no file
\* of the log has that name, since the active segment is the last one.
LEMMA CreateEffect ==
  ASSUME SingleAppender, IInv, NEW a \in Appenders, SplitNewSegment(a)
  PROVE  \E x, len, new : Created(a, x, len, new)
<1> DEFINE n == Len(segments)
<1>0. PICK x \in Nat, len \in Nat, new \in Nat :
        x = NextOffset[active] /\ len = Len(BaseOffset) /\ new = len + 1
  BY HeapTypes DEF IInv, TypeOK
<1>1. Appenders = {a}
  BY DEF SingleAppender
<1>2. /\ pc[a] = "split" /\ active = segments[n] /\ n \in DOMAIN segments
      /\ BaseOffset[active] < x
  BY <1>0, <1>1, SegmentTypes DEF IInv, TypeOK, ActiveOK, SegmentsOK, Busy, SplitNewSegment
<1>3. \A i \in DOMAIN segments : BaseOffset[segments[i]] < x
  <2> SUFFICES ASSUME NEW i \in DOMAIN segments PROVE BaseOffset[segments[i]] < x
    OBVIOUS
  <2>1. /\ i \in Nat /\ i <= n /\ n \in Nat
        /\ BaseOffset[segments[i]] \in Nat /\ NextOffset[segments[i]] \in Nat
        /\ BaseOffset[active] \in Nat /\ x = NextOffset[segments[n]]
    BY <1>0, <1>2, SegmentTypes DEF IInv
  <2>2. CASE i = n
    BY <1>2, <2>2
  <2>3. CASE i < n
    BY <1>2, <2>1, <2>3 DEF IInv, SegmentsOK
  <2> QED
    BY <2>1, <2>2, <2>3
<1>4. x \notin DOMAIN disk
  BY <1>1, <1>2, <1>3 DEF IInv, FilesOK
<1>5. /\ pc'[a] = "clean" /\ pc' \in [Appenders -> Labels]
      /\ loc' \in [Appenders -> Locals]
      /\ loc'[a].val = loc[a].val /\ loc'[a].len = loc[a].len /\ loc'[a].seg = new
  <2>1. loc' = [loc EXCEPT ![a].seg = new]
    BY <1>0 DEF SplitNewSegment
  <2>2. loc \in [Appenders -> Locals]
    BY DEF IInv, TypeOK
  <2>3. /\ loc' \in [Appenders -> Locals] /\ loc'[a].seg = new
        /\ loc'[a].val = loc[a].val /\ loc'[a].len = loc[a].len
    BY <2>1, <2>2 DEF Locals
  <2>4. pc'[a] = "clean" /\ pc' \in [Appenders -> Labels]
    BY DEF IInv, TypeOK, SplitNewSegment, Goto, Labels
  <2> QED
    BY <2>3, <2>4
<1>6. /\ disk' = [c \in DOMAIN disk \cup {x} |-> IF c = x THEN <<>> ELSE disk[c]]
      /\ UNCHANGED <<closed, status, orphans, segments, active, acked>>
  BY <1>0, <1>4 DEF SplitNewSegment, NewestOffset, CreateSegment, OpenSegment
<1>6a. /\ BaseOffset' = Append(BaseOffset, x)
       /\ NextOffset' = Append(NextOffset, x)
       /\ Position' = Append(Position, 0)
       /\ Index' = Append(Index, <<>>)
  <2>1. CreateSegment(x)
    BY <1>0, <1>4 DEF SplitNewSegment, NewestOffset
  <2>2. x + Len(<<>>) = x
    OBVIOUS
  <2>3. IndexOf(x, [starts |-> <<>>, pos |-> 0]) = <<>>
    BY DEF IndexOf
  <2> QED
    BY <2>1, <2>2, <2>3 DEF CreateSegment, OpenSegment, SplitNewSegment
<1>7. /\ Objects' = Objects \cup {new} /\ new \notin Objects /\ Objects' = 1 .. len + 1
  <2>1. Objects = 1 .. len /\ BaseOffset \in Seq(Nat)
    BY <1>0, HeapTypes DEF IInv
  <2>2. DOMAIN BaseOffset' = 1 .. len + 1
    BY <1>0, <1>6a, <2>1, AppendElements
  <2> QED
    BY <1>0, <2>1, <2>2 DEF Objects
<1>8. /\ BaseOffset' \in Seq(Nat) /\ NextOffset' \in [Objects' -> Nat]
      /\ Position' \in [Objects' -> Nat] /\ Index' \in [Objects' -> Seq(Entries)]
      /\ BaseOffset'[new] = x /\ NextOffset'[new] = x
      /\ Position'[new] = 0 /\ Index'[new] = <<>>
      /\ \A s \in Objects : /\ BaseOffset'[s] = BaseOffset[s] /\ NextOffset'[s] = NextOffset[s]
                            /\ Position'[s] = Position[s] /\ Index'[s] = Index[s]
  <2>1. /\ BaseOffset \in Seq(Nat) /\ NextOffset \in Seq(Nat) /\ Position \in Seq(Nat)
        /\ Index \in Seq(Seq(Entries)) /\ Objects = 1 .. len
        /\ Len(NextOffset) = len /\ Len(Position) = len /\ Len(Index) = len
    BY <1>0, HeapTypes DEF IInv
  <2>2. 0 \in Nat /\ <<>> \in Seq(Entries)
    OBVIOUS
  <2>3. /\ BaseOffset' \in Seq(Nat) /\ BaseOffset'[new] = x
        /\ \A s \in 1 .. len : BaseOffset'[s] = BaseOffset[s]
    BY <1>0, <1>6a, <2>1, AppendElements
  <2>4. /\ NextOffset' \in [1 .. len + 1 -> Nat] /\ NextOffset'[new] = x
        /\ \A s \in 1 .. len : NextOffset'[s] = NextOffset[s]
    <3>1. NextOffset' = Append(NextOffset, x)
      BY <1>6a
    <3>2. NextOffset \in Seq(Nat) /\ Len(NextOffset) = len
      BY <2>1
    <3>3. /\ Append(NextOffset, x) \in [1 .. len + 1 -> Nat]
          /\ Append(NextOffset, x)[len + 1] = x
          /\ \A s \in 1 .. len : Append(NextOffset, x)[s] = NextOffset[s]
      BY <3>2, AppendNat, Zenon
    <3> QED
      BY <1>0, <3>1, <3>3, Zenon
  <2>5. /\ Position' \in [1 .. len + 1 -> Nat] /\ Position'[new] = 0
        /\ \A s \in 1 .. len : Position'[s] = Position[s]
    <3>1. Position' = Append(Position, 0)
      BY <1>6a
    <3>2. Position \in Seq(Nat) /\ Len(Position) = len
      BY <2>1
    <3>3. /\ Append(Position, 0) \in [1 .. len + 1 -> Nat]
          /\ Append(Position, 0)[len + 1] = 0
          /\ \A s \in 1 .. len : Append(Position, 0)[s] = Position[s]
      BY <2>2, <3>2, AppendNat
    <3> QED
      BY <1>0, <3>1, <3>3, Zenon
  <2>6. /\ Index' \in [1 .. len + 1 -> Seq(Entries)] /\ Index'[new] = <<>>
        /\ \A s \in 1 .. len : Index'[s] = Index[s]
    <3>1. Index' = Append(Index, <<>>)
      BY <1>6a
    <3>2. /\ Append(Index, <<>>) \in [1 .. len + 1 -> Seq(Entries)]
          /\ Append(Index, <<>>)[len + 1] = <<>>
          /\ \A s \in 1 .. len : Append(Index, <<>>)[s] = Index[s]
      <4>1. len \in Nat /\ Len(Index) = len /\ Index \in Seq(Seq(Entries)) /\ <<>> \in Seq(Entries)
        BY <1>0, <2>1, <2>2
      <4>2. Append(Index, <<>>) \in [1 .. len + 1 -> Seq(Entries)]
        BY <4>1, AppendElements, Zenon
      <4>3. Append(Index, <<>>)[len + 1] = <<>>
        BY <4>1
      <4>4. \A s \in 1 .. len : Append(Index, <<>>)[s] = Index[s]
        BY <4>1
      <4> QED
        BY <4>2, <4>3, <4>4
    <3> QED
      BY <1>0, <3>1, <3>2, Zenon
  <2> QED
    BY <1>7, <2>1, <2>3, <2>4, <2>5, <2>6, Zenon
<1>9. Created(a, x, len, new)
  BY <1>0, <1>2, <1>3, <1>4, <1>5, <1>6, <1>7, <1>8, Zenon DEF Created
<1> QED
  BY <1>9, Zenon

\* The split that has made its segment keeps the invariant.
LEMMA SplitNewSegmentIInv ==
  ASSUME SingleAppender, IInv, NEW a \in Appenders, SplitNewSegment(a)
  PROVE  IInv'
<1> DEFINE n == Len(segments)
<1>0. PICK x, len, new : Created(a, x, len, new)
  BY CreateEffect
<1>1. Appenders = {a}
  BY DEF SingleAppender
<1>2. /\ pc[a] = "split" /\ active = segments[n] /\ n \in DOMAIN segments
      /\ BaseOffset[active] < x /\ x \in Nat /\ x = NextOffset[active]
  BY <1>0 DEF Created
<1>4. x \notin DOMAIN disk
  BY <1>0 DEF Created
<1>5. /\ pc'[a] = "clean" /\ pc' \in [Appenders -> Labels]
      /\ loc' \in [Appenders -> Locals]
      /\ loc'[a].val = loc[a].val /\ loc'[a].len = loc[a].len /\ loc'[a].seg = new
  BY <1>0 DEF Created
<1>6. /\ disk' = [c \in DOMAIN disk \cup {x} |-> IF c = x THEN <<>> ELSE disk[c]]
      /\ UNCHANGED <<closed, status, orphans, segments, active, acked>>
  BY <1>0 DEF Created
<1>7. Objects' = Objects \cup {new} /\ new \notin Objects
  BY <1>0 DEF Created
<1>8. /\ BaseOffset' \in Seq(Nat) /\ NextOffset' \in [Objects' -> Nat]
      /\ Position' \in [Objects' -> Nat] /\ Index' \in [Objects' -> Seq(Entries)]
      /\ BaseOffset'[new] = x /\ NextOffset'[new] = x /\ Position'[new] = 0
      /\ \A s \in Objects : /\ BaseOffset'[s] = BaseOffset[s] /\ NextOffset'[s] = NextOffset[s]
                            /\ Position'[s] = Position[s]
  BY <1>0, Zenon DEF Created
<1>9. TypeOK' /\ (status = "open")'
  <2>1. segments' \in Seq(Objects')
    <3>1. segments \in Seq(Objects) /\ Objects \subseteq Objects' /\ segments' = segments
      BY <1>6, <1>7 DEF IInv, TypeOK
    <3> QED
      BY <3>1
  <2>2. DOMAIN disk' \subseteq Nat /\ \A b \in DOMAIN disk' : disk'[b] \in Seq(Records)
    BY <1>2, <1>6 DEF IInv, TypeOK
  <2> QED
    BY <1>1, <1>5, <1>6, <1>7, <1>8, <2>1, <2>2, Zenon DEF IInv, TypeOK
<1>10. LocalsOK'
  BY <1>1, <1>2, <1>5 DEF IInv, LocalsOK
<1>11. ASSUME NEW s \in Objects, SegmentOK(s)
       PROVE  SegmentOK(s)'
  <2>1. disk'[BaseOffset[s]] = disk[BaseOffset[s]] /\ BaseOffset[s] \in DOMAIN disk'
    BY <1>4, <1>6, <1>11 DEF SegmentOK
  <2> QED
    BY <1>6, <1>8, <1>11, <2>1, Zenon DEF SegmentOK
<1>12. SegmentsOK'
  <2>1. \A i \in DOMAIN segments : segments[i] \in Objects /\ SegmentOK(segments[i])'
    <3>1. \A i \in DOMAIN segments : segments[i] \in Objects /\ SegmentOK(segments[i])
      BY SegmentTypes DEF IInv, SegmentsOK
    <3> QED
      BY <1>6, <1>11, <3>1, Zenon DEF SegmentOK
  <2> QED
    BY <1>6, <1>8, <2>1, SMTT(40) DEF IInv, SegmentsOK
<1>13. SegmentOK(new)'
  <2>1. new \notin closed
    BY <1>7 DEF IInv, TypeOK
  <2> QED
    BY <1>2, <1>6, <1>8, <2>1, SMTT(40) DEF SegmentOK
<1>14. ActiveOK'
  <2>1. active \in Objects /\ active' = active /\ segments' = segments
    BY <1>6 DEF IInv, TypeOK
  <2>2. active' = segments'[Len(segments')]
    BY <1>2, <2>1
  <2>3. /\ BaseOffset'[active'] < NextOffset'[active'] /\ NextOffset'[active'] = x
        /\ BaseOffset'[new] = x /\ NextOffset'[new] = x
    BY <1>2, <1>8, <2>1
  <2>4. SegmentOK(loc[a].seg)'
    BY <1>5, <1>13 DEF SegmentOK
  <2>5. pc'[a] = "clean" /\ loc'[a].seg = new
    BY <1>5
  <2> QED
    BY <1>1, <2>2, <2>3, <2>4, <2>5 DEF ActiveOK
<1>15. FilesOK'
  <2>1. \A i \in DOMAIN segments : BaseOffset'[segments[i]] = BaseOffset[segments[i]]
    BY <1>8, SegmentTypes DEF IInv
  <2>2. \A b \in DOMAIN disk : \E i \in DOMAIN segments : b = BaseOffset[segments[i]]
    BY <1>1, <1>2 DEF IInv, FilesOK
  <2>3. DOMAIN disk' = DOMAIN disk \cup {x} /\ segments' = segments
    BY <1>6
  <2>4. pc'[a] = "clean" /\ x = BaseOffset'[loc'[a].seg]
    BY <1>5, <1>8
  <2> QED
    BY <2>1, <2>2, <2>3, <2>4 DEF FilesOK
<1> QED
  BY <1>9, <1>10, <1>12, <1>14, <1>15 DEF IInv

\* What Clean is called with for a single appender: segs are the n segments and
\* the new one, side by side and with files of their own.
ToClean(a, segs, n) ==
  /\ pc[a] = "clean" /\ loc[a].seg \in Objects /\ n \in DOMAIN segments /\ n = Len(segments)
  /\ active = segments[n] /\ segments \in Seq(Objects) /\ n \in Nat
  /\ segs \in Seq(Objects) /\ Len(segs) = n + 1 /\ segs[n + 1] = loc[a].seg
  /\ \A i \in 1 .. n : i \in DOMAIN segments /\ segs[i] = segments[i]
  /\ \A i \in 1 .. n + 1 : /\ SegmentOK(segs[i]) /\ segs[i] \in Objects
                          /\ BaseOffset[segs[i]] \in Nat /\ NextOffset[segs[i]] \in Nat
  /\ \A i, j \in 1 .. n + 1 : i < j =>
       /\ BaseOffset[segs[i]] < NextOffset[segs[i]]
       /\ NextOffset[segs[i]] <= BaseOffset[segs[j]]
       /\ j = i + 1 => NextOffset[segs[i]] = BaseOffset[segs[j]]
  /\ \A i, j \in 1 .. n + 1 : i # j => BaseOffset[segs[i]] # BaseOffset[segs[j]]

\* The new segment follows the last one, which is not empty.
LEMMA SegmentsToClean ==
  ASSUME SingleAppender, IInv, NEW a \in Appenders, pc[a] = "clean",
         NEW segs, NEW n, segs = Append(segments, loc[a].seg), n = Len(segments)
  PROVE  ToClean(a, segs, n)
<1>1. Appenders = {a}
  BY DEF SingleAppender
<1>2. /\ pc[a] = "clean" /\ loc[a].seg \in Objects /\ n \in DOMAIN segments
      /\ active = segments[n] /\ segments \in Seq(Objects) /\ n \in Nat
  <2>1. pc[a] = "clean" /\ loc[a].seg \in Objects /\ segments \in Seq(Objects)
    BY Zenon DEF IInv, TypeOK
  <2>2. segments # <<>> /\ active = segments[Len(segments)]
    BY <1>1, <2>1, Zenon DEF IInv, ActiveOK, SegmentsOK, Busy
  <2> QED
    BY <2>1, <2>2
<1>3. /\ segs \in Seq(Objects) /\ Len(segs) = n + 1 /\ segs[n + 1] = loc[a].seg
      /\ \A i \in 1 .. n : i \in DOMAIN segments /\ segs[i] = segments[i]
  BY <1>2
<1>5. \A i \in 1 .. n + 1 : /\ SegmentOK(segs[i]) /\ segs[i] \in Objects
                            /\ BaseOffset[segs[i]] \in Nat /\ NextOffset[segs[i]] \in Nat
  <2>1. \A i \in 1 .. n : SegmentOK(segs[i])
    BY <1>3 DEF IInv, SegmentsOK
  <2>2. SegmentOK(segs[n + 1])
    BY <1>2, <1>3 DEF IInv, ActiveOK
  <2>3. \A i \in 1 .. n + 1 : segs[i] \in Objects
    BY <1>3
  <2>4. \A s \in Objects : BaseOffset[s] \in Nat /\ NextOffset[s] \in Nat
    <3>1. BaseOffset \in Seq(Nat) /\ Objects = 1 .. Len(BaseOffset)
      BY HeapTypes DEF IInv
    <3>2. NextOffset \in [Objects -> Nat]
      BY DEF IInv, TypeOK
    <3>3. \A s \in 1 .. Len(BaseOffset) : BaseOffset[s] \in Nat
      BY <3>1
    <3> QED
      BY <3>1, <3>2, <3>3
  <2> QED
    BY <1>2, <2>1, <2>2, <2>3, <2>4
<1>6. \A i, j \in 1 .. n + 1 : i < j =>
        /\ BaseOffset[segs[i]] < NextOffset[segs[i]]
        /\ NextOffset[segs[i]] <= BaseOffset[segs[j]]
        /\ j = i + 1 => NextOffset[segs[i]] = BaseOffset[segs[j]]
  <2> SUFFICES ASSUME NEW i \in 1 .. n + 1, NEW j \in 1 .. n + 1, i < j
               PROVE  /\ BaseOffset[segs[i]] < NextOffset[segs[i]]
                      /\ NextOffset[segs[i]] <= BaseOffset[segs[j]]
                      /\ j = i + 1 => NextOffset[segs[i]] = BaseOffset[segs[j]]
    OBVIOUS
  <2>1. i \in 1 .. n
    BY <1>2
  <2>2. CASE j \in 1 .. n
    BY <1>3, <2>1, <2>2 DEF IInv, SegmentsOK
  <2>3. CASE j = n + 1
    <3>1. /\ BaseOffset[segs[n]] < NextOffset[segs[n]]
          /\ BaseOffset[segs[j]] = NextOffset[segs[n]] /\ n \in 1 .. n
      BY <1>2, <1>3, <2>3 DEF IInv, ActiveOK
    <3>2. CASE i = n
      BY <1>5, <2>3, <3>1, <3>2
    <3>3. CASE i < n
      <4>1. /\ BaseOffset[segs[i]] < NextOffset[segs[i]]
            /\ NextOffset[segs[i]] <= BaseOffset[segs[n]]
        BY <1>3, <2>1, <3>1, <3>3 DEF IInv, SegmentsOK
      <4>2. j # i + 1
        BY <1>2, <2>3, <3>3
      <4>3. /\ BaseOffset[segs[i]] \in Nat /\ NextOffset[segs[i]] \in Nat
            /\ BaseOffset[segs[n]] \in Nat /\ NextOffset[segs[n]] \in Nat
        BY <1>2, <1>5, <3>1
      <4> QED
        BY <3>1, <4>1, <4>2, <4>3
    <3> QED
      BY <1>2, <2>1, <3>2, <3>3
  <2> QED
    BY <1>2, <2>2, <2>3
<1>7. \A i, j \in 1 .. n + 1 : i # j => BaseOffset[segs[i]] # BaseOffset[segs[j]]
  BY <1>2, <1>5, <1>6
<1> QED
  BY <1>2, <1>3, <1>5, <1>6, <1>7, Zenon DEF ToClean

\* What the delete cleaner does for a single appender: the segments before the
\* first to keep go, without an error.
Cleaned(a, segs, n, first) ==
  /\ ToClean(a, segs, n)
  /\ first \in 1 .. n + 1 /\ first \in FirstKept(segs)
  /\ segments' = SubSeq(segs, first, n + 1)
  /\ closed' = closed \cup {segs[i] : i \in 1 .. first - 1}
  /\ disk' = [b \in DOMAIN disk \ {BaseOffset[s] : s \in {segs[i] : i \in 1 .. first - 1}}
               |-> disk[b]]
  /\ pc'[a] = "activate" /\ pc' \in [Appenders -> Labels] /\ loc' = loc
  /\ UNCHANGED <<status, orphans, BaseOffset, NextOffset, Position, Index, active, acked>>
  /\ segments' \in Seq(Objects) /\ Len(segments') = n + 2 - first
  /\ DOMAIN segments' = 1 .. n + 2 - first
  /\ \A k \in 1 .. n + 2 - first : segments'[k] = segs[first + k - 1]

\* The cleaner drops segments from the front only, none of which fails to be
\* deleted.
LEMMA CleanEffect ==
  ASSUME SingleAppender, IInv, NEW a \in Appenders, SplitClean(a)
  PROVE  \E segs, n, first : Cleaned(a, segs, n, first)
<1>1. PICK segs, n, first :
        /\ segs = Append(segments, loc[a].seg) /\ n = Len(segments) /\ first \in FirstKept(segs)
        /\ DeleteErrors(segs, first) = {} =>
             /\ segments' = SubSeq(segs, first, Len(segs))
             /\ Delete({segs[i] : i \in 1 .. first - 1})
             /\ Goto(a, "activate") /\ UNCHANGED loc
  BY Zenon DEF SplitClean
<1>2. pc[a] = "clean"
  BY Zenon DEF SplitClean
<1>3. ToClean(a, segs, n)
  BY <1>1, <1>2, SegmentsToClean, Zenon
<1>4. /\ n \in Nat /\ segs \in Seq(Objects) /\ Len(segs) = n + 1
      /\ \A i \in 1 .. n + 1 : SegmentOK(segs[i])
      /\ \A i, j \in 1 .. n + 1 : i # j => BaseOffset[segs[i]] # BaseOffset[segs[j]]
  BY <1>3, Zenon DEF ToClean
<1>5. first \in 1 .. n + 1
  <2>1. first \in DOMAIN segs
    BY <1>1, Zenon DEF FirstKept, Kept
  <2> QED
    BY <1>4, <2>1
<1>6. DeleteErrors(segs, first) = {}
  BY <1>4, <1>5 DEF DeleteErrors, SegmentOK
<1>7. /\ segments' = SubSeq(segs, first, n + 1)
      /\ closed' = closed \cup {segs[i] : i \in 1 .. first - 1}
      /\ disk' = [b \in DOMAIN disk \ {BaseOffset[s] : s \in {segs[i] : i \in 1 .. first - 1}}
                   |-> disk[b]]
      /\ pc'[a] = "activate" /\ pc' \in [Appenders -> Labels] /\ loc' = loc
      /\ UNCHANGED <<status, orphans, BaseOffset, NextOffset, Position, Index, active, acked>>
  <2>1. /\ segments' = SubSeq(segs, first, Len(segs))
        /\ Delete({segs[i] : i \in 1 .. first - 1})
        /\ Goto(a, "activate") /\ UNCHANGED loc
        /\ UNCHANGED <<status, orphans, BaseOffset, NextOffset, Position, Index, active, acked>>
    BY <1>1, <1>6, ZenonT(30) DEF SplitClean
  <2>2. pc'[a] = "activate" /\ pc' \in [Appenders -> Labels]
    BY <2>1 DEF Goto, IInv, TypeOK, Labels
  <2> QED
    BY <1>4, <2>1, <2>2 DEF Delete
<1>8. /\ segments' \in Seq(Objects) /\ Len(segments') = n + 2 - first
      /\ DOMAIN segments' = 1 .. n + 2 - first
      /\ \A k \in 1 .. n + 2 - first : segments'[k] = segs[first + k - 1]
  <2>1. segments' = SubSeq(segs, first, n + 1) /\ n \in Nat /\ segs \in Seq(Objects) /\ Len(segs) = n + 1
    BY <1>4, <1>7, Zenon
  <2>2. /\ SubSeq(segs, first, n + 1) \in Seq(Objects) /\ Len(SubSeq(segs, first, n + 1)) = n + 2 - first
        /\ DOMAIN SubSeq(segs, first, n + 1) = 1 .. n + 2 - first
        /\ \A k \in 1 .. n + 2 - first : SubSeq(segs, first, n + 1)[k] = segs[first + k - 1]
    BY <1>5, <2>1, TailFrom
  <2> QED
    BY <2>1, <2>2, Zenon
<1>9. Cleaned(a, segs, n, first)
  BY <1>1, <1>3, <1>5, <1>7, <1>8, Zenon DEF Cleaned
<1> QED
  BY <1>9, Zenon

\* The files of the segments that stay stay with them.
LEMMA SplitCleanIInv ==
  ASSUME SingleAppender, IInv, NEW a \in Appenders, SplitClean(a)
  PROVE  IInv'
<1>0. PICK segs, n, first : Cleaned(a, segs, n, first)
  BY CleanEffect
<1>1. Appenders = {a}
  BY DEF SingleAppender
<1>2. /\ pc[a] = "clean" /\ loc[a].seg \in Objects /\ n \in DOMAIN segments /\ n = Len(segments)
      /\ active = segments[n] /\ segments \in Seq(Objects) /\ n \in Nat
  BY <1>0, Zenon DEF Cleaned, ToClean
<1>3. /\ segs \in Seq(Objects) /\ Len(segs) = n + 1 /\ segs[n + 1] = loc[a].seg
      /\ \A i \in 1 .. n : i \in DOMAIN segments /\ segs[i] = segments[i]
  BY <1>0, Zenon DEF Cleaned, ToClean
<1>4. first \in 1 .. n + 1
  BY <1>0 DEF Cleaned, ToClean
<1>5. \A i \in 1 .. n + 1 : /\ SegmentOK(segs[i]) /\ segs[i] \in Objects
                            /\ BaseOffset[segs[i]] \in Nat /\ NextOffset[segs[i]] \in Nat
  BY <1>0, Zenon DEF Cleaned, ToClean
<1>6. \A i, j \in 1 .. n + 1 : i < j =>
        /\ BaseOffset[segs[i]] < NextOffset[segs[i]]
        /\ NextOffset[segs[i]] <= BaseOffset[segs[j]]
        /\ j = i + 1 => NextOffset[segs[i]] = BaseOffset[segs[j]]
  BY <1>0, Zenon DEF Cleaned, ToClean
<1>7. \A i, j \in 1 .. n + 1 : i # j => BaseOffset[segs[i]] # BaseOffset[segs[j]]
  BY <1>0, Zenon DEF Cleaned, ToClean
<1>9. /\ segments' = SubSeq(segs, first, n + 1)
      /\ closed' = closed \cup {segs[i] : i \in 1 .. first - 1}
      /\ disk' = [b \in DOMAIN disk \ {BaseOffset[s] : s \in {segs[i] : i \in 1 .. first - 1}}
                   |-> disk[b]]
      /\ pc'[a] = "activate" /\ pc' \in [Appenders -> Labels] /\ loc' = loc
      /\ UNCHANGED <<status, orphans, BaseOffset, NextOffset, Position, Index, active, acked>>
  BY <1>0, Zenon DEF Cleaned, ToClean
<1>10. /\ segments' \in Seq(Objects) /\ Len(segments') = n + 2 - first
       /\ DOMAIN segments' = 1 .. n + 2 - first
       /\ \A k \in 1 .. n + 2 - first : segments'[k] = segs[first + k - 1]
  BY <1>0, Zenon DEF Cleaned, ToClean
<1>11. ASSUME NEW i \in first .. n + 1
       PROVE  /\ segs[i] \notin closed'
              /\ BaseOffset[segs[i]] \in DOMAIN disk'
              /\ disk'[BaseOffset[segs[i]]] = disk[BaseOffset[segs[i]]]
  <2>1. i \in 1 .. n + 1 /\ \A j \in 1 .. first - 1 : j \in 1 .. n + 1 /\ j # i
    BY <1>2, <1>4
  <2>2. segs[i] \notin closed /\ BaseOffset[segs[i]] \in DOMAIN disk
    BY <1>5, <2>1 DEF SegmentOK
  <2>3. \A j \in 1 .. first - 1 : segs[j] # segs[i] /\ BaseOffset[segs[j]] # BaseOffset[segs[i]]
    BY <1>7, <2>1
  <2> QED
    BY <1>9, <2>2, <2>3
<1>12. TypeOK' /\ (status = "open")'
  <2>1. closed' \subseteq Objects
    <3>1. \A i \in 1 .. first - 1 : segs[i] \in Objects
      BY <1>2, <1>4, <1>5
    <3>2. closed \subseteq Objects
      BY DEF IInv, TypeOK
    <3> QED
      BY <1>9, <3>1, <3>2
  <2>2. DOMAIN disk' \subseteq Nat /\ \A b \in DOMAIN disk' : disk'[b] \in Seq(Records)
    BY <1>9 DEF IInv, TypeOK
  <2> QED
    BY <1>1, <1>2, <1>9, <1>10, <2>1, <2>2, Zenon DEF IInv, TypeOK, Objects
<1>13. LocalsOK'
  BY <1>1, <1>2, <1>9 DEF IInv, LocalsOK
<1>14. SegmentsOK'
  <2>1. \A k \in DOMAIN segments' : /\ first + k - 1 \in first .. n + 1
                                    /\ first + k - 1 \in 1 .. n + 1
                                    /\ segments'[k] = segs[first + k - 1]
    BY <1>2, <1>4, <1>10
  <2>2. \A i \in first .. n + 1 :
          /\ NextOffset[segs[i]] = BaseOffset[segs[i]] + Len(disk'[BaseOffset[segs[i]]])
          /\ \A k \in DOMAIN disk'[BaseOffset[segs[i]]] :
               disk'[BaseOffset[segs[i]]][k].off = BaseOffset[segs[i]] + k - 1
          /\ NextOffset[segs[i]] = BaseOffset[segs[i]] => Position[segs[i]] = 0
    <3>1. \A i \in first .. n + 1 : i \in 1 .. n + 1
      BY <1>2, <1>4
    <3> QED
      BY <1>5, <1>11, <3>1 DEF SegmentOK
  <2>3. ASSUME NEW k \in DOMAIN segments' PROVE SegmentOK(segments[k])'
    <3>1. PICK i \in first .. n + 1 : segments'[k] = segs[i]
      BY <2>1
    <3>2. UNCHANGED <<BaseOffset, NextOffset, Position>>
      BY <1>9, Zenon
    <3> QED
      BY <1>11, <2>2, <3>1, <3>2 DEF SegmentOK
  <2>4. segments' # <<>>
    BY <1>2, <1>4, <1>10
  <2>5. \A i, j \in DOMAIN segments' : i < j =>
          /\ BaseOffset[segments'[i]] < NextOffset[segments'[i]]
          /\ NextOffset[segments'[i]] <= BaseOffset[segments'[j]]
          /\ j = i + 1 => NextOffset[segments'[i]] = BaseOffset[segments'[j]]
    <3> SUFFICES ASSUME NEW i \in DOMAIN segments', NEW j \in DOMAIN segments', i < j
                 PROVE  /\ BaseOffset[segments'[i]] < NextOffset[segments'[i]]
                        /\ NextOffset[segments'[i]] <= BaseOffset[segments'[j]]
                        /\ j = i + 1 => NextOffset[segments'[i]] = BaseOffset[segments'[j]]
      OBVIOUS
    <3>1. /\ first + i - 1 < first + j - 1
          /\ j = i + 1 => first + j - 1 = (first + i - 1) + 1
      BY <1>2, <1>4, <1>10
    <3> QED
      BY <1>6, <2>1, <3>1
  <2> QED
    BY <1>9, <2>3, <2>4, <2>5, Zenon DEF SegmentsOK
<1>15. ActiveOK'
  <2>1. segments'[Len(segments')] = loc'[a].seg
    BY <1>2, <1>3, <1>4, <1>9, <1>10
  <2>2. NextOffset'[loc'[a].seg] = NextOffset'[active']
    BY <1>2, <1>9 DEF IInv, ActiveOK
  <2> QED
    BY <1>1, <1>9, <2>1, <2>2, Zenon DEF ActiveOK, Busy
<1>16. FilesOK'
  <2> SUFFICES ASSUME NEW b \in DOMAIN disk'
               PROVE  \E k \in DOMAIN segments' : b = BaseOffset[segments'[k]]
    BY <1>9, ZenonT(30) DEF FilesOK
  <2>1. b \in DOMAIN disk /\ \A i \in 1 .. first - 1 : b # BaseOffset[segs[i]]
    BY <1>9
  <2>2. PICK i \in 1 .. n + 1 : b = BaseOffset[segs[i]]
    <3>1. DOMAIN segments = 1 .. n
      BY <1>2
    <3> QED
      BY <1>1, <1>2, <1>3, <2>1, <3>1 DEF IInv, FilesOK
  <2>3. i \in first .. n + 1
    BY <1>2, <1>4, <2>1, <2>2
  <2>4. i - first + 1 \in DOMAIN segments' /\ segments'[i - first + 1] = segs[i]
    BY <1>2, <1>4, <1>10, <2>3
  <2> QED
    BY <2>2, <2>4
<1> QED
  BY <1>12, <1>13, <1>14, <1>15, <1>16 DEF IInv

\* Every step of Append keeps the log consistent.
LEMMA NextIInv == ASSUME SingleAppender, IInv, [Next]_vars PROVE IInv'
<1>1. CASE UNCHANGED vars
  <2>1. UNCHANGED <<disk, BaseOffset, NextOffset, Position, Index, closed, segments, active,
                    status, orphans, pc, loc, acked>>
    BY <1>1 DEF vars, files, heap
  <2> QED
    BY <2>1, ZenonT(60) DEF IInv, TypeOK, Objects, LocalsOK, SegmentsOK, SegmentOK, ActiveOK, FilesOK, Busy
<1>2. CASE Next
  <2>1. PICK a \in Appenders : AppendStep(a)
    BY <1>2 DEF Next
  <2> QED
    BY <2>1, CheckSplitIInv, SplitNewSegmentIInv, SplitCleanIInv, SplitStoreActiveIInv,
       AppendPositionIInv, AppendPutOffsetIInv, SegmentWriteIInv, IndexWriteEntryIInv
       DEF AppendStep
<1> QED
  BY <1>1, <1>2

\* The invariant is inductive: every reachable state of a log with one appender
\* satisfies it.
THEOREM IInvariant == ASSUME SingleAppender PROVE Spec => []IInv
<1>1. IInv /\ [Next]_vars => IInv'
  BY NextIInv
<1> QED
  BY <1>1, InitIInv, PTL DEF Spec

\* Whatever MaxSegmentBytes, MaxLogBytes and the message sets are, Append hands
\* out consecutive offsets, also across a split and a cleaning, and the k-th
\* record of a segment's file carries the k-th offset of the segment.
THEOREM ContiguousAlways == ASSUME SingleAppender PROVE Spec => []Contiguous
<1>1. IInv => Contiguous
  <2> SUFFICES ASSUME IInv, NEW i \in DOMAIN segments
               PROVE  LET s == segments[i]
                          f == disk[BaseOffset[s]]
                      IN  /\ BaseOffset[s] \in DOMAIN disk
                          /\ i < Len(segments) => NextOffset[s] = BaseOffset[segments[i + 1]]
                          /\ Len(f) = NextOffset[s] - BaseOffset[s]
                          /\ \A k \in DOMAIN f : f[k].off = BaseOffset[s] + k - 1
    BY DEF Contiguous
  <2> DEFINE s == segments[i]
             f == disk[BaseOffset[s]]
  <2>1. SegmentOK(s) /\ BaseOffset[s] \in Nat /\ NextOffset[s] \in Nat /\ i \in Nat
    BY SegmentTypes DEF IInv, SegmentsOK
  <2>2. Len(f) \in Nat
    <3>1. f \in Seq(Records)
      BY <2>1, Zenon DEF SegmentOK, IInv, TypeOK
    <3> QED
      BY <3>1
  <2>3. i < Len(segments) => NextOffset[s] = BaseOffset[segments[i + 1]]
    <3>1. i < Len(segments) => i + 1 \in DOMAIN segments
      BY DEF IInv, TypeOK
    <3> QED
      BY <2>1, <3>1 DEF IInv, SegmentsOK
  <2> QED
    BY <2>1, <2>2, <2>3 DEF SegmentOK
<1> QED
  BY <1>1, IInvariant, PTL

\* The state of the log keeps its shape: in particular Append never refers to a
\* segment that does not exist.
THEOREM TypeOKAlways == ASSUME SingleAppender PROVE Spec => []TypeOK
<1>1. IInv => TypeOK
  BY DEF IInv
<1> QED
  BY <1>1, IInvariant, PTL
-----------------------------------------------------------------------------
\* The index, and what was acknowledged.

\* The file of a segment, and how many of its records have no index entry yet.
File(s) == disk[BaseOffset[s]]
Missing(s) == IF s = active /\ Busy("index") THEN 1 ELSE 0

\* The entries ix point at the records of f, but for the missing ones at its end,
\* and pos is the end of f.
ExactIndex(f, ix, pos, missing) ==
  /\ Len(ix) = Len(f) - missing
  /\ \A k \in DOMAIN ix : ix[k] = [off |-> f[k].off, pos |-> f[k].at]
  /\ pos = FileEnd(f)

Indexed(s) == ExactIndex(File(s), Index[s], Position[s], Missing(s))

\* f ends with the record of the message set whose local variables are l.
EndsWith(f, l) ==
  /\ Len(f) # 0
  /\ f[Len(f)].off = l.off /\ f[Len(f)].at = l.pos /\ f[Len(f)].val = l.val

\* The index of every segment is exact, the new one's during a split included,
\* and Append holds the position and the offset of the record it is to write or
\* has just written.
IndexOK ==
  /\ \A i \in DOMAIN segments : Indexed(segments[i])
  /\ \A a \in Appenders :
       /\ pc[a] = "clean" => Indexed(loc[a].seg)
       /\ pc[a] \in {"offset", "write"} => loc[a].pos = Position[active]
       /\ pc[a] = "index" => EndsWith(File(active), loc[a])

\* The steps of Append that write nothing and leave the segments alone keep the
\* indexes exact.
LEMMA QuietIndexOK ==
  ASSUME SingleAppender, IndexOK, NEW a \in Appenders,
         pc[a] # "index", pc'[a] \notin {"index", "clean"},
         UNCHANGED <<disk, BaseOffset, Index, Position, segments>>,
         pc'[a] \in {"offset", "write"} => loc'[a].pos = Position'[active']
  PROVE  IndexOK'
<1>1. Appenders = {a}
  BY DEF SingleAppender
<1>2. ~Busy("index") /\ ~Busy("index")'
  BY <1>1 DEF Busy
<1>3. ASSUME NEW i \in DOMAIN segments' PROVE Indexed(segments[i])'
  <2>1. Indexed(segments[i])
    BY DEF IndexOK
  <2> QED
    BY <1>2, <2>1, Zenon DEF Indexed, Missing, File
<1> QED
  BY <1>1, <1>3, Zenon DEF IndexOK

\* A new segment has nothing to index.
LEMMA SplitNewSegmentIndexOK ==
  ASSUME SingleAppender, IInv, IndexOK, NEW a \in Appenders, SplitNewSegment(a)
  PROVE  IndexOK'
<1>0. PICK x, len, new : Created(a, x, len, new)
  BY CreateEffect
<1>1. Appenders = {a}
  BY Zenon DEF SingleAppender
<1>2. ~Busy("index") /\ ~Busy("index")'
  BY <1>0, <1>1, Zenon DEF Busy, Created
<1>3. ASSUME NEW i \in DOMAIN segments' PROVE Indexed(segments[i])'
  <2>1. segments' = segments /\ i \in DOMAIN segments
    BY <1>0, Zenon DEF Created
  <2>2. Indexed(segments[i]) /\ segments[i] \in Objects /\ BaseOffset[segments[i]] \in DOMAIN disk
    BY <2>1, SegmentTypes DEF IndexOK, IInv, SegmentsOK, SegmentOK
  <2>3. /\ BaseOffset'[segments[i]] = BaseOffset[segments[i]]
        /\ Position'[segments[i]] = Position[segments[i]] /\ Index'[segments[i]] = Index[segments[i]]
    BY <1>0, <2>2, ZenonT(30) DEF Created
  <2>4. disk'[BaseOffset[segments[i]]] = disk[BaseOffset[segments[i]]]
    BY <1>0, <2>2, Zenon DEF Created
  <2> QED
    BY <1>2, <2>1, <2>2, <2>3, <2>4, Zenon DEF Indexed, Missing, File
<1>4. Indexed(loc[a].seg)'
  <2>1. loc'[a].seg = new /\ Index'[new] = <<>> /\ Position'[new] = 0
    BY <1>0, Zenon DEF Created
  <2>2. disk'[BaseOffset'[new]] = <<>>
    BY <1>0, Zenon DEF Created
  <2>3. ExactIndex(<<>>, <<>>, 0, 0)
    BY DEF ExactIndex, FileEnd
  <2>4. Missing(loc[a].seg)' = 0
    BY <1>2, Zenon DEF Missing
  <2> QED
    BY <2>1, <2>2, <2>3, <2>4, Zenon DEF Indexed, File
<1>5. pc'[a] = "clean"
  BY <1>0 DEF Created
<1> QED
  BY <1>1, <1>3, <1>4, <1>5, Zenon DEF IndexOK

\* The cleaner leaves the files and the indexes of the segments it keeps alone.
LEMMA SplitCleanIndexOK ==
  ASSUME SingleAppender, IInv, IInv', IndexOK, NEW a \in Appenders, SplitClean(a)
  PROVE  IndexOK'
<1>0. PICK segs, n, first : Cleaned(a, segs, n, first)
  BY CleanEffect
<1>1. Appenders = {a}
  BY Zenon DEF SingleAppender
<1>2. ~Busy("index") /\ ~Busy("index")'
  BY <1>0, <1>1, Zenon DEF Busy, Cleaned, ToClean
<1>3. ASSUME NEW i \in DOMAIN segments' PROVE Indexed(segments[i])'
  <2>1. first + i - 1 \in 1 .. n + 1 /\ segments'[i] = segs[first + i - 1]
    BY <1>0 DEF Cleaned, ToClean
  <2>2. PICK s : s = segments'[i]
    BY Zenon
  <2>3. Indexed(s)
    <3>1. CASE first + i - 1 = n + 1
      BY <1>0, <2>1, <2>2, <3>1 DEF Cleaned, ToClean, IndexOK
    <3>2. CASE first + i - 1 # n + 1
      <4>1. first + i - 1 \in 1 .. n
        BY <1>0, <2>1, <3>2 DEF Cleaned, ToClean
      <4>2. s = segments[first + i - 1] /\ first + i - 1 \in DOMAIN segments
        BY <1>0, <2>1, <2>2, <4>1, ZenonT(30) DEF Cleaned, ToClean
      <4> QED
        BY <4>2, Zenon DEF IndexOK
    <3> QED
      BY <3>1, <3>2
  <2>4. BaseOffset'[s] \in DOMAIN disk'
    BY <2>2, Zenon DEF IInv, SegmentsOK, SegmentOK
  <2>5. UNCHANGED <<BaseOffset, Position, Index>>
    BY <1>0, Zenon DEF Cleaned, ToClean
  <2>6. disk'[BaseOffset[s]] = disk[BaseOffset[s]]
    BY <1>0, <2>4, <2>5, Zenon DEF Cleaned, ToClean
  <2> QED
    BY <1>2, <2>2, <2>3, <2>5, <2>6, Zenon DEF Indexed, Missing, File
<1>4. pc'[a] = "activate"
  BY <1>0 DEF Cleaned, ToClean
<1> QED
  BY <1>1, <1>3, <1>4, Zenon DEF IndexOK

\* Appending a record moves the end of a file by its length, and leaves the other
\* records where they are.
LEMMA AppendRecord ==
  ASSUME NEW f \in Seq(Records), NEW r \in Records
  PROVE  /\ Len(f) \in Nat /\ Len(Append(f, r)) = Len(f) + 1
         /\ Append(f, r)[Len(f) + 1] = r
         /\ \A k \in 1 .. Len(f) : Append(f, r)[k] = f[k]
         /\ FileEnd(Append(f, r)) = r.at + r.len
<1>1. /\ Len(f) \in Nat /\ Len(Append(f, r)) = Len(f) + 1
      /\ Append(f, r)[Len(f) + 1] = r
      /\ \A k \in 1 .. Len(f) : Append(f, r)[k] = f[k]
  OBVIOUS
<1>2. Append(f, r) # <<>>
  <2>1. Len(Append(f, r)) # 0
    BY <1>1
  <2>2. Len(<<>>) = 0
    OBVIOUS
  <2> QED
    BY <2>1, <2>2, Zenon
<1>3. FileEnd(Append(f, r)) = r.at + r.len
  BY <1>1, <1>2, Zenon DEF FileEnd
<1> QED
  BY <1>1, <1>3

\* The file of the active segment is a sequence of records, and its index one of
\* entries.
LEMMA ActiveFile ==
  ASSUME SingleAppender, IInv, NEW a \in Appenders, pc[a] # "activate"
  PROVE  /\ active \in Objects /\ File(active) \in Seq(Records) /\ Index[active] \in Seq(Entries)
         /\ Len(segments) \in DOMAIN segments /\ active = segments[Len(segments)]
<1>1. Len(segments) \in DOMAIN segments /\ active = segments[Len(segments)]
  BY DEF SingleAppender, IInv, TypeOK, ActiveOK, SegmentsOK, Busy
<1>2. BaseOffset[active] \in DOMAIN disk
  BY <1>1 DEF IInv, SegmentsOK, SegmentOK
<1> QED
  BY <1>1, <1>2, Zenon DEF IInv, TypeOK, File

\* Segment.Write: the record that has no entry yet lies where Append thinks.
LEMMA SegmentWriteIndexOK ==
  ASSUME SingleAppender, IInv, IndexOK, NEW a \in Appenders, SegmentWrite(a)
  PROVE  IndexOK'
<1>0. PICK f, r : Wrote(a, f, r)
  BY WriteEffect, Zenon
<1>1. Appenders = {a}
  BY DEF SingleAppender
<1>2. ~Busy("index") /\ Busy("index")'
  BY <1>0, <1>1, Zenon DEF Busy, Wrote
<1>3. UNCHANGED <<BaseOffset, Index, segments, active, loc>> /\ active \in Objects
  BY <1>0, Zenon DEF Wrote
<1>4. f \in Seq(Records) /\ r \in Records /\ File(active) = f
  BY <1>0 DEF Wrote, File
<1>5. /\ Len(f) \in Nat /\ Len(Append(f, r)) = Len(f) + 1
      /\ Append(f, r)[Len(f) + 1] = r
      /\ \A k \in 1 .. Len(f) : Append(f, r)[k] = f[k]
      /\ FileEnd(Append(f, r)) = r.at + r.len
  BY <1>4, AppendRecord, ZenonT(30)
<1>6. File(active)' = Append(f, r)
  BY <1>0, Zenon DEF Wrote, File
<1>7. r.off = loc[a].off /\ r.at = FileEnd(f) /\ r.len = loc[a].len /\ r.val = loc[a].val
  BY <1>0 DEF Wrote
<1>8. ExactIndex(f, Index[active], Position[active], 0)
  <2>1. Indexed(active)
    BY <1>0, ZenonT(30) DEF Wrote, IndexOK
  <2> QED
    BY <1>2, <1>4, <2>1 DEF Indexed, Missing
<1>9. Position'[active] = Position[active] + r.len
  BY <1>0, <1>7, Zenon DEF Wrote, IInv, TypeOK
<1>10. Indexed(active)'
  <2>1. Index[active] \in Seq(Entries) /\ Len(Index[active]) = Len(f)
    <3>1. active \in Objects /\ Index \in [Objects -> Seq(Entries)]
      BY Zenon DEF IInv, TypeOK
    <3>2. Len(Index[active]) = Len(f) - 0
      BY <1>8, Zenon DEF ExactIndex
    <3> QED
      BY <1>5, <3>1, <3>2
  <2>2. DOMAIN Index[active] = 1 .. Len(f)
    BY <2>1
  <2>3. \A k \in DOMAIN Index[active] :
          Index[active][k] = [off |-> Append(f, r)[k].off, pos |-> Append(f, r)[k].at]
    BY <1>5, <1>8, <2>2, ZenonT(30) DEF ExactIndex
  <2>4. Position'[active] = FileEnd(Append(f, r))
    BY <1>5, <1>7, <1>8, <1>9 DEF ExactIndex
  <2>5. Len(Index[active]) = Len(Append(f, r)) - 1
    BY <1>5, <2>1
  <2>6. ExactIndex(Append(f, r), Index[active], Position'[active], 1)
    BY <2>3, <2>4, <2>5, Zenon DEF ExactIndex
  <2>7. Missing(active)' = 1
    BY <1>2 DEF Missing
  <2> QED
    BY <1>3, <1>6, <2>6, <2>7, Zenon DEF Indexed
<1>11. ASSUME NEW i \in DOMAIN segments' PROVE Indexed(segments[i])'
  <2>1. i \in DOMAIN segments /\ segments'[i] = segments[i]
    BY <1>3
  <2>2. CASE segments[i] = active
    BY <1>3, <1>10, <2>1, <2>2, Zenon DEF Indexed, File, Missing
  <2>3. CASE segments[i] # active
    <3>1. i # Len(segments) /\ Len(segments) \in DOMAIN segments /\ active = segments[Len(segments)]
      BY <1>0, <2>3 DEF Wrote
    <3>2. BaseOffset[segments[i]] # BaseOffset[active]
      BY <2>1, <3>1, BasesDistinct DEF IInv
    <3>3. Indexed(segments[i]) /\ segments[i] \in Objects /\ BaseOffset[segments[i]] \in DOMAIN disk
      BY <2>1, SegmentTypes, ZenonT(30) DEF IndexOK, IInv, SegmentsOK, SegmentOK
    <3>4. disk'[BaseOffset[segments[i]]] = disk[BaseOffset[segments[i]]]
      BY <1>0, <3>2, <3>3 DEF Wrote
    <3>5. Position'[segments[i]] = Position[segments[i]]
      BY <1>0, <2>3, <3>3, Zenon DEF Wrote, IInv, TypeOK
    <3>6. Missing(segments[i]) = 0 /\ Missing(segments[i])' = 0
      BY <1>3, <2>1, <2>3 DEF Missing
    <3> QED
      BY <1>3, <3>3, <3>4, <3>5, <3>6, Zenon DEF Indexed, File
  <2> QED
    BY <2>2, <2>3
<1>12. EndsWith(File(active)', loc'[a])
  <2>1. r.at = loc[a].pos
    BY <1>0, <1>7, <1>8, Zenon DEF Wrote, IndexOK, ExactIndex
  <2>2. Len(Append(f, r)) # 0 /\ Append(f, r)[Len(Append(f, r))] = r
    BY <1>5, OneMore, Zenon
  <2> QED
    BY <1>3, <1>6, <1>7, <2>1, <2>2, Zenon DEF EndsWith
<1>13. pc'[a] = "index"
  BY <1>0 DEF Wrote
<1> QED
  BY <1>1, <1>11, <1>12, <1>13, Zenon DEF IndexOK

\* Index.WriteEntry gives the last record the entry it lacks.
LEMMA IndexWriteEntryIndexOK ==
  ASSUME SingleAppender, IInv, IndexOK, NEW a \in Appenders, IndexWriteEntry(a)
  PROVE  IndexOK'
<1> DEFINE f == File(active)
           ix == Index[active]
           e == [off |-> loc[a].off, pos |-> loc[a].pos]
<1>1. Appenders = {a} /\ pc[a] = "index"
  BY Zenon DEF SingleAppender, IndexWriteEntry
<1>2. pc'[a] = "idle"
  BY DEF IndexWriteEntry, Return, Goto, IInv, TypeOK
<1>3. Busy("index") /\ ~Busy("index")'
  BY <1>1, <1>2, Zenon DEF Busy
<1>4. UNCHANGED <<disk, BaseOffset, Position, segments, active>>
  BY DEF IndexWriteEntry, files
<1>5. /\ active \in Objects /\ f \in Seq(Records) /\ ix \in Seq(Entries)
      /\ Len(segments) \in DOMAIN segments /\ active = segments[Len(segments)]
  BY <1>1, ActiveFile
<1>6. ExactIndex(f, ix, Position[active], 1) /\ EndsWith(f, loc[a])
  BY <1>1, <1>3, <1>5, Zenon DEF IndexOK, Indexed, Missing
<1>7. e \in Entries
  BY Zenon DEF IInv, TypeOK, Locals, Entries
<1>8. Index'[active] = Append(ix, e) /\ \A s \in Objects \ {active} : Index'[s] = Index[s]
  BY <1>5 DEF IndexWriteEntry, IInv, TypeOK
<1> HIDE DEF f, ix
<1>9. Len(f) \in Nat /\ Len(ix) \in Nat /\ Len(f) = Len(ix) + 1
  BY <1>5, <1>6 DEF ExactIndex
<1>10. /\ Len(Append(ix, e)) = Len(f) /\ Append(ix, e)[Len(f)] = e
       /\ DOMAIN Append(ix, e) = 1 .. Len(f)
       /\ \A k \in 1 .. Len(ix) : Append(ix, e)[k] = ix[k]
  BY <1>5, <1>7, <1>9
<1>11. e = [off |-> f[Len(f)].off, pos |-> f[Len(f)].at]
  BY <1>6, Zenon DEF EndsWith
<1>12. \A k \in 1 .. Len(ix) : ix[k] = [off |-> f[k].off, pos |-> f[k].at]
  BY <1>5, <1>6 DEF ExactIndex
<1>13. ExactIndex(f, Append(ix, e), Position[active], 0)
  <2>1. \A k \in 1 .. Len(f) : k = Len(f) \/ k \in 1 .. Len(ix)
    BY <1>9
  <2>2. \A k \in DOMAIN Append(ix, e) : Append(ix, e)[k] = [off |-> f[k].off, pos |-> f[k].at]
    BY <1>10, <1>11, <1>12, <2>1, Zenon
  <2>3. Len(Append(ix, e)) = Len(f) - 0
    BY <1>9, <1>10
  <2> QED
    BY <1>6, <2>2, <2>3, Zenon DEF ExactIndex
<1> HIDE DEF e
<1>14. ASSUME NEW i \in DOMAIN segments' PROVE Indexed(segments[i])'
  <2>1. i \in DOMAIN segments /\ segments[i] \in Objects /\ Indexed(segments[i])
    BY <1>4, SegmentTypes DEF IndexOK, IInv
  <2>2. Missing(segments[i])' = 0
    BY <1>3 DEF Missing
  <2>3. CASE segments[i] = active
    BY <1>4, <1>8, <1>13, <2>2, <2>3, Zenon DEF Indexed, File, f
  <2>4. CASE segments[i] # active
    <3>1. Missing(segments[i]) = 0
      BY <2>4 DEF Missing
    <3>2. Index'[segments[i]] = Index[segments[i]]
      BY <1>8, <2>1, <2>4, Zenon
    <3> QED
      BY <1>4, <2>1, <2>2, <3>1, <3>2, Zenon DEF Indexed, File
  <2> QED
    BY <2>3, <2>4
<1> QED
  BY <1>1, <1>2, <1>14, ZenonT(30) DEF IndexOK

\* File f holds the acknowledged record r.
Holds(f, r) == \E k \in DOMAIN f : f[k].off = r.off /\ f[k].val = r.val

\* What was acknowledged lies in a segment of the log, or before the oldest.
AckedOK ==
  \A r \in acked :
    \/ r.off < BaseOffset[segments[1]]
    \/ \E i \in DOMAIN segments : Holds(File(segments[i]), r)

\* The first segment of the log has the least base offset of the files.
LEMMA OldestFile ==
  ASSUME SingleAppender, IInv, NEW b \in DOMAIN disk
  PROVE  /\ 1 \in DOMAIN segments /\ BaseOffset[segments[1]] \in Nat
         /\ b \in Nat /\ BaseOffset[segments[1]] <= b
<1>1. 1 \in DOMAIN segments /\ Len(segments) \in DOMAIN segments
  BY DEF IInv, TypeOK, SegmentsOK
<1>2. \A i \in DOMAIN segments : /\ i \in Nat /\ 1 <= i /\ BaseOffset[segments[i]] \in Nat
                                 /\ NextOffset[segments[i]] \in Nat
  BY SegmentTypes DEF IInv
<1>3. \A i \in DOMAIN segments : BaseOffset[segments[1]] <= BaseOffset[segments[i]]
  BY <1>1, <1>2 DEF IInv, SegmentsOK
<1>4. b \in Nat
  BY Zenon DEF IInv, TypeOK
<1>5. ASSUME NEW a \in Appenders, pc[a] = "clean", b = BaseOffset[loc[a].seg]
      PROVE  BaseOffset[segments[1]] <= b
  <2>1. active = segments[Len(segments)]
    BY <1>5, Zenon DEF SingleAppender, IInv, ActiveOK, Busy
  <2>2. BaseOffset[active] < NextOffset[active] /\ b = NextOffset[active]
    BY <1>5 DEF IInv, ActiveOK
  <2>3. BaseOffset[segments[1]] <= BaseOffset[active]
    BY <1>1, <1>3, <2>1
  <2> QED
    BY <1>1, <1>2, <2>1, <2>2, <2>3
<1> QED
  BY <1>1, <1>2, <1>3, <1>4, <1>5 DEF IInv, FilesOK

\* Steps that touch neither the files nor the segments touch nothing acknowledged.
LEMMA QuietAckedOK ==
  ASSUME AckedOK, UNCHANGED <<disk, BaseOffset, segments, acked>>
  PROVE  AckedOK'
  BY DEF AckedOK, File

\* The new segment comes after the others.
LEMMA SplitNewSegmentAckedOK ==
  ASSUME SingleAppender, IInv, AckedOK, NEW a \in Appenders, SplitNewSegment(a)
  PROVE  AckedOK'
<1>0. PICK x, len, new : Created(a, x, len, new)
  BY CreateEffect
<1>1. segments' = segments /\ acked' = acked
  BY <1>0 DEF Created
<1>2. 1 \in DOMAIN segments
  BY DEF IInv, TypeOK, SegmentsOK
<1>3. ASSUME NEW i \in DOMAIN segments
      PROVE  /\ BaseOffset'[segments[i]] = BaseOffset[segments[i]]
             /\ disk'[BaseOffset[segments[i]]] = disk[BaseOffset[segments[i]]]
  <2>1. segments[i] \in Objects /\ BaseOffset[segments[i]] \in DOMAIN disk
    BY SegmentTypes, Zenon DEF IInv, SegmentsOK, SegmentOK
  <2> QED
    BY <1>0, <2>1, ZenonT(30) DEF Created
<1> QED
  BY <1>1, <1>2, <1>3, Zenon DEF AckedOK, File

\* What the cleaner drops lies before the oldest segment it keeps.
LEMMA SplitCleanAckedOK ==
  ASSUME SingleAppender, IInv, IInv', AckedOK, NEW a \in Appenders, SplitClean(a)
  PROVE  AckedOK' /\ BaseOffset'[segments'[1]] >= BaseOffset[segments[1]]
<1>0. PICK segs, n, first : Cleaned(a, segs, n, first)
  BY CleanEffect
<1>1. /\ n \in Nat /\ n = Len(segments) /\ n \in DOMAIN segments /\ first \in 1 .. n + 1
      /\ BaseOffset' = BaseOffset /\ acked' = acked
      /\ DOMAIN segments = 1 .. n /\ DOMAIN segments' = 1 .. n + 2 - first
  <2>1. /\ n \in Nat /\ n = Len(segments) /\ n \in DOMAIN segments /\ first \in 1 .. n + 1
        /\ BaseOffset' = BaseOffset /\ acked' = acked /\ segments \in Seq(Objects)
        /\ DOMAIN segments' = 1 .. n + 2 - first
    BY <1>0, Zenon DEF Cleaned, ToClean
  <2> QED
    BY <2>1
<1>2. \A i \in 1 .. n : segs[i] = segments[i]
  BY <1>0, Zenon DEF Cleaned, ToClean
<1>3. \A k \in 1 .. n + 2 - first : segments'[k] = segs[first + k - 1]
  BY <1>0, Zenon DEF Cleaned, ToClean
<1>4. \A i \in 1 .. n + 1 : BaseOffset[segs[i]] \in Nat /\ NextOffset[segs[i]] \in Nat
  BY <1>0, Zenon DEF Cleaned, ToClean
<1>5. \A i, j \in 1 .. n + 1 : i < j =>
        /\ BaseOffset[segs[i]] < NextOffset[segs[i]]
        /\ NextOffset[segs[i]] <= BaseOffset[segs[j]]
  BY <1>0, Zenon DEF Cleaned, ToClean
<1>6. segments'[1] = segs[first] /\ segments[1] = segs[1]
  BY <1>1, <1>2, <1>3
<1>7. BaseOffset[segs[first]] >= BaseOffset[segs[1]]
  <2>1. 1 \in 1 .. n + 1 /\ (first = 1 \/ 1 < first)
    BY <1>1
  <2>2. /\ BaseOffset[segs[1]] \in Nat /\ NextOffset[segs[1]] \in Nat /\ BaseOffset[segs[first]] \in Nat
        /\ 1 < first => /\ BaseOffset[segs[1]] < NextOffset[segs[1]]
                        /\ NextOffset[segs[1]] <= BaseOffset[segs[first]]
    BY <1>1, <1>4, <1>5, <2>1, Zenon
  <2> QED
    BY <2>1, <2>2
<1>8. ASSUME NEW r \in acked
      PROVE  \/ r.off < BaseOffset[segs[first]]
             \/ \E k \in DOMAIN segments' : Holds(File(segments[k])', r)
  <2>0. r.off \in Nat
    BY DEF IInv, TypeOK
  <2>1. CASE r.off < BaseOffset[segments[1]]
    BY <1>1, <1>4, <1>6, <1>7, <2>0, <2>1
  <2>2. CASE \E i \in DOMAIN segments : Holds(File(segments[i]), r)
    <3>1. PICK i \in 1 .. n : Holds(disk[BaseOffset[segs[i]]], r)
      BY <1>1, <1>2, <2>2 DEF File
    <3>2. CASE i < first
      <4>0. i \in 1 .. n + 1 /\ first \in 1 .. n + 1
        BY <1>1
      <4>1. SegmentOK(segs[i])
        BY <1>0, <4>0, ZenonT(30) DEF Cleaned, ToClean
      <4>2. PICK k \in DOMAIN disk[BaseOffset[segs[i]]] : disk[BaseOffset[segs[i]]][k].off = r.off
        BY <3>1 DEF Holds
      <4>3. disk[BaseOffset[segs[i]]] \in Seq(Records)
        BY <4>1, Zenon DEF IInv, TypeOK, SegmentOK
      <4>4. r.off = BaseOffset[segs[i]] + k - 1
        BY <4>1, <4>2 DEF SegmentOK
      <4>5. NextOffset[segs[i]] = BaseOffset[segs[i]] + Len(disk[BaseOffset[segs[i]]])
        BY <4>1 DEF SegmentOK
      <4>6. k \in Nat /\ k <= Len(disk[BaseOffset[segs[i]]]) /\ Len(disk[BaseOffset[segs[i]]]) \in Nat
        BY <4>2, <4>3
      <4>7. r.off < NextOffset[segs[i]]
        BY <1>1, <1>4, <4>4, <4>5, <4>6
      <4>8. /\ NextOffset[segs[i]] <= BaseOffset[segs[first]]
            /\ NextOffset[segs[i]] \in Nat /\ BaseOffset[segs[first]] \in Nat
        BY <1>4, <1>5, <3>2, <4>0, Zenon
      <4>9. r.off < BaseOffset[segs[first]]
        BY <2>0, <4>7, <4>8
      <4> QED
        BY <4>9, Zenon
    <3>3. CASE ~(i < first)
      <4>1. i - first + 1 \in DOMAIN segments' /\ segments'[i - first + 1] = segs[i]
        BY <1>1, <1>3, <3>3
      <4>2. BaseOffset[segs[i]] \in DOMAIN disk'
        BY <1>1, <4>1, Zenon DEF IInv, SegmentsOK, SegmentOK
      <4>3. disk'[BaseOffset[segs[i]]] = disk[BaseOffset[segs[i]]]
        BY <1>0, <4>2, Zenon DEF Cleaned, ToClean
      <4> QED
        BY <1>1, <3>1, <4>1, <4>3, Zenon DEF File
    <3> QED
      BY <3>2, <3>3, Zenon
  <2> QED
    BY <2>1, <2>2 DEF AckedOK
<1> QED
  BY <1>1, <1>6, <1>7, <1>8, Zenon DEF AckedOK

\* A write adds a record to a file and takes none away.
LEMMA SegmentWriteAckedOK ==
  ASSUME SingleAppender, IInv, AckedOK, NEW a \in Appenders, SegmentWrite(a)
  PROVE  AckedOK'
<1>0. PICK f, r : Wrote(a, f, r)
  BY WriteEffect
<1>1. UNCHANGED <<BaseOffset, segments, acked>>
  BY <1>0, Zenon DEF Wrote
<1>2. f \in Seq(Records) /\ r \in Records /\ f = disk[BaseOffset[active]]
  BY <1>0, Zenon DEF Wrote
<1>3. ASSUME NEW q, Holds(f, q) PROVE Holds(Append(f, r), q)
  <2>1. PICK k \in DOMAIN f : f[k].off = q.off /\ f[k].val = q.val
    BY <1>3 DEF Holds
  <2>2. k \in DOMAIN Append(f, r) /\ Append(f, r)[k] = f[k]
    BY <1>2, <2>1
  <2> QED
    BY <2>1, <2>2, Zenon DEF Holds
<1>4. ASSUME NEW i \in DOMAIN segments
      PROVE  \/ /\ disk[BaseOffset[segments[i]]] = f
                /\ disk'[BaseOffset[segments[i]]] = Append(f, r)
             \/ disk'[BaseOffset[segments[i]]] = disk[BaseOffset[segments[i]]]
  <2>1. BaseOffset[segments[i]] \in DOMAIN disk
    BY DEF IInv, SegmentsOK, SegmentOK
  <2> QED
    BY <1>0, <1>2, <2>1, Zenon DEF Wrote
<1>5. ASSUME NEW i \in DOMAIN segments, NEW q, Holds(File(segments[i]), q)
      PROVE  Holds(File(segments[i])', q)
  BY <1>1, <1>3, <1>4, <1>5, ZenonT(30) DEF File
<1> QED
  BY <1>1, <1>5, ZenonT(30) DEF AckedOK

\* Append acknowledges the last record of the active segment.
LEMMA IndexWriteEntryAckedOK ==
  ASSUME SingleAppender, IInv, IndexOK, AckedOK, NEW a \in Appenders, IndexWriteEntry(a)
  PROVE  AckedOK'
<1> DEFINE new == [off |-> loc[a].off, val |-> loc[a].val]
<1>1. pc[a] = "index" /\ acked' = acked \cup {new}
  BY ZenonT(30) DEF IndexWriteEntry
<1>2. UNCHANGED <<disk, BaseOffset, segments>>
  BY ZenonT(30) DEF IndexWriteEntry, files
<1>3. /\ File(active) \in Seq(Records) /\ Len(segments) \in DOMAIN segments
      /\ active = segments[Len(segments)]
  BY <1>1, ActiveFile, Zenon
<1>4. Holds(File(active), new)
  <2>1. EndsWith(File(active), loc[a])
    BY <1>1 DEF IndexOK
  <2>2. Len(File(active)) \in DOMAIN File(active)
    BY <1>3, <2>1, SMTT(20) DEF EndsWith
  <2> QED
    BY <2>1, <2>2, Zenon DEF EndsWith, Holds
<1> HIDE DEF new
<1>5. ASSUME NEW q \in acked'
      PROVE  \/ q.off < BaseOffset[segments[1]]
             \/ \E i \in DOMAIN segments : Holds(File(segments[i]), q)
  <2>1. CASE q \in acked
    BY <2>1, Zenon DEF AckedOK
  <2>2. CASE q = new
    BY <1>3, <1>4, <2>2, Zenon
  <2> QED
    BY <1>1, <2>1, <2>2, ZenonT(30)
<1> QED
  BY <1>2, <1>5, ZenonT(30) DEF AckedOK, File

-----------------------------------------------------------------------------
\* Everything a log with one appender keeps.
LogInv == IInv /\ IndexOK /\ AckedOK

\* The empty log has an empty index, and nothing is acknowledged.
LEMMA InitLogInv == Init => LogInv
<1> SUFFICES ASSUME Init PROVE LogInv
  OBVIOUS
<1>1. Indexed(1)
  <2>1. ExactIndex(<<>>, <<>>, 0, 0)
    BY DEF ExactIndex, FileEnd
  <2>2. File(1) = <<>> /\ Position[1] = 0 /\ Missing(1) = 0
    BY DEF Init, File, Missing, Busy
  <2>3. Index[1] = <<>>
    <3>1. Index = << <<>> >>
      BY DEF Init
    <3>2. \A e : <<e>>[1] = e
      OBVIOUS
    <3> QED
      BY <3>1, <3>2, Zenon
  <2> QED
    BY <2>1, <2>2, <2>3, Zenon DEF Indexed
<1>2. IndexOK
  <2>1. \A i \in DOMAIN segments : segments[i] = 1
    BY DEF Init
  <2>2. \A a \in Appenders : pc[a] = "idle"
    BY DEF Init
  <2> QED
    BY <1>1, <2>1, <2>2 DEF IndexOK
<1>3. AckedOK
  BY Zenon DEF Init, AckedOK
<1> QED
  BY <1>2, <1>3, InitIInv DEF LogInv

\* The steps of Append before the write that touch no segment.
LEMMA QuietLogInv ==
  ASSUME SingleAppender, LogInv, NEW a \in Appenders,
         \/ \E v \in Values, n \in Lens : CheckSplit(a, v, n)
         \/ SplitStoreActive(a) \/ AppendPosition(a) \/ AppendPutOffset(a)
  PROVE  IndexOK' /\ AckedOK'
<1>1. UNCHANGED <<disk, BaseOffset, NextOffset, Index, Position, segments, acked>>
  BY Zenon DEF CheckSplit, SplitStoreActive, AppendPosition, AppendPutOffset, files, heap
<1>2. pc \in [Appenders -> Labels] /\ loc \in [Appenders -> Locals]
  BY Zenon DEF LogInv, IInv, TypeOK
<1>3. /\ pc[a] # "index" /\ pc'[a] \notin {"index", "clean"}
      /\ pc'[a] \in {"offset", "write"} => loc'[a].pos = Position'[active']
  <2>1. CASE \E v \in Values, n \in Lens : CheckSplit(a, v, n)
    <3>1. pc[a] = "idle" /\ pc'[a] \in {"split", "position"}
      BY <1>2, <2>1, ZenonT(30) DEF CheckSplit, Goto
    <3> QED
      BY <3>1
  <2>2. CASE SplitStoreActive(a)
    BY <1>2, <2>2, Zenon DEF SplitStoreActive, Goto
  <2>3. CASE AppendPosition(a)
    <3>1. pc[a] = "position" /\ pc'[a] = "offset" /\ loc' = [loc EXCEPT ![a].pos = Position[active]]
          /\ Position' = Position /\ active' = active
      BY <1>2, <2>3 DEF AppendPosition, Goto, heap
    <3>2. loc'[a].pos = Position[active]
      BY <1>2, <3>1 DEF Locals
    <3> QED
      BY <3>1, <3>2
  <2>4. CASE AppendPutOffset(a)
    <3>1. /\ pc[a] = "offset" /\ pc'[a] = "write"
          /\ loc' = [loc EXCEPT ![a].off = NextOffset[active]]
          /\ Position' = Position /\ active' = active
      BY <1>2, <2>4 DEF AppendPutOffset, Goto, heap
    <3>2. loc'[a].pos = loc[a].pos
      BY <1>2, <3>1 DEF Locals
    <3>3. loc[a].pos = Position[active]
      BY <3>1 DEF LogInv, IndexOK
    <3> QED
      BY <3>1, <3>2, <3>3
  <2> QED
    BY <2>1, <2>2, <2>3, <2>4
<1> QED
  BY <1>1, <1>3, QuietIndexOK, QuietAckedOK DEF LogInv

\* Every step of Append keeps the indexes exact and what it acknowledged.
LEMMA NextLogInv == ASSUME SingleAppender, LogInv, [Next]_vars PROVE LogInv'
<1>1. IInv /\ IndexOK /\ AckedOK
  BY DEF LogInv
<1>2. IInv'
  BY <1>1, NextIInv
<1>3. CASE UNCHANGED vars
  <2>1. UNCHANGED <<disk, BaseOffset, Position, Index, segments, active, pc, loc, acked>>
    BY <1>3 DEF vars, files, heap
  <2>2. IndexOK'
    BY <1>1, <2>1, Zenon DEF IndexOK, Indexed, File, Missing, Busy
  <2>3. AckedOK'
    BY <1>1, <2>1, QuietAckedOK
  <2> QED
    BY <1>2, <2>2, <2>3 DEF LogInv
<1>4. ASSUME NEW a \in Appenders, AppendStep(a) PROVE IndexOK' /\ AckedOK'
  <2>1. CASE SplitNewSegment(a)
    BY <1>1, <2>1, SplitNewSegmentIndexOK, SplitNewSegmentAckedOK
  <2>2. CASE SplitClean(a)
    BY <1>1, <1>2, <2>2, SplitCleanIndexOK, SplitCleanAckedOK
  <2>3. CASE SegmentWrite(a)
    BY <1>1, <2>3, SegmentWriteIndexOK, SegmentWriteAckedOK
  <2>4. CASE IndexWriteEntry(a)
    BY <1>1, <2>4, IndexWriteEntryIndexOK, IndexWriteEntryAckedOK
  <2>5. CASE \/ \E v \in Values, n \in Lens : CheckSplit(a, v, n)
             \/ SplitStoreActive(a) \/ AppendPosition(a) \/ AppendPutOffset(a)
    BY <2>5, QuietLogInv
  <2> QED
    BY <1>4, <2>1, <2>2, <2>3, <2>4, <2>5 DEF AppendStep
<1> QED
  BY <1>2, <1>3, <1>4 DEF LogInv, Next

\* The invariant of a log with one appender, its indexes and acknowledgements
\* included, is inductive.
THEOREM LogInvariant == ASSUME SingleAppender PROVE Spec => []LogInv
<1>1. LogInv /\ [Next]_vars => LogInv'
  BY NextLogInv
<1> QED
  BY <1>1, InitLogInv, PTL DEF Spec

\* The k-th index entry of a segment points at the k-th record of its file,
\* whatever the message sets and the sizes of the segments are; only the record
\* Append has just written may lack its entry.
THEOREM IndexExactAlways == ASSUME SingleAppender PROVE Spec => []IndexExact
<1>1. LogInv => IndexExact
  BY ZenonT(30) DEF LogInv, IndexOK, Indexed, ExactIndex, Missing, File, Busy, IndexExact
<1> QED
  BY <1>1, LogInvariant, PTL

\* What Append acknowledged is on disk with its offset and its payload until the
\* retention drops its segment: only a prefix of the log is ever missing.
THEOREM AckedDurableAlways == ASSUME SingleAppender PROVE Spec => []AckedDurable
<1>1. LogInv => AckedDurable
  <2> SUFFICES ASSUME LogInv, NEW r \in acked
               PROVE  \/ \A b \in DOMAIN disk : r.off < b
                      \/ \E b \in DOMAIN disk : \E k \in DOMAIN disk[b] :
                           disk[b][k].off = r.off /\ disk[b][k].val = r.val
    BY DEF AckedDurable
  <2>1. IInv /\ r.off \in Nat
    BY DEF LogInv, IInv, TypeOK
  <2>2. CASE r.off < BaseOffset[segments[1]]
    <3> SUFFICES ASSUME NEW b \in DOMAIN disk PROVE r.off < b
      OBVIOUS
    <3>1. BaseOffset[segments[1]] \in Nat /\ b \in Nat /\ BaseOffset[segments[1]] <= b
      BY <2>1, OldestFile
    <3> QED
      BY <2>1, <2>2, <3>1
  <2>3. CASE \E i \in DOMAIN segments : Holds(File(segments[i]), r)
    <3>1. PICK i \in DOMAIN segments : Holds(File(segments[i]), r)
      BY <2>3, Zenon
    <3>2. BaseOffset[segments[i]] \in DOMAIN disk
      BY <2>1 DEF IInv, SegmentsOK, SegmentOK
    <3> QED
      BY <3>1, <3>2, Zenon DEF Holds, File
  <2> QED
    BY <2>2, <2>3, Zenon DEF LogInv, AckedOK
<1> QED
  BY <1>1, LogInvariant, PTL

-----------------------------------------------------------------------------
\* The ends of the log, step by step.

\* The fields of the active and of the oldest segment are numbers.
LEMMA EndTypes ==
  ASSUME IInv
  PROVE  /\ 1 \in DOMAIN segments /\ segments[1] \in Objects /\ active \in Objects
         /\ BaseOffset[segments[1]] \in Nat /\ NextOffset[active] \in Nat
<1>1. 1 \in DOMAIN segments
  BY DEF IInv, TypeOK, SegmentsOK
<1>2. active \in Objects /\ NextOffset \in [Objects -> Nat]
  BY Zenon DEF IInv, TypeOK
<1> QED
  BY <1>1, <1>2, SegmentTypes DEF IInv

\* No step of Append moves NewestOffset or OldestOffset back.
LEMMA OffsetsStep ==
  ASSUME SingleAppender, LogInv, LogInv', NEW a \in Appenders, AppendStep(a)
  PROVE  NewestOffset' >= NewestOffset /\ OldestOffset' >= OldestOffset
<1>0. IInv /\ IInv' /\ AckedOK
  BY DEF LogInv
<1>1. /\ 1 \in DOMAIN segments /\ segments[1] \in Objects /\ active \in Objects
      /\ BaseOffset[segments[1]] \in Nat /\ NextOffset[active] \in Nat
  BY <1>0, EndTypes
<1> SUFFICES /\ NextOffset'[active'] >= NextOffset[active]
             /\ BaseOffset'[segments'[1]] >= BaseOffset[segments[1]]
  BY DEF NewestOffset, OldestOffset
<1>2. \A x \in Nat : x >= x
  OBVIOUS
<1>3. CASE SplitNewSegment(a)
  <2>1. PICK x, len, new : Created(a, x, len, new)
    BY <1>0, <1>3, CreateEffect
  <2>2. /\ segments' = segments /\ active' = active
        /\ BaseOffset'[segments[1]] = BaseOffset[segments[1]]
        /\ NextOffset'[active] = NextOffset[active]
    BY <1>1, <2>1, Zenon DEF Created
  <2> QED
    BY <1>1, <1>2, <2>2, Zenon
<1>4. CASE SplitClean(a)
  <2>1. NextOffset' = NextOffset /\ active' = active
    BY <1>4, Zenon DEF SplitClean
  <2>2. BaseOffset'[segments'[1]] >= BaseOffset[segments[1]]
    BY <1>0, <1>4, SplitCleanAckedOK
  <2> QED
    BY <1>1, <1>2, <2>1, <2>2, Zenon
<1>5. CASE SplitStoreActive(a)
  <2>1. UNCHANGED <<NextOffset, BaseOffset, segments>> /\ active' = loc[a].seg /\ pc[a] = "activate"
    BY <1>5 DEF SplitStoreActive, heap
  <2>2. NextOffset[loc[a].seg] = NextOffset[active]
    BY <1>0, <2>1, Zenon DEF IInv, ActiveOK
  <2> QED
    BY <1>1, <1>2, <2>1, <2>2, Zenon
<1>6. CASE SegmentWrite(a)
  <2>1. PICK f, r : Wrote(a, f, r)
    BY <1>0, <1>6, WriteEffect, Zenon
  <2>2. /\ UNCHANGED <<BaseOffset, segments, active>>
        /\ NextOffset' = [NextOffset EXCEPT ![active] = @ + 1]
    BY <2>1, Zenon DEF Wrote
  <2>3. NextOffset'[active] = NextOffset[active] + 1
    BY <1>0, <1>1, <2>2, Zenon DEF IInv, TypeOK
  <2> QED
    BY <1>1, <2>2, <2>3
<1>7. CASE \/ \E v \in Values, n \in Lens : CheckSplit(a, v, n)
           \/ AppendPosition(a) \/ AppendPutOffset(a) \/ IndexWriteEntry(a)
  <2>1. UNCHANGED <<NextOffset, BaseOffset, segments, active>>
    BY <1>7, Zenon DEF CheckSplit, AppendPosition, AppendPutOffset, IndexWriteEntry, heap
  <2>2. /\ NextOffset'[active'] = NextOffset[active]
        /\ BaseOffset'[segments'[1]] = BaseOffset[segments[1]]
    BY <2>1, Zenon
  <2> QED
    BY <1>1, <1>2, <2>2, Zenon
<1> QED
  BY <1>3, <1>4, <1>5, <1>6, <1>7 DEF AppendStep

\* NewestOffset never goes back, so no offset is handed out twice, and neither
\* does OldestOffset: cleaning only removes the oldest segments.
THEOREM OffsetsOnlyAdvance == ASSUME SingleAppender PROVE Spec => OffsetsAdvance
<1> DEFINE Advance == NewestOffset' >= NewestOffset /\ OldestOffset' >= OldestOffset
<1>1. LogInv /\ LogInv' /\ [Next]_vars => [Advance]_vars
  BY OffsetsStep DEF Next
<1> HIDE DEF Advance
<1>2. Spec => [][Advance]_vars
  BY <1>1, LogInvariant, PTL DEF Spec
<1> QED
  BY <1>2 DEF Advance, OffsetsAdvance
=============================================================================
