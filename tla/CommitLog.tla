------------------------------ MODULE CommitLog ------------------------------
(***************************************************************************)
(* One CommitLog of package commitlog with the delete cleanup policy: the  *)
(* segment objects in memory, the .log files on disk, and Append, cut at   *)
(* the points where another goroutine can run, because Append holds no     *)
(* lock of its own (broker.withTimeout lets a late produce overlap the     *)
(* next one).                                                              *)
(*                                                                         *)
(* A segment object is a number into the heap (BaseOffset, NextOffset,     *)
(* Position, Index, closed).  A .log file is named by its base offset.     *)
(* A record is a message set: its payload is an opaque value.  A file      *)
(* write is atomic and survives a crash of the process.  The objects two   *)
(* racing splits open on one file map the same index file; here each has   *)
(* an index of its own, which nothing checked of racing appends reads.     *)
(***************************************************************************)
EXTENDS SegmentFile, FiniteSets, FiniteSetsExt

CONSTANTS
  Appenders,        \* goroutines that call Append
  Values,           \* payloads
  Lens,             \* lengths of a message set in bytes, header included
  MaxSegmentBytes,  \* Options.MaxSegmentBytes
  MaxLogBytes,      \* Options.MaxLogBytes, -1 for no limit
  MaxOffset         \* bound: no Append starts at this offset or beyond

ASSUME LensAssumption == Lens \subseteq Nat /\ Lens # {} /\ \A n \in Lens : n >= HeaderLen
\* Options.MaxSegmentBytes = 0 is an open TODO of New; the broker passes 1024.
ASSUME MaxSegmentBytesAssumption == MaxSegmentBytes \in Nat \ {0}
ASSUME MaxLogBytesAssumption == MaxLogBytes \in Nat \cup {-1}
ASSUME MaxOffsetAssumption == MaxOffset \in Nat

VARIABLES
  disk,        \* the .log files: base offset -> records
  BaseOffset, NextOffset, Position, Index,  \* the fields of the segment objects
  closed,      \* the segment objects whose file is closed
  segments,    \* CommitLog.segments
  active,      \* CommitLog.vActiveSegment
  status,      \* "open", "down" after a crash, "failed" when New failed
  orphans,     \* bases of the .index files whose .log file is gone
  pc,          \* where each appender is in Append
  loc,         \* the local variables of each appender's Append
  acked        \* the offsets and payloads of the Appends that returned no error

heap == <<BaseOffset, NextOffset, Position, Index, closed>>
files == <<disk, status, orphans>>
vars == <<files, heap, segments, active, pc, loc, acked>>

Records == [off : Nat, at : Nat, len : Lens, val : Values]
Entries == [off : Nat, pos : Nat]
Objects == DOMAIN BaseOffset
NoLocals == [val |-> {}, len |-> 0, seg |-> 0, off |-> 0, pos |-> 0]

NewestOffset == NextOffset[active]
OldestOffset == BaseOffset[segments[1]]
IsFull(s) == Position[s] >= MaxSegmentBytes

-----------------------------------------------------------------------------
\* DeleteCleaner.Clean.  segs ends with the new, still empty segment.

\* The bytes of the segments from the newest back to the k-th, as Clean adds
\* them up.
TailBytes(segs, k) ==
  Total([i \in 0 .. Len(segs) - k |-> Position[segs[Len(segs) - i]]], Len(segs) - k + 1)

\* Mutant: the segment that exceeds the retention size is kept too.
KeptOneMore(segs) ==
  {k \in DOMAIN segs : \A i \in k + 1 .. Len(segs) - 1 : TailBytes(segs, i) <= MaxLogBytes}

\* The segments Clean keeps: the newest, and going backwards from it every one
\* until the retention size is exceeded.
Kept(segs) ==
  IF MaxLogBytes = -1
  THEN DOMAIN segs
  ELSE {k \in DOMAIN segs : \A i \in k .. Len(segs) - 1 : TailBytes(segs, i) <= MaxLogBytes}

\* The oldest of them: Clean deletes those before it.
FirstKept(segs) == {k \in Kept(segs) : k - 1 \notin Kept(segs)}

\* Segment.Delete of the objects in S: closed, the files unlinked.
Delete(S) ==
  /\ closed' = closed \cup S
  /\ disk' = [b \in DOMAIN disk \ {BaseOffset[s] : s \in S} |-> disk[b]]

\* Where deleting segs[first - 1], ..., segs[1] in this order meets an error: a
\* segment that is closed already, or whose file went with another object.
DeleteErrors(segs, first) ==
  {j \in 1 .. first - 1 :
     \/ segs[j] \in closed
     \/ BaseOffset[segs[j]] \notin DOMAIN disk
     \/ \E i \in j + 1 .. first - 1 : BaseOffset[segs[i]] = BaseOffset[segs[j]]}

-----------------------------------------------------------------------------
\* The entries BuildIndex writes.
IndexOf(base, r) == [k \in DOMAIN r.starts |-> [off |-> base + k - 1, pos |-> r.starts[k]]]

\* NewSegment: a new object for the file of base, with the result r of BuildIndex.
OpenSegment(base, r) ==
  /\ BaseOffset' = Append(BaseOffset, base)
  /\ NextOffset' = Append(NextOffset, base + Len(r.starts))
  /\ Position' = Append(Position, r.pos)
  /\ Index' = Append(Index, IndexOf(base, r))
  /\ UNCHANGED closed

\* Mutant: the new segment leaves out one offset.
CreateSegmentLater(base) ==
  /\ disk' = [b \in DOMAIN disk \cup {base + 1} |-> IF b = base + 1 THEN <<>> ELSE disk[b]]
  /\ OpenSegment(base + 1, [starts |-> <<>>, pos |-> 0])

\* NewSegment where the file does not exist yet.
CreateSegment(base) ==
  /\ disk' = [b \in DOMAIN disk \cup {base} |-> IF b = base THEN <<>> ELSE disk[b]]
  /\ OpenSegment(base, [starts |-> <<>>, pos |-> 0])

\* open on an empty directory: one segment with base offset 0.
Init ==
  /\ disk = [b \in {0} |-> <<>>]
  /\ BaseOffset = <<0>> /\ NextOffset = <<0>> /\ Position = <<0>>
  /\ Index = << <<>> >> /\ closed = {}
  /\ segments = <<1>> /\ active = 1
  /\ status = "open" /\ orphans = {}
  /\ pc = [a \in Appenders |-> "idle"]
  /\ loc = [a \in Appenders |-> NoLocals]
  /\ acked = {}

Goto(a, label) == pc' = [pc EXCEPT ![a] = label]

\* Append returns: with an error, or after the last step.
Return(a) == Goto(a, "idle") /\ loc' = [loc EXCEPT ![a] = NoLocals]

\* Append is called, and checkSplit looks whether the active segment is full.
CheckSplit(a, v, n) ==
  /\ pc[a] = "idle" /\ status = "open"
  /\ NewestOffset < MaxOffset
  /\ loc' = [loc EXCEPT ![a].val = v, ![a].len = n]
  /\ Goto(a, IF IsFull(active) THEN "split" ELSE "position")
  /\ UNCHANGED <<files, heap, segments, active, acked>>

\* split: the new segment starts at NewestOffset.  If a racing split has made
\* the file already, NewSegment opens it and rebuilds its index.
SplitNewSegment(a) ==
  /\ pc[a] = "split"
  /\ IF NewestOffset \notin DOMAIN disk
     THEN CreateSegment(NewestOffset)
     ELSE \E r \in BuildIndex(disk[NewestOffset]) : OpenSegment(NewestOffset, r) /\ UNCHANGED disk
  /\ loc' = [loc EXCEPT ![a].seg = Len(BaseOffset) + 1]
  /\ Goto(a, "clean")
  /\ UNCHANGED <<status, orphans, segments, active, acked>>

\* split, holding the lock: the cleaner runs and its result is installed.  An
\* error of Segment.Delete ends the cleaning half way and Append with it.
SplitClean(a) ==
  /\ pc[a] = "clean"
  /\ LET segs == Append(segments, loc[a].seg)
     IN  \E first \in FirstKept(segs) :
           IF DeleteErrors(segs, first) = {}
           THEN /\ segments' = SubSeq(segs, first, Len(segs))
                /\ Delete({segs[i] : i \in 1 .. first - 1})
                /\ Goto(a, "activate") /\ UNCHANGED loc
           ELSE /\ Delete({segs[i] : i \in Max(DeleteErrors(segs, first)) .. first - 1})
                /\ Return(a) /\ UNCHANGED segments
  /\ UNCHANGED <<status, orphans, BaseOffset, NextOffset, Position, Index, active, acked>>

\* split, the lock released: the new segment becomes the active one.
SplitStoreActive(a) ==
  /\ pc[a] = "activate"
  /\ active' = loc[a].seg
  /\ Goto(a, "position")
  /\ UNCHANGED <<files, heap, segments, loc, acked>>

\* Mutant: the position of the header before the record.
AppendPositionBefore(a) ==
  /\ pc[a] = "position"
  /\ loc' = [loc EXCEPT ![a].pos = Position[active] - HeaderLen]
  /\ Goto(a, "offset")
  /\ UNCHANGED <<files, heap, segments, active, acked>>

\* Append reads the Position of the active segment for the index entry.
AppendPosition(a) ==
  /\ pc[a] = "position"
  /\ loc' = [loc EXCEPT ![a].pos = Position[active]]
  /\ Goto(a, "offset")
  /\ UNCHANGED <<files, heap, segments, active, acked>>

\* Append reads NextOffset and stamps the message set with it.
AppendPutOffset(a) ==
  /\ pc[a] = "offset"
  /\ loc' = [loc EXCEPT ![a].off = NextOffset[active]]
  /\ Goto(a, "write")
  /\ UNCHANGED <<files, heap, segments, active, acked>>

\* Segment.Write: the record goes to the end of the file, which nobody can
\* reach any more when it was unlinked through another object.  On a closed
\* segment the write fails and Append returns the error.
SegmentWrite(a) ==
  /\ pc[a] = "write"
  /\ LET b == BaseOffset[active]
         record(end) == [off |-> loc[a].off, at |-> end, len |-> loc[a].len, val |-> loc[a].val]
     IN  IF active \in closed
         THEN Return(a) /\ UNCHANGED <<disk, NextOffset, Position>>
         ELSE /\ disk' = [c \in DOMAIN disk |->
                            IF c = b THEN Append(disk[c], record(FileEnd(disk[c]))) ELSE disk[c]]
              /\ NextOffset' = [NextOffset EXCEPT ![active] = @ + 1]
              /\ Position' = [Position EXCEPT ![active] = @ + loc[a].len]
              /\ Goto(a, "index") /\ UNCHANGED loc
  /\ UNCHANGED <<status, orphans, BaseOffset, Index, closed, segments, active, acked>>

\* Index.WriteEntry, and Append returns the offset.
IndexWriteEntry(a) ==
  /\ pc[a] = "index"
  /\ Index' = [Index EXCEPT ![active] = Append(@, [off |-> loc[a].off, pos |-> loc[a].pos])]
  /\ acked' = acked \cup {[off |-> loc[a].off, val |-> loc[a].val]}
  /\ Return(a)
  /\ UNCHANGED <<files, BaseOffset, NextOffset, Position, closed, segments, active>>

AppendStep(a) ==
  \/ \E v \in Values, n \in Lens : CheckSplit(a, v, n)
  \/ SplitNewSegment(a)
  \/ SplitClean(a)
  \/ SplitStoreActive(a)
  \/ AppendPosition(a)
  \/ AppendPutOffset(a)
  \/ SegmentWrite(a)
  \/ IndexWriteEntry(a)

\* The process dies between two steps of Append ...
Crash ==
  /\ status = "open" /\ status' = "down"
  /\ pc' = [a \in Appenders |-> "idle"] /\ loc' = [a \in Appenders |-> NoLocals]
  /\ UNCHANGED <<disk, orphans, heap, segments, active, acked>>

\* ... or while the cleaner deletes segs[first - 1], ..., segs[1]: some are gone,
\* and of the last one perhaps only the .log file, which is removed first.
CrashInDelete(a) ==
  /\ pc[a] = "clean"
  /\ LET segs == Append(segments, loc[a].seg)
     IN  \E first \in FirstKept(segs) :
           /\ DeleteErrors(segs, first) = {}
           /\ \E i \in 1 .. first - 1 :
                /\ Delete({segs[j] : j \in i .. first - 1})
                /\ orphans' \in {{}, {BaseOffset[segs[i]]}}
  /\ status' = "down"
  /\ pc' = [b \in Appenders |-> "idle"] /\ loc' = [b \in Appenders |-> NoLocals]
  /\ UNCHANGED <<BaseOffset, NextOffset, Position, Index, segments, active, acked>>

\* Mutant: the oldest segment is the active one.
OldestActive(bases) == 1

\* The segment open makes active: the last of the directory's.
OpenActive(bases) == Len(bases)

\* New on the directory the process left: one segment per .log file, in the
\* order of their names, each index rebuilt.
Open ==
  LET dir == IF disk = <<>> THEN [b \in {0} |-> <<>>] ELSE disk
      all == 1 .. Cardinality(DOMAIN dir)
      bases == [i \in all |-> CHOOSE b \in DOMAIN dir :
                                Cardinality({c \in DOMAIN dir : c < b}) = i - 1]
      built[i \in all \cup {0}] ==
        IF i = 0 THEN {<<>>}
        ELSE {Append(s, x) : s \in built[i - 1], x \in BuildIndex(dir[bases[i]])}
  IN  /\ status = "down" /\ orphans = {}
      /\ status' = "open"
      /\ disk' = dir
      /\ \E r \in built[Cardinality(DOMAIN dir)] :
           /\ BaseOffset' = bases
           /\ NextOffset' = [i \in all |-> bases[i] + Len(r[i].starts)]
           /\ Position' = [i \in all |-> r[i].pos]
           /\ Index' = [i \in all |-> IndexOf(bases[i], r[i])]
      /\ closed' = {}
      /\ segments' = [i \in all |-> i]
      /\ active' = OpenActive(bases)
      /\ UNCHANGED <<orphans, pc, loc, acked>>

\* open removes an .index file without a .log file by its bare name, which is
\* not in the working directory: the error makes New fail.
OpenFails ==
  /\ status = "down" /\ orphans # {}
  /\ status' = "failed"
  /\ UNCHANGED <<disk, orphans, heap, segments, active, pc, loc, acked>>

Next == \E a \in Appenders : AppendStep(a)
NextRestart == Next \/ Crash \/ Open
NextCrashInDelete == NextRestart \/ (\E a \in Appenders : CrashInDelete(a)) \/ OpenFails

Spec == Init /\ [][Next]_vars
SpecRestart == Init /\ [][NextRestart]_vars
SpecCrashInDelete == Init /\ [][NextCrashInDelete]_vars

-----------------------------------------------------------------------------
\* Properties

Labels == {"idle", "split", "clean", "cleaning", "copying", "activate", "position", "offset", "write", "index"}
Locals == [val : Values \cup {{}}, len : Nat, seg : Nat, off : Nat, pos : Nat]

\* The shape of the log's state: files hold records, and every segment object
\* the log or an appender refers to exists.
TypeOK ==
  /\ DOMAIN disk \subseteq Nat /\ \A b \in DOMAIN disk : disk[b] \in Seq(Records)
  /\ BaseOffset \in Seq(Nat)
  /\ NextOffset \in [Objects -> Nat] /\ Position \in [Objects -> Nat]
  /\ Index \in [Objects -> Seq(Entries)] /\ closed \subseteq Objects
  /\ segments \in Seq(Objects) /\ active \in Objects
  /\ status \in {"open", "down", "failed"} /\ orphans \subseteq Nat
  /\ pc \in [Appenders -> Labels] /\ loc \in [Appenders -> Locals]
  /\ \A a \in Appenders : pc[a] \in {"clean", "activate"} => loc[a].seg \in Objects
  /\ acked \subseteq [off : Nat, val : Values]

\* Segment i of the log ends where segment i + 1 begins, and the k-th record of
\* its file carries the k-th offset: Append hands out offsets without a gap,
\* a repetition or a jump when it moves on to a new segment.
Contiguous ==
  status = "open" => \A i \in DOMAIN segments :
    LET s == segments[i]
        f == disk[BaseOffset[s]]
    IN  /\ BaseOffset[s] \in DOMAIN disk
        /\ i < Len(segments) => NextOffset[s] = BaseOffset[segments[i + 1]]
        /\ Len(f) = NextOffset[s] - BaseOffset[s]
        /\ \A k \in DOMAIN f : f[k].off = BaseOffset[s] + k - 1

\* What Append acknowledged is on disk, with the payload and the offset it
\* returned, until the cleaner drops the segment: only a prefix of the log is
\* ever missing.
AckedDurable ==
  \A r \in acked :
    \/ \A b \in DOMAIN disk : r.off < b
    \/ \E b \in DOMAIN disk : \E k \in DOMAIN disk[b] :
         disk[b][k].off = r.off /\ disk[b][k].val = r.val

\* The k-th index entry of a segment points at the k-th record of its file, and
\* only the record Append has just written may still lack its entry.
IndexExact ==
  status = "open" => \A i \in DOMAIN segments :
    LET s == segments[i]
        f == disk[BaseOffset[s]]
        pending == s = active /\ \E a \in Appenders : pc[a] = "index"
    IN  /\ Len(Index[s]) = Len(f) - IF pending THEN 1 ELSE 0
        /\ \A k \in DOMAIN Index[s] : Index[s][k] = [off |-> f[k].off, pos |-> f[k].at]
        /\ Position[s] = FileEnd(f)

\* When a split has cleaned the log, the files it keeps fit in MaxLogBytes, also
\* when crashes in earlier splits left more of them behind; and no segment
\* overshoots MaxSegmentBytes by more than the record that filled it.
RetentionBound ==
  /\ MaxLogBytes # -1 /\ (\E a \in Appenders : pc[a] = "activate") =>
       BytesBefore(disk, Max(DOMAIN disk) + 1) <= MaxLogBytes
  /\ \A i \in DOMAIN segments : \E m \in Lens : Position[segments[i]] < MaxSegmentBytes + m

\* The files left on disk are the most recent ones: nothing is missing between
\* the oldest file and the newest.
MostRecentKept ==
  \A b \in DOMAIN disk :
    (\E c \in DOMAIN disk : c > b) => b + Len(disk[b]) \in DOMAIN disk

\* NewestOffset and OldestOffset never go back: an offset handed out once is
\* not handed out again, and cleaning only removes the oldest segments.
OffsetsAdvance == [][NewestOffset' >= NewestOffset /\ OldestOffset' >= OldestOffset]_vars
=============================================================================
