---------------------------- MODULE CompactedLog ----------------------------
(***************************************************************************)
(* A CommitLog with either cleanup policy.  With "delete" it is the log of *)
(* CommitLog; with "compact" split runs CompactCleaner.Clean, which copies *)
(* what is to be kept of each segment into a file with the suffix .cleaned *)
(* and renames it over the .log file.                                      *)
(*                                                                         *)
(* In a compacted log the value of a record stands for its key: a message  *)
(* set holds one message, and keys have different hashes.  Clean runs      *)
(* under the log's lock, but not in one step for the disk: the process can *)
(* die between any two of its file operations, and the .cleaned file it    *)
(* leaves is found by the Clean of the next process.                       *)
(***************************************************************************)
EXTENDS CommitLog

CONSTANT MaxInterrupted  \* bound: crashes that leave a .cleaned file behind

ASSUME MaxInterruptedAssumption == MaxInterrupted \in Nat

VARIABLES
  policy,       \* Options.CleanupPolicy
  cleaned,      \* the .log.cleaned files: base offset -> records
  m,            \* CompactCleaner.m: key -> latest offset
  todo, done,   \* the segment objects Clean still has to copy, and the new ones
  rest,         \* the records of Head(todo) Clean has not looked at yet
  interrupted   \* the crashes that left a .cleaned file behind

cleaner == <<m, todo, done, rest>>
compactVars == <<policy, cleaned, cleaner, interrupted>>
logVars == <<vars, compactVars>>

\* The positions an IndexScanner returns, and the records a SegmentScanner reads there.
IndexScan(s) == [k \in DOMAIN Index[s] |-> Index[s][k].pos]
Scan(s) ==
  [k \in DOMAIN Index[s] |-> CHOOSE r \in Range(disk[BaseOffset[s]]) : r.at = IndexScan(s)[k]]

\* The keys of the messages of a message set: of the only one.
Keys(r) == {r.val}

\* f after the assignments of g.
Assign(f, g) == [k \in DOMAIN f \cup DOMAIN g |-> IF k \in DOMAIN g THEN g[k] ELSE f[k]]

\* New chooses the cleaner.
InitLog ==
  /\ Init
  /\ policy \in {"delete", "compact"}
  /\ cleaned = <<>>
  /\ m = <<>> /\ todo = <<>> /\ done = <<>> /\ rest = <<>>
  /\ interrupted = 0

\* Clean, first pass: every key with the last offset the scan meets it at.
CleanMap(a) ==
  /\ pc[a] = "clean"
  /\ todo' = Append(segments, loc[a].seg)
  /\ LET keys(i) == UNION {Keys(r) : r \in Range(Scan(todo'[i]))}
         scan(k) == Scan(todo'[Max({i \in DOMAIN todo' : k \in keys(i)})])
         last(k) == Max({j \in DOMAIN scan(k) : k \in Keys(scan(k)[j])})
     IN  m' = Assign(m, [k \in UNION {keys(i) : i \in DOMAIN todo'} |-> scan(k)[last(k)].off])
  /\ done' = <<>> /\ rest' = <<>>
  /\ Goto(a, "cleaning")
  /\ UNCHANGED <<files, heap, segments, active, loc, acked, policy, cleaned, interrupted>>

\* Clean, second pass: NewSegment for the .cleaned file of the next segment.
\* O_APPEND keeps what an interrupted Clean left in it.
CleanOpen(a) ==
  /\ pc[a] = "cleaning" /\ todo # <<>>
  /\ LET b == BaseOffset[Head(todo)]
         old == IF b \in DOMAIN cleaned THEN cleaned[b] ELSE <<>>
     IN  /\ cleaned' = [c \in DOMAIN cleaned \cup {b} |-> IF c = b THEN old ELSE cleaned[c]]
         /\ \E r \in BuildIndex(old) : OpenSegment(b, r)
  /\ rest' = Scan(Head(todo))
  /\ Goto(a, "copying")
  /\ UNCHANGED <<files, segments, active, loc, acked, policy, m, todo, done, interrupted>>

\* Mutant: only what a later record has superseded is kept.
RetainSuperseded(r) == \E k \in Keys(r) : m[k] > r.off

\* Mutant: everything is kept.
RetainAll(r) == \E k \in Keys(r) : m[k] >= 0

\* Whether Clean retains a message set.
Retain(r) == \E k \in Keys(r) : m[k] <= r.off

\* One turn of the copying loop.
CleanCopy(a) ==
  /\ pc[a] = "copying" /\ rest # <<>>
  /\ LET cs == Len(BaseOffset)
         b == BaseOffset[cs]
         r == Head(rest)
         copy == [r EXCEPT !.at = FileEnd(cleaned[b])]
     IN  IF Retain(r)
         THEN /\ cleaned' = [cleaned EXCEPT ![b] = Append(@, copy)]
              /\ NextOffset' = [NextOffset EXCEPT ![cs] = @ + 1]
              /\ Position' = [Position EXCEPT ![cs] = @ + r.len]
         ELSE UNCHANGED <<cleaned, NextOffset, Position>>
  /\ rest' = Tail(rest)
  /\ UNCHANGED <<files, BaseOffset, Index, closed, segments, active, pc, loc, acked, policy, m,
                 todo, done, interrupted>>

\* Segment.Replace: the old segment is closed, the .cleaned file renamed over
\* its .log file and opened again, the index rebuilt.  A crash between the two
\* renames leaves an old .index file, which the next NewSegment overwrites.
CleanReplace(a) ==
  /\ pc[a] = "copying" /\ rest = <<>>
  /\ LET cs == Len(BaseOffset)
         b == BaseOffset[cs]
     IN  /\ disk' = [disk EXCEPT ![b] = cleaned[b]]
         /\ cleaned' = [c \in DOMAIN cleaned \ {b} |-> cleaned[c]]
         /\ \E r \in BuildIndex(cleaned[b]) :
              /\ NextOffset' = [NextOffset EXCEPT ![cs] = b + Len(r.starts)]
              /\ Position' = [Position EXCEPT ![cs] = r.pos]
              /\ Index' = [Index EXCEPT ![cs] = IndexOf(b, r)]
         /\ done' = Append(done, cs)
  /\ closed' = closed \cup {Head(todo)}
  /\ todo' = Tail(todo)
  /\ Goto(a, "cleaning")
  /\ UNCHANGED <<status, orphans, BaseOffset, segments, active, loc, acked, policy, m, rest, interrupted>>

\* Clean returns and split installs its result.  The segment split goes on to
\* make active is the one Clean has replaced and closed: no Append succeeds any
\* more until the log is opened again.
SplitInstall(a) ==
  /\ pc[a] = "cleaning" /\ todo = <<>>
  /\ segments' = done
  /\ Goto(a, "activate")
  /\ UNCHANGED <<files, heap, active, loc, acked, compactVars>>

CleanStep(a) ==
  \/ CleanMap(a)
  \/ CleanOpen(a)
  \/ CleanCopy(a)
  \/ CleanReplace(a)
  \/ SplitInstall(a)

\* The other steps of Append are those of CommitLog.
AppendOnly(a) ==
  /\ \/ \E v \in Values, n \in Lens : CheckSplit(a, v, n)
     \/ SplitNewSegment(a)
     \/ SplitStoreActive(a)
     \/ AppendPosition(a)
     \/ AppendPutOffset(a)
     \/ SegmentWrite(a)
     \/ IndexWriteEntry(a)
  /\ UNCHANGED compactVars

\* The process dies, perhaps with a .cleaned file not renamed yet.
CrashClean ==
  LET copying == \E a \in Appenders : pc[a] = "copying"
  IN  /\ copying => interrupted < MaxInterrupted
      /\ Crash
      /\ m' = <<>> /\ todo' = <<>> /\ done' = <<>> /\ rest' = <<>>
      /\ interrupted' = interrupted + IF copying THEN 1 ELSE 0
      /\ UNCHANGED <<policy, cleaned>>

\* open passes over the .cleaned files.
OpenClean == Open /\ UNCHANGED compactVars

NextDelete == policy = "delete" /\ NextRestart /\ UNCHANGED compactVars

NextCompact ==
  /\ policy = "compact"
  /\ (\E a \in Appenders : CleanStep(a) \/ AppendOnly(a)) \/ CrashClean \/ OpenClean

NextLog == NextDelete \/ NextCompact

SpecLog == InitLog /\ [][NextLog]_logVars

-----------------------------------------------------------------------------
\* Properties

OnDisk == UNION {Range(disk[b]) : b \in DOMAIN disk}

\* What Append acknowledged is not lost.  With "delete" it stays on disk until
\* the retention drops the segment; with "compact" the last acknowledged record
\* of every key stays, or a later one of the same key, whatever Clean was doing
\* when the process died and whatever it left behind.
AckedKept ==
  IF policy = "delete"
  THEN AckedDurable
  ELSE \A r \in acked :
         (\A q \in acked : q.val = r.val => q.off <= r.off) =>
           \E d \in OnDisk : d.val = r.val /\ d.off >= r.off

\* With "delete" offsets are consecutive and the index is the one of the file,
\* through every crash and every open.
ReopenedExact == policy = "delete" => Contiguous /\ IndexExact

\* With "delete" a split leaves no more than the retention size behind.
RetentionKept == policy = "delete" => RetentionBound

\* When a compaction is through, a key has one record left, its latest; unless an
\* interrupted Clean left a copy that the next one took over.
ObsoleteGone ==
  policy = "compact" /\ interrupted = 0 /\ (\E a \in Appenders : pc[a] = "activate") =>
    \A d, e \in OnDisk : d.val = e.val => d = e
=============================================================================
