----------------------------- MODULE LogReader -----------------------------
(***************************************************************************)
(* Readers of a CommitLog (NewReader and Reader.Read) while it is appended *)
(* to.  A Reader keeps the position of its segment in CommitLog.segments   *)
(* and a byte position in that segment's file.  Read takes the segments    *)
(* once and then reads file after file; each ReadAt is a step.  Bytes are  *)
(* counted, not represented.                                               *)
(***************************************************************************)
EXTENDS CommitLog

CONSTANTS
  Readers,
  ReadSizes   \* the buffer lengths a Read is called with

ASSUME ReadSizesAssumption == ReadSizes \subseteq Nat \ {0}

VARIABLES
  rpc,     \* where each reader is
  rd       \* each reader's state

rvars == <<rpc, rd>>
allVars == <<vars, rvars>>

\* wanted: the offset NewReader was called with; snap: the segments taken at the
\* start of NewReader or Read; idx: from 1; left: room in the buffer of Read;
\* start: the address in the whole log of the first byte delivered; got: the
\* bytes delivered so far.
NoReader == [wanted |-> 0, snap |-> <<>>, idx |-> 0, pos |-> 0, left |-> 0, start |-> 0, got |-> 0]

InitR ==
  /\ Init
  /\ rpc = [r \in Readers |-> "none"]
  /\ rd = [r \in Readers |-> NoReader]

RGoto(r, label) == rpc' = [rpc EXCEPT ![r] = label]

\* The address in the whole log of byte pos of the file of base.
Address(base, pos) == BytesBefore(disk, base) + pos

\* NewReader: the first segment for offset 0, else the one findSegment picks;
\* none is an error.
NewReaderSegment(r, offset) ==
  /\ rpc[r] = "none"
  /\ LET nexts == [i \in DOMAIN segments |-> NextOffset[segments[i]]]
         i == IF offset = 0 THEN 1 ELSE FindSegment(nexts, offset)
     IN  /\ i # 0
         /\ rd' = [rd EXCEPT ![r] = [NoReader EXCEPT !.wanted = offset, !.snap = segments, !.idx = i]]
  /\ RGoto(r, "entry")
  /\ UNCHANGED vars

\* NewReader: findEntry gives the position to start at; no entry is an error.
NewReaderEntry(r) ==
  /\ rpc[r] = "entry"
  /\ LET s == rd[r].snap[rd[r].idx]
         e == FindEntry(Index[s], rd[r].wanted)
     IN  IF e = NoEntry
         THEN /\ rd' = [rd EXCEPT ![r] = NoReader]
              /\ RGoto(r, "none")
         ELSE /\ rd' = [rd EXCEPT ![r].pos = e.pos, ![r].start = Address(BaseOffset[s], e.pos)]
              /\ RGoto(r, "ready")
  /\ UNCHANGED vars

\* Mutant: every Read starts at the beginning of the segment.
ReadStartOver(r, n) ==
  /\ rpc[r] = "ready"
  /\ rd' = [rd EXCEPT ![r].snap = segments, ![r].left = n, ![r].pos = 0]
  /\ RGoto(r, "reading")
  /\ UNCHANGED vars

\* Read is called with a buffer of n bytes and takes the log's segments.
ReadStart(r, n) ==
  /\ rpc[r] = "ready"
  /\ rd' = [rd EXCEPT ![r].snap = segments, ![r].left = n]
  /\ RGoto(r, "reading")
  /\ UNCHANGED vars

\* One turn of the loop of Read.  ReadAt returns what the file has, with io.EOF
\* when that does not fill the buffer; then the next segment is next, if Read
\* had one when it started.  Any other error, a closed file, ends Read.
ReadAt(r) ==
  /\ rpc[r] = "reading"
  /\ LET R == rd[r]
         s == R.snap[R.idx]
         end == FileEnd(disk[BaseOffset[s]])
         n == Max({0, Min({R.left, end - R.pos})})
         read == [R EXCEPT !.pos = @ + n, !.left = @ - n, !.got = @ + n]
     IN  IF s \in closed \/ n = R.left
         THEN /\ rd' = [rd EXCEPT ![r] = IF s \in closed THEN R ELSE read]
              /\ RGoto(r, "ready")
         ELSE IF R.idx < Len(R.snap)
         THEN rd' = [rd EXCEPT ![r] = [read EXCEPT !.idx = @ + 1, !.pos = 0]] /\ UNCHANGED rpc
         ELSE rd' = [rd EXCEPT ![r] = read] /\ RGoto(r, "ready")
  /\ UNCHANGED vars

ReaderStep(r) ==
  \/ \E offset \in 0 .. MaxOffset : NewReaderSegment(r, offset)
  \/ NewReaderEntry(r)
  \/ \E n \in ReadSizes : ReadStart(r, n)
  \/ ReadAt(r)

NextR == (Next /\ UNCHANGED rvars) \/ \E r \in Readers : ReaderStep(r)

SpecR == InitR /\ [][NextR]_allVars

-----------------------------------------------------------------------------
\* Properties, of a log that is not cleaned (MaxLogBytes = -1, the broker's).

\* A new reader starts at the first byte of a record whose offset is not above
\* the one it was asked for: NewReader may start early, never past it, though
\* findEntry bisects entries that are not written yet and Append writes the
\* entry after the record.
StartsAtOrBefore ==
  \A r \in Readers : rpc[r] \in {"ready", "reading"} =>
    \E b \in DOMAIN disk :
      \/ rd[r].start = Address(b, 0) /\ b <= rd[r].wanted
      \/ \E k \in DOMAIN disk[b] :
           rd[r].start = Address(b, disk[b][k].at) /\ disk[b][k].off <= rd[r].wanted

\* The bytes a reader delivers are consecutive bytes of the log: Read does not
\* skip or repeat any when it goes from one segment to the next, whatever is
\* appended between its steps.
StreamConsecutive ==
  \A r \in Readers : rpc[r] \in {"ready", "reading"} =>
    Address(BaseOffset[rd[r].snap[rd[r].idx]], rd[r].pos) = rd[r].start + rd[r].got
=============================================================================
