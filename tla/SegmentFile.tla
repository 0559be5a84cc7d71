---------------------------- MODULE SegmentFile ----------------------------
(***************************************************************************)
(* The pure algorithms of a commit log segment: rebuilding its index from  *)
(* the log file (Segment.BuildIndex), looking an offset up in the index    *)
(* (Segment.findEntry) and finding the segment that holds an offset        *)
(* (findSegment).                                                          *)
(*                                                                         *)
(* A log file is a sequence of records, one per appended message set: the  *)
(* offset stored in its header, the byte it starts at, its length with the *)
(* header, and its payload, which is opaque.  An index is a sequence of    *)
(* entries <<offset, position>>, absolute as Entry is.                     *)
(***************************************************************************)
EXTENDS Integers, Sequences

CONSTANTS
  HeaderLen,      \* msgSetHeaderLen: 8 bytes of offset and 4 of size
  IndexCapacity   \* Index.bytes / entryWidth: entries the mapped file can hold

ASSUME HeaderLenAssumption == HeaderLen \in Nat \ {0}
ASSUME IndexCapacityAssumption == IndexCapacity \in Nat \ {0}

\* The length of a log file in bytes.
FileEnd(recs) == IF recs = <<>> THEN 0 ELSE recs[Len(recs)].at + recs[Len(recs)].len

\* w[0] + ... + w[n - 1].
Total(w, n) ==
  LET sum[i \in 0 .. n] == IF i = 0 THEN 0 ELSE sum[i - 1] + w[i - 1]
  IN  sum[n]

\* The bytes in the log files of a directory with a base offset below base.
BytesBefore(dir, base) ==
  Total([b \in 0 .. base - 1 |-> IF b \in DOMAIN dir THEN FileEnd(dir[b]) ELSE 0], base)

\* Mutant: the size of a record taken for the size of its payload.
SizeWithHeader(recs, q) == {recs[k].len : k \in {i \in DOMAIN recs : recs[i].at = q}}

\* The values the four bytes of size can have when a header is read at byte q:
\* the payload's size on a record boundary; inside a payload whatever the
\* producer put there.  A value beyond the end of the file acts as the end.
SizeField(recs, q) ==
  IF \E k \in DOMAIN recs : recs[k].at = q
  THEN {recs[k].len - HeaderLen : k \in {i \in DOMAIN recs : recs[i].at = q}}
  ELSE 0 .. FileEnd(recs)

\* Segment.BuildIndex: the possible results of scanning a log file, as the
\* positions of the entries written and the final Position.  One turn of the
\* loop reads a header at cursor q and its payload, then seeks over the size
\* of the payload once more; an incomplete read ends the scan.
BuildIndex(recs) ==
  LET end == FileEnd(recs)
      stop(p) == {[starts |-> <<>>, pos |-> p]}
      scan[q \in 0 .. 2 * end, p \in 0 .. 2 * end] ==
        IF q + HeaderLen > end
        THEN stop(p)
        ELSE UNION {IF q + HeaderLen + size > end
                    THEN stop(p)
                    ELSE {[starts |-> <<p>> \o r.starts, pos |-> r.pos] :
                            r \in scan[q + HeaderLen + 2 * size, p + HeaderLen + size]} :
                    size \in SizeField(recs, q)}
  IN  scan[0, 0]

\* sort.Search: the least i in 0..n with f(i), by bisection.
Search(n, f(_)) ==
  LET bisect[s \in (0 .. n) \X (0 .. n)] ==
        LET i == s[1]
            j == s[2]
            h == (i + j) \div 2
        IN  IF i >= j THEN i
            ELSE IF f(h) THEN bisect[<<i, h>>] ELSE bisect[<<h + 1, j>>]
  IN  bisect[<<0, n>>]

\* Mutant: off by one, the segment that ends with offset is passed over.
FindSegmentPast(nexts, offset) ==
  LET i == Search(Len(nexts), LAMBDA h : nexts[h + 1] > offset + 1)
  IN  IF i = Len(nexts) THEN 0 ELSE i + 1

\* findSegment: the position (from 1) in a log's segments, given as their next
\* offsets, of the first that ends after offset; 0 when there is none.
FindSegment(nexts, offset) ==
  LET i == Search(Len(nexts), LAMBDA h : nexts[h + 1] > offset)
  IN  IF i = Len(nexts) THEN 0 ELSE i + 1

\* No entry: what findEntry returns with its error.
NoEntry == [off |-> -1, pos |-> -1]

\* Index.ReadEntryAtFileOffset: entry i (from 0) is read into an Entry last filled
\* from the k-th, which a read beyond the written entries leaves alone.
ReadEntry(index, i, k) == IF i < Len(index) THEN i + 1 ELSE k

\* Segment.findEntry: sort.Search over the whole mapped file, its probes sharing
\* one Entry, which is zero (k = 0) before the first read.
FindEntry(index, offset) ==
  LET entry(k) == IF k = 0 THEN [off |-> 0, pos |-> 0] ELSE index[k]
      bisect[s \in (0 .. IndexCapacity) \X (0 .. IndexCapacity) \X (0 .. Len(index))] ==
        LET i == s[1]
            j == s[2]
            h == (i + j) \div 2
            e == ReadEntry(index, h, s[3])
        IN  IF i >= j
            THEN IF i = IndexCapacity THEN NoEntry ELSE entry(ReadEntry(index, i, s[3]))
            ELSE IF entry(e).off >= offset \/ entry(e).off = 0
                 THEN bisect[<<i, h, e>>]
                 ELSE bisect[<<h + 1, j, e>>]
  IN  bisect[<<0, IndexCapacity, 0>>]
=============================================================================
