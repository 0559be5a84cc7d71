------------------------ MODULE CommitLogRefinement ------------------------
(***************************************************************************)
(* A log with either policy implements PartitionLog: a record is appended  *)
(* by the write to the active segment's file, offsets are trimmed by the   *)
(* delete cleaner's deletion of files and compacted by the renaming of     *)
(* .cleaned files; every other step changes nothing a user of the log can  *)
(* see.                                                                    *)
(***************************************************************************)
EXTENDS CompactedLog

Stored == UNION {{disk[b][k] : k \in DOMAIN disk[b]} : b \in DOMAIN disk}

\* The values stored on disk by offset.
Content == [o \in {r.off : r \in Stored} |-> (CHOOSE r \in Stored : r.off = o).val]

Abstract == INSTANCE PartitionLog WITH log <- Content, next <- NewestOffset, policy <- policy

\* The segments, their index, the split and the cleaners, crashes and restarts
\* included, behave like one log: Append adds one value at NewestOffset, no step
\* changes a stored value, and what is dropped is a prefix of the offsets, or
\* with "compact" a record whose key has a later one that stays.
ImplementsPartitionLog == Abstract!Spec
=============================================================================
