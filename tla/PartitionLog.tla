---------------------------- MODULE PartitionLog ----------------------------
(***************************************************************************)
(* What a partition's log promises its users, whatever segments, indexes   *)
(* and cleaners it is made of: an append gets the next offset, a stored    *)
(* value never changes, and with the policy "delete" only the oldest       *)
(* offsets disappear, with "compact" only those a later one supersedes.    *)
(* In a compacted log a value stands for the key of the record.            *)
(***************************************************************************)
EXTENDS Naturals

CONSTANT Values

VARIABLES
  log,    \* the stored values by offset
  next,   \* the offset of the next append
  policy  \* the cleanup policy the log was opened with

vars == <<log, next, policy>>

Init == log = [o \in {} |-> 0] /\ next = 0 /\ policy \in {"delete", "compact"}

\* CommitLog.Append as its callers see it.
Append(v) ==
  /\ next' = next + 1
  /\ log' = [o \in DOMAIN log \cup {next} |-> IF o = next THEN v ELSE log[o]]
  /\ UNCHANGED policy

\* A cleaner drops the offsets below oldest.
Trim(oldest) ==
  /\ policy = "delete"
  /\ log' = [o \in {x \in DOMAIN log : x >= oldest} |-> log[o]]
  /\ UNCHANGED <<next, policy>>

\* A cleaner drops offsets whose key occurs again at a later offset that stays.
Compact(dropped) ==
  /\ policy = "compact"
  /\ \A o \in dropped : \E x \in DOMAIN log \ dropped : x > o /\ log[x] = log[o]
  /\ log' = [o \in DOMAIN log \ dropped |-> log[o]]
  /\ UNCHANGED <<next, policy>>

Next ==
  \/ \E v \in Values : Append(v)
  \/ \E oldest \in 0 .. next : Trim(oldest)
  \/ \E dropped \in SUBSET DOMAIN log : Compact(dropped)

Spec == Init /\ [][Next]_vars
=============================================================================
