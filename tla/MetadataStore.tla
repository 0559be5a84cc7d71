--------------------------- MODULE MetadataStore ---------------------------
(***************************************************************************)
(* The replicated metadata of the cluster (package fsm): every broker runs *)
(* an FSM that applies the commands of the raft log, in order, to its own  *)
(* memdb Store of nodes, topics, groups and partitions.                    *)
(*                                                                         *)
(* Raft is external: it commits commands to one log, hands each entry to   *)
(* FSM.Apply once, in order, and after a restart starts again from the     *)
(* last snapshot.  A row is what the Store keeps of a registration: the    *)
(* name it came with, an opaque value and the raft indexes of its creation *)
(* and its last modification.                                              *)
(***************************************************************************)
EXTENDS Integers, Sequences, FiniteSets

CONSTANTS
  Servers,
  NodeIDs, Names, PartitionIDs,
  Lower,       \* the lower case of a name
  Values,      \* the rest of a node, topic, group or partition
  NilConfig,   \* of Values: a topic without a Config
  NewConfig,   \* of Values: a topic with structs.NewTopicConfig()
  NoRow,
  MaxLog       \* bound: the entries raft commits

ASSUME LowerAssumption == Lower \in [Names -> Names]
ASSUME ConfigAssumption == NilConfig \in Values /\ NewConfig \in Values
ASSUME MaxLogAssumption == MaxLog \in Nat

VARIABLES
  log,        \* the committed raft log
  applied,    \* per server: the index of the last entry applied
  rows,       \* per server, table and key: the row, or NoRow
  tindex,     \* per server: the "index" table, the last index per table
  snapIndex   \* per server: the raft index of its last snapshot, 0 if none

vars == <<log, applied, rows, tindex, snapIndex>>

Tables == {"nodes", "topics", "groups", "partitions"}
NamesOf(table) ==
  CASE table = "nodes" -> NodeIDs
    [] table \in {"topics", "groups"} -> Names
    [] table = "partitions" -> Names \X PartitionIDs

Keys == UNION {NamesOf(table) : table \in Tables}
Commands == [op : {"register", "deregister"}, table : Tables, name : Keys, val : Values]
Rows == [name : Keys, val : Values, create : Nat, modify : Nat]

ASSUME NoRowAssumption == NoRow \notin Rows

\* The "id" index of each table: the names of topics and groups are lowercased,
\* the topic in the key of a partition is not.
Key(table, name) == IF table \in {"topics", "groups"} THEN Lower[name] ELSE name

\* EnsureTopic fills in a missing Config.
Filled(table, val) == IF table = "topics" /\ val = NilConfig THEN NewConfig ELSE val

EmptyStore == [table \in Tables |-> [k \in Keys |-> NoRow]]
EmptyIndex == [table \in Tables |-> 0]

\* Mutant: a write that leaves the "index" table alone.
PutNoIndex(s, table, k, row, idx) ==
  rows' = [rows EXCEPT ![s][table][k] = row] /\ UNCHANGED tindex

\* A write transaction of server s that puts row under key k of table.
Put(s, table, k, row, idx) ==
  /\ rows' = [rows EXCEPT ![s][table][k] = row]
  /\ tindex' = [tindex EXCEPT ![s][table] = idx]

\* Mutant: an upsert that does not look for the row that is there.
EnsureAnew(s, table, name, val, idx) ==
  Put(s, table, Key(table, name),
      [name |-> name, val |-> val, modify |-> idx, create |-> idx], idx)

\* ensureNodeTxn, ensureTopicTxn, ensureGroupTxn, ensurePartitionTxn: an upsert
\* that keeps the index of the creation.
Ensure(s, table, name, val, idx) ==
  LET k == Key(table, name)
      old == rows[s][table][k]
  IN  Put(s, table, k,
          [name |-> name, val |-> val, modify |-> idx,
           create |-> IF old = NoRow THEN idx ELSE old.create], idx)

\* deleteNodeTxn, deleteTopicTxn, deletePartitionTxn: nothing happens, to the
\* index either, when there is no row.
Delete(s, table, name, idx) ==
  LET k == Key(table, name)
  IN  IF rows[s][table][k] = NoRow
      THEN UNCHANGED <<rows, tindex>>
      ELSE Put(s, table, k, NoRow, idx)

applyRegisterNode(s, cmd, idx) ==
  /\ cmd.op = "register" /\ cmd.table = "nodes"
  /\ Ensure(s, "nodes", cmd.name, cmd.val, idx)

applyDeregisterNode(s, cmd, idx) ==
  /\ cmd.op = "deregister" /\ cmd.table = "nodes"
  /\ Delete(s, "nodes", cmd.name, idx)

applyRegisterTopic(s, cmd, idx) ==
  /\ cmd.op = "register" /\ cmd.table = "topics"
  /\ Ensure(s, "topics", cmd.name, Filled("topics", cmd.val), idx)

applyDeregisterTopic(s, cmd, idx) ==
  /\ cmd.op = "deregister" /\ cmd.table = "topics"
  /\ Delete(s, "topics", cmd.name, idx)

applyRegisterPartition(s, cmd, idx) ==
  /\ cmd.op = "register" /\ cmd.table = "partitions"
  /\ Ensure(s, "partitions", cmd.name, cmd.val, idx)

applyDeregisterPartition(s, cmd, idx) ==
  /\ cmd.op = "deregister" /\ cmd.table = "partitions"
  /\ Delete(s, "partitions", cmd.name, idx)

applyRegisterGroup(s, cmd, idx) ==
  /\ cmd.op = "register" /\ cmd.table = "groups"
  /\ Ensure(s, "groups", cmd.name, cmd.val, idx)

-----------------------------------------------------------------------------
Init ==
  /\ log = <<>>
  /\ applied = [s \in Servers |-> 0]
  /\ rows = [s \in Servers |-> EmptyStore]
  /\ tindex = [s \in Servers |-> EmptyIndex]
  /\ snapIndex = [s \in Servers |-> 0]

\* Raft commits a command, of one of the types registerCommand knows: there is
\* none that deletes a group.
Commit(op, table, name, val) ==
  /\ Len(log) < MaxLog
  /\ ~(op = "deregister" /\ table = "groups")
  /\ log' = Append(log, [op |-> op, table |-> table, name |-> name, val |-> val])
  /\ UNCHANGED <<applied, rows, tindex, snapIndex>>

\* FSM.Apply: the handler of the next entry's type runs with the entry's index.
Apply(s) ==
  /\ applied[s] < Len(log)
  /\ LET idx == applied[s] + 1
         cmd == log[idx]
     IN  /\ \/ applyRegisterNode(s, cmd, idx)
            \/ applyDeregisterNode(s, cmd, idx)
            \/ applyRegisterTopic(s, cmd, idx)
            \/ applyDeregisterTopic(s, cmd, idx)
            \/ applyRegisterPartition(s, cmd, idx)
            \/ applyDeregisterPartition(s, cmd, idx)
            \/ applyRegisterGroup(s, cmd, idx)
         /\ applied' = [applied EXCEPT ![s] = idx]
  /\ UNCHANGED <<log, snapIndex>>

\* FSM.Snapshot and Persist: the header and what the persisters write, of which
\* none is registered.
Snapshot(s) ==
  /\ applied[s] > snapIndex[s]
  /\ snapIndex' = [snapIndex EXCEPT ![s] = applied[s]]
  /\ UNCHANGED <<log, applied, rows, tindex>>

\* FSM.Restore of a snapshot taken at index idx, by this server or, when it has
\* fallen behind, by the leader: a new Store with what the restorers load.
Restore(s, idx) ==
  /\ rows' = [rows EXCEPT ![s] = EmptyStore]
  /\ tindex' = [tindex EXCEPT ![s] = EmptyIndex]
  /\ applied' = [applied EXCEPT ![s] = idx]

\* The broker restarts: fsm.New makes an empty Store, raft restores the last
\* snapshot, if any, and applies the entries after it again.
Restart(s) ==
  /\ Restore(s, snapIndex[s])
  /\ UNCHANGED <<log, snapIndex>>

\* Raft sends the snapshot of leader t to a follower s that needs it.
InstallSnapshot(s, t) ==
  /\ applied[s] < snapIndex[t]
  /\ Restore(s, snapIndex[t])
  /\ snapIndex' = [snapIndex EXCEPT ![s] = snapIndex[t]]
  /\ UNCHANGED log

Next ==
  \/ \E table \in Tables, op \in {"register", "deregister"}, val \in Values :
       \E name \in NamesOf(table) : Commit(op, table, name, val)
  \/ \E s \in Servers : Apply(s)
  \/ \E s \in Servers : Restart(s)

NextSnapshot ==
  \/ Next
  \/ \E s \in Servers : Snapshot(s)
  \/ \E s, t \in Servers : InstallSnapshot(s, t)

Spec == Init /\ [][Next]_vars
SpecSnapshot == Init /\ [][NextSnapshot]_vars

-----------------------------------------------------------------------------
\* Properties

\* The shape of the stores.
TypeOK ==
  /\ log \in Seq(Commands)
  /\ applied \in [Servers -> Nat] /\ \A s \in Servers : applied[s] <= Len(log)
  /\ rows \in [Servers -> [Tables -> [Keys -> Rows \cup {NoRow}]]]
  /\ tindex \in [Servers -> [Tables -> Nat]]
  /\ snapIndex \in [Servers -> Nat]

\* Two brokers that applied the same part of the raft log hold the same rows,
\* whatever restarts lie between: the FSM provides strong consistency.
RowsAgree ==
  \A s, t \in Servers : applied[s] = applied[t] => rows[s] = rows[t]

\* Entry i of the log L is an op on key k of table.
Concerns(L, i, op, table, k) ==
  L[i].op = op /\ L[i].table = table /\ Key(table, L[i].name) = k

\* Entry i registers k, and no entry up to n deregisters it again.
Live(L, i, n, table, k) ==
  /\ Concerns(L, i, "register", table, k)
  /\ \A j \in i .. n : ~Concerns(L, j, "deregister", table, k)

\* What the first n entries of the log L say of key k: its row r has as ModifyIndex
\* the last entry that registered it, with this name and value, and as
\* CreateIndex the first since it was last deregistered; without a row there is
\* no live registration.
RowFromLog(L, r, n, table, k) ==
  IF r = NoRow
  THEN \A i \in 1 .. n : ~Live(L, i, n, table, k)
  ELSE /\ r.create \in 1 .. n /\ r.modify \in r.create .. n
       /\ Live(L, r.create, n, table, k) /\ Live(L, r.modify, n, table, k)
       /\ \A i \in 1 .. r.create - 1 : ~Live(L, i, n, table, k)
       /\ \A i \in r.modify + 1 .. n : ~Concerns(L, i, "register", table, k)
       /\ r.name = L[r.modify].name
       /\ r.val = Filled(table, L[r.modify].val)

\* Every row of every Store, and every missing row, is what the applied part of
\* the raft log says: upserts keep CreateIndex and take the last value, and a
\* registration after a deletion starts afresh.
RowsFromLog ==
  \A s \in Servers, table \in Tables : \A k \in Keys :
    RowFromLog(log, rows[s][table][k], applied[s], table, k)

\* maxIndexTxn: the index a read returns with its rows.
maxIndexTxn(s, table) == tindex[s][table]

\* The index a read returns is at least the ModifyIndex of every row it returns
\* and never runs ahead of the log: a watcher that waits for a greater index
\* does not miss a change.
ReadIndexCovers ==
  \A s \in Servers, table \in Tables :
    /\ maxIndexTxn(s, table) <= applied[s]
    /\ \A k \in Keys : rows[s][table][k] # NoRow =>
         rows[s][table][k].modify <= maxIndexTxn(s, table)

\* A change of a table by an applied entry always moves the table's index
\* forward: a reader that compares indexes sees that there is something new.
IndexMovesWithTable ==
  [][\A s \in Servers, table \in Tables :
       applied'[s] > applied[s] /\ rows'[s][table] # rows[s][table] =>
         tindex'[s][table] > tindex[s][table]]_vars
=============================================================================
