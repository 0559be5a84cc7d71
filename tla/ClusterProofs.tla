--------------------------- MODULE ClusterProofs ----------------------------
(***************************************************************************)
(* How a cluster starts and what its brokers' metadata is.  Brokers that   *)
(* bootstrap cannot form two clusters, for any number of brokers and any   *)
(* flags that Bootstrap's assumptions allow.  The rows of a Store are what *)
(* the applied part of the raft log says, for any number of brokers, names *)
(* and entries, as long as no snapshot is restored; RowFromLog says so of  *)
(* the log as a whole, so the proof needs no induction over it.            *)
(***************************************************************************)
EXTENDS MetadataStore, Bootstrap, FiniteSetTheorems, TLAPS

-----------------------------------------------------------------------------
\* The metadata.

\* Without snapshots a restart applies the log from its beginning, and raft only
\* commits commands that name what their table holds.
LogOK ==
  /\ \A s \in Servers : snapIndex[s] = 0
  /\ \A i \in 1 .. Len(log) : log[i].name \in NamesOf(log[i].table)

IInv == TypeOK /\ LogOK /\ RowsFromLog /\ ReadIndexCovers

\* The row of key k after command cmd, entry idx of the log.
After(table, k, old, cmd, idx) ==
  IF cmd.table = table /\ Key(table, cmd.name) = k
  THEN IF cmd.op = "register"
       THEN [name |-> cmd.name, val |-> Filled(table, cmd.val), modify |-> idx,
             create |-> IF old = NoRow THEN idx ELSE old.create]
       ELSE NoRow
  ELSE old

\* A command's key is a key.
LEMMA KeyType ==
  ASSUME NEW table \in Tables, NEW name \in NamesOf(table)
  PROVE  name \in Keys /\ Key(table, name) \in Keys
  BY LowerAssumption DEF Key, Keys, Tables, NamesOf

\* A topic's value stays a value when its Config is filled in.
LEMMA FilledType ==
  ASSUME NEW table, NEW val \in Values
  PROVE  Filled(table, val) \in Values
  BY ConfigAssumption DEF Filled

\* A write transaction changes one row and one entry of the "index" table.
LEMMA PutEffect ==
  ASSUME TypeOK, NEW s \in Servers, NEW table \in Tables, NEW k \in Keys,
         NEW row \in Rows \cup {NoRow}, NEW idx \in Nat, Put(s, table, k, row, idx)
  PROVE  /\ rows' \in [Servers -> [Tables -> [Keys -> Rows \cup {NoRow}]]]
         /\ tindex' \in [Servers -> [Tables -> Nat]]
         /\ \A t \in Servers \ {s} : rows'[t] = rows[t] /\ tindex'[t] = tindex[t]
         /\ \A T \in Tables, x \in Keys :
              rows'[s][T][x] = IF T = table /\ x = k THEN row ELSE rows[s][T][x]
         /\ \A T \in Tables : T # table => tindex'[s][T] = tindex[s][T] /\ rows'[s][T] = rows[s][T]
         /\ tindex'[s][table] = idx
<1> DEFINE f == [rows[s][table] EXCEPT ![k] = row]
           g == [rows[s] EXCEPT ![table] = f]
           h == [tindex[s] EXCEPT ![table] = idx]
<1>1. rows' = [rows EXCEPT ![s] = g] /\ tindex' = [tindex EXCEPT ![s] = h]
  BY DEF Put
<1>2. rows[s] \in [Tables -> [Keys -> Rows \cup {NoRow}]] /\ tindex[s] \in [Tables -> Nat]
  BY DEF TypeOK
<1>3. rows[s][table] \in [Keys -> Rows \cup {NoRow}]
  BY <1>2
<1>4. f \in [Keys -> Rows \cup {NoRow}] /\ \A x \in Keys : f[x] = IF x = k THEN row ELSE rows[s][table][x]
  BY <1>3
<1> HIDE DEF f
<1>5. /\ g \in [Tables -> [Keys -> Rows \cup {NoRow}]] /\ h \in [Tables -> Nat]
      /\ \A T \in Tables : g[T] = IF T = table THEN f ELSE rows[s][T]
      /\ \A T \in Tables : h[T] = IF T = table THEN idx ELSE tindex[s][T]
  BY <1>2, <1>4
<1> HIDE DEF g, h
<1>6. /\ rows' \in [Servers -> [Tables -> [Keys -> Rows \cup {NoRow}]]]
      /\ tindex' \in [Servers -> [Tables -> Nat]]
      /\ rows'[s] = g /\ tindex'[s] = h
      /\ \A t \in Servers \ {s} : rows'[t] = rows[t] /\ tindex'[t] = tindex[t]
  BY <1>1, <1>5 DEF TypeOK
<1> QED
  BY <1>4, <1>5, <1>6

\* What applying the next entry does, whatever its type.
LEMMA ApplyEffect ==
  ASSUME TypeOK, LogOK, NEW s \in Servers, Apply(s)
  PROVE  LET idx == applied[s] + 1
         IN  /\ idx \in 1 .. Len(log) /\ log[idx] \in Commands
             /\ log' = log /\ snapIndex' = snapIndex
             /\ applied' = [applied EXCEPT ![s] = idx]
             /\ rows' \in [Servers -> [Tables -> [Keys -> Rows \cup {NoRow}]]]
             /\ tindex' \in [Servers -> [Tables -> Nat]]
             /\ \A t \in Servers \ {s} : rows'[t] = rows[t] /\ tindex'[t] = tindex[t]
             /\ \A table \in Tables, k \in Keys :
                  rows'[s][table][k] = After(table, k, rows[s][table][k], log[idx], idx)
             /\ \A table \in Tables :
                  \/ tindex'[s][table] = tindex[s][table] /\ rows'[s][table] = rows[s][table]
                  \/ tindex'[s][table] = idx
<1> DEFINE idx == applied[s] + 1
           cmd == log[idx]
           k0 == Key(cmd.table, cmd.name)
<1>1. /\ idx \in Nat /\ idx \in 1 .. Len(log) /\ log' = log /\ snapIndex' = snapIndex
      /\ applied' = [applied EXCEPT ![s] = idx]
  BY DEF Apply, TypeOK
<1>2. cmd \in Commands
  BY <1>1 DEF TypeOK
<1>3. cmd.table \in Tables /\ cmd.val \in Values /\ cmd.op \in {"register", "deregister"}
  BY <1>2 DEF Commands
<1>4. cmd.name \in NamesOf(cmd.table)
  BY <1>1 DEF LogOK
<1>5. cmd.name \in Keys /\ k0 \in Keys
  BY <1>3, <1>4, KeyType
<1>6. \/ cmd.op = "register" /\ Ensure(s, cmd.table, cmd.name, Filled(cmd.table, cmd.val), idx)
      \/ cmd.op = "deregister" /\ Delete(s, cmd.table, cmd.name, idx)
  BY DEF Apply, applyRegisterNode, applyDeregisterNode, applyRegisterTopic, applyDeregisterTopic,
         applyRegisterPartition, applyDeregisterPartition, applyRegisterGroup, Filled
<1> DEFINE old == rows[s][cmd.table][k0]
           row == After(cmd.table, k0, old, cmd, idx)
<1> HIDE DEF idx, cmd
<1>7. old \in Rows \cup {NoRow}
  BY <1>3, <1>5 DEF TypeOK
<1>8. row \in Rows \cup {NoRow}
  <2>1. CASE cmd.op = "register"
    <3>1. (IF old = NoRow THEN idx ELSE old.create) \in Nat
      BY <1>1, <1>7 DEF Rows
    <3>2. row = [name |-> cmd.name, val |-> Filled(cmd.table, cmd.val), modify |-> idx,
                 create |-> IF old = NoRow THEN idx ELSE old.create]
      BY <2>1 DEF After
    <3>3. Filled(cmd.table, cmd.val) \in Values
      BY <1>3, FilledType
    <3> QED
      BY <1>1, <1>5, <3>1, <3>2, <3>3 DEF Rows
  <2>2. CASE cmd.op = "deregister"
    BY <2>2 DEF After
  <2> QED
    BY <1>3, <2>1, <2>2
<1>9. \/ Put(s, cmd.table, k0, row, idx)
      \/ UNCHANGED <<rows, tindex>> /\ old = NoRow /\ row = NoRow
  <2>1. CASE cmd.op = "register"
    BY <1>6, <2>1 DEF Ensure, After
  <2>2. CASE cmd.op = "deregister"
    BY <1>6, <2>2 DEF Delete, After
  <2> QED
    BY <1>3, <2>1, <2>2
<1>10. \A table \in Tables, k \in Keys :
         After(table, k, rows[s][table][k], cmd, idx)
           = IF table = cmd.table /\ k = k0 THEN row ELSE rows[s][table][k]
  BY DEF After
<1> HIDE DEF old, row, k0
<1>11. CASE Put(s, cmd.table, k0, row, idx)
  <2>1. /\ rows' \in [Servers -> [Tables -> [Keys -> Rows \cup {NoRow}]]]
        /\ tindex' \in [Servers -> [Tables -> Nat]]
        /\ \A t \in Servers \ {s} : rows'[t] = rows[t] /\ tindex'[t] = tindex[t]
        /\ \A T \in Tables, x \in Keys :
             rows'[s][T][x] = IF T = cmd.table /\ x = k0 THEN row ELSE rows[s][T][x]
        /\ \A T \in Tables : T # cmd.table =>
             tindex'[s][T] = tindex[s][T] /\ rows'[s][T] = rows[s][T]
        /\ tindex'[s][cmd.table] = idx
    BY <1>1, <1>3, <1>5, <1>8, <1>11, PutEffect
  <2>2. \A table \in Tables, k \in Keys :
          rows'[s][table][k] = After(table, k, rows[s][table][k], cmd, idx)
    BY <1>10, <2>1
  <2>3. \A table \in Tables :
          \/ tindex'[s][table] = tindex[s][table] /\ rows'[s][table] = rows[s][table]
          \/ tindex'[s][table] = idx
    BY <2>1
  <2> QED
    BY <1>1, <1>2, <2>1, <2>2, <2>3 DEF idx, cmd
<1>12. CASE UNCHANGED <<rows, tindex>> /\ old = NoRow /\ row = NoRow
  <2>1. \A table \in Tables, k \in Keys :
          rows'[s][table][k] = After(table, k, rows[s][table][k], cmd, idx)
    BY <1>10, <1>12 DEF old
  <2> QED
    BY <1>1, <1>2, <1>12, <2>1 DEF idx, cmd, TypeOK
<1> QED
  BY <1>9, <1>11, <1>12

-----------------------------------------------------------------------------
\* RowFromLog.

\* The next entry makes of a row what RowFromLog asks of it.
LEMMA RowFromLogApply ==
  ASSUME TypeOK, NEW n \in Nat, n + 1 <= Len(log), NEW table \in Tables, NEW k \in Keys,
         NEW r \in Rows \cup {NoRow}, RowFromLog(log, r, n, table, k)
  PROVE  RowFromLog(log, After(table, k, r, log[n + 1], n + 1), n + 1, table, k)
<1> DEFINE cmd == log[n + 1]
           m == n + 1
           Dereg(i) == Concerns(log, i, "deregister", table, k)
           Reg(i) == Concerns(log, i, "register", table, k)
<1>1. cmd.op \in {"register", "deregister"} /\ cmd \in Commands
  <2>1. m \in 1 .. Len(log)
    BY DEF TypeOK
  <2>2. cmd \in Commands
    BY <2>1 DEF TypeOK
  <2> QED
    BY <2>2 DEF Commands
<1>2. r # NoRow => r.create \in Nat /\ r.modify \in Nat
  BY DEF Rows
<1>3. \A i \in Nat : i <= n => (Live(log, i, m, table, k) <=> Live(log, i, n, table, k) /\ ~Dereg(m))
  BY DEF Live
<1>4. Live(log, m, m, table, k) <=> Reg(m)
  BY DEF Live, Concerns
<1>5. CASE Reg(m)
  <2>1. ~Dereg(m) /\ After(table, k, r, cmd, m)
           = [name |-> cmd.name, val |-> Filled(table, cmd.val), modify |-> m,
              create |-> IF r = NoRow THEN m ELSE r.create]
    BY <1>5 DEF After, Concerns
  <2>2. After(table, k, r, cmd, m) # NoRow
    <3>1. cmd.name \in Keys /\ Filled(table, cmd.val) \in Values
      BY <1>1, FilledType DEF Commands
    <3>2. (IF r = NoRow THEN m ELSE r.create) \in Nat
      BY <1>2
    <3> QED
      BY <2>1, <3>1, <3>2, NoRowAssumption DEF Rows
  <2>3. CASE r = NoRow
    <3>1. \A i \in 1 .. n : ~Live(log, i, m, table, k)
      BY <1>3, <2>3 DEF RowFromLog
    <3> QED
      BY <1>4, <1>5, <2>1, <2>2, <2>3, <3>1 DEF RowFromLog
  <2>4. CASE r # NoRow
    <3>1. r.create \in 1 .. n /\ Live(log, r.create, m, table, k)
      BY <1>2, <1>3, <2>1, <2>4 DEF RowFromLog
    <3>2. \A i \in 1 .. r.create - 1 : ~Live(log, i, m, table, k)
      BY <1>2, <1>3, <2>4, <3>1 DEF RowFromLog
    <3> QED
      BY <1>4, <1>5, <2>1, <2>2, <2>4, <3>1, <3>2 DEF RowFromLog
  <2> QED
    BY <2>3, <2>4
<1>6. CASE Dereg(m)
  <2>1. After(table, k, r, cmd, m) = NoRow
    BY <1>6 DEF After, Concerns
  <2>2. \A i \in 1 .. m : ~Live(log, i, m, table, k)
    BY <1>6 DEF Live
  <2> QED
    BY <2>1, <2>2 DEF RowFromLog
<1>7. CASE ~Reg(m) /\ ~Dereg(m)
  <2>1. After(table, k, r, cmd, m) = r
    BY <1>1, <1>7 DEF After, Concerns
  <2>2. CASE r = NoRow
    BY <1>3, <1>4, <1>7, <2>1, <2>2 DEF RowFromLog
  <2>3. CASE r # NoRow
    BY <1>2, <1>3, <1>4, <1>7, <2>1, <2>3 DEF RowFromLog
  <2> QED
    BY <2>2, <2>3
<1> QED
  BY <1>5, <1>6, <1>7

\* Entries after the n-th do not matter to the first n.
LEMMA RowFromLogExtends ==
  ASSUME NEW L, NEW M, NEW n \in Nat, NEW table, NEW k, NEW r \in Rows \cup {NoRow},
         \A i \in 1 .. n : M[i] = L[i], RowFromLog(L, r, n, table, k)
  PROVE  RowFromLog(M, r, n, table, k)
<1>1. \A i \in 1 .. n : \A op : Concerns(M, i, op, table, k) <=> Concerns(L, i, op, table, k)
  BY DEF Concerns
<1>2. \A i \in 1 .. n : Live(M, i, n, table, k) <=> Live(L, i, n, table, k)
  BY <1>1 DEF Live
<1>3. CASE r = NoRow
  BY <1>2, <1>3 DEF RowFromLog
<1>4. CASE r # NoRow
  <2>1. r.create \in Nat /\ r.modify \in Nat
    BY <1>4 DEF Rows
  <2>2. r.create \in 1 .. n /\ r.modify \in 1 .. n
    BY <1>4, <2>1 DEF RowFromLog
  <2> QED
    BY <1>1, <1>2, <1>4, <2>1, <2>2 DEF RowFromLog
<1> QED
  BY <1>3, <1>4

\* The log determines the row, so that RowsFromLog leaves a Store no choice.
LEMMA RowFromLogUnique ==
  ASSUME NEW L, NEW n \in Nat, NEW table, NEW k,
         NEW r \in Rows \cup {NoRow}, NEW q \in Rows \cup {NoRow},
         RowFromLog(L, r, n, table, k), RowFromLog(L, q, n, table, k)
  PROVE  r = q
<1>1. CASE r = NoRow \/ q = NoRow
  <2>1. \A x \in Rows \cup {NoRow} : x # NoRow => x.create \in Nat
    BY DEF Rows
  <2> QED
    BY <1>1, <2>1 DEF RowFromLog
<1>2. CASE r # NoRow /\ q # NoRow
  <2>1. /\ r.create \in Nat /\ r.modify \in Nat /\ q.create \in Nat /\ q.modify \in Nat
    BY <1>2 DEF Rows
  <2>2. r.create = q.create
    BY <1>2, <2>1 DEF RowFromLog
  <2>3. r.modify = q.modify
    BY <1>2, <2>1 DEF RowFromLog, Live
  <2>4. r.name = q.name /\ r.val = q.val
    BY <1>2, <2>3 DEF RowFromLog
  <2> QED
    BY <1>2, <2>2, <2>3, <2>4 DEF Rows
<1> QED
  BY <1>1, <1>2

-----------------------------------------------------------------------------
\* The invariant.

\* A broker's first Store is empty, as is the log.
LEMMA InitIInv == Init => IInv
<1> SUFFICES ASSUME Init PROVE IInv
  OBVIOUS
<1>1. log = <<>> /\ Len(log) = 0 /\ log \in Seq(Commands)
  BY DEF Init
<1>2. TypeOK
  BY <1>1 DEF Init, TypeOK, EmptyStore, EmptyIndex
<1>3. LogOK /\ RowsFromLog /\ ReadIndexCovers
  BY <1>1 DEF Init, LogOK, RowsFromLog, RowFromLog, ReadIndexCovers, maxIndexTxn, EmptyStore, EmptyIndex
<1> QED
  BY <1>2, <1>3 DEF IInv

\* A row of a store, when there is one, has its indexes.
LEMMA RowIndexes ==
  ASSUME TypeOK, NEW s \in Servers, NEW table \in Tables, NEW k \in Keys
  PROVE  /\ rows[s][table][k] \in Rows \cup {NoRow}
         /\ rows[s][table][k] # NoRow =>
              rows[s][table][k].create \in Nat /\ rows[s][table][k].modify \in Nat
  BY DEF TypeOK, Rows

\* A new entry changes nothing that is applied.
LEMMA CommitIInv ==
  ASSUME IInv, NEW table \in Tables, NEW op \in {"register", "deregister"}, NEW val \in Values,
         NEW name \in NamesOf(table), Commit(op, table, name, val)
  PROVE  IInv'
<1> DEFINE c == [op |-> op, table |-> table, name |-> name, val |-> val]
<1>1. c \in Commands
  BY KeyType DEF Commands
<1>2. log' = Append(log, c) /\ UNCHANGED <<applied, rows, tindex, snapIndex>>
  BY DEF Commit
<1>3. /\ log' \in Seq(Commands) /\ Len(log') = Len(log) + 1
      /\ log'[Len(log) + 1] = c /\ \A i \in 1 .. Len(log) : log'[i] = log[i]
  BY <1>1, <1>2 DEF IInv, TypeOK
<1>4. TypeOK'
  BY <1>2, <1>3 DEF IInv, TypeOK
<1>5. LogOK'
  <2>1. c.name \in NamesOf(c.table)
    OBVIOUS
  <2> QED
    BY <1>2, <1>3, <2>1 DEF IInv, LogOK, TypeOK
<1>6. RowsFromLog'
  <2> SUFFICES ASSUME NEW s \in Servers, NEW T \in Tables, NEW k \in Keys
               PROVE  RowFromLog(log', rows[s][T][k], applied[s], T, k)
    BY <1>2 DEF RowsFromLog
  <2>1. RowFromLog(log, rows[s][T][k], applied[s], T, k)
    BY DEF IInv, RowsFromLog
  <2>2. applied[s] \in Nat /\ applied[s] <= Len(log)
    BY DEF IInv, TypeOK
  <2>3. \A i \in 1 .. applied[s] : log'[i] = log[i]
    BY <1>3, <2>2 DEF IInv, TypeOK
  <2> QED
    BY <2>1, <2>2, <2>3, RowIndexes, RowFromLogExtends, Zenon DEF IInv
<1>7. ReadIndexCovers'
  BY <1>2 DEF IInv, ReadIndexCovers, maxIndexTxn
<1> QED
  BY <1>4, <1>5, <1>6, <1>7 DEF IInv

\* FSM.Apply carries the invariant to the next entry.
LEMMA ApplyIInv ==
  ASSUME IInv, NEW s \in Servers, Apply(s)
  PROVE  IInv'
<1> DEFINE idx == applied[s] + 1
<1>1. /\ idx \in 1 .. Len(log) /\ log' = log /\ snapIndex' = snapIndex
      /\ applied' = [applied EXCEPT ![s] = idx]
      /\ rows' \in [Servers -> [Tables -> [Keys -> Rows \cup {NoRow}]]]
      /\ tindex' \in [Servers -> [Tables -> Nat]]
      /\ \A t \in Servers \ {s} : rows'[t] = rows[t] /\ tindex'[t] = tindex[t]
      /\ \A table \in Tables, k \in Keys :
           rows'[s][table][k] = After(table, k, rows[s][table][k], log[idx], idx)
      /\ \A table \in Tables :
           \/ tindex'[s][table] = tindex[s][table] /\ rows'[s][table] = rows[s][table]
           \/ tindex'[s][table] = idx
  BY ApplyEffect DEF IInv
<1>2. applied[s] \in Nat /\ idx \in Nat /\ idx <= Len(log)
  BY <1>1 DEF IInv, TypeOK
<1>3. TypeOK'
  BY <1>1, <1>2 DEF IInv, TypeOK
<1>4. LogOK'
  BY <1>1 DEF IInv, LogOK
<1>5. ASSUME NEW t \in Servers, NEW T \in Tables, NEW k \in Keys
      PROVE  RowFromLog(log, rows'[t][T][k], applied'[t], T, k)
  <2>1. RowFromLog(log, rows[t][T][k], applied[t], T, k)
    BY DEF IInv, RowsFromLog
  <2>2. CASE t = s
    <3>1. RowFromLog(log, After(T, k, rows[s][T][k], log[idx], idx), idx, T, k)
      BY <1>2, <2>1, <2>2, RowFromLogApply, RowIndexes DEF IInv
    <3>2. applied'[s] = idx
      BY <1>1 DEF IInv, TypeOK
    <3> QED
      BY <1>1, <2>2, <3>1, <3>2
  <2>3. CASE t # s
    <3>1. rows'[t] = rows[t] /\ applied'[t] = applied[t]
      BY <1>1, <2>3 DEF IInv, TypeOK
    <3> QED
      BY <2>1, <3>1
  <2> QED
    BY <2>2, <2>3
<1>6. RowsFromLog'
  BY <1>1, <1>5 DEF RowsFromLog
<1>7. ReadIndexCovers'
  <2> SUFFICES ASSUME NEW t \in Servers, NEW T \in Tables
               PROVE  /\ tindex'[t][T] <= applied'[t]
                      /\ \A k \in Keys : rows'[t][T][k] # NoRow => rows'[t][T][k].modify <= tindex'[t][T]
    BY DEF ReadIndexCovers, maxIndexTxn
  <2>1. /\ tindex[t][T] \in Nat /\ tindex[t][T] <= applied[t]
        /\ \A k \in Keys : rows[t][T][k] # NoRow => rows[t][T][k].modify <= tindex[t][T]
    BY DEF IInv, ReadIndexCovers, maxIndexTxn, TypeOK
  <2>2. CASE t = s
    <3>1. applied'[s] = idx
      BY <1>1 DEF IInv, TypeOK
    <3>2. CASE tindex'[s][T] = tindex[s][T] /\ rows'[s][T] = rows[s][T]
      BY <1>2, <2>1, <2>2, <3>1, <3>2
    <3>3. CASE tindex'[s][T] = idx
      <4> SUFFICES ASSUME NEW k \in Keys, rows'[s][T][k] # NoRow
                   PROVE  rows'[s][T][k].modify <= idx
        BY <1>2, <2>2, <3>1, <3>3
      <4>1. RowFromLog(log, rows'[s][T][k], applied'[s], T, k)
        BY <1>5
      <4>2. rows'[s][T][k].create \in Nat /\ rows'[s][T][k].modify \in Nat
        BY <1>1 DEF Rows
      <4>3. rows'[s][T][k].modify \in rows'[s][T][k].create .. applied'[s]
        BY <4>1, Zenon DEF RowFromLog
      <4> QED
        BY <1>2, <3>1, <4>2, <4>3
    <3> QED
      BY <1>1, <3>2, <3>3
  <2>3. CASE t # s
    <3>1. rows'[t] = rows[t] /\ applied'[t] = applied[t] /\ tindex'[t] = tindex[t]
      BY <1>1, <2>3 DEF IInv, TypeOK
    <3> QED
      BY <2>1, <3>1
  <2> QED
    BY <2>2, <2>3
<1> QED
  BY <1>3, <1>4, <1>6, <1>7 DEF IInv

\* A restart without a snapshot starts from the empty Store and the empty log.
LEMMA RestartIInv ==
  ASSUME IInv, NEW s \in Servers, Restart(s)
  PROVE  IInv'
<1>1. /\ log' = log /\ snapIndex' = snapIndex
      /\ rows' = [rows EXCEPT ![s] = EmptyStore]
      /\ tindex' = [tindex EXCEPT ![s] = EmptyIndex]
      /\ applied' = [applied EXCEPT ![s] = 0]
  BY Zenon DEF Restart, Restore, IInv, LogOK
<1>2. /\ EmptyStore \in [Tables -> [Keys -> Rows \cup {NoRow}]] /\ EmptyIndex \in [Tables -> Nat]
      /\ \A T \in Tables, k \in Keys : EmptyStore[T][k] = NoRow
      /\ \A T \in Tables : EmptyIndex[T] = 0
  BY DEF EmptyStore, EmptyIndex
<1>3. TypeOK' /\ LogOK'
  BY <1>1, <1>2 DEF IInv, TypeOK, LogOK
<1>4. ASSUME NEW t \in Servers
      PROVE  \/ applied'[t] = 0 /\ rows'[t] = EmptyStore /\ tindex'[t] = EmptyIndex
             \/ applied'[t] = applied[t] /\ rows'[t] = rows[t] /\ tindex'[t] = tindex[t]
  BY <1>1 DEF IInv, TypeOK
<1>5. ASSUME NEW t \in Servers, NEW T \in Tables, NEW k \in Keys
      PROVE  RowFromLog(log, rows'[t][T][k], applied'[t], T, k)
  <2>1. RowFromLog(log, NoRow, 0, T, k)
    BY DEF RowFromLog
  <2>2. RowFromLog(log, rows[t][T][k], applied[t], T, k)
    BY DEF IInv, RowsFromLog
  <2>3. CASE applied'[t] = 0 /\ rows'[t] = EmptyStore
    BY <1>2, <2>1, <2>3
  <2>4. CASE applied'[t] = applied[t] /\ rows'[t] = rows[t]
    BY <2>2, <2>4
  <2> QED
    BY <1>4, <2>3, <2>4
<1>6. RowsFromLog'
  BY <1>1, <1>5 DEF RowsFromLog
<1>7. ReadIndexCovers'
  BY <1>2, <1>4 DEF IInv, ReadIndexCovers, maxIndexTxn
<1> QED
  BY <1>3, <1>6, <1>7 DEF IInv

\* The inductive invariant: every Store is what its part of the log says.
THEOREM IInvariant == Spec => []IInv
<1>1. IInv /\ [Next]_vars => IInv'
  <2> SUFFICES ASSUME IInv, [Next]_vars PROVE IInv'
    OBVIOUS
  <2>1. CASE UNCHANGED vars
    <3>1. TypeOK' /\ LogOK' /\ ReadIndexCovers'
      BY <2>1 DEF vars, IInv, TypeOK, LogOK, ReadIndexCovers, maxIndexTxn
    <3>2. RowsFromLog'
      BY <2>1 DEF vars, IInv, RowsFromLog
    <3> QED
      BY <3>1, <3>2 DEF IInv
  <2> QED
    BY <2>1, CommitIInv, ApplyIInv, RestartIInv DEF Next
<1> QED
  BY <1>1, InitIInv, PTL DEF Spec

\* Every row, its value, CreateIndex and ModifyIndex, is determined by the
\* applied part of the log, as Ensure and Delete promise.
THEOREM RowsFromLogAlways == Spec => []RowsFromLog
<1>1. IInv => RowsFromLog
  BY DEF IInv
<1> QED
  BY <1>1, IInvariant, PTL

\* The index a read returns covers the rows it returns and stays within the
\* applied part of the log.
THEOREM ReadIndexCoversAlways == Spec => []ReadIndexCovers
<1>1. IInv => ReadIndexCovers
  BY DEF IInv
<1> QED
  BY <1>1, IInvariant, PTL
-----------------------------------------------------------------------------
\* The index of a table, step by step.

\* The entry that changes a table gives it its own index, which is greater than
\* that of every entry applied before.
LEMMA ApplyMovesIndex ==
  ASSUME IInv, NEW s \in Servers, Apply(s), NEW t \in Servers, NEW T \in Tables,
         rows'[t][T] # rows[t][T]
  PROVE  tindex'[t][T] > tindex[t][T]
<1> DEFINE idx == applied[s] + 1
<1>1. /\ \A u \in Servers \ {s} : rows'[u] = rows[u]
      /\ \/ tindex'[s][T] = tindex[s][T] /\ rows'[s][T] = rows[s][T]
         \/ tindex'[s][T] = idx
  BY ApplyEffect DEF IInv
<1>2. t = s /\ tindex'[s][T] = idx
  BY <1>1
<1>3. tindex[s][T] \in Nat /\ applied[s] \in Nat /\ tindex[s][T] <= applied[s]
  BY DEF IInv, TypeOK, ReadIndexCovers, maxIndexTxn
<1> QED
  BY <1>2, <1>3

\* A change of a table by an applied entry moves the table's index forward: a
\* watcher that compares the indexes of two reads learns of every change.
THEOREM IndexMoves == Spec => IndexMovesWithTable
<1> DEFINE Moves == \A s \in Servers, table \in Tables :
                      applied'[s] > applied[s] /\ rows'[s][table] # rows[s][table] =>
                        tindex'[s][table] > tindex[s][table]
<1>1. IInv /\ [Next]_vars => [Moves]_vars
  <2> SUFFICES ASSUME IInv, Next, NEW t \in Servers, NEW T \in Tables,
                      applied'[t] > applied[t], rows'[t][T] # rows[t][T]
               PROVE  tindex'[t][T] > tindex[t][T]
    OBVIOUS
  <2>1. ASSUME NEW s \in Servers, Restart(s) PROVE FALSE
    <3>1. applied' = [applied EXCEPT ![s] = 0] /\ applied \in [Servers -> Nat]
      BY <2>1 DEF Restart, Restore, IInv, LogOK, TypeOK
    <3> QED
      BY <3>1
  <2>2. ASSUME NEW table \in Tables, NEW op, NEW val, NEW name, Commit(op, table, name, val)
        PROVE  FALSE
    BY <2>2 DEF Commit
  <2> QED
    BY <2>1, <2>2, ApplyMovesIndex DEF Next
<1> HIDE DEF Moves
<1>2. Spec => [][Moves]_vars
  BY <1>1, IInvariant, PTL DEF Spec
<1> QED
  BY <1>2 DEF Moves, IndexMovesWithTable

-----------------------------------------------------------------------------
\* Bootstrap.

\* What a broker wrote has the number of brokers it expected and none in
\* bootstrap mode, unless it is in bootstrap mode itself.
Written(b) ==
  \/ configuration[b] = {}
  \/ b \in setup.mode /\ configuration[b] = {b}
  \/ Cardinality(configuration[b]) >= setup.count /\ configuration[b] \cap setup.mode = {}

\* The inductive invariant.
BootstrapInv ==
  /\ BootstrapTypeOK
  /\ \A b \in Brokers : BootstrapExpect[b] \in {0, setup.expect[b]}
  /\ \A b \in Brokers : Written(b)

\* The flags of a setup, as the assumptions give them.
LEMMA SetupFacts ==
  ASSUME NEW s \in Setups
  PROVE  /\ s.expect \in [Brokers -> Nat]
         /\ s.count \in Nat \ {0}
         /\ s.mode = {} \/ \E b \in Brokers : s.mode = {b}
         /\ \A b \in Brokers : s.expect[b] = 0 \/ s.expect[b] >= s.count
  BY SetupsAssumption DEF SetupType

\* A majority of at least n brokers, doubled, is more than n.
LEMMA MajoritySize ==
  ASSUME NEW S \in SUBSET Brokers, NEW n \in Nat, Cardinality(S) >= n,
         NEW Q \in Majorities(S)
  PROVE  /\ Q \subseteq Brokers /\ IsFiniteSet(Q) /\ Cardinality(Q) \in Nat
         /\ Cardinality(Q) >= n \div 2 + 1
  <1>1. Q \subseteq S /\ 2 * Cardinality(Q) > Cardinality(S)
    BY DEF Majorities
  <1>2. IsFiniteSet(S) /\ IsFiniteSet(Q) /\ Q \subseteq Brokers
    BY <1>1, BrokersAssumption, FS_Subset
  <1>3. Cardinality(S) \in Nat /\ Cardinality(Q) \in Nat
    BY <1>2, FS_CardinalityType
  <1>4. 2 * Cardinality(Q) > n
    BY <1>1, <1>3
  <1> QED
    BY <1>2, <1>3, <1>4

\* InitBootstrap establishes the invariant.
LEMMA InitBootstrapInv == InitBootstrap => BootstrapInv
  <1> SUFFICES ASSUME InitBootstrap PROVE BootstrapInv
    OBVIOUS
  <1>1. setup \in Setups
    BY DEF InitBootstrap
  <1>2. BootstrapTypeOK
    BY <1>1, SetupFacts DEF InitBootstrap, BootstrapTypeOK
  <1>3. \A b \in Brokers : Written(b)
    BY DEF InitBootstrap, Written
  <1> QED
    BY <1>2, <1>3 DEF InitBootstrap, BootstrapInv

\* Every step keeps it: only BootstrapCluster writes a configuration, and it
\* does so with a number that is the broker's flag.
LEMMA NextBootstrapInv == BootstrapInv /\ [NextBootstrap]_bootstrapVars => BootstrapInv'
  <1> SUFFICES ASSUME BootstrapInv, [NextBootstrap]_bootstrapVars PROVE BootstrapInv'
    OBVIOUS
  <1> USE DEF BootstrapInv
  <1>0. setup \in Setups /\ setup.expect \in [Brokers -> Nat] /\ setup.count \in Nat \ {0}
    BY SetupFacts DEF BootstrapTypeOK
  <1>1. CASE UNCHANGED bootstrapVars
    BY <1>1 DEF bootstrapVars, BootstrapTypeOK, Written
  <1>2. ASSUME NEW b \in Brokers, NEW c \in Brokers, Discover(b, c)
        PROVE  BootstrapInv'
    <2>1. BootstrapTypeOK'
      BY <1>2 DEF Discover, BootstrapTypeOK
    <2> QED
      BY <1>2, <2>1 DEF Discover, Written
  <1>3. ASSUME NEW b \in Brokers, NEW c \in Brokers, RaftReplicate(b, c)
        PROVE  BootstrapInv'
    <2>1. BootstrapTypeOK'
      BY <1>3 DEF RaftReplicate, BootstrapTypeOK
    <2> QED
      BY <1>3, <2>1 DEF RaftReplicate, Written
  <1>4. ASSUME NEW b \in Brokers, RestartBroker(b)
        PROVE  BootstrapInv'
    <2>1. BootstrapTypeOK'
      BY <1>0, <1>4 DEF RestartBroker, BootstrapTypeOK
    <2>2. \A x \in Brokers : BootstrapExpect'[x] \in {0, setup.expect[x]}
      BY <1>4 DEF RestartBroker, BootstrapTypeOK
    <2>3. UNCHANGED <<setup, configuration>>
      BY <1>4 DEF RestartBroker
    <2>4. \A x \in Brokers : Written(x)'
      BY <2>3 DEF Written
    <2> QED
      BY <1>0, <2>1, <2>2, <2>3, <2>4
  <1>5. ASSUME NEW b \in Brokers, LanNodeJoin(b)
        PROVE  BootstrapInv'
    <2>0. joins' \in [Brokers -> Nat] /\ UNCHANGED <<setup, members>>
      BY <1>5 DEF LanNodeJoin, BootstrapTypeOK
    <2>1. CASE UNCHANGED <<BootstrapExpect, raftLog, configuration, erred, faults>>
      BY <2>0, <2>1 DEF BootstrapTypeOK, Written
    <2>2. CASE RaftDataFound(b)
      <3>1. BootstrapTypeOK'
        BY <2>0, <2>2 DEF RaftDataFound, BootstrapTypeOK
      <3>2. \A x \in Brokers : BootstrapExpect'[x] \in {0, setup.expect[x]}
        BY <2>2 DEF RaftDataFound, BootstrapTypeOK
      <3> QED
        BY <2>0, <2>2, <3>1, <3>2 DEF RaftDataFound, Written
    <2>3. CASE NotYet(b)
      BY <2>0, <2>3 DEF NotYet, BootstrapTypeOK, Written
    <2>4. CASE BootstrapCluster(b) /\ BootstrapExpect[b] # 0
      <3>1. BootstrapTypeOK'
        BY <2>0, <2>4 DEF BootstrapCluster, BootstrapTypeOK
      <3>2. \A x \in Brokers : BootstrapExpect'[x] \in {0, setup.expect[x]}
        BY <2>4 DEF BootstrapCluster, BootstrapTypeOK
      <3>3. IsFiniteSet(members[b]) /\ Cardinality(members[b]) \in Nat
        BY BrokersAssumption, FS_Subset, FS_CardinalityType DEF BootstrapTypeOK
      <3>4. Cardinality(members[b]) >= setup.count
        <4>1. BootstrapExpect[b] = setup.expect[b] /\ setup.expect[b] >= setup.count
          BY <1>0, <2>4, SetupFacts
        <4>2. Cardinality(members[b]) >= BootstrapExpect[b]
          BY <2>4 DEF BootstrapCluster, Expected
        <4> QED
          BY <1>0, <3>3, <4>1, <4>2
      <3>5. members[b] \cap setup.mode = {}
        BY <2>4 DEF BootstrapCluster, Conflict
      <3>6. configuration'[b] = members[b]
        BY <2>4 DEF BootstrapCluster, BootstrapTypeOK
      <3>7. \A x \in Brokers \ {b} : configuration'[x] = configuration[x]
        BY <2>4 DEF BootstrapCluster, BootstrapTypeOK
      <3>8. ASSUME NEW x \in Brokers PROVE Written(x)'
        BY <2>0, <3>4, <3>5, <3>6, <3>7 DEF Written
      <3> QED
        BY <2>0, <3>1, <3>2, <3>8
    <2>5. CASE BootstrapError(b)
      <3>1. BootstrapTypeOK'
        BY <2>0, <2>5 DEF BootstrapError, BootstrapTypeOK
      <3>2. \A x \in Brokers : BootstrapExpect'[x] \in {0, setup.expect[x]}
        BY <2>5 DEF BootstrapError, BootstrapTypeOK
      <3>3. UNCHANGED <<setup, configuration>>
        BY <2>0, <2>5 DEF BootstrapError
      <3>4. \A x \in Brokers : Written(x)'
        BY <3>3 DEF Written
      <3> QED
        BY <2>0, <3>1, <3>2, <3>3, <3>4
    <2> QED
      BY <1>5, <2>1, <2>2, <2>3, <2>4, <2>5 DEF LanNodeJoin, maybeBootstrap
  <1> QED
    BY <1>1, <1>2, <1>3, <1>4, <1>5 DEF NextBootstrap

\* Without a broker in bootstrap mode two majorities of the expected number
\* are more than all the brokers together; with one, no other broker ever sees
\* enough members.
LEMMA QuorumsFollow == BootstrapInv => QuorumsIntersect
  <1> SUFFICES ASSUME BootstrapInv, NEW b \in Brokers, NEW c \in Brokers,
                      NEW P \in Majorities(configuration[b]),
                      NEW Q \in Majorities(configuration[c])
               PROVE  P \cap Q # {}
    BY DEF QuorumsIntersect
  <1> USE DEF BootstrapInv
  <1> DEFINE N == Cardinality(Brokers)
  <1>0. /\ setup \in Setups /\ setup.count \in Nat \ {0} /\ N \in Nat
        /\ configuration[b] \in SUBSET Brokers /\ configuration[c] \in SUBSET Brokers
    BY SetupFacts, BrokersAssumption, FS_CardinalityType DEF BootstrapTypeOK
  <1>1. ASSUME NEW x \in Brokers, NEW M \in Majorities(configuration[x])
        PROVE  configuration[x] # {} /\ M # {}
    <2>1. M \subseteq configuration[x] /\ 2 * Cardinality(M) > Cardinality(configuration[x])
      BY DEF Majorities
    <2>2. IsFiniteSet(configuration[x]) /\ Cardinality(configuration[x]) \in Nat
      BY BrokersAssumption, FS_Subset, FS_CardinalityType DEF BootstrapTypeOK
    <2>3. M # {}
      <3>1. SUFFICES ASSUME M = {} PROVE FALSE
        OBVIOUS
      <3>2. Cardinality(M) = 0
        BY <3>1, FS_EmptySet
      <3> QED
        BY <2>1, <2>2, <3>2
    <2> QED
      BY <2>1, <2>3
  <1>2. CASE setup.mode = {}
    <2>1. Cardinality(configuration[b]) >= setup.count /\ Cardinality(configuration[c]) >= setup.count
      BY <1>1, <1>2 DEF Written
    <2>2. /\ P \subseteq Brokers /\ IsFiniteSet(P) /\ Cardinality(P) \in Nat
          /\ Cardinality(P) >= setup.count \div 2 + 1
      BY <1>0, <2>1, MajoritySize
    <2>3. /\ Q \subseteq Brokers /\ IsFiniteSet(Q) /\ Cardinality(Q) \in Nat
          /\ Cardinality(Q) >= setup.count \div 2 + 1
      BY <1>0, <2>1, MajoritySize
    <2>4. N < 2 * (setup.count \div 2 + 1)
      BY <1>0, <1>2, CountAssumption
    <2>5. Cardinality(P) + Cardinality(Q) > N
      BY <1>0, <2>2, <2>3, <2>4
    <2> QED
      BY <2>2, <2>3, <2>5, BrokersAssumption, FS_MajoritiesIntersect
  <1>3. CASE setup.mode # {}
    <2>1. PICK m \in Brokers : setup.mode = {m}
      BY <1>0, <1>3, SetupFacts
    <2>2. N <= setup.count
      BY <1>0, <1>3, CountAssumption
    <2>3. ASSUME NEW x \in Brokers, configuration[x] # {}
          PROVE  configuration[x] = {m}
      <3>1. SUFFICES ASSUME Cardinality(configuration[x]) >= setup.count, m \notin configuration[x]
                     PROVE  FALSE
        BY <2>1, <2>3 DEF Written
      <3>2. configuration[x] \subseteq Brokers /\ configuration[x] # Brokers
        BY <3>1 DEF BootstrapTypeOK
      <3>3. Cardinality(configuration[x]) \in Nat /\ Cardinality(configuration[x]) < N
        BY <1>0, <3>2, BrokersAssumption, FS_Subset, FS_CardinalityType
      <3> QED
        BY <1>0, <2>2, <3>1, <3>3
    <2>4. P = {m} /\ Q = {m}
      <3>1. P \subseteq {m} /\ Q \subseteq {m}
        BY <1>1, <2>3 DEF Majorities
      <3> QED
        BY <1>1, <3>1
    <2> QED
      BY <2>4
  <1> QED
    BY <1>2, <1>3

\* For any number of brokers, whatever they saw of each other when
\* maybeBootstrap ran at each of them, any two majorities of the configurations
\* they wrote have a broker in common.
THEOREM QuorumsAlwaysIntersect == SpecBootstrap => []QuorumsIntersect
  <1> QED
    BY InitBootstrapInv, NextBootstrapInv, QuorumsFollow, PTL DEF SpecBootstrap
=============================================================================
