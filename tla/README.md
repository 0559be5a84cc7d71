# A TLA+ model of Jocko

Jocko is a Kafka-compatible broker in Go. A cluster of brokers finds its members
with Serf, agrees on metadata with Raft, keeps every partition in a commit log of
segment files and speaks Kafka's binary protocol. This directory holds a TLA+
model of its parts, the TLC configurations that check it on small instances, and
TLAPS proofs of its central invariants. `PROJECT.json` maps every definition to
the lines of `src/` it models and lists runs, mutants, findings, hazards and
theorems.

## The system and its parts

| part | source | model | state of the model |
|---|---|---|---|
| commit log: append, split, retention, restart | `commitlog/commitlog.go`, `delete_cleaner.go` | `CommitLog` (abstract: `PartitionLog`, mapping: `CommitLogRefinement`) | done, but `Close` and `Delete` of a log; `Truncate` is in `Replication` |
| compaction | `commitlog/compact_cleaner.go` | `CompactedLog` | done, for one message per message set |
| segment algorithms: index rebuild, lookups | `commitlog/segment.go`, `index.go`, `util.go` | `SegmentFile` | done |
| reader | `commitlog/reader.go` | `LogReader` | done, for a log that is not cleaned |
| metadata store (Raft FSM) | `jocko/fsm/` | `MetadataStore` | done on generic rows |
| raft leadership of a broker | `jocko/leader.go` | `Leadership` | done |
| first raft configuration | `jocko/serf.go`, `broker.go` | `Bootstrap` | done |
| controller: membership, topics, failover | `jocko/leader.go`, `serf.go`, `broker_lookup.go`, `broker.go` | `Controller` | done for a leader that stays leader |
| replicas, produce, fetch, offsets, replicator | `jocko/broker.go`, `replicator.go`, `replica_lookup.go` | `Replication` | done for one partition, on its abstract log |
| consumer groups | `jocko/broker.go`, `leader.go` | `Groups` | done, but `handleFindCoordinator` |
| wire protocol | `protocol/` | `Wire`, `Messages`, `ProtocolCodec` | done, but the CRC of record batches |
| client connection, server queues, request loop | `jocko/conn.go`, `server.go`, `broker.go` | `Connection` | done for one connection; no shutdown of the server |
| dialer, configuration tables, logging, test support, examples | | – | see "Not modelled" |

How they interact: a client's request travels through `Server.handleRequest` and
`requestCh` to `Broker.Run`, which handles one request after another and answers
through `responseCh`. Produce and fetch requests go to the commit log of a replica.
Topic and group requests write to the metadata store through Raft, which only takes
them at its leader, the controller; every broker's FSM applies them. The controller
tells the brokers of their replicas with LeaderAndISR requests over a `Conn`, and a
broker that follows runs a `Replicator` that fetches from the leader. Serf's
membership events reach the controller through `lanEventHandler` and `reconcileCh`;
it keeps the raft configuration and the nodes table in step with them and replaces
failed leaders and coordinators. Before there is a Raft, the same events make a broker
bootstrap one.

## Modules

**`SegmentFile`** holds the pure algorithms of a segment: `BuildIndex`, `FindEntry`
(the bisection over the memory-mapped index, which reads entries not written yet)
and `FindSegment`. A log file is a sequence of records with offset, start, length
and an opaque payload.

**`CommitLog`** is one log with the delete policy. `Append` takes no lock, so it is
cut wherever another goroutine can run: `CheckSplit`, then, if the segment is full,
`SplitNewSegment`, `SplitClean` and `SplitStoreActive`; then `AppendPosition`,
`AppendPutOffset`, `SegmentWrite` and `IndexWriteEntry`. Segment objects are numbers
into a heap; files survive `Crash`, and `Open` rebuilds the objects from them.
`CrashInDelete` dies between the deletions of the cleaner or between the two files
of a segment, after which `Open` may fail (`OpenFails`). `SpecRestart` adds crashes
between steps to `Spec`, `SpecCrashInDelete` those inside a cleaning too.

**`CompactedLog`** is the log with either policy. With "compact" a split runs
`CompactCleaner.Clean` file operation by file operation: `CleanMap` finds the last
offset of each key, `CleanOpen`, `CleanCopy` and `CleanReplace` rewrite one segment
after another through a `.cleaned` file, `SplitInstall` returns. `CrashClean` may leave
a `.cleaned` file that the next `Clean` appends to. With "delete" its steps are those
of `CommitLog`.

**`PartitionLog`** is what the log promises: an append gets the next offset, stored
values do not change, only the oldest disappear. `CommitLogRefinement` maps the
files on disk to it. **`LogReader`** adds readers to `CommitLog`.

**`MetadataStore`** has a Store per broker over one external raft log. `Commit`
adds a command, `Apply` hands the next one to a broker's FSM, `Restart` starts an
FSM again from its snapshot, `Snapshot` and `InstallSnapshot` (only in
`SpecSnapshot`) are raft's. A row is a name, an opaque value and its two indexes.
Topics are found by their name in lower case, as the memdb index does.

**`Leadership`** has raft's elections and blocking notifications (external),
`monitorLeadership`, the leader loops with their barriers, the readiness flag, and
`Shutdown`.

**`Bootstrap`** is a cluster that comes up: `Discover` is Serf, `LanNodeJoin` handles
one join event, with the returns of `maybeBootstrap` as its disjuncts, `RaftReplicate`
is a raft leader that brings its log, `RestartBroker` starts a broker again with its flags.
The flags of all brokers are a record of `Setups`.

**`Controller`** runs `lanEventHandler`, `leaderLoop` and the goroutines of requests side
by side. A handler is the list of its calls that change shared state (`todo`, and one
list per request in `req`); between two calls the others run, and a call may fail before
or after its effect. `WithTimeout` starts the goroutine of a request: with a timeout
`Broker.Run` waits for it (`waiting`), without one the client has its ErrNone already and
the next request may run beside it. `SerfUpdate` is a member that changes its address
while it is alive, which `lanEventHandler` does not look at. A broker that failed and came
back before the controller was elected (`recovered`) starts out critical, since
`handleAliveMember` leaves a node that is registered as it is.
`LoopReassign` is the failover of `handleFailedMember`. `LoopReconcile` and
`LoopReconcileReaped` are the two halves of `reconcile`: the members Serf has,
whose errors are only logged, then a reap for each node it no longer has, which the first
error ends.

**`Replication`** is one partition on several brokers. `HandleLeaderAndISR` is the whole
handler with `startReplica`, `becomeLeader`, `becomeFollower` and `Truncate`: each
request makes a new Replica with a log object of its own on the one directory, while
the old log and its replicator live on. `FetchMessages` and `AppendMessages` are the two
loops of a replicator; a fetch is the whole exchange with the leader's `handleFetch`.
A broker that is told of a partition of which it is neither leader nor replica keeps a
Replica without a log.

**`Groups`** is one consumer group. A request is what a handler reads (`JoinGroup`,
`LeaveGroup`), the change of the object it holds together with `raftApply` (`Write`), and
its end (`Answer`, `Timeout`). `objects` keeps the identity of the group objects, because
handlers change the one in the store in place. `FailedCoordinator` and
`ReassignCoordinator` are the two halves of the failover in the leader loop.

**`Wire`** is the encoder with its length pass and the decoder, on bytes. A time goes
over the wire in milliseconds (`UnixMillis`).
**`Messages`** lists for every message and version the fields its `Encode` puts and
its `Decode` gets, one definition per method. **`ProtocolCodec`** is one exchange
between `Conn` and `Server`.

**`Connection`** is several goroutines on one `Conn` and the way of their requests
through the server and back. `RunTimeout` and `RunNoWait` are the two returns of
`withTimeout` that leave a handler at work, `LateReturns` and `BehindReturns` its end:
late, it sends on a closed channel and the process panics. `Lose` and `Break` are a lost
connection; `HandleCut` is the panic of `handleRequest` when a request ends half way.

The `MC` modules give constants that a configuration cannot hold, and the symmetry of
`Groups`. Two names of the code are shared by modules: `HandleRequest` and
`HandleResponse` of `ProtocolCodec` are about the bytes of one exchange, those of
`Connection` about the order of many.

## Runs

`tlc -config X.cfg M` with the module of `PROJECT.json`.

Runs that pass:

| run | instance | what it shows |
|---|---|---|
| `commitlog_restart` | 1 appender, either policy, one record per segment, log of 80 bytes, 4 offsets, 2 values or keys, any number of crashes, one of them with a `.cleaned` file left | crashes between any two steps: with "delete" offsets without gap and an exact index (`ReopenedExact`), retention (`RetentionKept`), refinement of `PartitionLog`; with "compact" one record per key (`ObsoleteGone`); with both, what is acknowledged stays until the policy lets go of it (`AckedKept`) and offsets never go back |
| `log_reader` | 1 reader, segments of 80 bytes with several records, reads of 24 and 50 bytes, 5 offsets, log not cleaned | offsets and index stay exact while the log grows and splits; a reader starts at or before its offset and delivers consecutive bytes |
| `metadata_store` | 2 brokers, 3 commands, two spellings of a name | rows are what the applied log says, read indexes cover what is read |
| `leadership` | channel of 1, up to 3 terms | one leader loop, readiness exactly while an established loop runs, both changes eventually happen |
| `bootstrap` | 3 brokers, five setups (one, two or all expect two; one with another number; one in bootstrap mode and all expect three), 1 error or restart, or 2 where two brokers have the number | any two majorities of configurations that were written meet (`QuorumsIntersect`); with one number, every broker gets a raft log, unless each broker that was given it met an error after its last start (`AllBootstrap`) |
| `controller` | 3 brokers, IDs 0 to 2, and one of: 2 membership changes in which addresses change owner, and 1 failed call; 1 such change and 1 failed call in a cluster where a broker, perhaps the controller, failed before; 1 change, 1 request and 1 failed call; 2 requests side by side | raft configuration and lookup stay consistent; a failover without a healthy node, which panics, happens only to a controller that failed before or over a broker with ID 0 (`HealthyNodeFound`); while there is no panic, alive brokers end up registered, gone ones deregistered, and a failed leader or coordinator is replaced whatever the order; a topic is complete when a client is told that `createTopic` returned ErrNone |
| `groups` | 2 brokers, 3 member IDs, 3 requests, 2 faults (a raft error, a lost answer, a change of leader) | an acknowledged join or leave holds wherever it is applied (`AnswersKept`), all joins name one leader (`LeaderAgreed`); both unless a group was written from an object that is behind |
| `protocol_codec` | 20 APIs, versions 0–5, arrays of up to 2, nil and empty strings, times set and never set, wide and negative numbers | all messages not named as mismatches arrive as sent, times to the millisecond; both passes of `Encode` agree |
| `connection` | 3 callers, 3 calls, queues of 1, 2 handlers not waited for, loss or panic at any moment | answers keep the order of the requests; nobody reads another's response; nothing is dropped; a response follows its effect, and only a request that timed out is overtaken; while the connection is up and no caller waits for the ID of a later call, every call returns |

Runs in which TLC finds that the code does not do what a comment says (the findings in
`PROJECT.json` quote the line):

| run | what happens |
|---|---|
| `commitlog_rebuild` | `BuildIndex` skips payload bytes twice: a reopened segment of several records has a wrong index and offset |
| `metadata_snapshot` | snapshots hold no tables: a broker that restores one has lost its rows |
| `replication` | a replicator takes only a record set that starts after the offset it asked for: a follower's log stays empty (`FollowerCatchesUp`) |

### Bounds, and why they are enough

- Log: the sizes make a segment hold one record (`commitlog_restart`) or several
  (`log_reader`) and the log two or more segments, so splits, cleans that drop nothing,
  one or several segments and records longer than what is left all happen within four
  or five offsets. `IndexCapacity` stands for the 10 MB index file; the bisection
  probes beyond the written entries in the model as it does in the code.
  `commitlog_restart` has one record per segment because of what `commitlog_rebuild`
  shows for more. Two keys over four offsets give a record that is superseded in an
  older segment, in the same compaction and after it; a second crash inside a
  compaction finds the same kind of leftover as the first.
- Metadata: a row depends on at most three commands (create, update, delete).
- Leadership: a term can overlap at most one other, and a third shows the return.
- Bootstrap: three brokers are the fewest with two that bootstrap on different views.
  The setups cover every return of `maybeBootstrap`, and the faults (`maxFaults` of a
  setup) are enough that every broker with the number fails: one where one has it, two
  where two have. More faults only repeat what a broker that failed or restarted does.
- Controller: two membership changes are needed for an event to be stale when it is
  handled, a channel of capacity one drops the third event, one failed call leaves a
  handler half done. Three brokers leave two candidates after a failure; the controller
  has ID 1, so that a broker with ID 0 may fail. The mixes of changes, errors and requests
  are the records of `MembershipOrTopic` in `MCController`. A larger one, two requests
  beside a change (3.9 million states), passes too and is left out for its time.
- Groups: two brokers are enough for one that leads and one that is behind; three
  requests are two joins and a leave, or three joins. The same instance with four
  requests passes too and is left out for its time. Brokers and member IDs are
  interchangeable, so symmetry is sound; no liveness is checked there.
- Codec: the encoding of an element does not depend on its neighbours, so that two
  elements suffice. Replica IDs are not 0 in the samples: `FetchRequest` and
  `OffsetsRequest` write −1 for it on purpose. Durations have whole milliseconds; times
  have a part below the millisecond, or were never set.
- Connection: two callers disturb each other; the third sees both. With queues of one,
  three requests fill every place on the path, and block where the real ones, which
  hold 1024, do. The order of the path is proved for every size.
- Replication: two brokers, one record and two requests per broker already show the
  violation; the shortest has one LeaderAndISR request each and one produce.

Deadlock is checked except where a run ends by its bound (`MaxOffset`, `MaxCalls`,
`MaxRequests`), all brokers of a cluster have come up, an exchange is complete, or a panic
ends the controller's process.

### Other differences met while modelling

These follow from the code and shaped the model; no run is kept for them. Where a
specification and a property show one, they are named.

- `commitlog/commitlog.go:142`: two overlapping Appends, possible after a produce timed
  out, store the same offset twice; hence the assumption `SingleAppender` of the proofs.
- `commitlog/delete_cleaner.go`: the cleaner deletes the newest segment first, so that a
  crash leaves a hole (`MostRecentKept` under `SpecCrashInDelete`).
- `commitlog/commitlog.go:105`: `open` removes an orphaned `.index` file by its bare
  name, which fails outside the log's directory (`OpenFails`).
- `commitlog/compact_cleaner.go`: a compaction closes the segment that `split` makes
  active, so that no Append succeeds until the log is opened again (`SplitInstall`); a
  `.cleaned` file left by a crash is appended to and keeps superseded records.
- `commitlog/message_set.go:49`: `Messages` adds the offset to itself, so that of two
  messages of equal size only the first is seen; hence one message per set.
- `commitlog/segment.go:212`: `findEntry` may return an entry before the nearest one;
  readers start early, never late (`StartsAtOrBefore`).
- `jocko/broker.go:1232`: `Truncate(NewestOffset())` deletes the active segment too: a
  second LeaderAndISR request empties a follower's log and leaves it closed, and the next
  append of its replicator ends the process (`Truncate`, `AppendMessages`).
- `jocko/broker.go:408`: `handleProduce` does not ask who leads.
- `jocko/broker.go:810`: a fetch with MaxWaitTime 0, as the replicator sends it, is
  answered while its handler still reads.
- `jocko/broker.go:999`: the directory of a log is named by the partition's ID, so that
  two topics share it.
- `jocko/broker.go:1375`: a handler that outlives its timeout sends on a closed channel
  and ends the process (`LateReturns`).
- `jocko/leader.go:288`: a broker that comes back after a failure stays critical. Elected
  controller, it may have no healthy node to fail over to, and the random pick panics.
- `jocko/broker.go:1376`: a request without a timeout, as the clients of the repository
  send it, is answered ErrNone before its handler has run; it promises nothing
  (`AckedComplete` is about what `createTopic` returned).
- `jocko/serf.go:53`: an `EventMemberUpdate` is ignored, so that the lookup keeps the old
  address of a member that changed it, also after it fails (`updated` in
  `LookupConsistent`). The periodic reconcile does bring the new one to raft.
- `jocko/broker_lookup.go`: `RemoveBroker` forgets an address whoever is listed under it: a
  broker that took over an address disappears from the lookup when the failure of the
  one before it is handled late.
- `jocko/leader.go:235`: a join that fails half way after a reap leaves a raft server.
- `jocko/leader.go:532`: the new leader of a partition may be no replica of it, and the
  LeaderAndISR requests after a failover carry the old leader (`LeaderTold` with the
  budget `OneFailover` of `MCController`).
- `jocko/leader.go:480`: broker ID 0 compares equal to a field that is never set, and the
  failover after its failure panics if it coordinated a group or led a partition.
- `jocko/broker.go:605`: group handlers change the object in the store before raft has
  the change, so that a join that fails leaves a member at that broker only. A group
  written from an object that is behind, by the failover or by a new raft leader that has
  not applied its log, loses the joins in between (`raced` in `Groups`). A leader that
  leaves stays LeaderID, and a join with an ID makes no member but may make the leader.
  A sync is always answered ErrRebalanceInProgress (`SyncGroup`). The index by which the
  failover finds groups still has the old coordinator after such a change in place;
  `FailedCoordinator` looks at the object, which makes no difference to what can be lost.
- `jocko/serf.go:114`: with four brokers that expect three, or a broker in bootstrap mode
  beside brokers that expect fewer than there are, two clusters can form; hence
  `CountAssumption`. The nonvoter tag is not looked at. A broker whose
  `BootstrapCluster` failed does not try again, and one that met an error before waits for
  another join: if that happens to each broker with the number there is no cluster until
  one of them is restarted (the second disjunct of `AllBootstrap`).
- `protocol/`: `RequestMismatch` and `ResponseMismatch` of `ProtocolCodec` name the
  messages and versions in which `Encode` and `Decode` disagree.
- `protocol/produce_response.go:41`, `offsets_response.go:48`: the nanoseconds of a time
  that was never set do not fit in an int64, and it arrives as one of 1754 (`UnixMillis`).
  `handleProduce` sends such a time with every error, `handleOffsets` with every answer
  from version 1 on; the offsets that the latter found are encoded in version 0 only.
- `jocko/conn.go:475`: `doRequest` reads the correlation ID after the unlock, so that two
  callers can wait for the same ID, one of them for ever; the second condition of
  `EveryCallReturns`.
- `jocko/conn.go:515`: a caller on a lost connection waits for ever; the first condition.
- `jocko/conn.go:405`: a response that is cut off in its body stays in `rbuf` as far as it
  came, where another caller that still waits takes it for the head of a response. In
  `Connection` it is gone.

### Fairness

All fairness is of goroutines that can go on: the Go scheduler runs them.
`Leadership` adds strong fairness for `LoopStop`, because `select` picks at random
among ready cases, and for `BarrierOk`, because a leader that stays leader completes
a barrier. `Controller` assumes finitely many failed calls (the budget's `errors`), that
the reconcile interval ends and that some request goroutine goes on while one can.
`Connection` has weak fairness of every goroutine and of
a handler that Run waits for, and requires nobody to call, nothing to break and no
handler to return that nobody waits for. `Bootstrap` has Serf spread the members, the
event handler run, and a raft leader replicate to the brokers it knows, and at most
`maxFaults` errors and restarts. `Replication` has strong fairness of a replicator's loops: a fetch
that can bring records again and again does so at last. Nothing assumes that members join, fail or recover.

### Mutants

Every property of a passing run has a mutant: a small change to a mapped definition,
written next to it, under which TLC reports that property violated.

## Proofs

`tlapm` checks eight proof modules. All theorems hold for every value of the
constants allowed by the named assumptions.

- **`CommitLogProofs`**: `ContiguousAlways`, `IndexExactAlways`, `AckedDurableAlways`,
  `OffsetsOnlyAdvance` and `TypeOKAlways`, for every segment size, retention, set of
  lengths and payloads. The assumption `SingleAppender` says
  that Appends do not overlap, as `Broker.Run` guarantees unless a produce times out
  (then one offset can be stored twice). `Contiguous` is not inductive: it says
  nothing of the new segment that a split has created and not yet stored, of the
  offset an appender has read and not yet written, or of which files exist. `IInv`
  adds these: `SegmentsOK` (neighbouring segments, only the last may be empty),
  `ActiveOK` (the active segment is the last outside a split; what the locals of an
  Append under way hold), `FilesOK` (no file but those of the segments) and
  `LocalsOK`. One lemma per step of `Append`; `SplitClean` is the long one, since the
  kept segments are a suffix (`Cleaned`). `LogInv` is `IInv` with two more parts:
  `IndexOK` (the index of every segment, of the one a split has just made as well, has
  one entry per record, and an Append between the write and the index entry holds what
  is missing) and `AckedOK` (an acknowledged record is in a segment or lies before the
  oldest). `OffsetsAdvance` follows step by step from `IInv`.
- **`CommitLogRefinementProofs`**: `DeleteLogImplements`, that a new log with the delete
  policy and one appender implements `PartitionLog` until the process ends
  (`SpecDelete`), and `DeleteLogKeeps`. The abstract log is a function of the files
  because by `LogInv` no two records have one offset; the write to the active file maps to
  `Append`, the deletion of a prefix of the files to `Trim`, and every other step to a
  stutter. `DeleteLogBounded` is `RetentionKept` of the same log: what a split leaves fits
  in `MaxLogBytes`, and no segment overshoots `MaxSegmentBytes` by more than a record.
  `Keeping` adds that an Append past its check writes to a segment that is not full, and
  states the sum over the segments, as the cleaner forms it; that this is the sum over the
  files on disk takes `LogInv` and `BytesInOrder`. It needs that there are message sets at
  all (`Lens` is not empty). Restarts and the compact policy, which the run
  `commitlog_restart` also has, stay with TLC.
- **`SegmentFileProofs`**: what the two bisections compute. `FindSegmentFirst`:
  `findSegment` returns the first segment that ends after an offset, for every list of
  segments in order. `FindEntryAtOrBefore`: `findEntry`, for an index with one entry per
  offset, returns no entry past the offset, although it bisects the whole mapped file and
  a probe of an entry not written yet sees what the last probe read. A recursive function
  is a CHOOSE, so the proofs show first that a function with its equation exists, then
  what every such function returns, both by the least counterexample (`LeastNatural`).
  Loops are records (`IsLoop`) and their invariants sets (`LoopInvariant`), because a
  lemma cannot have an operator for a parameter. The sums of file lengths
  (`Total`, `BytesBefore`) are treated in the same way.
- **`LogReaderProofs`**: `StartsAtOrBeforeAlways` and `StreamConsecutiveAlways`, for any
  number of readers, any offsets, buffer lengths, segment sizes and message sets, with one
  appender and a log that is not cleaned (`NeverCleaned`: `MaxLogBytes` is −1, as in
  `startReplica`). Every step of `Append` lets the log only grow (`LogGrows`): the bytes
  below a file stay what they are, since only the last file gets longer and a new one comes
  after it, and the segments a reader holds stay the first of the log's. `RInv` says of each
  reader that NewReader found a segment not after its offset, and afterwards that it is
  inside its file, after the bytes it delivered (`Placed`), and started at a record
  at or before the offset (`Started`). NewReader rests on the theorems of
  `SegmentFileProofs` and on `IndexOK`; the change to the next segment on there being no
  file between (`NextSegment`), not even the one a split has just made.
- **`ClusterProofs`**, the metadata: `RowsFromLogAlways`,
  `ReadIndexCoversAlways` and `IndexMoves`, for any brokers, names and log length,
  without snapshots (with them the rows are not those of the log). What an FSM that
  applied the log holds would need an induction over the log; instead `RowFromLog`
  characterises a row by the log alone, which every step preserves (`RowFromLogApply`,
  `RowFromLogExtends`) and which leaves only one row (`RowFromLogUnique`).
- **`ClusterProofs`**, the bootstrap: `QuorumsAlwaysIntersect`, for any finite set of
  brokers and any flags with `CountAssumption`: twice a majority of the expected number
  exceeds the number of brokers. `QuorumsIntersect` speaks of pairs of configurations; the invariant says of each
  one alone that it has at least the expected number of brokers and none in bootstrap mode,
  or is that of the broker in bootstrap mode (`Written`), from which counting gives the rest.
- **`ProcessProofs`**, the leader loop: `OneLoopAlways`, `ReadyHasLoopAlways` and
  `StaleReadyIsNoticedAlways`, for every capacity of the channel and any number of terms.
  `LoopInv` adds that only the loop started last can run and only while the monitor holds
  its channel; `NewsInv` that the last notification under way, or else the one the monitor
  took last, says what raft's state is.
- **`ProcessProofs`**, the connection: `AnswersInOrder`, `ResponsesAreOwn`, `NothingIsLost` and
  `EffectsBeforeAnswers`, for any callers, calls and channel capacity, with losses and
  panics. `OwnResponse` needs all of
  `IInv`: the numbers on the path increase from the responses to the requests (`Order`),
  a caller waits for a number not below its own, callers have numbers of their own, and a
  caller's number is on the path or, on a lost connection, greater than every response
  left (`Kept`). So the head of the responses, if it is what a caller waits for, is its
  own. The queues are compared by the sets of their elements; `AppendInc`, `TailInc`,
  `PrefixInc` and `ConcatInc` say what a step does to them.
- **`GroupsProofs`**: `AnswersAreKept` and `LeaderIsAgreed`, for any brokers, member IDs,
  requests and faults, while no group was written from an object that is behind (`raced`;
  then both are false). `NoneAssumption`: the empty LeaderID is no member's. Objects
  change in place, so an entry's object need not be what the log has for it; the
  invariant therefore says of a whole suffix, in the log and in every store, that a member
  is in it, is not, or that it has one LeaderID (`In`). That suffix only grows because what
  the leader writes next is made of an entry not before it (`Settled`): acknowledged
  entries are from before the leader's term, or the leader has applied them and
  the request it is in has read them. `AnswerHolds` says it of an entry that waits to be
  acknowledged, and `MemberIDs` that no group has a member ID before its join is written
  (`Fresh`), without which a join could undo an acknowledged leave.
- **`ControllerProofs`**: `RaftConfigUniqueAlways`, `LookupConsistentAlways`,
  `AckedCompleteAlways`, `HealthyNodeFoundAlways` and `TypeOKAlways`, for any finite sets of
  brokers and partitions, any membership changes, recovered brokers, failing calls and
  any number of requests, with a timeout or without, side by side. A handler is a
  list of calls between which everything else happens, so the invariant says what the
  rest of a list still owes. `Joins`: whatever clashes with a server that is to be added
  is removed by an earlier call of the same list. `Creating`: each topic's creation has
  registered each partition or has still to do so. `LookupOK`: after a join, the next
  event about that broker takes it off the address it joined with, or there is none and
  it is there now (`Stays`); hence addresses that change owner never leave a broker under
  two, unless it changed its own without an event. `SelfOK`: the controller is a server at
  an address of its own, also according to the events not yet handled, and a healthy node
  if it did not fail before its election; so the failover has at least the controller to
  pick, or the failed broker has ID 0. `InSomeOrderLists` says that the lists made of sets
  have all their elements.

Only model-checked, and why:

- liveness, all of it: fairness is out of the prover's reach;
- restarts (`ReopenedExact`, and `AckedKept`, `OffsetsAdvance`, `RetentionKept` and the
  refinement across them): a reopened log is right only while `BuildIndex` is, that is
  with at most one record in a segment (`commitlog_rebuild`); a theorem would need that
  every message set fills a segment, which the broker does not guarantee;
- compaction (`ObsoleteGone`, and `AckedKept` and the refinement with the compact policy):
  its steps copy files through an interrupted `.cleaned` file and read them through the
  `SegmentScanner`; the invariant over all of them was not attempted;
- the codec (`RequestUnderstood`, `ResponseUnderstood`, `LengthExact`): its recursive
  operators are not supported by TLAPS;
- `Replication`: its one property is a liveness property (and is violated).

## Not modelled

A model is an abstraction, and these parts are outside it:

- The disk: a file write is atomic and survives a crash of the process; losing unsynced
  data in a crash of the machine is not modelled.
- Raft, Serf, memdb and TCP are external: Raft commits one log and delivers it in order,
  Serf reports each change once, TCP delivers a prefix.
- Overlapping Appends: `CommitLog` allows several appenders, and its steps have the
  branches only they take (a file that a racing split has made, a deletion that fails);
  the runs have one appender, since with more the offsets are not unique.
- A reader while the log is cleaned. A reader keeps the number of a segment and a
  position in it, which after a clean mean another segment or another record; nothing is
  promised then that could be checked. The broker's logs with the delete policy are never
  cleaned (`MaxLogBytes` is −1).
- `Close` and `Delete` of a log, which end its life.
- `handleFindCoordinator` and `offsetsTopic`: a second way to create a topic, with 50
  partitions, whose steps are those of `createTopic`; the choice among them is a hash.
- Accepting connections, `Server.Shutdown`, and the dialer: one connection is like
  another to the requests on it, and the process exits after a shutdown. Deadlines of
  `Conn` are never set by the broker.
- The controller's work across a change of raft leader: the new leader reconciles all
  members, which `Controller` has as `LoopReconcile`; what a deposed one does meanwhile is
  an error of raft.
- The CRC and the layout of messages in a record set: the broker stores record sets as
  opaque bytes.
- Handlers that only read and format (metadata, group lists, API versions), and those
  that panic with "not implemented" or return an empty answer.
- Flags, configuration and topic-configuration tables, tracing, logging, mocks, test
  support and the example: no state that changes.
