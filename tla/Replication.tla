---------------------------- MODULE Replication ----------------------------
(***************************************************************************)
(* The replicas of one partition: what a broker does with a LeaderAndISR   *)
(* request, the produce, offsets and fetch requests it serves from the     *)
(* replica in its replicaLookup, and the Replicator a follower runs.       *)
(*                                                                         *)
(* Every LeaderAndISR request makes a new Replica, numbered per broker,    *)
(* with a CommitLog of its own on the one directory of the partition.  A   *)
(* log is the sequence of the message sets appended to it, a message set   *)
(* the sequence of its values; what segments and indexes do to a log that  *)
(* is opened twice is CommitLog's subject.                                 *)
(*                                                                         *)
(* A replicator asks with MaxWaitTime 0, so handleFetch reads in a         *)
(* goroutine of its own and the response goes out with whatever that       *)
(* goroutine has stored by then: the record set, or none.                  *)
(***************************************************************************)
EXTENDS Naturals, Sequences, SequencesExt

CONSTANTS
  Brokers,
  None,         \* no broker
  Values,
  MsgsCap,      \* capacity of Replicator.msgs
  MaxRequests,  \* bound: LeaderAndISR requests a broker gets
  MaxProduced   \* bound: message sets in a log

VARIABLES
  topic,     \* the brokers whose store has the topic
  stored,    \* broker -> the log in the partition's directory
  replicas,  \* broker -> its Replicas; the last one is the one in replicaLookup
  died       \* the brokers whose process panicked

vars == <<topic, stored, replicas, died>>

\* A Replica: the leader it names; its Log, which is "nil", "open", "closed"
\* when Truncate deleted its active segment, or "unlinked" when the Truncate of
\* another Replica deleted its files; and its Replicator, if it runs one.
Replica(leader, log) ==
  [Leader |-> leader, Log |-> log, from |-> None, offset |-> 0, msgs |-> <<>>]

Current(b) == Last(replicas[b])
HasReplica(b) == replicas[b] # <<>>
NewestOffset(b) == Len(stored[b])

Init ==
  /\ topic = {}
  /\ stored = [b \in Brokers |-> <<>>]
  /\ replicas = [b \in Brokers |-> <<>>]
  /\ died = {}

\* The topic's registration is applied to the store of b.
ApplyTopic(b) ==
  /\ b \notin died \cup topic
  /\ topic' = topic \cup {b}
  /\ UNCHANGED <<stored, replicas, died>>

-----------------------------------------------------------------------------
\* handleLeaderAndISR

\* replicaLookup.AddReplica.
Install(b, replica) == replicas' = [replicas EXCEPT ![b] = Append(@, replica)]

\* A store without the topic leaves the Replica without a log.
startReplica(b, leader) == Replica(leader, IF b \in topic THEN "open" ELSE "nil")

becomeLeader(b, replica) == Install(b, replica) /\ UNCHANGED stored

\* Truncate at NewestOffset deletes every segment that holds a record, the
\* active one included.
Truncate(b, replica) ==
  LET unlink(r) == [r EXCEPT !.Log = IF @ = "open" THEN "unlinked" ELSE @]
      old == [i \in DOMAIN replicas[b] |-> unlink(replicas[b][i])]
  IN  IF NewestOffset(b) = 0
      THEN Install(b, replica) /\ UNCHANGED stored
      ELSE /\ replicas' = [replicas EXCEPT ![b] = Append(old, [replica EXCEPT !.Log = "closed"])]
           /\ stored' = [stored EXCEPT ![b] = <<>>]

\* dialled is whether the leader is in the lookup and is reached.
becomeFollower(b, replica, dialled) ==
  Truncate(b, [replica EXCEPT !.from = IF dialled THEN replica.Leader ELSE None])

\* The Replica is installed whatever comes after; contained is whether the request
\* names b as one of the partition's replicas.
HandleLeaderAndISR(b, leader, contained, dialled) ==
  /\ b \notin died /\ Len(replicas[b]) < MaxRequests
  /\ LET replica == IF leader = b \/ contained THEN startReplica(b, leader) ELSE Replica(leader, "nil")
     IN  CASE replica.Log = "nil" -> Install(b, replica) /\ UNCHANGED stored
           [] replica.Log = "open" /\ leader = b -> becomeLeader(b, replica)
           [] replica.Log = "open" /\ leader # b -> becomeFollower(b, replica, dialled)
  /\ UNCHANGED <<topic, died>>

-----------------------------------------------------------------------------
\* Requests of clients

\* Log.Append of Replica i of b; an open log writes to the directory.  Segments are
\* not full: a closed log with a full one would start another.
AppendTo(b, i, set) ==
  stored' = IF replicas[b][i].Log = "open" THEN [stored EXCEPT ![b] = Append(@, set)] ELSE stored

\* handleProduce, which does not ask who leads.  A closed log returns an error.
HandleProduce(b, v) ==
  /\ b \in topic \ died
  /\ HasReplica(b) /\ Current(b).Log # "nil"
  /\ NewestOffset(b) < MaxProduced
  /\ AppendTo(b, Len(replicas[b]), <<v>>)
  /\ UNCHANGED <<topic, replicas, died>>

\* handleOffsets: a Replica without a log, or the oldest offset of a log without
\* segments, ends the process; every other request is only answered.
HandleOffsets(b) ==
  /\ b \notin died
  /\ HasReplica(b) /\ Current(b).Log \in {"nil", "closed"}
  /\ died' = died \cup {b}
  /\ UNCHANGED <<topic, stored, replicas>>

\* What a fetch from leader at offset can bring: nothing, because of an error or
\* because the goroutine was too late, or all that is stored from offset on,
\* whatever MaxBytes says.  first is the offset in the first message set's header.
HandleFetch(leader, offset) ==
  IF /\ leader \notin died /\ HasReplica(leader)
     /\ Current(leader).Leader = leader /\ Current(leader).Log = "open"
     /\ offset < NewestOffset(leader)
  THEN {[first |-> offset, sets |-> SubSeq(stored[leader], offset + 1, NewestOffset(leader))]}
  ELSE {}

-----------------------------------------------------------------------------
\* The Replicator of Replica i of b.  done is never closed: becomeFollower and
\* becomeLeader look at the new Replica, which has no Replicator yet.

\* Whether fetchMessages takes what a fetch brought.
Takes(r, fetched) == fetched.first > r.offset

\* A turn of fetchMessages that takes a record set.  The other turns, without a
\* record set or with one it has had, change nothing.
FetchMessages(b, i) ==
  LET r == replicas[b][i]
  IN  /\ b \notin died /\ r.from # None
      /\ Len(r.msgs) < MsgsCap
      /\ \E fetched \in HandleFetch(r.from, r.offset) :
           /\ Takes(r, fetched)
           /\ replicas' = [replicas EXCEPT ![b][i].msgs = Append(@, FlattenSeq(fetched.sets)),
                                           ![b][i].offset = fetched.first]
      /\ UNCHANGED <<topic, stored, died>>

\* A turn of appendMessages: an error of Append ends the process.
AppendMessages(b, i) ==
  LET r == replicas[b][i]
  IN  /\ b \notin died /\ r.msgs # <<>>
      /\ replicas' = [replicas EXCEPT ![b][i].msgs = Tail(@)]
      /\ AppendTo(b, i, Head(r.msgs))
      /\ died' = IF r.Log = "closed" THEN died \cup {b} ELSE died
      /\ UNCHANGED topic

Replicator(b, i) == i \in DOMAIN replicas[b] /\ (FetchMessages(b, i) \/ AppendMessages(b, i))

Next ==
  \E b \in Brokers :
    \/ ApplyTopic(b)
    \/ \E leader \in Brokers, contained, dialled \in BOOLEAN :
         HandleLeaderAndISR(b, leader, contained, dialled)
    \/ \E v \in Values : HandleProduce(b, v)
    \/ HandleOffsets(b)
    \/ \E i \in 1 .. MaxRequests : Replicator(b, i)

\* The goroutines of a replicator go on, and a fetch that can bring records does
\* so now and then; requests and failures may stop coming.
FairSpec ==
  /\ Init /\ [][Next]_vars
  /\ \A b \in Brokers, i \in 1 .. MaxRequests : SF_vars(Replicator(b, i))

-----------------------------------------------------------------------------
\* Properties

Content(b) == ToSet(FlattenSeq(stored[b]))

\* b follows leader, and leader leads with its log open.
Follows(b, leader) ==
  /\ {b, leader} \cap died = {} /\ HasReplica(b) /\ HasReplica(leader)
  /\ Current(b).from = leader /\ Current(b).Log = "open"
  /\ Current(leader).Leader = leader /\ Current(leader).Log = "open"

\* A follower that goes on following a leader gets every record of the leader's
\* log, as the Replicator's comment says it does: it "fetches from the
\* partition's leader producing to itself the follower, thereby replicating the
\* partition".
FollowerCatchesUp ==
  \A b, leader \in Brokers : \A v \in Values :
    <>[]Follows(b, leader) => (v \in Content(leader) ~> v \in Content(b))
=============================================================================
