------------------------------ MODULE Groups -------------------------------
(***************************************************************************)
(* A consumer group.  Every broker answers join, leave, sync and heartbeat *)
(* requests, one at a time, from its own store; what they change goes to   *)
(* all the stores through raft, which only takes it at the raft leader.    *)
(*                                                                         *)
(* GetGroup returns the object that is in the store, and the handlers      *)
(* change that object before raft has the change.  An entry of the raft    *)
(* log is a whole group; applying one puts a new object in the store.  So  *)
(* objects[b][i] is the object broker b made of entry i, the last one is   *)
(* in its store, and handlers may still hold an earlier one.               *)
(*                                                                         *)
(* Raft is external: its log holds the committed entries, applied by every *)
(* broker in order.  A group's generation is always 0 and its state is     *)
(* always PreparingRebalance: nothing assigns them.                        *)
(***************************************************************************)
EXTENDS Naturals, Sequences

CONSTANTS
  Brokers,
  Members,      \* member IDs, each given out once
  None,         \* LeaderID ""
  MaxRequests,  \* bound: join and leave requests
  MaxFaults     \* bound: errors of raft, and changes of its leader

ASSUME NoneAssumption == None \notin Members

VARIABLES
  leader,     \* the raft leader
  since,      \* length of the log when it became leader
  log,        \* the groups in the raft log
  objects,    \* broker -> the objects made of the entries it has applied
  request,    \* broker -> the request its Run loop is in, or Idle
  failover,   \* the object handleFailedMember holds, or 0
  joined,     \* member ID -> log entry of its acknowledged join, 0 without one
  left,       \* member ID -> log entry of its acknowledged leave, 0 without one
  leaving,    \* member IDs for which a leave was asked
  used,       \* member IDs given out
  answered,   \* LeaderIDs in answers to joins
  raced,      \* a group was written from an object that was behind: see Write
  requests, faults

vars == <<leader, since, log, objects, request, failover, joined, left, leaving, used,
          answered, raced, requests, faults>>

history == <<joined, left, answered>>

Idle == [op |-> "idle"]

Init ==
  /\ leader \in Brokers /\ since = 0
  /\ log = <<>> /\ objects = [b \in Brokers |-> <<>>]
  /\ request = [b \in Brokers |-> Idle] /\ failover = 0
  /\ joined = [m \in Members |-> 0] /\ left = [m \in Members |-> 0]
  /\ leaving = {} /\ used = {} /\ answered = {}
  /\ raced = FALSE /\ requests = 0 /\ faults = 0

-----------------------------------------------------------------------------
\* GetGroup: the object in the store, by the entry it was made of; 0 if none.
GetGroup(b) == Len(objects[b])

\* A group a join creates, which is in no store.
NewGroup(b) == [members |-> {}, LeaderID |-> None, Coordinator |-> b]

Held(b) == IF request[b].ref = 0 THEN NewGroup(b) ELSE objects[b][request[b].ref]

\* handleJoinGroup up to what it reads: with a new ID or with one it gave out.
JoinGroup(b, m) ==
  /\ requests < MaxRequests /\ requests' = requests + 1
  /\ request[b] = Idle
  /\ request' = [request EXCEPT ![b] = [op |-> IF m \in used THEN "rejoin" ELSE "join",
                                        m |-> m, ref |-> GetGroup(b), index |-> 0]]
  /\ used' = used \cup {m}
  /\ UNCHANGED <<leader, since, log, objects, failover, leaving, raced, faults, history>>

\* handleLeaveGroup up to what it reads; without the group or the member it
\* answers an error and changes nothing.
LeaveGroup(b, m) ==
  /\ requests < MaxRequests /\ requests' = requests + 1
  /\ request[b] = Idle
  /\ GetGroup(b) # 0 /\ m \in objects[b][GetGroup(b)].members
  /\ request' = [request EXCEPT ![b] = [op |-> "leave", m |-> m, ref |-> GetGroup(b), index |-> 0]]
  /\ leaving' = leaving \cup {m}
  /\ UNCHANGED <<leader, since, log, objects, failover, used, raced, faults, history>>

\* Mutant: every join makes its member the leader.
EditLast(r, group) ==
  IF r.op = "leave" THEN [group EXCEPT !.members = @ \ {r.m}]
  ELSE [group EXCEPT !.members = IF r.op = "join" THEN @ \cup {r.m} ELSE @, !.LeaderID = r.m]

\* Mutant: a join starts the group anew.
EditNew(r, group) ==
  IF r.op = "leave" THEN [group EXCEPT !.members = @ \ {r.m}]
  ELSE [group EXCEPT !.members = {r.m}, !.LeaderID = IF @ = None THEN r.m ELSE @]

\* What a handler does to the group it holds.  A join with an ID does not make
\* it a member, but may make it the leader.
Edit(r, group) ==
  IF r.op = "leave" THEN [group EXCEPT !.members = @ \ {r.m}]
  ELSE [group EXCEPT !.members = IF r.op = "join" THEN @ \cup {r.m} ELSE @,
                     !.LeaderID = IF @ = None THEN r.m ELSE @]

\* The handler changes the object, and raftApply encodes it.
Write(b) ==
  LET r == request[b]
      group == Edit(r, Held(b))
  IN /\ r # Idle /\ r.index = 0
     /\ objects' = IF r.ref = 0 THEN objects ELSE [objects EXCEPT ![b][r.ref] = group]
     /\ \/ \* The leader takes it.
           /\ b = leader
           /\ log' = Append(log, group)
           /\ request' = [request EXCEPT ![b].index = Len(log')]
           /\ raced' = (raced \/ r.ref < since)
           /\ UNCHANGED faults
        \/ \* It is not the leader, or not any more when raft would commit it.
           /\ IF b = leader THEN faults < MaxFaults /\ faults' = faults + 1 ELSE UNCHANGED faults
           /\ request' = [request EXCEPT ![b] = Idle]
           /\ UNCHANGED <<log, raced>>
     /\ UNCHANGED <<leader, since, failover, leaving, used, requests, history>>

\* The FSM of b applies the next entry.
ApplyRegisterGroup(b) ==
  /\ Len(objects[b]) < Len(log)
  /\ objects' = [objects EXCEPT ![b] = Append(@, log[Len(@) + 1])]
  /\ UNCHANGED <<leader, since, log, request, failover, leaving, used, raced, requests, faults, history>>

\* raftApply returns once the entry is applied, and the handler answers.
Answer(b) ==
  LET r == request[b]
  IN /\ r # Idle /\ r.index # 0 /\ r.index <= Len(objects[b])
     /\ request' = [request EXCEPT ![b] = Idle]
     /\ joined' = IF r.op = "join" THEN [joined EXCEPT ![r.m] = r.index] ELSE joined
     /\ left' = IF r.op = "leave" THEN [left EXCEPT ![r.m] = r.index] ELSE left
     /\ answered' = IF r.op = "leave" THEN answered ELSE answered \cup {Edit(r, Held(b)).LeaderID}
     /\ UNCHANGED <<leader, since, log, objects, failover, leaving, used, raced, requests, faults>>

\* raftApply returns an error for an entry that is committed all the same.
Timeout(b) ==
  /\ request[b] # Idle /\ request[b].index # 0
  /\ faults < MaxFaults /\ faults' = faults + 1
  /\ request' = [request EXCEPT ![b] = Idle]
  /\ UNCHANGED <<leader, since, log, objects, failover, leaving, used, raced, requests, history>>

-----------------------------------------------------------------------------
\* Another broker becomes raft leader, whether or not it has applied the log.
ChangeLeader(b) ==
  /\ b # leader /\ faults < MaxFaults /\ faults' = faults + 1
  /\ leader' = b /\ since' = Len(log) /\ failover' = 0
  /\ UNCHANGED <<log, objects, request, leaving, used, raced, requests, history>>

\* handleFailedMember, in the leader loop, which has waited for the log to be
\* applied: it finds the group whose coordinator failed.  The index of coordinators
\* would also find a group by the coordinator it had before it was changed in place,
\* which is a group that ReassignCoordinator has been at already.
FailedCoordinator ==
  /\ failover = 0 /\ GetGroup(leader) # 0 /\ GetGroup(leader) >= since
  /\ objects[leader][GetGroup(leader)].Coordinator # leader
  /\ failover' = GetGroup(leader)
  /\ UNCHANGED <<leader, since, log, objects, request, leaving, used, raced, requests, faults, history>>

\* It gives the group it holds another coordinator and registers it, unless raft
\* fails.
ReassignCoordinator ==
  /\ failover # 0
  /\ \E node \in Brokers \ {objects[leader][failover].Coordinator} :
       LET group == [objects[leader][failover] EXCEPT !.Coordinator = node]
       IN /\ objects' = [objects EXCEPT ![leader][failover] = group]
          /\ \/ /\ log' = Append(log, group)
                /\ raced' = (raced \/ failover # Len(log))
                /\ UNCHANGED faults
             \/ /\ faults < MaxFaults /\ faults' = faults + 1
                /\ UNCHANGED <<log, raced>>
  /\ failover' = 0
  /\ UNCHANGED <<leader, since, request, leaving, used, requests, history>>

Next ==
  \/ \E b \in Brokers :
       \/ \E m \in Members : JoinGroup(b, m) \/ LeaveGroup(b, m)
       \/ Write(b) \/ ApplyRegisterGroup(b) \/ Answer(b) \/ Timeout(b) \/ ChangeLeader(b)
  \/ FailedCoordinator \/ ReassignCoordinator

Spec == Init /\ [][Next]_vars

-----------------------------------------------------------------------------
\* Properties

\* handleSyncGroup's answer at b for a member of generation 0.
SyncGroup(b, m) ==
  IF GetGroup(b) = 0 THEN "ErrInvalidGroupId"
  ELSE IF m \notin objects[b][GetGroup(b)].members THEN "ErrUnknownMemberId"
  ELSE "ErrRebalanceInProgress"

\* An acknowledged join or leave holds at every broker that has applied it: a
\* sync finds the member unless a leave was asked for it, and does not find it
\* once that leave was acknowledged.  That survives requests that failed after
\* they had changed the object in a store, answers lost although raft has the
\* entry, and a change of leader; not a write from an object that is behind
\* (raced).
AnswersKept ==
  ~raced =>
    \A b \in Brokers, m \in Members :
      /\ joined[m] \in 1 .. GetGroup(b) /\ m \notin leaving => SyncGroup(b, m) = "ErrRebalanceInProgress"
      /\ left[m] \in 1 .. GetGroup(b) => SyncGroup(b, m) = "ErrUnknownMemberId"

\* All the joins that are acknowledged name the same LeaderID, so that at most one
\* client computes assignments, although a broker picks a leader in an
\* object of its own before raft has it.
LeaderAgreed == ~raced => \A m, n \in answered : m = n
=============================================================================
