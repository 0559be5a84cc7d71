---------------------------- MODULE GroupsProofs ---------------------------
(***************************************************************************)
(* Acknowledged joins and leaves hold, and all joins name one leader, for  *)
(* any number of brokers, members, requests and faults, as long as no      *)
(* group is written from an object that is behind.                         *)
(***************************************************************************)
EXTENDS Groups, TLAPS

-----------------------------------------------------------------------------
\* The invariant.

Versions == [members : SUBSET Members, LeaderID : Members \cup {None}, Coordinator : Brokers]
Requests == [op : {"join", "rejoin", "leave"}, m : Members, ref : Nat, index : Nat]

Types ==
  /\ leader \in Brokers /\ since \in Nat /\ failover \in Nat
  /\ log \in Seq(Versions) /\ objects \in [Brokers -> Seq(Versions)]
  /\ request \in [Brokers -> Requests \cup {Idle}]
  /\ joined \in [Members -> Nat] /\ left \in [Members -> Nat]
  /\ leaving \subseteq Members /\ used \subseteq Members /\ answered \subseteq Members
  /\ raced \in BOOLEAN

\* From entry j on, everything in the log and in the stores is in S.
LogIn(j, S) == \A k \in 1 .. Len(log) : k >= j => log[k] \in S
ObjectsIn(j, S) == \A b \in Brokers : \A k \in 1 .. Len(objects[b]) : k >= j => objects[b][k] \in S
In(j, S) == LogIn(j, S) /\ ObjectsIn(j, S)

With(m) == {g \in Versions : m \in g.members}
Without(m) == {g \in Versions : m \notin g.members}
Led(m) == {g \in Versions : g.LeaderID = m}

\* A request is being handled; it has not been written yet; it has.
Busy(b) == request[b] # Idle
Reads(b) == Busy(b) /\ request[b].index = 0
Waits(b) == Busy(b) /\ request[b].index # 0

\* What the raft leader writes next, if it is not behind, is made of entry j or a
\* later one.
Settled(j) ==
  /\ j \in 1 .. Len(log)
  /\ \/ j <= since
     \/ j <= Len(objects[leader]) /\ (Reads(leader) => j <= request[leader].ref)

\* Only the leader has written anything since it became leader.
Bounds ==
  /\ since <= Len(log) /\ failover <= Len(objects[leader])
  /\ \A b \in Brokers : Len(objects[b]) <= Len(log)
  /\ \A b \in Brokers : Busy(b) => request[b].ref <= Len(objects[b]) /\ request[b].index <= Len(log)
  /\ \A b \in Brokers \ {leader} : Busy(b) => request[b].index <= since

\* A member ID that no group has seen.
Fresh(m) ==
  m \notin used \/ \E b \in Brokers : Reads(b) /\ request[b].op = "join" /\ request[b].m = m

Joins(b) == Busy(b) /\ request[b].op = "join"

MemberIDs ==
  /\ \A b \in Brokers : Busy(b) => request[b].m \in used
  /\ \A b \in Brokers : Busy(b) /\ request[b].op = "leave" => request[b].m \in leaving
  /\ \A b, c \in Brokers : Joins(b) /\ Joins(c) /\ request[b].m = request[c].m => b = c
  /\ \A m \in Members : Fresh(m) =>
       /\ In(0, Without(m)) /\ left[m] = 0
       /\ \A b \in Brokers : Busy(b) /\ request[b].m = m => request[b].op # "leave"

JoinsHold == \A m \in Members : joined[m] # 0 /\ m \notin leaving => Settled(joined[m]) /\ In(joined[m], With(m))
LeavesHold == \A m \in Members : left[m] # 0 => Settled(left[m]) /\ In(left[m], Without(m))
LeaderHolds ==
  \/ answered = {}
  \/ \E m \in Members : answered = {m} /\ \E j \in 1 .. Len(log) : Settled(j) /\ In(j, Led(m))

\* A request that waits to be answered holds already.
AnswerHolds(b) ==
  LET r == request[b]
  IN  /\ r.op = "join" /\ r.m \notin leaving => In(r.index, With(r.m))
      /\ r.op = "leave" => In(r.index, Without(r.m))
      /\ r.op # "leave" => In(r.index, Led(Edit(r, Held(b)).LeaderID))

Facts ==
  /\ JoinsHold /\ LeavesHold /\ LeaderHolds
  /\ \A b \in Brokers : Waits(b) => AnswerHolds(b)

IInv == Types /\ Bounds /\ MemberIDs /\ (~raced => Facts)

-----------------------------------------------------------------------------
\* Groups and sequences of groups.

\* A changed group is a group.
LEMMA EditType ==
  ASSUME NEW r \in Requests, NEW g \in Versions
  PROVE  /\ Edit(r, g) \in Versions
         /\ Edit(r, g).members = CASE r.op = "leave" -> g.members \ {r.m}
                                   [] r.op = "join" -> g.members \cup {r.m}
                                   [] r.op = "rejoin" -> g.members
         /\ Edit(r, g).LeaderID = IF r.op # "leave" /\ g.LeaderID = None THEN r.m ELSE g.LeaderID
  BY Zenon DEF Edit, Versions, Requests

\* An element is replaced.
LEMMA ReplaceElement ==
  ASSUME NEW s \in Seq(Versions), NEW i \in 1 .. Len(s), NEW g \in Versions
  PROVE  /\ [s EXCEPT ![i] = g] \in Seq(Versions) /\ Len([s EXCEPT ![i] = g]) = Len(s)
         /\ \A k \in 1 .. Len(s) : [s EXCEPT ![i] = g][k] = IF k = i THEN g ELSE s[k]
  OBVIOUS

\* An entry is added to the log.
LEMMA LogAppend ==
  ASSUME log \in Seq(Versions), NEW j \in Nat, NEW S \in SUBSET Versions, LogIn(j, S),
         NEW g \in Versions, g \in S, log' = Append(log, g)
  PROVE  LogIn(j, S)'
<1>1. Len(log') = Len(log) + 1 /\ \A k \in 1 .. Len(log) + 1 : log'[k] = IF k = Len(log) + 1 THEN g ELSE log[k]
  OBVIOUS
<1>2. Len(log) \in Nat
  OBVIOUS
<1> SUFFICES ASSUME NEW k \in 1 .. Len(log'), k >= j PROVE log'[k] \in S
  BY DEF LogIn
<1>3. CASE k = Len(log) + 1
  BY <1>1, <1>3
<1>4. CASE k # Len(log) + 1
  <2>1. k \in 1 .. Len(log)
    BY <1>1, <1>2, <1>4
  <2> QED
    BY <1>1, <1>2, <2>1, <1>4 DEF LogIn
<1> QED
  BY <1>3, <1>4

\* An object is changed.
LEMMA ObjectsEdit ==
  ASSUME objects \in [Brokers -> Seq(Versions)], NEW j \in Nat, NEW S \in SUBSET Versions, ObjectsIn(j, S),
         NEW b \in Brokers, NEW i \in 1 .. Len(objects[b]), NEW g \in Versions, i >= j => g \in S,
         objects' = [objects EXCEPT ![b][i] = g]
  PROVE  ObjectsIn(j, S)'
<1>1. objects[b] \in Seq(Versions)
  OBVIOUS
<1>2. objects'[b] = [objects[b] EXCEPT ![i] = g] /\ \A c \in Brokers \ {b} : objects'[c] = objects[c]
  OBVIOUS
<1>3. Len(objects'[b]) = Len(objects[b]) /\ \A k \in 1 .. Len(objects[b]) : objects'[b][k] = IF k = i THEN g ELSE objects[b][k]
  BY <1>1, <1>2, ReplaceElement
<1> SUFFICES ASSUME NEW c \in Brokers, NEW k \in 1 .. Len(objects'[c]), k >= j PROVE objects'[c][k] \in S
  BY DEF ObjectsIn
<1>4. CASE c = b
  BY <1>3, <1>4 DEF ObjectsIn
<1>5. CASE c # b
  BY <1>2, <1>5 DEF ObjectsIn
<1> QED
  BY <1>4, <1>5

\* The next entry is applied.
LEMMA ObjectsApply ==
  ASSUME Types, Bounds, NEW j \in Nat, NEW S \in SUBSET Versions, In(j, S),
         NEW b \in Brokers, Len(objects[b]) < Len(log),
         objects' = [objects EXCEPT ![b] = Append(@, log[Len(@) + 1])]
  PROVE  ObjectsIn(j, S)'
<1> DEFINE n == Len(objects[b]) + 1
           g == log[n]
<1>1. objects[b] \in Seq(Versions) /\ n \in 1 .. Len(log) /\ g \in Versions /\ Len(objects[b]) \in Nat
  BY DEF Types
<1>2. objects'[b] = Append(objects[b], g) /\ \A c \in Brokers \ {b} : objects'[c] = objects[c]
  BY DEF Types
<1>3. Len(objects'[b]) = n /\ \A k \in 1 .. n : objects'[b][k] = IF k = n THEN g ELSE objects[b][k]
  BY <1>1, <1>2
<1>4. n >= j => g \in S
  BY <1>1 DEF In, LogIn
<1> HIDE DEF g
<1> SUFFICES ASSUME NEW c \in Brokers, NEW k \in 1 .. Len(objects'[c]), k >= j PROVE objects'[c][k] \in S
  BY DEF ObjectsIn
<1>5. CASE c = b /\ k = n
  BY <1>1, <1>3, <1>4, <1>5
<1>6. CASE c = b /\ k # n
  <2>1. k \in 1 .. Len(objects[b])
    BY <1>1, <1>3, <1>6
  <2> QED
    BY <1>1, <1>3, <1>6, <2>1 DEF In, ObjectsIn
<1>7. CASE c # b
  BY <1>2, <1>7 DEF In, ObjectsIn
<1> QED
  BY <1>5, <1>6, <1>7

-----------------------------------------------------------------------------
\* What the steps have in common.

\* A request changes nothing about the members it is not about, and no leader.
LEMMA EditKeeps ==
  ASSUME NEW r \in Requests, NEW g \in Versions, NEW m \in Members
  PROVE  /\ g \in With(m) /\ ~(r.op = "leave" /\ r.m = m) => Edit(r, g) \in With(m)
         /\ g \in Without(m) /\ ~(r.op = "join" /\ r.m = m) => Edit(r, g) \in Without(m)
         /\ g \in Led(m) => Edit(r, g) \in Led(m)
<1>1. r.op \in {"join", "rejoin", "leave"}
  BY DEF Requests
<1>2. m # None
  BY NoneAssumption
<1> QED
  BY <1>1, <1>2, EditType, Zenon DEF With, Without, Led

\* An answer names a leader, which depends on the leader of the group alone.
LEMMA AnswerLeader ==
  ASSUME NEW r \in Requests, NEW g \in Versions, NEW h \in Versions, r.op # "leave"
  PROVE  /\ Edit(r, g).LeaderID \in Members
         /\ g.LeaderID = h.LeaderID => Edit(r, g).LeaderID = Edit(r, h).LeaderID
<1>1. r.m \in Members /\ g.LeaderID \in Members \cup {None}
  BY DEF Versions, Requests
<1>2. Edit(r, g).LeaderID = IF g.LeaderID = None THEN r.m ELSE g.LeaderID
  BY EditType, Zenon
<1>3. Edit(r, h).LeaderID = IF h.LeaderID = None THEN r.m ELSE h.LeaderID
  BY EditType, Zenon
<1> QED
  BY <1>1, <1>2, <1>3

\* A handler holds a group.
LEMMA HeldType ==
  ASSUME Types, Bounds, NEW b \in Brokers, Busy(b)
  PROVE  /\ request[b] \in Requests /\ Held(b) \in Versions
         /\ request[b].ref = 0 => Held(b) = NewGroup(b)
         /\ request[b].ref # 0 => request[b].ref \in 1 .. Len(objects[b]) /\ Held(b) = objects[b][request[b].ref]
<1>1. request[b] \in Requests
  BY DEF Types, Busy
<1>2. request[b].ref \in Nat /\ request[b].ref <= Len(objects[b]) /\ objects[b] \in Seq(Versions)
  BY <1>1 DEF Types, Bounds, Requests
<1>3. NewGroup(b) \in Versions
  BY DEF NewGroup, Versions
<1>4. CASE request[b].ref = 0
  BY <1>1, <1>3, <1>4 DEF Held
<1>5. CASE request[b].ref # 0
  <2>1. request[b].ref \in 1 .. Len(objects[b])
    BY <1>2, <1>5
  <2>2. objects[b][request[b].ref] \in Versions
    BY <1>2, <2>1
  <2> QED
    BY <1>1, <1>5, <2>1, <2>2 DEF Held
<1> QED
  BY <1>4, <1>5

\* The entries an answer rests on.
Safe(j) == Settled(j) \/ \E b \in Brokers : Waits(b) /\ request[b].index = j

\* A step that keeps what it has to keep of the log and of the stores, keeps the facts.
LEMMA FactsKept ==
  ASSUME Types, Bounds, MemberIDs, Facts, UNCHANGED history, leaving \subseteq leaving',
         Len(log) <= Len(log'),
         \A j \in Nat : Settled(j) => Settled(j)',
         \A j \in Nat, m \in Members : Safe(j) =>
           /\ m \notin leaving /\ In(j, With(m)) => In(j, With(m))'
           /\ ~Fresh(m) /\ In(j, Without(m)) => In(j, Without(m))'
           /\ In(j, Led(m)) => In(j, Led(m))',
         NEW B \in SUBSET Brokers,
         \A b \in B : Waits(b)' =>
           /\ Waits(b) /\ request'[b] = request[b]
           /\ Held(b)' \in Versions /\ Held(b)'.LeaderID = Held(b).LeaderID
  PROVE  /\ JoinsHold' /\ LeavesHold' /\ LeaderHolds'
         /\ \A b \in B : Waits(b)' => AnswerHolds(b)'
<1>0. joined' = joined /\ left' = left /\ answered' = answered
  BY DEF history
<1>1. JoinsHold'
  <2> SUFFICES ASSUME NEW m \in Members, joined[m] # 0, m \notin leaving'
               PROVE  Settled(joined[m])' /\ In(joined[m], With(m))'
    BY <1>0 DEF JoinsHold
  <2>1. joined[m] \in Nat /\ m \notin leaving /\ Settled(joined[m]) /\ In(joined[m], With(m))
    BY DEF Types, Facts, JoinsHold
  <2>2. Settled(joined[m])'
    BY <1>0, <2>1
  <2>3. In(joined[m], With(m))'
    BY <1>0, <2>1 DEF Safe
  <2> QED
    BY <2>2, <2>3
<1>2. LeavesHold'
  <2> SUFFICES ASSUME NEW m \in Members, left[m] # 0
               PROVE  Settled(left[m])' /\ In(left[m], Without(m))'
    BY <1>0 DEF LeavesHold
  <2>1. left[m] \in Nat /\ ~Fresh(m) /\ Settled(left[m]) /\ In(left[m], Without(m))
    BY DEF Types, Facts, LeavesHold, MemberIDs
  <2>2. Settled(left[m])'
    BY <1>0, <2>1
  <2>3. In(left[m], Without(m))'
    BY <1>0, <2>1 DEF Safe
  <2> QED
    BY <2>2, <2>3
<1>3. LeaderHolds'
  <2> SUFFICES ASSUME answered # {}
               PROVE  \E m \in Members : answered = {m} /\ \E j \in 1 .. Len(log') : Settled(j)' /\ In(j, Led(m))'
    BY <1>0 DEF LeaderHolds
  <2>1. PICK m \in Members : answered = {m} /\ \E j \in 1 .. Len(log) : Settled(j) /\ In(j, Led(m))
    BY DEF Facts, LeaderHolds
  <2>2. PICK j \in 1 .. Len(log) : Settled(j) /\ In(j, Led(m))
    BY <2>1
  <2>3. Settled(j)' /\ In(j, Led(m))'
    BY <2>2 DEF Safe
  <2>4. j \in 1 .. Len(log')
    BY <2>3 DEF Settled
  <2> QED
    BY <2>1, <2>3, <2>4
<1>4. ASSUME NEW b \in B, Waits(b)' PROVE AnswerHolds(b)'
  <2> DEFINE r == request[b]
             n == Edit(r, Held(b)).LeaderID
  <2>1. Waits(b) /\ request'[b] = r /\ Held(b)'.LeaderID = Held(b).LeaderID /\ b \in Brokers /\ Busy(b)
    BY <1>4 DEF Waits
  <2>2. r \in Requests /\ Held(b) \in Versions /\ Held(b)' \in Versions
    BY <1>4, <2>1, HeldType
  <2>3. r.index \in Nat /\ Safe(r.index) /\ r.m \in Members
    BY <2>1, <2>2 DEF Safe, Requests
  <2>4. AnswerHolds(b)
    BY <2>1 DEF Facts
  <2>5. r.op = "join" /\ r.m \notin leaving' => In(r.index, With(r.m))'
    <3>1. r.op = "join" /\ r.m \notin leaving => In(r.index, With(r.m))
      BY <2>4 DEF AnswerHolds
    <3> QED
      BY <2>1, <2>3, <3>1
  <2>6. r.op = "leave" => In(r.index, Without(r.m))'
    <3>1. r.op = "leave" => In(r.index, Without(r.m)) /\ ~Fresh(r.m)
      BY <2>1, <2>3, <2>4 DEF AnswerHolds, MemberIDs
    <3> QED
      BY <2>1, <2>3, <3>1
  <2>7. r.op # "leave" => In(r.index, Led(n))'
    <3>1. r.op # "leave" => n \in Members
      BY <2>2, AnswerLeader
    <3>2. r.op # "leave" => In(r.index, Led(n))
      BY <2>4 DEF AnswerHolds
    <3>3. r.op # "leave" => n' = n
      BY <2>1, <2>2, AnswerLeader
    <3> HIDE DEF n
    <3> QED
      BY <2>1, <2>3, <3>1, <3>2, <3>3
  <2> QED
    BY <2>1, <2>2, <2>5, <2>6, <2>7, AnswerLeader DEF AnswerHolds
<1> QED
  BY <1>1, <1>2, <1>3, <1>4

\* A step that begins no request keeps what is known of the member IDs.
LEMMA IDsKept ==
  ASSUME Types, MemberIDs, used' = used, leaving' = leaving,
         \A b \in Brokers : Busy(b)' => Busy(b) /\ request'[b].op = request[b].op /\ request'[b].m = request[b].m,
         \A b \in Brokers : Reads(b)' => Reads(b),
         \A m \in Members : Fresh(m)' /\ In(0, Without(m)) => In(0, Without(m))' /\ left'[m] = left[m]
  PROVE  MemberIDs'
<1>1. \A m \in Members : Fresh(m)' => Fresh(m)
  BY DEF Fresh, Reads
<1>2. \A b \in Brokers : Joins(b)' => Joins(b)
  BY DEF Joins
<1>3. \A b \in Brokers : Busy(b)' => request'[b].m \in used'
  BY DEF MemberIDs
<1>4. \A b \in Brokers : Busy(b)' /\ request'[b].op = "leave" => request'[b].m \in leaving'
  BY DEF MemberIDs
<1>5. \A b, c \in Brokers : Joins(b)' /\ Joins(c)' /\ request'[b].m = request'[c].m => b = c
  BY <1>2 DEF MemberIDs, Joins
<1>6. ASSUME NEW m \in Members, Fresh(m)'
      PROVE  /\ In(0, Without(m))' /\ left'[m] = 0
             /\ \A b \in Brokers : Busy(b)' /\ request'[b].m = m => request'[b].op # "leave"
  BY <1>1, <1>6 DEF MemberIDs
<1> QED
  BY <1>3, <1>4, <1>5, <1>6 DEF MemberIDs

\* A step that leaves the log and the stores alone.
LEMMA InSame ==
  ASSUME UNCHANGED <<log, objects>>, NEW j \in Nat, NEW S
  PROVE  In(j, S)' <=> In(j, S)
  BY DEF In, LogIn, ObjectsIn

\* A step that leaves the log, the stores and the history alone keeps the facts.
LEMMA FactsSame ==
  ASSUME Types, Bounds, MemberIDs, ~raced => Facts, UNCHANGED <<log, objects, history, raced>>,
         leaving \subseteq leaving',
         \A j \in Nat : Settled(j) => Settled(j)',
         \A b \in Brokers : Waits(b)' => Waits(b) /\ request'[b] = request[b]
  PROVE  ~raced' => Facts'
<1> SUFFICES ASSUME ~raced PROVE Facts'
  OBVIOUS
<1>1. Facts /\ Len(log) <= Len(log')
  BY DEF Types
<1>2. \A j \in Nat, m \in Members : Safe(j) =>
           /\ m \notin leaving /\ In(j, With(m)) => In(j, With(m))'
           /\ ~Fresh(m) /\ In(j, Without(m)) => In(j, Without(m))'
           /\ In(j, Led(m)) => In(j, Led(m))'
  BY InSame DEF With, Without, Led
<1>3. ASSUME NEW b \in Brokers, Waits(b)'
      PROVE  /\ Waits(b) /\ request'[b] = request[b]
             /\ Held(b)' \in Versions /\ Held(b)'.LeaderID = Held(b).LeaderID
  <2>1. Waits(b) /\ request'[b] = request[b] /\ Held(b)' = Held(b)
    BY <1>3 DEF Held
  <2> QED
    BY <2>1, HeldType DEF Waits
<1>4. /\ JoinsHold' /\ LeavesHold' /\ LeaderHolds'
      /\ \A b \in Brokers : Waits(b)' => AnswerHolds(b)'
  BY <1>1, <1>2, <1>3, FactsKept
<1> QED
  BY <1>4 DEF Facts

-----------------------------------------------------------------------------
\* The steps.

\* Nothing has happened at first.
LEMMA InitIInv == Init => IInv
<1> SUFFICES ASSUME Init PROVE IInv
  OBVIOUS
<1>1. Types
  <2>1. request \in [Brokers -> Requests \cup {Idle}]
    BY DEF Init
  <2>2. log \in Seq(Versions) /\ objects \in [Brokers -> Seq(Versions)]
    BY DEF Init
  <2>3. joined \in [Members -> Nat] /\ left \in [Members -> Nat]
    BY DEF Init
  <2>4. raced \in BOOLEAN /\ leader \in Brokers /\ since \in Nat /\ failover \in Nat
    BY Zenon DEF Init
  <2>5. leaving \subseteq Members /\ used \subseteq Members /\ answered \subseteq Members
    BY DEF Init
  <2> QED
    BY <2>1, <2>2, <2>3, <2>4, <2>5 DEF Types
<1>2. \A b \in Brokers : ~Busy(b) /\ Len(objects[b]) = 0
  BY Zenon DEF Init, Busy
<1>3. Bounds
  BY <1>2 DEF Init, Bounds
<1>4. \A m \in Members : In(0, Without(m)) /\ left[m] = 0
  BY <1>2 DEF Init, In, LogIn, ObjectsIn
<1>5. MemberIDs
  BY <1>2, <1>4 DEF Init, MemberIDs, Joins
<1>6. Facts
  BY <1>2 DEF Init, Facts, JoinsHold, LeavesHold, LeaderHolds, Waits
<1> QED
  BY <1>1, <1>3, <1>5, <1>6 DEF IInv

\* A join begins, with an ID nobody has or with one in use.
LEMMA JoinGroupKeeps ==
  ASSUME IInv, NEW b \in Brokers, NEW m \in Members, JoinGroup(b, m)
  PROVE  IInv'
<1> DEFINE r == [op |-> IF m \in used THEN "rejoin" ELSE "join", m |-> m, ref |-> GetGroup(b), index |-> 0]
<1>0. Types /\ Bounds /\ MemberIDs /\ (~raced => Facts)
  BY DEF IInv
<1>1. /\ request[b] = Idle /\ request' = [request EXCEPT ![b] = r] /\ used' = used \cup {m}
      /\ UNCHANGED <<leader, since, log, objects, failover, leaving, raced, joined, left, answered>>
  BY DEF JoinGroup, history
<1>2. r \in Requests /\ r # Idle /\ r.ref = Len(objects[b]) /\ r.index = 0 /\ r.m = m
      /\ r.op = IF m \in used THEN "rejoin" ELSE "join"
  BY <1>0 DEF Types, Requests, GetGroup, Idle
<1>3. request'[b] = r /\ \A c \in Brokers \ {b} : request'[c] = request[c]
  BY <1>0, <1>1 DEF Types
<1> HIDE DEF r
<1>4. Types'
  BY <1>0, <1>1, <1>2 DEF Types
<1>5. Bounds'
  BY <1>0, <1>1, <1>2, <1>3 DEF Bounds, Busy, Types
<1>6. MemberIDs'
  <2>1. \A n \in Members : Fresh(n)' => Fresh(n)
    BY <1>1, <1>2, <1>3 DEF Fresh, Reads, Busy
  <2>2. \A n \in Members : In(0, Without(n))' <=> In(0, Without(n))
    BY <1>1, InSame DEF Without
  <2>3. \A c \in Brokers : Busy(c)' => request'[c].m \in used'
    BY <1>0, <1>1, <1>2, <1>3 DEF MemberIDs, Busy
  <2>4. \A c \in Brokers : Busy(c)' /\ request'[c].op = "leave" => request'[c].m \in leaving'
    BY <1>0, <1>1, <1>2, <1>3 DEF MemberIDs, Busy
  <2>5. \A c, d \in Brokers : Joins(c)' /\ Joins(d)' /\ request'[c].m = request'[d].m => c = d
    BY <1>0, <1>2, <1>3 DEF MemberIDs, Busy, Joins
  <2>6. ASSUME NEW n \in Members, Fresh(n)'
        PROVE  /\ In(0, Without(n))' /\ left'[n] = 0
               /\ \A c \in Brokers : Busy(c)' /\ request'[c].m = n => request'[c].op # "leave"
    BY <1>0, <1>1, <1>2, <1>3, <2>1, <2>2, <2>6 DEF MemberIDs, Busy
  <2> QED
    BY <2>3, <2>4, <2>5, <2>6 DEF MemberIDs
<1>7. ~raced' => Facts'
  <2>1. \A j \in Nat : Settled(j) => Settled(j)'
    BY <1>0, <1>1, <1>2, <1>3 DEF Settled, Reads, Busy
  <2>2. \A c \in Brokers : Waits(c)' => Waits(c) /\ request'[c] = request[c]
    BY <1>2, <1>3 DEF Waits, Busy
  <2> QED
    BY <1>0, <1>1, <2>1, <2>2, FactsSame DEF history
<1> QED
  BY <1>4, <1>5, <1>6, <1>7 DEF IInv

\* A leave begins, for a member the store has.
LEMMA LeaveGroupKeeps ==
  ASSUME IInv, NEW b \in Brokers, NEW m \in Members, LeaveGroup(b, m)
  PROVE  IInv'
<1> DEFINE r == [op |-> "leave", m |-> m, ref |-> GetGroup(b), index |-> 0]
<1>0. Types /\ Bounds /\ MemberIDs /\ (~raced => Facts)
  BY DEF IInv
<1>1. /\ request[b] = Idle /\ request' = [request EXCEPT ![b] = r] /\ leaving' = leaving \cup {m}
      /\ GetGroup(b) # 0 /\ m \in objects[b][GetGroup(b)].members
      /\ UNCHANGED <<leader, since, log, objects, failover, used, raced, joined, left, answered>>
  BY DEF LeaveGroup, history
<1>2. r \in Requests /\ r # Idle /\ r.ref = Len(objects[b]) /\ r.index = 0 /\ r.m = m /\ r.op = "leave"
  BY <1>0 DEF Types, Requests, GetGroup, Idle
<1>3. request'[b] = r /\ \A c \in Brokers \ {b} : request'[c] = request[c]
  BY <1>0, <1>1 DEF Types
<1> HIDE DEF r
<1>4. Types'
  BY <1>0, <1>1, <1>2 DEF Types
<1>5. Bounds'
  BY <1>0, <1>1, <1>2, <1>3 DEF Bounds, Busy, Types
<1>6. MemberIDs'
  <2>0. ~Fresh(m)
    <3>1. Len(objects[b]) \in 1 .. Len(objects[b]) /\ m \in objects[b][Len(objects[b])].members
      BY <1>0, <1>1 DEF Types, GetGroup
    <3>2. ~In(0, Without(m))
      BY <3>1 DEF In, ObjectsIn, Without
    <3> QED
      BY <1>0, <3>2 DEF MemberIDs
  <2>1. \A n \in Members : Fresh(n)' => Fresh(n)
    BY <1>1, <1>2, <1>3 DEF Fresh, Reads, Busy
  <2>2. \A n \in Members : In(0, Without(n))' <=> In(0, Without(n))
    BY <1>1, InSame, Zenon DEF Without
  <2>3. \A c \in Brokers : Busy(c)' => request'[c].m \in used'
    BY <1>0, <1>1, <1>2, <1>3, <2>0 DEF MemberIDs, Busy, Fresh
  <2>4. \A c \in Brokers : Busy(c)' /\ request'[c].op = "leave" => request'[c].m \in leaving'
    BY <1>0, <1>1, <1>2, <1>3 DEF MemberIDs, Busy
  <2>5. \A c, d \in Brokers : Joins(c)' /\ Joins(d)' /\ request'[c].m = request'[d].m => c = d
    BY <1>0, <1>2, <1>3 DEF MemberIDs, Busy, Joins
  <2>6. ASSUME NEW n \in Members, Fresh(n)'
        PROVE  /\ In(0, Without(n))' /\ left'[n] = 0
               /\ \A c \in Brokers : Busy(c)' /\ request'[c].m = n => request'[c].op # "leave"
    BY <1>0, <1>1, <1>2, <1>3, <2>0, <2>1, <2>2, <2>6 DEF MemberIDs, Busy
  <2> QED
    BY <2>3, <2>4, <2>5, <2>6 DEF MemberIDs
<1>7. ~raced' => Facts'
  <2>1. \A j \in Nat : Settled(j) => Settled(j)'
    BY <1>0, <1>1, <1>2, <1>3 DEF Settled, Reads, Busy
  <2>2. \A c \in Brokers : Waits(c)' => Waits(c) /\ request'[c] = request[c]
    BY <1>2, <1>3 DEF Waits, Busy
  <2> QED
    BY <1>0, <1>1, <2>1, <2>2, FactsSame, Zenon DEF history
<1> QED
  BY <1>4, <1>5, <1>6, <1>7 DEF IInv

\* A store applies an entry, which holds already what the log holds.
LEMMA ApplyKeeps ==
  ASSUME IInv, NEW b \in Brokers, ApplyRegisterGroup(b)
  PROVE  IInv'
<1>0. Types /\ Bounds /\ MemberIDs /\ (~raced => Facts)
  BY DEF IInv
<1>1. /\ Len(objects[b]) < Len(log) /\ objects' = [objects EXCEPT ![b] = Append(@, log[Len(@) + 1])]
      /\ UNCHANGED <<leader, since, log, request, failover, leaving, used, raced, joined, left, answered>>
  BY DEF ApplyRegisterGroup, history
<1> DEFINE g == log[Len(objects[b]) + 1]
<1>2. /\ objects[b] \in Seq(Versions) /\ Len(objects[b]) \in Nat /\ Len(log) \in Nat
      /\ Len(objects[b]) + 1 \in 1 .. Len(log)
  BY <1>0, <1>1 DEF Types
<1>3. g \in Versions
  BY <1>0, <1>2 DEF Types
<1>4. objects'[b] = Append(objects[b], g) /\ \A c \in Brokers \ {b} : objects'[c] = objects[c]
  BY <1>0, <1>1 DEF Types
<1> HIDE DEF g
<1>5. /\ objects'[b] \in Seq(Versions) /\ Len(objects'[b]) = Len(objects[b]) + 1
      /\ \A k \in 1 .. Len(objects[b]) : objects'[b][k] = objects[b][k]
  BY <1>2, <1>3, <1>4
<1>6. objects' \in [Brokers -> Seq(Versions)]
  <2>1. objects' = [c \in Brokers |-> objects'[c]]
    BY <1>0, <1>1, Zenon DEF Types
  <2>2. \A c \in Brokers : objects'[c] \in Seq(Versions)
    BY <1>0, <1>4, <1>5, Zenon DEF Types
  <2> QED
    BY <2>1, <2>2
<1>7. Types'
  BY <1>0, <1>1, <1>6 DEF Types
<1>8. \A c \in Brokers : Len(objects[c]) \in Nat /\ Len(objects[c]) <= Len(objects'[c]) /\ Len(objects'[c]) <= Len(log)
  BY <1>0, <1>1, <1>2, <1>4, <1>5 DEF Types, Bounds
<1>9. \A c \in Brokers : /\ Busy(c)' <=> Busy(c)
                         /\ Reads(c)' <=> Reads(c)
                         /\ Waits(c)' <=> Waits(c)
  BY <1>1 DEF Busy, Reads, Waits
<1>10. Bounds'
  <2>1. \A c \in Brokers : Busy(c)' => request'[c].ref <= Len(objects'[c]) /\ request'[c].index <= Len(log')
    <3> SUFFICES ASSUME NEW c \in Brokers, Busy(c)
                 PROVE  request[c].ref <= Len(objects'[c]) /\ request[c].index <= Len(log)
      BY <1>1, <1>9
    <3>1. request[c] \in Requests
      BY <1>0 DEF Types, Busy
    <3> QED
      BY <1>0, <1>8, <3>1 DEF Bounds, Types, Requests
  <2>2. failover' <= Len(objects'[leader'])
    BY <1>0, <1>1, <1>8 DEF Bounds, Types
  <2> QED
    BY <1>0, <1>1, <1>8, <1>9, <2>1, <2>2 DEF Bounds
<1>11. ASSUME NEW j \in Nat, NEW S \in SUBSET Versions, In(j, S) PROVE In(j, S)'
  <2>1. ObjectsIn(j, S)'
    BY <1>0, <1>1, <1>11, ObjectsApply, Zenon
  <2>2. LogIn(j, S)'
    BY <1>1, <1>11 DEF In, LogIn
  <2> QED
    BY <2>1, <2>2 DEF In
<1>12. \A m \in Members : With(m) \in SUBSET Versions /\ Without(m) \in SUBSET Versions /\ Led(m) \in SUBSET Versions
  BY DEF With, Without, Led
<1>13. MemberIDs'
  BY <1>0, <1>1, <1>9, <1>11, <1>12, IDsKept
<1>14. ~raced' => Facts'
  <2> SUFFICES ASSUME ~raced PROVE Facts'
    BY <1>1
  <2>1. \A j \in Nat : Settled(j) => Settled(j)'
    <3> SUFFICES ASSUME NEW j \in Nat, Settled(j) PROVE Settled(j)'
      OBVIOUS
    <3>1. Len(objects[leader]) \in Nat /\ Len(objects'[leader]) \in Nat /\ Len(objects[leader]) <= Len(objects'[leader])
      BY <1>0, <1>6, <1>8 DEF Types
    <3> QED
      BY <1>0, <1>1, <1>9, <3>1 DEF Settled, Types
  <2>2. ASSUME NEW c \in Brokers, Waits(c)'
        PROVE  /\ Waits(c) /\ request'[c] = request[c]
               /\ Held(c)' \in Versions /\ Held(c)'.LeaderID = Held(c).LeaderID
    <3>1. Waits(c) /\ Busy(c) /\ request'[c] = request[c]
      BY <1>1, <1>9, <2>2 DEF Waits
    <3>2. Held(c) \in Versions
      BY <1>0, <3>1, HeldType
    <3>3. Held(c)' = Held(c)
      <4>1. CASE request[c].ref = 0
        BY <3>1, <4>1 DEF Held, NewGroup
      <4>2. CASE request[c].ref # 0
        <5>1. request[c].ref \in 1 .. Len(objects[c])
          BY <1>0, <3>1, <4>2, HeldType
        <5>2. objects'[c][request[c].ref] = objects[c][request[c].ref]
          BY <1>4, <1>5, <5>1
        <5> QED
          BY <3>1, <4>2, <5>2 DEF Held
      <4> QED
        BY <4>1, <4>2
    <3> QED
      BY <3>1, <3>2, <3>3
  <2>3. \A j \in Nat, m \in Members : Safe(j) =>
           /\ m \notin leaving /\ In(j, With(m)) => In(j, With(m))'
           /\ ~Fresh(m) /\ In(j, Without(m)) => In(j, Without(m))'
           /\ In(j, Led(m)) => In(j, Led(m))'
    BY <1>11, <1>12, Zenon
  <2>4. /\ JoinsHold' /\ LeavesHold' /\ LeaderHolds'
        /\ \A c \in Brokers : Waits(c)' => AnswerHolds(c)'
    BY <1>0, <1>1, <1>2, <2>1, <2>2, <2>3, FactsKept DEF history
  <2> QED
    BY <2>4 DEF Facts
<1> QED
  BY <1>7, <1>10, <1>13, <1>14 DEF IInv

\* The end of a request without an answer, a new leader, and steps that change
\* neither log nor stores.
LEMMA TimeoutKeeps ==
  ASSUME IInv, NEW b \in Brokers, Timeout(b)
  PROVE  IInv'
<1>0. Types /\ Bounds /\ MemberIDs /\ (~raced => Facts)
  BY DEF IInv
<1>1. /\ Waits(b) /\ request' = [request EXCEPT ![b] = Idle]
      /\ UNCHANGED <<leader, since, log, objects, failover, leaving, used, raced, joined, left, answered>>
  BY DEF Timeout, history, Waits, Busy
<1>2. request'[b] = Idle /\ \A c \in Brokers \ {b} : request'[c] = request[c]
  BY <1>0, <1>1 DEF Types
<1>3. Types'
  BY <1>0, <1>1 DEF Types
<1>4. \A c \in Brokers : Busy(c)' => c # b /\ Busy(c) /\ request'[c] = request[c]
  BY <1>2 DEF Busy
<1>5. Bounds'
  BY <1>0, <1>1, <1>4 DEF Bounds
<1>6. MemberIDs'
  BY <1>0, <1>1, <1>4, InSame, IDsKept DEF Reads, Without
<1>7. ~raced' => Facts'
  <2>1. \A j \in Nat : Settled(j) => Settled(j)'
    BY <1>0, <1>1, <1>2 DEF Settled, Reads, Busy, Types
  <2> QED
    BY <1>0, <1>1, <1>4, <2>1, FactsSame DEF history, Waits
<1> QED
  BY <1>3, <1>5, <1>6, <1>7 DEF IInv

\* Another broker becomes leader: all that is in the log is settled then.
LEMMA ChangeLeaderKeeps ==
  ASSUME IInv, NEW b \in Brokers, ChangeLeader(b)
  PROVE  IInv'
<1>0. Types /\ Bounds /\ MemberIDs /\ (~raced => Facts)
  BY DEF IInv
<1>1. /\ leader' = b /\ since' = Len(log) /\ failover' = 0
      /\ UNCHANGED <<log, objects, request, leaving, used, raced, joined, left, answered>>
  BY DEF ChangeLeader, history
<1>2. Types'
  BY <1>0, <1>1 DEF Types
<1>3. \A c \in Brokers : Busy(c)' <=> Busy(c)
  BY <1>1 DEF Busy
<1>4. Bounds'
  BY <1>0, <1>1, <1>3 DEF Bounds, Types
<1>5. MemberIDs'
  BY <1>0, <1>1, <1>3, InSame, IDsKept DEF Reads, Without
<1>6. ~raced' => Facts'
  <2>1. \A j \in Nat : Settled(j) => Settled(j)'
    BY <1>1 DEF Settled
  <2> QED
    BY <1>0, <1>1, <1>3, <2>1, FactsSame DEF history, Waits
<1> QED
  BY <1>2, <1>4, <1>5, <1>6 DEF IInv

\* The failover finds the group, or nothing happens.
LEMMA SameKeeps ==
  ASSUME IInv, failover' \in Nat, failover' <= Len(objects[leader]),
         UNCHANGED <<leader, since, log, objects, request, leaving, used, raced, history>>
  PROVE  IInv'
<1>0. Types /\ Bounds /\ MemberIDs /\ (~raced => Facts)
  BY DEF IInv
<1>1. UNCHANGED <<leader, since, log, objects, request, leaving, used, raced, joined, left, answered>>
  BY DEF history
<1>2. Types'
  BY <1>0, <1>1 DEF Types
<1>3. \A c \in Brokers : Busy(c)' <=> Busy(c)
  BY <1>1 DEF Busy
<1>4. Bounds'
  BY <1>0, <1>1, <1>3 DEF Bounds
<1>5. MemberIDs'
  BY <1>0, <1>1, <1>3, InSame, IDsKept DEF Reads, Without
<1>6. ~raced' => Facts'
  <2>1. \A j \in Nat : Settled(j) => Settled(j)'
    BY <1>1 DEF Settled, Reads, Busy
  <2> QED
    BY <1>0, <1>1, <1>3, <2>1, FactsSame DEF history, Waits
<1> QED
  BY <1>2, <1>4, <1>5, <1>6 DEF IInv

\* An object in a store is changed.
LEMMA ObjectReplaced ==
  ASSUME objects \in [Brokers -> Seq(Versions)], NEW b \in Brokers, NEW i \in 1 .. Len(objects[b]),
         NEW g \in Versions, objects' = [objects EXCEPT ![b][i] = g]
  PROVE  /\ objects' \in [Brokers -> Seq(Versions)]
         /\ \A c \in Brokers : Len(objects'[c]) = Len(objects[c])
         /\ \A c \in Brokers \ {b} : objects'[c] = objects[c]
         /\ \A k \in 1 .. Len(objects[b]) : objects'[b][k] = IF k = i THEN g ELSE objects[b][k]
<1>1. objects[b] \in Seq(Versions)
  OBVIOUS
<1>2. objects'[b] = [objects[b] EXCEPT ![i] = g] /\ \A c \in Brokers \ {b} : objects'[c] = objects[c]
  OBVIOUS
<1>3. /\ objects'[b] \in Seq(Versions) /\ Len(objects'[b]) = Len(objects[b])
      /\ \A k \in 1 .. Len(objects[b]) : objects'[b][k] = IF k = i THEN g ELSE objects[b][k]
  BY <1>1, <1>2, ReplaceElement
<1>4. objects' = [c \in Brokers |-> objects'[c]]
  BY Zenon
<1>5. \A c \in Brokers : objects'[c] \in Seq(Versions)
  BY <1>2, <1>3
<1> QED
  BY <1>2, <1>3, <1>4, <1>5

\* The failover registers the object it holds with another coordinator.
LEMMA ReassignKeeps ==
  ASSUME IInv, ReassignCoordinator
  PROVE  IInv'
<1>0. Types /\ Bounds /\ MemberIDs /\ (~raced => Facts)
  BY DEF IInv
<1> DEFINE old == objects[leader][failover]
           new(n) == [old EXCEPT !.Coordinator = n]
<1>1. PICK n \in Brokers :
        /\ objects' = [objects EXCEPT ![leader][failover] = new(n)]
        /\ \/ log' = Append(log, new(n)) /\ raced' = (raced \/ failover # Len(log))
           \/ UNCHANGED <<log, raced>>
  BY Zenon DEF ReassignCoordinator
<1> DEFINE g == new(n)
<1>2. /\ failover # 0 /\ failover' = 0
      /\ UNCHANGED <<leader, since, request, leaving, used, joined, left, answered>>
  BY DEF ReassignCoordinator, history
<1>3. /\ leader \in Brokers /\ objects[leader] \in Seq(Versions) /\ failover \in 1 .. Len(objects[leader])
      /\ Len(log) \in Nat /\ failover <= Len(log)
  BY <1>0, <1>2 DEF Types, Bounds
<1>4. old \in Versions
  BY <1>3
<1>5. g \in Versions /\ g.members = old.members /\ g.LeaderID = old.LeaderID
  BY <1>4 DEF Versions
<1> HIDE DEF g, old, new
<1>6. /\ objects' \in [Brokers -> Seq(Versions)]
      /\ \A c \in Brokers : Len(objects'[c]) = Len(objects[c])
      /\ \A c \in Brokers \ {leader} : objects'[c] = objects[c]
      /\ \A k \in 1 .. Len(objects[leader]) : objects'[leader][k] = IF k = failover THEN g ELSE objects[leader][k]
  BY <1>0, <1>1, <1>3, <1>5, ObjectReplaced DEF Types, g
<1>7. log' \in Seq(Versions) /\ Len(log') \in Nat /\ Len(log) <= Len(log')
  <2>1. log \in Seq(Versions) /\ (log' = log \/ log' = Append(log, g))
    BY <1>0, <1>1 DEF Types, g
  <2> QED
    BY <1>3, <1>5, <2>1
<1>8. raced' \in BOOLEAN
  BY <1>0, <1>1, Zenon DEF Types
<1>9. Types'
  BY <1>0, <1>2, <1>6, <1>7, <1>8 DEF Types
<1>10. \A c \in Brokers : /\ Busy(c)' <=> Busy(c)
                          /\ Reads(c)' <=> Reads(c)
                          /\ Waits(c)' <=> Waits(c)
  BY <1>2 DEF Busy, Reads, Waits
<1>11. Bounds'
  <2>1. \A c \in Brokers : Busy(c) => request[c].index \in Nat
    BY <1>0 DEF Types, Busy, Requests
  <2>2. \A c \in Brokers : Len(objects[c]) \in Nat
    BY <1>0 DEF Types
  <2>3. since' <= Len(log') /\ failover' <= Len(objects'[leader'])
    BY <1>0, <1>2, <1>3, <1>6, <1>7, <2>2 DEF Bounds, Types
  <2>4. ASSUME NEW c \in Brokers PROVE Len(objects'[c]) <= Len(log')
    <3>1. Len(objects[c]) <= Len(log) /\ Len(objects'[c]) = Len(objects[c]) /\ Len(objects[c]) \in Nat
      BY <1>0, <1>6, <2>2, Zenon DEF Bounds
    <3> QED
      BY <1>3, <1>7, <3>1
  <2>5. \A c \in Brokers : Busy(c)' => request'[c].ref <= Len(objects'[c]) /\ request'[c].index <= Len(log')
    BY <1>0, <1>2, <1>3, <1>6, <1>7, <1>10, <2>1 DEF Bounds
  <2>6. \A c \in Brokers \ {leader'} : Busy(c)' => request'[c].index <= since'
    BY <1>0, <1>2, <1>10 DEF Bounds
  <2> QED
    BY <2>3, <2>4, <2>5, <2>6 DEF Bounds
<1>12. ASSUME NEW j \in Nat, NEW S \in SUBSET Versions, In(j, S), old \in S => g \in S,
              log' = log \/ j <= failover
       PROVE  In(j, S)'
  <2>1. failover >= j => g \in S
    BY <1>3, <1>12 DEF In, ObjectsIn, old
  <2>2. ObjectsIn(j, S)'
    BY <1>0, <1>1, <1>3, <1>5, <1>12, <2>1, ObjectsEdit, Zenon DEF In, Types, g
  <2>3. LogIn(j, S)'
    <3>1. CASE log' = log
      BY <1>12, <3>1 DEF In, LogIn
    <3>2. CASE log' # log
      <4>1. log' = Append(log, g) /\ g \in S
        BY <1>1, <1>3, <1>12, <2>1, <3>2 DEF g
      <4> QED
        BY <1>0, <1>5, <1>12, <4>1, LogAppend, Zenon DEF In, Types
    <3> QED
      BY <3>1, <3>2
  <2> QED
    BY <2>2, <2>3 DEF In
<1>13. \A m \in Members : /\ With(m) \in SUBSET Versions /\ (old \in With(m) => g \in With(m))
                          /\ Without(m) \in SUBSET Versions /\ (old \in Without(m) => g \in Without(m))
                          /\ Led(m) \in SUBSET Versions /\ (old \in Led(m) => g \in Led(m))
  BY <1>5 DEF With, Without, Led
<1>14. MemberIDs'
  <2>1. 0 \in Nat /\ 0 <= failover
    BY <1>3
  <2> QED
    BY <1>0, <1>2, <1>10, <1>12, <1>13, <2>1, IDsKept
<1>15. ~raced' => Facts'
  <2> SUFFICES ASSUME ~raced' PROVE Facts'
    OBVIOUS
  <2>0. Facts /\ (log' = log \/ failover = Len(log))
    BY <1>0, <1>1, Zenon
  <2>1. \A j \in Nat : Settled(j) => Settled(j)'
    BY <1>0, <1>2, <1>3, <1>6, <1>7 DEF Settled, Reads, Busy
  <2>2. ASSUME NEW c \in Brokers, Waits(c)'
        PROVE  /\ Waits(c) /\ request'[c] = request[c]
               /\ Held(c)' \in Versions /\ Held(c)'.LeaderID = Held(c).LeaderID
    <3>1. Waits(c) /\ Busy(c) /\ request'[c] = request[c]
      BY <1>2, <1>10, <2>2 DEF Waits
    <3>2. Held(c) \in Versions
      BY <1>0, <3>1, HeldType
    <3>3. CASE request[c].ref = 0
      BY <3>1, <3>2, <3>3, Zenon DEF Held, NewGroup
    <3>4. CASE request[c].ref # 0
      <4>1. request[c].ref \in 1 .. Len(objects[c]) /\ Held(c) = objects[c][request[c].ref]
        BY <1>0, <3>1, <3>4, HeldType
      <4>2. Held(c)' = objects'[c][request[c].ref]
        BY <3>1, <3>4, Zenon DEF Held
      <4>3. CASE c = leader /\ request[c].ref = failover
        BY <1>5, <1>6, <3>1, <4>1, <4>2, <4>3 DEF old
      <4>4. CASE ~(c = leader /\ request[c].ref = failover)
        BY <1>6, <3>1, <3>2, <4>1, <4>2, <4>4
      <4> QED
        BY <4>3, <4>4
    <3> QED
      BY <3>3, <3>4
  <2>3. ASSUME NEW j \in Nat, NEW m \in Members, Safe(j)
        PROVE  /\ m \notin leaving /\ In(j, With(m)) => In(j, With(m))'
               /\ ~Fresh(m) /\ In(j, Without(m)) => In(j, Without(m))'
               /\ In(j, Led(m)) => In(j, Led(m))'
    <3>1. j <= Len(log)
      BY <1>0, <1>3, <2>3 DEF Safe, Settled, Bounds, Waits
    <3>2. log' = log \/ j <= failover
      BY <2>0, <3>1
    <3> QED
      BY <1>12, <1>13, <3>2
  <2>4. /\ JoinsHold' /\ LeavesHold' /\ LeaderHolds'
        /\ \A c \in Brokers : Waits(c)' => AnswerHolds(c)'
    BY <1>0, <1>2, <1>7, <2>0, <2>1, <2>2, <2>3, FactsKept, Zenon DEF history
  <2> QED
    BY <2>4 DEF Facts
<1> QED
  BY <1>9, <1>11, <1>14, <1>15 DEF IInv

\* A handler changes the object it holds, and the leader's is in the log with it.
LEMMA WriteKeeps ==
  ASSUME IInv, NEW b \in Brokers, Write(b)
  PROVE  IInv'
<1>0. Types /\ Bounds /\ MemberIDs /\ (~raced => Facts)
  BY DEF IInv
<1> DEFINE r == request[b]
           g == Edit(r, Held(b))
           Taken == /\ b = leader /\ log' = Append(log, g)
                    /\ request' = [request EXCEPT ![b].index = Len(log')]
                    /\ raced' = (raced \/ r.ref < since)
           Refused == request' = [request EXCEPT ![b] = Idle] /\ UNCHANGED <<log, raced>>
<1>1. /\ Busy(b) /\ Reads(b)
      /\ objects' = IF r.ref = 0 THEN objects ELSE [objects EXCEPT ![b][r.ref] = g]
      /\ Taken \/ Refused
      /\ UNCHANGED <<leader, since, failover, leaving, used, joined, left, answered>>
  BY DEF Write, Busy, Reads, history
<1>2. /\ r \in Requests /\ Held(b) \in Versions
      /\ r.ref = 0 => Held(b) = NewGroup(b)
      /\ r.ref # 0 => r.ref \in 1 .. Len(objects[b]) /\ Held(b) = objects[b][r.ref]
  BY <1>0, <1>1, HeldType
<1>3. r.op \in {"join", "rejoin", "leave"} /\ r.m \in Members /\ r.ref \in Nat /\ r.index = 0
  BY <1>1, <1>2 DEF Requests, Reads
<1>4. g \in Versions
  BY <1>2, EditType, Zenon
<1> HIDE DEF g
<1>5. /\ objects' \in [Brokers -> Seq(Versions)]
      /\ \A c \in Brokers : Len(objects'[c]) = Len(objects[c])
      /\ \A c \in Brokers \ {b} : objects'[c] = objects[c]
      /\ r.ref # 0 => objects'[b][r.ref] = g
  <2>1. objects \in [Brokers -> Seq(Versions)]
    BY <1>0 DEF Types
  <2>2. CASE r.ref = 0
    BY <1>1, <2>1, <2>2
  <2>3. CASE r.ref # 0
    BY <1>1, <1>2, <1>4, <2>1, <2>3, ObjectReplaced
  <2> QED
    BY <2>2, <2>3, Zenon
<1>6. /\ Len(log) \in Nat /\ log \in Seq(Versions) /\ leader \in Brokers /\ since \in Nat /\ failover \in Nat
      /\ \A c \in Brokers : Len(objects[c]) \in Nat
  BY <1>0 DEF Types
<1>7. /\ log' \in Seq(Versions) /\ Len(log') \in Nat /\ Len(log) <= Len(log')
      /\ Taken => Len(log') = Len(log) + 1 /\ log'[Len(log')] = g
  <2>1. CASE Taken
    BY <1>4, <1>6, <2>1
  <2>2. CASE Refused /\ ~Taken
    BY <1>6, <2>2
  <2> QED
    BY <1>1, <2>1, <2>2
<1>8. \A c \in Brokers \ {b} : request'[c] = request[c]
  BY <1>0, <1>1 DEF Types
<1>9. /\ Taken => request'[b] = [r EXCEPT !.index = Len(log')]
      /\ Refused => request'[b] = Idle
  BY <1>0, <1>1 DEF Types
<1>10. /\ Taken => /\ request'[b] \in Requests /\ request'[b].index = Len(log')
                   /\ request'[b].op = r.op /\ request'[b].m = r.m /\ request'[b].ref = r.ref
  BY <1>2, <1>7, <1>9 DEF Requests
<1>11. Types'
  <2>1. request' \in [Brokers -> Requests \cup {Idle}]
    <3>1. \A c \in Brokers : request'[c] \in Requests \cup {Idle}
      BY <1>0, <1>1, <1>8, <1>9, <1>10, Zenon DEF Types
    <3>2. request' = [c \in Brokers |-> request'[c]]
      BY <1>0, <1>1 DEF Types
    <3> QED
      BY <3>1, <3>2
  <2>2. raced' \in BOOLEAN
    BY <1>0, <1>1, Zenon DEF Types
  <2> QED
    BY <1>0, <1>1, <1>5, <1>7, <2>1, <2>2 DEF Types
<1>12. ~Reads(b)' /\ (Busy(b)' => Taken)
  <2>1. Taken => request'[b].index # 0
    BY <1>6, <1>7, <1>10
  <2> QED
    BY <1>1, <1>9, <2>1 DEF Reads, Busy
<1>13. \A c \in Brokers \ {b} : /\ Busy(c)' <=> Busy(c)
                                /\ Reads(c)' <=> Reads(c)
                                /\ Waits(c)' <=> Waits(c)
  BY <1>8 DEF Busy, Reads, Waits
<1>14. Bounds'
  <2>1. since' <= Len(log') /\ failover' <= Len(objects'[leader'])
    BY <1>0, <1>1, <1>5, <1>6, <1>7 DEF Bounds
  <2>2. ASSUME NEW c \in Brokers PROVE Len(objects'[c]) <= Len(log')
    <3>1. Len(objects[c]) <= Len(log) /\ Len(objects'[c]) = Len(objects[c]) /\ Len(objects[c]) \in Nat
      BY <1>0, <1>5, <1>6 DEF Bounds
    <3> QED
      BY <1>6, <1>7, <3>1
  <2>3. ASSUME NEW c \in Brokers, Busy(c)'
        PROVE  request'[c].ref <= Len(objects'[c]) /\ request'[c].index <= Len(log')
    <3>1. CASE c = b
      BY <1>0, <1>1, <1>5, <1>7, <1>10, <1>12, <2>3, <3>1 DEF Bounds
    <3>2. CASE c # b
      <4>1. Busy(c) /\ request'[c] = request[c] /\ request[c].index \in Nat
        BY <1>0, <1>8, <1>13, <2>3, <3>2, Zenon DEF Types, Busy, Requests
      <4>2. request[c].ref <= Len(objects[c]) /\ request[c].index <= Len(log)
        BY <1>0, <4>1 DEF Bounds
      <4> QED
        BY <1>5, <1>6, <1>7, <4>1, <4>2
    <3> QED
      BY <3>1, <3>2
  <2>4. ASSUME NEW c \in Brokers \ {leader'}, Busy(c)' PROVE request'[c].index <= since'
    <3>1. c # b
      BY <1>1, <1>12, <2>4
    <3> QED
      BY <1>0, <1>1, <1>8, <1>13, <2>4, <3>1 DEF Bounds
  <2> QED
    BY <2>1, <2>2, <2>3, <2>4 DEF Bounds
<1>15. ASSUME NEW j \in Nat, NEW S \in SUBSET Versions, In(j, S), Held(b) \in S => g \in S,
              log' = log \/ g \in S
       PROVE  In(j, S)'
  <2>1. ObjectsIn(j, S)'
    <3>1. CASE r.ref = 0
      BY <1>1, <1>15, <3>1 DEF In, ObjectsIn
    <3>2. CASE r.ref # 0
      <4>1. r.ref >= j => g \in S
        BY <1>2, <1>15, <3>2 DEF In, ObjectsIn
      <4> QED
        BY <1>0, <1>1, <1>2, <1>4, <1>15, <3>2, <4>1, ObjectsEdit, Zenon DEF In, Types
    <3> QED
      BY <3>1, <3>2
  <2>2. LogIn(j, S)'
    <3>1. CASE log' = log
      BY <1>15, <3>1 DEF In, LogIn
    <3>2. CASE log' # log
      BY <1>1, <1>4, <1>6, <1>15, <3>2, LogAppend DEF In
    <3> QED
      BY <3>1, <3>2
  <2> QED
    BY <2>1, <2>2 DEF In
<1>16. \A m \in Members : /\ With(m) \in SUBSET Versions /\ Without(m) \in SUBSET Versions
                          /\ Led(m) \in SUBSET Versions
  BY DEF With, Without, Led
<1>17. MemberIDs'
  <2>1. ASSUME NEW c \in Brokers, Busy(c)'
        PROVE  Busy(c) /\ request'[c].op = request[c].op /\ request'[c].m = request[c].m
    BY <1>1, <1>8, <1>10, <1>12, <1>13, <2>1
  <2>2. ASSUME NEW m \in Members, Fresh(m)', In(0, Without(m)) PROVE In(0, Without(m))'
    <3>1. ~(r.op = "join" /\ r.m = m)
      <4> SUFFICES ASSUME r.op = "join", r.m = m PROVE FALSE
        OBVIOUS
      <4>1. m \in used'
        BY <1>0, <1>1 DEF MemberIDs
      <4>2. PICK c \in Brokers : Reads(c)' /\ request'[c].op = "join" /\ request'[c].m = m
        BY <2>2, <4>1 DEF Fresh
      <4>3. c # b /\ Busy(c) /\ request[c].op = "join" /\ request[c].m = m
        BY <1>8, <1>12, <1>13, <4>2 DEF Reads
      <4> QED
        BY <1>0, <1>1, <4>3 DEF MemberIDs, Joins
    <3>2. Held(b) \in Without(m)
      <4>1. CASE r.ref = 0
        BY <1>2, <4>1 DEF NewGroup, Without
      <4>2. CASE r.ref # 0
        BY <1>2, <2>2, <4>2 DEF In, ObjectsIn
      <4> QED
        BY <4>1, <4>2
    <3>3. g \in Without(m)
      BY <1>2, <3>1, <3>2, EditKeeps DEF g
    <3> QED
      BY <1>15, <1>16, <2>2, <3>3
  <2>3. \A c \in Brokers : Reads(c)' => Reads(c)
    BY <1>12, <1>13
  <2> QED
    BY <1>0, <1>1, <2>1, <2>2, <2>3, IDsKept
<1>18. ~raced' => Facts'
  <2> SUFFICES ASSUME ~raced' PROVE Facts'
    OBVIOUS
  <2>0. Facts /\ (Taken => since <= r.ref)
    <3>1. ~raced /\ (Taken => ~(r.ref < since))
      <4>1. CASE Taken
        <5>1. raced' = (raced \/ r.ref < since)
          BY <4>1
        <5> QED
          BY <5>1, Zenon
      <4>2. CASE Refused /\ ~Taken
        BY <4>2, Zenon
      <4> QED
        BY <1>1, <4>1, <4>2
    <3> QED
      BY <1>0, <1>3, <1>6, <3>1
  <2>1. ASSUME NEW j \in Nat, Settled(j) PROVE Settled(j)'
    <3>1. j \in 1 .. Len(log')
      BY <1>6, <1>7, <2>1 DEF Settled
    <3>2. Reads(leader)' => Reads(leader) /\ request'[leader] = request[leader]
      BY <1>1, <1>6, <1>8, <1>12, <1>13
    <3>3. CASE j <= since
      BY <1>1, <3>1, <3>3 DEF Settled
    <3>4. CASE j <= Len(objects[leader]) /\ (Reads(leader) => j <= request[leader].ref)
      BY <1>1, <1>5, <1>6, <3>1, <3>2, <3>4, Zenon DEF Settled, Reads, Busy
    <3> QED
      BY <2>1, <3>3, <3>4 DEF Settled
  <2>2. ASSUME NEW c \in Brokers \ {b}, Waits(c)'
        PROVE  /\ Waits(c) /\ request'[c] = request[c]
               /\ Held(c)' \in Versions /\ Held(c)'.LeaderID = Held(c).LeaderID
    <3>1. Waits(c) /\ Busy(c) /\ request'[c] = request[c] /\ objects'[c] = objects[c]
      BY <1>5, <1>8, <1>13, <2>2, Zenon DEF Waits
    <3>2. Held(c)' = Held(c)
      BY <3>1 DEF Held, NewGroup
    <3> QED
      BY <1>0, <3>1, <3>2, HeldType, Zenon
  <2>3. ASSUME NEW j \in Nat, Safe(j), NEW S \in SUBSET Versions, In(j, S), Held(b) \in S => g \in S
        PROVE  In(j, S)'
    <3>1. CASE Taken
      <4>1. j # 0 /\ j <= r.ref
        <5>1. CASE Settled(j)
          BY <1>1, <1>3, <1>6, <2>0, <3>1, <5>1 DEF Settled
        <5>2. CASE \E c \in Brokers : Waits(c) /\ request[c].index = j
          <6>1. PICK c \in Brokers : Waits(c) /\ request[c].index = j
            BY <5>2
          <6>2. c # leader /\ Busy(c) /\ j # 0
            BY <1>1, <3>1, <6>1 DEF Waits, Reads
          <6>3. j <= since
            BY <1>0, <6>1, <6>2 DEF Bounds
          <6> QED
            BY <1>3, <1>6, <2>0, <3>1, <6>2, <6>3
        <5> QED
          BY <2>3, <5>1, <5>2 DEF Safe
      <4>2. r.ref # 0
        BY <1>3, <4>1
      <4>3. Held(b) \in S
        BY <1>2, <2>3, <4>1, <4>2 DEF In, ObjectsIn
      <4> QED
        BY <1>15, <2>3, <4>3
    <3>2. CASE Refused
      BY <1>15, <2>3, <3>2
    <3> QED
      BY <1>1, <3>1, <3>2
  <2>4. ASSUME NEW j \in Nat, NEW m \in Members, Safe(j)
        PROVE  /\ m \notin leaving /\ In(j, With(m)) => In(j, With(m))'
               /\ ~Fresh(m) /\ In(j, Without(m)) => In(j, Without(m))'
               /\ In(j, Led(m)) => In(j, Led(m))'
    <3>1. m \notin leaving => (Held(b) \in With(m) => g \in With(m))
      BY <1>0, <1>1, <1>2, EditKeeps DEF MemberIDs, g
    <3>2. ~Fresh(m) => (Held(b) \in Without(m) => g \in Without(m))
      BY <1>1, <1>2, EditKeeps, Zenon DEF Fresh, g
    <3>3. Held(b) \in Led(m) => g \in Led(m)
      BY <1>2, EditKeeps DEF g
    <3> QED
      BY <1>16, <2>3, <2>4, <3>1, <3>2, <3>3
  <2>5. /\ JoinsHold' /\ LeavesHold' /\ LeaderHolds'
        /\ \A c \in Brokers \ {b} : Waits(c)' => AnswerHolds(c)'
    <3>1. Brokers \ {b} \in SUBSET Brokers /\ leaving \subseteq leaving'
      BY <1>1
    <3> QED
      BY <1>0, <1>1, <1>7, <2>0, <2>1, <2>2, <2>4, <3>1, FactsKept, Zenon DEF history
  <2>6. ASSUME Waits(b)' PROVE AnswerHolds(b)'
    <3> DEFINE l == g.LeaderID
    <3>1. Taken
      BY <1>12, <2>6 DEF Waits
    <3>2. ASSUME NEW S, g \in S
          PROVE  /\ \A k \in 1 .. Len(log') : k >= Len(log') => log'[k] \in S
                 /\ \A c \in Brokers : \A k \in 1 .. Len(objects'[c]) : k >= Len(log') => objects'[c][k] \in S
      <4>1. \A k \in 1 .. Len(log') : k >= Len(log') => k = Len(log')
        BY <1>7
      <4>2. \A c \in Brokers : Len(objects[c]) <= Len(log)
        BY <1>0 DEF Bounds
      <4>3. ASSUME NEW c \in Brokers, NEW k \in 1 .. Len(objects'[c]) PROVE ~(k >= Len(log'))
        <5>1. Len(objects'[c]) = Len(objects[c]) /\ Len(objects[c]) <= Len(log) /\ Len(objects[c]) \in Nat
          BY <1>5, <1>6, <4>2
        <5>2. Len(log') = Len(log) + 1 /\ Len(log) \in Nat
          BY <1>6, <1>7, <3>1
        <5> QED
          BY <5>1, <5>2
      <4> QED
        BY <1>7, <3>1, <3>2, <4>1, <4>3
    <3>3. /\ r.op = "join" => g \in With(r.m)
          /\ r.op = "leave" => g \in Without(r.m)
          /\ g \in Led(l)
      BY <1>2, <1>4, EditType, Zenon DEF With, Without, Led, g
    <3>4. r.op # "leave" => Edit(request'[b], Held(b)').LeaderID = l
      <4> SUFFICES ASSUME r.op # "leave" PROVE Edit(request'[b], Held(b)').LeaderID = l
        OBVIOUS
      <4>1. ASSUME NEW q \in Requests, q.op # "leave", NEW h \in Versions
            PROVE  Edit(q, h).LeaderID = IF h.LeaderID = None THEN q.m ELSE h.LeaderID
        BY <4>1, EditType, Zenon
      <4>2. l \in Members /\ l = IF Held(b).LeaderID = None THEN r.m ELSE Held(b).LeaderID
        BY <1>2, <4>1, AnswerLeader DEF g
      <4>3. request'[b] \in Requests /\ request'[b].op # "leave" /\ request'[b].m = r.m /\ request'[b].ref = r.ref
        BY <1>10, <3>1, Zenon
      <4>4. CASE r.ref = 0
        <5>1. Held(b)' = Held(b)
          BY <1>2, <4>3, <4>4, Zenon DEF Held, NewGroup
        <5> QED
          BY <1>2, <4>1, <4>2, <4>3, <5>1
      <4>5. CASE r.ref # 0
        <5>1. Held(b)' = g
          BY <1>5, <4>3, <4>5 DEF Held
        <5>2. Edit(request'[b], g).LeaderID = IF l = None THEN r.m ELSE l
          BY <1>4, <4>1, <4>3
        <5> QED
          BY <4>2, <5>1, <5>2, NoneAssumption
      <4> QED
        BY <4>4, <4>5
    <3>5. request'[b].index = Len(log') /\ request'[b].op = r.op /\ request'[b].m = r.m
      BY <1>10, <3>1, Zenon
    <3>6. r.op = "join" => In(request[b].index, With(request[b].m))'
      <4> SUFFICES ASSUME r.op = "join" PROVE In(request[b].index, With(request[b].m))'
        OBVIOUS
      <4>1. g \in With(request'[b].m)
        BY <3>3, <3>5, Zenon
      <4> QED
        BY <3>2, <3>5, <4>1 DEF In, LogIn, ObjectsIn
    <3>7. r.op = "leave" => In(request[b].index, Without(request[b].m))'
      <4> SUFFICES ASSUME r.op = "leave" PROVE In(request[b].index, Without(request[b].m))'
        BY Zenon
      <4>1. g \in Without(request'[b].m)
        BY <3>3, <3>5, Zenon
      <4> QED
        BY <3>2, <3>5, <4>1 DEF In, LogIn, ObjectsIn
    <3>8. r.op # "leave" => In(request[b].index, Led(Edit(request[b], Held(b)).LeaderID))'
      <4> SUFFICES ASSUME r.op # "leave" PROVE In(request[b].index, Led(Edit(request[b], Held(b)).LeaderID))'
        BY Zenon
      <4>1. g \in Led(Edit(request'[b], Held(b)').LeaderID)
        BY <3>3, <3>4, Zenon
      <4> QED
        BY <3>2, <3>5, <4>1 DEF In, LogIn, ObjectsIn
    <3> QED
      BY <3>5, <3>6, <3>7, <3>8, Zenon DEF AnswerHolds
  <2> QED
    BY <2>5, <2>6 DEF Facts
<1> QED
  BY <1>11, <1>14, <1>17, <1>18 DEF IInv

\* A request is answered: its entry is settled, because its broker has applied it.
LEMMA AnswerKeeps ==
  ASSUME IInv, NEW b \in Brokers, Answer(b)
  PROVE  IInv'
<1>0. Types /\ Bounds /\ MemberIDs /\ (~raced => Facts)
  BY DEF IInv
<1> DEFINE r == request[b]
           n == Edit(r, Held(b)).LeaderID
<1>1. /\ Busy(b) /\ Waits(b) /\ r.index <= Len(objects[b])
      /\ request' = [request EXCEPT ![b] = Idle]
      /\ joined' = IF r.op = "join" THEN [joined EXCEPT ![r.m] = r.index] ELSE joined
      /\ left' = IF r.op = "leave" THEN [left EXCEPT ![r.m] = r.index] ELSE left
      /\ answered' = IF r.op = "leave" THEN answered ELSE answered \cup {n}
      /\ UNCHANGED <<leader, since, log, objects, failover, leaving, used, raced>>
  BY Zenon DEF Answer, Busy, Waits
<1>2. r \in Requests /\ Held(b) \in Versions
  BY <1>0, <1>1, HeldType, Zenon
<1>3. r.op \in {"join", "rejoin", "leave"} /\ r.m \in Members /\ r.index \in Nat /\ r.index # 0
  BY <1>1, <1>2 DEF Requests, Waits
<1>4. r.op # "leave" => n \in Members
  BY <1>2, AnswerLeader
<1> HIDE DEF n
<1>5. /\ request'[b] = Idle /\ \A c \in Brokers \ {b} : request'[c] = request[c]
      /\ request' \in [Brokers -> Requests \cup {Idle}]
  BY <1>0, <1>1 DEF Types
<1>6. Types'
  <2>1. joined' \in [Members -> Nat]
    BY <1>0, <1>1, <1>3 DEF Types
  <2>2. left' \in [Members -> Nat]
    BY <1>0, <1>1, <1>3 DEF Types
  <2>3. answered' \subseteq Members
    BY <1>0, <1>1, <1>4 DEF Types
  <2> QED
    BY <1>0, <1>1, <1>5, <2>1, <2>2, <2>3, Zenon DEF Types
<1>7. /\ ~Busy(b)' /\ ~Reads(b)' /\ ~Waits(b)'
      /\ \A c \in Brokers \ {b} : (Busy(c)' <=> Busy(c)) /\ (Reads(c)' <=> Reads(c)) /\ (Waits(c)' <=> Waits(c))
  BY <1>5 DEF Busy, Reads, Waits
<1>8. Bounds'
  BY <1>0, <1>1, <1>5, <1>7 DEF Bounds
<1>9. ASSUME NEW j \in Nat, NEW S PROVE In(j, S)' <=> In(j, S)
  BY <1>1, InSame, Zenon
<1>10. MemberIDs'
  <2>1. ASSUME NEW m \in Members, Fresh(m)' PROVE left'[m] = left[m]
    <3>1. Fresh(m)
      BY <1>1, <1>5, <1>7, <2>1 DEF Fresh
    <3>2. ~(r.op = "leave" /\ r.m = m)
      BY <1>0, <1>1, <3>1 DEF MemberIDs
    <3> QED
      BY <1>0, <1>1, <3>2 DEF Types
  <2>2. \A c \in Brokers : Busy(c)' => Busy(c) /\ request'[c].op = request[c].op /\ request'[c].m = request[c].m
    BY <1>5, <1>7
  <2>3. \A c \in Brokers : Reads(c)' => Reads(c)
    BY <1>7
  <2>4. \A m \in Members : In(0, Without(m)) => In(0, Without(m))'
    BY <1>9
  <2> QED
    BY <1>0, <1>1, <2>1, <2>2, <2>3, <2>4, IDsKept
<1>11. ~raced' => Facts'
  <2> SUFFICES ASSUME ~raced PROVE Facts'
    BY <1>1
  <2>0. Facts /\ AnswerHolds(b)
    BY <1>0, <1>1 DEF Facts
  <2>1. ASSUME NEW j \in Nat, Settled(j) PROVE Settled(j)'
    <3>1. leader \in Brokers /\ (Reads(leader)' => Reads(leader) /\ request'[leader] = request[leader])
      BY <1>0, <1>1, <1>5, <1>7 DEF Types
    <3> QED
      BY <1>1, <2>1, <3>1 DEF Settled, Reads, Busy
  <2>2. ASSUME NEW j \in Nat, j = r.index PROVE Settled(j)' /\ j \in 1 .. Len(log)
    <3>1. j \in 1 .. Len(log)
      BY <1>0, <1>1, <1>3, <2>2 DEF Bounds, Types
    <3>2. CASE b = leader
      BY <1>1, <1>7, <2>2, <3>1, <3>2, Zenon DEF Settled, Reads, Busy
    <3>3. CASE b # leader
      BY <1>0, <1>1, <2>2, <3>1, <3>3 DEF Settled, Bounds
    <3> QED
      BY <3>1, <3>2, <3>3
  <2>3. JoinsHold'
    <3> SUFFICES ASSUME NEW m \in Members, joined'[m] # 0, m \notin leaving
                 PROVE  Settled(joined[m])' /\ In(joined[m], With(m))'
      BY <1>1 DEF JoinsHold
    <3>1. PICK j \in Nat : j = joined'[m]
      BY <1>6 DEF Types
    <3>2. CASE r.op = "join" /\ r.m = m
      <4>1. j = r.index
        BY <1>0, <1>1, <3>1, <3>2, Zenon DEF Types
      <4>2. In(j, With(m))
        BY <2>0, <3>2, <4>1 DEF AnswerHolds
      <4> QED
        BY <1>9, <2>2, <3>1, <4>1, <4>2
    <3>3. CASE ~(r.op = "join" /\ r.m = m)
      <4>1. j = joined[m]
        BY <1>0, <1>1, <1>3, <3>1, <3>3, Zenon DEF Types
      <4>2. Settled(j) /\ In(j, With(m))
        BY <2>0, <3>1, <4>1, Zenon DEF Facts, JoinsHold
      <4> QED
        BY <1>9, <2>1, <3>1, <4>2
    <3> QED
      BY <3>2, <3>3
  <2>4. LeavesHold'
    <3> SUFFICES ASSUME NEW m \in Members, left'[m] # 0
                 PROVE  Settled(left[m])' /\ In(left[m], Without(m))'
      BY DEF LeavesHold
    <3>1. PICK j \in Nat : j = left'[m]
      BY <1>6, Zenon DEF Types
    <3>2. CASE r.op = "leave" /\ r.m = m
      <4>1. j = r.index
        BY <1>0, <1>1, <3>1, <3>2, Zenon DEF Types
      <4>2. In(j, Without(m))
        BY <2>0, <3>2, <4>1 DEF AnswerHolds
      <4> QED
        BY <1>9, <2>2, <3>1, <4>1, <4>2
    <3>3. CASE ~(r.op = "leave" /\ r.m = m)
      <4>1. j = left[m]
        BY <1>0, <1>1, <1>3, <3>1, <3>3 DEF Types
      <4>2. Settled(j) /\ In(j, Without(m))
        BY <2>0, <3>1, <4>1, Zenon DEF Facts, LeavesHold
      <4> QED
        BY <1>9, <2>1, <3>1, <4>2
    <3> QED
      BY <3>2, <3>3
  <2>5. LeaderHolds'
    <3>1. ASSUME NEW m \in Members, answered' = {m}, NEW j \in 1 .. Len(log), Settled(j)', In(j, Led(m))
          PROVE  LeaderHolds'
      <4>1. In(j, Led(m))' /\ j \in 1 .. Len(log')
        BY <1>1, <1>9, <3>1
      <4> QED
        BY <3>1, <4>1 DEF LeaderHolds
    <3>2. ASSUME NEW m \in Members, answered = {m}
          PROVE  \E j \in 1 .. Len(log) : Settled(j) /\ In(j, Led(m))
      BY <2>0, <3>2 DEF Facts, LeaderHolds
    <3>3. answered = {} \/ \E m \in Members : answered = {m}
      BY <2>0 DEF Facts, LeaderHolds
    <3>4. CASE r.op = "leave"
      <4>1. CASE answered = {}
        BY <1>1, <3>4, <4>1 DEF LeaderHolds
      <4>2. CASE \E m \in Members : answered = {m}
        BY <1>1, <2>1, <3>1, <3>2, <3>4, <4>2
      <4> QED
        BY <3>3, <4>1, <4>2
    <3>5. CASE r.op # "leave"
      <4>1. PICK i \in 1 .. Len(log) : i = r.index /\ Settled(i)'
        BY <1>3, <2>2, Zenon
      <4>2. In(i, Led(n)) /\ n \in Members
        BY <1>4, <2>0, <3>5, <4>1 DEF AnswerHolds, n
      <4>3. answered' = {n}
        <5>1. CASE answered = {}
          BY <1>1, <3>5, <5>1
        <5>2. CASE \E m \in Members : answered = {m}
          <6>1. PICK m \in Members : answered = {m}
            BY <5>2
          <6>2. PICK j \in 1 .. Len(log) : In(j, Led(m))
            BY <3>2, <6>1
          <6>3. log[Len(log)] \in Led(m) /\ log[Len(log)] \in Led(n)
            BY <4>2, <6>2 DEF In, LogIn
          <6>4. m = n
            BY <6>3 DEF Led
          <6> QED
            BY <1>1, <3>5, <6>1, <6>4
        <5> QED
          BY <3>3, <5>1, <5>2
      <4> QED
        BY <3>1, <4>1, <4>2, <4>3
    <3> QED
      BY <3>4, <3>5
  <2>6. ASSUME NEW c \in Brokers, Waits(c)' PROVE AnswerHolds(c)'
    <3>1. c # b /\ request'[c] = request[c]
      BY <1>5, <1>7, <2>6
    <3>2. log' = log /\ objects' = objects /\ leaving' = leaving
      BY <1>1
    <3> HIDE DEF r
    <3>3. Held(c)' = Held(c)
      BY <3>1, <3>2, Zenon DEF Held, NewGroup
    <3>4. AnswerHolds(c)
      BY <1>7, <2>0, <2>6, <3>1 DEF Facts
    <3> QED
      BY <3>1, <3>2, <3>3, <3>4, Zenon DEF AnswerHolds, In, LogIn, ObjectsIn
  <2> QED
    BY <2>3, <2>4, <2>5, <2>6 DEF Facts
<1> QED
  BY <1>6, <1>8, <1>10, <1>11 DEF IInv

-----------------------------------------------------------------------------
\* The theorems.

\* Every step keeps the invariant.
LEMMA NextKeeps ==
  ASSUME IInv, [Next]_vars
  PROVE  IInv'
<1>1. ASSUME NEW b \in Brokers, NEW m \in Members, JoinGroup(b, m) PROVE IInv'
  BY <1>1, JoinGroupKeeps
<1>2. ASSUME NEW b \in Brokers, NEW m \in Members, LeaveGroup(b, m) PROVE IInv'
  BY <1>2, LeaveGroupKeeps
<1>3. ASSUME NEW b \in Brokers, Write(b) PROVE IInv'
  BY <1>3, WriteKeeps
<1>4. ASSUME NEW b \in Brokers, ApplyRegisterGroup(b) PROVE IInv'
  BY <1>4, ApplyKeeps
<1>5. ASSUME NEW b \in Brokers, Answer(b) PROVE IInv'
  BY <1>5, AnswerKeeps
<1>6. ASSUME NEW b \in Brokers, Timeout(b) PROVE IInv'
  BY <1>6, TimeoutKeeps
<1>7. ASSUME NEW b \in Brokers, ChangeLeader(b) PROVE IInv'
  BY <1>7, ChangeLeaderKeeps
<1>8. CASE FailedCoordinator
  <2>1. objects[leader] \in Seq(Versions)
    BY DEF IInv, Types
  <2>2. failover' = Len(objects[leader]) /\ UNCHANGED <<leader, since, log, objects, request, leaving, used, raced, history>>
    BY <1>8 DEF FailedCoordinator, GetGroup
  <2>3. failover' \in Nat /\ failover' <= Len(objects[leader])
    BY <2>1, <2>2
  <2> QED
    BY <2>2, <2>3, SameKeeps
<1>9. CASE ReassignCoordinator
  BY <1>9, ReassignKeeps
<1>10. CASE UNCHANGED vars
  <2>1. failover \in Nat /\ failover <= Len(objects[leader])
    BY DEF IInv, Types, Bounds
  <2>2. failover' = failover /\ UNCHANGED <<leader, since, log, objects, request, leaving, used, raced, history>>
    BY <1>10 DEF vars, history
  <2> QED
    BY <2>1, <2>2, SameKeeps
<1> QED
  BY <1>1, <1>2, <1>3, <1>4, <1>5, <1>6, <1>7, <1>8, <1>9, <1>10 DEF Next

\* The invariant holds.
LEMMA Invariant == Spec => []IInv
<1>1. Init => IInv
  BY InitIInv
<1>2. IInv /\ [Next]_vars => IInv'
  BY NextKeeps
<1> QED
  BY <1>1, <1>2, PTL DEF Spec

\* An acknowledged join or leave holds at every broker that has applied its entry,
\* whatever requests fail after they changed an object in a store, whatever answers
\* are lost and however often the leader changes, while no group is written from an
\* object that is behind.
THEOREM AnswersAreKept == Spec => []AnswersKept
<1>1. IInv => AnswersKept
  <2> SUFFICES ASSUME IInv, ~raced, NEW b \in Brokers, NEW m \in Members
               PROVE  /\ joined[m] \in 1 .. GetGroup(b) /\ m \notin leaving => SyncGroup(b, m) = "ErrRebalanceInProgress"
                      /\ left[m] \in 1 .. GetGroup(b) => SyncGroup(b, m) = "ErrUnknownMemberId"
    BY DEF AnswersKept
  <2>1. Types /\ JoinsHold /\ LeavesHold
    BY DEF IInv, Facts
  <2>2. objects[b] \in Seq(Versions) /\ GetGroup(b) = Len(objects[b]) /\ GetGroup(b) \in Nat
    BY <2>1 DEF Types, GetGroup
  <2>3. ASSUME NEW j \in 1 .. GetGroup(b), NEW S, In(j, S)
        PROVE  GetGroup(b) # 0 /\ objects[b][GetGroup(b)] \in S
    BY <2>2, <2>3 DEF In, ObjectsIn
  <2>4. ASSUME joined[m] \in 1 .. GetGroup(b), m \notin leaving
        PROVE  SyncGroup(b, m) = "ErrRebalanceInProgress"
    <3>1. In(joined[m], With(m))
      BY <2>1, <2>2, <2>4 DEF JoinsHold
    <3> QED
      BY <2>3, <2>4, <3>1 DEF With, SyncGroup
  <2>5. ASSUME left[m] \in 1 .. GetGroup(b)
        PROVE  SyncGroup(b, m) = "ErrUnknownMemberId"
    <3>1. In(left[m], Without(m))
      BY <2>1, <2>2, <2>5 DEF LeavesHold
    <3> QED
      BY <2>3, <2>5, <3>1 DEF Without, SyncGroup
  <2> QED
    BY <2>4, <2>5
<1> QED
  BY <1>1, Invariant, PTL

\* All the joins that are acknowledged name one LeaderID, while no group is written
\* from an object that is behind.
THEOREM LeaderIsAgreed == Spec => []LeaderAgreed
<1>1. IInv => LeaderAgreed
  BY DEF IInv, Facts, LeaderHolds, LeaderAgreed
<1> QED
  BY <1>1, Invariant, PTL
=============================================================================
