-------------------------- MODULE ControllerProofs --------------------------
(***************************************************************************)
(* The controller's safety for every cluster, every capacity of            *)
(* reconcileCh and any number of membership changes, errors and requests:  *)
(* the raft configuration and the lookup of brokers stay consistent        *)
(* whatever addresses brokers come back with, an acknowledged topic is     *)
(* complete, and a failover by a controller that never failed finds a      *)
(* healthy node, unless the failed broker has ID 0.                        *)
(***************************************************************************)
EXTENDS Controller, FiniteSetTheorems, TLAPS

\* What the goroutines hand to one another.
Events == [id : Brokers \ {Self}, status : {"alive", "failed", "left", "reap"}, addr : Addrs]
Members == [id : Brokers, status : {"alive", "failed", "left", "reap"}, addr : Addrs \cup {NoBroker}]
Assigned == [leader : Brokers, AR : SUBSET Brokers, ISR : SUBSET Brokers]

\* The calls a handler makes.  None removes the controller from the raft
\* configuration, or marks or deregisters its node.
Others == Brokers \ {Self}
LoopCalls ==
  [call : {"RemoveServer", "DeregisterNode", "Reassign"}, id : Others]
    \cup [call : {"AddServer"}, id : Others, addr : Addrs]
    \cup [call : {"RegisterNode"}, id : Brokers, health : {"passing"}]
    \cup [call : {"RegisterNode"}, id : Others, health : {"critical"}]
    \cup [call : {"RegisterGroup"}, id : Brokers]
TopicCalls ==
  [call : {"RegisterTopic", "DeregisterTopic", "StartCreate"}]
    \cup [call : {"RegisterPartition"}, p : Partitions, r : Assigned]
    \cup [call : {"LeaderAndISR"}, to : SUBSET (Brokers \cup {NoBroker}),
          leaders : UNION {[P -> Brokers] : P \in SUBSET Partitions}]
Calls == LoopCalls \cup TopicCalls

Types ==
  /\ TypeOK
  /\ IsFiniteSet(servers)
  /\ eventChLAN \in Seq(Events) /\ reconcileCh \in Seq(Events)
  /\ members \subseteq Members
  /\ todo \in Seq(Calls) /\ req \in Seq(Seq(TopicCalls))

\* The controller is a member and a server, and a healthy node unless it failed
\* before, and its address is its own: also of the members that leaderLoop has
\* still to look at.
Home(m, home) ==
  /\ m.status = "failed" => m.id # Self
  /\ m.status = "alive" => m.addr \in Addrs /\ (m.addr = home <=> m.id = Self)

SelfOK ==
  /\ serf[Self] = "alive"
  /\ \A b \in Others : addr[b] # addr[Self]
  /\ Self \notin recovered => nodes[Self] = "passing"
  /\ [id |-> Self, addr |-> addr[Self]] \in servers
  /\ \A i \in DOMAIN eventChLAN : Home(eventChLAN[i], addr[Self])
  /\ \A i \in DOMAIN reconcileCh : Home(reconcileCh[i], addr[Self])
  /\ \A m \in members : Home(m, addr[Self])

\* After position k of the channel the next event about b, which is alive at
\* address a, takes it off that address; without one it is there now.
Stays(ch, k, b, a, status, at) ==
  \/ \E i \in DOMAIN ch :
       /\ k < i /\ ch[i].id = b
       /\ ch[i].status \in {"failed", "left"} /\ ch[i].addr = a
       /\ \A j \in DOMAIN ch : k < j /\ j < i => ch[j].id # b
  \/ /\ \A i \in DOMAIN ch : k < i => ch[i].id # b
     /\ status[b] = "alive" /\ at[b] = a

\* Serf's events say where a broker is, unless it changed its address without one.
LookupOK ==
  /\ \A i \in DOMAIN eventChLAN : eventChLAN[i].status = "alive" /\ eventChLAN[i].id \notin updated =>
       Stays(eventChLAN, i, eventChLAN[i].id, eventChLAN[i].addr, serf, addr)
  /\ \A a \in Addrs : addressToBroker[a] \notin {NoBroker} \cup updated =>
       /\ addressToBroker[a] \in idToBroker
       /\ Stays(eventChLAN, 0, addressToBroker[a], a, serf, addr)

\* Before a server is added, all servers that clash with it are removed.
Unique(S) == \A s, t \in S : s.id = t.id \/ s.addr = t.addr => s = t
Joins(calls, S) ==
  \A j \in DOMAIN calls : calls[j].call = "AddServer" =>
    /\ \A i \in 1 .. j - 1 : calls[i].call = "RemoveServer"
    /\ \A s \in S : s.id = calls[j].id \/ s.addr = calls[j].addr =>
         \E i \in 1 .. j - 1 : calls[i].id = s.id

\* A goroutine whose last calls are LeaderAndISR requests is in createTopic, and
\* has registered each partition or has still to do so.
Creating(calls, P) ==
  calls # <<>> /\ calls[Len(calls)].call = "LeaderAndISR" =>
    \A p \in Partitions :
      \/ P[p].leader # NoBroker
      \/ \E i \in DOMAIN calls : calls[i].call = "RegisterPartition" /\ calls[i].p = p
AllCreating(lists, P) == \A n \in DOMAIN lists : Creating(lists[n], P)

IInv ==
  /\ Types
  /\ SelfOK
  /\ Unique(servers)
  /\ Joins(todo, servers)
  /\ LookupOK
  /\ AllCreating(req, partitions)
  /\ AckedComplete

-----------------------------------------------------------------------------
\* Steps

\* The disjuncts of Next that are not leaderLoop's.
Changed == \E b \in Brokers, status \in {"alive", "failed", "left", "none"}, a \in Addrs :
             SerfEvent(b, status, a)
Readdressed == \E b \in Brokers, a \in Addrs : SerfUpdate(b, a)
Asked == \E wait \in BOOLEAN : HandleCreateTopic(wait) \/ HandleDeleteTopics(wait)
Started == \E n \in DOMAIN req : CreateTopic(n)
Called == \E n \in DOMAIN req : RequestCall(n)
Reconciled == \E m \in members : LoopReconcileMember(m)

\* The steps there are.
LEMMA Steps ==
  Next => \/ Changed \/ Readdressed \/ LanEventHandler
          \/ LoopMember \/ LoopReconcile \/ Reconciled \/ LoopReconcileReaped
          \/ LoopCall \/ LoopReassign \/ LoopDone
          \/ Asked \/ Started \/ Called
BY Zenon DEF Next, Loop, Request, Changed, Readdressed, Asked, Started, Called, Reconciled

\* What a request leaves alone.
LEMMA RequestFrame ==
  /\ Asked \/ Started => UNCHANGED <<membership, channels, store, looping, acked>>
  /\ Called => UNCHANGED <<membership, channels, looping>>
BY Zenon DEF Asked, Started, Called, HandleCreateTopic, HandleDeleteTopics, WithTimeout, CreateTopic,
   RequestCall

\* What serf's steps leave alone.
LEMMA SerfFrame ==
  /\ Changed => UNCHANGED <<brokerLookup, reconcileCh, store, looping, requesting>>
  /\ Readdressed => UNCHANGED <<channels, store, looping, requesting>>
BY Zenon DEF Changed, Readdressed, SerfEvent, SerfUpdate

\* What leaderLoop and lanEventHandler leave alone.
LEMMA LoopFrame ==
  /\ LoopReconcile \/ Reconciled \/ LoopReconcileReaped \/ LoopReassign \/ LoopDone =>
       UNCHANGED <<membership, channels, store, requesting>>
  /\ LoopMember => UNCHANGED <<membership, eventChLAN, brokerLookup, store, requesting>>
  /\ LoopCall => UNCHANGED <<membership, channels, requesting>>
  /\ LanEventHandler => UNCHANGED <<membership, store, looping, requesting>>
BY Zenon DEF LoopReconcile, Reconciled, LoopReconcileMember, LoopReconcileReaped, LoopReassign, LoopDone,
   LoopMember, LoopCall, LanEventHandler

-----------------------------------------------------------------------------
\* Sequences

\* InSomeOrder lists a finite set: every element of it, and nothing else.
LEMMA InSomeOrderLists ==
  ASSUME NEW S, IsFiniteSet(S)
  PROVE  /\ InSomeOrder(S) \in Seq(S) /\ Cardinality(S) \in Nat
         /\ Len(InSomeOrder(S)) = Cardinality(S)
         /\ \A x \in S : \E i \in 1 .. Cardinality(S) : InSomeOrder(S)[i] = x
<1> DEFINE n == Cardinality(S)
           f == InSomeOrder(S)
<1>1. n \in Nat /\ ExistsBijection(1 .. n, S)
  BY FS_CardinalityType
<1>2. PICK g : g \in Bijection(1 .. n, S)
  BY <1>1, Zenon DEF ExistsBijection
<1>3. g \in [1 .. n -> S] /\ IsInjective(g)
  BY <1>2 DEF Bijection, Injection, IsInjective
<1>4. f \in [1 .. n -> S] /\ IsInjective(f)
  BY <1>3, Zenon DEF InSomeOrder
<1> HIDE DEF f, n
<1>5. f \in Injection(1 .. n, S)
  BY <1>4 DEF Injection, IsInjective
<1>6. Cardinality(1 .. n) = n
  BY <1>1, FS_Interval
<1>7. f \in Surjection(1 .. n, S)
  BY <1>5, <1>6, FS_Injection, Zenon DEF n
<1>8. \A x \in S : \E i \in 1 .. n : f[i] = x
  BY <1>7 DEF Surjection
<1>9. f \in Seq(S) /\ Len(f) = n
  BY <1>1, <1>4
<1> QED
  BY <1>1, <1>8, <1>9 DEF f, n

\* The same with the elements of a larger set.
LEMMA InSomeOrderIn ==
  ASSUME NEW T, NEW S, IsFiniteSet(S), \A x \in S : x \in T
  PROVE  /\ InSomeOrder(S) \in Seq(T)
         /\ \A i \in DOMAIN InSomeOrder(S) : InSomeOrder(S)[i] \in S
         /\ \A x \in S : \E i \in DOMAIN InSomeOrder(S) : InSomeOrder(S)[i] = x
<1> DEFINE f == InSomeOrder(S)
<1>1. /\ f \in Seq(S) /\ Cardinality(S) \in Nat /\ Len(f) = Cardinality(S)
      /\ \A x \in S : \E i \in 1 .. Cardinality(S) : f[i] = x
  BY InSomeOrderLists, Zenon
<1> HIDE DEF f
<1>2. f \in Seq(T) /\ DOMAIN f = 1 .. Cardinality(S) /\ \A i \in DOMAIN f : f[i] \in S
  BY <1>1
<1> QED
  BY <1>1, <1>2, Zenon DEF f

\* The head and the tail of a sequence that is not empty.
LEMMA HeadTail ==
  ASSUME NEW S, NEW s \in Seq(S), s # <<>>
  PROVE  /\ Len(s) \in Nat \ {0} /\ Head(s) = s[1] /\ Head(s) \in S
         /\ Tail(s) \in Seq(S) /\ Len(Tail(s)) = Len(s) - 1
         /\ DOMAIN s = 1 .. Len(s) /\ DOMAIN Tail(s) = 1 .. Len(s) - 1
         /\ \A i \in 1 .. Len(s) - 1 : Tail(s)[i] = s[i + 1]
OBVIOUS

\* Appending an element.
LEMMA Appended ==
  ASSUME NEW S, NEW s \in Seq(S), NEW x \in S
  PROVE  /\ Append(s, x) \in Seq(S) /\ Len(s) \in Nat /\ Len(Append(s, x)) = Len(s) + 1
         /\ DOMAIN s = 1 .. Len(s) /\ DOMAIN Append(s, x) = 1 .. Len(s) + 1
         /\ \A i \in 1 .. Len(s) : Append(s, x)[i] = s[i]
         /\ Append(s, x)[Len(s) + 1] = x
OBVIOUS

\* One sequence after the other.
LEMMA Joined ==
  ASSUME NEW S, NEW s \in Seq(S), NEW t \in Seq(S)
  PROVE  /\ s \o t \in Seq(S) /\ Len(s) \in Nat /\ Len(t) \in Nat
         /\ DOMAIN (s \o t) = 1 .. Len(s) + Len(t)
         /\ Len(s \o t) = Len(s) + Len(t)
         /\ \A i \in 1 .. Len(s) : (s \o t)[i] = s[i]
         /\ \A i \in 1 .. Len(t) : (s \o t)[Len(s) + i] = t[i]
OBVIOUS

-----------------------------------------------------------------------------
\* Calls

\* The broker IDs are numbers, and none is NoBroker.
LEMMA BrokerIDs == Self \in Brokers /\ Brokers \subseteq Nat /\ NoBroker \notin Brokers
BY SelfAssumption, BrokersAssumption DEF NoBroker

\* What is known of a call by its name.
LEMMA CallShape ==
  ASSUME NEW c \in Calls
  PROVE  /\ c.call \in {"RemoveServer", "DeregisterNode", "Reassign"} => c.id \in Others
         /\ c.call = "AddServer" => c.id \in Others /\ c.addr \in Addrs
         /\ c.call = "RegisterNode" =>
              \/ c.id \in Brokers /\ c.health = "passing"
              \/ c.id \in Others /\ c.health = "critical"
         /\ c.call = "RegisterGroup" => c.id \in Brokers
         /\ c.call = "RegisterPartition" => c.p \in Partitions /\ c.r \in Assigned
         /\ c.call = "LeaderAndISR" =>
              c.leaders \in UNION {[P -> Brokers] : P \in SUBSET Partitions}
<1>1. CASE c \in LoopCalls
  BY <1>1 DEF LoopCalls, Others
<1>2. CASE c \in TopicCalls
  <2> DEFINE L == UNION {[P -> Brokers] : P \in SUBSET Partitions}
  <2> HIDE DEF L
  <2> QED
    BY <1>2 DEF TopicCalls, L
<1> QED
  BY <1>1, <1>2 DEF Calls

\* The calls of createTopic by name.
LEMMA TopicCallNames ==
  ASSUME NEW c \in TopicCalls
  PROVE  c \in Calls /\ c.call \in {"RegisterTopic", "DeregisterTopic", "StartCreate",
                                     "RegisterPartition", "LeaderAndISR"}
<1> DEFINE L == UNION {[P -> Brokers] : P \in SUBSET Partitions}
<1> HIDE DEF L
<1> QED
  BY DEF TopicCalls, L, Calls

\* The calls that the handlers make are of these kinds.
LEMMA CallsMade ==
  /\ \A b \in Others : {RemoveServer(b), DeregisterNode(b), Reassign(b)} \subseteq LoopCalls
  /\ \A b \in Others, a \in Addrs : AddServer(b, a) \in LoopCalls
  /\ \A b \in Brokers : RegisterNode(b, "passing") \in LoopCalls
  /\ \A b \in Others : RegisterNode(b, "critical") \in LoopCalls
  /\ \A b \in Brokers : RegisterGroup(b) \in LoopCalls
<1>1. \A b \in Others : {RemoveServer(b), DeregisterNode(b), Reassign(b)} \subseteq LoopCalls
  BY DEF LoopCalls, RemoveServer, DeregisterNode, Reassign
<1>2. \A b \in Others, a \in Addrs : AddServer(b, a) \in LoopCalls
  BY DEF LoopCalls, AddServer
<1>3. \A b \in Brokers : RegisterNode(b, "passing") \in LoopCalls
  BY DEF LoopCalls, RegisterNode
<1>4. \A b \in Others : RegisterNode(b, "critical") \in LoopCalls
  BY DEF LoopCalls, RegisterNode
<1>5. \A b \in Brokers : RegisterGroup(b) \in LoopCalls
  BY DEF LoopCalls, RegisterGroup
<1> QED
  BY <1>1, <1>2, <1>3, <1>4, <1>5

\* The calls of createTopic, and of a failover.
LEMMA TopicCallsMade ==
  /\ {RegisterTopic, DeregisterTopic, StartCreate} \subseteq TopicCalls
  /\ \A p \in Partitions, r \in Assigned : RegisterPartition(p, r) \in TopicCalls
  /\ \A S \in SUBSET (Brokers \cup {NoBroker}), P \in SUBSET Partitions :
       \A leaders \in [P -> Brokers] : LeaderAndISR(S, leaders) \in TopicCalls
<1>1. {RegisterTopic, DeregisterTopic, StartCreate} \subseteq TopicCalls
  BY DEF TopicCalls, RegisterTopic, DeregisterTopic, StartCreate
<1>2. \A p \in Partitions, r \in Assigned : RegisterPartition(p, r) \in TopicCalls
  BY DEF TopicCalls, RegisterPartition
<1>3. ASSUME NEW S \in SUBSET (Brokers \cup {NoBroker}), NEW P \in SUBSET Partitions,
             NEW leaders \in [P -> Brokers]
      PROVE  LeaderAndISR(S, leaders) \in TopicCalls
  <2> DEFINE L == UNION {[Q -> Brokers] : Q \in SUBSET Partitions}
  <2>1. leaders \in L
    OBVIOUS
  <2> HIDE DEF L
  <2>2. LeaderAndISR(S, leaders) \in
          [call : {"LeaderAndISR"}, to : SUBSET (Brokers \cup {NoBroker}), leaders : L]
    BY <2>1 DEF LeaderAndISR
  <2> QED
    BY <2>2, Zenon DEF TopicCalls, L
<1> QED
  BY <1>1, <1>2, <1>3, Zenon

\* What a call may do, whether it succeeds or fails.
Acts(c) ==
  \/ UNCHANGED store
  \/ Effect(c)
  \/ /\ c.call = "LeaderAndISR"
     /\ \E S \in SUBSET Recipients(c) : Effect(LeaderAndISR(S, c.leaders))

\* A call that fails took effect, in part or wholly, or did not.
LEMMA FailsActs == ASSUME NEW c, Fails(c) PROVE Acts(c)
BY DEF Fails, Acts

\* Only AddServer and RemoveServer change the raft configuration.
LEMMA ActsServers ==
  ASSUME NEW c, Acts(c)
  PROVE  \/ servers' = servers
         \/ /\ c.call = "RemoveServer" /\ servers' = {s \in servers : s.id # c.id}
         \/ /\ c.call = "AddServer"
            /\ servers' = {s \in servers : s.id # c.id} \cup {[id |-> c.id, addr |-> c.addr]}
<1>1. CASE UNCHANGED store
  BY <1>1 DEF store
<1>2. CASE Effect(c)
  BY <1>2 DEF Effect
<1>3. ASSUME NEW S, Effect(LeaderAndISR(S, c.leaders))
      PROVE  servers' = servers
  BY <1>3 DEF Effect, LeaderAndISR
<1> QED
  BY <1>1, <1>2, <1>3 DEF Acts

\* The node of the controller stays healthy.
LEMMA ActsNodes ==
  ASSUME TypeOK, NEW c \in Calls, Acts(c)
  PROVE  /\ nodes' \in [Brokers -> {"none", "passing", "critical"}]
         /\ nodes[Self] = "passing" => nodes'[Self] = "passing"
<1>0. Self \in Brokers /\ nodes \in [Brokers -> {"none", "passing", "critical"}]
  BY SelfAssumption DEF TypeOK
<1>1. CASE UNCHANGED store
  BY <1>0, <1>1 DEF store
<1>2. CASE Effect(c)
  <2>1. CASE c.call = "RegisterNode"
    <3>1. nodes' = [nodes EXCEPT ![c.id] = c.health]
      BY <1>2, <2>1 DEF Effect
    <3> QED
      BY <1>0, <2>1, <3>1, CallShape DEF Others
  <2>2. CASE c.call = "DeregisterNode"
    <3>1. nodes' = [nodes EXCEPT ![c.id] = "none"]
      BY <1>2, <2>2 DEF Effect
    <3> QED
      BY <1>0, <2>2, <3>1, CallShape DEF Others
  <2>3. CASE c.call \notin {"RegisterNode", "DeregisterNode"}
    BY <1>0, <1>2, <2>3 DEF Effect
  <2> QED
    BY <2>1, <2>2, <2>3
<1>3. ASSUME NEW S, Effect(LeaderAndISR(S, c.leaders))
      PROVE  nodes' = nodes
  BY <1>3 DEF Effect, LeaderAndISR
<1> QED
  BY <1>0, <1>1, <1>2, <1>3 DEF Acts

\* A partition that has a leader keeps one, and RegisterPartition gives it one.
LEMMA ActsPartitions ==
  ASSUME TypeOK, NEW c \in Calls, Acts(c)
  PROVE  /\ partitions' \in [Partitions -> [leader : Brokers \cup {NoBroker},
                                            AR : SUBSET Brokers, ISR : SUBSET Brokers]]
         /\ \A p \in Partitions :
              partitions[p].leader # NoBroker => partitions'[p].leader # NoBroker
         /\ Effect(c) /\ c.call = "RegisterPartition" => partitions'[c.p].leader # NoBroker
<1> DEFINE R == [leader : Brokers \cup {NoBroker}, AR : SUBSET Brokers, ISR : SUBSET Brokers]
<1>0. partitions \in [Partitions -> R]
  BY DEF TypeOK
<1>1. \A r \in Assigned : r \in R /\ r.leader # NoBroker
  BY BrokerIDs DEF Assigned
<1> HIDE DEF R
<1>2. CASE Effect(c) /\ c.call = "RegisterPartition"
  <2>1. c.p \in Partitions /\ c.r \in R /\ c.r.leader # NoBroker
    BY <1>1, <1>2, CallShape
  <2>2. partitions' = [partitions EXCEPT ![c.p] = c.r]
    BY <1>2 DEF Effect
  <2> QED
    BY <1>0, <2>1, <2>2 DEF R
<1>3. CASE ~(Effect(c) /\ c.call = "RegisterPartition")
  <2>1. ASSUME NEW S, Effect(LeaderAndISR(S, c.leaders))
        PROVE  partitions' = partitions
    BY <2>1 DEF Effect, LeaderAndISR
  <2>2. UNCHANGED store => partitions' = partitions
    BY DEF store
  <2>3. Effect(c) => partitions' = partitions
    BY <1>3 DEF Effect
  <2>4. partitions' = partitions
    BY <2>1, <2>2, <2>3 DEF Acts
  <2> QED
    BY <1>0, <1>3, <2>4 DEF R
<1> QED
  BY <1>2, <1>3

\* The group has a coordinator, and told keeps its type.
LEMMA ActsTold ==
  ASSUME TypeOK, NEW c \in Calls, Acts(c)
  PROVE  /\ coordinator' \in Brokers
         /\ topic' \in BOOLEAN
         /\ told' \in [Brokers -> [Partitions -> Brokers \cup {NoBroker}]]
<1> DEFINE B == Brokers \cup {NoBroker}
           T == [Partitions -> B]
<1>0. coordinator \in Brokers /\ topic \in BOOLEAN /\ told \in [Brokers -> T]
  BY DEF TypeOK
<1>1. ASSUME NEW l \in UNION {[P -> Brokers] : P \in SUBSET Partitions}, NEW p \in DOMAIN l
      PROVE  l[p] \in B
  OBVIOUS
<1> HIDE DEF T, B
<1>2. CASE UNCHANGED store
  BY <1>0, <1>2 DEF store, T, B
<1>3. ASSUME NEW d, Effect(d), d.call = "RegisterGroup" => d.id \in Brokers,
             d.call = "LeaderAndISR" => d.leaders \in UNION {[P -> Brokers] : P \in SUBSET Partitions}
      PROVE  coordinator' \in Brokers /\ topic' \in BOOLEAN /\ told' \in [Brokers -> T]
  <2>1. coordinator' \in Brokers
    BY <1>0, <1>3 DEF Effect
  <2>2. topic' \in BOOLEAN
    BY <1>3, Zenon DEF Effect
  <2>3. CASE d.call = "LeaderAndISR"
    <3>1. told' = [b \in Brokers |-> [p \in Partitions |->
                     IF b \in Recipients(d) /\ p \in DOMAIN d.leaders
                     THEN d.leaders[p] ELSE told[b][p]]]
      BY <1>3, <2>3, Zenon DEF Effect
    <3>2. \A p \in DOMAIN d.leaders : d.leaders[p] \in B
      BY <1>1, <1>3, <2>3
    <3>3. \A b \in Brokers, p \in Partitions : told[b][p] \in B
      BY <1>0 DEF T
    <3>4. told' \in [Brokers -> T]
      BY <3>1, <3>2, <3>3 DEF T
    <3> QED
      BY <2>1, <2>2, <3>4
  <2>4. CASE d.call # "LeaderAndISR"
    <3>1. told' = told
      BY <1>3, <2>4 DEF Effect
    <3> QED
      BY <1>0, <2>1, <2>2, <3>1
  <2> QED
    BY <2>3, <2>4
<1>4. CASE Effect(c)
  BY <1>3, <1>4, CallShape DEF T, B
<1>5. ASSUME NEW S, c.call = "LeaderAndISR", Effect(LeaderAndISR(S, c.leaders))
      PROVE  coordinator' \in Brokers /\ topic' \in BOOLEAN /\ told' \in [Brokers -> T]
  <2> DEFINE d == LeaderAndISR(S, c.leaders)
  <2>1. d.call = "LeaderAndISR" /\ d.leaders = c.leaders
    BY DEF LeaderAndISR
  <2>2. c.leaders \in UNION {[P -> Brokers] : P \in SUBSET Partitions}
    BY <1>5, CallShape
  <2> HIDE DEF d
  <2>3. Effect(d)
    BY <1>5 DEF d
  <2> QED
    BY <1>3, <2>1, <2>2, <2>3
<1> QED
  BY <1>2, <1>4, <1>5 DEF Acts, T, B

\* What a call does keeps the types of the store.
LEMMA ActsTypes ==
  ASSUME Types, NEW c \in Calls, Acts(c)
  PROVE  servers' \subseteq [id : Brokers, addr : Addrs] /\ IsFiniteSet(servers')
<1>0. servers \subseteq [id : Brokers, addr : Addrs] /\ IsFiniteSet(servers)
  BY Zenon DEF Types, TypeOK
<1> DEFINE kept == {s \in servers : s.id # c.id}
<1>1. kept \in SUBSET servers /\ IsFiniteSet(kept)
  BY <1>0, FS_Subset
<1> HIDE DEF kept
<1>2. c.call = "AddServer" => [id |-> c.id, addr |-> c.addr] \in [id : Brokers, addr : Addrs]
  BY CallShape DEF Others
<1>3. IsFiniteSet(kept \cup {[id |-> c.id, addr |-> c.addr]})
  BY <1>1, FS_AddElement
<1>4. \/ servers' = servers
      \/ servers' = kept
      \/ c.call = "AddServer" /\ servers' = kept \cup {[id |-> c.id, addr |-> c.addr]}
  BY ActsServers DEF kept
<1> QED
  BY <1>0, <1>1, <1>2, <1>3, <1>4

-----------------------------------------------------------------------------
\* Handlers

\* Calls that add no server.
LEMMA NoJoins ==
  ASSUME NEW t, NEW S, \A i \in DOMAIN t : t[i].call # "AddServer"
  PROVE  Joins(t, S)
BY Zenon DEF Joins

\* Further calls that add no server.
LEMMA JoinsConcat ==
  ASSUME NEW s \in Seq(Calls), NEW t \in Seq(Calls), NEW S, Joins(s, S),
         \A i \in DOMAIN t : t[i].call # "AddServer"
  PROVE  s \o t \in Seq(Calls) /\ Joins(s \o t, S)
<1> DEFINE u == s \o t
<1>0. u \in Seq(Calls)
  BY Joined
<1>1. /\ Len(s) \in Nat /\ Len(t) \in Nat /\ DOMAIN u = 1 .. Len(s) + Len(t)
      /\ \A i \in 1 .. Len(s) : u[i] = s[i]
      /\ \A i \in 1 .. Len(t) : u[Len(s) + i] = t[i]
  BY Joined
<1>2. DOMAIN s = 1 .. Len(s) /\ DOMAIN t = 1 .. Len(t)
  OBVIOUS
<1> HIDE DEF u
<1>3. ASSUME NEW j \in DOMAIN u, u[j].call = "AddServer"
      PROVE  /\ \A i \in 1 .. j - 1 : u[i].call = "RemoveServer"
             /\ \A x \in S : x.id = u[j].id \/ x.addr = u[j].addr =>
                  \E i \in 1 .. j - 1 : u[i].id = x.id
  <2>1. j \in 1 .. Len(s)
    <3>1. SUFFICES ASSUME j \notin 1 .. Len(s) PROVE FALSE
      OBVIOUS
    <3>2. j - Len(s) \in 1 .. Len(t) /\ j = Len(s) + (j - Len(s))
      BY <1>1, <3>1
    <3>3. u[j] = t[j - Len(s)]
      BY <1>1, <3>2, Zenon
    <3> QED
      BY <1>2, <1>3, <3>2, <3>3
  <2>2. u[j] = s[j] /\ \A i \in 1 .. j - 1 : i \in 1 .. Len(s) /\ u[i] = s[i]
    BY <1>1, <2>1
  <2>3. /\ \A i \in 1 .. j - 1 : s[i].call = "RemoveServer"
        /\ \A x \in S : x.id = s[j].id \/ x.addr = s[j].addr =>
             \E i \in 1 .. j - 1 : s[i].id = x.id
    BY <1>2, <1>3, <2>1, <2>2, Zenon DEF Joins
  <2> QED
    BY <2>2, <2>3, Zenon
<1> QED
  BY <1>0, <1>3, Zenon DEF Joins, u

\* joinCluster takes every server off that clashes with the new one, and never
\* the controller, whose ID and address are its own.
LEMMA JoinClusterCalls ==
  ASSUME Types, SelfOK, Unique(servers),
         NEW m \in Members, m.status = "alive", Home(m, addr[Self])
  PROVE  JoinCluster(m) \in Seq(Calls) /\ Joins(JoinCluster(m), servers)
<1> DEFINE clash == {s \in servers : s.id = m.id \/ s.addr = m.addr}
           n == Cardinality(clash)
           L == InSomeOrder(clash)
           remove == [i \in 1 .. n |-> RemoveServer(L[i].id)]
           add == <<AddServer(m.id, m.addr)>>
<1>1. CASE JoinCluster(m) = <<>>
  BY <1>1 DEF Joins
<1>2. CASE JoinCluster(m) # <<>>
  <2>1. /\ JoinCluster(m) = remove \o add
        /\ [id |-> m.id, addr |-> m.addr] \notin servers
    BY <1>2, Zenon DEF JoinCluster
  <2>2. m.id \in Brokers /\ m.addr \in Addrs /\ m.id # Self /\ m.addr # addr[Self]
    <3>1. m.id \in Brokers /\ m.addr \in Addrs /\ (m.addr = addr[Self] <=> m.id = Self)
      BY DEF Members, Home
    <3>2. m.id = Self => [id |-> m.id, addr |-> m.addr] \in servers
      BY <3>1 DEF SelfOK
    <3> QED
      BY <2>1, <3>1, <3>2
  <2>3. \A s \in clash : s \in servers /\ s.id \in Others
    <3>1. SUFFICES ASSUME NEW s \in clash PROVE s \in servers /\ s.id \in Others
      OBVIOUS
    <3>2. s \in servers /\ s.id \in Brokers /\ (s.id = m.id \/ s.addr = m.addr)
      BY DEF Types, TypeOK
    <3>3. s.id = Self => s = [id |-> Self, addr |-> addr[Self]]
      BY <3>2 DEF SelfOK, Unique
    <3>4. s.id = Self => s.addr = addr[Self]
      BY <3>3
    <3> QED
      BY <2>2, <3>2, <3>4 DEF Others
  <2>4. IsFiniteSet(clash)
    <3>1. clash \in SUBSET servers /\ IsFiniteSet(servers)
      BY DEF Types
    <3> QED
      BY <3>1, FS_Subset, Zenon
  <2>5. /\ L \in Seq(clash) /\ n \in Nat /\ Len(L) = n
        /\ \A x \in clash : \E i \in 1 .. n : L[i] = x
    <3> HIDE DEF clash
    <3> QED
      BY <2>4, InSomeOrderLists, Zenon
  <2> DEFINE r == remove
             u == r \o add
  <2>6. \A i \in 1 .. n : RemoveServer(L[i].id) \in Calls
    <3>0. \A i \in 1 .. n : L[i] \in clash
      BY <2>5
    <3> QED
      BY <2>3, <3>0, CallsMade, Zenon DEF Calls
  <2>7. r \in Seq(Calls) /\ Len(r) = n /\ \A i \in 1 .. n : r[i] = RemoveServer(L[i].id)
    <3>1. n \in Nat
      BY <2>5
    <3> HIDE DEF n, L
    <3> QED
      BY <2>6, <3>1
  <2>8. add \in Seq(Calls) /\ Len(add) = 1 /\ add[1] = AddServer(m.id, m.addr)
    <3>1. AddServer(m.id, m.addr) \in Calls
      BY <2>2, CallsMade DEF Others, Calls
    <3> QED
      BY <3>1
  <2>9. /\ \A i \in 1 .. n : r[i].call = "RemoveServer" /\ r[i].id = L[i].id
        /\ add[1].call = "AddServer" /\ add[1].id = m.id /\ add[1].addr = m.addr
    <3> HIDE DEF r, add, L, n
    <3> QED
      BY <2>7, <2>8 DEF RemoveServer, AddServer
  <2> HIDE DEF r, add, L, n, clash
  <2>10. /\ u \in Seq(Calls) /\ DOMAIN u = 1 .. n + 1
         /\ \A i \in 1 .. n : u[i] = r[i]
         /\ u[n + 1] = add[1]
    <3>1. /\ u \in Seq(Calls) /\ DOMAIN u = 1 .. Len(r) + Len(add)
          /\ \A i \in 1 .. Len(r) : u[i] = r[i]
          /\ \A i \in 1 .. Len(add) : u[Len(r) + i] = add[i]
      <4>1. r \in Seq(Calls) /\ add \in Seq(Calls)
        BY <2>7, <2>8
      <4> QED
        BY <4>1, Joined
    <3> HIDE DEF u
    <3>2. \A i \in 1 .. 1 : u[n + i] = add[i]
      BY <2>7, <2>8, <3>1, Zenon
    <3> QED
      BY <2>5, <2>7, <2>8, <3>1, <3>2
  <2> HIDE DEF u
  <2>11. ASSUME NEW j \in DOMAIN u, u[j].call = "AddServer"
         PROVE  j = n + 1
    BY <2>5, <2>9, <2>10, <2>11
  <2>12. \A i \in 1 .. n : u[i].call = "RemoveServer" /\ u[i].id = L[i].id
    BY <2>9, <2>10, Zenon
  <2>13. \A x \in servers : x.id = m.id \/ x.addr = m.addr => \E i \in 1 .. n : u[i].id = x.id
    <3>1. SUFFICES ASSUME NEW x \in servers, x.id = m.id \/ x.addr = m.addr
                   PROVE  \E i \in 1 .. n : u[i].id = x.id
      OBVIOUS
    <3>2. PICK i \in 1 .. n : L[i] = x
      BY <2>5, <3>1 DEF clash
    <3> QED
      BY <2>12, <3>2
  <2>14. (n + 1) - 1 = n
    BY <2>5
  <2>15. Joins(u, servers)
    <3>1. SUFFICES ASSUME NEW j \in DOMAIN u, u[j].call = "AddServer"
                   PROVE  /\ \A i \in 1 .. j - 1 : u[i].call = "RemoveServer"
                          /\ \A x \in servers : x.id = u[j].id \/ x.addr = u[j].addr =>
                               \E i \in 1 .. j - 1 : u[i].id = x.id
      BY Zenon DEF Joins
    <3>2. j - 1 = n /\ u[j].id = m.id /\ u[j].addr = m.addr
      BY <2>9, <2>10, <2>11, <2>14, <3>1
    <3> QED
      BY <2>12, <2>13, <3>2, Zenon
  <2> QED
    BY <2>1, <2>10, <2>15 DEF u, r
<1> QED
  BY <1>1, <1>2

\* A call that is made or not, and adds no server.
LEMMA OneCall ==
  ASSUME NEW c \in Calls, c.call # "AddServer", NEW s, s = <<c>> \/ s = <<>>
  PROVE  s \in Seq(Calls) /\ \A i \in DOMAIN s : s[i].call # "AddServer"
<1>1. CASE s = <<c>>
  BY <1>1
<1>2. CASE s = <<>>
  BY <1>2
<1> QED
  BY <1>1, <1>2

\* The calls of a handler.
LEMMA ReconcileMemberCalls ==
  ASSUME Types, SelfOK, Unique(servers), NEW m \in Members, Home(m, addr[Self])
  PROVE  ReconcileMember(m) \in Seq(Calls) /\ Joins(ReconcileMember(m), servers)
<1>0. m.id \in Brokers /\ m.status \in {"alive", "failed", "left", "reap"}
  BY DEF Members
<1>1. CASE m.status = "alive"
  <2> DEFINE join == JoinCluster(m)
             register == IF nodes[m.id] = "none" THEN <<RegisterNode(m.id, "passing")>> ELSE <<>>
             c == RegisterNode(m.id, "passing")
  <2>1. join \in Seq(Calls) /\ Joins(join, servers)
    BY <1>1, JoinClusterCalls
  <2>2. c \in Calls /\ c.call # "AddServer"
    BY <1>0, CallsMade DEF Calls, RegisterNode
  <2>3. register \in Seq(Calls) /\ \A i \in DOMAIN register : register[i].call # "AddServer"
    <3>1. register = <<c>> \/ register = <<>>
      OBVIOUS
    <3> HIDE DEF register, c
    <3> QED
      BY <2>2, <3>1, OneCall, Zenon
  <2>4. ReconcileMember(m) = join \o register
    BY <1>1, Zenon DEF ReconcileMember, HandleAliveMember
  <2> HIDE DEF join, register
  <2>5. join \o register \in Seq(Calls)
    BY <2>1, <2>3
  <2> QED
    BY <2>1, <2>3, <2>4, <2>5, JoinsConcat
<1>2. CASE m.status = "failed"
  <2> DEFINE c == RegisterNode(m.id, "critical")
             d == Reassign(m.id)
  <2>1. m.id \in Others
    BY <1>0, <1>2 DEF Home, Others
  <2>2. c \in Calls /\ d \in Calls /\ c.call # "AddServer" /\ d.call # "AddServer"
    BY <2>1, CallsMade DEF Calls, RegisterNode, Reassign
  <2>3. ReconcileMember(m) = <<c, d>>
    BY <1>2, Zenon DEF ReconcileMember, HandleFailedMember
  <2> HIDE DEF c, d
  <2>4. <<c, d>> \in Seq(Calls) /\ \A i \in DOMAIN <<c, d>> : <<c, d>>[i].call # "AddServer"
    BY <2>2
  <2> QED
    BY <2>3, <2>4, NoJoins
<1>3. CASE m.status \in {"left", "reap"}
  <2> DEFINE h == HandleDeregisterMember(m.id)
             c == RemoveServer(m.id)
             d == DeregisterNode(m.id)
  <2>1. ReconcileMember(m) = h
    BY <1>3 DEF ReconcileMember
  <2>2. CASE m.id = Self
    <3>1. h = <<>>
      BY <2>2 DEF HandleDeregisterMember
    <3> QED
      BY <2>1, <3>1 DEF Joins
  <2>3. CASE m.id # Self
    <3>1. c \in Calls /\ d \in Calls /\ c.call # "AddServer" /\ d.call # "AddServer"
      BY <1>0, <2>3, CallsMade DEF Calls, Others, RemoveServer, DeregisterNode
    <3> DEFINE a == IF \E s \in servers : s.id = m.id THEN <<c>> ELSE <<>>
               b == IF nodes[m.id] # "none" THEN <<d>> ELSE <<>>
    <3>2. h = a \o b
      BY <2>3, Zenon DEF HandleDeregisterMember
    <3>3. (a = <<c>> \/ a = <<>>) /\ (b = <<d>> \/ b = <<>>)
      BY Zenon
    <3> HIDE DEF h, a, b, c, d
    <3>4. /\ a \in Seq(Calls) /\ \A i \in DOMAIN a : a[i].call # "AddServer"
          /\ b \in Seq(Calls) /\ \A i \in DOMAIN b : b[i].call # "AddServer"
      BY <3>1, <3>3, OneCall, Zenon
    <3>5. Joins(a, servers) /\ a \o b \in Seq(Calls)
      BY <3>4, NoJoins
    <3> QED
      BY <2>1, <3>2, <3>4, <3>5, JoinsConcat
  <2> QED
    BY <2>2, <2>3
<1> QED
  BY <1>0, <1>1, <1>2, <1>3

\* A call leaves the raft configuration without clashes and with the controller.
LEMMA CallKeepsServers ==
  ASSUME Types, SelfOK, Unique(servers), Joins(todo, servers), todo # <<>>, Acts(Head(todo))
  PROVE  Unique(servers') /\ [id |-> Self, addr |-> addr[Self]] \in servers'
<1> DEFINE c == Head(todo)
           new == [id |-> c.id, addr |-> c.addr]
           me == [id |-> Self, addr |-> addr[Self]]
<1>0. todo \in Seq(Calls) /\ me \in servers
  BY Zenon DEF Types, SelfOK
<1>1. c \in Calls /\ c = todo[1] /\ 1 \in DOMAIN todo
  BY <1>0, HeadTail
<1>2. me.id = Self
  OBVIOUS
<1> HIDE DEF c, me
<1>3. CASE servers' = servers
  BY <1>0, <1>3 DEF me
<1>4. CASE c.call = "RemoveServer" /\ servers' = {s \in servers : s.id # c.id}
  <2>1. c.id # Self
    BY <1>1, <1>4, CallShape DEF Others
  <2> QED
    BY <1>0, <1>2, <1>4, <2>1 DEF Unique, me
<1>5. CASE c.call = "AddServer" /\ servers' = {s \in servers : s.id # c.id} \cup {new}
  <2>1. c.id # Self
    BY <1>1, <1>5, CallShape DEF Others
  <2>2. \A s \in servers : s.id # c.id /\ s.addr # c.addr
    <3>1. \A s \in servers : s.id = c.id \/ s.addr = c.addr => \E i \in 1 .. 1 - 1 : todo[i].id = s.id
      BY <1>1, <1>5, Zenon DEF Joins
    <3> QED
      BY <3>1
  <2>3. new.id = c.id /\ new.addr = c.addr
    OBVIOUS
  <2> HIDE DEF new
  <2>4. Unique(servers')
    BY <1>5, <2>2, <2>3 DEF Unique
  <2> QED
    BY <1>0, <1>2, <1>5, <2>1, <2>4 DEF me
<1> QED
  BY <1>3, <1>4, <1>5, ActsServers DEF c

\* A call that took effect leaves the rest of its handler to do.
LEMMA CallKeepsJoins ==
  ASSUME Types, Joins(todo, servers), todo # <<>>, Effect(Head(todo))
  PROVE  Joins(Tail(todo), servers')
<1> DEFINE t == Tail(todo)
           n == Len(todo)
           c == Head(todo)
<1>0. todo \in Seq(Calls)
  BY Zenon DEF Types
<1>1. /\ n \in Nat \ {0} /\ c = todo[1] /\ DOMAIN todo = 1 .. n /\ DOMAIN t = 1 .. n - 1
      /\ \A i \in 1 .. n - 1 : t[i] = todo[i + 1]
  BY <1>0, HeadTail
<1> HIDE DEF t, n, c
<1>2. SUFFICES ASSUME NEW j \in 1 .. n - 1, t[j].call = "AddServer"
               PROVE  /\ \A i \in 1 .. j - 1 : t[i].call = "RemoveServer"
                      /\ \A s \in servers' : s.id = t[j].id \/ s.addr = t[j].addr =>
                           \E i \in 1 .. j - 1 : t[i].id = s.id
  BY <1>1, Zenon DEF Joins, t
<1>3. j + 1 \in DOMAIN todo /\ t[j] = todo[j + 1] /\ (j + 1) - 1 = j /\ 1 \in 1 .. j
  BY <1>1, <1>2
<1>4. /\ \A i \in 1 .. j : todo[i].call = "RemoveServer"
      /\ \A s \in servers : s.id = t[j].id \/ s.addr = t[j].addr =>
           \E i \in 1 .. j : todo[i].id = s.id
  <2> DEFINE k == j + 1
  <2>1. k \in DOMAIN todo /\ todo[k].call = "AddServer" /\ k - 1 = j /\ t[j] = todo[k]
    BY <1>2, <1>3
  <2> HIDE DEF k
  <2>2. /\ \A i \in 1 .. k - 1 : todo[i].call = "RemoveServer"
        /\ \A s \in servers : s.id = todo[k].id \/ s.addr = todo[k].addr =>
             \E i \in 1 .. k - 1 : todo[i].id = s.id
    BY <2>1, Zenon DEF Joins
  <2> QED
    BY <2>1, <2>2, Zenon
<1>5. \A i \in 1 .. j - 1 : i + 1 \in 1 .. j /\ t[i] = todo[i + 1]
  BY <1>1, <1>2
<1>6. servers' = {s \in servers : s.id # c.id}
  <2>1. c.call = "RemoveServer"
    BY <1>1, <1>3, <1>4, Zenon
  <2> QED
    BY <2>1 DEF Effect, c
<1>7. ASSUME NEW s \in servers', s.id = t[j].id \/ s.addr = t[j].addr
      PROVE  \E i \in 1 .. j - 1 : t[i].id = s.id
  <2>1. s \in servers /\ s.id # c.id
    BY <1>6
  <2>2. PICK i \in 1 .. j : todo[i].id = s.id
    BY <1>4, <1>7, <2>1
  <2>3. i # 1
    BY <1>1, <2>1, <2>2
  <2>4. i - 1 \in 1 .. j - 1 /\ (i - 1) + 1 = i
    BY <1>2, <2>3
  <2> QED
    BY <1>5, <2>2, <2>4, Zenon
<1> QED
  BY <1>4, <1>5, <1>7, Zenon

\* A failover finds the controller itself, whatever else failed: its node is
\* healthy, unless it failed before.  Broker ID 0 is the value of the field the
\* code compares with.
LEMMA SelfPasses ==
  ASSUME SelfOK, Self \notin recovered, NEW failed, failed # 0
  PROVE  Self \in Passing(failed)
BY SelfAssumption DEF SelfOK, Passing

\* R is a RegisterPartition for each of the partitions of P.
Registers(R, P, g) ==
  /\ P \in SUBSET Partitions /\ g \in [P -> Assigned]
  /\ \A p \in P : RegisterPartition(p, g[p]) \in R
  /\ \A c \in R : \E p \in P : c = RegisterPartition(p, g[p])

\* Such calls in any order.
LEMMA Registrations ==
  ASSUME NEW R, NEW P, NEW g, Registers(R, P, g)
  PROVE  /\ InSomeOrder(R) \in Seq(TopicCalls)
         /\ \A i \in DOMAIN InSomeOrder(R) : InSomeOrder(R)[i].call = "RegisterPartition"
         /\ \A p \in P : \E i \in DOMAIN InSomeOrder(R) : InSomeOrder(R)[i].p = p
<1> DEFINE f == [p \in P |-> RegisterPartition(p, g[p])]
<1>0. /\ P \in SUBSET Partitions /\ g \in [P -> Assigned]
      /\ \A p \in P : RegisterPartition(p, g[p]) \in R
      /\ \A c \in R : \E p \in P : c = RegisterPartition(p, g[p])
  BY Zenon DEF Registers
<1>1. \A c \in R : c \in TopicCalls /\ c.call = "RegisterPartition"
  <2>1. \A p \in P : p \in Partitions /\ g[p] \in Assigned
    BY <1>0
  <2>2. \A p \in P : RegisterPartition(p, g[p]) \in TopicCalls
    BY <2>1, TopicCallsMade, Zenon
  <2>3. \A p \in P : RegisterPartition(p, g[p]).call = "RegisterPartition"
    BY DEF RegisterPartition
  <2> QED
    BY <1>0, <2>2, <2>3, Zenon
<1>2. IsFiniteSet(R)
  <2>1. IsFiniteSet(P)
    BY <1>0, PartitionsAssumption, FS_Subset, Zenon
  <2>2. f \in [P -> R] /\ \A x \in R : \E p \in P : f[p] = x
    BY <1>0
  <2> HIDE DEF f
  <2>3. f \in Surjection(P, R)
    BY <2>2, Zenon DEF Surjection
  <2> QED
    BY <2>1, <2>3, FS_Surjection, Zenon
<1>3. \A p \in P : \E c \in R : c.p = p
  <2>1. \A p \in P : RegisterPartition(p, g[p]).p = p
    BY DEF RegisterPartition
  <2> QED
    BY <1>0, <2>1, Zenon
<1>4. /\ InSomeOrder(R) \in Seq(TopicCalls)
      /\ \A i \in DOMAIN InSomeOrder(R) : InSomeOrder(R)[i] \in R
      /\ \A x \in R : \E i \in DOMAIN InSomeOrder(R) : InSomeOrder(R)[i] = x
  <2>1. \A x \in R : x \in TopicCalls
    BY <1>1, Zenon
  <2> QED
    BY <1>2, <2>1, InSomeOrderIn, Zenon
<1>5. \A i \in DOMAIN InSomeOrder(R) : InSomeOrder(R)[i].call = "RegisterPartition"
  BY <1>1, <1>4, Zenon
<1>6. ASSUME NEW p \in P PROVE \E i \in DOMAIN InSomeOrder(R) : InSomeOrder(R)[i].p = p
  <2>1. PICK c \in R : c.p = p
    BY <1>3, Zenon
  <2>2. PICK i \in DOMAIN InSomeOrder(R) : InSomeOrder(R)[i] = c
    BY <1>4, Zenon
  <2> QED
    BY <2>1, <2>2, Zenon
<1> QED
  BY <1>4, <1>5, <1>6, Zenon

\* The calls that hand over what a failed broker led: each partition gets a broker.
LEMMA ReassignCalls ==
  ASSUME Types, Joins(todo, servers), LoopReassign
  PROVE  todo' \in Seq(Calls) /\ Joins(todo', servers)
<1> DEFINE failed == Head(todo).id
           passing == Passing(failed)
           led == {p \in Partitions : partitions[p].leader = failed}
           moved(p, b) == [leader |-> b, AR |-> partitions[p].AR \ {failed},
                           ISR |-> partitions[p].ISR \ {failed}]
           calls(b, pick) ==
             (IF coordinator = failed THEN <<RegisterGroup(b)>> ELSE <<>>)
               \o InSomeOrder({RegisterPartition(p, moved(p, pick[p])) : p \in led})
               \o <<LeaderAndISR(passing, [p \in led |-> failed])>>
<1>0. /\ todo \in Seq(Calls) /\ todo # <<>> /\ Head(todo).call = "Reassign"
      /\ partitions \in [Partitions -> [leader : Brokers \cup {NoBroker}, AR : SUBSET Brokers,
                                        ISR : SUBSET Brokers]]
  BY Zenon DEF Types, TypeOK, LoopReassign
<1>1. failed \in Brokers
  <2>1. Head(todo) \in Calls
    BY <1>0, HeadTail
  <2> QED
    BY <1>0, <2>1, CallShape DEF Others
<1>2. CASE todo' = todo
  BY <1>0, <1>2, Zenon
<1>3. CASE todo' # todo
  <2>1. PICK b \in IF passing = {} THEN {NoBroker} ELSE passing, pick \in [led -> passing] :
          todo' = calls(b, pick) /\ (coordinator = failed => passing # {})
    BY <1>3, Zenon DEF LoopReassign
  <2> HIDE DEF failed
  <2>2. passing \subseteq Brokers /\ led \in SUBSET Partitions
    BY DEF Passing
  <2> DEFINE group == IF coordinator = failed THEN <<RegisterGroup(b)>> ELSE <<>>
             regs == {RegisterPartition(p, moved(p, pick[p])) : p \in led}
             last == LeaderAndISR(passing, [p \in led |-> failed])
  <2>3. group \in Seq(Calls) /\ \A i \in DOMAIN group : group[i].call # "AddServer"
    <3>1. coordinator = failed => b \in Brokers
      BY <2>1, <2>2
    <3>2. CASE coordinator = failed
      <4>1. RegisterGroup(b) \in Calls /\ RegisterGroup(b).call # "AddServer"
        BY <3>1, <3>2, CallsMade DEF Calls, RegisterGroup
      <4>2. group = <<RegisterGroup(b)>>
        BY <3>2
      <4> HIDE DEF group
      <4> QED
        BY <4>1, <4>2, OneCall, Zenon
    <3>3. CASE coordinator # failed
      BY <3>3
    <3> QED
      BY <3>2, <3>3
  <2>4. /\ InSomeOrder(regs) \in Seq(Calls)
        /\ \A i \in DOMAIN InSomeOrder(regs) : InSomeOrder(regs)[i].call # "AddServer"
    <3> DEFINE g == [p \in led |-> moved(p, pick[p])]
    <3>1. g \in [led -> Assigned]
      <4>1. SUFFICES ASSUME NEW p \in led PROVE moved(p, pick[p]) \in Assigned
        BY Zenon
      <4>2. p \in Partitions /\ pick[p] \in Brokers
        BY <2>1, <2>2
      <4> QED
        BY <1>0, <4>2 DEF Assigned
    <3>2. /\ \A p \in led : RegisterPartition(p, g[p]) \in regs
          /\ \A c \in regs : \E p \in led : c = RegisterPartition(p, g[p])
      <4>1. \A p \in led : g[p] = moved(p, pick[p])
        BY Zenon
      <4> HIDE DEF g, led
      <4> QED
        BY <4>1, Zenon
    <3> HIDE DEF g, regs
    <3>3. /\ InSomeOrder(regs) \in Seq(TopicCalls)
          /\ \A i \in DOMAIN InSomeOrder(regs) : InSomeOrder(regs)[i].call = "RegisterPartition"
      <4>1. Registers(regs, led, g)
        BY <2>2, <3>1, <3>2, Zenon DEF Registers
      <4> QED
        BY <4>1, Registrations, Zenon
    <3> QED
      BY <3>3 DEF Calls
  <2> HIDE DEF regs
  <2>7. last \in Calls /\ last.call # "AddServer"
    <3>1. [p \in led |-> failed] \in [led -> Brokers] /\ passing \in SUBSET (Brokers \cup {NoBroker})
      BY <1>1, <2>2
    <3>2. last \in Calls
      BY <2>2, <3>1, TopicCallsMade, Zenon DEF Calls
    <3> QED
      BY <3>2 DEF LeaderAndISR
  <2> HIDE DEF group, last
  <2> DEFINE s == InSomeOrder(regs)
             t == <<last>>
  <2>8. t \in Seq(Calls) /\ \A i \in DOMAIN t : t[i].call # "AddServer"
    BY <2>7, OneCall, Zenon
  <2>9. Joins(group, servers)
    BY <2>3, NoJoins, Zenon
  <2> HIDE DEF s, t
  <2>10. group \o s \in Seq(Calls) /\ Joins(group \o s, servers)
    BY <2>3, <2>4, <2>9, JoinsConcat, Zenon DEF s
  <2>11. (group \o s) \o t \in Seq(Calls) /\ Joins((group \o s) \o t, servers)
    BY <2>8, <2>10, JoinsConcat, Zenon
  <2>12. todo' = (group \o s) \o t
    BY <2>1, Zenon DEF s, t, group, regs, last
  <2> QED
    BY <2>11, <2>12
<1> QED
  BY <1>2, <1>3

\* buildPartitions gives every partition a leader out of the lookup.
LEMMA BuiltPartitions ==
  ASSUME Types, NEW ps \in BuildPartitions
  PROVE  ps \in [Partitions -> Assigned]
<1> DEFINE count == Cardinality(ListedAddrs)
           rings == {r \in [0 .. count - 1 -> ListedAddrs] : IsInjective(r)}
           broker(r, k) == addressToBroker[r[k % count]]
           replicas(r, k) == {broker(r, k + i) : i \in 0 .. ReplicationFactor - 1}
           built(r, start) == [p \in Partitions |->
                                [leader |-> broker(r, start[p]), AR |-> replicas(r, start[p]),
                                 ISR |-> replicas(r, start[p])]]
<1>0. (\A a \in ListedAddrs : addressToBroker[a] \in Brokers) /\ count \in Nat
  <2>1. ListedAddrs \in SUBSET Brokers /\ \A a \in ListedAddrs : addressToBroker[a] \in Brokers
    BY DEF Types, TypeOK, ListedAddrs, Addrs
  <2>2. IsFiniteSet(Brokers)
    BY BrokersAssumption
  <2>3. IsFiniteSet(ListedAddrs)
    BY <2>1, <2>2, FS_Subset, Zenon
  <2> QED
    BY <2>1, <2>3, FS_CardinalityType, Zenon
<1>1. PICK r \in rings, start \in [Partitions -> 0 .. count - 1] : ps = built(r, start)
  <2>1. PICK r \in rings : ps \in {built(r, start) : start \in [Partitions -> 0 .. count - 1]}
    BY Zenon DEF BuildPartitions
  <2> HIDE DEF rings, count
  <2> QED
    BY <2>1, Zenon
<1> HIDE DEF count
<1>2. r \in [0 .. count - 1 -> ListedAddrs]
  OBVIOUS
<1>3. ASSUME NEW p \in Partitions
      PROVE  broker(r, start[p]) \in Brokers /\ replicas(r, start[p]) \in SUBSET Brokers
  <2>1. start[p] \in 0 .. count - 1
    BY <1>1
  <2>2. count \in Nat \ {0} /\ start[p] \in Nat
    BY <1>0, <2>1
  <2>3. \A k \in Nat : broker(r, k) \in Brokers
    <3>1. SUFFICES ASSUME NEW k \in Nat PROVE broker(r, k) \in Brokers
      BY Zenon
    <3>2. k % count \in 0 .. count - 1
      BY <2>2
    <3>3. r[k % count] \in ListedAddrs
      BY <1>2, <3>2, Zenon
    <3> QED
      BY <1>0, <3>3, Zenon
  <2>4. \A i \in 0 .. ReplicationFactor - 1 : start[p] + i \in Nat
    <3> DEFINE k == start[p]
    <3> HIDE DEF k
    <3>1. SUFFICES ASSUME NEW i \in 0 .. ReplicationFactor - 1 PROVE k + i \in Nat
      BY DEF k
    <3> QED
      BY <2>2, SizesAssumption DEF k
  <2> HIDE DEF broker
  <2> QED
    BY <2>2, <2>3, <2>4, Zenon
<1>4. ASSUME NEW p \in Partitions
      PROVE  [leader |-> broker(r, start[p]), AR |-> replicas(r, start[p]),
              ISR |-> replicas(r, start[p])] \in Assigned
  <2> DEFINE l == broker(r, start[p])
             A == replicas(r, start[p])
  <2>1. l \in Brokers /\ A \in SUBSET Brokers
    BY <1>3
  <2> HIDE DEF l, A
  <2>2. [leader |-> l, AR |-> A, ISR |-> A] \in Assigned
    BY <2>1 DEF Assigned
  <2> QED
    BY <2>2 DEF l, A
<1> QED
  BY <1>1, <1>4, Zenon

\* createTopic has a RegisterPartition for every partition.
LEMMA CreateTopicCalls ==
  ASSUME Types, NEW ps \in BuildPartitions, NEW P, NEW calls,
         calls = <<RegisterTopic>>
                   \o InSomeOrder({RegisterPartition(p, ps[p]) : p \in Partitions})
                   \o <<LeaderAndISR(Everyone, [p \in Partitions |-> ps[p].leader])>>
  PROVE  calls \in Seq(TopicCalls) /\ Creating(calls, P)
<1>2. ps \in [Partitions -> Assigned]
  BY BuiltPartitions
<1> DEFINE R == {RegisterPartition(p, ps[p]) : p \in Partitions}
           s == InSomeOrder(R)
           first == RegisterTopic
           last == LeaderAndISR(Everyone, [p \in Partitions |-> ps[p].leader])
<1>3. /\ s \in Seq(TopicCalls)
      /\ \A i \in DOMAIN s : s[i].call = "RegisterPartition"
      /\ \A p \in Partitions : \E i \in DOMAIN s : s[i].p = p
  <2>1. /\ \A p \in Partitions : RegisterPartition(p, ps[p]) \in R
        /\ \A c \in R : \E p \in Partitions : c = RegisterPartition(p, ps[p])
    BY Zenon
  <2>2. Partitions \in SUBSET Partitions
    BY Zenon
  <2> HIDE DEF R
  <2> QED
    <3>1. Registers(R, Partitions, ps)
      BY <1>2, <2>1, <2>2, Zenon DEF Registers
    <3> QED
      BY <3>1, Registrations, Zenon
<1>4. first \in TopicCalls /\ last \in TopicCalls /\ last.call = "LeaderAndISR"
  <2> DEFINE l == [p \in Partitions |-> ps[p].leader]
  <2>1. l \in [Partitions -> Brokers]
    <3>1. \A a \in Assigned : a.leader \in Brokers
      BY DEF Assigned
    <3> QED
      BY <1>2, <3>1
  <2>2. Everyone \in SUBSET (Brokers \cup {NoBroker}) /\ Partitions \in SUBSET Partitions
    BY DEF Everyone
  <2> HIDE DEF l
  <2>3. LeaderAndISR(Everyone, l) \in TopicCalls
    BY <2>1, <2>2, TopicCallsMade, Zenon
  <2>4. LeaderAndISR(Everyone, l).call = "LeaderAndISR"
    BY DEF LeaderAndISR
  <2> QED
    BY <2>3, <2>4, TopicCallsMade, Zenon DEF l
<1> HIDE DEF s, first, last, R
<1> DEFINE t == <<first>> \o s
           u == t \o <<last>>
           n == Len(s)
<1>5. calls = u
  BY Zenon DEF s, first, last, R
<1>6. <<first>> \in Seq(TopicCalls) /\ <<last>> \in Seq(TopicCalls)
  BY <1>4
<1>7. /\ t \in Seq(TopicCalls) /\ n \in Nat /\ Len(t) = 1 + n /\ DOMAIN s = 1 .. n
      /\ \A i \in 1 .. n : t[1 + i] = s[i]
  <2>1. Len(<<first>>) = 1
    OBVIOUS
  <2> QED
    BY <1>3, <1>6, <2>1, Joined
<1> HIDE DEF t
<1>8. /\ u \in Seq(TopicCalls) /\ Len(u) = n + 2 /\ DOMAIN u = 1 .. n + 2 /\ u[n + 2] = last
      /\ \A i \in 1 .. n + 1 : u[i] = t[i]
  <2>1. Len(<<last>>) = 1 /\ <<last>>[1] = last
    OBVIOUS
  <2>2. /\ u \in Seq(TopicCalls) /\ Len(u) = Len(t) + Len(<<last>>)
        /\ \A i \in 1 .. Len(t) : u[i] = t[i]
        /\ \A i \in 1 .. Len(<<last>>) : u[Len(t) + i] = <<last>>[i]
    BY <1>6, <1>7, Joined
  <2> HIDE DEF u, n
  <2> QED
    BY <1>7, <2>1, <2>2
<1> HIDE DEF u, n
<1>9. ASSUME NEW p \in Partitions
      PROVE  \E i \in DOMAIN u : u[i].call = "RegisterPartition" /\ u[i].p = p
  <2>1. PICK i \in 1 .. n : s[i].p = p /\ s[i].call = "RegisterPartition"
    BY <1>3, <1>7
  <2>2. 1 + i \in 1 .. n + 1 /\ 1 + i \in 1 .. n + 2
    BY <1>7
  <2>3. 1 + i \in DOMAIN u /\ u[1 + i] = s[i]
    BY <1>7, <1>8, <2>2, Zenon
  <2> QED
    BY <2>1, <2>3, Zenon
<1>10. Creating(u, P)
  BY <1>9, Zenon DEF Creating
<1> QED
  BY <1>5, <1>8, <1>10, Zenon

\* createTopic goes on with such calls, or returns.
LEMMA CreateTopicContinues ==
  ASSUME Types, NEW n, CreateTopic(n), NEW P
  PROVE  \E calls \in Seq(TopicCalls) : Creating(calls, P) /\ Continue(n, calls)
<1>1. <<>> \in Seq(TopicCalls) /\ Creating(<<>>, P)
  BY DEF Creating
<1>2. CASE Continue(n, <<>>)
  BY <1>1, <1>2, Zenon
<1>3. CASE \E ps \in BuildPartitions :
             Continue(n, <<RegisterTopic>>
                           \o InSomeOrder({RegisterPartition(p, ps[p]) : p \in Partitions})
                           \o <<LeaderAndISR(Everyone, [p \in Partitions |-> ps[p].leader])>>)
  <2>1. PICK ps \in BuildPartitions :
             Continue(n, <<RegisterTopic>>
                           \o InSomeOrder({RegisterPartition(p, ps[p]) : p \in Partitions})
                           \o <<LeaderAndISR(Everyone, [p \in Partitions |-> ps[p].leader])>>)
    BY <1>3, Zenon
  <2>2. PICK calls : calls = <<RegisterTopic>>
                       \o InSomeOrder({RegisterPartition(p, ps[p]) : p \in Partitions})
                       \o <<LeaderAndISR(Everyone, [p \in Partitions |-> ps[p].leader])>>
    BY Zenon
  <2>3. calls \in Seq(TopicCalls) /\ Creating(calls, P)
    BY <2>2, CreateTopicCalls, Zenon
  <2>4. Continue(n, calls)
    BY <2>1, <2>2, Zenon
  <2> QED
    BY <2>3, <2>4, Zenon
<1> QED
  BY <1>2, <1>3, Zenon DEF CreateTopic

-----------------------------------------------------------------------------
\* Types

\* The types of what serf, lanEventHandler and the lookup hold.
MembershipTypes ==
  /\ serf \in [Brokers -> Statuses] /\ addr \in [Brokers -> Addrs]
  /\ addressToBroker \in [Addrs -> Brokers \cup {NoBroker}] /\ idToBroker \subseteq Brokers
  /\ Len(reconcileCh) <= ReconcileCap /\ updated \subseteq Brokers
  /\ eventChLAN \in Seq(Events) /\ reconcileCh \in Seq(Events)

\* Those of the store.
StoreTypes ==
  /\ nodes \in [Brokers -> {"none", "passing", "critical"}]
  /\ servers \subseteq [id : Brokers, addr : Addrs] /\ IsFiniteSet(servers)
  /\ partitions \in [Partitions -> [leader : Brokers \cup {NoBroker}, AR : SUBSET Brokers,
                                    ISR : SUBSET Brokers]]
  /\ coordinator \in Brokers
  /\ told \in [Brokers -> [Partitions -> Brokers \cup {NoBroker}]]
  /\ topic \in BOOLEAN

\* Those of leaderLoop and of the requests.
LoopTypes ==
  /\ loop \in {"wait", "handle", "reconcile", "reap", "panic"} /\ serving \in BOOLEAN
  /\ members \subseteq Members /\ todo \in Seq(Calls)
RequestTypes ==
  acked \in BOOLEAN /\ req \in Seq(Seq(TopicCalls)) /\ waiting \in 0 .. Len(req)

\* Together they are all types.
LEMMA TypesSplit == Types <=> MembershipTypes /\ StoreTypes /\ LoopTypes /\ RequestTypes
BY Zenon DEF Types, TypeOK, MembershipTypes, StoreTypes, LoopTypes, RequestTypes

\* A call keeps the types of the store.
LEMMA CallTypes ==
  ASSUME Types, NEW c \in Calls, Acts(c)
  PROVE  StoreTypes'
<1>1. TypeOK
  BY Zenon DEF Types
<1> QED
  BY <1>1, ActsNodes, ActsPartitions, ActsTold, ActsTypes, Zenon DEF StoreTypes

\* Every step keeps them for serf and the lookup.
LEMMA MembershipTypesStep ==
  ASSUME MembershipTypes, Next
  PROVE  MembershipTypes'
<1>1. CASE UNCHANGED <<membership, channels>>
  BY <1>1 DEF MembershipTypes, membership, channels, brokerLookup
<1>2. ASSUME NEW b \in Brokers, NEW status \in {"alive", "failed", "left", "none"}, NEW a \in Addrs,
             SerfEvent(b, status, a)
      PROVE  MembershipTypes'
  <2> DEFINE m == Member(b, IF status = "none" THEN "reap" ELSE status, a)
  <2>1. m \in Events
    BY <1>2 DEF SerfEvent, Member, Events
  <2>2. eventChLAN' = Append(eventChLAN, m) /\ UNCHANGED <<brokerLookup, reconcileCh, updated>>
    BY <1>2, Zenon DEF SerfEvent
  <2>3. serf' = [serf EXCEPT ![b] = status] /\ addr' = [addr EXCEPT ![b] = a]
    BY <1>2, Zenon DEF SerfEvent
  <2> HIDE DEF m
  <2>4. eventChLAN' \in Seq(Events)
    BY <2>1, <2>2 DEF MembershipTypes
  <2>5. serf' \in [Brokers -> Statuses] /\ addr' \in [Brokers -> Addrs]
    BY <2>3 DEF MembershipTypes, Statuses
  <2> QED
    BY <2>2, <2>4, <2>5 DEF MembershipTypes, brokerLookup
<1>3. CASE LanEventHandler
  <2> DEFINE m == Head(eventChLAN)
  <2>1. eventChLAN \in Seq(Events) /\ eventChLAN # <<>>
    BY <1>3, Zenon DEF MembershipTypes, LanEventHandler
  <2>2. m \in Events /\ Tail(eventChLAN) \in Seq(Events)
    BY <2>1, HeadTail
  <2>3. m.id \in Brokers /\ m.addr \in Addrs /\ m.status \in {"alive", "failed", "left", "reap"}
    BY <2>2 DEF Events
  <2>4. /\ m.status = "alive" => AddBroker(m)
        /\ m.status \in {"failed", "left"} => RemoveBroker(m)
        /\ m.status = "reap" => UNCHANGED brokerLookup
    BY <1>3, Zenon DEF LanEventHandler
  <2>7. /\ reconcileCh' = IF Len(reconcileCh) < ReconcileCap THEN Append(reconcileCh, m)
                          ELSE reconcileCh
        /\ eventChLAN' = Tail(eventChLAN) /\ UNCHANGED membership
    BY <1>3, Zenon DEF LanEventHandler
  <2> HIDE DEF m
  <2>5. /\ addressToBroker' \in [Addrs -> Brokers \cup {NoBroker}]
        /\ idToBroker' \subseteq Brokers
    <3>1. CASE m.status = "alive"
      BY <2>3, <2>4, <3>1 DEF MembershipTypes, AddBroker
    <3>2. CASE m.status \in {"failed", "left"}
      BY <2>3, <2>4, <3>2 DEF MembershipTypes, RemoveBroker
    <3>3. CASE m.status = "reap"
      BY <2>4, <3>3 DEF MembershipTypes, brokerLookup
    <3> QED
      BY <2>3, <3>1, <3>2, <3>3
  <2>6. reconcileCh' \in Seq(Events) /\ Len(reconcileCh') <= ReconcileCap
    BY <2>2, <2>7, SizesAssumption DEF MembershipTypes
  <2> QED
    BY <2>2, <2>5, <2>6, <2>7 DEF MembershipTypes, membership
<1>4. CASE LoopMember
  <2>1. /\ reconcileCh # <<>> /\ reconcileCh' = Tail(reconcileCh)
        /\ UNCHANGED <<membership, eventChLAN, brokerLookup>>
    BY <1>4, Zenon DEF LoopMember
  <2>2. reconcileCh' \in Seq(Events) /\ Len(reconcileCh') <= ReconcileCap
    BY <2>1, SizesAssumption DEF MembershipTypes
  <2> QED
    BY <2>1, <2>2 DEF MembershipTypes, membership, brokerLookup
<1>5. ASSUME NEW b \in Brokers, NEW a \in Addrs, SerfUpdate(b, a)
      PROVE  MembershipTypes'
  <2>1. /\ addr' = [addr EXCEPT ![b] = a] /\ updated' = updated \cup {b}
        /\ UNCHANGED <<serf, channels>>
    BY <1>5, Zenon DEF SerfUpdate
  <2>2. addr' \in [Brokers -> Addrs] /\ updated' \subseteq Brokers
    BY <2>1 DEF MembershipTypes
  <2> QED
    BY <2>1, <2>2 DEF MembershipTypes, channels, brokerLookup
<1>6. LoopReconcile \/ LoopReconcileReaped \/ LoopCall \/ LoopReassign \/ LoopDone \/ Reconciled
        \/ Asked \/ Started \/ Called => UNCHANGED <<membership, channels>>
  BY LoopFrame, RequestFrame, Zenon
<1>7. Changed => MembershipTypes'
  BY <1>2, Zenon DEF Changed
<1>8. Readdressed => MembershipTypes'
  BY <1>5, Zenon DEF Readdressed
<1> QED
  BY <1>1, <1>3, <1>4, <1>6, <1>7, <1>8, Steps, Zenon

\* The next call of a request goroutine, and what is left of it.
LEMMA RequestHead ==
  ASSUME Types, NEW n \in DOMAIN req, req[n] # <<>>
  PROVE  /\ req[n] \in Seq(TopicCalls) /\ Head(req[n]) \in TopicCalls
         /\ Tail(req[n]) \in Seq(TopicCalls)
<1>1. req \in Seq(Seq(TopicCalls))
  BY Zenon DEF Types
<1>2. req[n] \in Seq(TopicCalls)
  BY <1>1
<1> QED
  BY <1>2, HeadTail, Zenon

\* A request goroutine acts on the store by its calls.
LEMMA CalledActs ==
  ASSUME Types, Called
  PROVE  \E c \in TopicCalls : Acts(c)
<1>1. PICK n \in DOMAIN req : req[n] # <<>> /\ (Effect(Head(req[n])) \/ Fails(Head(req[n])))
  BY Zenon DEF Called, RequestCall
<1>2. Head(req[n]) \in TopicCalls
  BY <1>1, RequestHead, Zenon
<1> QED
  BY <1>1, <1>2, FailsActs, Zenon DEF Acts

\* Every step keeps the types of the store.
LEMMA StoreTypesStep ==
  ASSUME Types, Next
  PROVE  StoreTypes'
<1>0. StoreTypes /\ todo \in Seq(Calls)
  BY TypesSplit, Zenon DEF LoopTypes, RequestTypes
<1>1. CASE UNCHANGED store
  BY <1>0, <1>1 DEF StoreTypes, store
<1>2. CASE LoopCall
  <2>1. todo # <<>> /\ (Effect(Head(todo)) \/ Fails(Head(todo)))
    BY <1>2, Zenon DEF LoopCall
  <2>2. Acts(Head(todo))
    BY <2>1, FailsActs, Zenon DEF Acts
  <2>3. Head(todo) \in Calls
    BY <1>0, <2>1, HeadTail
  <2> QED
    BY <2>2, <2>3, CallTypes, Zenon
<1>3. CASE Called
  <2>1. PICK c \in TopicCalls : Acts(c)
    BY <1>3, CalledActs, Zenon
  <2>2. c \in Calls
    BY TopicCallNames
  <2> QED
    BY <2>1, <2>2, CallTypes, Zenon
<1>4. LoopMember \/ LoopReconcile \/ LoopReconcileReaped \/ LoopReassign \/ LoopDone \/ Reconciled
        \/ LanEventHandler \/ Changed \/ Readdressed \/ Asked \/ Started => UNCHANGED store
  BY LoopFrame, RequestFrame, SerfFrame, Zenon
<1> QED
  BY <1>1, <1>2, <1>3, <1>4, Steps, Zenon

\* The goroutine of a request goes on.
LEMMA ContinueTypes ==
  ASSUME RequestTypes, NEW n \in DOMAIN req, NEW calls \in Seq(TopicCalls), Continue(n, calls)
  PROVE  req' \in Seq(Seq(TopicCalls)) /\ waiting' \in 0 .. Len(req')
<1>0. req \in Seq(Seq(TopicCalls)) /\ waiting \in 0 .. Len(req)
  BY Zenon DEF RequestTypes
<1>1. req' = [req EXCEPT ![n] = calls] /\ waiting' \in {0, waiting}
  BY DEF Continue
<1>2. req' \in Seq(Seq(TopicCalls)) /\ Len(req') = Len(req) /\ Len(req) \in Nat
  <2> DEFINE T == Seq(TopicCalls)
  <2> HIDE DEF T
  <2>1. req \in Seq(T) /\ calls \in T
    BY <1>0 DEF T
  <2>2. req' \in Seq(T) /\ Len(req') = Len(req) /\ Len(req) \in Nat
    BY <1>1, <2>1
  <2> QED
    BY <2>2 DEF T
<1> QED
  BY <1>0, <1>1, <1>2

\* Every step keeps the types of the requests.
LEMMA RequestTypesStep ==
  ASSUME Types, Next
  PROVE  RequestTypes'
<1>0. RequestTypes
  BY TypesSplit, Zenon
<1>1. acked \in BOOLEAN /\ req \in Seq(Seq(TopicCalls)) /\ waiting \in 0 .. Len(req)
  BY <1>0, Zenon DEF RequestTypes
<1>2. CASE UNCHANGED requesting
  BY <1>1, <1>2 DEF RequestTypes, requesting
<1>3. CASE Asked
  <2> DEFINE T == Seq(TopicCalls)
  <2>1. <<StartCreate>> \in T /\ <<DeregisterTopic>> \in T
    BY TopicCallsMade
  <2>2. PICK wait \in BOOLEAN, calls \in T : WithTimeout(wait, calls)
    BY <1>3, <2>1, Zenon DEF Asked, HandleCreateTopic, HandleDeleteTopics
  <2> HIDE DEF T
  <2>3. req' = Append(req, calls) /\ waiting' \in {0, Len(req')} /\ acked' = acked
    BY <2>2 DEF WithTimeout
  <2>4. req' \in Seq(T) /\ Len(req') \in Nat
    BY <1>1, <2>2, <2>3 DEF T
  <2>5. waiting' \in 0 .. Len(req')
    BY <2>3, <2>4
  <2> QED
    BY <1>1, <2>3, <2>4, <2>5, Zenon DEF RequestTypes, T
<1>4. CASE Started
  <2>1. PICK n \in DOMAIN req : CreateTopic(n)
    BY <1>4, Zenon DEF Started
  <2>2. PICK calls \in Seq(TopicCalls) : Continue(n, calls)
    BY <2>1, CreateTopicContinues, Zenon
  <2>3. acked' = acked
    BY <1>4, RequestFrame, Zenon
  <2> QED
    BY <1>0, <1>1, <2>2, <2>3, ContinueTypes, Zenon DEF RequestTypes
<1>5. CASE Called
  <2>1. PICK n \in DOMAIN req : RequestCall(n)
    BY <1>5, Zenon DEF Called
  <2>2. Tail(req[n]) \in Seq(TopicCalls) /\ <<>> \in Seq(TopicCalls)
    <3>1. <<>> \in Seq(TopicCalls)
      OBVIOUS
    <3> QED
      BY <2>1, <3>1, RequestHead, Zenon DEF RequestCall
  <2>3. PICK calls \in Seq(TopicCalls) : Continue(n, calls)
    BY <2>1, <2>2, Zenon DEF RequestCall
  <2>4. acked' \in BOOLEAN
    BY <1>1, <2>1, Zenon DEF RequestCall
  <2> QED
    BY <1>0, <2>3, <2>4, ContinueTypes, Zenon DEF RequestTypes
<1>6. LoopMember \/ LoopReconcile \/ LoopReconcileReaped \/ LoopReassign \/ LoopDone \/ LoopCall
        \/ Reconciled \/ LanEventHandler \/ Changed \/ Readdressed => UNCHANGED requesting
  BY LoopFrame, SerfFrame, Zenon
<1> QED
  BY <1>2, <1>3, <1>4, <1>5, <1>6, Steps, Zenon

\* A request leaves nodes and servers alone.
LEMMA TopicCallServers ==
  ASSUME Types, Called
  PROVE  servers' = servers /\ nodes' = nodes
<1>1. PICK c \in TopicCalls : Acts(c)
  BY CalledActs, Zenon
<1>3. c.call \in {"RegisterTopic", "DeregisterTopic", "StartCreate", "RegisterPartition", "LeaderAndISR"}
  BY TopicCallNames
<1>4. servers' = servers
  BY <1>1, <1>3, ActsServers
<1>5. nodes' = nodes
  <2>1. Effect(c) => nodes' = nodes
    BY <1>3 DEF Effect
  <2>2. \A S : Effect(LeaderAndISR(S, c.leaders)) => nodes' = nodes
    BY DEF Effect, LeaderAndISR
  <2>3. UNCHANGED store => nodes' = nodes
    BY DEF store
  <2> QED
    BY <1>1, <2>1, <2>2, <2>3, Zenon DEF Acts
<1> QED
  BY <1>4, <1>5

\* An event is a member that leaderLoop may look at.
LEMMA EventsAreMembers == Events \subseteq Members
BY DEF Events, Members

\* Every step keeps the types of leaderLoop, and its handlers add a server only
\* after those that clash with it.
LEMMA LoopStep ==
  ASSUME Types, SelfOK, Unique(servers), Joins(todo, servers), Next
  PROVE  LoopTypes' /\ Joins(todo', servers')
<1>0. /\ loop \in {"wait", "handle", "reconcile", "reap", "panic"} /\ serving \in BOOLEAN
      /\ members \subseteq Members /\ todo \in Seq(Calls)
  BY TypesSplit, Zenon DEF LoopTypes
<1>1. serf \in [Brokers -> Statuses] /\ addr \in [Brokers -> Addrs] /\ reconcileCh \in Seq(Events)
  BY TypesSplit, Zenon DEF MembershipTypes
<1>2. CASE UNCHANGED looping /\ servers' = servers
  BY <1>0, <1>2, Zenon DEF LoopTypes, looping
<1>3. CASE LoopMember
  <2> DEFINE m == Head(reconcileCh)
  <2>1. /\ reconcileCh # <<>> /\ todo' = ReconcileMember(m) /\ loop' = "handle"
        /\ UNCHANGED <<serving, members, servers>>
    BY <1>3 DEF LoopMember, store
  <2>2. m \in Events /\ m = reconcileCh[1] /\ 1 \in DOMAIN reconcileCh
    BY <1>1, <2>1, HeadTail
  <2>3. m \in Members /\ Home(m, addr[Self])
    BY <2>2, EventsAreMembers, Zenon DEF SelfOK
  <2> HIDE DEF m
  <2>4. todo' \in Seq(Calls) /\ Joins(todo', servers)
    BY <2>1, <2>3, ReconcileMemberCalls, Zenon
  <2>5. LoopTypes'
    BY <1>0, <2>1, <2>4, Zenon DEF LoopTypes
  <2> QED
    BY <2>1, <2>4, <2>5, Zenon
<1>4. CASE LoopReconcile
  <2>1. serving' = FALSE /\ UNCHANGED <<todo, servers>>
    BY <1>4, Zenon DEF LoopReconcile, store
  <2>2. loop' \in {"wait", "handle", "reconcile", "reap", "panic"}
    BY <1>0, <1>4 DEF LoopReconcile
  <2>3. members' \subseteq Members
    <3>1. CASE UNCHANGED members
      BY <1>0, <3>1
    <3>2. CASE /\ known' = {b \in Brokers : serf[b] # "none"}
               /\ members' = {Member(b, serf[b], addr[b]) : b \in known'}
      <4>1. ASSUME NEW b \in known' PROVE Member(b, serf[b], addr[b]) \in Members
        BY <1>1, <3>2 DEF Member, Members, Statuses
      <4> QED
        BY <3>2, <4>1
    <3> QED
      BY <1>4, <3>1, <3>2, Zenon DEF LoopReconcile
  <2>4. LoopTypes'
    BY <1>0, <2>1, <2>2, <2>3, Zenon DEF LoopTypes
  <2> QED
    BY <2>1, <2>4, Zenon
<1>5. ASSUME NEW m \in members, LoopReconcileMember(m)
      PROVE  LoopTypes' /\ Joins(todo', servers')
  <2>1. /\ members' = members \ {m} /\ todo' = ReconcileMember(m)
        /\ UNCHANGED <<serving, loop, servers>>
    BY <1>5, Zenon DEF LoopReconcileMember, store
  <2>2. m \in Members /\ Home(m, addr[Self])
    BY <1>0, <1>5 DEF SelfOK
  <2>3. todo' \in Seq(Calls) /\ Joins(todo', servers)
    BY <2>1, <2>2, ReconcileMemberCalls, Zenon
  <2>4. LoopTypes'
    BY <1>0, <2>1, <2>3, Zenon DEF LoopTypes
  <2> QED
    BY <2>1, <2>3, <2>4, Zenon
<1>6. CASE LoopReconcileReaped
  <2>1. /\ members' = {Member(b, "reap", NoBroker) : b \in {c \in Brokers \ known : nodes[c] # "none"}}
        /\ loop' = "reap" /\ UNCHANGED <<serving, todo, servers>>
    BY <1>6, Zenon DEF LoopReconcileReaped, store
  <2>2. \A b \in Brokers : Member(b, "reap", NoBroker) \in Members
    BY DEF Member, Members
  <2>3. members' \subseteq Members
    BY <2>1, <2>2
  <2>4. LoopTypes'
    BY <1>0, <2>1, <2>3, Zenon DEF LoopTypes
  <2> QED
    BY <2>1, <2>4, Zenon
<1>7. CASE LoopCall
  <2>1. todo # <<>> /\ serving' = serving
    BY <1>7, Zenon DEF LoopCall
  <2>2. Tail(todo) \in Seq(Calls) /\ <<>> \in Seq(Calls)
    BY <1>0, <2>1
  <2>3. CASE Effect(Head(todo)) /\ todo' = Tail(todo) /\ UNCHANGED <<loop, members>>
    <3>1. LoopTypes'
      BY <1>0, <2>1, <2>2, <2>3, Zenon DEF LoopTypes
    <3> QED
      BY <2>1, <2>3, <3>1, CallKeepsJoins, Zenon
  <2>4. CASE todo' = <<>> /\ IF loop = "reap" THEN loop' = "wait" /\ members' = {}
                             ELSE UNCHANGED <<loop, members>>
    <3>1. members' \subseteq Members /\ loop' \in {"wait", "handle", "reconcile", "reap", "panic"}
      BY <1>0, <2>4
    <3>2. LoopTypes'
      BY <1>0, <2>1, <2>2, <2>4, <3>1, Zenon DEF LoopTypes
    <3>3. Joins(<<>>, servers')
      BY DEF Joins
    <3> QED
      BY <2>4, <3>2, <3>3, Zenon
  <2> QED
    BY <1>7, <2>3, <2>4, Zenon DEF LoopCall
<1>8. CASE LoopReassign
  <2>1. UNCHANGED <<serving, members, servers>>
    BY <1>8, Zenon DEF LoopReassign, store
  <2>2. todo' \in Seq(Calls) /\ Joins(todo', servers)
    BY <1>8, ReassignCalls, Zenon
  <2>3. loop' = "panic" \/ loop' = loop
    BY <1>8, Zenon DEF LoopReassign
  <2>4. LoopTypes'
    BY <1>0, <2>1, <2>2, <2>3, Zenon DEF LoopTypes
  <2> QED
    BY <2>1, <2>2, <2>4, Zenon
<1>9. CASE LoopDone
  <2>1. loop' = "wait" /\ UNCHANGED <<todo, members, servers>>
    BY <1>9, Zenon DEF LoopDone, store
  <2>2. serving' \in BOOLEAN
    BY <1>9, Zenon DEF LoopDone
  <2>3. LoopTypes'
    BY <1>0, <2>1, <2>2, Zenon DEF LoopTypes
  <2> QED
    BY <2>1, <2>3, Zenon
<1>10. CASE Called
  BY <1>2, <1>10, RequestFrame, TopicCallServers, Zenon
<1>11. Asked \/ Started \/ LanEventHandler \/ Changed \/ Readdressed
         => UNCHANGED looping /\ servers' = servers
  BY RequestFrame, LoopFrame, SerfFrame, Zenon DEF store
<1>12. Reconciled => LoopTypes' /\ Joins(todo', servers')
  BY <1>5, Zenon DEF Reconciled
<1> QED
  BY <1>2, <1>3, <1>4, <1>6, <1>7, <1>8, <1>9, <1>10, <1>11, <1>12, Steps, Zenon

-----------------------------------------------------------------------------
\* The controller

\* Calls keep the controller's node and server, and let no servers clash.
LEMMA ServersStep ==
  ASSUME Types, SelfOK, Unique(servers), Joins(todo, servers), Next
  PROVE  /\ nodes[Self] = "passing" => nodes'[Self] = "passing"
         /\ [id |-> Self, addr |-> addr[Self]] \in servers'
         /\ Unique(servers')
<1>0. [id |-> Self, addr |-> addr[Self]] \in servers
  BY Zenon DEF SelfOK
<1>1. CASE UNCHANGED <<nodes, servers>>
  BY <1>0, <1>1, Zenon
<1>2. CASE LoopCall
  <2>1. todo # <<>> /\ (Effect(Head(todo)) \/ Fails(Head(todo)))
    BY <1>2, Zenon DEF LoopCall
  <2>2. Acts(Head(todo))
    BY <2>1, FailsActs, Zenon DEF Acts
  <2>3. TypeOK /\ todo \in Seq(Calls)
    BY Zenon DEF Types
  <2>4. Head(todo) \in Calls
    BY <2>1, <2>3, HeadTail
  <2>5. nodes[Self] = "passing" => nodes'[Self] = "passing"
    BY <2>2, <2>3, <2>4, ActsNodes, Zenon
  <2> QED
    BY <2>1, <2>2, <2>5, CallKeepsServers, Zenon
<1>3. CASE Called
  BY <1>1, <1>3, TopicCallServers, Zenon
<1>4. LoopMember \/ LoopReconcile \/ LoopReconcileReaped \/ LoopReassign \/ LoopDone \/ Reconciled
        \/ LanEventHandler \/ Changed \/ Readdressed \/ Asked \/ Started => UNCHANGED <<nodes, servers>>
  BY LoopFrame, RequestFrame, SerfFrame, Zenon DEF store
<1> QED
  BY <1>1, <1>2, <1>3, <1>4, Steps, Zenon

\* Nobody can have failed before but those that had in the beginning.
LEMMA RecoveredStep == ASSUME Next PROVE recovered' = recovered
<1>1. Changed \/ Readdressed => recovered' = recovered
  BY Zenon DEF Changed, Readdressed, SerfEvent, SerfUpdate
<1> QED
  BY <1>1, LoopFrame, RequestFrame, Steps, Zenon DEF membership

\* What the channels and leaderLoop hold of the controller and its address.
MembersHome(home) ==
  /\ serf[Self] = "alive" /\ addr[Self] = home
  /\ \A b \in Others : addr[b] # home
  /\ \A i \in DOMAIN eventChLAN : Home(eventChLAN[i], home)
  /\ \A i \in DOMAIN reconcileCh : Home(reconcileCh[i], home)
  /\ \A m \in members : Home(m, home)

\* A change serf reports is never of the controller, and never to its address.
LEMMA SerfEventHome ==
  ASSUME Types, NEW home, MembersHome(home), NEW b \in Brokers,
         NEW status \in {"alive", "failed", "left", "none"}, NEW a \in Addrs,
         SerfEvent(b, status, a)
  PROVE  MembersHome(home)'
<1> DEFINE m == Member(b, IF status = "none" THEN "reap" ELSE status, a)
<1>0. /\ serf \in [Brokers -> Statuses] /\ addr \in [Brokers -> Addrs]
      /\ eventChLAN \in Seq(Events) /\ Self \in Brokers
  BY SelfAssumption, TypesSplit, Zenon DEF MembershipTypes
<1>1. /\ b # Self /\ serf' = [serf EXCEPT ![b] = status] /\ addr' = [addr EXCEPT ![b] = a]
      /\ eventChLAN' = Append(eventChLAN, m)
      /\ UNCHANGED <<reconcileCh, members>>
  BY Zenon DEF SerfEvent, looping
<1>2. /\ serf[Self] = "alive" /\ addr[Self] = home /\ \A c \in Others : addr[c] # home
      /\ \A i \in DOMAIN eventChLAN : Home(eventChLAN[i], home)
  BY Zenon DEF MembersHome
<1>3. a # home
  <2>1. CASE status = "alive" /\ budget.moves
    <3>1. \A c \in Brokers \ {b} : serf[c] = "alive" => addr[c] # a
      BY <2>1, Zenon DEF SerfEvent, Free
    <3> QED
      BY <1>0, <1>1, <1>2, <3>1
  <2>2. CASE ~(status = "alive" /\ budget.moves)
    <3>1. a = addr[b]
      BY <2>2, Zenon DEF SerfEvent
    <3> QED
      BY <1>1, <1>2, <3>1 DEF Others
  <2> QED
    BY <2>1, <2>2
<1>4. Home(m, home) /\ m \in Events
  BY <1>1, <1>3 DEF Home, Member, Events
<1>5. serf'[Self] = "alive" /\ addr'[Self] = home
  BY <1>0, <1>1, <1>2
<1>6. \A c \in Others : addr'[c] # home
  BY <1>0, <1>1, <1>2, <1>3 DEF Others
<1> HIDE DEF m
<1>7. \A i \in DOMAIN eventChLAN' : Home(eventChLAN'[i], home)
  <2> DEFINE n == Len(eventChLAN)
             e == Append(eventChLAN, m)
  <2>1. /\ n \in Nat /\ DOMAIN eventChLAN = 1 .. n /\ DOMAIN e = 1 .. n + 1
        /\ \A i \in 1 .. n : e[i] = eventChLAN[i]
        /\ e[n + 1] = m
    BY <1>0, <1>4, Appended
  <2> HIDE DEF n, e
  <2>2. \A i \in DOMAIN e : i \in 1 .. n \/ i = n + 1
    BY <2>1
  <2>3. \A i \in DOMAIN e : Home(e[i], home)
    BY <1>2, <1>4, <2>1, <2>2, Zenon
  <2> QED
    BY <1>1, <2>3, Zenon DEF e
<1> QED
  BY <1>1, <1>5, <1>6, <1>7, Zenon DEF MembersHome

\* Nor does a broker change its address to the controller's.
LEMMA SerfUpdateHome ==
  ASSUME Types, NEW home, MembersHome(home), NEW b \in Brokers, NEW a \in Addrs, SerfUpdate(b, a)
  PROVE  MembersHome(home)'
<1>0. addr \in [Brokers -> Addrs] /\ Self \in Brokers
  BY SelfAssumption, TypesSplit, Zenon DEF MembershipTypes
<1>1. /\ b # Self /\ addr' = [addr EXCEPT ![b] = a]
      /\ \A c \in Brokers \ {b} : serf[c] = "alive" => addr[c] # a
      /\ UNCHANGED <<serf, eventChLAN, reconcileCh, members>>
  BY Zenon DEF SerfUpdate, Free, channels, looping
<1>2. serf[Self] = "alive" /\ addr[Self] = home /\ \A c \in Others : addr[c] # home
  BY Zenon DEF MembersHome
<1>3. addr'[Self] = home /\ \A c \in Others : addr'[c] # home
  BY <1>0, <1>1, <1>2 DEF Others
<1> QED
  BY <1>1, <1>3, Zenon DEF MembersHome

\* Every step keeps what is known of the controller and its address.
LEMMA HomeStep ==
  ASSUME Types, NEW home, MembersHome(home), Next
  PROVE  MembersHome(home)'
<1>0. /\ serf[Self] = "alive" /\ addr[Self] = home /\ (\A c \in Others : addr[c] # home)
      /\ (\A i \in DOMAIN eventChLAN : Home(eventChLAN[i], home))
      /\ (\A i \in DOMAIN reconcileCh : Home(reconcileCh[i], home))
      /\ (\A m \in members : Home(m, home))
  BY Zenon DEF MembersHome
<1>1. /\ serf \in [Brokers -> Statuses] /\ addr \in [Brokers -> Addrs]
      /\ eventChLAN \in Seq(Events) /\ reconcileCh \in Seq(Events)
  BY TypesSplit, Zenon DEF MembershipTypes
<1>2. CASE /\ UNCHANGED <<serf, addr, eventChLAN, reconcileCh>>
           /\ \A m \in members' : Home(m, home)
  BY <1>0, <1>2, Zenon DEF MembersHome
<1>3. CASE LanEventHandler
  <2> DEFINE m == Head(eventChLAN)
             n == Len(reconcileCh)
             r == Append(reconcileCh, m)
  <2>1. /\ eventChLAN # <<>> /\ eventChLAN' = Tail(eventChLAN)
        /\ reconcileCh' = reconcileCh \/ reconcileCh' = r
    BY <1>3, Zenon DEF LanEventHandler
  <2>2. UNCHANGED <<serf, addr, members>>
    BY <1>3, Zenon DEF LanEventHandler, membership, looping
  <2>3. m \in Events /\ m = eventChLAN[1] /\ 1 \in DOMAIN eventChLAN
    BY <1>1, <2>1, HeadTail
  <2>4. Home(m, home)
    BY <1>0, <2>3, Zenon
  <2>5. \A i \in DOMAIN Tail(eventChLAN) : i + 1 \in DOMAIN eventChLAN
                                            /\ Tail(eventChLAN)[i] = eventChLAN[i + 1]
    BY <1>1, <2>1
  <2>6. \A i \in DOMAIN eventChLAN' : Home(eventChLAN'[i], home)
    BY <1>0, <2>1, <2>5, Zenon
  <2> HIDE DEF m
  <2>7. /\ n \in Nat /\ DOMAIN reconcileCh = 1 .. n /\ DOMAIN r = 1 .. n + 1
        /\ \A i \in 1 .. n : r[i] = reconcileCh[i]
        /\ r[n + 1] = m
    BY <1>1, <2>3, Appended
  <2> HIDE DEF n, r
  <2>8. \A i \in DOMAIN r : i \in 1 .. n \/ i = n + 1
    BY <2>7
  <2>9. \A i \in DOMAIN r : Home(r[i], home)
    BY <1>0, <2>4, <2>7, <2>8, Zenon
  <2>10. \A i \in DOMAIN reconcileCh' : Home(reconcileCh'[i], home)
    BY <1>0, <2>1, <2>9, Zenon
  <2> QED
    BY <1>0, <2>2, <2>6, <2>10, Zenon DEF MembersHome
<1>4. CASE LoopMember
  <2>1. /\ reconcileCh # <<>> /\ reconcileCh' = Tail(reconcileCh)
        /\ UNCHANGED <<serf, addr, eventChLAN, members>>
    BY <1>4, Zenon DEF LoopMember, membership
  <2>2. \A i \in DOMAIN Tail(reconcileCh) : i + 1 \in DOMAIN reconcileCh
                                             /\ Tail(reconcileCh)[i] = reconcileCh[i + 1]
    BY <1>1, <2>1
  <2>3. \A i \in DOMAIN reconcileCh' : Home(reconcileCh'[i], home)
    BY <1>0, <2>1, <2>2, Zenon
  <2> QED
    BY <1>0, <2>1, <2>3, Zenon DEF MembersHome
<1>5. CASE LoopReconcile
  <2>1. UNCHANGED <<serf, addr, eventChLAN, reconcileCh>>
    BY <1>5, Zenon DEF LoopReconcile, membership, channels
  <2>2. CASE UNCHANGED members
    BY <1>0, <1>2, <2>1, <2>2, Zenon
  <2>3. CASE /\ known' = {b \in Brokers : serf[b] # "none"}
             /\ members' = {Member(b, serf[b], addr[b]) : b \in known'}
    <3>1. ASSUME NEW b \in Brokers PROVE Home(Member(b, serf[b], addr[b]), home)
      BY <1>0, <1>1 DEF Home, Member, Others
    <3>2. \A m \in members' : Home(m, home)
      BY <2>3, <3>1
    <3> QED
      BY <1>2, <2>1, <3>2, Zenon
  <2> QED
    BY <1>5, <2>2, <2>3, Zenon DEF LoopReconcile
<1>6. ASSUME NEW m \in members, LoopReconcileMember(m)
      PROVE  MembersHome(home)'
  <2>1. UNCHANGED <<serf, addr, eventChLAN, reconcileCh>> /\ members' = members \ {m}
    BY <1>6, Zenon DEF LoopReconcileMember, membership, channels
  <2> QED
    BY <1>0, <1>2, <2>1, Zenon
<1>7. CASE LoopReconcileReaped
  <2>1. /\ UNCHANGED <<serf, addr, eventChLAN, reconcileCh>>
        /\ members' = {Member(b, "reap", NoBroker) : b \in {c \in Brokers \ known : nodes[c] # "none"}}
    BY <1>7, Zenon DEF LoopReconcileReaped, membership, channels
  <2>2. \A b : Home(Member(b, "reap", NoBroker), home)
    BY DEF Home, Member
  <2>3. \A m \in members' : Home(m, home)
    BY <2>1, <2>2, Zenon
  <2> QED
    BY <1>2, <2>1, <2>3, Zenon
<1>8. CASE LoopCall
  <2>1. UNCHANGED <<serf, addr, eventChLAN, reconcileCh>>
    BY <1>8, Zenon DEF LoopCall, membership, channels
  <2>2. members' = members \/ members' = {}
    BY <1>8, Zenon DEF LoopCall
  <2>3. \A m \in members' : Home(m, home)
    BY <1>0, <2>2, Zenon
  <2> QED
    BY <1>2, <2>1, <2>3, Zenon
<1>9. LoopReassign \/ LoopDone \/ Asked \/ Started \/ Called
        => UNCHANGED <<serf, addr, eventChLAN, reconcileCh, members>>
  <2>1. LoopReassign \/ LoopDone => UNCHANGED members
    BY Zenon DEF LoopReassign, LoopDone
  <2> QED
    BY <2>1, LoopFrame, RequestFrame, Zenon DEF membership, channels, looping
<1>10. UNCHANGED <<serf, addr, eventChLAN, reconcileCh, members>> => MembersHome(home)'
  BY <1>0, <1>2, Zenon
<1>11. Changed \/ Readdressed => MembersHome(home)'
  BY SerfEventHome, SerfUpdateHome, Zenon DEF Changed, Readdressed
<1>12. Reconciled => MembersHome(home)'
  BY <1>6, Zenon DEF Reconciled
<1> QED
  BY <1>3, <1>4, <1>5, <1>7, <1>8, <1>9, <1>10, <1>11, <1>12, Steps, Zenon

\* Together: every step keeps the controller a member, a node and a server.
LEMMA SelfStep ==
  ASSUME Types, SelfOK, Unique(servers), Joins(todo, servers), Next
  PROVE  SelfOK'
<1>1. MembersHome(addr[Self])
  BY Zenon DEF SelfOK, MembersHome
<1>2. PICK h : h = addr[Self]
  BY Zenon
<1>3. MembersHome(h)
  BY <1>1, <1>2, Zenon
<1>4. MembersHome(h)'
  BY <1>3, HomeStep, Zenon
<1>5. addr'[Self] = h
  BY <1>4, Zenon DEF MembersHome
<1>6. [id |-> Self, addr |-> h] \in servers'
  BY <1>2, ServersStep, Zenon
<1>7. Self \notin recovered' => nodes'[Self] = "passing"
  BY RecoveredStep, ServersStep, Zenon DEF SelfOK
<1> QED
  BY <1>4, <1>5, <1>6, <1>7, Zenon DEF SelfOK, MembersHome

-----------------------------------------------------------------------------
\* The lookup of brokers

\* A broker stays at one address.
LEMMA StaysUnique ==
  ASSUME NEW ch \in Seq(Events), NEW b, NEW a, NEW c, NEW status, NEW at,
         Stays(ch, 0, b, a, status, at), Stays(ch, 0, b, c, status, at)
  PROVE  a = c
<1>0. Len(ch) \in Nat /\ DOMAIN ch = 1 .. Len(ch)
  OBVIOUS
<1>1. ASSUME NEW i \in DOMAIN ch, NEW j \in DOMAIN ch, ch[i].id = b, ch[j].id = b,
             ch[i].addr = a, ch[j].addr = c,
             \A k \in DOMAIN ch : 0 < k /\ k < i => ch[k].id # b,
             \A k \in DOMAIN ch : 0 < k /\ k < j => ch[k].id # b
      PROVE  a = c
  <2>1. i \in Nat /\ j \in Nat /\ 0 < i /\ 0 < j
    BY <1>0
  <2>2. ~(i < j) /\ ~(j < i)
    BY <1>1, <2>1
  <2>3. i = j
    BY <2>1, <2>2
  <2> QED
    BY <1>1, <2>3
<1> QED
  BY <1>1, Zenon DEF Stays

\* The first event, if it is about a broker that is listed, takes it off the list.
LEMMA StaysHead ==
  ASSUME NEW ch \in Seq(Events), ch # <<>>, NEW b, NEW a, NEW status, NEW at,
         Stays(ch, 0, b, a, status, at), ch[1].id = b
  PROVE  ch[1].status \in {"failed", "left"} /\ ch[1].addr = a
<1>1. 1 \in DOMAIN ch /\ DOMAIN ch \subseteq Nat \ {0} /\ 0 < 1
  BY HeadTail
<1>2. PICK i \in DOMAIN ch : /\ ch[i].status \in {"failed", "left"} /\ ch[i].addr = a
                             /\ \A j \in DOMAIN ch : 0 < j /\ j < i => ch[j].id # b
  BY <1>1, Zenon DEF Stays
<1>3. ~(1 < i)
  BY <1>1, <1>2
<1>4. i = 1
  BY <1>1, <1>3
<1> QED
  BY <1>2, <1>4

\* What follows a later position follows the one before it in the tail.
LEMMA StaysTail ==
  ASSUME NEW ch \in Seq(Events), ch # <<>>, NEW k \in Nat, NEW b, NEW a, NEW status, NEW at,
         Stays(ch, k + 1, b, a, status, at) \/ (k = 0 /\ Stays(ch, 0, b, a, status, at) /\ ch[1].id # b)
  PROVE  Stays(Tail(ch), k, b, a, status, at)
<1> DEFINE t == Tail(ch)
           n == Len(ch)
<1>0. /\ n \in Nat \ {0} /\ DOMAIN ch = 1 .. n /\ DOMAIN t = 1 .. n - 1
      /\ \A i \in 1 .. n - 1 : t[i] = ch[i + 1]
  BY HeadTail
<1> HIDE DEF t, n
<1>1. ASSUME NEW i \in DOMAIN ch, k + 1 < i, ch[i].id = b,
             ch[i].status \in {"failed", "left"}, ch[i].addr = a,
             \A j \in DOMAIN ch : k + 1 < j /\ j < i => ch[j].id # b
      PROVE  Stays(t, k, b, a, status, at)
  <2> DEFINE p == i - 1
  <2>1. p \in DOMAIN t /\ k < p /\ t[p] = ch[i]
    BY <1>0, <1>1
  <2>2. ASSUME NEW j \in DOMAIN t, k < j, j < p PROVE t[j].id # b
    <3>1. j + 1 \in DOMAIN ch /\ k + 1 < j + 1 /\ j + 1 < i /\ t[j] = ch[j + 1]
      BY <1>0, <2>2
    <3> QED
      BY <1>1, <3>1, Zenon
  <2> HIDE DEF p
  <2> QED
    BY <1>1, <2>1, <2>2, Zenon DEF Stays
<1>2. ASSUME \A i \in DOMAIN ch : k + 1 < i => ch[i].id # b, status[b] = "alive", at[b] = a
      PROVE  Stays(t, k, b, a, status, at)
  <2>1. ASSUME NEW i \in DOMAIN t, k < i PROVE t[i].id # b
    <3>1. i + 1 \in DOMAIN ch /\ k + 1 < i + 1 /\ t[i] = ch[i + 1]
      BY <1>0, <2>1
    <3> QED
      BY <1>2, <3>1, Zenon
  <2> QED
    BY <1>2, <2>1, Zenon DEF Stays
<1>3. CASE Stays(ch, k + 1, b, a, status, at)
  BY <1>1, <1>2, <1>3, Zenon DEF Stays, t
<1>4. CASE k = 0 /\ Stays(ch, 0, b, a, status, at) /\ ch[1].id # b
  <2>1. \A i \in DOMAIN ch : ch[i].id = b => k + 1 < i
    BY <1>0, <1>4
  <2>2. \A i \in DOMAIN ch : k + 1 < i => 0 < i
    BY <1>0, <1>4
  <2>3. \/ \E i \in DOMAIN ch :
             /\ k + 1 < i /\ ch[i].id = b
             /\ ch[i].status \in {"failed", "left"} /\ ch[i].addr = a
             /\ \A j \in DOMAIN ch : k + 1 < j /\ j < i => ch[j].id # b
        \/ /\ \A i \in DOMAIN ch : k + 1 < i => ch[i].id # b
           /\ status[b] = "alive" /\ at[b] = a
    BY <1>4, <2>1, <2>2, Zenon DEF Stays
  <2> QED
    BY <1>1, <1>2, <2>3, Zenon DEF t
<1> QED
  BY <1>3, <1>4

\* A change of a broker that is alive takes it off its address; one of another
\* broker says nothing about it.
LEMMA StaysAppend ==
  ASSUME NEW ch \in Seq(Events), NEW m \in Events, NEW k \in Nat, NEW b, NEW a,
         NEW status, NEW at, NEW status2, NEW at2, k <= Len(ch), Stays(ch, k, b, a, status, at),
         m.id # b => status2[b] = status[b] /\ at2[b] = at[b],
         m.id = b /\ status[b] = "alive" => m.status \in {"failed", "left"} /\ m.addr = at[b]
  PROVE  Stays(Append(ch, m), k, b, a, status2, at2)
<1> DEFINE e == Append(ch, m)
           n == Len(ch)
<1>0. /\ n \in Nat /\ DOMAIN ch = 1 .. n /\ DOMAIN e = 1 .. n + 1
      /\ \A i \in 1 .. n : e[i] = ch[i]
      /\ e[n + 1] = m
  BY Appended
<1>1. k <= n
  OBVIOUS
<1> HIDE DEF e, n
<1>2. CASE \E i \in DOMAIN ch :
             /\ k < i /\ ch[i].id = b
             /\ ch[i].status \in {"failed", "left"} /\ ch[i].addr = a
             /\ \A j \in DOMAIN ch : k < j /\ j < i => ch[j].id # b
  <2>1. PICK i \in DOMAIN ch :
             /\ k < i /\ ch[i].id = b
             /\ ch[i].status \in {"failed", "left"} /\ ch[i].addr = a
             /\ \A j \in DOMAIN ch : k < j /\ j < i => ch[j].id # b
    BY <1>2
  <2>2. i \in DOMAIN e /\ e[i] = ch[i]
    BY <1>0
  <2>3. \A j \in DOMAIN e : j < i => j \in DOMAIN ch /\ e[j] = ch[j]
    BY <1>0
  <2> QED
    BY <2>1, <2>2, <2>3, Zenon DEF Stays, e
<1>3. CASE /\ \A i \in DOMAIN ch : k < i => ch[i].id # b
           /\ status[b] = "alive" /\ at[b] = a
  <2>1. CASE m.id = b
    <3>1. m.status \in {"failed", "left"} /\ m.addr = a
      BY <1>3, <2>1, Zenon
    <3>2. n + 1 \in DOMAIN e /\ k < n + 1
      BY <1>0, <1>1
    <3>3. \A j \in DOMAIN e : j < n + 1 => j \in DOMAIN ch /\ e[j] = ch[j]
      BY <1>0
    <3>4. \A j \in DOMAIN e : k < j /\ j < n + 1 => e[j].id # b
      BY <1>3, <3>3, Zenon
    <3> DEFINE p == n + 1
    <3>5. /\ p \in DOMAIN e /\ k < p /\ e[p].id = b
          /\ e[p].status \in {"failed", "left"} /\ e[p].addr = a
      BY <1>0, <2>1, <3>1, <3>2, Zenon
    <3>6. \A j \in DOMAIN e : k < j /\ j < p => e[j].id # b
      BY <3>4, Zenon
    <3> HIDE DEF p
    <3> QED
      BY <3>5, <3>6, Zenon DEF Stays, e
  <2>2. CASE m.id # b
    <3>1. \A j \in DOMAIN e : j = n + 1 \/ (j \in DOMAIN ch /\ e[j] = ch[j])
      BY <1>0
    <3>2. \A j \in DOMAIN e : k < j => e[j].id # b
      BY <1>0, <1>3, <2>2, <3>1, Zenon
    <3> QED
      BY <1>3, <2>2, <3>2, Zenon DEF Stays, e
  <2> QED
    BY <2>1, <2>2
<1> QED
  BY <1>2, <1>3, Zenon DEF Stays

\* The order of serf's events: a broker that was alive fails or leaves before it
\* comes back, with the address it had.
LEMMA SerfEventLookup ==
  ASSUME Types, LookupOK, NEW b \in Brokers, NEW status \in {"alive", "failed", "left", "none"},
         NEW a \in Addrs, SerfEvent(b, status, a)
  PROVE  LookupOK'
<1> DEFINE m == Member(b, IF status = "none" THEN "reap" ELSE status, a)
           ch == eventChLAN
           e == Append(eventChLAN, m)
           n == Len(eventChLAN)
<1>0. /\ serf \in [Brokers -> Statuses] /\ addr \in [Brokers -> Addrs] /\ ch \in Seq(Events)
  BY TypesSplit, Zenon DEF MembershipTypes
<1>1. /\ b # Self /\ <<serf[b], status>> \in Changes
      /\ serf' = [serf EXCEPT ![b] = status] /\ addr' = [addr EXCEPT ![b] = a]
      /\ eventChLAN' = e /\ UNCHANGED <<addressToBroker, idToBroker, updated>>
  BY Zenon DEF SerfEvent, brokerLookup
<1>2. m \in Events /\ m.id = b /\ m.addr = a /\ (status # "none" => m.status = status)
                   /\ (status = "none" => m.status = "reap")
  BY <1>1, Zenon DEF Member, Events
<1>3. serf[b] = "alive" => m.status \in {"failed", "left"} /\ m.addr = addr[b]
  <2>1. serf[b] = "alive" => status \in {"failed", "left"}
    BY <1>1 DEF Changes
  <2>2. status \in {"failed", "left"} => a = addr[b]
    BY DEF SerfEvent
  <2> QED
    BY <1>2, <2>1, <2>2
<1>4. \A c : c # b => serf'[c] = serf[c] /\ addr'[c] = addr[c]
  BY <1>0, <1>1
<1>5. serf'[b] = status /\ addr'[b] = a
  BY <1>0, <1>1, Zenon
<1> HIDE DEF m
<1>6. /\ n \in Nat /\ DOMAIN ch = 1 .. n /\ DOMAIN e = 1 .. n + 1
      /\ \A i \in 1 .. n : e[i] = ch[i]
      /\ e[n + 1] = m
  BY <1>0, <1>2, Appended
<1>7. ASSUME NEW k \in 0 .. n, NEW c, NEW x, Stays(ch, k, c, x, serf, addr)
      PROVE  Stays(e, k, c, x, serf', addr')
  <2>1. k \in Nat /\ k <= Len(ch)
    BY <1>6
  <2>2. m.id # c => serf'[c] = serf[c] /\ addr'[c] = addr[c]
    BY <1>2, <1>4, Zenon
  <2>3. m.id = c /\ serf[c] = "alive" => m.status \in {"failed", "left"} /\ m.addr = addr[c]
    BY <1>2, <1>3, Zenon
  <2> QED
    BY <1>0, <1>2, <1>7, <2>1, <2>2, <2>3, StaysAppend, Zenon
<1> HIDE DEF e, n
<1>8. ASSUME NEW i \in DOMAIN e, e[i].status = "alive", e[i].id \notin updated
      PROVE  Stays(e, i, e[i].id, e[i].addr, serf', addr')
  <2>1. CASE i \in 1 .. n
    <3>1. e[i] = ch[i] /\ i \in DOMAIN ch /\ i \in 0 .. n
      BY <1>6, <2>1
    <3>2. Stays(ch, i, ch[i].id, ch[i].addr, serf, addr)
      BY <1>8, <3>1, Zenon DEF LookupOK
    <3> QED
      BY <1>7, <3>1, <3>2, Zenon
  <2>2. CASE i = n + 1
    <3>1. e[i].id = b /\ e[i].addr = a /\ serf'[b] = "alive" /\ addr'[b] = a
      BY <1>2, <1>5, <1>6, <1>8, <2>2, Zenon
    <3>2. \A j \in DOMAIN e : ~(i < j)
      BY <1>6, <2>2
    <3> QED
      BY <3>1, <3>2, Zenon DEF Stays
  <2> QED
    BY <1>6, <2>1, <2>2
<1>9. ASSUME NEW x \in Addrs, addressToBroker[x] \notin {NoBroker} \cup updated
      PROVE  /\ addressToBroker[x] \in idToBroker
             /\ Stays(e, 0, addressToBroker[x], x, serf', addr')
  <2>1. 0 \in 0 .. n
    BY <1>6
  <2> QED
    BY <1>7, <1>9, <2>1, Zenon DEF LookupOK
<1>10. /\ eventChLAN' = e /\ addressToBroker' = addressToBroker /\ idToBroker' = idToBroker
       /\ updated' = updated
  BY <1>1, Zenon
<1> QED
  BY <1>8, <1>9, <1>10, Zenon DEF LookupOK

\* A broker that changes its address without an event is not looked at from then on.
LEMMA SerfUpdateLookup ==
  ASSUME Types, LookupOK, NEW b \in Brokers, NEW a \in Addrs, SerfUpdate(b, a)
  PROVE  LookupOK'
<1>1. addr \in [Brokers -> Addrs]
  BY TypesSplit, Zenon DEF MembershipTypes
<1>2. /\ addr' = [addr EXCEPT ![b] = a] /\ updated' = updated \cup {b}
      /\ UNCHANGED <<serf, eventChLAN, addressToBroker, idToBroker>>
  BY Zenon DEF SerfUpdate, channels, brokerLookup
<1>3. \A c : c # b => addr'[c] = addr[c]
  BY <1>1, <1>2
<1>4. \A ch, k, c, x : c # b /\ Stays(ch, k, c, x, serf, addr) => Stays(ch, k, c, x, serf, addr')
  BY <1>3, Zenon DEF Stays
<1>5. \A c : c \notin updated' => c \notin updated /\ c # b
  BY <1>2, Zenon
<1>6. \A i \in DOMAIN eventChLAN : eventChLAN[i].status = "alive" /\ eventChLAN[i].id \notin updated' =>
        Stays(eventChLAN, i, eventChLAN[i].id, eventChLAN[i].addr, serf, addr')
  BY <1>4, <1>5, Zenon DEF LookupOK
<1>7. \A x \in Addrs : addressToBroker[x] \notin {NoBroker} \cup updated' =>
        /\ addressToBroker[x] \in idToBroker
        /\ Stays(eventChLAN, 0, addressToBroker[x], x, serf, addr')
  BY <1>4, <1>5, Zenon DEF LookupOK
<1> QED
  BY <1>2, <1>6, <1>7, Zenon DEF LookupOK

\* lanEventHandler lists a broker that is not listed, and forgets one under the
\* address at which it is.
LEMMA LanEventHandlerLookup ==
  ASSUME Types, LookupOK, LanEventHandler
  PROVE  LookupOK'
<1> DEFINE ch == eventChLAN
           m == Head(eventChLAN)
           t == Tail(eventChLAN)
<1>0. /\ addressToBroker \in [Addrs -> Brokers \cup {NoBroker}] /\ ch \in Seq(Events)
  BY TypesSplit, Zenon DEF MembershipTypes
<1>1. /\ ch # <<>> /\ eventChLAN' = t /\ serf' = serf /\ addr' = addr /\ updated' = updated
  BY Zenon DEF LanEventHandler, membership
<1>2. /\ m \in Events /\ m = ch[1] /\ 1 \in DOMAIN ch
      /\ \A i \in DOMAIN t : i \in Nat /\ i + 1 \in DOMAIN ch /\ t[i] = ch[i + 1]
  BY <1>0, <1>1, HeadTail
<1>3. m.id \in Brokers /\ m.addr \in Addrs /\ m.status \in {"alive", "failed", "left", "reap"}
  BY <1>2 DEF Events
<1>4. /\ m.status = "alive" => AddBroker(m)
      /\ m.status \in {"failed", "left"} => RemoveBroker(m)
      /\ m.status = "reap" => UNCHANGED brokerLookup
  BY Zenon DEF LanEventHandler
<1> HIDE DEF m, t
<1>5. ASSUME NEW i \in DOMAIN t, t[i].status = "alive", t[i].id \notin updated
      PROVE  Stays(t, i, t[i].id, t[i].addr, serf, addr)
  <2>1. Stays(ch, i + 1, t[i].id, t[i].addr, serf, addr)
    BY <1>2, <1>5, Zenon DEF LookupOK
  <2> QED
    BY <1>0, <1>1, <1>2, <2>1, StaysTail DEF t
<1>6. ASSUME NEW x \in Addrs, addressToBroker[x] \notin {NoBroker} \cup updated
      PROVE  /\ addressToBroker[x] \in idToBroker
             /\ addressToBroker[x] # m.id => Stays(t, 0, addressToBroker[x], x, serf, addr)
             /\ addressToBroker[x] = m.id => m.status \in {"failed", "left"} /\ m.addr = x
  <2> DEFINE c == addressToBroker[x]
  <2>1. c \in idToBroker /\ Stays(ch, 0, c, x, serf, addr)
    BY <1>6, Zenon DEF LookupOK
  <2> HIDE DEF c
  <2>2. c # m.id => Stays(t, 0, c, x, serf, addr)
    BY <1>0, <1>1, <1>2, <2>1, StaysTail DEF t
  <2>3. c = m.id => m.status \in {"failed", "left"} /\ m.addr = x
    BY <1>0, <1>1, <1>2, <2>1, StaysHead, Zenon
  <2> QED
    BY <2>1, <2>2, <2>3 DEF c
<1>7. ASSUME NEW x \in Addrs, addressToBroker'[x] \notin {NoBroker} \cup updated
      PROVE  /\ addressToBroker'[x] \in idToBroker'
             /\ Stays(t, 0, addressToBroker'[x], x, serf, addr)
  <2>1. CASE m.status = "alive"
    <3>1. /\ addressToBroker' = [addressToBroker EXCEPT ![m.addr] = m.id]
          /\ idToBroker' = idToBroker \cup {m.id}
      BY <1>4, <2>1, Zenon DEF AddBroker
    <3>2. CASE x = m.addr
      <4>3. addressToBroker'[x] = m.id
        BY <1>0, <3>1, <3>2
      <4>1. Stays(ch, 1, m.id, m.addr, serf, addr)
        BY <1>2, <1>7, <2>1, <4>3, Zenon DEF LookupOK
      <4>2. Stays(t, 0, m.id, m.addr, serf, addr)
        BY <1>0, <1>1, <4>1, StaysTail DEF t
      <4> QED
        BY <3>1, <3>2, <4>2, <4>3
    <3>3. CASE x # m.addr
      <4>1. addressToBroker'[x] = addressToBroker[x]
        BY <1>0, <3>1, <3>3, Zenon
      <4> QED
        BY <1>6, <1>7, <2>1, <3>1, <4>1
    <3> QED
      BY <3>2, <3>3
  <2>2. CASE m.status \in {"failed", "left"}
    <3>1. /\ addressToBroker' = [addressToBroker EXCEPT ![m.addr] = NoBroker]
          /\ idToBroker' = idToBroker \ {m.id}
      BY <1>4, <2>2, Zenon DEF RemoveBroker
    <3>2. x # m.addr /\ addressToBroker'[x] = addressToBroker[x]
      BY <1>0, <1>7, <3>1
    <3> QED
      BY <1>6, <1>7, <3>1, <3>2
  <2>3. CASE m.status = "reap"
    <3>1. addressToBroker' = addressToBroker /\ idToBroker' = idToBroker
      BY <1>4, <2>3, Zenon DEF brokerLookup
    <3> QED
      BY <1>6, <1>7, <2>3, <3>1
  <2> QED
    BY <1>3, <2>1, <2>2, <2>3
<1> QED
  BY <1>1, <1>5, <1>7, Zenon DEF LookupOK

-----------------------------------------------------------------------------
\* Topics

\* A call keeps the leaders that partitions have.
LEMMA ActsCreating ==
  ASSUME Types, NEW c \in Calls, Acts(c), AllCreating(req, partitions), AckedComplete
  PROVE  /\ AllCreating(req, partitions')
         /\ acked => \A p \in Partitions : partitions'[p].leader # NoBroker
<1>1. TypeOK
  BY Zenon DEF Types
<1>2. \A p \in Partitions : partitions[p].leader # NoBroker => partitions'[p].leader # NoBroker
  BY <1>1, ActsPartitions, Zenon
<1>3. \A calls : Creating(calls, partitions) => Creating(calls, partitions')
  BY <1>2, Zenon DEF Creating
<1> QED
  BY <1>2, <1>3, Zenon DEF AllCreating, AckedComplete

\* After a call that registered its partition the rest of createTopic is left; its
\* last call finds every partition registered.
LEMMA CreatingTail ==
  ASSUME NEW s \in Seq(TopicCalls), s # <<>>, NEW P, Creating(s, P),
         Head(s).call = "RegisterPartition" => P[Head(s).p].leader # NoBroker
  PROVE  /\ Creating(Tail(s), P)
         /\ Len(s) = 1 /\ Head(s).call = "LeaderAndISR" =>
              \A p \in Partitions : P[p].leader # NoBroker
<1> DEFINE n == Len(s)
           t == Tail(s)
<1>1. /\ n \in Nat \ {0} /\ Head(s) = s[1] /\ DOMAIN s = 1 .. n
      /\ t \in Seq(TopicCalls) /\ Len(t) = n - 1 /\ DOMAIN t = 1 .. n - 1
      /\ \A i \in 1 .. n - 1 : t[i] = s[i + 1]
  BY HeadTail
<1> HIDE DEF n, t
<1>2. ASSUME s[n].call = "LeaderAndISR", NEW p \in Partitions, P[p].leader = NoBroker
      PROVE  \E i \in DOMAIN t : t[i].call = "RegisterPartition" /\ t[i].p = p
  <2>1. PICK i \in DOMAIN s : s[i].call = "RegisterPartition" /\ s[i].p = p
    BY <1>2, Zenon DEF Creating, n
  <2>2. i # 1
    BY <1>1, <1>2, <2>1, Zenon
  <2>3. i - 1 \in DOMAIN t /\ t[i - 1] = s[i]
    BY <1>1, <2>2
  <2> QED
    BY <2>1, <2>3, Zenon
<1>3. t # <<>> => t[Len(t)] = s[n]
  <2>1. SUFFICES ASSUME t # <<>> PROVE t[Len(t)] = s[n]
    OBVIOUS
  <2>2. Len(t) # 0
    BY <1>1, <2>1
  <2>3. Len(t) = n - 1 /\ n - 1 \in 1 .. n - 1 /\ (n - 1) + 1 = n
    BY <1>1, <2>2
  <2> QED
    BY <1>1, <2>3
<1>4. Creating(t, P)
  BY <1>2, <1>3, Zenon DEF Creating
<1>5. ASSUME n = 1, Head(s).call = "LeaderAndISR", NEW p \in Partitions PROVE P[p].leader # NoBroker
  <2>1. s[n].call = "LeaderAndISR" /\ DOMAIN t = {}
    BY <1>1, <1>5
  <2> QED
    BY <1>2, <2>1, Zenon
<1> QED
  BY <1>4, <1>5, Zenon DEF n, t

\* Only the last call of a createTopic acknowledges, when every partition is
\* registered; and a partition never loses its leader without getting another.
LEMMA CreatingStep ==
  ASSUME Types, AllCreating(req, partitions), AckedComplete, Next
  PROVE  AllCreating(req', partitions') /\ AckedComplete'
<1> DEFINE T == Seq(TopicCalls)
<1>0. req \in Seq(T) /\ todo \in Seq(Calls)
  BY TypesSplit, Zenon DEF RequestTypes, LoopTypes
<1> HIDE DEF T
<1>1. CASE UNCHANGED <<req, acked, partitions>>
  BY <1>1, Zenon DEF AckedComplete
<1>2. CASE LoopCall
  <2>1. todo # <<>> /\ (Effect(Head(todo)) \/ Fails(Head(todo))) /\ UNCHANGED <<req, acked>>
    BY <1>2, Zenon DEF LoopCall, requesting
  <2>2. Acts(Head(todo))
    BY <2>1, FailsActs, Zenon DEF Acts
  <2>3. Head(todo) \in Calls
    BY <1>0, <2>1, HeadTail
  <2> QED
    BY <2>1, <2>2, <2>3, ActsCreating, Zenon DEF AckedComplete
<1>3. ASSUME NEW n \in DOMAIN req, NEW calls, Continue(n, calls),
             AllCreating(req, partitions'), Creating(calls, partitions')
      PROVE  AllCreating(req', partitions')
  <2>1. req' = [req EXCEPT ![n] = calls]
    BY <1>3, Zenon DEF Continue
  <2>2. DOMAIN req' = DOMAIN req /\ \A k \in DOMAIN req : req'[k] = IF k = n THEN calls ELSE req[k]
    BY <1>0, <2>1
  <2> QED
    BY <1>3, <2>2, Zenon DEF AllCreating
<1>4. CASE Started
  <2>1. UNCHANGED <<acked, partitions>>
    BY <1>4, RequestFrame, Zenon DEF store
  <2>2. PICK n \in DOMAIN req : CreateTopic(n)
    BY <1>4, Zenon DEF Started
  <2>3. PICK calls : Creating(calls, partitions) /\ Continue(n, calls)
    BY <2>2, CreateTopicContinues, Zenon
  <2> QED
    BY <1>3, <2>1, <2>3, Zenon DEF AckedComplete
<1>5. CASE Called
  <2>1. PICK n \in DOMAIN req : RequestCall(n)
    BY <1>5, Zenon DEF Called
  <2> DEFINE c == Head(req[n])
  <2>2. req[n] # <<>> /\ (Effect(c) \/ Fails(c))
    BY <2>1, Zenon DEF RequestCall
  <2>3. req[n] \in Seq(TopicCalls) /\ c \in TopicCalls
    BY <2>2, RequestHead, Zenon
  <2>4. c \in Calls /\ Acts(c) /\ TypeOK
    BY <2>2, <2>3, FailsActs, TopicCallNames, Zenon DEF Acts, Types
  <2>5. AllCreating(req, partitions') /\ (acked => \A p \in Partitions : partitions'[p].leader # NoBroker)
    BY <2>4, ActsCreating, Zenon
  <2>6. CASE Continue(n, <<>>) /\ UNCHANGED acked
    <3>1. Creating(<<>>, partitions')
      BY Zenon DEF Creating
    <3> QED
      BY <1>3, <2>5, <2>6, <3>1, Zenon DEF AckedComplete
  <2>7. CASE Effect(c) /\ Continue(n, Tail(req[n])) /\ acked' = (acked \/ Acknowledged(n))
    <3>1. c.call = "RegisterPartition" => partitions'[c.p].leader # NoBroker
      <4> HIDE DEF c
      <4> QED
        BY <2>4, <2>7, ActsPartitions
    <3>2. Creating(req[n], partitions')
      BY <2>5, Zenon DEF AllCreating
    <3>3. /\ Creating(Tail(req[n]), partitions')
          /\ Len(req[n]) = 1 /\ c.call = "LeaderAndISR" =>
               \A p \in Partitions : partitions'[p].leader # NoBroker
      BY <2>2, <2>3, <3>1, <3>2, CreatingTail, Zenon
    <3>4. acked' => \A p \in Partitions : partitions'[p].leader # NoBroker
      BY <2>5, <2>7, <3>3, Zenon DEF Acknowledged
    <3> QED
      BY <1>3, <2>5, <2>7, <3>3, <3>4, Zenon DEF AckedComplete
  <2> QED
    BY <2>1, <2>6, <2>7, Zenon DEF RequestCall
<1>6. CASE Asked
  <2>1. UNCHANGED <<acked, partitions>>
    BY <1>6, RequestFrame, Zenon DEF store
  <2>2. PICK calls : calls \in {<<StartCreate>>, <<DeregisterTopic>>} /\ req' = Append(req, calls)
    BY <1>6, Zenon DEF Asked, HandleCreateTopic, HandleDeleteTopics, WithTimeout
  <2>3. calls \in T /\ calls[Len(calls)].call # "LeaderAndISR"
    <3>1. PICK c \in {StartCreate, DeregisterTopic} : calls = <<c>>
      BY <2>2, Zenon
    <3>2. c \in TopicCalls
      BY TopicCallsMade, Zenon
    <3>3. c.call # "LeaderAndISR"
      BY DEF StartCreate, DeregisterTopic
    <3>4. <<c>> \in Seq(TopicCalls) /\ <<c>>[Len(<<c>>)] = c
      BY <3>2
    <3> QED
      BY <3>1, <3>3, <3>4, Zenon DEF T
  <2>4. Creating(calls, partitions)
    BY <2>3, Zenon DEF Creating
  <2>5. \A k \in DOMAIN req' : req'[k] = calls \/ (k \in DOMAIN req /\ req'[k] = req[k])
    BY <1>0, <2>2, <2>3
  <2> QED
    BY <2>1, <2>4, <2>5, Zenon DEF AllCreating, AckedComplete
<1>7. LoopMember \/ LoopReconcile \/ LoopReconcileReaped \/ LoopReassign \/ LoopDone
        \/ LanEventHandler \/ Reconciled \/ Changed \/ Readdressed
        => UNCHANGED <<req, acked, partitions>>
  BY LoopFrame, SerfFrame, Zenon DEF store, requesting
<1> QED
  BY <1>1, <1>2, <1>4, <1>5, <1>6, <1>7, Steps, Zenon

-----------------------------------------------------------------------------
\* The inductive invariant

\* A cluster at rest satisfies it.
LEMMA InitIInv == Init => IInv
<1>0. SUFFICES ASSUME Init PROVE IInv
  OBVIOUS
<1>1. PICK S \in SUBSET Brokers :
        /\ Self \in S
        /\ serf = [b \in Brokers |-> IF b \in S THEN "alive" ELSE "none"]
        /\ addressToBroker = [a \in Addrs |-> IF a \in S THEN a ELSE NoBroker]
        /\ idToBroker = S
        /\ recovered \in SUBSET S
        /\ nodes = [b \in Brokers |-> CASE b \in recovered -> "critical"
                                        [] b \in S \ recovered -> "passing"
                                        [] OTHER -> "none"]
        /\ servers = {[id |-> b, addr |-> addr[b]] : b \in S}
        /\ coordinator \in S
  BY <1>0, Zenon DEF Init
<1>2. /\ addr = [b \in Brokers |-> b]
      /\ updated = {} /\ waiting = 0
      /\ eventChLAN = <<>> /\ reconcileCh = <<>>
      /\ partitions = [p \in Partitions |-> NoPartition] /\ topic = FALSE
      /\ told = [b \in Brokers |-> [p \in Partitions |-> NoBroker]]
      /\ loop = "wait" /\ serving = TRUE /\ members = {} /\ todo = <<>>
      /\ req = <<>> /\ acked = FALSE
  BY <1>0, Zenon DEF Init
<1>3. Self \in Brokers /\ S \subseteq Brokers /\ \A b \in Brokers : addr[b] = b
  BY <1>1, <1>2
<1>4. servers \subseteq [id : Brokers, addr : Addrs] /\ \A s \in servers : s.id \in S /\ s.addr = s.id
  BY <1>1, <1>3 DEF Addrs
<1>5. IsFiniteSet(servers)
  <2> DEFINE f == [b \in S |-> [id |-> b, addr |-> addr[b]]]
  <2>1. IsFiniteSet(S)
    BY <1>3, BrokersAssumption, FS_Subset, Zenon
  <2>2. f \in [S -> servers] /\ \A s \in servers : \E b \in S : f[b] = s
    BY <1>1
  <2> HIDE DEF f
  <2>3. f \in Surjection(S, servers)
    BY <2>2, Zenon DEF Surjection
  <2> QED
    BY <2>1, <2>3, FS_Surjection, Zenon
<1>6. MembershipTypes
  BY <1>1, <1>2, SizesAssumption DEF MembershipTypes, Statuses, Addrs
<1>7. StoreTypes
  <2>1. NoPartition \in [leader : Brokers \cup {NoBroker}, AR : SUBSET Brokers, ISR : SUBSET Brokers]
    BY DEF NoPartition
  <2>2. nodes \in [Brokers -> {"none", "passing", "critical"}] /\ coordinator \in Brokers
    BY <1>1
  <2>3. told \in [Brokers -> [Partitions -> Brokers \cup {NoBroker}]]
    BY <1>2
  <2>4. topic \in BOOLEAN
    BY <1>2, Zenon
  <2>5. partitions \in [Partitions -> [leader : Brokers \cup {NoBroker}, AR : SUBSET Brokers,
                                       ISR : SUBSET Brokers]]
    BY <1>2, <2>1, Zenon
  <2> QED
    BY <1>4, <1>5, <2>2, <2>3, <2>4, <2>5, Zenon DEF StoreTypes
<1>8. LoopTypes /\ RequestTypes
  <2>1. /\ todo \in Seq(Calls) /\ req \in Seq(Seq(TopicCalls)) /\ members \subseteq Members
        /\ waiting \in 0 .. Len(req)
    BY <1>2
  <2> QED
    BY <1>2, <2>1, Zenon DEF LoopTypes, RequestTypes
<1>9. SelfOK
  <2>1. serf[Self] = "alive" /\ (Self \notin recovered => nodes[Self] = "passing")
    BY <1>1, <1>3
  <2>2. \A b \in Others : addr[b] # addr[Self]
    BY <1>3 DEF Others
  <2>3. [id |-> Self, addr |-> addr[Self]] \in servers
    BY <1>1, Zenon
  <2>4. DOMAIN eventChLAN = {} /\ DOMAIN reconcileCh = {} /\ members = {}
    BY <1>2
  <2> QED
    BY <2>1, <2>2, <2>3, <2>4, Zenon DEF SelfOK
<1>10. Unique(servers) /\ Joins(todo, servers)
  <2>1. Unique(servers)
    BY <1>4 DEF Unique
  <2>2. DOMAIN todo = {}
    BY <1>2
  <2> QED
    BY <2>1, <2>2, Zenon DEF Joins
<1>11. LookupOK
  <2>1. DOMAIN eventChLAN = {}
    BY <1>2
  <2>2. ASSUME NEW a \in Addrs, addressToBroker[a] # NoBroker
        PROVE  /\ addressToBroker[a] \in idToBroker
               /\ serf[addressToBroker[a]] = "alive" /\ addr[addressToBroker[a]] = a
    BY <1>1, <1>3, <2>2 DEF Addrs
  <2> QED
    BY <2>1, <2>2, Zenon DEF LookupOK, Stays
<1>12. AllCreating(req, partitions) /\ AckedComplete
  <2>1. DOMAIN req = {}
    BY <1>2
  <2> QED
    BY <1>2, <2>1, Zenon DEF AllCreating, AckedComplete
<1> QED
  BY <1>6, <1>7, <1>8, <1>9, <1>10, <1>11, <1>12, TypesSplit, Zenon DEF IInv

\* Every step preserves it.
LEMMA NextIInv == IInv /\ [Next]_vars => IInv'
<1>1. ASSUME IInv, Next PROVE IInv'
  <2>0. /\ Types /\ SelfOK /\ Unique(servers) /\ Joins(todo, servers) /\ LookupOK
        /\ AllCreating(req, partitions) /\ AckedComplete
    BY <1>1, Zenon DEF IInv
  <2>1. MembershipTypes'
    BY <1>1, <2>0, MembershipTypesStep, TypesSplit, Zenon
  <2>2. StoreTypes' /\ RequestTypes'
    BY <1>1, <2>0, StoreTypesStep, RequestTypesStep, Zenon
  <2>3. LoopTypes' /\ Joins(todo', servers')
    BY <1>1, <2>0, LoopStep, Zenon
  <2>4. Types'
    BY <2>1, <2>2, <2>3, TypesSplit, PTL
  <2>5. SelfOK' /\ Unique(servers')
    BY <1>1, <2>0, SelfStep, ServersStep, Zenon
  <2>6. LookupOK'
    <3>1. CASE UNCHANGED <<serf, addr, eventChLAN, addressToBroker, idToBroker, updated>>
      BY <2>0, <3>1, Zenon DEF LookupOK
    <3>2. LoopMember \/ LoopReconcile \/ Reconciled \/ LoopReconcileReaped \/ LoopCall \/ LoopReassign
            \/ LoopDone \/ Asked \/ Started \/ Called
            => UNCHANGED <<serf, addr, eventChLAN, addressToBroker, idToBroker, updated>>
      BY LoopFrame, RequestFrame, Zenon DEF membership, channels, brokerLookup
    <3>3. Changed \/ Readdressed => LookupOK'
      BY <2>0, SerfEventLookup, SerfUpdateLookup, Zenon DEF Changed, Readdressed
    <3> QED
      BY <1>1, <2>0, <3>1, <3>2, <3>3, LanEventHandlerLookup, Steps, Zenon
  <2>7. AllCreating(req', partitions') /\ AckedComplete'
    BY <1>1, <2>0, CreatingStep, Zenon
  <2> QED
    BY <2>3, <2>4, <2>5, <2>6, <2>7, Zenon DEF IInv
<1>2. ASSUME IInv, UNCHANGED vars PROVE IInv'
  <2>1. UNCHANGED <<serf, addr, eventChLAN, addressToBroker, idToBroker, reconcileCh, nodes, servers,
                    partitions, coordinator, topic, told, loop, serving, members, todo, req, acked,
                    recovered, updated, waiting>>
    BY <1>2, Zenon DEF vars, membership, channels, brokerLookup, store, looping, requesting
  <2> QED
    BY <1>2, <2>1, Zenon DEF IInv, Types, TypeOK, SelfOK, LookupOK, AckedComplete
<1> QED
  BY <1>1, <1>2, Zenon

\* The inductive invariant holds in every state of the controller.
THEOREM ControllerInvariant == Spec => []IInv
BY InitIInv, NextIInv, PTL DEF Spec

-----------------------------------------------------------------------------
\* The theorems

\* joinCluster leaves no two servers with one ID or one address in the raft
\* configuration, and the controller stays in it, whichever calls fail half way
\* and whatever addresses brokers come back with.
THEOREM RaftConfigUniqueAlways == Spec => []RaftConfigUnique
<1>1. IInv => RaftConfigUnique
  <2>1. SUFFICES ASSUME IInv PROVE RaftConfigUnique
    OBVIOUS
  <2>2. Unique(servers) /\ [id |-> Self, addr |-> addr[Self]] \in servers
    BY <2>1, Zenon DEF IInv, SelfOK
  <2>3. [id |-> Self, addr |-> addr[Self]].id = Self
    OBVIOUS
  <2>4. \E s \in servers : s.id = Self
    BY <2>2, <2>3, Zenon
  <2> QED
    BY <2>2, <2>4, Zenon DEF RaftConfigUnique, Unique
<1> QED
  BY <1>1, ControllerInvariant, PTL

\* brokerLookup lists a broker under one address at most, and then knows it by its
\* ID as well, although RemoveBroker forgets an address whichever broker has it:
\* serf's events about one broker arrive in order.  Only a broker that changed its
\* address without an event is excepted.
THEOREM LookupConsistentAlways == Spec => []LookupConsistent
<1>1. IInv => LookupConsistent
  <2>1. SUFFICES ASSUME IInv, NEW a \in Addrs,
                        addressToBroker[a] \notin {NoBroker} \cup updated
                 PROVE  /\ addressToBroker[a] \in idToBroker
                        /\ \A c \in Addrs \ {a} : addressToBroker[c] # addressToBroker[a]
    BY Zenon DEF LookupConsistent
  <2>2. LookupOK /\ eventChLAN \in Seq(Events)
    BY <2>1, Zenon DEF IInv, Types
  <2>3. addressToBroker[a] \in idToBroker /\ Stays(eventChLAN, 0, addressToBroker[a], a, serf, addr)
    BY <2>1, <2>2, Zenon DEF LookupOK
  <2>4. ASSUME NEW c \in Addrs \ {a}, addressToBroker[c] = addressToBroker[a] PROVE FALSE
    <3>1. Stays(eventChLAN, 0, addressToBroker[a], c, serf, addr)
      BY <2>1, <2>2, <2>4, Zenon DEF LookupOK
    <3>2. a = c
      BY <2>2, <2>3, <3>1, StaysUnique, Zenon
    <3> QED
      BY <2>4, <3>2
  <2> QED
    BY <2>3, <2>4, Zenon
<1> QED
  BY <1>1, ControllerInvariant, PTL

\* When a client was told what createTopic returned, and it was ErrNone, every
\* partition of the topic has a leader, for any number of requests side by side,
\* with a timeout and without, and also while failovers replace leaders.
THEOREM AckedCompleteAlways == Spec => []AckedComplete
<1>1. IInv => AckedComplete
  BY Zenon DEF IInv
<1> QED
  BY <1>1, ControllerInvariant, PTL

\* The shape of the controller's state, for every cluster: in particular
\* reconcileCh keeps to its capacity and no table names an unknown broker.
THEOREM TypeOKAlways == Spec => []TypeOK
<1>1. IInv => TypeOK
  BY Zenon DEF IInv, Types
<1> QED
  BY <1>1, ControllerInvariant, PTL

\* handleFailedMember panics over a want of healthy nodes only if the controller
\* failed before it was elected, or if the broker that failed has ID 0: that is the
\* value of the field it compares with by mistake, which leaves no node to choose.
THEOREM HealthyNodeFoundAlways == Spec => []HealthyNodeFound
<1>1. Init => HealthyNodeFound
  BY DEF Init, HealthyNodeFound
<1>2. IInv /\ HealthyNodeFound /\ [Next]_vars => HealthyNodeFound'
  <2>1. SUFFICES ASSUME IInv, HealthyNodeFound, [Next]_vars PROVE HealthyNodeFound'
    OBVIOUS
  <2>2. CASE UNCHANGED vars
    <3>1. UNCHANGED <<loop, todo, recovered>>
      BY <2>2, Zenon DEF vars, looping, membership
    <3> QED
      BY <2>1, <3>1, Zenon DEF HealthyNodeFound
  <2>3. CASE Next /\ LoopReassign
    <3> DEFINE failed == Head(todo).id
    <3>1. /\ todo # <<>> /\ Head(todo).call = "Reassign" /\ todo \in Seq(Calls) /\ SelfOK
          /\ loop # "panic" /\ recovered' = recovered
      BY <2>1, <2>3, RecoveredStep, Zenon DEF LoopReassign, IInv, Types, Next
    <3>2. Head(todo) \in Calls
      BY <3>1, HeadTail, Zenon
    <3>3. failed \in Others
      BY <3>1, <3>2, CallShape
    <3>4. Self \in recovered \/ failed = 0 \/ Passing(failed) # {}
      BY <3>1, <3>3, SelfPasses
    <3>5. loop' = loop \/ (Passing(failed) = {} /\ todo' = todo)
      BY <2>3, ZenonT(30) DEF LoopReassign
    <3> QED
      BY <3>1, <3>4, <3>5, Zenon DEF HealthyNodeFound
  <2>4. LoopMember \/ LoopReconcile \/ LoopReconcileReaped \/ LoopDone \/ LoopCall \/ Reconciled
          => loop' \in {loop, "wait", "handle", "reconcile", "reap"}
    BY DEF LoopMember, LoopReconcile, LoopReconcileReaped, LoopDone, LoopCall, Reconciled,
       LoopReconcileMember
  <2>5. Asked \/ Started \/ Called \/ LanEventHandler \/ Changed \/ Readdressed => loop' = loop
    BY LoopFrame, RequestFrame, SerfFrame, Zenon DEF looping
  <2>6. CASE Next /\ ~LoopReassign
    <3>1. loop' \in {loop, "wait", "handle", "reconcile", "reap"} /\ loop # "panic"
      BY <2>4, <2>5, <2>6, Steps, Zenon DEF Next
    <3>2. loop' # "panic"
      BY <3>1
    <3> QED
      BY <3>2, Zenon DEF HealthyNodeFound
  <2> QED
    BY <2>1, <2>2, <2>3, <2>6
<1> QED
  BY <1>1, <1>2, ControllerInvariant, PTL DEF Spec
=============================================================================
