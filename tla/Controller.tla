----------------------------- MODULE Controller -----------------------------
(***************************************************************************)
(* The controller: the broker that leads raft, keeping the metadata store  *)
(* and the raft configuration in step with serf's membership (leader.go,   *)
(* serf.go), while a client creates and deletes a topic (broker.go).       *)
(*                                                                         *)
(* Three goroutines run side by side.  lanEventHandler takes serf's events *)
(* and passes them on through reconcileCh, which drops what does not fit.  *)
(* leaderLoop handles one member after the other, from the channel or in   *)
(* a periodic reconcile.  Goroutines of requests run createTopic and       *)
(* handleDeleteTopics' closure, side by side when the requests have no     *)
(* timeout.                                                                *)
(*                                                                         *)
(* A handler is the sequence of its calls that change shared state (todo); *)
(* between two of them the other goroutines run.  The controller stays the *)
(* leader; a call to raft may all the same return an error, before or      *)
(* after it took effect, which ends the handler.  A node is reduced to its *)
(* health, and the addresses of a broker to its raft address.  A request   *)
(* whose timer fires goes on as one without a timeout, until it returns    *)
(* and panics: Connection models that.                                     *)
(***************************************************************************)
EXTENDS Integers, Sequences, FiniteSets, FiniteSetsExt, Functions

CONSTANTS
  Brokers,            \* broker IDs
  Self,               \* the controller
  Bootstrap,          \* the brokers started in bootstrap mode
  Partitions,         \* the partitions of the topic
  ReplicationFactor,  \* of the topic
  ReconcileCap,       \* capacity of reconcileCh
  Budgets             \* bounds: the mixes of changes, errors and requests to look at

ASSUME SelfAssumption == Self \in Brokers
ASSUME BrokersAssumption == Brokers \subseteq Nat /\ IsFiniteSet(Brokers)
ASSUME PartitionsAssumption == IsFiniteSet(Partitions)
ASSUME SizesAssumption == ReconcileCap \in Nat /\ ReplicationFactor \in Nat \ {0}

\* A budget: how many changes of serf's membership, calls that return an error
\* and requests to create or delete the topic there may be, whether brokers may
\* change their address, and how many have failed and come back before.
ASSUME BudgetsAssumption ==
  Budgets \subseteq [events : Nat, errors : Nat, requests : Nat, moves : BOOLEAN,
                     recoveries : Nat]

VARIABLES
  serf,          \* serf's members: broker -> status
  addr,          \* the raft_addr tag of each member
  eventChLAN,    \* serf's events on their way to lanEventHandler
  addressToBroker, idToBroker,  \* the two maps of brokerLookup
  reconcileCh,   \* members on their way to leaderLoop
  serving,       \* leaderLoop reads reconcileCh
  nodes,         \* the nodes table: broker -> health
  servers,       \* the raft configuration
  partitions,    \* the partitions table
  coordinator,   \* the coordinator of a consumer group
  topic,         \* the topic is in the topics table
  loop,          \* where leaderLoop is: "wait", "handle", "reconcile", "reap" or "panic"
  members,       \* what the reconcile under way has still to look at
  known,         \* the brokers serf listed to it
  todo,          \* the calls left in the current handler of leaderLoop
  req,           \* request -> the calls left in its goroutine
  waiting,       \* the request whose goroutine Broker.Run waits for, or 0
  acked,         \* a client was told what createTopic returned, and it was ErrNone
  told,          \* the leader of each partition by the last LeaderAndISR a broker got
  recovered,     \* the brokers that failed and came back before this controller was elected
  updated,       \* the brokers whose raft_addr changed while serf had them as alive
  budget, events, errors  \* the bounds of this behaviour and what is used up

store == <<nodes, servers, partitions, coordinator, topic, told>>
membership == <<serf, addr, recovered, updated, events, budget>>
brokerLookup == <<addressToBroker, idToBroker>>
channels == <<eventChLAN, brokerLookup, reconcileCh>>
looping == <<serving, loop, members, known, todo>>
requesting == <<req, waiting, acked>>
vars == <<membership, channels, store, looping, requesting, errors>>

NoBroker == -1

\* In the beginning every broker has an address of its own.
Addrs == Brokers
NoPartition == [leader |-> NoBroker, AR |-> {}, ISR |-> {}]

\* A member as serf reports it.
Member(b, status, a) == [id |-> b, status |-> status, addr |-> a]

\* A cluster at rest: every broker in it is registered, and critical for good if
\* it failed once (HandleAliveMember), which the controller itself may have done.
\* The group's coordinator may be a broker that was the controller before.
Init ==
  /\ budget \in Budgets /\ events = 0 /\ errors = 0
  /\ \E S \in SUBSET Brokers :
       /\ Self \in S
       /\ addr = [b \in Brokers |-> b]
       /\ serf = [b \in Brokers |-> IF b \in S THEN "alive" ELSE "none"]
       /\ addressToBroker = [a \in Addrs |-> IF a \in S THEN a ELSE NoBroker]
       /\ idToBroker = S
       /\ recovered \in {R \in SUBSET S : Cardinality(R) <= budget.recoveries}
       /\ nodes = [b \in Brokers |-> CASE b \in recovered -> "critical"
                                       [] b \in S \ recovered -> "passing"
                                       [] OTHER -> "none"]
       /\ servers = {[id |-> b, addr |-> addr[b]] : b \in S}
       /\ coordinator \in S
  /\ updated = {}
  /\ eventChLAN = <<>> /\ reconcileCh = <<>>
  /\ partitions = [p \in Partitions |-> NoPartition]
  /\ topic = FALSE
  /\ told = [b \in Brokers |-> [p \in Partitions |-> NoBroker]]
  /\ loop = "wait" /\ serving = TRUE /\ members = {} /\ known = {} /\ todo = <<>>
  /\ req = <<>> /\ waiting = 0 /\ acked = FALSE

-----------------------------------------------------------------------------
\* Serf.

\* What serf may report next of a broker.
Changes == {<<"none", "alive">>, <<"left", "alive">>, <<"failed", "alive">>,
            <<"alive", "failed">>, <<"alive", "left">>, <<"failed", "left">>,
            <<"failed", "none">>, <<"left", "none">>}

\* No other broker that is alive has the address.
Free(a, b) == \A c \in Brokers \ {b} : serf[c] = "alive" => addr[c] # a

\* Serf notices that a broker other than the controller joins, perhaps with an
\* address that a broker which is gone had before, fails, leaves or is reaped.
SerfEvent(b, status, a) ==
  /\ events < budget.events
  /\ b # Self /\ <<serf[b], status>> \in Changes
  /\ IF status = "alive" /\ budget.moves THEN Free(a, b) ELSE a = addr[b]
  /\ serf' = [serf EXCEPT ![b] = status]
  /\ addr' = [addr EXCEPT ![b] = a]
  /\ eventChLAN' = Append(eventChLAN, Member(b, IF status = "none" THEN "reap" ELSE status, a))
  /\ events' = events + 1
  /\ UNCHANGED <<recovered, updated, budget, brokerLookup, reconcileCh, store, looping, requesting, errors>>

\* A broker is started again with another address before serf takes it for
\* failed.  Serf sends an EventMemberUpdate, which lanEventHandler ignores.
SerfUpdate(b, a) ==
  /\ events < budget.events /\ budget.moves
  /\ b # Self /\ serf[b] = "alive" /\ a # addr[b] /\ Free(a, b)
  /\ addr' = [addr EXCEPT ![b] = a]
  /\ updated' = updated \cup {b}
  /\ events' = events + 1
  /\ UNCHANGED <<serf, recovered, budget, channels, store, looping, requesting, errors>>

\* Mutant: one of the two maps is forgotten.
RemoveBrokerByID(m) == idToBroker' = idToBroker \ {m.id} /\ UNCHANGED addressToBroker

\* brokerLookup.AddBroker and RemoveBroker: the second forgets the address
\* whichever broker it leads to.
AddBroker(m) ==
  /\ addressToBroker' = [addressToBroker EXCEPT ![m.addr] = m.id]
  /\ idToBroker' = idToBroker \cup {m.id}

RemoveBroker(m) ==
  /\ addressToBroker' = [addressToBroker EXCEPT ![m.addr] = NoBroker]
  /\ idToBroker' = idToBroker \ {m.id}

\* brokerLookup.Brokers, by their addresses and by their IDs.
ListedAddrs == {a \in Addrs : addressToBroker[a] # NoBroker}
Listed == {addressToBroker[a] : a \in ListedAddrs}

\* lanEventHandler takes one event: the lookup of brokers follows it
\* (lanNodeJoin, lanNodeFailed), and localMemberEvent passes the member on to
\* leaderLoop unless the channel is full.
LanEventHandler ==
  /\ eventChLAN # <<>>
  /\ LET m == Head(eventChLAN)
     IN  /\ CASE m.status = "alive" -> AddBroker(m)
              [] m.status \in {"failed", "left"} -> RemoveBroker(m)
              [] m.status = "reap" -> UNCHANGED brokerLookup
         /\ reconcileCh' = IF Len(reconcileCh) < ReconcileCap
                           THEN Append(reconcileCh, m) ELSE reconcileCh
  /\ eventChLAN' = Tail(eventChLAN)
  /\ UNCHANGED <<membership, store, looping, requesting, errors>>

-----------------------------------------------------------------------------
\* The calls of the handlers.

RemoveServer(b) == [call |-> "RemoveServer", id |-> b]
AddServer(b, a) == [call |-> "AddServer", id |-> b, addr |-> a]
RegisterNode(b, health) == [call |-> "RegisterNode", id |-> b, health |-> health]
DeregisterNode(b) == [call |-> "DeregisterNode", id |-> b]
RegisterTopic == [call |-> "RegisterTopic"]
DeregisterTopic == [call |-> "DeregisterTopic"]
RegisterPartition(p, r) == [call |-> "RegisterPartition", p |-> p, r |-> r]
RegisterGroup(b) == [call |-> "RegisterGroup", id |-> b]
LeaderAndISR(S, leaders) == [call |-> "LeaderAndISR", to |-> S, leaders |-> leaders]
Everyone == {NoBroker}
Reassign(b) == [call |-> "Reassign", id |-> b]
StartCreate == [call |-> "StartCreate"]

\* Whom a LeaderAndISR goes to: the brokers the lookup lists, or those of the
\* given ones it knows.
Recipients(c) == IF c.to = Everyone THEN Listed ELSE c.to \cap idToBroker

\* What a call does when it takes effect.  The LeaderAndISR requests of one
\* handler are one step.
Effect(c) ==
  /\ servers' = CASE c.call = "RemoveServer" -> {s \in servers : s.id # c.id}
                   [] c.call = "AddServer" ->
                        {s \in servers : s.id # c.id} \cup {[id |-> c.id, addr |-> c.addr]}
                   [] OTHER -> servers
  /\ nodes' = CASE c.call = "RegisterNode" -> [nodes EXCEPT ![c.id] = c.health]
                 [] c.call = "DeregisterNode" -> [nodes EXCEPT ![c.id] = "none"]
                 [] OTHER -> nodes
  /\ partitions' = IF c.call = "RegisterPartition" THEN [partitions EXCEPT ![c.p] = c.r]
                   ELSE partitions
  /\ topic' = (c.call = "RegisterTopic" \/ (topic /\ c.call # "DeregisterTopic"))
  /\ coordinator' = IF c.call = "RegisterGroup" THEN c.id ELSE coordinator
  /\ told' = IF c.call = "LeaderAndISR"
             THEN [b \in Brokers |-> [p \in Partitions |->
                    IF b \in Recipients(c) /\ p \in DOMAIN c.leaders
                    THEN c.leaders[p] ELSE told[b][p]]]
             ELSE told

\* A call returns an error, with or without having taken effect; of several
\* LeaderAndISR requests the first ones did.  The rest of its handler is not run.
Fails(c) ==
  /\ errors < budget.errors /\ errors' = errors + 1
  /\ IF c.call = "LeaderAndISR"
     THEN \E S \in SUBSET Recipients(c) : Effect(LeaderAndISR(S, c.leaders))
     ELSE Effect(c) \/ UNCHANGED store

\* The elements of a finite set in one order, for a range over a list or a map:
\* the calls made of them touch different servers or partitions.
InSomeOrder(S) == CHOOSE f \in [1 .. Cardinality(S) -> S] : IsInjective(f)

\* Mutant: servers with the address of the new one stay.
JoinClusterByID(m) ==
  IF m.id = Self \/ [id |-> m.id, addr |-> m.addr] \in servers THEN <<>>
  ELSE <<AddServer(m.id, m.addr)>>

\* Mutant: a server with its ID is taken for the server.
JoinClusterKnown(m) ==
  LET clash == InSomeOrder({s \in servers : s.addr = m.addr})
  IN  IF m.id = Self \/ \E s \in servers : s.id = m.id THEN <<>>
      ELSE [i \in DOMAIN clash |-> RemoveServer(clash[i].id)] \o <<AddServer(m.id, m.addr)>>

\* joinCluster: unless the server is in the raft configuration, those with its
\* address or its ID go and it is added.  A second broker in bootstrap mode, and
\* the controller itself in a small cluster, are left alone.
JoinCluster(m) ==
  LET clash == {s \in servers : s.id = m.id \/ s.addr = m.addr}
      skip == \/ m.id \in Bootstrap /\ \E b \in Bootstrap \ {m.id} : serf[b] # "none"
              \/ m.id = Self /\ Cardinality(servers) < 3
              \/ [id |-> m.id, addr |-> m.addr] \in servers
  IN  IF skip THEN <<>>
      ELSE [i \in 1 .. Cardinality(clash) |-> RemoveServer(InSomeOrder(clash)[i].id)]
             \o <<AddServer(m.id, m.addr)>>

\* A node that is registered already is left as it is.
HandleAliveMember(m) ==
  JoinCluster(m) \o IF nodes[m.id] = "none" THEN <<RegisterNode(m.id, "passing")>> ELSE <<>>

\* Mutant: a node that is known to have failed is not looked at again.
HandleFailedMemberOnce(m) ==
  IF nodes[m.id] = "critical" THEN <<>>
  ELSE <<RegisterNode(m.id, "critical"), Reassign(m.id)>>

HandleFailedMember(m) == <<RegisterNode(m.id, "critical"), Reassign(m.id)>>

\* handleDeregisterMember, for a member that left or was reaped.
HandleDeregisterMember(b) ==
  IF b = Self THEN <<>>
  ELSE (IF \E s \in servers : s.id = b THEN <<RemoveServer(b)>> ELSE <<>>)
         \o IF nodes[b] # "none" THEN <<DeregisterNode(b)>> ELSE <<>>

ReconcileMember(m) ==
  CASE m.status = "alive" -> HandleAliveMember(m)
    [] m.status = "failed" -> HandleFailedMember(m)
    [] m.status \in {"left", "reap"} -> HandleDeregisterMember(m.id)

-----------------------------------------------------------------------------
\* leaderLoop.

\* A member from reconcileCh.
LoopMember ==
  /\ loop = "wait" /\ serving /\ reconcileCh # <<>>
  /\ reconcileCh' = Tail(reconcileCh)
  /\ todo' = ReconcileMember(Head(reconcileCh))
  /\ loop' = "handle"
  /\ UNCHANGED <<membership, eventChLAN, brokerLookup, store, serving, members, known, requesting, errors>>

\* The interval is over.  After the barrier reconcile looks at the members serf
\* has now; if the barrier fails the loop waits without reading reconcileCh.
LoopReconcile ==
  /\ loop = "wait"
  /\ serving' = FALSE
  /\ \/ /\ loop' = "reconcile"
        /\ known' = {b \in Brokers : serf[b] # "none"}
        /\ members' = {Member(b, serf[b], addr[b]) : b \in known'}
        /\ UNCHANGED errors
     \/ /\ errors < budget.errors /\ errors' = errors + 1
        /\ UNCHANGED <<loop, members, known>>
  /\ UNCHANGED <<membership, channels, store, todo, requesting>>

\* reconcile, and then reconcileReaped, turns to the next member, in the order
\* serf and the store happen to list them.
LoopReconcileMember(m) ==
  /\ loop \in {"reconcile", "reap"} /\ todo = <<>> /\ m \in members
  /\ members' = members \ {m}
  /\ todo' = ReconcileMember(m)
  /\ UNCHANGED <<membership, channels, store, serving, loop, known, requesting, errors>>

\* Mutant: reconcile ends with the members serf listed.
LoopReconcileOnly ==
  /\ loop = "reconcile" /\ todo = <<>> /\ members = {}
  /\ loop' = "reap"
  /\ UNCHANGED <<membership, channels, store, serving, members, known, todo, requesting, errors>>

\* reconcileReaped: the nodes serf does not know any more are to be deregistered,
\* each as a member of which it has only the ID.
LoopReconcileReaped ==
  /\ loop = "reconcile" /\ todo = <<>> /\ members = {}
  /\ members' = {Member(b, "reap", NoBroker) : b \in {c \in Brokers \ known : nodes[c] # "none"}}
  /\ loop' = "reap"
  /\ UNCHANGED <<membership, channels, store, serving, known, todo, requesting, errors>>

\* The next call of a handler.  An error ends the handler; reconcileMember only
\* logs it, but from reconcileReaped it ends the reconcile.
LoopCall ==
  /\ todo # <<>> /\ Head(todo).call # "Reassign"
  /\ \/ /\ Effect(Head(todo))
        /\ todo' = Tail(todo) /\ UNCHANGED <<loop, members, errors>>
     \/ /\ Fails(Head(todo))
        /\ todo' = <<>>
        /\ IF loop = "reap" THEN loop' = "wait" /\ members' = {}
           ELSE UNCHANGED <<loop, members>>
  /\ UNCHANGED <<membership, channels, serving, known, requesting>>

\* Mutant: the controller is left out.
PassingOthers(failed) == {b \in Brokers : nodes[b] = "passing" /\ b \notin {failed, Self}}

\* The nodes handleFailedMember takes for healthy.  It compares Node.ID, which is
\* never set, with the ID of the failed broker.
Passing(failed) == {b \in Brokers : nodes[b] = "passing" /\ 0 # failed}

\* handleFailedMember, the node marked as critical: what the broker led or
\* coordinated goes to healthy nodes, each picked at random; then these are
\* sent the partitions as they were before.  Without a healthy node the random
\* pick panics.
LoopReassign ==
  /\ todo # <<>> /\ Head(todo).call = "Reassign"
  /\ LET failed == Head(todo).id
         passing == Passing(failed)
         led == {p \in Partitions : partitions[p].leader = failed}
         moved(p, b) == [leader |-> b, AR |-> partitions[p].AR \ {failed},
                         ISR |-> partitions[p].ISR \ {failed}]
     IN  IF passing = {} /\ (led # {} \/ coordinator = failed)
         THEN loop' = "panic" /\ UNCHANGED todo
         ELSE \E b \in IF passing = {} THEN {NoBroker} ELSE passing, pick \in [led -> passing] :
                /\ todo' = (IF coordinator = failed THEN <<RegisterGroup(b)>> ELSE <<>>)
                            \o InSomeOrder({RegisterPartition(p, moved(p, pick[p])) : p \in led})
                            \o <<LeaderAndISR(passing, [p \in led |-> failed])>>
                /\ UNCHANGED loop
  /\ UNCHANGED <<membership, channels, store, serving, members, known, requesting, errors>>

\* A handler is through.  Only after a whole reconcile does the loop read
\* reconcileCh again.
LoopDone ==
  /\ todo = <<>> /\ loop \in {"handle", "reap"} /\ members = {}
  /\ loop' = "wait"
  /\ serving' = (serving \/ loop = "reap")
  /\ UNCHANGED <<membership, channels, store, members, known, todo, requesting, errors>>

-----------------------------------------------------------------------------
\* The requests, and the goroutines they run in.

\* withTimeout.  With a timeout Broker.Run waits for the goroutine, and takes no
\* other request; without one the client has its ErrNone before the goroutine runs.
WithTimeout(wait, calls) ==
  /\ waiting = 0 /\ Len(req) < budget.requests
  /\ req' = Append(req, calls)
  /\ waiting' = IF wait THEN Len(req') ELSE 0
  /\ UNCHANGED <<membership, channels, store, looping, acked, errors>>

HandleCreateTopic(wait) ==
  /\ ReplicationFactor <= Cardinality({b \in Brokers : serf[b] # "none"})
  /\ WithTimeout(wait, <<StartCreate>>)

\* The topic goes, its partitions stay.
HandleDeleteTopics(wait) == WithTimeout(wait, <<DeregisterTopic>>)

\* The goroutine of a request goes on with some calls, or returns: then Broker.Run
\* answers if it waits for it.
Continue(n, calls) ==
  /\ req' = [req EXCEPT ![n] = calls]
  /\ waiting' = IF calls = <<>> /\ waiting = n THEN 0 ELSE waiting

\* buildPartitions: the brokers in a ring, in the random order of the map; each
\* partition starts at a random place of it.
BuildPartitions ==
  LET count == Cardinality(ListedAddrs)
      rings == {r \in [0 .. count - 1 -> ListedAddrs] : IsInjective(r)}
      broker(r, k) == addressToBroker[r[k % count]]
      replicas(r, k) == {broker(r, k + i) : i \in 0 .. ReplicationFactor - 1}
  IN  UNION {{[p \in Partitions |-> [leader |-> broker(r, start[p]), AR |-> replicas(r, start[p]),
                                     ISR |-> replicas(r, start[p])]] :
               start \in [Partitions -> 0 .. count - 1]} : r \in rings}

\* createTopic begins: the topic exists already, there are too few brokers, or the
\* partitions are chosen.
CreateTopic(n) ==
  /\ req[n] # <<>> /\ Head(req[n]).call = "StartCreate"
  /\ IF topic \/ ReplicationFactor > Cardinality(ListedAddrs) THEN Continue(n, <<>>)
     ELSE \E ps \in BuildPartitions :
            Continue(n, <<RegisterTopic>>
                          \o InSomeOrder({RegisterPartition(p, ps[p]) : p \in Partitions})
                          \o <<LeaderAndISR(Everyone, [p \in Partitions |-> ps[p].leader])>>)
  /\ UNCHANGED <<membership, channels, store, looping, acked, errors>>

\* createTopic returns ErrNone after its last call, and Broker.Run waits for it.
Acknowledged(n) == waiting = n /\ Len(req[n]) = 1 /\ Head(req[n]).call = "LeaderAndISR"

\* Mutant: createTopic goes on after an error.
RequestCallGoesOn(n) ==
  /\ req[n] # <<>> /\ Head(req[n]).call # "StartCreate"
  /\ (Effect(Head(req[n])) /\ UNCHANGED errors) \/ Fails(Head(req[n]))
  /\ Continue(n, Tail(req[n])) /\ acked' = (acked \/ Acknowledged(n))
  /\ UNCHANGED <<membership, channels, looping>>

\* The next call of createTopic, or the one of handleDeleteTopics.
RequestCall(n) ==
  /\ req[n] # <<>> /\ Head(req[n]).call # "StartCreate"
  /\ \/ /\ Effect(Head(req[n]))
        /\ Continue(n, Tail(req[n])) /\ acked' = (acked \/ Acknowledged(n))
        /\ UNCHANGED errors
     \/ /\ Fails(Head(req[n]))
        /\ Continue(n, <<>>) /\ UNCHANGED acked
  /\ UNCHANGED <<membership, channels, looping>>

-----------------------------------------------------------------------------
Loop ==
  \/ LoopMember
  \/ LoopReconcile
  \/ \E m \in members : LoopReconcileMember(m)
  \/ LoopReconcileReaped
  \/ LoopCall
  \/ LoopReassign
  \/ LoopDone

\* The goroutine of some request takes a step.
Request == \E n \in DOMAIN req : CreateTopic(n) \/ RequestCall(n)

\* A panic ends the process.
Next ==
  /\ loop # "panic"
  /\ \/ \E b \in Brokers, status \in {"alive", "failed", "left", "none"}, a \in Addrs :
          SerfEvent(b, status, a)
     \/ \E b \in Brokers, a \in Addrs : SerfUpdate(b, a)
     \/ LanEventHandler
     \/ Loop
     \/ \E wait \in BOOLEAN : HandleCreateTopic(wait) \/ HandleDeleteTopics(wait)
     \/ Request

Spec == Init /\ [][Next]_vars

\* The goroutines are scheduled, the interval of leaderLoop ends, and only
\* finitely many calls fail.
FairSpec ==
  /\ Spec
  /\ WF_vars(LanEventHandler) /\ WF_vars(Request)
  /\ WF_vars(LoopMember) /\ WF_vars(LoopReconcile)
  /\ WF_vars(\E m \in members : LoopReconcileMember(m))
  /\ WF_vars(LoopReconcileReaped) /\ WF_vars(LoopCall) /\ WF_vars(LoopReassign)
  /\ WF_vars(LoopDone)

-----------------------------------------------------------------------------
\* Properties

Statuses == {"none", "alive", "failed", "left"}

\* The shape of the controller's state: the channel keeps to its capacity and
\* the tables name brokers of the cluster.
TypeOK ==
  /\ serf \in [Brokers -> Statuses] /\ addr \in [Brokers -> Addrs]
  /\ addressToBroker \in [Addrs -> Brokers \cup {NoBroker}] /\ idToBroker \subseteq Brokers
  /\ Len(reconcileCh) <= ReconcileCap
  /\ nodes \in [Brokers -> {"none", "passing", "critical"}]
  /\ servers \subseteq [id : Brokers, addr : Addrs]
  /\ partitions \in [Partitions -> [leader : Brokers \cup {NoBroker}, AR : SUBSET Brokers,
                                    ISR : SUBSET Brokers]]
  /\ coordinator \in Brokers
  /\ told \in [Brokers -> [Partitions -> Brokers \cup {NoBroker}]]
  /\ loop \in {"wait", "handle", "reconcile", "reap", "panic"}
  /\ waiting \in 0 .. Len(req) /\ updated \subseteq Brokers
  /\ serving \in BOOLEAN /\ topic \in BOOLEAN /\ acked \in BOOLEAN

\* handleFailedMember finds a healthy node to hand partitions and groups to: the
\* controller itself never loses its good health, so that with a healthy one the
\* random pick panics only over a failed broker whose ID is 0, which no node
\* compares as different to.  A controller that failed and came back before it
\* was elected is critical for good, and may be left without a healthy node.
HealthyNodeFound == loop = "panic" => Self \in recovered \/ Head(todo).id = 0

\* joinCluster leaves no two servers with one ID or one address in the raft
\* configuration, whatever addresses brokers come back with, and the controller
\* never removes itself.
RaftConfigUnique ==
  /\ \A s, t \in servers : s.id = t.id \/ s.addr = t.addr => s = t
  /\ \E s \in servers : s.id = Self

\* When a client is told that createTopic returned ErrNone, the topic has all its
\* partitions, each with a leader, and keeps them, also while leaders fail and are
\* replaced and requests without a timeout, whose ErrNone promises nothing, create
\* and delete the topic as well.
AckedComplete == acked => \A p \in Partitions : partitions[p].leader # NoBroker

\* The two maps of brokerLookup agree: a broker is listed under one address at
\* most, and then it is known by its ID as well.  A broker that changed its
\* address under serf's eyes, of which the lookup is not told, is excepted: when
\* it fails its old address stays in the lookup.
LookupConsistent ==
  \A a \in Addrs : addressToBroker[a] \notin {NoBroker} \cup updated =>
    /\ addressToBroker[a] \in idToBroker
    /\ \A c \in Addrs \ {a} : addressToBroker[c] # addressToBroker[a]

\* The controller does not panic.
Runs == [](loop # "panic")

\* A broker that stays alive becomes a node and a raft server under its present
\* address, even if its join event was dropped by a full reconcileCh or its
\* handler failed half way, or its new address was never announced: the periodic
\* reconcile makes up for it.
AliveRegistered ==
  Runs => \A b \in Brokers : <>[](serf[b] = "alive") =>
    <>[](nodes[b] # "none" /\ (b = Self \/ [id |-> b, addr |-> addr[b]] \in servers))

\* A broker that left or was reaped for good is no node in the end, even if a
\* stale join event is handled after it was gone; and while serf still lists it
\* as left, it is no raft server either.
GoneDeregistered ==
  Runs => \A b \in Brokers :
    /\ <>[](serf[b] \in {"left", "none"}) => <>[](nodes[b] = "none")
    /\ <>[](serf[b] = "left") => <>[](\A s \in servers : s.id # b)

\* A broker that failed for good leads no partition and coordinates no group in
\* the end, also when a topic was created around its failure.
FailedReplaced ==
  Runs => \A b \in Brokers : <>[](serf[b] = "failed") =>
    <>[](coordinator # b /\ \A p \in Partitions : partitions[p].leader # b)

\* A broker that is alive and stays the leader of a partition has been told so in
\* the end: the LeaderAndISR requests of createTopic and of handleFailedMember
\* carry the leaders that are in the store.
LeaderTold ==
  \A b \in Brokers, p \in Partitions :
    <>[](serf[b] = "alive" /\ partitions[p].leader = b) => <>[](told[b][p] = b)
=============================================================================
