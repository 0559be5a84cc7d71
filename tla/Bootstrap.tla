----------------------------- MODULE Bootstrap -----------------------------
(***************************************************************************)
(* How brokers that find each other through serf get their first raft      *)
(* configuration.  A broker in bootstrap mode writes one with itself alone *)
(* when it starts (setupRaft); one that was told how many to expect writes *)
(* the brokers it sees when they are that many (maybeBootstrap); the       *)
(* others wait until a raft leader brings them its log.                    *)
(*                                                                         *)
(* Serf and raft are external.  Serf lists a member at another broker      *)
(* before its join event is handled there and keeps members that failed or *)
(* left.  Raft lets a broker with a configuration become leader, and a     *)
(* leader brings its log to the brokers it knows.                          *)
(***************************************************************************)
EXTENDS Naturals, FiniteSets

CONSTANTS
  Brokers,
  Setups        \* the flags the brokers may be started with

\* --bootstrap-expect is a number, 0 when it is not given and not under count
\* otherwise, and --bootstrap is for one broker at most.  maxFaults is a bound: how
\* many errors of raft and its store, and restarts of brokers, there are.
SetupType ==
  [expect : [Brokers -> Nat], count : Nat \ {0}, mode : {{}} \cup {{b} : b \in Brokers},
   maxFaults : Nat]

ASSUME BrokersAssumption == IsFiniteSet(Brokers)
ASSUME SetupsAssumption ==
  \A s \in Setups : s \in SetupType /\ \A b \in Brokers : s.expect[b] = 0 \/ s.expect[b] >= s.count

\* The flag's help calls it the "Expected number of nodes in cluster".  It may be
\* less as long as any two majorities of that many brokers meet; beside a
\* broker in bootstrap mode it may not.
ASSUME CountAssumption ==
  \A s \in Setups :
    IF s.mode = {}
    THEN Cardinality(Brokers) < 2 * (s.count \div 2 + 1)
    ELSE Cardinality(Brokers) <= s.count

VARIABLES
  setup,            \* the flags
  members,          \* broker -> the brokers LANMembers returns there
  joins,            \* broker -> how many join events it has to handle
  BootstrapExpect,  \* broker -> config.BootstrapExpect
  raftLog,          \* the brokers with a raft log: LastIndex is not 0
  configuration,    \* broker -> the configuration it wrote itself, or {}
  erred,            \* the brokers whose maybeBootstrap met an error since they started
  faults

bootstrapVars == <<setup, members, joins, BootstrapExpect, raftLog, configuration, erred, faults>>

InitBootstrap ==
  /\ setup \in Setups
  /\ members = [b \in Brokers |-> {b}]
  /\ joins = [b \in Brokers |-> 1]
  /\ BootstrapExpect = setup.expect
  /\ raftLog = setup.mode
  /\ configuration = [b \in Brokers |-> IF b \in setup.mode THEN {b} ELSE {}]
  /\ erred = {} /\ faults = 0

\* Serf at b learns of c.
Discover(b, c) ==
  /\ c \notin members[b]
  /\ members' = [members EXCEPT ![b] = @ \cup {c}]
  /\ joins' = [joins EXCEPT ![b] = @ + 1]
  /\ UNCHANGED <<setup, BootstrapExpect, raftLog, configuration, erred, faults>>

-----------------------------------------------------------------------------
\* maybeBootstrap of b, by its returns.

\* Raft has a log: no bootstrap any more.
RaftDataFound(b) ==
  /\ b \in raftLog
  /\ BootstrapExpect' = [BootstrapExpect EXCEPT ![b] = 0]
  /\ UNCHANGED <<raftLog, configuration, erred, faults>>

\* A member was given another number, or is in bootstrap mode.
Conflict(b) ==
  \E c \in members[b] :
    setup.expect[c] \notin {0, BootstrapExpect[b]} \/ c \in setup.mode

\* Mutant: one broker too few is enough.
ExpectedAlmost(b) == Cardinality(members[b]) + 1 >= BootstrapExpect[b]

\* The expected number of brokers is there.
Expected(b) == Cardinality(members[b]) >= BootstrapExpect[b]

\* Mutant: bootstrap mode is given up at the first attempt.
NotYetGivesUp(b) ==
  /\ b \notin raftLog /\ (Conflict(b) \/ ~Expected(b))
  /\ BootstrapExpect' = [BootstrapExpect EXCEPT ![b] = 0]
  /\ UNCHANGED <<raftLog, configuration, erred, faults>>

NotYet(b) ==
  /\ b \notin raftLog /\ (Conflict(b) \/ ~Expected(b))
  /\ UNCHANGED <<BootstrapExpect, raftLog, configuration, erred, faults>>

BootstrapCluster(b) ==
  /\ b \notin raftLog /\ ~Conflict(b) /\ Expected(b)
  /\ configuration' = [configuration EXCEPT ![b] = members[b]]
  /\ raftLog' = raftLog \cup {b}
  /\ BootstrapExpect' = [BootstrapExpect EXCEPT ![b] = 0]
  /\ UNCHANGED <<erred, faults>>

\* The raft store cannot be read, or BootstrapCluster fails, after which the
\* broker does not try again.
BootstrapError(b) ==
  /\ faults < setup.maxFaults /\ faults' = faults + 1
  /\ erred' = erred \cup {b}
  /\ \/ UNCHANGED BootstrapExpect
     \/ /\ b \notin raftLog /\ ~Conflict(b) /\ Expected(b)
        /\ BootstrapExpect' = [BootstrapExpect EXCEPT ![b] = 0]
  /\ UNCHANGED <<raftLog, configuration>>

maybeBootstrap(b) == RaftDataFound(b) \/ NotYet(b) \/ BootstrapCluster(b) \/ BootstrapError(b)

\* lanNodeJoin: a join is handled, with the members as they are by now.
LanNodeJoin(b) ==
  /\ joins[b] > 0
  /\ joins' = [joins EXCEPT ![b] = @ - 1]
  /\ IF BootstrapExpect[b] # 0
     THEN maybeBootstrap(b)
     ELSE UNCHANGED <<BootstrapExpect, raftLog, configuration, erred, faults>>
  /\ UNCHANGED <<setup, members>>

-----------------------------------------------------------------------------
\* A raft leader brings its log to b, which its configuration or its controller
\* knows.
RaftReplicate(leader, b) ==
  /\ leader \in raftLog /\ b \in configuration[leader] \cup members[leader] /\ b \notin raftLog
  /\ raftLog' = raftLog \cup {b}
  /\ UNCHANGED <<setup, members, joins, BootstrapExpect, configuration, erred, faults>>

\* A broker restarts with its flags and its raft log, and has to find the others
\* again.
RestartBroker(b) ==
  /\ faults < setup.maxFaults /\ faults' = faults + 1
  /\ erred' = erred \ {b}
  /\ members' = [members EXCEPT ![b] = {b}]
  /\ joins' = [joins EXCEPT ![b] = 1]
  /\ BootstrapExpect' = [BootstrapExpect EXCEPT ![b] = setup.expect[b]]
  /\ UNCHANGED <<setup, raftLog, configuration>>

NextBootstrap ==
  \/ \E b, c \in Brokers : Discover(b, c) \/ RaftReplicate(b, c)
  \/ \E b \in Brokers : LanNodeJoin(b) \/ RestartBroker(b)

SpecBootstrap == InitBootstrap /\ [][NextBootstrap]_bootstrapVars

\* Serf spreads the members, every event is handled, and raft replicates.  Each can
\* happen only finitely often, so that one condition for all brokers is one for each.
FairSpecBootstrap ==
  /\ SpecBootstrap
  /\ WF_bootstrapVars(\E b, c \in Brokers : Discover(b, c))
  /\ WF_bootstrapVars(\E b, c \in Brokers : RaftReplicate(b, c))
  /\ WF_bootstrapVars(\E b \in Brokers : LanNodeJoin(b))

-----------------------------------------------------------------------------
\* Properties

\* The shape of the state.
BootstrapTypeOK ==
  /\ setup \in Setups
  /\ members \in [Brokers -> SUBSET Brokers] /\ joins \in [Brokers -> Nat]
  /\ BootstrapExpect \in [Brokers -> Nat]
  /\ raftLog \subseteq Brokers
  /\ configuration \in [Brokers -> SUBSET Brokers]
  /\ erred \subseteq Brokers /\ faults \in Nat

Majorities(S) == {Q \in SUBSET S : 2 * Cardinality(Q) > Cardinality(S)}

\* Brokers that bootstrap with different views of the cluster cannot form two
\* clusters: any majority of a configuration one wrote and any majority of a
\* configuration another wrote have a broker in common, whatever the order in
\* which they saw each other and whoever restarted in between.
QuorumsIntersect ==
  \A b, c \in Brokers :
    \A P \in Majorities(configuration[b]), Q \in Majorities(configuration[c]) : P \cap Q # {}

\* The brokers that were given a number were given the same.
SameCount == \A b, c \in Brokers : 0 \in {setup.expect[b], setup.expect[c]} \/ setup.expect[b] = setup.expect[c]

\* One broker that was given the number and meets no error is enough for all: every
\* broker gets a raft log in the end, in whatever order they see each other, unless
\* every broker that was given the number has met an error since it last started.
\* After one, maybeBootstrap is tried again only at another join event, and not at
\* all when it was BootstrapCluster that failed.
AllBootstrap ==
  SameCount =>
    \/ <>(raftLog = Brokers)
    \/ <>[](\A b \in Brokers : setup.expect[b] # 0 => b \in erred)
=============================================================================
