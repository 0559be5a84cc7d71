SPECIFICATION FairSpec
CONSTANTS
  Brokers = {0, 1, 2}
  Self = 1
  Bootstrap = {1}
  Partitions = {p1}
  ReplicationFactor = 2
  ReconcileCap = 1
  Budgets <- MembershipOrTopic
INVARIANTS HealthyNodeFound RaftConfigUnique LookupConsistent AckedComplete
PROPERTIES AliveRegistered GoneDeregistered FailedReplaced
\* A panic ends the process.
CHECK_DEADLOCK FALSE
