SPECIFICATION FairSpecLeadership
CONSTANTS
  NotifyCap = 1
  MaxLoops = 3
INVARIANTS OneLoop ReadyHasLoop StaleReadyIsNoticed
PROPERTIES ReadyRevoked LeaderBecomesReady
