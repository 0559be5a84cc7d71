SPECIFICATION FairSpecBootstrap
CONSTANTS
  b1 = b1
  b2 = b2
  b3 = b3
  Brokers = {b1, b2, b3}
  Setups <- ThreeBrokers
INVARIANTS QuorumsIntersect
PROPERTIES AllBootstrap
\* All brokers are up and everything is handled.
CHECK_DEADLOCK FALSE
