SPECIFICATION Spec
CONSTANTS
  Brokers = {b1, b2}
  Members = {m1, m2, m3}
  None = None
  MaxRequests = 3
  MaxFaults = 2
SYMMETRY Symmetry
INVARIANTS AnswersKept LeaderAgreed
\* The requests are bounded.
CHECK_DEADLOCK FALSE
