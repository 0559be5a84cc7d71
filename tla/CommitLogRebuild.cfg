SPECIFICATION SpecRestart
CONSTANTS
  Appenders = {p}
  Values = {v1}
  Lens = {24, 36}
  HeaderLen = 12
  IndexCapacity = 10
  MaxSegmentBytes = 40
  MaxLogBytes <- Unlimited
  MaxOffset = 4
INVARIANTS IndexExact
CHECK_DEADLOCK FALSE
