SPECIFICATION SpecR
CONSTANTS
  Appenders = {p}
  Values = {v1}
  Lens = {24, 36}
  HeaderLen = 12
  IndexCapacity = 10
  MaxSegmentBytes = 80
  MaxLogBytes <- Unlimited
  MaxOffset = 5
  Readers = {r1}
  ReadSizes = {24, 50}
INVARIANTS Contiguous IndexExact StartsAtOrBefore StreamConsecutive
CHECK_DEADLOCK FALSE
