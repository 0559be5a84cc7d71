SPECIFICATION SpecLog
CONSTANTS
  Appenders = {p}
  Values = {v1, v2}
  Lens = {24, 36}
  HeaderLen = 12
  IndexCapacity = 10
  MaxSegmentBytes = 24
  MaxLogBytes = 80
  MaxOffset = 4
  MaxInterrupted = 1
INVARIANTS AckedKept ReopenedExact RetentionKept ObsoleteGone
PROPERTIES OffsetsAdvance ImplementsPartitionLog
