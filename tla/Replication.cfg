SPECIFICATION FairSpec
CONSTANTS
  Brokers = {a, b}
  None = None
  Values = {v}
  MsgsCap = 2
  MaxRequests = 2
  MaxProduced = 2
PROPERTIES FollowerCatchesUp
CHECK_DEADLOCK FALSE
