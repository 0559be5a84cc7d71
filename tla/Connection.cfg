SPECIFICATION FairSpec
CONSTANTS
  Callers = {a, b, c}
  None = None
  ChanCap = 1
  MaxCalls = 3
  MaxUnwaited = 2
  MayBreak = TRUE
INVARIANTS AnsweredInOrder OwnResponse NothingLost EffectBeforeAnswer
\* No request is made beyond MaxCalls, and a caller may wait for ever.
PROPERTIES EveryCallReturns
CHECK_DEADLOCK FALSE
