\* Every message in every version, arrays of up to two elements.
CONSTANTS
  MaxVersion = 5
  MaxElements = 2
  Numbers <- Counted
SPECIFICATION Spec
INVARIANTS
  RequestUnderstood
  ResponseUnderstood
  LengthExact
PROPERTY ExchangeCompletes
\* An exchange ends when the response has been read.
CHECK_DEADLOCK FALSE
