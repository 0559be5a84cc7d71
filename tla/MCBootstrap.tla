---------------------------- MODULE MCBootstrap ----------------------------
\* Bootstrap for TLC: three brokers.
EXTENDS Bootstrap

CONSTANTS b1, b2, b3

\* One broker was told to expect two; two were; all were; one was given another
\* number; one is in bootstrap mode and all expect three.
ThreeBrokers ==
  {[expect |-> [b \in Brokers |-> IF b = b1 THEN 2 ELSE 0], count |-> 2, mode |-> {}, maxFaults |-> 1],
   [expect |-> [b \in Brokers |-> IF b = b3 THEN 0 ELSE 2], count |-> 2, mode |-> {}, maxFaults |-> 2],
   [expect |-> [b \in Brokers |-> 2], count |-> 2, mode |-> {}, maxFaults |-> 1],
   [expect |-> [b \in Brokers |-> IF b = b3 THEN 3 ELSE 2], count |-> 2, mode |-> {}, maxFaults |-> 1],
   [expect |-> [b \in Brokers |-> 3], count |-> 3, mode |-> {b1}, maxFaults |-> 1]}
=============================================================================
