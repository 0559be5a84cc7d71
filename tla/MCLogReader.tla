----------------------------- MODULE MCLogReader -----------------------------
\* LogReader for TLC.
EXTENDS LogReader

\* MaxLogBytes of the broker's logs (broker.startReplica): nothing is cleaned.
Unlimited == -1
=============================================================================
