----------------------------- MODULE MCCommitLog -----------------------------
\* CommitLog for TLC.
EXTENDS CommitLog

\* MaxLogBytes of the broker's logs (broker.startReplica): nothing is cleaned.
Unlimited == -1
=============================================================================
