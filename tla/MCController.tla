---------------------------- MODULE MCController ----------------------------
\* Controller for TLC.
EXTENDS Controller

\* Members that come and go, also with each other's addresses, and a call that
\* fails; the same in a cluster where a broker, perhaps the controller, failed
\* before; a request, a change of a member and a call that fails; or two requests
\* side by side.
MembershipOrTopic ==
  {[events |-> 2, errors |-> 1, requests |-> 0, moves |-> TRUE, recoveries |-> 0],
   [events |-> 1, errors |-> 1, requests |-> 0, moves |-> TRUE, recoveries |-> 1],
   [events |-> 1, errors |-> 1, requests |-> 1, moves |-> FALSE, recoveries |-> 0],
   [events |-> 0, errors |-> 0, requests |-> 2, moves |-> FALSE, recoveries |-> 0]}

\* A topic is created and a member changes, without an error.
OneFailover ==
  {[events |-> 1, errors |-> 0, requests |-> 1, moves |-> FALSE, recoveries |-> 0]}
=============================================================================
