----------------------------- MODULE Leadership -----------------------------
(***************************************************************************)
(* How one broker follows its raft leadership: raft reports every change   *)
(* on raftNotifyCh, monitorLeadership starts and stops a leaderLoop, and a *)
(* leaderLoop that is past its barrier marks the broker ready for          *)
(* consistent reads until it returns.                                      *)
(*                                                                         *)
(* Raft is external: its main goroutine changes state, then blocks until   *)
(* the notification fits in the channel; a barrier can only succeed while  *)
(* it runs and leads, and may fail at any time.  What reconcile does to    *)
(* the metadata is not part of this module.                                *)
(***************************************************************************)
EXTENDS Naturals, Sequences

CONSTANTS
  NotifyCap,   \* capacity of raftNotifyCh
  MaxLoops     \* bound: how often raft becomes leader

ASSUME NotifyCapAssumption == NotifyCap \in Nat \ {0}
ASSUME MaxLoopsAssumption == MaxLoops \in Nat

VARIABLES
  leader,      \* raft.State() = Leader
  terms,       \* how often raft became leader
  pending,     \* the notifications raft is blocked on: none or one
  notifyCh,    \* raftNotifyCh
  mpc,         \* monitorLeadership: "select", "wait" for the loop, "done"
  weAreLeaderCh, \* "nil", "open" or "closed"
  cur,         \* the number of leaderLoops started so far
  lpc,         \* where each leaderLoop is
  established, \* establishedLeader of each leaderLoop
  ready,       \* readyForConsistentReads
  shutdown     \* shutdownCh is closed

raftVars == <<leader, terms, pending>>
monitorVars == <<mpc, weAreLeaderCh, cur>>
loopVars == <<lpc, established, ready>>
leadershipVars == <<raftVars, notifyCh, monitorVars, loopVars, shutdown>>

Loops == 1 .. MaxLoops

InitLeadership ==
  /\ leader = FALSE /\ terms = 0 /\ pending = <<>> /\ notifyCh = <<>>
  /\ mpc = "select" /\ weAreLeaderCh = "nil" /\ cur = 0
  /\ lpc = [l \in Loops |-> "none"] /\ established = [l \in Loops |-> FALSE]
  /\ ready = FALSE /\ shutdown = FALSE

-----------------------------------------------------------------------------
\* Raft.

RaftElected ==
  /\ ~leader /\ pending = <<>> /\ ~shutdown /\ terms < MaxLoops
  /\ leader' = TRUE /\ terms' = terms + 1 /\ pending' = <<"true">>
  /\ UNCHANGED <<notifyCh, monitorVars, loopVars, shutdown>>

RaftDeposed ==
  /\ leader /\ pending = <<>>
  /\ leader' = FALSE /\ pending' = <<"false">>
  /\ UNCHANGED <<terms, notifyCh, monitorVars, loopVars, shutdown>>

\* Mutant: a send that does not wait for room.
RaftNotifyDrops ==
  /\ pending # <<>> /\ pending' = <<>>
  /\ notifyCh' = IF Len(notifyCh) < NotifyCap THEN notifyCh \o pending ELSE notifyCh
  /\ UNCHANGED <<leader, terms, monitorVars, loopVars, shutdown>>

RaftNotify ==
  /\ pending # <<>> /\ Len(notifyCh) < NotifyCap
  /\ notifyCh' = notifyCh \o pending /\ pending' = <<>>
  /\ UNCHANGED <<leader, terms, monitorVars, loopVars, shutdown>>

\* raft.Shutdown: a notification that does not fit is dropped.
RaftShutdown ==
  /\ shutdown /\ pending # <<>>
  /\ pending' = <<>> /\ leader' = FALSE
  /\ UNCHANGED <<terms, notifyCh, monitorVars, loopVars, shutdown>>

-----------------------------------------------------------------------------
\* monitorLeadership.

\* A notification of leadership starts a leaderLoop unless one is running.
LeadershipAcquired ==
  /\ mpc = "select" /\ notifyCh # <<>> /\ Head(notifyCh) = "true"
  /\ notifyCh' = Tail(notifyCh)
  /\ IF weAreLeaderCh # "nil"
     THEN UNCHANGED <<monitorVars, lpc>>
     ELSE /\ weAreLeaderCh' = "open" /\ cur' = cur + 1
          /\ lpc' = [lpc EXCEPT ![cur + 1] = "barrier"]
          /\ UNCHANGED mpc
  /\ UNCHANGED <<raftVars, established, ready, shutdown>>

\* A notification of its loss closes the channel of the loop and waits for it.
LeadershipLost ==
  /\ mpc = "select" /\ notifyCh # <<>> /\ Head(notifyCh) = "false"
  /\ notifyCh' = Tail(notifyCh)
  /\ IF weAreLeaderCh = "nil"
     THEN UNCHANGED monitorVars
     ELSE weAreLeaderCh' = "closed" /\ mpc' = "wait" /\ UNCHANGED cur
  /\ UNCHANGED <<raftVars, loopVars, shutdown>>

\* Mutant: the monitor does not wait for the loop.
LoopNotJoined ==
  /\ mpc = "wait"
  /\ mpc' = "select" /\ weAreLeaderCh' = "nil"
  /\ UNCHANGED <<raftVars, notifyCh, cur, loopVars, shutdown>>

\* leaderLoop.Wait() returns.
LoopJoined ==
  /\ mpc = "wait" /\ lpc[cur] = "done"
  /\ mpc' = "select" /\ weAreLeaderCh' = "nil"
  /\ UNCHANGED <<raftVars, notifyCh, cur, loopVars, shutdown>>

MonitorShutdown ==
  /\ mpc = "select" /\ shutdown
  /\ mpc' = "done"
  /\ UNCHANGED <<raftVars, notifyCh, weAreLeaderCh, cur, loopVars, shutdown>>

-----------------------------------------------------------------------------
\* leaderLoop.

LoopGoto(l, label) == lpc' = [lpc EXCEPT ![l] = label]

\* raft.Barrier returns: every entry of earlier leaders is applied here.
BarrierOk(l) ==
  /\ lpc[l] = "barrier" /\ leader /\ pending = <<>>
  /\ LoopGoto(l, IF established[l] THEN "reconcile" ELSE "establish")
  /\ UNCHANGED <<raftVars, notifyCh, monitorVars, established, ready, shutdown>>

BarrierError(l) ==
  /\ lpc[l] = "barrier"
  /\ LoopGoto(l, "wait")
  /\ UNCHANGED <<raftVars, notifyCh, monitorVars, established, ready, shutdown>>

establishLeadership(l) ==
  /\ lpc[l] = "establish"
  /\ ready' = TRUE
  /\ established' = [established EXCEPT ![l] = TRUE]
  /\ LoopGoto(l, "reconcile")
  /\ UNCHANGED <<raftVars, notifyCh, monitorVars, shutdown>>

\* reconcile returns, with or without an error.
Reconciled(l) ==
  /\ lpc[l] = "reconcile"
  /\ LoopGoto(l, "wait")
  /\ UNCHANGED <<raftVars, notifyCh, monitorVars, established, ready, shutdown>>

Interval(l) ==
  /\ lpc[l] = "wait"
  /\ LoopGoto(l, "barrier")
  /\ UNCHANGED <<raftVars, notifyCh, monitorVars, established, ready, shutdown>>

\* Mutant: the loop returns without revokeLeadership.
LoopStopReady(l) ==
  /\ lpc[l] = "wait"
  /\ shutdown \/ (l = cur /\ weAreLeaderCh = "closed")
  /\ LoopGoto(l, "done")
  /\ UNCHANGED <<raftVars, notifyCh, monitorVars, established, ready, shutdown>>

\* stopCh or shutdownCh is closed: the loop returns, and the deferred
\* revokeLeadership runs if leadership was established.
LoopStop(l) ==
  /\ lpc[l] = "wait"
  /\ shutdown \/ (l = cur /\ weAreLeaderCh = "closed")
  /\ LoopGoto(l, "done")
  /\ ready' = (ready /\ ~established[l])
  /\ UNCHANGED <<raftVars, notifyCh, monitorVars, established, shutdown>>

\* Broker.Shutdown closes shutdownCh.
Shutdown ==
  /\ ~shutdown /\ shutdown' = TRUE
  /\ UNCHANGED <<raftVars, notifyCh, monitorVars, loopVars>>

-----------------------------------------------------------------------------
Monitor == LeadershipAcquired \/ LeadershipLost \/ LoopJoined \/ MonitorShutdown

leaderLoop(l) ==
  \/ BarrierOk(l) \/ BarrierError(l)
  \/ establishLeadership(l)
  \/ Reconciled(l)
  \/ Interval(l)
  \/ LoopStop(l)

\* After a shutdown every goroutine has returned.
Terminated ==
  /\ shutdown /\ mpc = "done" /\ \A l \in Loops : lpc[l] \in {"none", "done"}
  /\ UNCHANGED leadershipVars

NextLeadership ==
  \/ RaftElected \/ RaftDeposed \/ RaftNotify \/ RaftShutdown
  \/ Monitor
  \/ \E l \in Loops : leaderLoop(l)
  \/ Shutdown
  \/ Terminated

\* Goroutines that can run do; raft delivers what it is blocked on.  select
\* picks among the ready cases at random, so a stop that is ready again and
\* again is taken, and a barrier of a leader that stays leader succeeds.
Fairness ==
  /\ WF_leadershipVars(RaftNotify) /\ WF_leadershipVars(RaftShutdown)
  /\ WF_leadershipVars(LeadershipAcquired) /\ WF_leadershipVars(LeadershipLost)
  /\ WF_leadershipVars(LoopJoined)
  /\ \A l \in Loops :
       /\ WF_leadershipVars(leaderLoop(l))
       /\ SF_leadershipVars(BarrierOk(l)) /\ SF_leadershipVars(LoopStop(l))

SpecLeadership == InitLeadership /\ [][NextLeadership]_leadershipVars
FairSpecLeadership == SpecLeadership /\ Fairness

-----------------------------------------------------------------------------
\* Properties

Labels == {"none", "barrier", "establish", "reconcile", "wait", "done"}
Running(l) == lpc[l] \notin {"none", "done"}

\* The shape of the state.
LeadershipTypeOK ==
  /\ leader \in BOOLEAN /\ terms \in 0 .. MaxLoops
  /\ pending \in Seq({"true", "false"}) /\ Len(pending) <= 1
  /\ notifyCh \in Seq({"true", "false"}) /\ Len(notifyCh) <= NotifyCap
  /\ mpc \in {"select", "wait", "done"} /\ weAreLeaderCh \in {"nil", "open", "closed"}
  /\ cur \in Nat /\ lpc \in [Loops -> Labels] /\ established \in [Loops -> BOOLEAN]
  /\ ready \in BOOLEAN /\ shutdown \in BOOLEAN

\* A broker never runs two leader loops: a new one starts only when the one
\* before has returned.
OneLoop == \A l, m \in Loops : Running(l) /\ Running(m) => l = m

\* The broker is ready for consistent reads only while a leader loop that got
\* past its barrier is running: no exit of the loop leaves the flag set.
ReadyHasLoop == ready <=> \E l \in Loops : Running(l) /\ established[l]

\* When the broker is ready but raft is no longer leader, the news is on its
\* way: the loss is in the channel, or the loop is being stopped.
StaleReadyIsNoticed ==
  ready /\ ~leader =>
    \/ shutdown
    \/ mpc = "wait"
    \/ "false" \in {(notifyCh \o pending)[i] : i \in DOMAIN (notifyCh \o pending)}

\* The readiness of a broker that lost its leadership, or was shut down, ends.
ReadyRevoked == (ready /\ (~leader \/ shutdown)) ~> (~ready \/ (leader /\ ~shutdown))

\* A broker that stays leader becomes ready for consistent reads and stays so.
LeaderBecomesReady == <>[](leader /\ ~shutdown) => <>[]ready
=============================================================================
