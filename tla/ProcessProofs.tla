--------------------------- MODULE ProcessProofs ----------------------------
(***************************************************************************)
(* What the goroutines of one process keep right. Requests of a client's   *)
(* connection are answered in their order, nobody reads another caller's   *)
(* response, nothing is lost while the connection is up, and only a        *)
(* request nobody waited for is overtaken by the effect of a later one,    *)
(* for any number of callers and calls and any capacity of the channels. A *)
(* broker runs at most one leaderLoop, it is ready for consistent reads    *)
(* exactly while an established one runs, and raft's news that it leads no *)
(* longer is never lost: for every capacity of raftNotifyCh and any number *)
(* of elections.                                                           *)
(***************************************************************************)
EXTENDS Connection, Leadership, SequenceTheorems, TLAPS

-----------------------------------------------------------------------------
\* A broker's leadership.

\* The facts OneLoop and ReadyHasLoop rest on: only the loop started last can
\* run, and only while monitorLeadership holds its channel; a loop not started
\* yet is not established; monitorLeadership waits exactly while the channel is
\* closed.
LoopInv ==
  /\ \A l \in Loops : Running(l) => l = cur /\ weAreLeaderCh # "nil"
  /\ \A l \in Loops : l > cur => lpc[l] = "none"
  /\ \A l \in Loops : lpc[l] = "none" \/ lpc[l] = "establish" => ~established[l]
  /\ weAreLeaderCh = "closed" <=> mpc = "wait"

\* What StaleReadyIsNoticed rests on: the last notification that is under way
\* tells what raft is now, and when none is, monitorLeadership has acted on the
\* last one.
NewsInv ==
  ~shutdown =>
    /\ pending # <<>> => (pending[1] = "true" <=> leader)
    /\ pending = <<>> /\ notifyCh # <<>> => (notifyCh[Len(notifyCh)] = "true" <=> leader)
    /\ pending = <<>> /\ notifyCh = <<>> => (weAreLeaderCh = "open" <=> leader)

LeadershipInv == LeadershipTypeOK /\ LoopInv /\ ReadyHasLoop /\ NewsInv

\* A broker that has just started has the types.
LEMMA TypeInit == InitLeadership => LeadershipTypeOK
<1>1. <<>> \in Seq({"true", "false"})
  OBVIOUS
<1>2. InitLeadership => /\ leader \in BOOLEAN /\ ready \in BOOLEAN /\ shutdown \in BOOLEAN
              /\ established \in [Loops -> BOOLEAN]
  BY Zenon DEF InitLeadership
<1> QED
  BY <1>1, <1>2, MaxLoopsAssumption, NotifyCapAssumption DEF InitLeadership, LeadershipTypeOK, Labels

\* Every step of raft, the monitor and the loops preserves the types.
LEMMA TypeStep == LeadershipTypeOK /\ [NextLeadership]_leadershipVars => LeadershipTypeOK'
<1> SUFFICES ASSUME LeadershipTypeOK, [NextLeadership]_leadershipVars PROVE LeadershipTypeOK'
  OBVIOUS
<1> USE MaxLoopsAssumption DEF LeadershipTypeOK, Labels, raftVars, monitorVars, loopVars
<1>1. CASE RaftElected
  BY <1>1 DEF RaftElected
<1>2. CASE RaftDeposed
  <2>1. leader' \in BOOLEAN
    BY <1>2, Zenon DEF RaftDeposed
  <2> QED
    BY <1>2, <2>1 DEF RaftDeposed
<1>3. CASE RaftNotify
  <2>1. /\ notifyCh \o pending \in Seq({"true", "false"})
        /\ Len(notifyCh \o pending) = Len(notifyCh) + Len(pending)
    BY ConcatProperties
  <2>2. Len(notifyCh \o pending) <= NotifyCap
    BY <1>3, <2>1, NotifyCapAssumption DEF RaftNotify
  <2> QED
    BY <1>3, <2>1, <2>2 DEF RaftNotify
<1>4. CASE RaftShutdown
  <2>1. leader' \in BOOLEAN
    BY <1>4, Zenon DEF RaftShutdown
  <2> QED
    BY <1>4, <2>1 DEF RaftShutdown
<1>12. notifyCh # <<>> => /\ Tail(notifyCh) \in Seq({"true", "false"})
                         /\ Len(Tail(notifyCh)) <= NotifyCap
  BY NotifyCapAssumption, HeadTailProperties
<1>5. CASE LeadershipAcquired
  BY <1>5, <1>12 DEF LeadershipAcquired
<1>6. CASE LeadershipLost
  BY <1>6, <1>12 DEF LeadershipLost
<1>7. CASE LoopJoined
  BY <1>7 DEF LoopJoined
<1>8. CASE MonitorShutdown
  BY <1>8 DEF MonitorShutdown
<1>9. ASSUME NEW l \in Loops, leaderLoop(l) PROVE LeadershipTypeOK'
  BY <1>9, Zenon DEF leaderLoop, BarrierOk, BarrierError, establishLeadership, Reconciled,
              Interval, LoopStop, LoopGoto
<1>10. CASE Shutdown
  BY <1>10 DEF Shutdown
<1>11. CASE UNCHANGED leadershipVars
  BY <1>11 DEF leadershipVars
<1> QED
  BY <1>1, <1>2, <1>3, <1>4, <1>5, <1>6, <1>7, <1>8, <1>9, <1>10, <1>11
     DEF NextLeadership, Monitor, Terminated

\* The state of the loops and the ready flag only change with the monitor and
\* the loops themselves.
LEMMA LoopStep == LeadershipInv /\ [NextLeadership]_leadershipVars => LoopInv' /\ ReadyHasLoop'
<1> SUFFICES ASSUME LeadershipInv, [NextLeadership]_leadershipVars PROVE LoopInv' /\ ReadyHasLoop'
  OBVIOUS
<1> USE MaxLoopsAssumption DEF LeadershipInv, LeadershipTypeOK, LoopInv, ReadyHasLoop, Running, Loops
<1>1. CASE UNCHANGED <<monitorVars, loopVars>>
  BY <1>1 DEF monitorVars, loopVars
<1>2. CASE LeadershipAcquired
  BY <1>2 DEF LeadershipAcquired, monitorVars
<1>3. CASE LeadershipLost
  BY <1>3 DEF LeadershipLost, monitorVars, loopVars
<1>4. CASE LoopJoined
  BY <1>4 DEF LoopJoined, loopVars
<1>5. CASE MonitorShutdown
  BY <1>5 DEF MonitorShutdown, loopVars
<1>6. ASSUME NEW l \in Loops, leaderLoop(l) PROVE LoopInv' /\ ReadyHasLoop'
  <2> USE DEF LoopGoto, monitorVars
  <2>1. CASE BarrierOk(l)
    BY <2>1 DEF BarrierOk
  <2>2. CASE BarrierError(l)
    BY <2>2 DEF BarrierError
  <2>3. CASE establishLeadership(l)
    BY <2>3 DEF establishLeadership
  <2>4. CASE Reconciled(l)
    BY <2>4 DEF Reconciled
  <2>5. CASE Interval(l)
    BY <2>5 DEF Interval
  <2>6. CASE LoopStop(l)
    BY <2>6, Zenon DEF LoopStop
  <2> QED
    BY <1>6, <2>1, <2>2, <2>3, <2>4, <2>5, <2>6 DEF leaderLoop
<1> QED
  BY <1>1, <1>2, <1>3, <1>4, <1>5, <1>6
     DEF NextLeadership, Monitor, Terminated, RaftElected, RaftDeposed, RaftNotify, RaftShutdown,
         Shutdown, leadershipVars

\* A broker that has just started runs no loop.
LEMMA LoopInit == InitLeadership => LoopInv /\ ReadyHasLoop
  BY MaxLoopsAssumption DEF InitLeadership, LoopInv, ReadyHasLoop, Running, Loops

\* A broker that has just started does not lead, and no notification is under way.
LEMMA NewsInit == InitLeadership => NewsInv
  BY DEF InitLeadership, NewsInv

\* Sending: the notification raft was blocked on is the last of the channel's.
LEMMA ConcatOne ==
  ASSUME NEW S, NEW s \in Seq(S), NEW t \in Seq(S), Len(t) = 1
  PROVE  /\ Len(s \o t) = Len(s) + 1 /\ (s \o t)[Len(s) + 1] = t[1]
         /\ Len(s) + 1 \in DOMAIN (s \o t) /\ s \o t # <<>>
<1>1. s \o t \in Seq(S) /\ Len(s \o t) = Len(s) + 1 /\ Len(s) \in Nat
  <2>1. s \o t \in Seq(S) /\ Len(s \o t) = Len(s) + Len(t)
    BY ConcatProperties, Zenon
  <2> QED
    BY <2>1
<1>2. (s \o t)[Len(s) + 1] = t[1]
  BY <1>1
<1>3. DOMAIN (s \o t) = 1 .. Len(s) + 1
  BY <1>1
<1> QED
  BY <1>1, <1>2, <1>3

\* Raft is blocked on one notification at most.
LEMMA PendingOne ==
  ASSUME LeadershipTypeOK, pending # <<>>
  PROVE  Len(pending) = 1 /\ pending[1] \in {"true", "false"}
<1>1. pending \in Seq({"true", "false"}) /\ Len(pending) <= 1
  BY DEF LeadershipTypeOK
<1>2. Len(pending) # 0
  BY <1>1, EmptySeq, Zenon
<1>3. Len(pending) = 1
  <2>1. Len(pending) \in Nat
    BY <1>1
  <2>2. \A n \in Nat : n <= 1 /\ n # 0 => n = 1
    OBVIOUS
  <2> QED
    BY <1>1, <1>2, <2>1, <2>2, Zenon
<1> QED
  BY <1>1, <1>3

\* Receiving: the channel keeps its last notification until it is the one taken.
LEMMA TailLast ==
  ASSUME NEW S, NEW s \in Seq(S), s # <<>>
  PROVE  /\ Tail(s) = <<>> => s[Len(s)] = Head(s)
         /\ Tail(s) # <<>> => Tail(s)[Len(Tail(s))] = s[Len(s)]
<1>1. /\ Tail(s) \in Seq(S) /\ Len(Tail(s)) = Len(s) - 1 /\ Len(s) \in Nat
      /\ Head(s) = s[1] /\ \A i \in 1 .. Len(Tail(s)) : Tail(s)[i] = s[i + 1]
  BY HeadTailProperties
<1>2. Tail(s) = <<>> => Len(s) = 1
  BY <1>1, EmptySeq
<1>3. Tail(s) # <<>> => Len(Tail(s)) \in 1 .. Len(Tail(s))
  BY <1>1
<1> QED
  BY <1>1, <1>2, <1>3

\* Raft notifies of every change, and monitorLeadership takes the notifications
\* in order, each one before the next select.
LEMMA NewsStep == LeadershipInv /\ [NextLeadership]_leadershipVars => NewsInv'
<1> SUFFICES ASSUME LeadershipInv, [NextLeadership]_leadershipVars, ~shutdown' PROVE NewsInv'
  BY DEF NewsInv
<1> USE DEF LeadershipInv, LeadershipTypeOK, NewsInv
<1>1. CASE RaftElected
  BY <1>1 DEF RaftElected
<1>2. CASE RaftDeposed
  BY <1>2 DEF RaftDeposed
<1>3. CASE RaftNotify
  <2>0. Len(pending) = 1
    BY <1>3, PendingOne DEF RaftNotify
  <2>1. /\ pending[1] = (notifyCh \o pending)[Len(notifyCh) + 1]
        /\ Len(notifyCh \o pending) = Len(notifyCh) + 1 /\ notifyCh \o pending # <<>>
    BY <2>0, ConcatOne
  <2> QED
    BY <1>3, <2>1 DEF RaftNotify
<1>4. CASE RaftShutdown
  BY <1>4 DEF RaftShutdown
<1>5. notifyCh # <<>> =>
        /\ Tail(notifyCh) = <<>> => notifyCh[Len(notifyCh)] = Head(notifyCh)
        /\ Tail(notifyCh) # <<>> => Tail(notifyCh)[Len(Tail(notifyCh))] = notifyCh[Len(notifyCh)]
  BY TailLast
<1>6. CASE LeadershipAcquired
  <2>1. weAreLeaderCh' = "open"
    BY <1>6 DEF LeadershipAcquired, LoopInv, monitorVars
  <2> QED
    BY <1>5, <1>6, <2>1 DEF LeadershipAcquired, raftVars
<1>7. CASE LeadershipLost
  <2>1. weAreLeaderCh' # "open"
    BY <1>7 DEF LeadershipLost, monitorVars
  <2> QED
    BY <1>5, <1>7, <2>1 DEF LeadershipLost, raftVars
<1>8. CASE LoopJoined
  BY <1>8 DEF LoopJoined, LoopInv, raftVars
<1>9. CASE MonitorShutdown
  BY <1>9 DEF MonitorShutdown
<1>10. ASSUME NEW l \in Loops, leaderLoop(l) PROVE NewsInv'
  BY <1>10 DEF leaderLoop, BarrierOk, BarrierError, establishLeadership, Reconciled,
               Interval, LoopStop, raftVars, monitorVars
<1>11. CASE Shutdown
  BY <1>11 DEF Shutdown
<1>12. CASE UNCHANGED leadershipVars
  BY <1>12 DEF leadershipVars, raftVars, monitorVars
<1> QED
  BY <1>1, <1>2, <1>3, <1>4, <1>6, <1>7, <1>8, <1>9, <1>10, <1>11, <1>12
     DEF NextLeadership, Monitor, Terminated

\* The inductive invariant.
THEOREM LeadershipInvariant == SpecLeadership => []LeadershipInv
<1>1. InitLeadership => LeadershipInv
  BY TypeInit, LoopInit, NewsInit DEF LeadershipInv
<1>2. LeadershipInv /\ [NextLeadership]_leadershipVars => LeadershipInv'
  BY TypeStep, LoopStep, NewsStep DEF LeadershipInv
<1> QED
  BY <1>1, <1>2, PTL DEF SpecLeadership

\* monitorLeadership never lets two leader loops run at once.
THEOREM OneLoopAlways == SpecLeadership => []OneLoop
<1>1. LeadershipInv => OneLoop
  BY DEF LeadershipInv, LoopInv, OneLoop
<1> QED
  BY <1>1, LeadershipInvariant, PTL

\* The flag readyForConsistentReads is set exactly while an established leader
\* loop runs.
THEOREM ReadyHasLoopAlways == SpecLeadership => []ReadyHasLoop
<1>1. LeadershipInv => ReadyHasLoop
  BY DEF LeadershipInv
<1> QED
  BY <1>1, LeadershipInvariant, PTL

\* A broker that is ready for consistent reads without leading any more is about
\* to learn of it: raft's notification of the loss is under way to
\* monitorLeadership, which is not past it, or the loop is being stopped.
THEOREM StaleReadyIsNoticedAlways == SpecLeadership => []StaleReadyIsNoticed
<1>1. LeadershipInv => StaleReadyIsNoticed
  <2> SUFFICES ASSUME LeadershipInv, ready, ~leader, ~shutdown, mpc # "wait"
               PROVE  \E i \in DOMAIN (notifyCh \o pending) : (notifyCh \o pending)[i] = "false"
    BY DEF StaleReadyIsNoticed
  <2>1. weAreLeaderCh = "open"
    BY DEF LeadershipInv, LeadershipTypeOK, LoopInv, ReadyHasLoop
  <2>2. CASE pending # <<>>
    <3>1. Len(pending) = 1 /\ pending[1] = "false"
      BY <2>2, PendingOne DEF LeadershipInv, NewsInv
    <3>2. /\ Len(notifyCh) + 1 \in DOMAIN (notifyCh \o pending)
          /\ (notifyCh \o pending)[Len(notifyCh) + 1] = pending[1]
      BY <3>1, ConcatOne DEF LeadershipInv, LeadershipTypeOK
    <3> QED
      BY <3>1, <3>2
  <2>3. CASE pending = <<>>
    <3>1. notifyCh # <<>> /\ notifyCh[Len(notifyCh)] = "false"
      BY <2>1, <2>3 DEF LeadershipInv, LeadershipTypeOK, NewsInv
    <3>2. notifyCh \o pending = notifyCh /\ Len(notifyCh) \in DOMAIN notifyCh
      BY <2>3, <3>1 DEF LeadershipInv, LeadershipTypeOK
    <3> QED
      BY <3>1, <3>2
  <2> QED
    BY <2>2, <2>3
<1> QED
  BY <1>1, LeadershipInvariant, PTL

-----------------------------------------------------------------------------
\* A client's connection.

\* The elements of a sequence.
E(s) == {s[i] : i \in 1 .. Len(s)}

\* A sequence increases; all of S is less than all of T.
Inc(s) == \A i, j \in 1 .. Len(s) : i < j => s[i] < s[j]
Less(S, T) == \A x \in S, y \in T : x < y

-----------------------------------------------------------------------------
\* Sequences of numbers.

\* The elements are numbers.
LEMMA Elements ==
  ASSUME NEW s \in Seq(Nat)
  PROVE  E(s) \subseteq Nat /\ Len(s) \in Nat /\ (s = <<>> => E(s) = {})
  BY DEF E

\* A number is added that is greater than the others.
LEMMA AppendInc ==
  ASSUME NEW s \in Seq(Nat), NEW n \in Nat
  PROVE  /\ Append(s, n) \in Seq(Nat) /\ E(Append(s, n)) = E(s) \cup {n}
         /\ Inc(s) /\ Less(E(s), {n}) => Inc(Append(s, n))
<1> DEFINE t == Append(s, n)
<1>1. /\ t \in Seq(Nat) /\ Len(s) \in Nat /\ Len(t) = Len(s) + 1 /\ t[Len(s) + 1] = n
      /\ \A i \in 1 .. Len(s) : t[i] = s[i] /\ s[i] \in Nat
  OBVIOUS
<1> HIDE DEF t
<1>2. E(t) = E(s) \cup {n}
  <2>1. E(t) \subseteq E(s) \cup {n}
    <3>1. ASSUME NEW i \in 1 .. Len(t) PROVE t[i] = n \/ (i \in 1 .. Len(s) /\ t[i] = s[i])
      <4>1. i = Len(s) + 1 \/ i \in 1 .. Len(s)
        <5>1. Len(s) \in Nat /\ Len(t) = Len(s) + 1
          BY <1>1
        <5> QED
          BY <5>1
      <4>2. t[Len(s) + 1] = n /\ \A k \in 1 .. Len(s) : t[k] = s[k]
        BY <1>1
      <4> QED
        BY <4>1, <4>2, Zenon
    <3> QED
      BY <3>1 DEF E
  <2>2. E(s) \subseteq E(t)
    BY <1>1 DEF E
  <2>3. n \in E(t)
    BY <1>1 DEF E
  <2> QED
    BY <2>1, <2>2, <2>3
<1>3. ASSUME Inc(s), Less(E(s), {n}) PROVE Inc(t)
  <2> SUFFICES ASSUME NEW i \in 1 .. Len(t), NEW j \in 1 .. Len(t), i < j PROVE t[i] < t[j]
    BY DEF Inc
  <2>0. Len(s) \in Nat /\ Len(t) = Len(s) + 1 /\ i \in Nat /\ j \in Nat /\ 1 <= i /\ j <= Len(t)
    BY <1>1
  <2>1. i \in 1 .. Len(s)
    BY <2>0
  <2>2. CASE j = Len(s) + 1
    <3>1. t[i] = s[i] /\ s[i] \in E(s) /\ t[j] = n
      BY <1>1, <2>1, <2>2 DEF E
    <3> QED
      BY <1>3, <3>1 DEF Less
  <2>3. CASE j # Len(s) + 1
    <3>1. j \in 1 .. Len(s)
      BY <2>0, <2>3
    <3>2. s[i] < s[j]
      BY <1>3, <2>1, <3>1 DEF Inc
    <3>3. t[i] = s[i] /\ t[j] = s[j]
      BY <1>1, <2>1, <3>1, Zenon
    <3> QED
      BY <3>2, <3>3
  <2> QED
    BY <2>2, <2>3
<1> QED
  BY <1>1, <1>2, <1>3 DEF t

\* The head of an increasing sequence is its least element.
LEMMA TailInc ==
  ASSUME NEW s \in Seq(Nat), s # <<>>
  PROVE  /\ Tail(s) \in Seq(Nat) /\ Head(s) \in Nat /\ E(s) = {Head(s)} \cup E(Tail(s))
         /\ Inc(s) => Inc(Tail(s)) /\ Less({Head(s)}, E(Tail(s)))
<1> DEFINE t == Tail(s)
<1>1. /\ t \in Seq(Nat) /\ Len(s) \in Nat \ {0} /\ Len(t) = Len(s) - 1 /\ Head(s) = s[1]
      /\ \A i \in 1 .. Len(t) : t[i] = s[i + 1]
      /\ \A i \in 1 .. Len(s) : s[i] \in Nat
  OBVIOUS
<1> HIDE DEF t
<1>2. E(s) = {s[1]} \cup E(t)
  <2>1. ASSUME NEW i \in 1 .. Len(s) PROVE s[i] \in {s[1]} \cup E(t)
    <3>1. CASE i = 1
      BY <3>1
    <3>2. CASE i # 1
      <4>1. i - 1 \in 1 .. Len(t) /\ t[i - 1] = s[i]
        BY <1>1, <3>2
      <4> QED
        BY <4>1 DEF E
    <3> QED
      BY <3>1, <3>2
  <2>2. ASSUME NEW i \in 1 .. Len(t) PROVE t[i] \in E(s)
    <3>1. i + 1 \in 1 .. Len(s) /\ t[i] = s[i + 1]
      BY <1>1
    <3> QED
      BY <3>1 DEF E
  <2>3. s[1] \in E(s)
    BY <1>1 DEF E
  <2> QED
    BY <2>1, <2>2, <2>3, Zenon DEF E
<1>3. ASSUME Inc(s) PROVE Inc(t)
  <2> SUFFICES ASSUME NEW i \in 1 .. Len(t), NEW j \in 1 .. Len(t), i < j PROVE t[i] < t[j]
    BY DEF Inc
  <2>1. i + 1 \in 1 .. Len(s) /\ j + 1 \in 1 .. Len(s) /\ i + 1 < j + 1
    BY <1>1
  <2> QED
    BY <1>1, <1>3, <2>1, Zenon DEF Inc
<1>4. ASSUME Inc(s) PROVE Less({s[1]}, E(t))
  <2> SUFFICES ASSUME NEW i \in 1 .. Len(t) PROVE s[1] < t[i]
    BY DEF Less, E
  <2>1. i + 1 \in 1 .. Len(s) /\ 1 \in 1 .. Len(s) /\ 1 < i + 1
    BY <1>1
  <2> QED
    BY <1>1, <1>4, <2>1, Zenon DEF Inc
<1> QED
  BY <1>1, <1>2, <1>3, <1>4 DEF t

\* What is left when the end is lost.
LEMMA PrefixInc ==
  ASSUME NEW s \in Seq(Nat), NEW n \in 0 .. Len(s)
  PROVE  /\ SubSeq(s, 1, n) \in Seq(Nat) /\ E(SubSeq(s, 1, n)) \subseteq E(s)
         /\ Inc(s) => Inc(SubSeq(s, 1, n)) /\ Less(E(SubSeq(s, 1, n)), E(s) \ E(SubSeq(s, 1, n)))
<1> DEFINE t == SubSeq(s, 1, n)
<1>1. /\ t \in Seq(Nat) /\ Len(s) \in Nat /\ n \in Nat /\ n <= Len(s) /\ Len(t) = n
      /\ \A i \in 1 .. n : t[i] = s[i]
      /\ \A i \in 1 .. Len(s) : s[i] \in Nat
  BY SubSeqProperties
<1> HIDE DEF t
<1>2. E(t) \subseteq E(s)
  <2>1. ASSUME NEW i \in 1 .. Len(t) PROVE t[i] \in E(s)
    <3>1. i \in 1 .. Len(s) /\ t[i] = s[i]
      BY <1>1
    <3> QED
      BY <3>1 DEF E
  <2> QED
    BY <2>1 DEF E
<1>3. ASSUME Inc(s) PROVE Inc(t)
  <2> SUFFICES ASSUME NEW i \in 1 .. Len(t), NEW j \in 1 .. Len(t), i < j PROVE t[i] < t[j]
    BY DEF Inc
  <2>1. i \in 1 .. Len(s) /\ j \in 1 .. Len(s) /\ t[i] = s[i] /\ t[j] = s[j]
    BY <1>1
  <2> QED
    BY <1>3, <2>1 DEF Inc
<1>4. ASSUME Inc(s) PROVE Less(E(t), E(s) \ E(t))
  <2> SUFFICES ASSUME NEW i \in 1 .. n, NEW j \in 1 .. Len(s), s[j] \notin E(t) PROVE s[i] < s[j]
    BY <1>1, Zenon DEF Less, E
  <2>1. j \notin 1 .. n
    BY <1>1 DEF E
  <2>2. i \in 1 .. Len(s) /\ i < j
    BY <1>1, <2>1
  <2> QED
    BY <1>4, <2>2 DEF Inc
<1> QED
  BY <1>1, <1>2, <1>3, <1>4 DEF t

\* Two sequences, one after the other.
LEMMA ConcatInc ==
  ASSUME NEW s \in Seq(Nat), NEW t \in Seq(Nat)
  PROVE  /\ s \o t \in Seq(Nat) /\ E(s \o t) = E(s) \cup E(t)
         /\ Inc(s) /\ Inc(t) /\ Less(E(s), E(t)) => Inc(s \o t)
<1> DEFINE u == s \o t
<1>1. /\ u \in Seq(Nat) /\ Len(s) \in Nat /\ Len(t) \in Nat /\ Len(u) = Len(s) + Len(t)
      /\ \A i \in 1 .. Len(s) : u[i] = s[i]
      /\ \A i \in 1 .. Len(u) : i > Len(s) => u[i] = t[i - Len(s)]
  BY ConcatProperties
<1> HIDE DEF u
<1>2. ASSUME NEW i \in 1 .. Len(u)
      PROVE  \/ i \in 1 .. Len(s) /\ u[i] = s[i]
             \/ i > Len(s) /\ i - Len(s) \in 1 .. Len(t) /\ u[i] = t[i - Len(s)]
  BY <1>1
<1>3. E(u) = E(s) \cup E(t)
  <2>1. E(u) \subseteq E(s) \cup E(t)
    BY <1>2, Zenon DEF E
  <2>2. E(s) \subseteq E(u)
    BY <1>1 DEF E
  <2>3. ASSUME NEW i \in 1 .. Len(t) PROVE t[i] \in E(u)
    <3>1. i + Len(s) \in 1 .. Len(u) /\ i + Len(s) > Len(s) /\ (i + Len(s)) - Len(s) = i
      BY <1>1
    <3>2. u[i + Len(s)] = t[i]
      BY <1>1, <3>1, Zenon
    <3> QED
      BY <3>1, <3>2 DEF E
  <2> QED
    BY <2>1, <2>2, <2>3, Zenon DEF E
<1>4. ASSUME Inc(s), Inc(t), Less(E(s), E(t)) PROVE Inc(u)
  <2> SUFFICES ASSUME NEW i \in 1 .. Len(u), NEW j \in 1 .. Len(u), i < j PROVE u[i] < u[j]
    BY DEF Inc
  <2>1. CASE i \in 1 .. Len(s) /\ j \in 1 .. Len(s)
    BY <1>1, <1>4, <2>1 DEF Inc
  <2>2. CASE i \in 1 .. Len(s) /\ j > Len(s)
    <3>1. u[i] \in E(s)
      BY <1>1, <2>2, Zenon DEF E
    <3>2. j - Len(s) \in 1 .. Len(t) /\ u[j] = t[j - Len(s)]
      BY <1>1, <2>2, SMTT(40)
    <3>3. u[j] \in E(t)
      BY <3>2 DEF E
    <3> QED
      BY <1>4, <3>1, <3>3 DEF Less
  <2>3. CASE i > Len(s) /\ j > Len(s)
    <3>1. /\ i - Len(s) \in 1 .. Len(t) /\ j - Len(s) \in 1 .. Len(t) /\ i - Len(s) < j - Len(s)
          /\ u[i] = t[i - Len(s)] /\ u[j] = t[j - Len(s)]
      BY <1>1, <2>3, SMTT(40), Zenon
    <3> QED
      BY <1>4, <3>1, Zenon DEF Inc
  <2>4. Len(s) \in Nat /\ Len(u) \in Nat
    BY <1>1
  <2>5. \/ i \in 1 .. Len(s) /\ j \in 1 .. Len(s)
        \/ i \in 1 .. Len(s) /\ j > Len(s)
        \/ i > Len(s) /\ j > Len(s)
    BY <2>4
  <2> QED
    BY <2>1, <2>2, <2>3, <2>5, Zenon
<1> QED
  BY <1>1, <1>3, <1>4 DEF u

-----------------------------------------------------------------------------
\* The invariant.

\* The numbers on the path, from the responses to the requests.
Rest == E(responseCh) \cup E(running) \cup E(requestCh) \cup E(requests)
OnPath == E(responses) \cup Rest

Types ==
  /\ correlationID \in Nat
  /\ pc \in [Callers -> {"idle", "sent", "wait", "read"}]
  /\ sent \in [Callers -> Nat] /\ id \in [Callers -> Nat]
  /\ up \in BOOLEAN
  /\ responses \in Seq(Nat) /\ responseCh \in Seq(Nat) /\ running \in Seq(Nat)
  /\ requestCh \in Seq(Nat) /\ requests \in Seq(Nat)

\* The path increases, up to the last number given out.
Order ==
  /\ Inc(responses) /\ Inc(responseCh) /\ Inc(running) /\ Inc(requestCh) /\ Inc(requests)
  /\ Less(E(responses), Rest)
  /\ Less(E(responseCh), E(running) \cup E(requestCh) \cup E(requests))
  /\ Less(E(running), E(requestCh) \cup E(requests))
  /\ Less(E(requestCh), E(requests))
  /\ \A n \in OnPath : n <= correlationID

\* A caller's request, or its response, is on the path; on a lost connection it may
\* be gone, and then so is every response after it.
Kept(c) ==
  \/ up /\ sent[c] \in OnPath
  \/ ~up /\ (sent[c] \in E(responses) \/ Less(E(responses), {sent[c]}))

Asking(c) == pc[c] \in {"sent", "wait"}

\* Callers have numbers of their own and wait for theirs or a later one.
CallersOK ==
  /\ \A c \in Callers : sent[c] <= correlationID
  /\ \A c \in Callers : pc[c] = "wait" => sent[c] <= id[c]
  /\ \A c \in Callers : pc[c] = "read" => id[c] = sent[c]
  /\ \A c, d \in Callers : c # d /\ Asking(c) /\ Asking(d) => sent[c] # sent[d]
  /\ \A c \in Callers : Asking(c) => Kept(c)

IInv == Types /\ Order /\ CallersOK

\* What the queues hold are numbers.
LEMMA PathTypes ==
  ASSUME Types
  PROVE  /\ E(responses) \subseteq Nat /\ E(responseCh) \subseteq Nat /\ E(running) \subseteq Nat
         /\ E(requestCh) \subseteq Nat /\ E(requests) \subseteq Nat
  BY Elements DEF Types

\* Nothing is on the path at first.
LEMMA InitIInv == Init => IInv
<1> SUFFICES ASSUME Init PROVE IInv
  OBVIOUS
<1>1. Types
  BY DEF Init, Types
<1>2. E(<<>>) = {} /\ Inc(<<>>)
  BY DEF E, Inc
<1>3. Order
  BY <1>2 DEF Init, Order, Rest, OnPath, Less
<1>4. CallersOK
  BY DEF Init, CallersOK, Asking
<1> QED
  BY <1>1, <1>3, <1>4 DEF IInv

\* A step that leaves the callers alone keeps them if it keeps the connection and
\* the path, or loses only what comes after the responses that are left.
LEMMA CallersKept ==
  ASSUME IInv, UNCHANGED <<correlationID, sent, id>>, up' \in BOOLEAN,
         \A c \in Callers : pc'[c] \in {pc[c], "idle"},
         \/ up' /\ up /\ OnPath' = OnPath
         \/ ~up' /\ E(responses)' \subseteq E(responses) /\ Less(E(responses)', OnPath \ E(responses)')
  PROVE  CallersOK'
<1>1. correlationID' = correlationID /\ sent' = sent /\ id' = id
  BY Zenon
<1>2. ASSUME NEW c \in Callers, Asking(c) PROVE Kept(c)'
  <2>0. Kept(c) /\ sent[c] \in Nat
    BY <1>2 DEF IInv, CallersOK, Types
  <2>1. CASE up' /\ up /\ OnPath' = OnPath
    BY <1>1, <2>0, <2>1 DEF Kept
  <2>2. CASE ~up' /\ E(responses)' \subseteq E(responses) /\ Less(E(responses)', OnPath \ E(responses)')
    <3>1. CASE sent[c] \in OnPath
      BY <1>1, <2>2, <3>1 DEF Kept, Less
    <3>2. CASE sent[c] \notin OnPath
      BY <1>1, <2>0, <2>2, <3>2 DEF Kept, Less, OnPath
    <3> QED
      BY <3>1, <3>2
  <2> QED
    BY <2>1, <2>2
<1>3. \A c \in Callers : /\ Asking(c)' => Asking(c)
                         /\ pc'[c] # "idle" => pc'[c] = pc[c]
  BY DEF Asking
<1> QED
  BY <1>1, <1>2, <1>3 DEF IInv, CallersOK

-----------------------------------------------------------------------------
\* The steps.

\* The head of one queue becomes the end of the next: HandleRequest.
LEMMA HandleRequestKeeps == IInv /\ HandleRequest => IInv'
<1> SUFFICES ASSUME IInv, HandleRequest PROVE IInv'
  OBVIOUS
<1>0. Types /\ Order
  BY DEF IInv
<1>1. /\ UNCHANGED <<callers, running, responseCh, up, responses>>
      /\ requests # <<>> /\ requestCh' = Append(requestCh, Head(requests)) /\ requests' = Tail(requests)
      /\ requests \in Seq(Nat) /\ requestCh \in Seq(Nat)
  BY <1>0 DEF HandleRequest, Types
<1> DEFINE h == Head(requests)
<1>2. /\ requests' \in Seq(Nat) /\ h \in Nat /\ E(requests) = {h} \cup E(requests)'
      /\ Inc(requests)' /\ Less({h}, E(requests)')
  BY <1>0, <1>1, TailInc, Zenon DEF Order
<1>3. Less(E(requestCh), {h})
  BY <1>0, <1>2 DEF Order, Less
<1>4. requestCh' \in Seq(Nat) /\ E(requestCh)' = E(requestCh) \cup {h} /\ Inc(requestCh)'
  BY <1>0, <1>1, <1>2, <1>3, AppendInc DEF Order
<1>5. E(responses)' = E(responses) /\ E(responseCh)' = E(responseCh) /\ E(running)' = E(running)
  BY <1>1
<1> HIDE DEF h
<1>6. Types'
  BY <1>0, <1>1, <1>2, <1>4 DEF Types, callers
<1>7. Rest' = Rest /\ OnPath' = OnPath
  BY <1>2, <1>4, <1>5 DEF Rest, OnPath
<1>8. Order'
  <2>1. Inc(responses)' /\ Inc(responseCh)' /\ Inc(running)' /\ Inc(requestCh)' /\ Inc(requests)'
    BY <1>0, <1>1, <1>2, <1>4 DEF Order
  <2>2. Less(E(responses)', Rest')
    BY <1>0, <1>5, <1>7 DEF Order
  <2>3. /\ Less(E(responseCh)', E(running)' \cup E(requestCh)' \cup E(requests)')
        /\ Less(E(running)', E(requestCh)' \cup E(requests)')
    BY <1>0, <1>2, <1>4, <1>5 DEF Order, Less
  <2>4. Less(E(requestCh)', E(requests)')
    BY <1>0, <1>2, <1>4 DEF Order, Less
  <2>5. \A n \in OnPath' : n <= correlationID'
    BY <1>0, <1>1, <1>7 DEF Order, callers
  <2> QED
    BY <2>1, <2>2, <2>3, <2>4, <2>5 DEF Order
<1>9. CallersOK'
  <2>1. Less(E(responses)', OnPath \ E(responses)')
    BY <1>0, <1>5 DEF Order, OnPath, Less
  <2> QED
    BY <1>0, <1>1, <1>5, <1>7, <2>1, CallersKept DEF Types, callers
<1> QED
  BY <1>6, <1>8, <1>9 DEF IInv

\* Broker.Run takes the head of requestCh.
LEMMA RunTakeKeeps == IInv /\ RunTake => IInv'
<1> SUFFICES ASSUME IInv, RunTake PROVE IInv'
  OBVIOUS
<1>0. Types /\ Order
  BY DEF IInv
<1>1. /\ UNCHANGED <<callers, responseCh, up, responses, requests>>
      /\ requestCh # <<>> /\ running = <<>> /\ running' = <<Head(requestCh)>> /\ requestCh' = Tail(requestCh)
      /\ requestCh \in Seq(Nat)
  BY <1>0 DEF RunTake, Types, network
<1> DEFINE h == Head(requestCh)
<1>2. /\ requestCh' \in Seq(Nat) /\ h \in Nat /\ E(requestCh) = {h} \cup E(requestCh)'
      /\ Inc(requestCh)' /\ Less({h}, E(requestCh)')
  BY <1>0, <1>1, TailInc, Zenon DEF Order
<1>4. running' \in Seq(Nat) /\ E(running)' = {h} /\ Inc(running)' /\ E(running) = {}
  BY <1>1, <1>2 DEF Inc, E
<1>5. E(responses)' = E(responses) /\ E(responseCh)' = E(responseCh) /\ E(requests)' = E(requests)
  BY <1>1
<1> HIDE DEF h
<1>6. Types'
  BY <1>0, <1>1, <1>2, <1>4 DEF Types, callers
<1>7. Rest' = Rest /\ OnPath' = OnPath
  BY <1>2, <1>4, <1>5 DEF Rest, OnPath
<1>8. Order'
  <2>1. Inc(responses)' /\ Inc(responseCh)' /\ Inc(running)' /\ Inc(requestCh)' /\ Inc(requests)'
    BY <1>0, <1>1, <1>2, <1>4 DEF Order
  <2>2. Less(E(responses)', Rest')
    BY <1>0, <1>5, <1>7 DEF Order
  <2>3. Less(E(responseCh)', E(running)' \cup E(requestCh)' \cup E(requests)')
    BY <1>0, <1>2, <1>4, <1>5 DEF Order, Less
  <2>4. Less(E(running)', E(requestCh)' \cup E(requests)') /\ Less(E(requestCh)', E(requests)')
    BY <1>0, <1>2, <1>4, <1>5, Zenon DEF Order, Less
  <2>5. \A n \in OnPath' : n <= correlationID'
    BY <1>0, <1>1, <1>7 DEF Order, callers
  <2> QED
    BY <2>1, <2>2, <2>3, <2>4, <2>5 DEF Order
<1>9. CallersOK'
  <2>1. Less(E(responses)', OnPath \ E(responses)')
    BY <1>0, <1>5 DEF Order, OnPath, Less
  <2> QED
    BY <1>0, <1>1, <1>5, <1>7, <2>1, CallersKept DEF Types, callers
<1> QED
  BY <1>6, <1>8, <1>9 DEF IInv

\* Broker.Run queues the response.
LEMMA RunReplyKeeps == IInv /\ RunReply => IInv'
<1> SUFFICES ASSUME IInv, RunReply PROVE IInv'
  OBVIOUS
<1>0. Types /\ Order
  BY DEF IInv
<1>1. /\ UNCHANGED <<callers, requestCh, up, responses, requests>>
      /\ responseCh' = responseCh \o running /\ running' = <<>>
      /\ responseCh \in Seq(Nat) /\ running \in Seq(Nat)
  BY <1>0 DEF RunReply, Types, network
<1>2. Inc(responseCh) /\ Inc(running) /\ Less(E(responseCh), E(running))
  BY <1>0 DEF Order, Less
<1>3. responseCh' \in Seq(Nat) /\ E(responseCh)' = E(responseCh) \cup E(running) /\ Inc(responseCh)'
  BY <1>1, <1>2, ConcatInc
<1>4. running' \in Seq(Nat) /\ E(running)' = {} /\ Inc(running)'
  BY <1>1 DEF Inc, E
<1>5. E(responses)' = E(responses) /\ E(requestCh)' = E(requestCh) /\ E(requests)' = E(requests)
  BY <1>1
<1>6. Types'
  BY <1>0, <1>1, <1>3, <1>4 DEF Types, callers
<1>7. Rest' = Rest /\ OnPath' = OnPath
  BY <1>3, <1>4, <1>5 DEF Rest, OnPath
<1>8. Order'
  <2>1. Inc(responses)' /\ Inc(responseCh)' /\ Inc(running)' /\ Inc(requestCh)' /\ Inc(requests)'
    BY <1>0, <1>1, <1>3, <1>4 DEF Order
  <2>2. Less(E(responses)', Rest')
    BY <1>0, <1>5, <1>7 DEF Order
  <2>3. Less(E(responseCh)', E(running)' \cup E(requestCh)' \cup E(requests)')
    BY <1>0, <1>3, <1>4, <1>5 DEF Order, Less
  <2>4. Less(E(running)', E(requestCh)' \cup E(requests)') /\ Less(E(requestCh)', E(requests)')
    BY <1>0, <1>4, <1>5 DEF Order, Less
  <2>5. \A n \in OnPath' : n <= correlationID'
    BY <1>0, <1>1, <1>7 DEF Order, callers
  <2> QED
    BY <2>1, <2>2, <2>3, <2>4, <2>5 DEF Order
<1>9. CallersOK'
  <2>1. Less(E(responses)', OnPath \ E(responses)')
    BY <1>0, <1>5 DEF Order, OnPath, Less
  <2> QED
    BY <1>0, <1>1, <1>5, <1>7, <2>1, CallersKept DEF Types, callers
<1> QED
  BY <1>6, <1>8, <1>9 DEF IInv

\* The response loop writes a response, or drops it when the connection is lost.
LEMMA HandleResponseKeeps == IInv /\ HandleResponse => IInv'
<1> SUFFICES ASSUME IInv, HandleResponse PROVE IInv'
  OBVIOUS
<1>0. Types /\ Order
  BY DEF IInv
<1>1. /\ UNCHANGED <<callers, requestCh, running, up, requests>>
      /\ responseCh # <<>> /\ responseCh' = Tail(responseCh)
      /\ responses' = IF up THEN Append(responses, Head(responseCh)) ELSE responses
      /\ responseCh \in Seq(Nat) /\ responses \in Seq(Nat) /\ up \in BOOLEAN
  BY <1>0 DEF HandleResponse, Types
<1> DEFINE h == Head(responseCh)
<1>2. /\ responseCh' \in Seq(Nat) /\ h \in Nat /\ E(responseCh) = {h} \cup E(responseCh)'
      /\ Inc(responseCh)' /\ Less({h}, E(responseCh)')
  BY <1>0, <1>1, TailInc, Zenon DEF Order
<1>3. Less(E(responses), {h})
  BY <1>0, <1>2 DEF Order, Less, Rest
<1>4. /\ responses' \in Seq(Nat) /\ Inc(responses)'
      /\ E(responses)' = IF up THEN E(responses) \cup {h} ELSE E(responses)
  <2>1. CASE up
    BY <1>0, <1>1, <1>2, <1>3, <2>1, AppendInc, Zenon DEF Order
  <2>2. CASE ~up
    BY <1>0, <1>1, <2>2 DEF Order
  <2> QED
    BY <1>1, <2>1, <2>2, Zenon
<1>5. E(requestCh)' = E(requestCh) /\ E(running)' = E(running) /\ E(requests)' = E(requests)
  BY <1>1
<1> HIDE DEF h
<1>6. Types'
  BY <1>0, <1>1, <1>2, <1>4 DEF Types, callers
<1>7. /\ Rest = {h} \cup Rest' /\ OnPath' \subseteq OnPath /\ (up => OnPath' = OnPath)
      /\ Less({h}, Rest')
  <2>1. Rest = {h} \cup Rest'
    BY <1>2, <1>5 DEF Rest
  <2>2. Less({h}, Rest')
    BY <1>0, <1>2, <1>5 DEF Order, Rest, Less
  <2>3. OnPath' \subseteq OnPath
    BY <1>4, <2>1 DEF OnPath
  <2>4. up => OnPath' = OnPath
    BY <1>4, <2>1 DEF OnPath
  <2> QED
    BY <2>1, <2>2, <2>3, <2>4
<1>8. Order'
  <2>1. Inc(responses)' /\ Inc(responseCh)' /\ Inc(running)' /\ Inc(requestCh)' /\ Inc(requests)'
    BY <1>0, <1>1, <1>2, <1>4 DEF Order
  <2>2. Less(E(responses)', Rest')
    <3>1. E(responses)' \subseteq E(responses) \cup {h}
      BY <1>4
    <3>2. Less(E(responses), Rest')
      BY <1>0, <1>7 DEF Order, Less
    <3> QED
      BY <1>7, <3>1, <3>2 DEF Less
  <2>3. Less(E(responseCh)', E(running)' \cup E(requestCh)' \cup E(requests)')
    BY <1>0, <1>2, <1>5 DEF Order, Less
  <2>4. Less(E(running)', E(requestCh)' \cup E(requests)') /\ Less(E(requestCh)', E(requests)')
    BY <1>0, <1>5 DEF Order
  <2>5. \A n \in OnPath' : n <= correlationID'
    BY <1>0, <1>1, <1>7 DEF Order, callers
  <2> QED
    BY <2>1, <2>2, <2>3, <2>4, <2>5 DEF Order
<1>9. CallersOK'
  <2>1. CASE up
    BY <1>0, <1>1, <1>7, <2>1, CallersKept DEF Types, callers
  <2>2. CASE ~up
    <3>1. E(responses)' = E(responses)
      BY <1>4, <2>2
    <3>2. Less(E(responses)', OnPath \ E(responses)')
      BY <1>0, <3>1 DEF Order, OnPath, Less
    <3> QED
      BY <1>0, <1>1, <2>2, <3>1, <3>2, CallersKept DEF Types, callers
  <2> QED
    BY <2>1, <2>2
<1> QED
  BY <1>6, <1>8, <1>9 DEF IInv

\* The connection is lost, perhaps with all that the server holds.
LEMMA LostKeeps ==
  ASSUME IInv, UNCHANGED <<correlationID, sent, id>>, ~up', up' \in BOOLEAN,
         pc' \in [Callers -> {"idle", "sent", "wait", "read"}],
         \A c \in Callers : pc'[c] \in {pc[c], "idle"},
         NEW n \in 0 .. Len(responses), responses' = SubSeq(responses, 1, n),
         \/ UNCHANGED queues /\ \E k \in 0 .. Len(requests) : requests' = SubSeq(requests, 1, k)
         \/ responseCh' = <<>> /\ running' = <<>> /\ requestCh' = <<>> /\ requests' = <<>>
  PROVE  IInv'
<1>0. /\ Types /\ Order
      /\ responses \in Seq(Nat) /\ requests \in Seq(Nat)
  BY DEF IInv, Types
<1>1. /\ responses' \in Seq(Nat) /\ E(responses)' \subseteq E(responses) /\ Inc(responses)'
      /\ Less(E(responses)', E(responses) \ E(responses)')
  BY <1>0, PrefixInc, Zenon DEF Order
<1>2. /\ responseCh' \in Seq(Nat) /\ running' \in Seq(Nat) /\ requestCh' \in Seq(Nat) /\ requests' \in Seq(Nat)
      /\ E(responseCh)' \subseteq E(responseCh) /\ E(running)' \subseteq E(running)
      /\ E(requestCh)' \subseteq E(requestCh) /\ E(requests)' \subseteq E(requests)
      /\ Inc(responseCh)' /\ Inc(running)' /\ Inc(requestCh)' /\ Inc(requests)'
  <2>1. CASE UNCHANGED queues /\ \E k \in 0 .. Len(requests) : requests' = SubSeq(requests, 1, k)
    <3>1. requests' \in Seq(Nat) /\ E(requests)' \subseteq E(requests) /\ Inc(requests)'
      BY <1>0, <2>1, PrefixInc, Zenon DEF Order
    <3> QED
      BY <1>0, <2>1, <3>1 DEF Order, Types, queues
  <2>2. CASE responseCh' = <<>> /\ running' = <<>> /\ requestCh' = <<>> /\ requests' = <<>>
    <3>1. <<>> \in Seq(Nat) /\ E(<<>>) = {} /\ Inc(<<>>)
      BY DEF E, Inc
    <3> QED
      BY <2>2, <3>1
  <2> QED
    BY <2>1, <2>2, Zenon
<1>3. Types'
  BY <1>0, <1>1, <1>2 DEF Types
<1>4. Rest' \subseteq Rest /\ OnPath' \subseteq OnPath
  BY <1>1, <1>2 DEF Rest, OnPath
<1>5. Order'
  <2>1. Less(E(responses)', Rest')
    BY <1>0, <1>1, <1>4 DEF Order, Less
  <2>2. Less(E(responseCh)', E(running)' \cup E(requestCh)' \cup E(requests)')
    BY <1>0, <1>2 DEF Order, Less
  <2>3. Less(E(running)', E(requestCh)' \cup E(requests)') /\ Less(E(requestCh)', E(requests)')
    BY <1>0, <1>2 DEF Order, Less
  <2>4. \A m \in OnPath' : m <= correlationID'
    BY <1>0, <1>4 DEF Order
  <2> QED
    BY <1>1, <1>2, <2>1, <2>2, <2>3, <2>4 DEF Order
<1>6. CallersOK'
  <2>1. Less(E(responses)', OnPath \ E(responses)')
    BY <1>0, <1>1 DEF Order, OnPath, Less
  <2> QED
    BY <1>1, <2>1, CallersKept
<1> QED
  BY <1>3, <1>5, <1>6 DEF IInv

\* doRequest gives its caller a number greater than all others.
LEMMA DoRequestKeeps ==
  ASSUME IInv, NEW c \in Callers, DoRequest(c)
  PROVE  IInv'
<1> DEFINE n == correlationID + 1
<1>0. Types /\ Order /\ CallersOK
  BY DEF IInv
<1>1. /\ UNCHANGED <<id, queues, up, responses>>
      /\ n \in Nat /\ correlationID' = n /\ correlationID < n
      /\ sent' = [sent EXCEPT ![c] = n] /\ pc' = [pc EXCEPT ![c] = "sent"] /\ pc[c] = "idle"
      /\ requests' = IF up THEN Append(requests, n) ELSE requests
      /\ requests \in Seq(Nat) /\ up \in BOOLEAN /\ correlationID \in Nat
  BY <1>0 DEF DoRequest, Types, server
<1> HIDE DEF n
<1>2. \A m \in OnPath : m \in Nat /\ m <= correlationID /\ m < n
  BY <1>0, <1>1, PathTypes DEF Order, OnPath, Rest
<1>3. Less(E(requests), {n})
  BY <1>2 DEF Less, OnPath, Rest
<1>4. /\ requests' \in Seq(Nat) /\ Inc(requests)'
      /\ E(requests)' = IF up THEN E(requests) \cup {n} ELSE E(requests)
  <2>1. CASE up
    BY <1>0, <1>1, <1>3, <2>1, AppendInc, Zenon DEF Order
  <2>2. CASE ~up
    BY <1>0, <1>1, <2>2 DEF Order
  <2> QED
    BY <1>1, <2>1, <2>2
<1>5. /\ responses' = responses /\ responseCh' = responseCh /\ running' = running /\ requestCh' = requestCh
      /\ E(responses)' = E(responses) /\ E(responseCh)' = E(responseCh)
      /\ E(running)' = E(running) /\ E(requestCh)' = E(requestCh)
  BY <1>1 DEF queues
<1>6. Types'
  BY <1>0, <1>1, <1>4, <1>5 DEF Types
<1>7. /\ OnPath' \subseteq OnPath \cup {n} /\ OnPath \subseteq OnPath'
      /\ Rest' \subseteq Rest \cup {n} /\ (up => n \in OnPath')
  BY <1>4, <1>5 DEF OnPath, Rest
<1>8. Order'
  <2>1. /\ Less(E(responses)', Rest')
    BY <1>0, <1>2, <1>5, <1>7 DEF Order, Less, OnPath
  <2>2. E(requests)' \subseteq E(requests) \cup {n}
    BY <1>4
  <2>3. Less(E(responseCh)', E(running)' \cup E(requestCh)' \cup E(requests)')
    BY <1>0, <1>2, <1>5, <2>2, Zenon DEF Order, Less, OnPath, Rest
  <2>4. Less(E(running)', E(requestCh)' \cup E(requests)') /\ Less(E(requestCh)', E(requests)')
    BY <1>0, <1>2, <1>5, <2>2 DEF Order, Less, OnPath, Rest
  <2>5. \A m \in OnPath' : m <= correlationID'
    BY <1>1, <1>2, <1>7
  <2>6. Inc(responses)' /\ Inc(responseCh)' /\ Inc(running)' /\ Inc(requestCh)'
    BY <1>0, <1>5, Zenon DEF Order
  <2> QED
    BY <1>4, <2>1, <2>3, <2>4, <2>5, <2>6 DEF Order
<1>9. CallersOK'
  <2>1. sent'[c] = n /\ pc'[c] = "sent" /\ \A d \in Callers \ {c} : sent'[d] = sent[d] /\ pc'[d] = pc[d]
    BY <1>0, <1>1 DEF Types
  <2>2. \A d \in Callers : sent[d] \in Nat /\ sent[d] < n
    BY <1>0, <1>1 DEF CallersOK, Types
  <2>3. \A d \in Callers : sent'[d] <= correlationID'
    BY <1>1, <2>1, <2>2
  <2>4. \A d \in Callers : /\ pc'[d] = "wait" => sent'[d] <= id'[d]
                           /\ pc'[d] = "read" => id'[d] = sent'[d]
    BY <1>0, <1>1, <2>1 DEF CallersOK
  <2>5. \A d, e \in Callers : d # e /\ Asking(d)' /\ Asking(e)' => sent'[d] # sent'[e]
    BY <1>0, <2>1, <2>2 DEF CallersOK, Asking
  <2>6. ASSUME NEW d \in Callers, Asking(d)' PROVE Kept(d)'
    <3>1. CASE d = c
      <4>1. ~up => Less(E(responses)', {n})
        BY <1>2, <1>5 DEF Less, OnPath
      <4> QED
        BY <1>1, <1>7, <2>1, <3>1, <4>1, Zenon DEF Kept
    <3>2. CASE d # c
      <4>1. Kept(d) /\ sent'[d] = sent[d]
        BY <1>0, <2>1, <2>6, <3>2 DEF CallersOK, Asking
      <4> QED
        BY <1>1, <1>5, <1>7, <4>1, Zenon DEF Kept
    <3> QED
      BY <3>1, <3>2
  <2> QED
    BY <2>3, <2>4, <2>5, <2>6 DEF CallersOK
<1> QED
  BY <1>6, <1>8, <1>9 DEF IInv

\* A step that touches neither the path nor the connection.
LEMMA PathSame ==
  ASSUME IInv, UNCHANGED <<correlationID, queues, up, requests, responses>>
  PROVE  /\ OnPath' = OnPath /\ Order' /\ \A c \in Callers : sent' = sent => (Kept(c)' <=> Kept(c))
<1>1. /\ responses' = responses /\ responseCh' = responseCh /\ running' = running /\ requestCh' = requestCh
      /\ requests' = requests /\ up' = up /\ correlationID' = correlationID
  BY DEF queues
<1>2. Rest' = Rest /\ OnPath' = OnPath
  BY <1>1 DEF Rest, OnPath
<1>3. Order'
  BY <1>1, <1>2 DEF IInv, Order
<1> QED
  BY <1>1, <1>2, <1>3 DEF Kept

\* doRequest returns the last number there is, never one below the caller's own.
LEMMA ReturnIDKeeps ==
  ASSUME IInv, NEW c \in Callers, ReturnID(c)
  PROVE  IInv'
<1>0. Types /\ CallersOK
  BY DEF IInv
<1>1. /\ UNCHANGED <<correlationID, sent, queues, up, requests, responses>>
      /\ id' = [id EXCEPT ![c] = correlationID] /\ pc' = [pc EXCEPT ![c] = "wait"] /\ pc[c] = "sent"
  BY DEF ReturnID, server, network
<1>2. Order' /\ \A d \in Callers : Kept(d)' <=> Kept(d)
  BY <1>1, PathSame
<1>3. Types'
  BY <1>0, <1>1 DEF Types, queues
<1>4. /\ pc'[c] = "wait" /\ id'[c] = correlationID
      /\ \A d \in Callers \ {c} : pc'[d] = pc[d] /\ id'[d] = id[d]
  BY <1>0, <1>1 DEF Types
<1>5. \A d \in Callers : Asking(d)' <=> Asking(d)
  BY <1>1, <1>4 DEF Asking
<1>6. CallersOK'
  BY <1>0, <1>1, <1>2, <1>4, <1>5 DEF CallersOK
<1> QED
  BY <1>2, <1>3, <1>6 DEF IInv

\* A caller that finds the number it waits for at the head finds its own: nothing
\* on the path is less than the head, and the number waited for is not less than
\* the caller's own.
LEMMA WaitResponseKeeps ==
  ASSUME IInv, NEW c \in Callers, WaitResponse(c)
  PROVE  IInv'
<1> DEFINE h == Head(responses)
<1>0. Types /\ Order /\ CallersOK
  BY DEF IInv
<1>1. /\ UNCHANGED <<correlationID, sent, id, queues, up, requests>>
      /\ responses # <<>> /\ h = id[c] /\ responses' = Tail(responses)
      /\ pc' = [pc EXCEPT ![c] = "read"] /\ pc[c] = "wait" /\ responses \in Seq(Nat)
  BY <1>0 DEF WaitResponse, server, Types
<1>2. /\ responses' \in Seq(Nat) /\ h \in Nat /\ E(responses) = {h} \cup E(responses)'
      /\ Inc(responses)' /\ Less({h}, E(responses)')
  BY <1>0, <1>1, TailInc, Zenon DEF Order
<1> HIDE DEF h
<1>3. /\ responseCh' = responseCh /\ running' = running /\ requestCh' = requestCh /\ requests' = requests
      /\ Rest' = Rest
  BY <1>1 DEF queues, Rest
<1>4. Types'
  BY <1>0, <1>1, <1>2, <1>3 DEF Types
<1>5. OnPath = {h} \cup OnPath'
  BY <1>2, <1>3, Zenon DEF OnPath
<1>6. Order'
  <2>1. Less(E(responses)', Rest')
    BY <1>0, <1>2, <1>3 DEF Order, Less
  <2>2. \A n \in OnPath' : n <= correlationID'
    BY <1>0, <1>1, <1>5 DEF Order
  <2> QED
    BY <1>0, <1>2, <1>3, <2>1, <2>2 DEF Order
<1>7. sent[c] = h
  <2>1. sent[c] \in Nat /\ sent[c] <= h /\ Kept(c)
    BY <1>0, <1>1 DEF CallersOK, Asking, Types
  <2>2. \A n \in OnPath : n = h \/ h < n
    BY <1>0, <1>2 DEF Order, Less, OnPath
  <2>3. CASE sent[c] \in OnPath
    BY <1>2, <2>1, <2>2, <2>3
  <2>4. CASE sent[c] \notin OnPath
    <3>1. h < sent[c]
      BY <1>2, <2>1, <2>4 DEF Kept, Less, OnPath
    <3> QED
      BY <1>2, <2>1, <3>1
  <2> QED
    BY <2>3, <2>4
<1>8. pc'[c] = "read" /\ \A d \in Callers \ {c} : pc'[d] = pc[d]
  BY <1>0, <1>1, Zenon DEF Types
<1>9. CallersOK'
  <2>1. \A d \in Callers : Asking(d)' => Asking(d) /\ d # c
    BY <1>8, Zenon DEF Asking
  <2>2. ASSUME NEW d \in Callers, Asking(d)' PROVE Kept(d)'
    <3>1. Kept(d) /\ sent[d] # h
      BY <1>0, <1>1, <1>7, <2>1, <2>2, Zenon DEF CallersOK, Asking
    <3> QED
      BY <1>1, <1>2, <1>5, <3>1, Zenon DEF Kept, Less
  <2>3. \A d \in Callers : /\ pc'[d] = "wait" => sent'[d] <= id'[d]
                           /\ pc'[d] = "read" => id'[d] = sent'[d]
    BY <1>0, <1>1, <1>7, <1>8 DEF CallersOK
  <2> QED
    BY <1>0, <1>1, <2>1, <2>2, <2>3, Zenon DEF CallersOK
<1> QED
  BY <1>4, <1>6, <1>9 DEF IInv

\* Steps of the callers and of the broker that touch nothing the invariant is about.
LEMMA RestKeeps ==
  ASSUME IInv, UNCHANGED <<correlationID, sent, id, queues, up, requests, responses>>,
         pc' \in [Callers -> {"idle", "sent", "wait", "read"}],
         \A c \in Callers : pc'[c] \in {pc[c], "idle"}
  PROVE  IInv'
<1>1. OnPath' = OnPath /\ Order' /\ \A c \in Callers : Kept(c)' <=> Kept(c)
  BY PathSame
<1>2. Types'
  BY DEF IInv, Types, queues
<1>3. \A c \in Callers : Asking(c)' => Asking(c) /\ pc'[c] = pc[c]
  BY Zenon DEF Asking
<1>4. CallersOK'
  BY <1>1, <1>3 DEF IInv, CallersOK
<1> QED
  BY <1>1, <1>2, <1>4 DEF IInv

\* A lost connection.
LEMMA LoseKeeps ==
  ASSUME IInv, Lose, UNCHANGED <<correlationID, sent, id, queues>>,
         pc' \in [Callers -> {"idle", "sent", "wait", "read"}],
         \A c \in Callers : pc'[c] \in {pc[c], "idle"}
  PROVE  IInv'
<1>1. PICK n \in 0 .. Len(responses) : responses' = SubSeq(responses, 1, n)
  BY DEF Lose
<1>2. ~up' /\ up' \in BOOLEAN /\ \E k \in 0 .. Len(requests) : requests' = SubSeq(requests, 1, k)
  BY Zenon DEF Lose
<1> QED
  BY <1>1, <1>2, LostKeeps

\* A panic.
LEMMA PanicKeeps ==
  ASSUME IInv, Panic, UNCHANGED callers
  PROVE  IInv'
<1>1. PICK n \in 0 .. Len(responses) : responses' = SubSeq(responses, 1, n)
  BY DEF Panic
<1>2. ~up' /\ up' \in BOOLEAN /\ responseCh' = <<>> /\ running' = <<>> /\ requestCh' = <<>> /\ requests' = <<>>
  BY Zenon DEF Panic
<1>3. /\ UNCHANGED <<correlationID, sent, id>> /\ pc' \in [Callers -> {"idle", "sent", "wait", "read"}]
      /\ \A c \in Callers : pc'[c] \in {pc[c], "idle"}
  BY DEF callers, IInv, Types
<1> QED
  BY <1>1, <1>2, <1>3, LostKeeps

\* Every step keeps the invariant.
LEMMA NextKeeps == IInv /\ [Next]_vars => IInv'
<1> SUFFICES ASSUME IInv, [Next]_vars PROVE IInv'
  OBVIOUS
<1>0. pc \in [Callers -> {"idle", "sent", "wait", "read"}]
  BY DEF IInv, Types
<1>1. ASSUME NEW c \in Callers, DoRequest(c) PROVE IInv'
  BY <1>1, DoRequestKeeps
<1>2. ASSUME NEW c \in Callers, ReturnID(c) PROVE IInv'
  BY <1>2, ReturnIDKeeps
<1>3. ASSUME NEW c \in Callers, WaitResponse(c) PROVE IInv'
  BY <1>3, WaitResponseKeeps
<1>4. ASSUME NEW c \in Callers, ReadResponse(c) PROVE IInv'
  <2>1. /\ pc' \in [Callers -> {"idle", "sent", "wait", "read"}]
        /\ \A d \in Callers : pc'[d] \in {pc[d], "idle"}
        /\ UNCHANGED <<correlationID, sent, id, queues>>
    BY <1>0, <1>4 DEF ReadResponse, server
  <2>2. CASE Lose
    BY <2>1, <2>2, LoseKeeps
  <2>3. CASE UNCHANGED network
    BY <2>1, <2>3, RestKeeps DEF network
  <2> QED
    BY <1>4, <2>2, <2>3 DEF ReadResponse
<1>5. CASE HandleRequest
  BY <1>5, HandleRequestKeeps
<1>6. CASE HandleCut
  BY <1>6, PanicKeeps DEF HandleCut
<1>7. CASE RunTake
  BY <1>7, RunTakeKeeps
<1>8. CASE RunHandle \/ RunTimeout \/ RunNoWait \/ \E i \in IDs : BehindReturns(i)
  <2>1. UNCHANGED <<callers, queues, network>>
    BY <1>8 DEF RunHandle, RunTimeout, RunNoWait, BehindReturns
  <2> QED
    BY <1>0, <2>1, RestKeeps DEF callers, network
<1>9. CASE RunReply
  BY <1>9, RunReplyKeeps
<1>10. ASSUME NEW i \in IDs, LateReturns(i) PROVE IInv'
  BY <1>10, PanicKeeps DEF LateReturns
<1>11. CASE HandleResponse
  BY <1>11, HandleResponseKeeps
<1>12. CASE Break
  BY <1>0, <1>12, LoseKeeps DEF Break, callers, server
<1>13. CASE UNCHANGED vars
  BY <1>0, <1>13, RestKeeps DEF vars, callers, server, network
<1> QED
  BY <1>1, <1>2, <1>3, <1>4, <1>5, <1>6, <1>7, <1>8, <1>9, <1>10, <1>11, <1>12, <1>13 DEF Next

\* The invariant holds throughout.
LEMMA Invariant == Spec => []IInv
  BY InitIInv, NextKeeps, PTL DEF Spec

-----------------------------------------------------------------------------
\* The theorems.

\* The path as one sequence.
LEMMA PathInc ==
  ASSUME IInv
  PROVE  Path \in Seq(Nat) /\ Inc(Path) /\ E(Path) = OnPath
<1> DEFINE p1 == responses \o responseCh
           p2 == p1 \o running
           p3 == p2 \o requestCh
           p4 == p3 \o requests
<1>0. Types /\ Order
  BY Zenon DEF IInv
<1>1. p1 \in Seq(Nat) /\ E(p1) = E(responses) \cup E(responseCh) /\ Inc(p1)
  <2>1. Less(E(responses), E(responseCh))
    BY <1>0 DEF Order, Less, Rest
  <2> QED
    BY <1>0, <2>1, ConcatInc DEF Types, Order
<1> HIDE DEF p1
<1>2. p2 \in Seq(Nat) /\ E(p2) = E(p1) \cup E(running) /\ Inc(p2)
  <2>1. Less(E(p1), E(running))
    BY <1>0, <1>1 DEF Order, Less, Rest
  <2> QED
    BY <1>0, <1>1, <2>1, ConcatInc, Zenon DEF Types, Order
<1> HIDE DEF p2
<1>3. p3 \in Seq(Nat) /\ E(p3) = E(p2) \cup E(requestCh) /\ Inc(p3)
  <2>1. Less(E(p2), E(requestCh))
    BY <1>0, <1>1, <1>2 DEF Order, Less, Rest
  <2> QED
    BY <1>0, <1>2, <2>1, ConcatInc, Zenon DEF Types, Order
<1> HIDE DEF p3
<1>4. p4 \in Seq(Nat) /\ E(p4) = E(p3) \cup E(requests) /\ Inc(p4)
  <2>1. Less(E(p3), E(requests))
    BY <1>0, <1>1, <1>2, <1>3 DEF Order, Less, Rest
  <2> QED
    BY <1>0, <1>3, <2>1, ConcatInc, Zenon DEF Types, Order
<1>5. E(p4) = OnPath
  BY <1>1, <1>2, <1>3, <1>4 DEF OnPath, Rest
<1>6. Path = p4
  BY DEF Path, p1, p2, p3
<1> QED
  BY <1>4, <1>5, <1>6

\* The requests of a connection are answered in the order doRequest numbered them,
\* whatever the capacity of requestCh and responseCh and wherever it is lost.
THEOREM AnswersInOrder == Spec => []AnsweredInOrder
<1>1. IInv => AnsweredInOrder
  <2> SUFFICES ASSUME IInv PROVE AnsweredInOrder
    OBVIOUS
  <2>1. Path \in Seq(Nat) /\ Inc(Path)
    BY PathInc
  <2>2. DOMAIN Path = 1 .. Len(Path)
    BY <2>1
  <2> QED
    BY <2>1, <2>2 DEF AnsweredInOrder, Inc
<1> QED
  BY <1>1, Invariant, PTL

\* No caller of a Conn reads another caller's response, however many share it: the
\* correlation ID doRequest returns without its lock is only ever too high.
THEOREM ResponsesAreOwn == Spec => []OwnResponse
<1>1. IInv => OwnResponse
  BY Zenon DEF IInv, CallersOK, OwnResponse
<1> QED
  BY <1>1, Invariant, PTL

\* While a connection is up no request of a waiting caller, nor its response, is lost
\* between the Conn, the server's channels and Broker.Run.
THEOREM NothingIsLost == Spec => []NothingLost
<1>1. IInv => NothingLost
  <2> SUFFICES ASSUME IInv, NEW c \in Callers, up, pc[c] \in {"sent", "wait"}
               PROVE  \E i \in DOMAIN Path : Path[i] = sent[c]
    BY DEF NothingLost
  <2>1. Path \in Seq(Nat) /\ E(Path) = OnPath
    BY PathInc
  <2>2. DOMAIN Path = 1 .. Len(Path)
    BY <2>1
  <2>3. sent[c] \in E(Path)
    BY <2>1 DEF IInv, CallersOK, Asking, Kept
  <2> QED
    BY <2>2, <2>3 DEF E
<1> QED
  BY <1>1, Invariant, PTL

-----------------------------------------------------------------------------
\* Effects and answers.

\* The requests Broker.Run has got to the end of: handled, or not waited for.
Started == E(effects) \cup unwaited

\* Only elements of U come after greater ones.
Overtaken(s, U) == \A i, j \in 1 .. Len(s) : i < j /\ s[i] > s[j] => s[j] \in U

EffectTypes ==
  /\ effects \in Seq(Nat) /\ unwaited \subseteq Nat
  /\ late \subseteq unwaited /\ behind \subseteq unwaited
  /\ Len(running) <= 1

\* Run gets to one request after the other, in their order, and answers those it
\* is through with.
EffectOrder ==
  /\ \A x \in Started : x <= correlationID
  /\ \A x \in Started, y \in E(running) : x <= y
  /\ Less(Started, E(requestCh) \cup E(requests))
  /\ E(responses) \cup E(responseCh) \subseteq Started
  /\ Overtaken(effects, unwaited)

EInv == EffectTypes /\ EffectOrder

\* One more effect: of the latest request so far, or of one nobody waited for.
LEMMA AppendOvertaken ==
  ASSUME NEW s \in Seq(Nat), NEW n \in Nat, NEW U, Overtaken(s, U),
         n \in U \/ \A x \in E(s) : x <= n
  PROVE  Overtaken(Append(s, n), U)
<1> DEFINE t == Append(s, n)
<1>1. /\ Len(s) \in Nat /\ Len(t) = Len(s) + 1 /\ t[Len(s) + 1] = n
      /\ \A i \in 1 .. Len(s) : t[i] = s[i] /\ s[i] \in Nat
  OBVIOUS
<1> HIDE DEF t
<1> SUFFICES ASSUME NEW i \in 1 .. Len(t), NEW j \in 1 .. Len(t), i < j, t[i] > t[j]
             PROVE  t[j] \in U
  BY DEF Overtaken, t
<1>2. Len(s) \in Nat /\ i \in 1 .. Len(s) + 1 /\ j \in 1 .. Len(s) + 1
  BY <1>1
<1>3. i \in 1 .. Len(s)
  BY <1>2
<1>4. CASE j = Len(s) + 1
  <2>1. t[j] = n /\ t[i] = s[i] /\ s[i] \in E(s) /\ s[i] \in Nat
    BY <1>1, <1>3, <1>4 DEF E
  <2>2. ~(s[i] <= n)
    BY <2>1
  <2> QED
    BY <2>1, <2>2
<1>5. CASE j # Len(s) + 1
  <2>1. j \in 1 .. Len(s)
    BY <1>2, <1>5
  <2>2. t[j] = s[j] /\ t[i] = s[i]
    BY <1>1, <1>3, <2>1
  <2> QED
    BY <1>3, <2>1, <2>2 DEF Overtaken
<1> QED
  BY <1>4, <1>5

\* More requests nobody waits for.
LEMMA OvertakenMore ==
  ASSUME NEW s, NEW U, NEW V, U \subseteq V, Overtaken(s, U)
  PROVE  Overtaken(s, V)
  BY DEF Overtaken

\* Nothing has been handled at first.
LEMMA EffectsInit == Init => EInv
<1> SUFFICES ASSUME Init PROVE EInv
  OBVIOUS
<1>1. E(<<>>) = {} /\ Overtaken(<<>>, {}) /\ Len(<<>>) = 0 /\ <<>> \in Seq(Nat)
  BY DEF E, Overtaken
<1> QED
  BY <1>1 DEF Init, EInv, EffectTypes, EffectOrder, Started, Less

\* A step of the queues that brings nothing new to Run but numbers not given out
\* before, and answers nothing Run is not through with.
LEMMA QueuesKeepEffects ==
  ASSUME IInv, EInv, UNCHANGED <<effects, unwaited>>,
         late' \subseteq late, behind' \subseteq behind, Len(running)' <= 1,
         correlationID' \in Nat, correlationID <= correlationID',
         E(running)' \subseteq E(running) \cup E(requestCh),
         \A x \in E(requestCh)' \cup E(requests)' :
            x \in E(requestCh) \cup E(requests) \/ (x \in Nat /\ correlationID < x),
         E(responses)' \cup E(responseCh)' \subseteq Started
  PROVE  EInv'
<1>0. /\ effects' = effects /\ unwaited' = unwaited /\ Started' = Started /\ Started \subseteq Nat
      /\ EffectTypes /\ EffectOrder /\ correlationID \in Nat
  BY Elements, Zenon DEF Started, EInv, EffectTypes, IInv, Types
<1>1. EffectTypes'
  BY <1>0 DEF EffectTypes
<1>2. \A x \in Started' : x <= correlationID'
  BY <1>0 DEF EffectOrder
<1>3. \A x \in Started', y \in E(running)' : x <= y
  <2> SUFFICES ASSUME NEW x \in Started, NEW y \in E(running)' PROVE x <= y
    BY <1>0
  <2>1. CASE y \in E(running)
    BY <1>0, <2>1 DEF EffectOrder
  <2>2. CASE y \in E(requestCh)
    <3>1. x < y /\ x \in Nat /\ y \in Nat
      BY <1>0, <2>2, PathTypes DEF EffectOrder, Less, IInv
    <3> QED
      BY <3>1
  <2> QED
    BY <2>1, <2>2
<1>4. Less(Started', E(requestCh)' \cup E(requests)')
  <2> SUFFICES ASSUME NEW x \in Started, NEW y \in E(requestCh)' \cup E(requests)' PROVE x < y
    BY <1>0 DEF Less
  <2>1. CASE y \in E(requestCh) \cup E(requests)
    BY <1>0, <2>1, Zenon DEF EffectOrder, Less
  <2>2. CASE y \in Nat /\ correlationID < y
    <3>1. x <= correlationID /\ x \in Nat
      BY <1>0, Zenon DEF EffectOrder
    <3> QED
      BY <1>0, <2>2, <3>1
  <2> QED
    BY <2>1, <2>2
<1> QED
  BY <1>0, <1>1, <1>2, <1>3, <1>4 DEF EInv, EffectOrder

\* doRequest sends a number not given out before.
LEMMA DoRequestEffects ==
  ASSUME IInv, EInv, NEW c \in Callers, DoRequest(c)
  PROVE  EInv'
<1> DEFINE n == correlationID + 1
<1>1. /\ UNCHANGED <<queues, handlers, responses>> /\ correlationID' = n
      /\ requests' = IF up THEN Append(requests, n) ELSE requests
  BY DEF DoRequest, server
<1>2. n \in Nat /\ correlationID < n /\ correlationID <= n /\ requests \in Seq(Nat)
  BY DEF IInv, Types
<1> HIDE DEF n
<1>3. E(requests)' \subseteq E(requests) \cup {n}
  <2>1. E(Append(requests, n)) = E(requests) \cup {n}
    BY <1>2, AppendInc, Zenon
  <2> QED
    BY <1>1, <2>1, Zenon
<1>4. /\ E(running)' = E(running) /\ E(requestCh)' = E(requestCh) /\ Len(running)' <= 1
      /\ E(responses)' = E(responses) /\ E(responseCh)' = E(responseCh)
      /\ UNCHANGED <<effects, unwaited, late, behind>>
  BY <1>1 DEF queues, handlers, EInv, EffectTypes
<1>5. E(responses) \cup E(responseCh) \subseteq Started
  BY DEF EInv, EffectOrder
<1>6. \A x \in E(requestCh)' \cup E(requests)' :
         x \in E(requestCh) \cup E(requests) \/ (x \in Nat /\ correlationID < x)
  BY <1>2, <1>3, <1>4, Zenon
<1> QED
  BY <1>1, <1>2, <1>4, <1>5, <1>6, QueuesKeepEffects

\* A step that leaves Run and the requests alone and takes from the responses.
LEMMA FewerKeepEffects ==
  ASSUME IInv, EInv, UNCHANGED <<correlationID, effects, unwaited>>,
         late' \subseteq late, behind' \subseteq behind, Len(running)' <= 1,
         E(running)' \subseteq E(running), E(requestCh)' \subseteq E(requestCh),
         E(requests)' \subseteq E(requests), E(responses)' \subseteq E(responses),
         E(responseCh)' \subseteq E(responseCh)
  PROVE  EInv'
<1>1. correlationID' \in Nat /\ correlationID <= correlationID'
  BY DEF IInv, Types
<1>2. E(responses) \cup E(responseCh) \subseteq Started
  BY DEF EInv, EffectOrder
<1> QED
  BY <1>1, <1>2, QueuesKeepEffects, Zenon

\* A connection that breaks leaves beginnings of the requests and of the responses
\* that were on their way.
LEMMA LoseFewer ==
  ASSUME IInv, Lose
  PROVE  E(requests)' \subseteq E(requests) /\ E(responses)' \subseteq E(responses)
<1>1. PICK n \in 0 .. Len(responses) : responses' = SubSeq(responses, 1, n)
  BY DEF Lose
<1>2. PICK k \in 0 .. Len(requests) : requests' = SubSeq(requests, 1, k)
  BY DEF Lose
<1>3. responses \in Seq(Nat) /\ requests \in Seq(Nat)
  BY DEF IInv, Types
<1> QED
  BY <1>1, <1>2, <1>3, PrefixInc, Zenon

\* A panic leaves a beginning of the responses.
LEMMA PanicFewer ==
  ASSUME IInv, Panic
  PROVE  /\ E(running)' = {} /\ E(requestCh)' = {} /\ E(requests)' = {} /\ E(responseCh)' = {}
         /\ E(responses)' \subseteq E(responses) /\ Len(running)' <= 1 /\ late' = {} /\ behind' = {}
<1>1. PICK n \in 0 .. Len(responses) : responses' = SubSeq(responses, 1, n)
  BY DEF Panic
<1>2. responses \in Seq(Nat)
  BY DEF IInv, Types
<1>3. E(responses)' \subseteq E(responses)
  BY <1>1, <1>2, PrefixInc, Zenon
<1>4. /\ running' = <<>> /\ requestCh' = <<>> /\ requests' = <<>> /\ responseCh' = <<>>
      /\ late' = {} /\ behind' = {}
  BY DEF Panic
<1>5. E(<<>>) = {} /\ Len(<<>>) <= 1
  BY DEF E
<1> QED
  BY <1>3, <1>4, <1>5, Zenon

\* handleRequest and Run pass requests on in their order.
LEMMA RequestsKeepEffects == IInv /\ EInv /\ (HandleRequest \/ RunTake) => EInv'
<1> SUFFICES ASSUME IInv, EInv, HandleRequest \/ RunTake PROVE EInv'
  OBVIOUS
<1>0. /\ correlationID' \in Nat /\ correlationID <= correlationID' /\ correlationID' = correlationID
      /\ requests \in Seq(Nat) /\ requestCh \in Seq(Nat) /\ Len(running) <= 1
      /\ UNCHANGED <<responses, responseCh, effects, unwaited, late, behind>>
  <2>1. /\ correlationID \in Nat /\ requests \in Seq(Nat) /\ requestCh \in Seq(Nat)
        /\ Len(running) <= 1
    BY DEF IInv, EInv, Types, EffectTypes
  <2>2. UNCHANGED <<correlationID, responses, responseCh, effects, unwaited, late, behind>>
    BY DEF HandleRequest, RunTake, callers, handlers, network
  <2>3. correlationID <= correlationID
    BY <2>1
  <2> QED
    BY <2>1, <2>2, <2>3
<1>1. E(responses)' \cup E(responseCh)' \subseteq Started
  BY <1>0, Zenon DEF EInv, EffectOrder
<1>2. CASE HandleRequest
  <2>1. /\ requests # <<>> /\ requestCh' = Append(requestCh, Head(requests)) /\ requests' = Tail(requests)
        /\ running' = running
    BY <1>2 DEF HandleRequest
  <2>2. E(requests) = {Head(requests)} \cup E(requests)' /\ Head(requests) \in Nat
    BY <1>0, <2>1, TailInc, Zenon
  <2>3. E(requestCh)' = E(requestCh) \cup {Head(requests)}
    BY <1>0, <2>1, <2>2, AppendInc, Zenon
  <2>4. E(running)' = E(running) /\ Len(running)' <= 1
    BY <1>0, <2>1, Zenon
  <2> QED
    BY <1>0, <1>1, <2>2, <2>3, <2>4, QueuesKeepEffects, Zenon
<1>3. CASE RunTake
  <2>1. /\ requestCh # <<>> /\ running' = <<Head(requestCh)>> /\ requestCh' = Tail(requestCh)
        /\ requests' = requests
    BY <1>3 DEF RunTake, network
  <2>2. E(requestCh) = {Head(requestCh)} \cup E(requestCh)'
    BY <1>0, <2>1, TailInc, Zenon
  <2>3. E(running)' = {Head(requestCh)} /\ Len(running)' <= 1
    BY <2>1 DEF E
  <2>4. E(requests)' = E(requests)
    BY <2>1, Zenon
  <2> QED
    BY <1>0, <1>1, <2>2, <2>3, <2>4, QueuesKeepEffects
<1> QED
  BY <1>2, <1>3

\* What Run answers it is through with, and the response loop passes it on.
LEMMA AnswersKeepEffects == IInv /\ EInv /\ (RunReply \/ HandleResponse) => EInv'
<1> SUFFICES ASSUME IInv, EInv, RunReply \/ HandleResponse PROVE EInv'
  OBVIOUS
<1>0. /\ correlationID \in Nat /\ correlationID <= correlationID
      /\ responses \in Seq(Nat) /\ responseCh \in Seq(Nat) /\ running \in Seq(Nat)
      /\ Len(running) <= 1 /\ effects \in Seq(Nat)
      /\ E(responses) \subseteq Started /\ E(responseCh) \subseteq Started
  BY DEF IInv, EInv, Types, EffectTypes, EffectOrder
<1>1. UNCHANGED <<correlationID, requestCh, requests, effects, unwaited, late, behind>>
  BY DEF RunReply, HandleResponse, callers, handlers, network
<1>2. E(requestCh)' = E(requestCh) /\ E(requests)' = E(requests)
  BY <1>1
<1>3. CASE RunReply
  <2>1. /\ running # <<>> /\ ~Handling(running[1])
        /\ responseCh' = responseCh \o running /\ running' = <<>> /\ responses' = responses
    BY <1>3 DEF RunReply, network
  <2>2. E(responseCh)' = E(responseCh) \cup E(running)
    BY <1>0, <2>1, ConcatInc, Zenon
  <2>3. Len(running) = 1
    <3>1. Len(running) # 0
      BY <1>0, <2>1, EmptySeq, Zenon
    <3>2. Len(running) \in Nat
      BY <1>0
    <3>3. \A n \in Nat : n <= 1 /\ n # 0 => n = 1
      OBVIOUS
    <3> QED
      BY <1>0, <3>1, <3>2, <3>3, Zenon
  <2>4. running = <<running[1]>>
    BY <1>0, <2>3
  <2>5. E(running) = {running[1]}
    BY <2>3 DEF E
  <2>6. Range(effects) = E(effects)
    <3>1. DOMAIN effects = 1 .. Len(effects)
      BY <1>0
    <3> QED
      BY <3>1 DEF Range, E
  <2>7. running[1] \in Started
    BY <2>1, <2>4, <2>6 DEF Handling, Started
  <2>8. E(running)' = {} /\ Len(running)' <= 1
    BY <2>1 DEF E
  <2>9. E(responses)' = E(responses)
    BY <2>1
  <2>10. E(responses)' \cup E(responseCh)' \subseteq Started
    BY <1>0, <2>2, <2>5, <2>7, <2>9, Zenon
  <2> QED
    BY <1>0, <1>1, <1>2, <2>8, <2>10, QueuesKeepEffects
<1>4. CASE HandleResponse
  <2>1. /\ responseCh # <<>> /\ responseCh' = Tail(responseCh) /\ running' = running
        /\ responses' = IF up THEN Append(responses, Head(responseCh)) ELSE responses
    BY <1>4 DEF HandleResponse
  <2>2. E(responseCh) = {Head(responseCh)} \cup E(responseCh)' /\ Head(responseCh) \in Nat
    BY <1>0, <2>1, TailInc, Zenon
  <2>3. E(Append(responses, Head(responseCh))) = E(responses) \cup {Head(responseCh)}
    BY <1>0, <2>2, AppendInc, Zenon
  <2>4. E(responses)' \subseteq E(responses) \cup {Head(responseCh)}
    BY <2>1, <2>3, Zenon
  <2>5. E(responses)' \cup E(responseCh)' \subseteq Started
    BY <1>0, <2>2, <2>4
  <2>6. E(running)' = E(running) /\ Len(running)' <= 1
    BY <1>0, <2>1
  <2> QED
    BY <1>0, <1>1, <1>2, <2>5, <2>6, QueuesKeepEffects, Zenon
<1> QED
  BY <1>3, <1>4

\* A handler gets done, or Run stops waiting for it: it is the request in hand,
\* later than all before, or one that nobody waits for.
LEMMA HandlersKeepEffects ==
  ASSUME IInv, EInv, NEW i \in Nat, UNCHANGED <<callers, queues, requests, responses>>,
         late' \subseteq unwaited', behind' \subseteq unwaited',
         unwaited' = unwaited \/ (unwaited' = unwaited \cup {i} /\ running = <<i>>),
         effects' = effects \/ (effects' = Append(effects, i) /\ (i \in unwaited \/ running = <<i>>))
  PROVE  EInv'
<1>0. /\ effects \in Seq(Nat) /\ unwaited \subseteq Nat /\ E(effects) \subseteq Nat /\ Len(running) <= 1
      /\ correlationID \in Nat /\ Started \subseteq Nat /\ EffectOrder /\ Order
  <2>1. /\ effects \in Seq(Nat) /\ unwaited \subseteq Nat /\ Len(running) <= 1
        /\ correlationID \in Nat /\ EffectOrder /\ Order
    BY DEF IInv, EInv, EffectTypes, Types
  <2>2. E(effects) \subseteq Nat
    BY <2>1, Elements
  <2>3. Started \subseteq Nat
    BY <2>1, <2>2, Zenon DEF Started
  <2> QED
    BY <2>1, <2>2, <2>3, Zenon
<1>1. /\ correlationID' = correlationID /\ running' = running /\ requestCh' = requestCh
      /\ requests' = requests /\ responses' = responses /\ responseCh' = responseCh
  BY DEF callers, queues
<1>2. running = <<i>> => E(running) = {i}
  BY DEF E
<1>3. E(effects)' = E(effects) \/ (E(effects)' = E(effects) \cup {i} /\ (i \in unwaited \/ running = <<i>>))
  BY <1>0, AppendInc, Zenon
<1>4. Started' = Started \/ (Started' = Started \cup {i} /\ (i \in Started \/ running = <<i>>))
  BY <1>3 DEF Started
<1>5. EffectTypes'
  <2>1. effects' \in Seq(Nat)
    BY <1>0, AppendInc, Zenon
  <2>2. unwaited' \subseteq Nat
    <3>1. unwaited \subseteq Nat /\ unwaited \cup {i} \subseteq Nat
      BY <1>0
    <3> QED
      BY <3>1, Zenon
  <2>3. Len(running') <= 1
    BY <1>0, <1>1
  <2> QED
    BY <2>1, <2>2, <2>3 DEF EffectTypes
<1>6. \A x \in Started' : x \in Started \/ (x = i /\ running = <<i>>)
  BY <1>4
<1>7. ASSUME NEW x \in Started'
      PROVE  /\ x <= correlationID /\ \A y \in E(running) : x <= y
             /\ \A y \in E(requestCh) \cup E(requests) : x < y
  <2>1. CASE x \in Started
    BY <1>0, <2>1 DEF EffectOrder, Less
  <2>2. CASE x = i /\ running = <<i>>
    <3>1. E(running) = {i} /\ i <= i
      BY <1>2, <2>2
    <3>2. i <= correlationID
      BY <1>0, <3>1, Zenon DEF Order, OnPath, Rest
    <3>3. \A y \in E(requestCh) \cup E(requests) : i < y
      BY <1>0, <3>1 DEF Order, Less
    <3> QED
      BY <2>2, <3>1, <3>2, <3>3
  <2> QED
    BY <1>6, <2>1, <2>2, Zenon
<1>8. Overtaken(effects, unwaited)'
  <2>1. Overtaken(effects, unwaited')
    BY <1>0, OvertakenMore DEF EffectOrder
  <2>2. CASE effects' = effects
    BY <2>1, <2>2
  <2>3. CASE effects' = Append(effects, i) /\ (i \in unwaited \/ running = <<i>>)
    <3>1. i \in unwaited' \/ \A x \in E(effects) : x <= i
      BY <1>0, <1>2, <2>3, Zenon DEF EffectOrder, Started
    <3> QED
      BY <1>0, <2>1, <2>3, <3>1, AppendOvertaken, Zenon
  <2> QED
    BY <2>2, <2>3
<1>9. E(responses)' \cup E(responseCh)' \subseteq Started'
  BY <1>0, <1>1, <1>4, Zenon DEF EffectOrder
<1> QED
  BY <1>1, <1>5, <1>7, <1>8, <1>9 DEF EInv, EffectOrder, Less

\* Every step keeps the effects in order.
LEMMA NextKeepsEffects == IInv /\ EInv /\ [Next]_vars => EInv'
<1> SUFFICES ASSUME IInv, EInv, [Next]_vars PROVE EInv'
  OBVIOUS
<1>0. Len(running) <= 1 /\ late \subseteq unwaited /\ behind \subseteq unwaited
  BY DEF EInv, EffectTypes
<1>1. ASSUME NEW c \in Callers, DoRequest(c) PROVE EInv'
  BY <1>1, DoRequestEffects
<1>2. CASE UNCHANGED <<correlationID, server, requests, responses>>
  BY <1>0, <1>2, FewerKeepEffects DEF server, queues, handlers
<1>3. ASSUME NEW c \in Callers, WaitResponse(c) PROVE EInv'
  <2>1. /\ UNCHANGED <<correlationID, server, requests>>
        /\ responses # <<>> /\ responses' = Tail(responses) /\ responses \in Seq(Nat)
    BY <1>3 DEF WaitResponse, IInv, Types
  <2>2. E(responses)' \subseteq E(responses)
    BY <2>1, TailInc, Zenon
  <2> QED
    BY <1>0, <2>1, <2>2, FewerKeepEffects, Zenon DEF server, queues, handlers
<1>4. ASSUME Lose, UNCHANGED <<correlationID, server>> PROVE EInv'
  BY <1>0, <1>4, LoseFewer, FewerKeepEffects DEF server, queues, handlers
<1>5. ASSUME NEW c \in Callers, ReturnID(c) \/ ReadResponse(c) PROVE EInv'
  BY <1>2, <1>4, <1>5, Zenon DEF ReturnID, ReadResponse, network
<1>6. CASE HandleCut
  <2>1. Panic /\ UNCHANGED <<correlationID, unwaited, effects>>
    BY <1>6 DEF HandleCut, callers
  <2> QED
    BY <2>1, PanicFewer, FewerKeepEffects
<1>7. CASE HandleRequest \/ RunTake
  BY <1>7, RequestsKeepEffects
<1>8. CASE RunReply \/ HandleResponse
  BY <1>8, AnswersKeepEffects
<1>9. IDs \subseteq Nat
  BY DEF IDs
<1>10. CASE RunHandle
  <2>1. PICK i \in IDs : running = <<i>> /\ effects' = Append(effects, i)
    BY <1>10 DEF RunHandle, Handling
  <2>2. UNCHANGED <<callers, queues, requests, responses, late, behind, unwaited>>
    BY <1>10 DEF RunHandle, network
  <2> QED
    BY <1>0, <1>9, <2>1, <2>2, HandlersKeepEffects
<1>11. CASE RunTimeout
  <2>1. PICK i \in IDs : running = <<i>> /\ late' = late \cup {i} /\ unwaited' = unwaited \cup {i}
    BY <1>11 DEF RunTimeout, Handling
  <2>2. UNCHANGED <<callers, queues, requests, responses, behind, effects>>
    BY <1>11 DEF RunTimeout, network
  <2> QED
    BY <1>0, <1>9, <2>1, <2>2, HandlersKeepEffects
<1>12. CASE RunNoWait
  <2>1. PICK i \in IDs : running = <<i>> /\ behind' = behind \cup {i} /\ unwaited' = unwaited \cup {i}
    BY <1>12 DEF RunNoWait, Handling
  <2>2. UNCHANGED <<callers, queues, requests, responses, late, effects>>
    BY <1>12 DEF RunNoWait, network
  <2> QED
    BY <1>0, <1>9, <2>1, <2>2, HandlersKeepEffects, Zenon
<1>13. ASSUME NEW i \in IDs, BehindReturns(i) PROVE EInv'
  <2>1. /\ i \in unwaited /\ effects' = Append(effects, i) /\ behind' \subseteq behind
        /\ UNCHANGED <<callers, queues, requests, responses, late, unwaited>>
    BY <1>0, <1>13 DEF BehindReturns, network
  <2> QED
    BY <1>0, <1>9, <2>1, HandlersKeepEffects
<1>14. ASSUME NEW i \in IDs, LateReturns(i) PROVE EInv'
  <2>0. /\ Panic /\ effects' = Append(effects, i) /\ i \in unwaited /\ i \in Nat
        /\ correlationID' = correlationID /\ unwaited' = unwaited
        /\ effects \in Seq(Nat) /\ unwaited \subseteq Nat
    BY <1>0, <1>9, <1>14 DEF LateReturns, callers, EInv, EffectTypes
  <2>1. effects' \in Seq(Nat) /\ E(effects)' = E(effects) \cup {i}
    BY <2>0, AppendInc, Zenon
  <2>2. Started' = Started
    BY <2>0, <2>1 DEF Started
  <2>3. Overtaken(effects, unwaited)'
    BY <2>0, AppendOvertaken, Zenon DEF EInv, EffectOrder
  <2>4. /\ E(running)' = {} /\ E(requestCh)' = {} /\ E(requests)' = {} /\ E(responseCh)' = {}
        /\ E(responses)' \subseteq E(responses) /\ Len(running)' <= 1 /\ late' = {} /\ behind' = {}
    BY <2>0, PanicFewer
  <2>5. EffectTypes'
    BY <2>0, <2>1, <2>4, Zenon DEF EffectTypes
  <2>6. EffectOrder'
    BY <2>0, <2>2, <2>3, <2>4 DEF EInv, EffectOrder, Less
  <2> QED
    BY <2>5, <2>6 DEF EInv
<1>15. CASE Break
  BY <1>4, <1>15 DEF Break, callers
<1>16. CASE UNCHANGED vars
  BY <1>2, <1>16 DEF vars, callers, network
<1> QED
  BY <1>1, <1>3, <1>5, <1>6, <1>7, <1>8, <1>10, <1>11, <1>12, <1>13, <1>14, <1>15, <1>16, Zenon DEF Next

\* A response is sent after its request took effect, and effects come in the order
\* of the requests, except for requests withTimeout did not wait for.
THEOREM EffectsBeforeAnswers == Spec => []EffectBeforeAnswer
<1>1. Init => IInv /\ EInv
  BY InitIInv, EffectsInit
<1>2. IInv /\ EInv /\ [Next]_vars => (IInv /\ EInv)'
  BY NextKeeps, NextKeepsEffects
<1>3. IInv /\ EInv => EffectBeforeAnswer
  <2> SUFFICES ASSUME IInv, EInv PROVE EffectBeforeAnswer
    OBVIOUS
  <2>1. responses \in Seq(Nat) /\ responseCh \in Seq(Nat) /\ effects \in Seq(Nat)
    BY DEF IInv, Types, EInv, EffectTypes
  <2>2. responses \o responseCh \in Seq(Nat) /\ E(responses \o responseCh) = E(responses) \cup E(responseCh)
    BY <2>1, ConcatInc, Zenon
  <2>3. \A s \in Seq(Nat) : Range(s) = E(s)
    <3> SUFFICES ASSUME NEW s \in Seq(Nat) PROVE Range(s) = E(s)
      OBVIOUS
    <3>1. DOMAIN s = 1 .. Len(s)
      OBVIOUS
    <3> QED
      BY <3>1 DEF Range, E
  <2>4. DOMAIN effects = 1 .. Len(effects)
    BY <2>1
  <2>5. \A r \in Range(responses \o responseCh) \ unwaited : r \in Range(effects)
    BY <2>1, <2>2, <2>3, Zenon DEF EInv, EffectOrder, Started
  <2> QED
    BY <2>4, <2>5 DEF EffectBeforeAnswer, EInv, EffectOrder, Overtaken
<1> QED
  BY <1>1, <1>2, <1>3, PTL DEF Spec
=============================================================================
