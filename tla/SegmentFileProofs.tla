------------------------- MODULE SegmentFileProofs -------------------------
(***************************************************************************)
(* What the bisections of a commit log compute, for every log: findSegment *)
(* finds the first segment that ends after an offset, findEntry no entry   *)
(* past it.  And the arithmetic of a directory of log files that the       *)
(* proofs about retention and about readers use.                           *)
(*                                                                         *)
(* A recursive function is the CHOOSE of one that satisfies its equation.  *)
(* That there is one is shown by induction, and so is what it returns; the *)
(* induction is that a set of natural numbers has a least one.             *)
(***************************************************************************)
EXTENDS SegmentFile, TLAPS

LOCAL INSTANCE WellFoundedInduction

\* A set of natural numbers has a least one.
LEMMA LeastNatural ==
  ASSUME NEW T \in SUBSET Nat, T # {}
  PROVE  \E x \in T : \A y \in T : x <= y
<1>1. PICK x \in T : \A y \in T : <<y, x>> \notin OpToRel(<, Nat)
  BY NatLessThanWellFounded, WFMin, Zenon
<1>2. \A y \in T : y < x => <<y, x>> \in OpToRel(<, Nat)
  BY Zenon DEF OpToRel
<1>3. \A y \in T : ~(y < x)
  BY <1>1, <1>2, Zenon
<1>4. \A y \in T : x <= y
  BY <1>3
<1> QED
  BY <1>4

\* A set that has 0 and, with a number, the next one, up to n, has them all.
LEMMA UpTo ==
  ASSUME NEW n \in Nat, NEW S, 0 \in S, \A i \in 0 .. n : i \in S /\ i + 1 <= n => i + 1 \in S
  PROVE  \A i \in 0 .. n : i \in S
<1> DEFINE T == {i \in 0 .. n : i \notin S}
<1>1. SUFFICES ASSUME T # {} PROVE FALSE
  BY Zenon
<1>0. T \in SUBSET Nat
  OBVIOUS
<1>2. PICK x \in T : \A y \in T : x <= y
  BY <1>0, <1>1, LeastNatural, Zenon
<1>3. x # 0 /\ x \in 0 .. n /\ x - 1 \in 0 .. n
  BY <1>2
<1>4. x - 1 \in S
  BY <1>2, <1>3
<1>5. x \in S
  BY <1>3, <1>4
<1> QED
  BY <1>2, <1>5

-----------------------------------------------------------------------------
\* Sums.

\* What the recursive function of Total satisfies, and the weights it adds.
IsSum(g, w, n) == g = [i \in 0 .. n |-> IF i = 0 THEN 0 ELSE g[i - 1] + w[i - 1]]
Weights(w, n) == \A i \in 0 .. n - 1 : w[i] \in Nat

\* There is such a function: longer and longer beginnings of it exist.
LEMMA SumExists ==
  ASSUME NEW n \in Nat, NEW w, Weights(w, n)
  PROVE  \E g \in [0 .. n -> Nat] : IsSum(g, w, n)
<1> DEFINE Good(g, d) == \A i \in 0 .. d : g[i] = IF i = 0 THEN 0 ELSE g[i - 1] + w[i - 1]
           S == {d \in 0 .. n : \E g \in [0 .. n -> Nat] : Good(g, d)}
<1>1. 0 \in S
  <2>1. [i \in 0 .. n |-> 0] \in [0 .. n -> Nat] /\ Good([i \in 0 .. n |-> 0], 0) /\ 0 \in 0 .. n
    OBVIOUS
  <2> QED
    BY <2>1, Zenon
<1>2. ASSUME NEW d \in 0 .. n, d \in S, d + 1 <= n PROVE d + 1 \in S
  <2>1. PICK g \in [0 .. n -> Nat] : Good(g, d)
    BY <1>2, Zenon
  <2> DEFINE h == [i \in 0 .. n |-> IF i = d + 1 THEN g[d] + w[d] ELSE g[i]]
  <2>2. h \in [0 .. n -> Nat]
    BY <1>2 DEF Weights
  <2>3. \A i \in 0 .. d : h[i] = g[i]
    BY <1>2
  <2>4. h[d + 1] = h[d] + w[d]
    BY <1>2
  <2>5. Good(h, d + 1)
    <3> SUFFICES ASSUME NEW i \in 0 .. d + 1
                 PROVE  h[i] = IF i = 0 THEN 0 ELSE h[i - 1] + w[i - 1]
      BY Zenon
    <3> HIDE DEF h
    <3> QED
      BY <1>2, <2>1, <2>3, <2>4
  <2>6. d + 1 \in 0 .. n
    BY <1>2
  <2> QED
    BY <2>2, <2>5, <2>6, Zenon
<1>3. n \in S
  <2> HIDE DEF S
  <2>1. \A i \in 0 .. n : i \in S
    BY <1>1, <1>2, UpTo, Zenon
  <2> QED
    BY <2>1
<1>4. PICK g \in [0 .. n -> Nat] : Good(g, n)
  BY <1>3, Zenon
<1>5. IsSum(g, w, n)
  BY <1>4 DEF IsSum
<1> QED
  BY <1>5

\* Two functions that start alike and go on alike.
InStep(g, h, k) ==
  k \in Nat /\ g[0] = h[0] /\ \A i \in 0 .. k : i + 1 <= k /\ g[i] = h[i] => g[i + 1] = h[i + 1]

\* They are the same.
LEMMA InStepSame ==
  ASSUME NEW g, NEW h, NEW k, InStep(g, h, k)
  PROVE  \A i \in 0 .. k : g[i] = h[i]
<1> DEFINE S == {i \in 0 .. k : g[i] = h[i]}
<1>0. k \in Nat
  BY DEF InStep
<1>1. 0 \in S
  BY <1>0 DEF InStep
<1>2. ASSUME NEW i \in 0 .. k, i \in S, i + 1 <= k PROVE i + 1 \in S
  BY <1>0, <1>2 DEF InStep
<1>3. \A i \in 0 .. k : i \in S
  <2> HIDE DEF S
  <2> QED
    BY <1>0, <1>1, <1>2, UpTo, Zenon
<1> QED
  BY <1>3

\* A sum as it grows: 0 first, and one weight more at each step.
Steps(g, w, n) == g[0] = 0 /\ \A i \in 0 .. n - 1 : g[i + 1] = g[i] + w[i]

\* That is what the function of Total does.
LEMMA SumSteps ==
  ASSUME NEW g, NEW w, NEW n \in Nat, IsSum(g, w, n)
  PROVE  Steps(g, w, n)
<1>1. \A i \in 0 .. n : g[i] = IF i = 0 THEN 0 ELSE g[i - 1] + w[i - 1]
  BY DEF IsSum
<1>2. g[0] = 0
  BY <1>1
<1>3. ASSUME NEW i \in 0 .. n - 1 PROVE g[i + 1] = g[i] + w[i]
  BY <1>1, <1>3
<1> QED
  BY <1>2, <1>3 DEF Steps

\* Sums of the same weights are the same.
LEMMA SumsAgree ==
  ASSUME NEW g, NEW h, NEW w, NEW v, NEW k \in Nat, Steps(g, w, k), Steps(h, v, k),
         \A i \in 0 .. k - 1 : w[i] = v[i]
  PROVE  g[k] = h[k]
<1>1. InStep(g, h, k)
  BY DEF InStep, Steps
<1>2. \A i \in 0 .. k : g[i] = h[i]
  BY <1>1, InStepSame
<1> QED
  BY <1>2

\* So the CHOOSE behind Total chooses it.
LEMMA TotalIs ==
  ASSUME NEW n \in Nat, NEW w, Weights(w, n)
  PROVE  \E g \in [0 .. n -> Nat] : Steps(g, w, n) /\ Total(w, n) = g[n]
<1> DEFINE g == CHOOSE g : IsSum(g, w, n)
<1>1. PICK f \in [0 .. n -> Nat] : IsSum(f, w, n)
  BY SumExists
<1>2. IsSum(g, w, n)
  BY <1>1, Zenon
<1>3. Total(w, n) = g[n]
  BY Zenon DEF Total, IsSum
<1> HIDE DEF g
<1>4. Steps(f, w, n) /\ Steps(g, w, n)
  BY <1>1, <1>2, SumSteps, Zenon
<1>5. f[n] = g[n]
  BY <1>4, SumsAgree
<1> QED
  BY <1>1, <1>3, <1>4, <1>5, Zenon

\* One summand more.
LEMMA TotalStep ==
  ASSUME NEW n \in Nat, NEW w, Weights(w, n + 1)
  PROVE  /\ Total(w, n) \in Nat
         /\ Total(w, n + 1) = Total(w, n) + w[n]
<1>0. Weights(w, n) /\ n + 1 \in Nat
  BY DEF Weights
<1>1. PICK g \in [0 .. n -> Nat] : Steps(g, w, n) /\ Total(w, n) = g[n]
  BY <1>0, TotalIs, Zenon
<1>2. PICK h \in [0 .. n + 1 -> Nat] : Steps(h, w, n + 1) /\ Total(w, n + 1) = h[n + 1]
  BY <1>0, TotalIs, Zenon
<1>3. Steps(h, w, n) /\ h[n + 1] = h[n] + w[n]
  BY <1>2 DEF Steps
<1>4. g[n] = h[n]
  BY <1>1, <1>3, SumsAgree
<1>5. g[n] \in Nat
  OBVIOUS
<1> QED
  BY <1>1, <1>2, <1>3, <1>4, <1>5

\* No summand.
LEMMA TotalZero == ASSUME NEW w PROVE Total(w, 0) = 0
<1>1. Weights(w, 0)
  BY DEF Weights
<1>2. PICK g \in [0 .. 0 -> Nat] : Steps(g, w, 0) /\ Total(w, 0) = g[0]
  BY <1>1, TotalIs, Zenon
<1> QED
  BY <1>2 DEF Steps

\* The sum depends on its summands only.
LEMMA TotalSame ==
  ASSUME NEW n \in Nat, NEW w, NEW v, Weights(w, n), \A i \in 0 .. n - 1 : w[i] = v[i]
  PROVE  Total(w, n) = Total(v, n)
<1>0. Weights(v, n)
  BY DEF Weights
<1>1. PICK g \in [0 .. n -> Nat] : Steps(g, w, n) /\ Total(w, n) = g[n]
  BY TotalIs
<1>2. PICK h \in [0 .. n -> Nat] : Steps(h, v, n) /\ Total(v, n) = h[n]
  BY <1>0, TotalIs
<1>3. g[n] = h[n]
  BY <1>1, <1>2, SumsAgree
<1> QED
  BY <1>1, <1>2, <1>3

-----------------------------------------------------------------------------
\* Loops.

\* A loop: its states, a bound on the turns that are left, the next state, the
\* states it stops in and what it returns there.
IsLoop(L) ==
  /\ L.bound \in Nat
  /\ L.left \in [L.states -> 0 .. L.bound]
  /\ L.next \in [L.states -> L.states]
  /\ \A s \in L.states : s \notin L.stop => L.left[L.next[s]] < L.left[s]

\* The recursive function g that runs a loop: one turn, and all of them.
Turn(L, g, s) == g[s] = IF s \in L.stop THEN L.out[s] ELSE g[L.next[s]]
Runs(L, g) == g = [s \in L.states |-> IF s \in L.stop THEN L.out[s] ELSE g[L.next[s]]]

\* It exists.
LEMMA LoopRuns == ASSUME NEW L, IsLoop(L) PROVE \E g : Runs(L, g)
<1> DEFINE Good(g, d) == \A s \in L.states : L.left[s] <= d => Turn(L, g, s)
           S == {d \in 0 .. L.bound : \E g : Good(g, d)}
<1>0. L.bound \in Nat /\ L.left \in [L.states -> 0 .. L.bound] /\ L.next \in [L.states -> L.states]
  BY Zenon DEF IsLoop
<1>1. 0 \in S
  <2> DEFINE g == [s \in L.states |-> L.out[s]]
  <2>1. Good(g, 0)
    <3> SUFFICES ASSUME NEW s \in L.states, L.left[s] <= 0 PROVE Turn(L, g, s)
      BY Zenon
    <3>1. s \in L.stop
      BY <1>0 DEF IsLoop
    <3> QED
      BY <3>1, Zenon DEF Turn
  <2>2. 0 \in 0 .. L.bound
    BY <1>0
  <2> HIDE DEF g
  <2> QED
    BY <2>1, <2>2, Zenon
<1>2. ASSUME NEW d \in 0 .. L.bound, d \in S, d + 1 <= L.bound PROVE d + 1 \in S
  <2>1. PICK g : Good(g, d)
    BY <1>2, Zenon
  <2> DEFINE h == [s \in L.states |-> IF s \in L.stop THEN L.out[s] ELSE g[L.next[s]]]
  <2>2. \A s \in L.states : L.left[s] <= d => h[s] = g[s]
    BY <2>1, Zenon DEF Turn
  <2>3. Good(h, d + 1)
    <3> SUFFICES ASSUME NEW s \in L.states, L.left[s] <= d + 1 PROVE Turn(L, h, s)
      BY Zenon
    <3>1. CASE s \in L.stop
      BY <3>1, Zenon DEF Turn
    <3>2. CASE s \notin L.stop
      <4>1. L.next[s] \in L.states /\ L.left[L.next[s]] <= d
        BY <1>0, <1>2, <3>2 DEF IsLoop
      <4>2. h[L.next[s]] = g[L.next[s]]
        BY <2>2, <4>1, Zenon
      <4>3. h[s] = g[L.next[s]]
        BY <3>2, Zenon
      <4> HIDE DEF h
      <4> QED
        BY <3>2, <4>2, <4>3, Zenon DEF Turn
    <3> QED
      BY <3>1, <3>2, Zenon
  <2>4. d + 1 \in 0 .. L.bound
    BY <1>0, <1>2
  <2> HIDE DEF h
  <2> QED
    BY <2>3, <2>4, Zenon
<1>3. L.bound \in S
  <2> HIDE DEF S
  <2>1. \A i \in 0 .. L.bound : i \in S
    BY <1>0, <1>1, <1>2, UpTo, Zenon
  <2> QED
    BY <1>0, <2>1
<1>4. PICK g : Good(g, L.bound)
  BY <1>3, Zenon
<1> DEFINE h == [s \in L.states |-> g[s]]
<1>5. \A s \in L.states : Turn(L, g, s)
  BY <1>0, <1>4
<1>6. Runs(L, h)
  <2>1. \A s \in L.states : h[s] = IF s \in L.stop THEN L.out[s] ELSE h[L.next[s]]
    <3> SUFFICES ASSUME NEW s \in L.states PROVE h[s] = IF s \in L.stop THEN L.out[s] ELSE h[L.next[s]]
      BY Zenon
    <3>1. L.next[s] \in L.states
      BY <1>0
    <3> QED
      BY <1>5, <3>1, Zenon DEF Turn
  <2> QED
    BY <2>1, Zenon DEF Runs
<1> HIDE DEF h
<1> QED
  BY <1>6, Zenon

\* What holds of the results of a loop wherever it stops, and is kept from turn
\* to turn in the set I of states, holds of its result from every state of I.
Keeps(L, I, R) ==
  /\ I \subseteq L.states
  /\ \A s \in I : IF s \in L.stop THEN L.out[s] \in R ELSE L.next[s] \in I

\* By induction on the turns that are left.
LEMMA LoopInvariant ==
  ASSUME NEW L, IsLoop(L), NEW g, Runs(L, g), NEW I, NEW R, Keeps(L, I, R)
  PROVE  \A s \in I : g[s] \in R
<1> DEFINE S == {d \in 0 .. L.bound : \A s \in I : L.left[s] <= d => g[s] \in R}
<1>0. L.bound \in Nat /\ L.left \in [L.states -> 0 .. L.bound] /\ L.next \in [L.states -> L.states]
  BY Zenon DEF IsLoop
<1>1. \A s \in I : s \in L.states /\ Turn(L, g, s)
  BY Zenon DEF Keeps, Runs, Turn
<1>2. 0 \in S
  <2>1. ASSUME NEW s \in I, L.left[s] <= 0 PROVE g[s] \in R
    <3>1. s \in L.stop
      BY <1>0, <1>1, <2>1 DEF IsLoop
    <3> QED
      BY <1>1, <3>1, Zenon DEF Turn, Keeps
  <2>2. 0 \in 0 .. L.bound
    BY <1>0
  <2> QED
    BY <2>1, <2>2, Zenon
<1>3. ASSUME NEW d \in 0 .. L.bound, d \in S, d + 1 <= L.bound PROVE d + 1 \in S
  <2>1. ASSUME NEW s \in I, L.left[s] <= d + 1 PROVE g[s] \in R
    <3>1. CASE s \in L.stop
      BY <1>1, <3>1, Zenon DEF Turn, Keeps
    <3>2. CASE s \notin L.stop
      <4>1. L.next[s] \in I
        BY <3>2, Zenon DEF Keeps
      <4>2. L.left[L.next[s]] <= d
        BY <1>0, <1>1, <1>3, <2>1, <3>2, <4>1 DEF IsLoop
      <4>3. g[L.next[s]] \in R
        BY <1>3, <4>1, <4>2, Zenon
      <4> QED
        BY <1>1, <3>2, <4>3, Zenon DEF Turn
    <3> QED
      BY <3>1, <3>2
  <2>2. d + 1 \in 0 .. L.bound
    BY <1>0, <1>3
  <2> QED
    BY <2>1, <2>2, Zenon
<1>4. L.bound \in S
  <2> HIDE DEF S
  <2>1. \A i \in 0 .. L.bound : i \in S
    BY <1>0, <1>2, <1>3, UpTo, Zenon
  <2> QED
    BY <1>0, <2>1
<1> SUFFICES ASSUME NEW s \in I PROVE g[s] \in R
  OBVIOUS
<1>5. L.left[s] <= L.bound
  BY <1>0, <1>1
<1> QED
  BY <1>4, <1>5, Zenon

-----------------------------------------------------------------------------
\* findSegment.

\* The bisection of findSegment as a loop over the intervals <<i, j>>.
Mid(s) == (s[1] + s[2]) \div 2
Half(s, nexts, offset) == IF nexts[Mid(s) + 1] > offset THEN <<s[1], Mid(s)>> ELSE <<Mid(s) + 1, s[2]>>
Intervals(n) == (0 .. n) \X (0 .. n)

SegmentLoop(n, nexts, offset) ==
  [bound  |-> n,
   states |-> Intervals(n),
   left   |-> [s \in Intervals(n) |-> IF s[1] >= s[2] THEN 0 ELSE s[2] - s[1]],
   next   |-> [s \in Intervals(n) |-> IF s[1] >= s[2] THEN s ELSE Half(s, nexts, offset)],
   stop   |-> {s \in Intervals(n) : s[1] >= s[2]},
   out    |-> [s \in Intervals(n) |-> s[1]]]

\* The middle of an interval lies in it.
LEMMA MidIn ==
  ASSUME NEW n \in Nat, NEW s \in Intervals(n), s[1] < s[2]
  PROVE  Mid(s) \in Nat /\ s[1] <= Mid(s) /\ Mid(s) < s[2] /\ s[1] \in Nat /\ s[2] \in 0 .. n
BY DEF Intervals, Mid

\* The intervals get shorter.
LEMMA SegmentLoopIs ==
  ASSUME NEW n \in Nat, NEW nexts, NEW offset
  PROVE  IsLoop(SegmentLoop(n, nexts, offset))
<1> DEFINE L == SegmentLoop(n, nexts, offset)
<1>1. \A s \in Intervals(n) : s[1] \in 0 .. n /\ s[2] \in 0 .. n
  BY DEF Intervals
<1>2. L.bound \in Nat /\ L.states = Intervals(n)
  BY DEF SegmentLoop
<1>3. L.left \in [L.states -> 0 .. L.bound]
  BY <1>1 DEF SegmentLoop
<1>4. ASSUME NEW s \in Intervals(n), s[1] < s[2]
      PROVE  /\ Half(s, nexts, offset) \in Intervals(n)
             /\ Half(s, nexts, offset)[2] - Half(s, nexts, offset)[1] < s[2] - s[1]
             /\ Half(s, nexts, offset)[2] - Half(s, nexts, offset)[1] >= 0
  BY <1>4, MidIn DEF Half, Intervals
<1>5. L.next \in [L.states -> L.states]
  BY <1>1, <1>4 DEF SegmentLoop
<1>6. ASSUME NEW s \in L.states, s \notin L.stop PROVE L.left[L.next[s]] < L.left[s]
  <2>1. s \in Intervals(n) /\ s[1] < s[2]
    BY <1>1, <1>6 DEF SegmentLoop
  <2>2. L.next[s] = Half(s, nexts, offset)
    BY <1>1, <2>1 DEF SegmentLoop
  <2> DEFINE t == Half(s, nexts, offset)
  <2>3. t \in Intervals(n) /\ t[2] - t[1] < s[2] - s[1] /\ t[2] - t[1] >= 0
    BY <1>4, <2>1
  <2> HIDE DEF t
  <2>4. L.left[t] = IF t[1] >= t[2] THEN 0 ELSE t[2] - t[1]
    BY <2>3 DEF SegmentLoop
  <2>5. L.left[s] = s[2] - s[1]
    BY <1>1, <2>1 DEF SegmentLoop
  <2> QED
    BY <1>1, <2>1, <2>2, <2>3, <2>4, <2>5 DEF t
<1> QED
  BY <1>2, <1>3, <1>5, <1>6 DEF IsLoop

\* FindSegment runs this loop.
LEMMA SegmentLoopRuns ==
  ASSUME NEW nexts, NEW offset, Len(nexts) \in Nat
  PROVE  \E g : /\ Runs(SegmentLoop(Len(nexts), nexts, offset), g)
                /\ FindSegment(nexts, offset) =
                     IF g[<<0, Len(nexts)>>] = Len(nexts) THEN 0 ELSE g[<<0, Len(nexts)>>] + 1
<1> DEFINE n == Len(nexts)
           L == SegmentLoop(n, nexts, offset)
           Bisects(g) == g = [s \in (0 .. n) \X (0 .. n) |->
             IF s[1] >= s[2] THEN s[1]
             ELSE IF nexts[(s[1] + s[2]) \div 2 + 1] > offset
                  THEN g[<<s[1], (s[1] + s[2]) \div 2>>] ELSE g[<<(s[1] + s[2]) \div 2 + 1, s[2]>>]]
           b == CHOOSE g : Bisects(g)
<1>1. FindSegment(nexts, offset) = IF b[<<0, n>>] = n THEN 0 ELSE b[<<0, n>>] + 1
  BY Zenon DEF FindSegment, Search
<1>2. ASSUME NEW g PROVE Runs(L, g) <=> Bisects(g)
  <2>1. /\ L.states = (0 .. n) \X (0 .. n)
        /\ \A s \in L.states : s \in L.stop <=> s[1] >= s[2]
        /\ \A s \in L.states : L.out[s] = s[1]
        /\ \A s \in L.states : ~(s[1] >= s[2]) => L.next[s] = Half(s, nexts, offset)
    BY Zenon DEF SegmentLoop, Intervals
  <2> HIDE DEF L
  <2>2. \A s \in (0 .. n) \X (0 .. n) :
           (IF s \in L.stop THEN L.out[s] ELSE g[L.next[s]])
             = IF s[1] >= s[2] THEN s[1]
               ELSE IF nexts[(s[1] + s[2]) \div 2 + 1] > offset
                    THEN g[<<s[1], (s[1] + s[2]) \div 2>>] ELSE g[<<(s[1] + s[2]) \div 2 + 1, s[2]>>]
    BY <2>1, Zenon DEF Half, Mid
  <2>3. [s \in L.states |-> IF s \in L.stop THEN L.out[s] ELSE g[L.next[s]]]
          = [s \in (0 .. n) \X (0 .. n) |->
             IF s[1] >= s[2] THEN s[1]
             ELSE IF nexts[(s[1] + s[2]) \div 2 + 1] > offset
                  THEN g[<<s[1], (s[1] + s[2]) \div 2>>] ELSE g[<<(s[1] + s[2]) \div 2 + 1, s[2]>>]]
    BY <2>1, <2>2, Zenon
  <2> QED
    BY <2>3, Zenon DEF Runs
<1>3. IsLoop(L)
  BY SegmentLoopIs
<1>4. \E g : Bisects(g)
  BY <1>2, <1>3, LoopRuns, Zenon
<1>5. Bisects(b)
  BY <1>4, Zenon
<1> QED
  BY <1>1, <1>2, <1>5, Zenon

\* What the bisection ends at, whatever order the segments are in: the segment
\* found ends after offset, and the one before it does not; where it finds none,
\* the last one does not.
LEMMA FindSegmentBorder ==
  ASSUME NEW nexts \in Seq(Nat), NEW offset \in Nat, NEW i, i = FindSegment(nexts, offset)
  PROVE  /\ i \in 0 .. Len(nexts)
         /\ i # 0 => nexts[i] > offset /\ (i = 1 \/ nexts[i - 1] <= offset)
         /\ i = 0 => Len(nexts) = 0 \/ nexts[Len(nexts)] <= offset
<1> DEFINE n == Len(nexts)
           L == SegmentLoop(n, nexts, offset)
           I == {s \in Intervals(n) : /\ s[1] <= s[2]
                                      /\ s[1] = 0 \/ nexts[s[1]] <= offset
                                      /\ s[2] = n \/ nexts[s[2] + 1] > offset}
           R == {x \in 0 .. n : /\ x = 0 \/ nexts[x] <= offset
                                /\ x = n \/ nexts[x + 1] > offset}
<1>1. n \in Nat /\ \A k \in 1 .. n : nexts[k] \in Nat
  OBVIOUS
<1>2. PICK g : /\ Runs(L, g)
               /\ i = IF g[<<0, n>>] = n THEN 0 ELSE g[<<0, n>>] + 1
  BY <1>1, SegmentLoopRuns
<1>3. Keeps(L, I, R)
  <2>1. I \subseteq L.states
    BY DEF SegmentLoop
  <2>2. ASSUME NEW s \in I, s \in L.stop PROVE L.out[s] \in R
    <3>1. s \in Intervals(n) /\ s[1] \in 0 .. n /\ s[2] \in 0 .. n /\ s[1] >= s[2]
      BY <2>2 DEF SegmentLoop, Intervals
    <3>2. L.out[s] = s[1]
      BY <3>1 DEF SegmentLoop
    <3> QED
      BY <2>2, <3>1, <3>2
  <2>3. ASSUME NEW s \in I, s \notin L.stop PROVE L.next[s] \in I
    <3>1. s \in Intervals(n) /\ s[1] \in 0 .. n /\ s[2] \in 0 .. n /\ s[1] < s[2]
      BY <1>1, <2>3 DEF SegmentLoop, Intervals
    <3>2. L.next[s] = Half(s, nexts, offset)
      BY <3>1 DEF SegmentLoop
    <3>3. Mid(s) \in Nat /\ s[1] <= Mid(s) /\ Mid(s) < s[2]
      BY <1>1, <3>1, MidIn
    <3> DEFINE h == Mid(s)
    <3> HIDE DEF h
    <3>4. CASE nexts[h + 1] > offset
      <4>1. L.next[s] = <<s[1], h>> /\ <<s[1], h>> \in Intervals(n)
        BY <3>1, <3>2, <3>3, <3>4 DEF Half, Intervals, h
      <4> QED
        BY <2>3, <3>1, <3>3, <3>4, <4>1 DEF h
    <3>5. CASE ~(nexts[h + 1] > offset)
      <4>1. L.next[s] = <<h + 1, s[2]>> /\ <<h + 1, s[2]>> \in Intervals(n)
        BY <3>1, <3>2, <3>3, <3>5 DEF Half, Intervals, h
      <4>2. nexts[h + 1] <= offset
        BY <1>1, <3>1, <3>3, <3>5 DEF h
      <4> QED
        BY <2>3, <3>1, <3>3, <4>1, <4>2 DEF h
    <3> QED
      BY <3>4, <3>5
  <2> QED
    BY <2>1, <2>2, <2>3 DEF Keeps
<1>4. <<0, n>> \in I
  BY <1>1 DEF Intervals
<1>5. g[<<0, n>>] \in R
  <2>1. IsLoop(L)
    BY <1>1, SegmentLoopIs
  <2> HIDE DEF L, I, R
  <2> QED
    BY <1>2, <1>3, <1>4, <2>1, LoopInvariant, Zenon
<1>6. PICK x : x = g[<<0, n>>]
  BY Zenon
<1>7. /\ x \in 0 .. n /\ i = IF x = n THEN 0 ELSE x + 1
      /\ x = 0 \/ nexts[x] <= offset
      /\ x = n \/ nexts[x + 1] > offset
  BY <1>2, <1>5, <1>6, Zenon
<1>8. CASE x = n
  BY <1>1, <1>7, <1>8
<1>9. CASE x # n
  <2>1. i = x + 1 /\ i - 1 = x /\ i \in 1 .. n
    BY <1>1, <1>7, <1>9
  <2> QED
    BY <1>7, <1>9, <2>1
<1> QED
  BY <1>8, <1>9

\* Where the segments lie side by side, findSegment returns the first that ends
\* after offset, and none only when the whole log ends at or before it.
THEOREM FindSegmentFirst ==
  ASSUME NEW nexts \in Seq(Nat), NEW offset \in Nat, NEW i, i = FindSegment(nexts, offset),
         \A j, k \in DOMAIN nexts : j <= k => nexts[j] <= nexts[k]
  PROVE  /\ i \in 0 .. Len(nexts)
         /\ i # 0 => nexts[i] > offset /\ \A k \in 1 .. i - 1 : nexts[k] <= offset
         /\ i = 0 => \A k \in DOMAIN nexts : nexts[k] <= offset
<1>1. /\ i \in 0 .. Len(nexts)
      /\ i # 0 => nexts[i] > offset /\ (i = 1 \/ nexts[i - 1] <= offset)
      /\ i = 0 => Len(nexts) = 0 \/ nexts[Len(nexts)] <= offset
  BY FindSegmentBorder, Zenon
<1>2. Len(nexts) \in Nat /\ DOMAIN nexts = 1 .. Len(nexts) /\ \A k \in 1 .. Len(nexts) : nexts[k] \in Nat
  OBVIOUS
<1>3. ASSUME NEW j \in 1 .. Len(nexts), nexts[j] <= offset
      PROVE  \A k \in 1 .. j : nexts[k] <= offset
  <2> SUFFICES ASSUME NEW k \in 1 .. j PROVE nexts[k] <= offset
    OBVIOUS
  <2>1. k \in DOMAIN nexts /\ j \in DOMAIN nexts /\ k <= j /\ nexts[k] \in Nat /\ nexts[j] \in Nat
    BY <1>2
  <2>2. nexts[k] <= nexts[j]
    BY <2>1
  <2> QED
    BY <1>3, <2>1, <2>2
<1>4. ASSUME i # 0, i # 1 PROVE \A k \in 1 .. i - 1 : nexts[k] <= offset
  <2>1. i - 1 \in 1 .. Len(nexts) /\ nexts[i - 1] <= offset
    BY <1>1, <1>2, <1>4
  <2> QED
    BY <1>3, <2>1
<1>5. ASSUME i = 0, Len(nexts) # 0 PROVE \A k \in 1 .. Len(nexts) : nexts[k] <= offset
  <2>1. Len(nexts) \in 1 .. Len(nexts) /\ nexts[Len(nexts)] <= offset
    BY <1>1, <1>2, <1>5
  <2> QED
    BY <1>3, <2>1
<1> QED
  BY <1>1, <1>2, <1>4, <1>5

-----------------------------------------------------------------------------
\* findEntry.

\* The bisection of findEntry as a loop over the intervals and the entry that was
\* read last.
ZeroEntry == [off |-> 0, pos |-> 0]
EntryAt(index, k) == IF k = 0 THEN ZeroEntry ELSE index[k]
Probe(index, s) == ReadEntry(index, Mid(s), s[3])
Narrow(s, index, offset) ==
  LET e == Probe(index, s)
  IN  IF EntryAt(index, e).off >= offset \/ EntryAt(index, e).off = 0
      THEN <<s[1], Mid(s), e>>
      ELSE <<Mid(s) + 1, s[2], e>>
Probes(index) == (0 .. IndexCapacity) \X (0 .. IndexCapacity) \X (0 .. Len(index))

EntryLoop(index, offset) ==
  [bound  |-> IndexCapacity,
   states |-> Probes(index),
   left   |-> [s \in Probes(index) |-> IF s[1] >= s[2] THEN 0 ELSE s[2] - s[1]],
   next   |-> [s \in Probes(index) |-> IF s[1] >= s[2] THEN s ELSE Narrow(s, index, offset)],
   stop   |-> {s \in Probes(index) : s[1] >= s[2]},
   out    |-> [s \in Probes(index) |->
                IF s[1] = IndexCapacity THEN NoEntry
                ELSE EntryAt(index, ReadEntry(index, s[1], s[3]))]]

\* A probe stays in the interval and reads an entry that is written, or none.
LEMMA ProbeIn ==
  ASSUME NEW index, Len(index) \in Nat, NEW s \in Probes(index), s[1] < s[2]
  PROVE  /\ Mid(s) \in Nat /\ s[1] <= Mid(s) /\ Mid(s) < s[2]
         /\ s[1] \in 0 .. IndexCapacity /\ s[2] \in 0 .. IndexCapacity /\ s[3] \in 0 .. Len(index)
         /\ Probe(index, s) \in 0 .. Len(index)
         /\ Mid(s) \in 0 .. IndexCapacity /\ Mid(s) + 1 \in 0 .. IndexCapacity
<1>1. s[1] \in 0 .. IndexCapacity /\ s[2] \in 0 .. IndexCapacity /\ s[3] \in 0 .. Len(index)
  BY DEF Probes
<1>2. Mid(s) \in Nat /\ s[1] <= Mid(s) /\ Mid(s) < s[2]
  BY <1>1, IndexCapacityAssumption DEF Mid
<1>3. Probe(index, s) \in 0 .. Len(index)
  BY <1>1, <1>2 DEF Probe, ReadEntry
<1> QED
  BY <1>1, <1>2, <1>3, IndexCapacityAssumption

\* The intervals get shorter here as well.
LEMMA EntryLoopIs ==
  ASSUME NEW index, NEW offset, Len(index) \in Nat
  PROVE  IsLoop(EntryLoop(index, offset))
<1> DEFINE L == EntryLoop(index, offset)
<1>0. IndexCapacity \in Nat
  BY IndexCapacityAssumption
<1>1. \A s \in Probes(index) : s[1] \in 0 .. IndexCapacity /\ s[2] \in 0 .. IndexCapacity
  BY DEF Probes
<1>2. L.bound \in Nat /\ L.states = Probes(index)
  BY <1>0 DEF EntryLoop
<1>3. L.left \in [L.states -> 0 .. L.bound]
  BY <1>0, <1>1 DEF EntryLoop
<1>4. ASSUME NEW s \in Probes(index), s[1] < s[2]
      PROVE  /\ Narrow(s, index, offset) \in Probes(index)
             /\ Narrow(s, index, offset)[2] - Narrow(s, index, offset)[1] < s[2] - s[1]
             /\ Narrow(s, index, offset)[2] - Narrow(s, index, offset)[1] >= 0
  <2> DEFINE h == Mid(s)
             e == Probe(index, s)
  <2>1. /\ h \in Nat /\ s[1] <= h /\ h < s[2] /\ e \in 0 .. Len(index)
        /\ h \in 0 .. IndexCapacity /\ h + 1 \in 0 .. IndexCapacity
    BY <1>4, ProbeIn
  <2>2. Narrow(s, index, offset) \in {<<s[1], h, e>>, <<h + 1, s[2], e>>}
    BY Zenon DEF Narrow
  <2> HIDE DEF h, e
  <2>3. <<s[1], h, e>> \in Probes(index) /\ <<h + 1, s[2], e>> \in Probes(index)
    BY <1>1, <2>1 DEF Probes
  <2> QED
    BY <1>0, <1>1, <2>1, <2>2, <2>3
<1>5. L.next \in [L.states -> L.states]
  BY <1>1, <1>4 DEF EntryLoop
<1>6. ASSUME NEW s \in L.states, s \notin L.stop PROVE L.left[L.next[s]] < L.left[s]
  <2>1. s \in Probes(index) /\ s[1] < s[2]
    BY <1>0, <1>1, <1>6 DEF EntryLoop
  <2>2. L.next[s] = Narrow(s, index, offset)
    BY <1>0, <1>1, <2>1 DEF EntryLoop
  <2> DEFINE t == Narrow(s, index, offset)
  <2>3. t \in Probes(index) /\ t[2] - t[1] < s[2] - s[1] /\ t[2] - t[1] >= 0
    BY <1>4, <2>1
  <2> HIDE DEF t
  <2>4. L.left[t] = IF t[1] >= t[2] THEN 0 ELSE t[2] - t[1]
    BY <2>3 DEF EntryLoop
  <2>5. L.left[s] = s[2] - s[1]
    BY <1>0, <1>1, <2>1 DEF EntryLoop
  <2> QED
    BY <1>0, <1>1, <2>1, <2>2, <2>3, <2>4, <2>5 DEF t
<1> QED
  BY <1>2, <1>3, <1>5, <1>6 DEF IsLoop

\* FindEntry runs this loop.
LEMMA EntryLoopRuns ==
  ASSUME NEW index, NEW offset, Len(index) \in Nat
  PROVE  \E g : /\ Runs(EntryLoop(index, offset), g)
                /\ FindEntry(index, offset) = g[<<0, IndexCapacity, 0>>]
<1> DEFINE L == EntryLoop(index, offset)
           mid(s) == (s[1] + s[2]) \div 2
           entry(k) == IF k = 0 THEN [off |-> 0, pos |-> 0] ELSE index[k]
           probe(s) == ReadEntry(index, mid(s), s[3])
           turn(g, s) ==
             IF s[1] >= s[2]
             THEN IF s[1] = IndexCapacity THEN NoEntry ELSE entry(ReadEntry(index, s[1], s[3]))
             ELSE IF entry(probe(s)).off >= offset \/ entry(probe(s)).off = 0
                  THEN g[<<s[1], mid(s), probe(s)>>]
                  ELSE g[<<mid(s) + 1, s[2], probe(s)>>]
           D == (0 .. IndexCapacity) \X (0 .. IndexCapacity) \X (0 .. Len(index))
           Bisects(g) == g = [s \in D |-> turn(g, s)]
           b == CHOOSE g : Bisects(g)
<1>1. FindEntry(index, offset) = b[<<0, IndexCapacity, 0>>]
  BY Zenon DEF FindEntry
<1>2. ASSUME NEW g PROVE Runs(L, g) <=> Bisects(g)
  <2>1. /\ L.states = D
        /\ \A s \in D : s \in L.stop <=> s[1] >= s[2]
        /\ \A s \in D : L.out[s] = IF s[1] = IndexCapacity THEN NoEntry
                                   ELSE EntryAt(index, ReadEntry(index, s[1], s[3]))
        /\ \A s \in D : ~(s[1] >= s[2]) => L.next[s] = Narrow(s, index, offset)
    BY Zenon DEF EntryLoop, Probes
  <2> HIDE DEF L
  <2>2. \A s \in D : (IF s \in L.stop THEN L.out[s] ELSE g[L.next[s]]) = turn(g, s)
    <3> SUFFICES ASSUME NEW s \in D
                 PROVE  (IF s \in L.stop THEN L.out[s] ELSE g[L.next[s]]) = turn(g, s)
      BY Zenon
    <3>0. \A k : EntryAt(index, k) = entry(k)
      BY Zenon DEF EntryAt, ZeroEntry
    <3>1. CASE s[1] >= s[2]
      BY <2>1, <3>0, <3>1, Zenon
    <3>2. CASE ~(s[1] >= s[2])
      <4>1. probe(s) = Probe(index, s) /\ mid(s) = Mid(s)
        BY Zenon DEF Probe, Mid
      <4>2. s \notin L.stop /\ L.next[s] = Narrow(s, index, offset)
        BY <2>1, <3>2, Zenon
      <4>3. Narrow(s, index, offset) =
              IF entry(probe(s)).off >= offset \/ entry(probe(s)).off = 0
              THEN <<s[1], mid(s), probe(s)>> ELSE <<mid(s) + 1, s[2], probe(s)>>
        BY <3>0, <4>1, Zenon DEF Narrow
      <4> HIDE DEF probe, mid, entry
      <4> QED
        BY <3>2, <4>2, <4>3, Zenon
    <3> QED
      BY <3>1, <3>2, Zenon
  <2> HIDE DEF turn, D
  <2>3. [s \in L.states |-> IF s \in L.stop THEN L.out[s] ELSE g[L.next[s]]]
          = [s \in D |-> turn(g, s)]
    BY <2>1, <2>2, Zenon
  <2> QED
    BY <2>3, Zenon DEF Runs
<1>3. IsLoop(L)
  BY EntryLoopIs
<1> HIDE DEF turn, D, L
<1>4. \E g : Bisects(g)
  BY <1>2, <1>3, LoopRuns, Zenon
<1>5. Bisects(b)
  BY <1>4, Zenon
<1> QED
  BY <1>1, <1>2, <1>5, Zenon DEF L

\* The entries of a segment that starts at base, one for each offset.
Dense(index, base) ==
  /\ Len(index) \in Nat /\ DOMAIN index = 1 .. Len(index)
  /\ \A k \in 1 .. Len(index) : index[k].off = base + k - 1

\* findEntry never returns an entry past the offset it looks for, although its
\* probes beyond the written entries see what an earlier probe has read: it is an
\* entry at or below the offset, the zero entry, or none.
THEOREM FindEntryAtOrBefore ==
  ASSUME NEW index, NEW base \in Nat, NEW offset \in Nat, Dense(index, base), base <= offset
  PROVE  \/ FindEntry(index, offset) \in {NoEntry, ZeroEntry}
         \/ \E k \in DOMAIN index : FindEntry(index, offset) = index[k] /\ index[k].off <= offset
<1> DEFINE n == Len(index)
           L == EntryLoop(index, offset)
           I == {s \in Probes(index) :
                   /\ s[1] <= s[2]
                   /\ s[1] < n => s[1] = 0 \/ index[s[1]].off < offset
                   /\ s[3] = 0 \/ index[s[3]].off <= offset \/ s[2] < n}
           R == {NoEntry, ZeroEntry} \cup {index[k] : k \in {q \in 1 .. n : index[q].off <= offset}}
<1>1. /\ n \in Nat /\ IndexCapacity \in Nat /\ IndexCapacity # 0
      /\ \A k \in 1 .. n : index[k].off = base + k - 1
  BY IndexCapacityAssumption DEF Dense
<1>2. PICK g : Runs(L, g) /\ FindEntry(index, offset) = g[<<0, IndexCapacity, 0>>]
  BY <1>1, EntryLoopRuns
<1>3. Keeps(L, I, R)
  <2>0. \A s \in Probes(index) : s[1] \in 0 .. IndexCapacity /\ s[2] \in 0 .. IndexCapacity /\ s[3] \in 0 .. n
    BY DEF Probes
  <2>1. I \subseteq L.states
    BY DEF EntryLoop
  <2>2. ASSUME NEW s \in I, s \in L.stop PROVE L.out[s] \in R
    <3>1. s \in Probes(index) /\ s[1] = s[2]
      BY <1>1, <2>0, <2>2 DEF EntryLoop
    <3>2. L.out[s] = IF s[1] = IndexCapacity THEN NoEntry
                     ELSE EntryAt(index, ReadEntry(index, s[1], s[3]))
      BY <3>1 DEF EntryLoop
    <3>3. CASE s[1] < n
      <4>1. ReadEntry(index, s[1], s[3]) = s[1] + 1 /\ s[1] + 1 \in 1 .. n
        BY <1>1, <2>0, <3>1, <3>3 DEF ReadEntry
      <4>2. index[s[1] + 1].off <= offset
        <5>1. s[1] = 0 \/ index[s[1]].off < offset
          BY <2>2, <3>3
        <5>2. index[s[1] + 1].off = base + s[1] /\ s[1] \in Nat
          BY <1>1, <2>0, <3>1, <4>1
        <5>3. s[1] # 0 => index[s[1]].off = base + s[1] - 1
          <6>1. s[1] # 0 => s[1] \in 1 .. n
            BY <1>1, <3>3, <5>2
          <6> QED
            BY <1>1, <6>1, Zenon
        <5> QED
          BY <5>1, <5>2, <5>3
      <4>3. EntryAt(index, s[1] + 1) = index[s[1] + 1]
        BY <4>1 DEF EntryAt
      <4>4. index[s[1] + 1] \in R
        BY <4>1, <4>2
      <4> QED
        BY <3>2, <4>1, <4>3, <4>4, Zenon
    <3>4. CASE ~(s[1] < n)
      <4>1. ReadEntry(index, s[1], s[3]) = s[3]
        BY <3>4 DEF ReadEntry
      <4>2. s[3] = 0 \/ index[s[3]].off <= offset
        BY <1>1, <2>0, <2>2, <3>1, <3>4
      <4>3. EntryAt(index, s[3]) \in R
        BY <2>0, <3>1, <4>2 DEF EntryAt
      <4> QED
        BY <3>2, <4>1, <4>3, Zenon
    <3> QED
      BY <3>3, <3>4
  <2>3. ASSUME NEW s \in I, s \notin L.stop PROVE L.next[s] \in I
    <3>1. s \in Probes(index) /\ s[1] < s[2]
      BY <1>1, <2>0, <2>3 DEF EntryLoop
    <3>2. L.next[s] = Narrow(s, index, offset)
      BY <1>1, <2>0, <3>1 DEF EntryLoop
    <3> DEFINE h == Mid(s)
               e == Probe(index, s)
    <3>3. /\ h \in Nat /\ s[1] <= h /\ h < s[2] /\ e \in 0 .. n
          /\ h \in 0 .. IndexCapacity /\ h + 1 \in 0 .. IndexCapacity
      BY <1>1, <3>1, ProbeIn
    <3>4. e = IF h < n THEN h + 1 ELSE s[3]
      BY Zenon DEF Probe, ReadEntry
    <3>5. Narrow(s, index, offset) =
            IF EntryAt(index, e).off >= offset \/ EntryAt(index, e).off = 0
            THEN <<s[1], h, e>> ELSE <<h + 1, s[2], e>>
      BY Zenon DEF Narrow
    <3> HIDE DEF h, e
    <3>6. <<s[1], h, e>> \in Probes(index) /\ <<h + 1, s[2], e>> \in Probes(index)
      BY <2>0, <3>1, <3>3 DEF Probes
    <3>7. EntryAt(index, e).off \in Nat /\ (e # 0 => EntryAt(index, e).off = index[e].off)
      BY <1>1, <3>3 DEF EntryAt, ZeroEntry
    <3>8. CASE EntryAt(index, e).off >= offset \/ EntryAt(index, e).off = 0
      <4>1. e = 0 \/ index[e].off <= offset \/ h < n
        BY <1>1, <2>0, <2>3, <3>1, <3>3, <3>4, <3>7, <3>8
      <4>2. <<s[1], h, e>> \in I
        BY <2>3, <3>3, <3>6, <4>1
      <4> QED
        BY <3>2, <3>5, <3>8, <4>2, Zenon
    <3>9. CASE ~(EntryAt(index, e).off >= offset \/ EntryAt(index, e).off = 0)
      <4>1. e # 0 /\ index[e].off < offset
        BY <3>3, <3>7, <3>9 DEF EntryAt, ZeroEntry
      <4>2. h + 1 < n => index[h + 1].off < offset
        BY <1>1, <3>3, <3>4, <4>1
      <4>3. index[e].off <= offset /\ h + 1 <= s[2]
        BY <1>1, <2>0, <3>1, <3>3, <4>1
      <4>4. <<h + 1, s[2], e>> \in I
        BY <3>6, <4>2, <4>3
      <4> QED
        BY <3>2, <3>5, <3>9, <4>4, Zenon
    <3> QED
      BY <3>8, <3>9
  <2> QED
    BY <2>1, <2>2, <2>3 DEF Keeps
<1>4. <<0, IndexCapacity, 0>> \in I
  BY <1>1 DEF Probes
<1>5. g[<<0, IndexCapacity, 0>>] \in R
  <2>1. IsLoop(L)
    BY <1>1, EntryLoopIs
  <2> HIDE DEF L, I, R
  <2> QED
    BY <1>2, <1>3, <1>4, <2>1, LoopInvariant, Zenon
<1> QED
  BY <1>2, <1>5 DEF Dense

-----------------------------------------------------------------------------
\* The bytes of a directory.

\* A directory of log files, named by their base offsets.
IsDir(dir) == DOMAIN dir \subseteq Nat /\ \A b \in DOMAIN dir : FileEnd(dir[b]) \in Nat
Size(dir, b) == IF b \in DOMAIN dir THEN FileEnd(dir[b]) ELSE 0
Sizes(dir) == [b \in Nat |-> Size(dir, b)]

\* The bytes below base are a sum over all offsets.
LEMMA BytesAreTotal ==
  ASSUME NEW dir, IsDir(dir), NEW base \in Nat
  PROVE  BytesBefore(dir, base) = Total(Sizes(dir), base) /\ Weights(Sizes(dir), base)
<1> DEFINE w == [b \in 0 .. base - 1 |-> IF b \in DOMAIN dir THEN FileEnd(dir[b]) ELSE 0]
<1>1. \A b \in 0 .. base - 1 : w[b] = Sizes(dir)[b] /\ Sizes(dir)[b] \in Nat
  BY DEF Sizes, Size, IsDir
<1>2. Weights(Sizes(dir), base)
  BY <1>1 DEF Weights
<1>3. \A i \in 0 .. base - 1 : Sizes(dir)[i] = w[i]
  BY <1>1
<1>4. BytesBefore(dir, base) = Total(w, base)
  BY Zenon DEF BytesBefore
<1> HIDE DEF w
<1> QED
  BY <1>2, <1>3, <1>4, TotalSame

\* One offset further there is at most one file more.
LEMMA BytesStep ==
  ASSUME NEW dir, IsDir(dir), NEW base \in Nat
  PROVE  /\ BytesBefore(dir, base) \in Nat
         /\ BytesBefore(dir, base + 1) = BytesBefore(dir, base) + Size(dir, base)
<1>1. /\ BytesBefore(dir, base) = Total(Sizes(dir), base)
      /\ BytesBefore(dir, base + 1) = Total(Sizes(dir), base + 1)
      /\ Weights(Sizes(dir), base + 1)
  BY BytesAreTotal
<1>2. /\ Total(Sizes(dir), base) \in Nat
      /\ Total(Sizes(dir), base + 1) = Total(Sizes(dir), base) + Sizes(dir)[base]
  BY <1>1, TotalStep
<1>3. Sizes(dir)[base] = Size(dir, base)
  BY DEF Sizes
<1> QED
  BY <1>1, <1>2, <1>3

\* The bytes below base depend on the files below base only.
LEMMA BytesSame ==
  ASSUME NEW dir, IsDir(dir), NEW new, IsDir(new), NEW base \in Nat,
         \A b \in 0 .. base - 1 : Size(dir, b) = Size(new, b)
  PROVE  BytesBefore(dir, base) = BytesBefore(new, base)
<1>1. /\ BytesBefore(dir, base) = Total(Sizes(dir), base) /\ Weights(Sizes(dir), base)
      /\ BytesBefore(new, base) = Total(Sizes(new), base)
  BY BytesAreTotal
<1>2. \A i \in 0 .. base - 1 : Sizes(dir)[i] = Sizes(new)[i]
  BY DEF Sizes
<1> QED
  BY <1>1, <1>2, TotalSame

\* Offsets that name no file add nothing.
LEMMA BytesFlat ==
  ASSUME NEW dir, IsDir(dir), NEW a \in Nat, NEW b \in Nat, a <= b,
         \A c \in DOMAIN dir : ~(a <= c /\ c < b)
  PROVE  BytesBefore(dir, b) = BytesBefore(dir, a)
<1> DEFINE S == {i \in 0 .. b - a : BytesBefore(dir, a + i) = BytesBefore(dir, a)}
<1>0. b - a \in Nat
  OBVIOUS
<1>1. 0 \in S
  BY <1>0
<1>2. ASSUME NEW i \in 0 .. b - a, i \in S, i + 1 <= b - a PROVE i + 1 \in S
  <2>1. a + i \in Nat /\ i + 1 \in 0 .. b - a /\ (a + i) + 1 = a + (i + 1)
    BY <1>0, <1>2
  <2>2. Size(dir, a + i) = 0
    BY <1>2, <2>1 DEF Size
  <2>3. /\ BytesBefore(dir, a + i) \in Nat
        /\ BytesBefore(dir, (a + i) + 1) = BytesBefore(dir, a + i) + Size(dir, a + i)
    BY <2>1, BytesStep
  <2> QED
    BY <1>2, <2>1, <2>2, <2>3
<1>3. b - a \in S
  <2> HIDE DEF S
  <2>1. \A i \in 0 .. b - a : i \in S
    BY <1>0, <1>1, <1>2, UpTo, Zenon
  <2> QED
    BY <1>0, <2>1
<1>4. a + (b - a) = b
  OBVIOUS
<1> QED
  BY <1>3, <1>4

\* From one file to the next it is the size of the first.
LEMMA BytesNextFile ==
  ASSUME NEW dir, IsDir(dir), NEW a \in DOMAIN dir, NEW b \in Nat, a < b,
         \A c \in DOMAIN dir : ~(a < c /\ c < b)
  PROVE  BytesBefore(dir, b) = BytesBefore(dir, a) + FileEnd(dir[a])
<1>1. a \in Nat /\ a + 1 \in Nat /\ a + 1 <= b
  BY DEF IsDir
<1>2. \A c \in DOMAIN dir : ~(a + 1 <= c /\ c < b)
  BY <1>1 DEF IsDir
<1>3. BytesBefore(dir, b) = BytesBefore(dir, a + 1)
  BY <1>1, <1>2, BytesFlat
<1>4. BytesBefore(dir, a + 1) = BytesBefore(dir, a) + Size(dir, a)
  BY <1>1, BytesStep
<1> QED
  BY <1>3, <1>4 DEF Size

\* Below the first file there is nothing.
LEMMA BytesNone ==
  ASSUME NEW dir, IsDir(dir), NEW b \in Nat, \A c \in DOMAIN dir : ~(c < b)
  PROVE  BytesBefore(dir, b) = 0
<1>1. \A c \in DOMAIN dir : ~(0 <= c /\ c < b)
  OBVIOUS
<1>2. BytesBefore(dir, b) = BytesBefore(dir, 0)
  BY <1>1, BytesFlat
<1>3. BytesBefore(dir, 0) = 0
  BY BytesAreTotal, TotalZero
<1> QED
  BY <1>2, <1>3

\* The files of a directory in the order of their base offsets.
InOrder(dir, bases, n) ==
  /\ n \in Nat \ {0}
  /\ \A i \in 1 .. n : bases[i] \in DOMAIN dir
  /\ \A i, j \in 1 .. n : i < j => bases[i] < bases[j]
  /\ \A b \in DOMAIN dir : \E i \in 1 .. n : b = bases[i]

\* Adding the sizes up from the newest file back to the oldest, as
\* DeleteCleaner.Clean does, gives the bytes of the directory.
LEMMA BytesInOrder ==
  ASSUME NEW dir, IsDir(dir), NEW bases, NEW n, InOrder(dir, bases, n),
         NEW w, \A i \in 0 .. n - 1 : w[i] = FileEnd(dir[bases[n - i]])
  PROVE  BytesBefore(dir, bases[n] + 1) = Total(w, n)
<1> DEFINE all == BytesBefore(dir, bases[n] + 1)
           S == {i \in 0 .. n - 1 : all = BytesBefore(dir, bases[n - i]) + Total(w, i + 1)}
<1>0. n \in Nat /\ n # 0 /\ n - 1 \in Nat /\ n \in 1 .. n /\ 1 \in 1 .. n
  BY DEF InOrder
<1>1. \A i \in 1 .. n : bases[i] \in DOMAIN dir /\ bases[i] \in Nat /\ FileEnd(dir[bases[i]]) \in Nat
  BY DEF InOrder, IsDir
<1>2. Weights(w, n)
  <2> SUFFICES ASSUME NEW i \in 0 .. n - 1 PROVE w[i] \in Nat
    BY DEF Weights
  <2>1. n - i \in 1 .. n
    BY <1>0
  <2> QED
    BY <1>1, <2>1
<1>3. ASSUME NEW i \in 0 .. n - 1
      PROVE  Total(w, i) \in Nat /\ Total(w, i + 1) = Total(w, i) + w[i] /\ w[i] \in Nat
  <2>1. Weights(w, i + 1) /\ i \in Nat
    BY <1>0, <1>2 DEF Weights
  <2>2. w[i] \in Nat
    BY <1>2 DEF Weights
  <2> QED
    BY <2>1, <2>2, TotalStep
<1>4. 0 \in S
  <2>1. all = BytesBefore(dir, bases[n]) + Size(dir, bases[n]) /\ BytesBefore(dir, bases[n]) \in Nat
    BY <1>0, <1>1, BytesStep
  <2>2. Size(dir, bases[n]) = FileEnd(dir[bases[n]]) /\ w[0] = FileEnd(dir[bases[n]]) /\ n - 0 = n
    BY <1>0, <1>1 DEF Size
  <2>3. Total(w, 0) = 0 /\ Total(w, 0 + 1) = Total(w, 0) + w[0] /\ w[0] \in Nat
    BY <1>0, <1>3, TotalZero
  <2> HIDE DEF all
  <2> QED
    BY <1>0, <2>1, <2>2, <2>3
<1>5. ASSUME NEW i \in 0 .. n - 1, i \in S, i + 1 <= n - 1 PROVE i + 1 \in S
  <2> DEFINE a == bases[n - (i + 1)]
             b == bases[n - i]
  <2>1. /\ n - i \in 1 .. n /\ n - (i + 1) \in 1 .. n /\ n - (i + 1) < n - i
        /\ i \in Nat /\ i + 1 \in 0 .. n - 1
    BY <1>0, <1>5
  <2>2. a \in DOMAIN dir /\ b \in Nat /\ a \in Nat /\ a < b
    BY <1>1, <2>1 DEF InOrder
  <2>3. \A c \in DOMAIN dir : ~(a < c /\ c < b)
    <3> SUFFICES ASSUME NEW k \in 1 .. n, a < bases[k], bases[k] < b PROVE FALSE
      BY DEF InOrder
    <3>1. \/ k < n - (i + 1) \/ k = n - (i + 1) \/ k = n - i \/ n - i < k
      BY <1>0, <2>1
    <3>2. bases[k] \in Nat
      BY <1>1
    <3>3. k < n - (i + 1) => bases[k] < a
      BY <2>1 DEF InOrder
    <3>4. n - i < k => b < bases[k]
      BY <2>1 DEF InOrder
    <3> QED
      BY <2>2, <3>1, <3>2, <3>3, <3>4
  <2>4. BytesBefore(dir, b) = BytesBefore(dir, a) + FileEnd(dir[a])
    BY <2>2, <2>3, BytesNextFile
  <2>5. BytesBefore(dir, a) \in Nat /\ FileEnd(dir[a]) \in Nat
    BY <1>1, <2>1, <2>2, BytesStep
  <2>6. /\ Total(w, i + 1) \in Nat /\ Total(w, (i + 1) + 1) = Total(w, i + 1) + w[i + 1]
        /\ w[i + 1] = FileEnd(dir[a])
    BY <1>3, <2>1
  <2>7. all = BytesBefore(dir, b) + Total(w, i + 1)
    BY <1>5
  <2>8. all = BytesBefore(dir, a) + Total(w, (i + 1) + 1)
    <3> HIDE DEF all, a, b
    <3> QED
      BY <2>4, <2>5, <2>6, <2>7
  <2> QED
    BY <2>1, <2>8
<1>6. n - 1 \in S
  <2> HIDE DEF S
  <2>1. \A i \in 0 .. n - 1 : i \in S
    BY <1>0, <1>4, <1>5, UpTo, Zenon
  <2> QED
    BY <1>0, <2>1
<1>7. BytesBefore(dir, bases[1]) = 0
  <2>1. ASSUME NEW c \in DOMAIN dir PROVE ~(c < bases[1])
    <3>1. PICK i \in 1 .. n : c = bases[i]
      BY DEF InOrder
    <3>2. i = 1 \/ bases[1] < bases[i]
      BY <1>0 DEF InOrder
    <3>3. bases[1] \in Nat /\ bases[i] \in Nat
      BY <1>0, <1>1
    <3> QED
      BY <3>1, <3>2, <3>3
  <2> QED
    BY <1>0, <1>1, <2>1, BytesNone
<1>8. n - (n - 1) = 1 /\ (n - 1) + 1 = n
  BY <1>0
<1>9. Total(w, n) \in Nat
  <2>1. n - 1 \in 0 .. n - 1
    BY <1>0
  <2>2. Total(w, n - 1) \in Nat /\ Total(w, (n - 1) + 1) = Total(w, n - 1) + w[n - 1] /\ w[n - 1] \in Nat
    BY <1>3, <2>1
  <2> QED
    BY <1>8, <2>2
<1>10. all = BytesBefore(dir, bases[n - (n - 1)]) + Total(w, (n - 1) + 1)
  BY <1>6
<1> HIDE DEF all
<1> QED
  BY <1>7, <1>8, <1>9, <1>10 DEF all
=============================================================================
