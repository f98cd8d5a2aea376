---------------------------- MODULE SharedLemmas ----------------------------
(***************************************************************************)
(* What several proofs need: first elements and induction for sets of      *)
(* numbers, functions defined by recursion, and what the methods of the    *)
(* breaker return and preserve, for every threshold and every breaker.     *)
(***************************************************************************)
EXTENDS CircuitBreaker, WellFoundedInduction, TLAPS

-----------------------------------------------------------------------------
(***************************************************************************)
(* Sets of numbers.                                                        *)
(***************************************************************************)

Less == {p \in Nat \X Nat : p[1] < p[2]}

LEMMA LessWellFounded == IsWellFoundedOn(Less, Nat)
  BY NatLessThanWellFounded DEF OpToRel, Less

\* A set of numbers has a first one and, when there is a last number, a last one.
LEMMA Least ==
  ASSUME NEW S \in SUBSET Nat, S # {}
  PROVE  \E i \in S : \A j \in S : i <= j
<1>1. PICK i \in S : \A j \in S : ~(<<j, i>> \in Less)
  BY LessWellFounded, WFMin
<1>2. ASSUME NEW j \in S, j < i PROVE FALSE
  <2>1. <<j, i>> \in Less
    BY <1>2 DEF Less
  <2>2. QED
    BY <1>1, <2>1
<1>3. QED
  BY <1>2

LEMMA Greatest ==
  ASSUME NEW n \in Nat, NEW S \in SUBSET (1..n), S # {}
  PROVE  \E i \in S : \A j \in S : i >= j
<1> DEFINE M == {n - i : i \in S}
<1>1. \A i \in S : i \in 1..n /\ n - i \in Nat
  OBVIOUS
<1>2. M \in SUBSET Nat
  BY <1>1
<1>3. M # {}
  OBVIOUS
<1>4. PICK m \in M : \A k \in M : m <= k
  BY <1>2, <1>3, Least
<1>5. PICK i \in S : m = n - i
  OBVIOUS
<1>6. \A j \in S : n - i <= n - j
  BY <1>4, <1>5
<1>7. QED
  BY <1>1, <1>6

\* Induction up to n, for a property that is given as the set of the numbers that have it.
LEMMA Induction ==
  ASSUME NEW n \in Nat, NEW S, 0 \in S, \A i \in 1..n : i - 1 \in S => i \in S
  PROVE  0..n \subseteq S
<1> DEFINE Rest == (0..n) \ S
<1> SUFFICES ASSUME Rest # {} PROVE FALSE
  OBVIOUS
<1>1. PICK i \in Rest : \A j \in Rest : i <= j
  <2>1. Rest \in SUBSET Nat
    OBVIOUS
  <2> HIDE DEF Rest
  <2>2. QED
    BY <2>1, Least
<1>2. i \in 1..n /\ i - 1 \in 0..n
  BY <1>1
<1>3. i - 1 \in S
  BY <1>1, <1>2
<1>4. QED
  BY <1>1, <1>2, <1>3

\* There is a function that starts in `Starts` and goes from each number to the next by
\* a step, when there is a start and from everywhere a step.
LEMMA RecursionExists ==
  ASSUME NEW X, NEW Starts, \E x \in X : x \in Starts,
         NEW n \in Nat,
         NEW Steps, \A x \in X, i \in 1..n : \E y \in X : <<x, i, y>> \in Steps
  PROVE  \E f \in [0..n -> X] :
            f[0] \in Starts /\ \A i \in 1..n : <<f[i - 1], i, f[i]>> \in Steps
<1> DEFINE Good(k) == \E f \in [0..k -> X] :
                        f[0] \in Starts /\ \A i \in 1..k : <<f[i - 1], i, f[i]>> \in Steps
           S == {k \in 0..n : Good(k)}
<1>1. Good(0)
  <2>1. PICK a \in X : a \in Starts
    OBVIOUS
  <2>2. [i \in 0..0 |-> a] \in [0..0 -> X] /\ [i \in 0..0 |-> a][0] = a
    BY <2>1
  <2>3. 1..0 = {}
    OBVIOUS
  <2>4. QED
    BY <2>1, <2>2, <2>3
<1>2. ASSUME NEW k \in 1..n, Good(k - 1) PROVE Good(k)
  <2>1. PICK f \in [0..(k - 1) -> X] :
           f[0] \in Starts /\ \A i \in 1..(k - 1) : <<f[i - 1], i, f[i]>> \in Steps
    BY <1>2
  <2>2. PICK y \in X : <<f[k - 1], k, y>> \in Steps
    <3>1. f[k - 1] \in X
      OBVIOUS
    <3>2. QED
      BY <3>1
  <2> DEFINE g == [i \in 0..k |-> IF i = k THEN y ELSE f[i]]
  <2>3. g \in [0..k -> X] /\ g[0] \in Starts
    BY <2>1, <2>2
  <2>4. ASSUME NEW i \in 1..k PROVE <<g[i - 1], i, g[i]>> \in Steps
    <3>1. CASE i = k
      <4>1. g[i] = y /\ g[i - 1] = f[k - 1]
        BY <3>1
      <4>2. QED
        BY <2>2, <3>1, <4>1
    <3>2. CASE i \in 1..(k - 1)
      <4>1. g[i] = f[i] /\ g[i - 1] = f[i - 1]
        BY <3>2
      <4>2. QED
        BY <2>1, <3>2, <4>1
    <3>3. QED
      BY <3>1, <3>2
  <2>5. QED
    BY <2>3, <2>4
<1> HIDE DEF Good
<1>3. 0 \in S /\ \A i \in 1..n : i - 1 \in S => i \in S
  BY <1>1, <1>2
<1>4. 0..n \subseteq S
  <2> HIDE DEF S
  <2>1. QED
    BY <1>3, Induction
<1>5. Good(n)
  BY <1>4
<1>6. QED
  BY <1>5 DEF Good

-----------------------------------------------------------------------------
(***************************************************************************)
(* The breaker.                                                            *)
(***************************************************************************)

\* What RunMatchesState says, of any breaker.
Coherent(b) == b.state = "closed" <=> b.failures < Threshold

\* A breaker never opens without a failure.
LEMMA ThresholdType == Threshold \in Nat \ {0}
  BY BreakerAssumption DEF Threshold

\* A new breaker is closed, and rightly so.
LEMMA InitialBreakerOK == InitialBreaker \in Breaker /\ Coherent(InitialBreaker)
  BY ThresholdType DEF InitialBreaker, Breaker, BreakerState, Coherent

\* Asking changes nothing but the state, and that only from open to half_open.
LEMMA AfterAllowsOK ==
  ASSUME NEW b \in Breaker, NEW t \in Nat
  PROVE  /\ AfterAllows(b, t) \in Breaker
         /\ AfterAllows(b, t).failures = b.failures
         /\ AfterAllows(b, t).trips = b.trips
         /\ AfterAllows(b, t).openedAt = b.openedAt
         /\ Coherent(b) => Coherent(AfterAllows(b, t))
  BY DEF AfterAllows, Breaker, BreakerState, Coherent

\* A success ends the run of failures.
LEMMA AfterSuccessOK ==
  ASSUME NEW b \in Breaker
  PROVE  /\ AfterSuccess(b) \in Breaker
         /\ AfterSuccess(b).failures = 0
         /\ AfterSuccess(b).trips = b.trips
         /\ AfterSuccess(b).openedAt = b.openedAt
         /\ Coherent(AfterSuccess(b))
<1>1. AfterSuccess(b) \in Breaker
  BY DEF AfterSuccess, Breaker, BreakerState
<1>2. /\ AfterSuccess(b).state = "closed"
      /\ AfterSuccess(b).failures = 0
      /\ AfterSuccess(b).trips = b.trips
      /\ AfterSuccess(b).openedAt = b.openedAt
  BY DEF AfterSuccess, Breaker
<1>3. QED
  BY <1>1, <1>2, ThresholdType DEF Coherent

\* A failure lengthens the run by one, and trips only after a long enough run.
LEMMA AfterFailureOK ==
  ASSUME NEW b \in Breaker, NEW t \in Nat
  PROVE  /\ AfterFailure(b, t) \in Breaker
         /\ AfterFailure(b, t).failures = b.failures + 1
         /\ Coherent(b) => Coherent(AfterFailure(b, t))
         /\ \/ AfterFailure(b, t).trips = b.trips
            \/ /\ AfterFailure(b, t).trips = b.trips + 1
               /\ b.state = "half_open" \/ b.failures + 1 >= Threshold
  BY ThresholdType DEF AfterFailure, Breaker, BreakerState, Coherent
=============================================================================
