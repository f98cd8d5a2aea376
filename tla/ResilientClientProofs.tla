----------------------- MODULE ResilientClientProofs -----------------------
(***************************************************************************)
(* Theorems about ResilientClient for every set of calls, threshold, reset *)
(* time, number of attempts and delay.                                     *)
(***************************************************************************)
EXTENDS ResilientClient, SharedLemmas, FiniteSetTheorems

-----------------------------------------------------------------------------
\* Doubling never leaves a set that is closed under it, however often it is done.
LEMMA DoubledType ==
  ASSUME NEW n \in Nat, NEW S \in SUBSET Int, BaseDelay \in S, \A d \in S : 2 * d \in S
  PROVE  Doubled(n) \in S
<1> DEFINE Follows(f) == f = [k \in 0..n |-> IF k = 0 THEN BaseDelay ELSE 2 * f[k - 1]]
    delay == CHOOSE f : Follows(f)
    Steps == {t \in S \X (1..n) \X S : t[3] = 2 * t[1]}
<1>1. Doubled(n) = delay[n]
  BY DEF Doubled
<1>2. \A d \in S, i \in 1..n : \E e \in S : <<d, i, e>> \in Steps
  <2>1. \A d \in S, i \in 1..n : <<d, i, 2 * d>> \in Steps
    OBVIOUS
  <2>2. QED
    BY <2>1
<1>3. PICK f \in [0..n -> S] :
        f[0] \in {BaseDelay} /\ \A i \in 1..n : <<f[i - 1], i, f[i]>> \in Steps
  <2> HIDE DEF Steps
  <2>1. \E d \in S : d \in {BaseDelay}
    OBVIOUS
  <2>2. QED
    BY <1>2, <2>1, RecursionExists, Zenon
<1>4. Follows(f)
  <2>1. \A i \in 1..n : f[i] = 2 * f[i - 1]
    BY <1>3
  <2>2. \A k \in 0..n : f[k] = IF k = 0 THEN BaseDelay ELSE 2 * f[k - 1]
    <3> HIDE DEF Steps
    <3>1. QED
      BY <1>3, <2>1
  <2>3. f = [k \in 0..n |-> f[k]]
    OBVIOUS
  <2> HIDE DEF Steps
  <2>4. QED
    BY <2>2, <2>3
<1>5. Follows(delay)
  BY <1>4
<1> HIDE DEF delay
<1>6. 0..n \subseteq {k \in 0..n : delay[k] \in S}
  <2> DEFINE T == {k \in 0..n : delay[k] \in S}
  <2>1. 0 \in T
    BY <1>5
  <2>2. \A i \in 1..n : i - 1 \in T => i \in T
    <3>1. \A i \in 1..n : i \in 0..n /\ i - 1 \in 0..n /\ i # 0
      OBVIOUS
    <3>2. \A i \in 1..n : delay[i] = 2 * delay[i - 1]
      BY <1>5, <3>1
    <3>3. QED
      BY <3>1, <3>2
  <2> HIDE DEF T
  <2>3. 0..n \subseteq T
    BY <2>1, <2>2, Induction
  <2>4. QED
    BY <2>3 DEF T
<1>7. QED
  BY <1>1, <1>6

\* A backoff is within the limit before the jitter is added, and negative only if one
\* of the settings is.
LEMMA BackoffOK ==
  ASSUME NEW n \in Nat
  PROVE  /\ Backoff(n) \in Int
         /\ Backoff(n) <= MaxDelay
         /\ BaseDelay >= 0 /\ MaxDelay >= 0 => Backoff(n) >= 0
<1>1. Exponent(n) \in Nat
  BY DEF Exponent, AtLeast
<1>2. Doubled(Exponent(n)) \in Int
  BY <1>1, DoubledType, RetryAssumption
<1>3. BaseDelay >= 0 => Doubled(Exponent(n)) \in Nat
  <2>1. Nat \in SUBSET Int /\ \A d \in Nat : 2 * d \in Nat
    OBVIOUS
  <2>2. BaseDelay >= 0 => BaseDelay \in Nat
    BY RetryAssumption
  <2>3. QED
    BY <1>1, <2>1, <2>2, DoubledType
<1>4. QED
  BY <1>2, <1>3, RetryAssumption DEF Backoff, AtMost

\* The jitter adds at most its share, rounded down, if the backoff is not negative, and
\* nothing that is felt if it is and keeps its sign.
LEMMA JitteredOK ==
  ASSUME NEW b \in Int, b <= MaxDelay, NEW d \in Jittered(b)
  PROVE  /\ d \in Int
         /\ b >= 0 \/ JitterPercent <= 100 =>
              100 * d <= AtLeast(0, MaxDelay) * (100 + AtLeast(0, JitterPercent))
<1> DEFINE share == AtLeast(0, JitterPercent)
    cap == AtLeast(0, MaxDelay)
<1>1. share \in Nat /\ cap \in Nat /\ b <= cap
  BY RetryAssumption DEF AtLeast
<1>2. cap * (100 + share) = 100 * cap + cap * share /\ cap * share \in Nat
  BY <1>1
<1>3. CASE JitterPercent <= 0
  <2>1. d = b
    BY <1>3, RetryAssumption DEF Jittered
  <2> HIDE DEF share, cap
  <2>2. 100 * d <= 100 * cap + cap * share
    BY <1>1, <1>2, <2>1
  <2>3. QED
    BY <1>2, <2>1, <2>2 DEF share, cap
<1>4. CASE JitterPercent > 0
  <2>1. share = JitterPercent
    BY <1>4, RetryAssumption DEF AtLeast
  <2> DEFINE spread == (b * JitterPercent) \div 100
  <2>2. \A x \in Int : x \div 100 \in Int /\ 100 * (x \div 100) <= x /\ x < 100 * (x \div 100) + 100
    OBVIOUS
  <2>3. b * JitterPercent \in Int
    BY RetryAssumption
  <2>4. spread \in Int /\ 100 * spread <= b * JitterPercent /\ b * JitterPercent < 100 * spread + 100
    BY <2>2, <2>3
  <2>5. PICK e \in Between(b - spread, b + spread) : d = AtLeast(0, e)
    BY <1>4, RetryAssumption DEF Jittered
  <2> HIDE DEF spread
  <2>6. e \in Int /\ (e <= b - spread \/ e <= b + spread)
    BY <2>4, <2>5 DEF Between, AtMost, AtLeast
  <2>7. d \in Nat /\ (d = 0 \/ d = e)
    BY <2>5, <2>6 DEF AtLeast
  <2>8. CASE b >= 0
    <3>1. b * JitterPercent >= 0 /\ b * JitterPercent <= cap * share
      <4> HIDE DEF cap, share
      <4>1. b * share \in Nat /\ b * share <= cap * share
        BY <1>1, <2>8
      <4>2. QED
        BY <2>1, <4>1
    <3>2. spread >= 0
      BY <2>3, <2>4, <3>1
    <3>3. d <= b + spread
      BY <2>4, <2>6, <2>7, <2>8, <3>2
    <3> HIDE DEF cap, share
    <3>4. 100 * d <= 100 * cap + cap * share
      BY <1>1, <1>2, <2>3, <2>4, <2>7, <3>1, <3>3
    <3>5. QED
      BY <1>2, <2>7, <3>4 DEF cap, share
  <2>9. CASE b < 0 /\ JitterPercent <= 100
    <3>1. b * JitterPercent >= 100 * b /\ b * JitterPercent <= 0
      <4>1. \A x, y \in Nat : y <= 100 => x * y <= 100 * x /\ x * y >= 0
        OBVIOUS
      <4>2. (-b) \in Nat /\ JitterPercent \in Nat
        BY <1>4, <2>9, RetryAssumption
      <4>3. (-b) * JitterPercent <= 100 * (-b) /\ (-b) * JitterPercent >= 0
        BY <2>9, <4>1, <4>2
      <4>4. (-b) * JitterPercent = -(b * JitterPercent)
        BY RetryAssumption
      <4>5. QED
        BY <2>3, <4>3, <4>4
    <3>2. spread >= b /\ spread <= 0
      BY <2>3, <2>4, <2>9, <3>1
    <3>3. e <= 0
      BY <2>4, <2>6, <2>9, <3>2
    <3>4. d = 0
      BY <2>5, <2>6, <3>3 DEF AtLeast
    <3> HIDE DEF cap, share
    <3>5. 100 * d <= cap * (100 + share)
      BY <1>1, <1>2, <3>4
    <3>6. QED
      BY <3>4, <3>5 DEF cap, share
  <2>10. CASE b < 0 /\ JitterPercent > 100
    BY <2>7, <2>10, RetryAssumption
  <2>11. QED
    BY <2>8, <2>9, <2>10, RetryAssumption
<1>5. QED
  BY <1>3, <1>4, RetryAssumption

\* No delay exceeds the limit by more than the jitter, whatever the server asks for.
LEMMA DelaysBounded ==
  ASSUME NEW n \in Nat, NEW hint \in Int, NEW d \in Delays(n, hint)
  PROVE  /\ d \in Int
         /\ (BaseDelay >= 0 /\ MaxDelay >= 0) \/ JitterPercent <= 100 =>
              100 * d <= AtLeast(0, MaxDelay) * (100 + AtLeast(0, JitterPercent))
<1>1. CASE hint >= 0
  <2>1. d \in Int /\ d <= AtLeast(0, MaxDelay) /\ AtLeast(0, MaxDelay) \in Nat
    BY <1>1, RetryAssumption DEF Delays, AtMost, AtLeast
  <2>2. AtLeast(0, JitterPercent) \in Nat
    BY RetryAssumption DEF AtLeast
  <2> HIDE DEF AtLeast
  <2>3. \A m, s \in Nat : m * (100 + s) = 100 * m + m * s /\ m * s \in Nat
    OBVIOUS
  <2>4. QED
    BY <2>1, <2>2, <2>3
<1>2. CASE ~(hint >= 0)
  <2>1. d \in Jittered(Backoff(n))
    BY <1>2 DEF Delays
  <2>2. QED
    BY <2>1, BackoffOK, JitteredOK
<1>3. QED
  BY <1>1, <1>2

LEMMA DelaysType ==
  ASSUME NEW n \in Nat, NEW hint \in Int
  PROVE  Delays(n, hint) \subseteq Int
  BY DelaysBounded

-----------------------------------------------------------------------------
(***************************************************************************)
(* Type correctness.                                                       *)
(***************************************************************************)

\* The variables always have the types TypeOK gives them.
THEOREM TypeCorrect == Spec => []TypeOK
<1> USE DEF TypeOK
<1>1. Init => TypeOK
  BY InitialBreakerOK DEF Init, Location, Outcome, Faults
<1>2. TypeOK /\ [Next]_vars => TypeOK'
  <2> SUFFICES ASSUME TypeOK, [Next]_vars PROVE TypeOK'
    OBVIOUS
  <2> USE DEF Location, Outcome, Faults, Finish, SendRequest, ReportFault
  <2>a. AfterAllows(breaker, now) \in Breaker
    BY AfterAllowsOK
  <2>b. \A b \in Breaker : AfterFailure(b, now) \in Breaker
    BY AfterFailureOK
  <2>1. ASSUME NEW c \in Calls, Refuse(c) PROVE TypeOK'
    BY <2>1 DEF Refuse
  <2>2. ASSUME NEW c \in Calls, Begin(c) PROVE TypeOK'
    BY <2>2, <2>a DEF Begin
  <2>3. ASSUME NEW c \in Calls, BeginWithoutToken(c) PROVE TypeOK'
    BY <2>3, <2>a DEF BeginWithoutToken
  <2>4. ASSUME NEW c \in Calls, BeginWithoutAttempts(c) PROVE TypeOK'
    BY <2>4, <2>a, <2>b DEF BeginWithoutAttempts
  <2>5. ASSUME NEW c \in Calls, Answered(c) PROVE TypeOK'
    BY <2>5, AfterSuccessOK DEF Answered
  <2>6. ASSUME NEW c \in Calls, Rejected(c) PROVE TypeOK'
    BY <2>6, <2>b DEF Rejected
  <2>7. ASSUME NEW c \in Calls, NEW e \in Faults, NEW s, NEW h \in Int, FailedAttempt(c, e, s, h)
        PROVE TypeOK'
    <3>1. CASE StartBackoff(c, h)
      BY <3>1, DelaysType DEF StartBackoff
    <3>2. CASE GiveUp(c, e)
      BY <3>2, <2>b DEF GiveUp
    <3>3. CASE Escape(c)
      BY <3>3 DEF Escape
    <3>4. QED
      BY <2>7, <3>1, <3>2, <3>3 DEF FailedAttempt
  <2>8. ASSUME NEW c \in Calls, TransportFailure(c) PROVE TypeOK'
    BY <2>7, <2>8 DEF TransportFailure, NoHint
  <2>9. ASSUME NEW c \in Calls, ErrorStatus(c) PROVE TypeOK'
    BY <2>7, <2>9, ClientAssumption DEF ErrorStatus, ParseRetryAfter, NoHint
  <2>10. ASSUME NEW c \in Calls, Resume(c) PROVE TypeOK'
    <3>1. CASE attempt[c] < settings.attempts
      BY <2>10, <3>1 DEF Resume
    <3>2. CASE ~(attempt[c] < settings.attempts)
      BY <2>10, <3>2, <2>b DEF Resume, GiveUp
    <3>3. QED
      BY <3>1, <3>2
  <2>11. ASSUME NEW c \in Calls, Cancel(c) \/ HintOverflow(c) PROVE TypeOK'
    BY <2>11 DEF Cancel, HintOverflow, Escape
  <2>12. CASE Tick
    BY <2>12 DEF Tick
  <2>13. CASE UNCHANGED vars
    BY <2>13 DEF vars
  <2>14. QED
    BY <2>1, <2>2, <2>3, <2>4, <2>5, <2>6, <2>8, <2>9, <2>10, <2>11, <2>12, <2>13
       DEF Next, CallStep, Start, Reply
<1>3. QED
  BY <1>1, <1>2, PTL DEF Spec

-----------------------------------------------------------------------------
(***************************************************************************)
(* The state of the breaker and its run of failures.                       *)
(***************************************************************************)

\* A step does to the breaker nothing, or what one of its methods does.
LEMMA BreakerStep ==
  ASSUME [Next]_vars
  PROVE  \/ breaker' = breaker
         \/ breaker' = AfterAllows(breaker, now)
         \/ breaker' = AfterSuccess(breaker)
         \/ breaker' = AfterFailure(breaker, now)
         \/ breaker' = AfterFailure(AfterAllows(breaker, now), now)
<1> USE DEF ReportFault
<1>1. ASSUME NEW c \in Calls, Start(c)
      PROVE  \/ breaker' = breaker
             \/ breaker' = AfterAllows(breaker, now)
             \/ breaker' = AfterFailure(AfterAllows(breaker, now), now)
  BY <1>1 DEF Start, Refuse, Begin, BeginWithoutToken, BeginWithoutAttempts
<1>2. ASSUME NEW c \in Calls, Reply(c)
      PROVE  \/ breaker' = breaker
             \/ breaker' = AfterSuccess(breaker)
             \/ breaker' = AfterFailure(breaker, now)
  BY <1>2 DEF Reply, Answered, Rejected, TransportFailure, ErrorStatus, HintOverflow,
              Escape, FailedAttempt, StartBackoff, GiveUp
<1>3. ASSUME NEW c \in Calls, Resume(c) \/ Cancel(c)
      PROVE  breaker' = breaker \/ breaker' = AfterFailure(breaker, now)
  BY <1>3 DEF Resume, Cancel, GiveUp
<1>4. QED
  BY <1>1, <1>2, <1>3 DEF Next, CallStep, Tick, vars

\* Closed means a short run of failures, and nothing else: the HALF_OPEN disjunct of
\* record_failure never decides, because the run is still too long in that state.
THEOREM RunAndStateAgree == Spec => []RunMatchesState
<1>1. Init => RunMatchesState
  BY InitialBreakerOK DEF Init, RunMatchesState, Coherent
<1>2. TypeOK /\ RunMatchesState /\ [Next]_vars => RunMatchesState'
  <2> SUFFICES ASSUME TypeOK, RunMatchesState, [Next]_vars PROVE RunMatchesState'
    OBVIOUS
  <2>1. breaker \in Breaker /\ now \in Nat /\ Coherent(breaker)
    BY DEF TypeOK, RunMatchesState, Coherent
  <2>2. Coherent(breaker')
    <3>1. AfterAllows(breaker, now) \in Breaker /\ Coherent(AfterAllows(breaker, now))
      BY <2>1, AfterAllowsOK
    <3>2. Coherent(AfterFailure(AfterAllows(breaker, now), now))
      BY <2>1, <3>1, AfterFailureOK
    <3>3. Coherent(AfterFailure(breaker, now))
      BY <2>1, AfterFailureOK
    <3>4. Coherent(AfterSuccess(breaker))
      BY <2>1, AfterSuccessOK
    <3>5. QED
      BY <2>1, <3>1, <3>2, <3>3, <3>4, BreakerStep
  <2>3. QED
    BY <2>2 DEF RunMatchesState, Coherent
<1>3. QED
  BY <1>1, <1>2, TypeCorrect, PTL DEF Spec

-----------------------------------------------------------------------------
(***************************************************************************)
(* What a call has done so far.                                            *)
(***************************************************************************)

LoopInv == CallsConsistent /\ AttemptBudget

\* A call never has more attempts behind it than its budget, and none before it
\* starts: should_retry, asked before the sleep, still holds after it.
LEMMA LoopCorrect == Spec => []LoopInv
<1> USE DEF LoopInv, CallsConsistent, AttemptBudget
<1>1. Init => LoopInv
  BY DEF Init
<1>2. TypeOK /\ LoopInv /\ [Next]_vars => LoopInv'
  <2> SUFFICES ASSUME TypeOK, LoopInv, [Next]_vars PROVE LoopInv'
    OBVIOUS
  <2> USE ClientAssumption DEF TypeOK, Settings, Location, Finish, SendRequest
  <2>1. ASSUME NEW c \in Calls, Start(c) PROVE LoopInv'
    BY <2>1 DEF Start, Refuse, Begin, BeginWithoutToken, BeginWithoutAttempts
  <2>2. ASSUME NEW c \in Calls, Reply(c) PROVE LoopInv'
    <3>1. CASE Answered(c) \/ Rejected(c) \/ HintOverflow(c)
      BY <3>1 DEF Answered, Rejected, HintOverflow, Escape
    <3>2. ASSUME NEW e, NEW s, NEW h, FailedAttempt(c, e, s, h) PROVE LoopInv'
      BY <3>2 DEF FailedAttempt, ShouldRetry, StartBackoff, GiveUp, Escape
    <3>3. QED
      BY <2>2, <3>1, <3>2 DEF Reply, TransportFailure, ErrorStatus
  <2>3. ASSUME NEW c \in Calls, Resume(c) \/ Cancel(c) PROVE LoopInv'
    BY <2>3 DEF Resume, Cancel, GiveUp
  <2>4. CASE Tick \/ UNCHANGED vars
    BY <2>4 DEF Tick, vars
  <2>5. QED
    BY <2>1, <2>2, <2>3, <2>4 DEF Next, CallStep
<1>3. QED
  BY <1>1, <1>2, TypeCorrect, PTL DEF Spec

\* A call sends at most RETRY_ATTEMPTS requests, and sleeps only before another one.
THEOREM BudgetIsKept == Spec => []AttemptBudget
<1>1. LoopInv => AttemptBudget
  BY DEF LoopInv
<1>2. QED
  BY <1>1, LoopCorrect, PTL

-----------------------------------------------------------------------------
(***************************************************************************)
(* A service without a token.                                              *)
(***************************************************************************)

Tokenless == ~settings.token /\ settings.attempts >= 1

\* Nothing is in flight that could still report a verdict.
TokenInv ==
    Tokenless =>
        /\ \A c \in Calls : pc[c] \in {"new", "done"}
        /\ breaker = InitialBreaker
        /\ metrics.failures = 0

\* Calls that cannot be sent for want of a token leave the breaker as it was created.
THEOREM MisconfigurationIsBlameless == Spec => []MisconfigurationIsNoFault
<1>1. Init => TokenInv
  BY DEF Init, TokenInv
<1>2. TypeOK /\ TokenInv /\ [Next]_vars => TokenInv'
  <2> SUFFICES ASSUME TypeOK, TokenInv, [Next]_vars, Tokenless'
               PROVE  TokenInv'
    BY DEF TokenInv
  <2>1. settings' = settings
    BY DEF Next, CallStep, Start, Refuse, Begin, BeginWithoutToken, BeginWithoutAttempts,
           Reply, Answered, Rejected, TransportFailure, ErrorStatus, HintOverflow, FailedAttempt,
           StartBackoff, GiveUp, Escape, Resume, Cancel, Tick, vars
  <2> USE <2>1, ClientAssumption DEF TypeOK, Settings, Tokenless, TokenInv, Finish, SendRequest
  <2>2. AfterAllows(InitialBreaker, now) = InitialBreaker
    BY DEF AfterAllows, InitialBreaker
  <2>3. ASSUME NEW c \in Calls, Start(c) PROVE TokenInv'
    BY <2>2, <2>3 DEF Start, Refuse, Begin, BeginWithoutToken, BeginWithoutAttempts
  <2>4. ASSUME NEW c \in Calls, Reply(c) \/ Resume(c) \/ Cancel(c) PROVE FALSE
    BY <2>4 DEF Reply, Resume, Cancel, Answered, Rejected, TransportFailure, ErrorStatus,
                HintOverflow, FailedAttempt
  <2>5. CASE Tick \/ UNCHANGED vars
    BY <2>5 DEF Tick, vars
  <2>6. QED
    BY <2>3, <2>4, <2>5 DEF Next, CallStep
<1>3. TokenInv => MisconfigurationIsNoFault
  BY DEF TokenInv, Tokenless, MisconfigurationIsNoFault
<1>4. QED
  BY <1>1, <1>2, <1>3, TypeCorrect, PTL DEF Spec

-----------------------------------------------------------------------------
(***************************************************************************)
(* Counting failed calls.                                                  *)
(***************************************************************************)

LEMMA CallSetsFinite ==
  ASSUME NEW S \in SUBSET Calls
  PROVE  IsFiniteSet(S) /\ Cardinality(S) \in Nat
  BY ClientAssumption, FS_Subset, FS_CardinalityType

LEMMA CountOneMore ==
  ASSUME NEW S \in SUBSET Calls, NEW x \in Calls \ S
  PROVE  Cardinality(S \cup {x}) = Cardinality(S) + 1
  BY CallSetsFinite, FS_AddElement

LEMMA CountOneLess ==
  ASSUME NEW S \in SUBSET Calls, NEW x \in S
  PROVE  Cardinality(S \ {x}) = Cardinality(S) - 1
  BY CallSetsFinite, FS_RemoveElement

\* A step records a failure for a call that had none, or fails no call and does
\* not call record_failure.
LEMMA FaultStep ==
  ASSUME TypeOK, LoopInv, [Next]_vars
  PROVE  \/ /\ \E c \in Calls \ Failed : Failed' = Failed \cup {c}
            /\ metrics'.failures = metrics.failures + 1
            /\ \/ breaker' = AfterFailure(breaker, now)
               \/ breaker' = AfterFailure(AfterAllows(breaker, now), now)
         \/ /\ Failed' = Failed
            /\ metrics'.failures = metrics.failures
            /\ \/ breaker' = breaker
               \/ breaker' = AfterAllows(breaker, now)
               \/ breaker' = AfterSuccess(breaker)
<1> DEFINE Fault(c, b) ==
      /\ c \notin Failed
      /\ Failed' = Failed \cup {c}
      /\ metrics'.failures = metrics.failures + 1
      /\ breaker' = AfterFailure(b, now)
    NoFault ==
      /\ Failed' = Failed
      /\ metrics'.failures = metrics.failures
      /\ \/ breaker' = breaker
         \/ breaker' = AfterAllows(breaker, now)
         \/ breaker' = AfterSuccess(breaker)
<1> USE DEF TypeOK, LoopInv, CallsConsistent, Failed, Faults, Finish, SendRequest, ReportFault
<1>1. ASSUME NEW c \in Calls, Start(c) PROVE NoFault \/ Fault(c, AfterAllows(breaker, now))
  <2>1. CASE BeginWithoutAttempts(c)
    BY <2>1 DEF BeginWithoutAttempts
  <2>2. CASE Refuse(c) \/ Begin(c) \/ BeginWithoutToken(c)
    BY <2>2 DEF Refuse, Begin, BeginWithoutToken
  <2>3. QED
    BY <1>1, <2>1, <2>2 DEF Start
<1>2. ASSUME NEW c \in Calls, Reply(c) PROVE NoFault \/ Fault(c, breaker)
  <2>1. CASE Answered(c) \/ HintOverflow(c)
    BY <2>1 DEF Answered, HintOverflow, Escape
  <2>2. CASE Rejected(c)
    BY <2>2 DEF Rejected
  <2>3. ASSUME NEW e \in Faults, NEW s, NEW h, FailedAttempt(c, e, s, h)
        PROVE NoFault \/ Fault(c, breaker)
    <3>1. CASE StartBackoff(c, h)
      BY <3>1 DEF StartBackoff
    <3>2. CASE GiveUp(c, e)
      BY <2>3, <3>2 DEF FailedAttempt, GiveUp
    <3>3. CASE Escape(c)
      BY <2>3, <3>3 DEF FailedAttempt, Escape
    <3>4. QED
      BY <2>3, <3>1, <3>2, <3>3 DEF FailedAttempt
  <2>4. QED
    BY <1>2, <2>1, <2>2, <2>3 DEF Reply, TransportFailure, ErrorStatus
<1>3. ASSUME NEW c \in Calls, Resume(c) \/ Cancel(c) PROVE NoFault
  BY <1>3 DEF Resume, Cancel, AttemptBudget
<1>4. CASE Tick \/ UNCHANGED vars
  BY <1>4 DEF Tick, vars
<1>5. QED
  BY <1>1, <1>2, <1>3, <1>4 DEF Next, CallStep

LEMMA InitialCounts ==
  ASSUME Init
  PROVE  /\ Cardinality(Failed) = 0
         /\ Cardinality(Entered) = 0
         /\ Cardinality(Sleeping) = 0
         /\ Cardinality(Cancelled) = 0
<1>1. Failed = {} /\ Entered = {} /\ Sleeping = {} /\ Cancelled = {}
  BY DEF Init, Failed, Faults, Entered, Sleeping, Cancelled
<1>2. QED
  BY <1>1, FS_EmptySet

\* The failures counter is the number of failed calls, and pays for the current run
\* and for every trip.
THEOREM FailuresCoverTrips == Spec => []FailuresCovered
<1>1. Init => FailuresCovered
  BY InitialCounts, ThresholdType DEF Init, FailuresCovered, InitialBreaker
<1>2. TypeOK /\ LoopInv /\ RunMatchesState /\ FailuresCovered /\ [Next]_vars => FailuresCovered'
  <2> SUFFICES ASSUME TypeOK, LoopInv, RunMatchesState, FailuresCovered, [Next]_vars
               PROVE FailuresCovered'
    OBVIOUS
  <2> DEFINE Covered(b, n) ==
        /\ b.failures <= n
        /\ b.trips > 0 => b.trips + Threshold - 1 <= n
  <2>1. /\ breaker \in Breaker /\ now \in Nat /\ metrics.failures \in Nat
        /\ Coherent(breaker)
        /\ Covered(breaker, metrics.failures)
        /\ Failed \in SUBSET Calls
    BY DEF TypeOK, RunMatchesState, Coherent, FailuresCovered, Failed
  <2>2. /\ AfterAllows(breaker, now) \in Breaker
        /\ Coherent(AfterAllows(breaker, now))
        /\ Covered(AfterAllows(breaker, now), metrics.failures)
    BY <2>1, AfterAllowsOK
  <2>3. Covered(AfterSuccess(breaker), metrics.failures)
    BY <2>1, AfterSuccessOK
  <2>4. ASSUME NEW b \in Breaker, NEW n \in Nat, Coherent(b), Covered(b, n)
        PROVE Covered(AfterFailure(b, now), n + 1)
    <3>1. b.failures \in Nat /\ b.trips \in Nat
      BY DEF Breaker
    <3>2. b.state = "half_open" => b.failures >= Threshold
      BY <2>4, <3>1, ThresholdType DEF Coherent
    <3>3. /\ AfterFailure(b, now).failures = b.failures + 1
          /\ \/ AfterFailure(b, now).trips = b.trips
             \/ /\ AfterFailure(b, now).trips = b.trips + 1
                /\ b.state = "half_open" \/ b.failures + 1 >= Threshold
      BY <2>1, AfterFailureOK
    <3>4. QED
      BY <2>4, <3>1, <3>2, <3>3, ThresholdType
  <2>5. CASE /\ \E c \in Calls \ Failed : Failed' = Failed \cup {c}
             /\ metrics'.failures = metrics.failures + 1
             /\ \/ breaker' = AfterFailure(breaker, now)
                \/ breaker' = AfterFailure(AfterAllows(breaker, now), now)
    <3>1. Cardinality(Failed') = Cardinality(Failed) + 1
      BY <2>1, <2>5, CountOneMore
    <3>2. Covered(breaker', metrics'.failures)
      BY <2>1, <2>2, <2>4, <2>5
    <3>3. QED
      BY <2>5, <3>1, <3>2 DEF FailuresCovered
  <2>6. CASE /\ Failed' = Failed
             /\ metrics'.failures = metrics.failures
             /\ \/ breaker' = breaker
                \/ breaker' = AfterAllows(breaker, now)
                \/ breaker' = AfterSuccess(breaker)
    <3>1. Covered(breaker', metrics'.failures)
      BY <2>1, <2>2, <2>3, <2>6
    <3>2. QED
      BY <2>6, <3>1 DEF FailuresCovered
  <2>7. QED
    BY <2>5, <2>6, FaultStep
<1>3. QED
  BY <1>1, <1>2, TypeCorrect, LoopCorrect, RunAndStateAgree, PTL DEF Spec

\* However the attempts of the calls interleave, k trips need at least
\* Threshold + k - 1 calls that failed for good.
THEOREM TripsArePaidFor == Spec => []TripsNeedFailedCalls
<1>1. FailuresCovered => TripsNeedFailedCalls
  BY DEF FailuresCovered, TripsNeedFailedCalls
<1>2. QED
  BY <1>1, FailuresCoverTrips, PTL

-----------------------------------------------------------------------------
(***************************************************************************)
(* Counting requests and retries.                                          *)
(***************************************************************************)

\* What a step does to the two counters and to the sets they count.
LEMMA RequestStep ==
  ASSUME TypeOK, LoopInv, [Next]_vars
  PROVE  \/ /\ UNCHANGED <<metrics.requests, metrics.retries>>
            /\ UNCHANGED <<Entered, Sleeping, Cancelled>>
         \/ /\ metrics'.requests = metrics.requests + 1 /\ metrics'.retries = metrics.retries
            /\ \E c \in Calls \ Entered : Entered' = Entered \cup {c}
            /\ UNCHANGED <<Sleeping, Cancelled>>
         \/ /\ metrics'.requests = metrics.requests /\ metrics'.retries = metrics.retries + 1
            /\ \E c \in Calls \ Sleeping : Sleeping' = Sleeping \cup {c}
            /\ UNCHANGED <<Entered, Cancelled>>
         \/ /\ metrics'.requests = metrics.requests + 1 /\ metrics'.retries = metrics.retries
            /\ \E c \in Sleeping : Sleeping' = Sleeping \ {c}
            /\ UNCHANGED <<Entered, Cancelled>>
         \/ /\ UNCHANGED <<metrics.requests, metrics.retries>>
            /\ \E c \in Calls \ Cancelled :
                  Cancelled' = Cancelled \cup {c} /\ Sleeping' = Sleeping \ {c}
            /\ UNCHANGED Entered
<1> DEFINE Nothing ==
      /\ UNCHANGED <<metrics.requests, metrics.retries>>
      /\ UNCHANGED <<Entered, Sleeping, Cancelled>>
    Enter(c) ==
      /\ metrics'.requests = metrics.requests + 1 /\ metrics'.retries = metrics.retries
      /\ c \notin Entered /\ Entered' = Entered \cup {c}
      /\ UNCHANGED <<Sleeping, Cancelled>>
    Sleep(c) ==
      /\ metrics'.requests = metrics.requests /\ metrics'.retries = metrics.retries + 1
      /\ c \notin Sleeping /\ Sleeping' = Sleeping \cup {c}
      /\ UNCHANGED <<Entered, Cancelled>>
    Wake(c) ==
      /\ metrics'.requests = metrics.requests + 1 /\ metrics'.retries = metrics.retries
      /\ c \in Sleeping /\ Sleeping' = Sleeping \ {c}
      /\ UNCHANGED <<Entered, Cancelled>>
    Leave(c) ==
      /\ UNCHANGED <<metrics.requests, metrics.retries>>
      /\ c \notin Cancelled /\ Cancelled' = Cancelled \cup {c}
      /\ Sleeping' = Sleeping \ {c}
      /\ UNCHANGED Entered
<1> USE DEF TypeOK, LoopInv, CallsConsistent, Entered, Sleeping, Cancelled, Faults, Finish,
            SendRequest, ReportFault
<1>1. ASSUME NEW c \in Calls, Start(c) PROVE Nothing \/ Enter(c)
  <2>1. CASE Refuse(c)
    BY <2>1 DEF Refuse
  <2>2. CASE Begin(c)
    BY <2>2 DEF Begin
  <2>3. CASE BeginWithoutToken(c)
    BY <2>3 DEF BeginWithoutToken
  <2>4. CASE BeginWithoutAttempts(c)
    BY <2>4 DEF BeginWithoutAttempts
  <2>5. QED
    BY <1>1, <2>1, <2>2, <2>3, <2>4 DEF Start
<1>2. ASSUME NEW c \in Calls, Reply(c) PROVE Nothing \/ Sleep(c)
  <2>1. CASE Answered(c) \/ HintOverflow(c)
    BY <2>1 DEF Answered, HintOverflow, Escape
  <2>2. CASE Rejected(c)
    BY <2>2 DEF Rejected
  <2>3. ASSUME NEW e \in Faults, NEW s, NEW h, FailedAttempt(c, e, s, h)
        PROVE Nothing \/ Sleep(c)
    <3>1. CASE StartBackoff(c, h)
      BY <2>3, <3>1 DEF FailedAttempt, StartBackoff
    <3>2. CASE GiveUp(c, e)
      BY <2>3, <3>2 DEF FailedAttempt, GiveUp
    <3>3. CASE Escape(c)
      BY <2>3, <3>3 DEF FailedAttempt, Escape
    <3>4. QED
      BY <2>3, <3>1, <3>2, <3>3 DEF FailedAttempt
  <2>4. QED
    BY <1>2, <2>1, <2>2, <2>3 DEF Reply, TransportFailure, ErrorStatus
<1>3. ASSUME NEW c \in Calls, Resume(c) PROVE Wake(c)
  BY <1>3 DEF Resume, AttemptBudget
<1>4. ASSUME NEW c \in Calls, Cancel(c) PROVE Leave(c)
  BY <1>4 DEF Cancel
<1>5. CASE Tick \/ UNCHANGED vars
  BY <1>5 DEF Tick, vars
<1>6. CASE \E c \in Calls : CallStep(c)
  BY <1>6, <1>1, <1>2, <1>3, <1>4 DEF CallStep
<1>7. QED
  BY <1>5, <1>6 DEF Next

\* The retries counter is explained by the requests, the sleepers and the cancelled.
THEOREM RetriesExplained == Spec => []RetriesAccounted
<1>1. Init => RetriesAccounted
  BY InitialCounts DEF Init, RetriesAccounted
<1>2. TypeOK /\ LoopInv /\ RetriesAccounted /\ [Next]_vars => RetriesAccounted'
  <2> SUFFICES ASSUME TypeOK, LoopInv, RetriesAccounted, [Next]_vars
               PROVE RetriesAccounted'
    OBVIOUS
  <2>1. /\ Entered \in SUBSET Calls /\ Cardinality(Entered) \in Nat
        /\ Sleeping \in SUBSET Calls /\ Cardinality(Sleeping) \in Nat
        /\ Cancelled \in SUBSET Calls /\ Cardinality(Cancelled) \in Nat
    BY CallSetsFinite DEF Entered, Sleeping, Cancelled
  <2>2. metrics.requests \in Nat /\ metrics.retries \in Nat
    BY DEF TypeOK
  <2>3. CASE /\ UNCHANGED <<metrics.requests, metrics.retries>>
             /\ UNCHANGED <<Entered, Sleeping, Cancelled>>
    BY <2>3 DEF RetriesAccounted
  <2>4. CASE /\ metrics'.requests = metrics.requests + 1 /\ metrics'.retries = metrics.retries
             /\ \E c \in Calls \ Entered : Entered' = Entered \cup {c}
             /\ UNCHANGED <<Sleeping, Cancelled>>
    <3>1. Cardinality(Entered') = Cardinality(Entered) + 1
      BY <2>1, <2>4, CountOneMore
    <3>2. QED
      BY <2>1, <2>2, <2>4, <3>1 DEF RetriesAccounted
  <2>5. CASE /\ metrics'.requests = metrics.requests /\ metrics'.retries = metrics.retries + 1
             /\ \E c \in Calls \ Sleeping : Sleeping' = Sleeping \cup {c}
             /\ UNCHANGED <<Entered, Cancelled>>
    <3>1. Cardinality(Sleeping') = Cardinality(Sleeping) + 1
      BY <2>1, <2>5, CountOneMore
    <3>2. QED
      BY <2>1, <2>2, <2>5, <3>1 DEF RetriesAccounted
  <2>6. CASE /\ metrics'.requests = metrics.requests + 1 /\ metrics'.retries = metrics.retries
             /\ \E c \in Sleeping : Sleeping' = Sleeping \ {c}
             /\ UNCHANGED <<Entered, Cancelled>>
    <3>1. Cardinality(Sleeping') = Cardinality(Sleeping) - 1
      BY <2>1, <2>6, CountOneLess
    <3>2. QED
      BY <2>1, <2>2, <2>6, <3>1 DEF RetriesAccounted
  <2>7. ASSUME UNCHANGED <<metrics.requests, metrics.retries>>,
               UNCHANGED Entered,
               NEW c \in Calls \ Cancelled,
               Cancelled' = Cancelled \cup {c}, Sleeping' = Sleeping \ {c}
        PROVE RetriesAccounted'
    <3>1. Cardinality(Cancelled') = Cardinality(Cancelled) + 1
      BY <2>1, <2>7, CountOneMore
    <3>2. \/ Cardinality(Sleeping') = Cardinality(Sleeping) - 1
          \/ Cardinality(Sleeping') = Cardinality(Sleeping)
      <4>1. CASE c \in Sleeping
        BY <2>1, <2>7, <4>1, CountOneLess
      <4>2. CASE c \notin Sleeping
        <5>1. Sleeping' = Sleeping
          BY <2>7, <4>2
        <5>2. QED
          BY <5>1
      <4>3. QED
        BY <4>1, <4>2
    <3>3. QED
      BY <2>1, <2>2, <2>7, <3>1, <3>2 DEF RetriesAccounted
  <2>8. QED
    BY <2>3, <2>4, <2>5, <2>6, <2>7, RequestStep
<1>3. QED
  BY <1>1, <1>2, TypeCorrect, LoopCorrect, PTL DEF Spec

\* Together, IInv of the runs.
THEOREM InvariantHolds == Spec => []IInv
<1>1. LoopInv /\ RunMatchesState /\ FailuresCovered /\ RetriesAccounted => IInv
  BY DEF LoopInv, IInv
<1>2. QED
  BY <1>1, LoopCorrect, RunAndStateAgree, FailuresCoverTrips, RetriesExplained, PTL

-----------------------------------------------------------------------------
(***************************************************************************)
(* Sleeping calls.                                                         *)
(***************************************************************************)

\* A sleep is as long as a delay when it begins, and then time only shortens it: with a
\* non-negative base and cap it is over within the cap and the jitter, with negative
\* ones too as long as the jitter is at most the whole backoff.
THEOREM SleepsEnd == Spec => []WaitsBounded
<1> DEFINE Longest == AtLeast(0, MaxDelay) * (100 + AtLeast(0, JitterPercent))
    Sane == (BaseDelay >= 0 /\ MaxDelay >= 0) \/ JitterPercent <= 100
<1>0. WaitsBounded <=>
        (Sane => \A c \in Calls : pc[c] = "backoff" => 100 * (wakeAt[c] - now) <= Longest)
  BY DEF WaitsBounded
<1>1. Init => WaitsBounded
  BY DEF Init, WaitsBounded
<1>2. TypeOK /\ WaitsBounded /\ [Next]_vars => WaitsBounded'
  <2> SUFFICES ASSUME TypeOK, WaitsBounded, [Next]_vars, Sane PROVE WaitsBounded'
    BY DEF WaitsBounded
  <2>0. Longest \in Int
    BY RetryAssumption DEF AtLeast
  <2>1. \A c \in Calls : pc[c] = "backoff" => 100 * (wakeAt[c] - now) <= Longest
    BY <1>0
  <2>2. WaitsBounded' <=>
          \A c \in Calls : pc'[c] = "backoff" => 100 * (wakeAt'[c] - now') <= Longest
    BY DEF WaitsBounded
  <2>3. ASSUME NEW n \in Nat, NEW h \in Int, NEW d \in Delays(n, h)
        PROVE  d \in Int /\ 100 * d <= Longest
    BY <2>3, DelaysBounded
  <2> HIDE DEF Longest, Sane
  <2> USE DEF TypeOK
  <2>4. CASE \E c \in Calls : pc' = [pc EXCEPT ![c] = "done"] /\ UNCHANGED <<now, wakeAt>>
    BY <2>0, <2>1, <2>2, <2>4
  <2>5. CASE \E c \in Calls : pc' = [pc EXCEPT ![c] = "sending"] /\ UNCHANGED <<now, wakeAt>>
    BY <2>0, <2>1, <2>2, <2>5
  <2>6. ASSUME NEW c \in Calls, NEW h \in Int, StartBackoff(c, h) PROVE WaitsBounded'
    <3>1. PICK d \in Delays(attempt[c], h) : wakeAt' = [wakeAt EXCEPT ![c] = now + d]
      BY <2>6 DEF StartBackoff
    <3>2. d \in Int /\ 100 * d <= Longest
      BY <2>3
    <3>3. 100 * (wakeAt'[c] - now) <= Longest
      BY <3>1, <3>2
    <3>4. pc' = [pc EXCEPT ![c] = "backoff"] /\ UNCHANGED now
      BY <2>6 DEF StartBackoff
    <3>5. ASSUME NEW other \in Calls \ {c}
          PROVE  pc'[other] = pc[other] /\ wakeAt'[other] = wakeAt[other]
      BY <3>1, <3>4
    <3>6. QED
      BY <2>1, <2>2, <3>3, <3>4, <3>5
  <2>7. CASE Tick
    <3>1. UNCHANGED <<pc, wakeAt>> /\ now' = now + 1
      BY <2>7 DEF Tick
    <3>2. \A c \in Calls : 100 * (wakeAt[c] - now') <= 100 * (wakeAt[c] - now)
      BY <3>1
    <3>3. QED
      BY <2>0, <2>1, <2>2, <3>1, <3>2
  <2>8. CASE UNCHANGED vars
    BY <2>1, <2>2, <2>8 DEF vars
  <2>9. ASSUME NEW c \in Calls, NEW e, NEW s, NEW h \in Int, FailedAttempt(c, e, s, h)
        PROVE  WaitsBounded'
    BY <2>4, <2>6, <2>9 DEF FailedAttempt, GiveUp, Escape, Finish
  <2>10. ASSUME NEW c \in Calls, Reply(c) PROVE WaitsBounded'
    BY <2>4, <2>9, <2>10, ClientAssumption
       DEF Reply, Answered, Rejected, HintOverflow, Escape, TransportFailure, ErrorStatus, Finish,
           ParseRetryAfter, NoHint
  <2>11. ASSUME NEW c \in Calls, Start(c) \/ Resume(c) \/ Cancel(c) PROVE WaitsBounded'
    BY <2>4, <2>5, <2>11
       DEF Start, Refuse, Begin, BeginWithoutToken, BeginWithoutAttempts, Resume, Cancel,
           GiveUp, Finish
  <2>12. QED
    BY <2>7, <2>8, <2>10, <2>11 DEF Next, CallStep
<1>3. QED
  BY <1>1, <1>2, TypeCorrect, PTL DEF Spec

-----------------------------------------------------------------------------
(***************************************************************************)
(* Open means silence, once the calls admitted earlier have ended.         *)
(***************************************************************************)

\* While the breaker is open and its reset time has not passed, no call joins those in
\* flight, and all that is sent is the next attempt of one of them.
THEOREM OpenQuarantines == Spec => Quarantine
<1> DEFINE Quiet ==
      /\ InFlight' \subseteq InFlight
      /\ metrics'.requests > metrics.requests => \E c \in Sleeping : pc'[c] = "sending"
<1>1. ASSUME TypeOK, [Next]_vars, breaker.state = "open", ~ResetElapsed(breaker, now)
      PROVE  Quiet
  <2>1. ~Allows(breaker, now)
    BY <1>1 DEF Allows
  <2>2. metrics.requests \in Nat /\ metrics \in [requests: Nat, retries: Nat, failures: Nat]
    BY <1>1 DEF TypeOK
  <2> USE DEF InFlight, Sleeping, Finish, ReportFault, SendRequest
  <2>3. ASSUME NEW c \in Calls, Start(c) PROVE Quiet
    BY <1>1, <2>1, <2>2, <2>3
       DEF TypeOK, Start, Refuse, Begin, BeginWithoutToken, BeginWithoutAttempts
  <2>4. ASSUME NEW c \in Calls, pc[c] \in {"sending", "backoff"},
               pc' = [pc EXCEPT ![c] = "done"] \/ pc' = [pc EXCEPT ![c] = "backoff"],
               metrics'.requests = metrics.requests
        PROVE  Quiet
    BY <1>1, <2>2, <2>4 DEF TypeOK
  <2>5. ASSUME NEW c \in Calls, Reply(c) PROVE Quiet
    BY <2>2, <2>4, <2>5
       DEF Reply, Answered, Rejected, TransportFailure, ErrorStatus, HintOverflow, Escape,
           FailedAttempt, StartBackoff, GiveUp
  <2>6. ASSUME NEW c \in Calls, Resume(c) PROVE Quiet
    <3>1. CASE attempt[c] < settings.attempts
      BY <1>1, <2>2, <2>6, <3>1 DEF TypeOK, Resume
    <3>2. CASE ~(attempt[c] < settings.attempts)
      BY <2>2, <2>4, <2>6, <3>2 DEF Resume, GiveUp
    <3>3. QED
      BY <3>1, <3>2
  <2>7. ASSUME NEW c \in Calls, Cancel(c) PROVE Quiet
    BY <2>4, <2>7 DEF Cancel
  <2>8. CASE Tick \/ UNCHANGED vars
    BY <2>2, <2>8 DEF Tick, vars
  <2>9. QED
    BY <1>1, <2>3, <2>5, <2>6, <2>7, <2>8 DEF Next, CallStep
<1>2. TypeOK /\ [Next]_vars => [breaker.state = "open" /\ ~ResetElapsed(breaker, now) => Quiet]_vars
  BY <1>1
<1>3. QED
  BY <1>2, TypeCorrect, PTL DEF Spec, Quarantine

-----------------------------------------------------------------------------
(***************************************************************************)
(* The client implements BreakerProtocol.                                  *)
(***************************************************************************)

LEMMA SameThreshold == Protocol!Threshold = Threshold
  BY DEF Protocol!Threshold, Threshold

\* allows() answers as the protocol does, and turns the same calls into probes.
LEMMA AllowsRefines ==
  ASSUME TypeOK, RunMatchesState
  PROVE  /\ Allows(breaker, now) <=> Protocol!Admits
         /\ AfterAllows(breaker, now).failures = breaker.failures
         /\ AfterAllows(breaker, now).openedAt = breaker.openedAt
         /\ Allows(breaker, now) =>
              (AfterAllows(breaker, now).state = "half_open") = Protocol!TooManyFailures
  BY SameThreshold, ThresholdType
     DEF TypeOK, Breaker, BreakerState, RunMatchesState, Allows, AfterAllows, ResetElapsed,
         Protocol!Admits, Protocol!TooManyFailures

\* record_failure() is a bad verdict, also after an allows() that was granted.
LEMMA FailureRefines ==
  ASSUME TypeOK, RunMatchesState, UNCHANGED now,
         \/ breaker' = AfterFailure(breaker, now)
         \/ breaker' = AfterFailure(AfterAllows(breaker, now), now)
  PROVE  Protocol!BadVerdict
<1>1. ASSUME NEW b \in Breaker, b.failures = breaker.failures, b.openedAt = breaker.openedAt,
             Coherent(b), breaker' = AfterFailure(b, now)
      PROVE  Protocol!BadVerdict
  BY <1>1, SameThreshold, ThresholdType
     DEF Breaker, BreakerState, Coherent, AfterFailure, Protocol!BadVerdict
<1>2. breaker \in Breaker /\ now \in Nat /\ Coherent(breaker)
  BY DEF TypeOK, RunMatchesState, Coherent
<1>3. AfterAllows(breaker, now) \in Breaker /\ Coherent(AfterAllows(breaker, now))
  BY <1>2, AfterAllowsOK
<1>4. /\ AfterAllows(breaker, now).failures = breaker.failures
      /\ AfterAllows(breaker, now).openedAt = breaker.openedAt
  BY <1>2, AfterAllowsOK
<1>5. QED
  BY <1>1, <1>2, <1>3, <1>4

LEMMA StartRefines ==
  ASSUME TypeOK, RunMatchesState, NEW c \in Calls, Start(c)
  PROVE  Protocol!Next \/ UNCHANGED Protocol!vars
<1> USE DEF TypeOK, Location, Finish, InFlight
<1>1. CASE Refuse(c)
  BY <1>1 DEF Refuse, Protocol!vars
<1>2. CASE Begin(c)
  <2>1. Protocol!Admitted
    BY <1>2, AllowsRefines DEF Begin, Protocol!Admitted
  <2>2. c \notin InFlight /\ InFlight' = InFlight \cup {c}
    BY <1>2 DEF Begin
  <2>3. QED
    BY <2>1, <2>2 DEF Protocol!Next, Protocol!Admit
<1>3. CASE BeginWithoutToken(c)
  <2>1. Protocol!Admitted
    BY <1>3, AllowsRefines DEF BeginWithoutToken, Protocol!Admitted
  <2>2. InFlight' = InFlight
    BY <1>3 DEF BeginWithoutToken
  <2>3. QED
    BY <2>1, <2>2 DEF Protocol!Next, Protocol!AdmitAndDrop
<1>4. CASE BeginWithoutAttempts(c)
  <2>1. Protocol!Admits
    BY <1>4, AllowsRefines DEF BeginWithoutAttempts
  <2>2. Protocol!BadVerdict
    BY <1>4, FailureRefines DEF BeginWithoutAttempts, ReportFault
  <2>3. InFlight' = InFlight
    BY <1>4 DEF BeginWithoutAttempts
  <2>4. QED
    BY <2>1, <2>2, <2>3 DEF Protocol!Next, Protocol!AdmitAndFail
<1>5. QED
  BY <1>1, <1>2, <1>3, <1>4 DEF Start, Protocol!Next

LEMMA ReplyRefines ==
  ASSUME TypeOK, RunMatchesState, NEW c \in Calls, Reply(c)
  PROVE  Protocol!Next \/ UNCHANGED Protocol!vars
<1> USE DEF TypeOK, Location, Finish, InFlight
<1>1. CASE Answered(c)
  <2>1. Protocol!GoodVerdict
    BY <1>1, AfterSuccessOK DEF Answered, AfterSuccess, Breaker, Protocol!GoodVerdict
  <2>2. c \in InFlight /\ InFlight' = InFlight \ {c}
    BY <1>1 DEF Answered
  <2>3. QED
    BY <2>1, <2>2 DEF Protocol!Next, Protocol!Good
<1>2. CASE Rejected(c)
  <2>1. Protocol!BadVerdict
    BY <1>2, FailureRefines DEF Rejected, ReportFault
  <2>2. c \in InFlight /\ InFlight' = InFlight \ {c}
    BY <1>2 DEF Rejected
  <2>3. QED
    BY <2>1, <2>2 DEF Protocol!Next, Protocol!Bad
<1>3. ASSUME NEW e, NEW s, NEW h, FailedAttempt(c, e, s, h)
      PROVE  Protocol!Next \/ UNCHANGED Protocol!vars
  <2>1. CASE StartBackoff(c, h)
    <3>1. InFlight' = InFlight
      BY <1>3, <2>1 DEF FailedAttempt, StartBackoff
    <3>2. QED
      BY <2>1, <3>1 DEF StartBackoff, Protocol!vars
  <2>2. CASE GiveUp(c, e)
    <3>1. Protocol!BadVerdict
      BY <2>2, FailureRefines DEF GiveUp, ReportFault
    <3>2. c \in InFlight /\ InFlight' = InFlight \ {c}
      BY <1>3, <2>2 DEF FailedAttempt, GiveUp
    <3>3. QED
      BY <3>1, <3>2 DEF Protocol!Next, Protocol!Bad
  <2>3. CASE Escape(c)
    BY <1>3, <2>3 DEF FailedAttempt, Escape, Protocol!Next, Protocol!Drop
  <2>4. QED
    BY <1>3, <2>1, <2>2, <2>3 DEF FailedAttempt
<1>4. CASE HintOverflow(c)
  BY <1>4 DEF HintOverflow, Escape, Protocol!Next, Protocol!Drop
<1>5. QED
  BY <1>1, <1>2, <1>3, <1>4 DEF Reply, TransportFailure, ErrorStatus

\* Every behaviour of the client is one of BreakerProtocol: retries, cancellations,
\* late answers and misconfiguration included, the breaker is told at most one
\* verdict per admitted call.
THEOREM ImplementsProtocol == Spec => FollowsProtocol
<1>1. Init => Protocol!Init
  BY DEF Init, InitialBreaker, InFlight, Protocol!Init
<1>2. TypeOK /\ RunMatchesState /\ [Next]_vars => [Protocol!Next]_(Protocol!vars)
  <2> SUFFICES ASSUME TypeOK, RunMatchesState, [Next]_vars
               PROVE  Protocol!Next \/ UNCHANGED Protocol!vars
    OBVIOUS
  <2>1. ASSUME NEW c \in Calls, Resume(c) PROVE Protocol!Next \/ UNCHANGED Protocol!vars
    <3>1. CASE attempt[c] < settings.attempts
      <4>1. InFlight' = InFlight
        BY <2>1, <3>1 DEF Resume, InFlight, TypeOK, Location
      <4>2. QED
        BY <2>1, <3>1, <4>1 DEF Resume, Protocol!vars
    <3>2. CASE ~(attempt[c] < settings.attempts)
      <4>1. Protocol!BadVerdict
        BY <2>1, <3>2, FailureRefines DEF Resume, GiveUp, ReportFault
      <4>2. c \in InFlight /\ InFlight' = InFlight \ {c}
        BY <2>1, <3>2 DEF Resume, GiveUp, Finish, InFlight, TypeOK, Location
      <4>3. QED
        BY <4>1, <4>2 DEF Protocol!Next, Protocol!Bad
    <3>3. QED
      BY <3>1, <3>2
  <2>2. ASSUME NEW c \in Calls, Cancel(c) PROVE Protocol!Drop(c)
    BY <2>2 DEF Cancel, Finish, InFlight, TypeOK, Location, Protocol!Drop
  <2>3. CASE Tick
    BY <2>3 DEF Tick, InFlight, Protocol!Next, Protocol!Tick
  <2>4. CASE UNCHANGED vars
    BY <2>4 DEF vars, InFlight, Protocol!vars
  <2>5. QED
    BY <2>1, <2>2, <2>3, <2>4, StartRefines, ReplyRefines DEF Next, CallStep, Protocol!Next
<1>3. QED
  BY <1>1, <1>2, TypeCorrect, RunAndStateAgree, PTL DEF Spec, FollowsProtocol, Protocol!Spec
=============================================================================
