--------------------------- MODULE OverviewProofs ---------------------------
(***************************************************************************)
(* Theorems about Overview for every set of requests and legs, and every   *)
(* configuration of the breaker.                                           *)
(***************************************************************************)
EXTENDS Overview, SharedLemmas, FiniteSetTheorems

-----------------------------------------------------------------------------
(***************************************************************************)
(* Type correctness.                                                       *)
(***************************************************************************)

\* The variables always have the types TypeOK gives them.
THEOREM TypeCorrect == Spec => []TypeOK
<1> USE DEF TypeOK, Phase, LegState, Unfinished
<1>1. Init => TypeOK
  BY InitialBreakerOK DEF Init
<1>2. TypeOK /\ [Next]_vars => TypeOK'
  <2> SUFFICES ASSUME TypeOK, [Next]_vars PROVE TypeOK'
    OBVIOUS
  <2> USE DEF MoveTo, EndLeg
  <2>1. ASSUME NEW r \in Requests, Gather(r) \/ CancelRequest(r) PROVE TypeOK'
    BY <2>1 DEF Gather, CancelRequest
  <2>2. ASSUME NEW r \in Requests, NEW l \in Legs, Start(r, l) PROVE TypeOK'
    <3>1. AfterAllows(breaker, now) \in Breaker
      BY AfterAllowsOK
    <3>2. AfterFailure(AfterAllows(breaker, now), now) \in Breaker
      BY <3>1, AfterFailureOK
    <3>3. breaker' \in Breaker /\ UNCHANGED <<settings, now, phase, partial>>
      BY <2>2, <3>1, <3>2 DEF Start, Cached, Refused, Admitted, StartLeg
    <3>4. \E s \in LegState : EndLeg(r, l, s)
      BY <2>2 DEF Start, Cached, Refused, Admitted
    <3>5. leg' \in [Requests -> [Legs -> LegState]]
      BY <3>4
    <3>6. QED
      BY <3>3, <3>5
  <2>3. ASSUME NEW r \in Requests, NEW l \in Legs, RunLeg(r, l) PROVE TypeOK'
    <3>1. AfterSuccess(breaker) \in Breaker /\ AfterFailure(breaker, now) \in Breaker
      BY AfterSuccessOK, AfterFailureOK
    <3>2. QED
      BY <2>3, <3>1 DEF RunLeg, Reply, Served, Missing, Fault, Overflow, CancelLeg
  <2>4. ASSUME NEW r \in Requests, Conclude(r) PROVE TypeOK'
    BY <2>4 DEF Conclude, Answer, Fail, EndCancelled, Unavailable
  <2>5. CASE Tick \/ UNCHANGED vars
    BY <2>5 DEF Tick, vars
  <2>6. QED
    BY <2>1, <2>2, <2>3, <2>4, <2>5 DEF Next, Request
<1>3. QED
  BY <1>1, <1>2, PTL DEF Spec

-----------------------------------------------------------------------------
(***************************************************************************)
(* Requests and their tasks.                                               *)
(***************************************************************************)

RequestsInv == NoTaskOutlivesRequest /\ PartialIsHonest

LEMMA RequestsCorrect == Spec => []RequestsInv
<1> USE DEF RequestsInv, NoTaskOutlivesRequest, PartialIsHonest, Ended, Gathered
<1>1. Init => RequestsInv
  BY DEF Init
<1>2. TypeOK /\ RequestsInv /\ [Next]_vars => RequestsInv'
  <2> SUFFICES ASSUME TypeOK, RequestsInv, [Next]_vars PROVE RequestsInv'
    OBVIOUS
  <2> USE DEF TypeOK, MoveTo, EndLeg
  <2>1. ASSUME NEW r \in Requests, Gather(r) \/ CancelRequest(r) PROVE RequestsInv'
    BY <2>1 DEF Gather, CancelRequest
  <2>2. ASSUME NEW r \in Requests, NEW l \in Legs, Start(r, l) PROVE RequestsInv'
    <3>1. \A s \in Requests \ {r} : leg'[s] = leg[s]
      BY <2>2 DEF Start, Cached, Refused, Admitted, StartLeg
    <3>2. phase[r] = "gathering" /\ UNCHANGED <<phase, partial>>
      BY <2>2 DEF Start, Cached, Refused, Admitted, StartLeg
    <3>3. QED
      BY <3>1, <3>2
  <2>3. ASSUME NEW r \in Requests, NEW l \in Legs, RunLeg(r, l) PROVE RequestsInv'
    <3>1. \A s \in Requests \ {r} : leg'[s] = leg[s]
      BY <2>3 DEF RunLeg, Reply, Served, Missing, Fault, Overflow, CancelLeg
    <3>2. phase[r] \in {"gathering", "cancelling"} /\ UNCHANGED <<phase, partial>>
      BY <2>3 DEF RunLeg, Reply, Served, Missing, Fault, Overflow, CancelLeg, Sending
    <3>3. QED
      BY <3>1, <3>2
  <2>4. ASSUME NEW r \in Requests, Conclude(r) PROVE RequestsInv'
    BY <2>4, SMTT(30) DEF Conclude, Answer, Fail, EndCancelled, Unavailable, Legs
  <2>5. CASE Tick \/ UNCHANGED vars
    BY <2>5 DEF Tick, vars
  <2>6. QED
    BY <2>1, <2>2, <2>3, <2>4, <2>5 DEF Next, Request
<1>3. QED
  BY <1>1, <1>2, TypeCorrect, PTL DEF Spec

\* No task is still running when its request has been answered, failed or cancelled.
THEOREM TasksAreOwned == Spec => []NoTaskOutlivesRequest
<1>1. RequestsInv => NoTaskOutlivesRequest
  BY DEF RequestsInv
<1>2. QED
  BY <1>1, RequestsCorrect, PTL

\* An answer lacks exactly what it says it lacks.
THEOREM AnswersAreHonest == Spec => []PartialIsHonest
<1>1. RequestsInv => PartialIsHonest
  BY DEF RequestsInv
<1>2. QED
  BY <1>1, RequestsCorrect, PTL

-----------------------------------------------------------------------------
(***************************************************************************)
(* Refusals and faults.                                                    *)
(***************************************************************************)

BreakerInv ==
    /\ Coherent(breaker)
    /\ breaker.failures <= Cardinality(FaultyTasks)
    /\ RefusalsNeedFaults

LEMMA FaultyTasksFinite == IsFiniteSet(FaultyTasks) /\ Cardinality(FaultyTasks) \in Nat
<1>1. IsFiniteSet(Legs)
  BY OverviewAssumption, FS_Singleton, FS_Union DEF Legs
<1>2. IsFiniteSet(Requests \X Legs)
  BY <1>1, OverviewAssumption, FS_Product
<1>3. IsFiniteSet(FaultyTasks)
  BY <1>2, FS_Subset DEF FaultyTasks
<1>4. QED
  BY <1>3, FS_CardinalityType

\* How a step can disturb BreakerInv: it leaves tasks as faulty as they were, and
\* refuses none but when the breaker is open, or it adds a faulty task.
LEMMA TaskStep ==
  ASSUME TypeOK, [Next]_vars
  PROVE  \/ /\ FaultyTasks' = FaultyTasks
            /\ \/ breaker' = breaker
               \/ breaker' = AfterAllows(breaker, now)
               \/ breaker' = AfterSuccess(breaker)
            /\ \/ breaker.state = "open"
               \/ \A r \in Requests, l \in Legs : leg'[r][l] = "refused" => leg[r][l] = "refused"
         \/ /\ \E t \in (Requests \X Legs) \ FaultyTasks : FaultyTasks' = FaultyTasks \cup {t}
            /\ \/ breaker' = AfterFailure(breaker, now)
               \/ breaker' = AfterFailure(AfterAllows(breaker, now), now)
            /\ \A r \in Requests, l \in Legs : leg'[r][l] = "refused" => leg[r][l] = "refused"
<1> DEFINE Quiet == /\ FaultyTasks' = FaultyTasks
                    /\ \/ breaker' = breaker
                       \/ breaker' = AfterAllows(breaker, now)
                       \/ breaker' = AfterSuccess(breaker)
           NoRefusal == \A r \in Requests, l \in Legs :
                           leg'[r][l] = "refused" => leg[r][l] = "refused"
<1> USE DEF TypeOK, FaultyTasks, MoveTo, EndLeg
<1>1. ASSUME NEW r \in Requests, Gather(r) \/ CancelRequest(r) \/ Conclude(r)
      PROVE  Quiet /\ NoRefusal
  BY <1>1 DEF Gather, CancelRequest, Conclude, Answer, Fail, EndCancelled
<1>2. ASSUME NEW r \in Requests, NEW l \in Legs, NEW s \in LegState \ {"fault"},
             leg[r][l] \in Unfinished, EndLeg(r, l, s)
      PROVE  FaultyTasks' = FaultyTasks /\ (s = "refused" \/ NoRefusal)
  BY <1>2 DEF Unfinished
<1>3. ASSUME NEW r \in Requests, NEW l \in Legs, Cached(r, l) \/ Refused(r, l)
      PROVE  Quiet /\ (breaker.state = "open" \/ NoRefusal)
  <2>1. leg[r][l] \in Unfinished /\ UNCHANGED breaker
    BY <1>3 DEF Cached, Refused, StartLeg, Unfinished
  <2>2. PICK s \in LegState \ {"fault"} :
           EndLeg(r, l, s) /\ (s = "refused" => breaker.state = "open")
    BY <1>3, Zenon DEF Cached, Refused, Allows, LegState
  <2>3. FaultyTasks' = FaultyTasks /\ (s = "refused" \/ NoRefusal)
    BY <1>2, <2>1, <2>2
  <2>4. QED
    BY <2>1, <2>2, <2>3
<1>4. ASSUME NEW r \in Requests, NEW l \in Legs,
             \/ Admitted(r, l) /\ settings.attempts >= 1
             \/ Served(r, l) \/ Missing(r, l) \/ Overflow(r, l) \/ CancelLeg(r, l)
      PROVE  Quiet /\ NoRefusal
  <2>1. leg[r][l] \in Unfinished
    BY <1>4 DEF Admitted, StartLeg, Served, Missing, Overflow, CancelLeg, Sending, Unfinished
  <2>2. PICK s \in LegState \ {"fault", "refused"} : EndLeg(r, l, s)
    <3>1. CASE Admitted(r, l) /\ settings.attempts >= 1
      <4>1. EndLeg(r, l, IF settings.token THEN "sending" ELSE "broken")
        BY <3>1, OverviewAssumption DEF Admitted
      <4>2. QED
        BY <4>1 DEF LegState, Unfinished
    <3>2. QED
      BY <1>4, <3>1 DEF Served, Missing, Overflow, CancelLeg, LegState
  <2>3. breaker' \in {breaker, AfterAllows(breaker, now), AfterSuccess(breaker)}
    BY <1>4, OverviewAssumption DEF Admitted, Served, Missing, Overflow, CancelLeg
  <2>4. FaultyTasks' = FaultyTasks /\ NoRefusal
    BY <1>2, <2>1, <2>2
  <2>5. QED
    BY <2>3, <2>4
<1>5. ASSUME NEW r \in Requests, NEW l \in Legs,
             Fault(r, l) \/ (Admitted(r, l) /\ settings.attempts < 1)
      PROVE  /\ \E t \in (Requests \X Legs) \ FaultyTasks : FaultyTasks' = FaultyTasks \cup {t}
             /\ \/ breaker' = AfterFailure(breaker, now)
                \/ breaker' = AfterFailure(AfterAllows(breaker, now), now)
             /\ NoRefusal
  <2>1. leg[r][l] \in Unfinished
    BY <1>5 DEF Fault, Sending, Admitted, StartLeg, Unfinished
  <2>2. EndLeg(r, l, "fault")
    BY <1>5, OverviewAssumption DEF Fault, Admitted
  <2>3. <<r, l>> \in (Requests \X Legs) \ FaultyTasks
    BY <2>1 DEF Unfinished
  <2>4. FaultyTasks' = FaultyTasks \cup {<<r, l>>} /\ NoRefusal
    BY <2>1, <2>2
  <2>5. \/ breaker' = AfterFailure(breaker, now)
        \/ breaker' = AfterFailure(AfterAllows(breaker, now), now)
    BY <1>5, OverviewAssumption DEF Fault, Admitted
  <2>6. QED
    BY <2>3, <2>4, <2>5
<1>6. CASE Tick \/ UNCHANGED vars
  BY <1>6 DEF Tick, vars
<1>7. settings.attempts >= 1 \/ settings.attempts < 1
  BY OverviewAssumption
<1> HIDE DEF Quiet, NoRefusal
<1>8. ASSUME NEW r \in Requests, Request(r)
      PROVE  \/ Quiet /\ (breaker.state = "open" \/ NoRefusal)
             \/ /\ \E t \in (Requests \X Legs) \ FaultyTasks : FaultyTasks' = FaultyTasks \cup {t}
                /\ \/ breaker' = AfterFailure(breaker, now)
                   \/ breaker' = AfterFailure(AfterAllows(breaker, now), now)
                /\ NoRefusal
  <2>1. CASE Gather(r) \/ CancelRequest(r) \/ Conclude(r)
    BY <2>1, <1>1
  <2>2. ASSUME NEW l \in Legs, Start(r, l) \/ RunLeg(r, l)
        PROVE  \/ Cached(r, l) \/ Refused(r, l)
               \/ (Admitted(r, l) /\ settings.attempts >= 1)
               \/ Served(r, l) \/ Missing(r, l) \/ Overflow(r, l) \/ CancelLeg(r, l)
               \/ Fault(r, l) \/ (Admitted(r, l) /\ settings.attempts < 1)
    BY <2>2, <1>7, Zenon DEF Start, RunLeg, Reply
  <2>3. CASE \E l \in Legs : Start(r, l) \/ RunLeg(r, l)
    BY <2>3, <2>2, <1>3, <1>4, <1>5, Zenon
  <2>4. QED
    BY <1>8, <2>1, <2>3, Zenon DEF Request
<1>9. QED
  BY <1>6, <1>8 DEF Next, Quiet, NoRefusal

LEMMA BreakerCorrect == Spec => []BreakerInv
<1>1. Init => BreakerInv
  <2>1. ASSUME Init PROVE FaultyTasks = {}
    BY <2>1 DEF Init, FaultyTasks
  <2>2. QED
    BY <2>1, FS_EmptySet, InitialBreakerOK DEF Init, InitialBreaker, BreakerInv, RefusalsNeedFaults
<1>2. TypeOK /\ BreakerInv /\ [Next]_vars => BreakerInv'
  <2> SUFFICES ASSUME TypeOK, BreakerInv, [Next]_vars PROVE BreakerInv'
    OBVIOUS
  <2> DEFINE n == Cardinality(FaultyTasks)
  <2>1. breaker \in Breaker /\ breaker.failures \in Nat /\ now \in Nat /\ n \in Nat /\ Threshold \in Nat
    BY FaultyTasksFinite, ThresholdType DEF TypeOK, Breaker
  <2>2. CASE /\ FaultyTasks' = FaultyTasks
             /\ \/ breaker' = breaker
                \/ breaker' = AfterAllows(breaker, now)
                \/ breaker' = AfterSuccess(breaker)
             /\ \/ breaker.state = "open"
                \/ \A r \in Requests, l \in Legs : leg'[r][l] = "refused" => leg[r][l] = "refused"
    <3>1. Coherent(breaker')
      BY <2>1, <2>2, AfterAllowsOK, AfterSuccessOK DEF BreakerInv
    <3>2. breaker'.failures <= Cardinality(FaultyTasks')
      BY <2>1, <2>2, AfterAllowsOK, AfterSuccessOK, SMTT(30) DEF BreakerInv
    <3>3. breaker.state = "open" => n >= Threshold
      BY <2>1 DEF BreakerInv, Coherent
    <3>4. RefusalsNeedFaults'
      BY <2>1, <2>2, <3>3 DEF BreakerInv, RefusalsNeedFaults
    <3>5. QED
      BY <3>1, <3>2, <3>4 DEF BreakerInv, Coherent
  <2>3. CASE /\ \E t \in (Requests \X Legs) \ FaultyTasks : FaultyTasks' = FaultyTasks \cup {t}
             /\ \/ breaker' = AfterFailure(breaker, now)
                \/ breaker' = AfterFailure(AfterAllows(breaker, now), now)
             /\ \A r \in Requests, l \in Legs : leg'[r][l] = "refused" => leg[r][l] = "refused"
    <3>1. Cardinality(FaultyTasks') = n + 1
      BY <2>3, FaultyTasksFinite, FS_AddElement
    <3>2. Coherent(breaker') /\ breaker'.failures = breaker.failures + 1
      <4>1. PICK asked \in {breaker, AfterAllows(breaker, now)} : breaker' = AfterFailure(asked, now)
        BY <2>3
      <4>2. asked \in Breaker /\ Coherent(asked) /\ asked.failures = breaker.failures
        BY <2>1, <4>1, AfterAllowsOK DEF BreakerInv
      <4>3. QED
        BY <2>1, <4>1, <4>2, AfterFailureOK
    <3>3. RefusalsNeedFaults'
      BY <2>1, <2>3, <3>1 DEF BreakerInv, RefusalsNeedFaults
    <3>4. QED
      BY <2>1, <3>1, <3>2, <3>3 DEF BreakerInv, Coherent
  <2>4. QED
    BY <2>2, <2>3, TaskStep
<1>3. QED
  BY <1>1, <1>2, TypeCorrect, PTL DEF Spec

\* Tasks are refused only after Threshold others have met faults.
THEOREM RefusalsArePaidFor == Spec => []RefusalsNeedFaults
<1>1. BreakerInv => RefusalsNeedFaults
  BY DEF BreakerInv
<1>2. QED
  BY <1>1, BreakerCorrect, PTL

\* The inductive invariant, as the runs check it.
THEOREM InvariantHolds == Spec => []IInv
<1>1. BreakerInv /\ RequestsInv => IInv
  BY DEF BreakerInv, RequestsInv, Coherent, IInv
<1>2. QED
  BY <1>1, BreakerCorrect, RequestsCorrect, PTL
=============================================================================
