------------------------------ MODULE Overview ------------------------------
(***************************************************************************)
(* CatalogService.movie_overview (src/movieservice/catalog/service.py) for *)
(* several requests at once: each fans out into tasks, one per document,   *)
(* gathers them all and answers with what it got.  All tasks share the     *)
(* circuit breaker of the one upstream.                                    *)
(*                                                                         *)
(* A task finds its document in the cache, or is admitted or refused by    *)
(* the breaker, and once admitted reports at most one verdict, as          *)
(* BreakerProtocol says of ResilientClient: retries do not show here.      *)
(* Each request is about a movie of its own, so tasks share no load; which *)
(* of the documents are still cached depends on each entry's ttl.          *)
(***************************************************************************)
EXTENDS CircuitBreaker, FiniteSets

CONSTANTS
    Requests,       \* executions of movie_overview
    Enrichment,     \* the optional legs: "cast", "similar" and "watch" in the code
    Deployments     \* what Settings.from_env may find in the environment

ASSUME OverviewAssumption ==
    /\ IsFiniteSet(Requests)
    /\ IsFiniteSet(Enrichment)
    /\ "detail" \notin Enrichment
    /\ Deployments \subseteq [token: BOOLEAN, attempts: Int]

Legs == {"detail"} \cup Enrichment

VARIABLES
    settings,   \* TMDB_TOKEN, set or not, and RETRY_ATTEMPTS
    now,        \* time.monotonic()
    breaker,    \* the breaker of the upstream
    phase,      \* where each request is
    leg,        \* where each of its tasks is, or how it ended
    partial     \* what an answer says is missing

vars == <<settings, now, breaker, phase, leg, partial>>

Phase == {"new", "gathering", "cancelling", "answered", "failed", "cancelled"}

\* "missing" is a failure of the task that the breaker takes for a success: 404, a
\* body that is not a JSON object, a document that does not fit the model.  Of one that
\* is "broken" the breaker learns nothing: no token, or a Retry-After out of range.
Unfinished == {"new", "sending"}
LegState == Unfinished \cup {"value", "missing", "fault", "refused", "broken", "cancelled"}

TypeOK ==
    /\ settings \in Deployments
    /\ now \in Nat
    /\ breaker \in Breaker
    /\ phase \in [Requests -> Phase]
    /\ leg \in [Requests -> [Legs -> LegState]]
    /\ partial \in [Requests -> SUBSET Enrichment]

Init ==
    /\ settings \in Deployments
    /\ now = 0
    /\ breaker = InitialBreaker
    /\ phase = [r \in Requests |-> "new"]
    /\ leg = [r \in Requests |-> [l \in Legs |-> "new"]]
    /\ partial = [r \in Requests |-> {}]

-----------------------------------------------------------------------------
MoveTo(r, p) == phase' = [phase EXCEPT ![r] = p]

EndLeg(r, l, s) == leg' = [leg EXCEPT ![r][l] = s]

\* The tasks are created, to be started in order by the event loop.
Gather(r) ==
    /\ phase[r] = "new"
    /\ MoveTo(r, "gathering")
    /\ UNCHANGED <<settings, now, breaker, leg, partial>>

\* They are started one right after the other, each up to its first suspension, so that
\* nothing but the clock moves while a request has started some of them and not all.
Unstarted(r) == {l \in Legs : leg[r][l] = "new"}
Starting(r) == phase[r] = "gathering" /\ Unstarted(r) # {} /\ Unstarted(r) # Legs

StartLeg(r, l) ==
    /\ phase[r] = "gathering"
    /\ \A q \in Requests \ {r} : ~Starting(q)
    /\ leg[r][l] = "new"
    /\ l # "detail" => leg[r]["detail"] # "new"
    /\ UNCHANGED <<settings, now, phase, partial>>

\* A document that was served once may still be cached.  It was cached before it was
\* read, so one that does not fit the model is found again.
Cached(r, l) ==
    /\ StartLeg(r, l)
    /\ settings.token /\ settings.attempts >= 1
    /\ \E s \in {"value", "missing"} : EndLeg(r, l, s)
    /\ UNCHANGED breaker

Refused(r, l) ==
    /\ StartLeg(r, l)
    /\ ~Allows(breaker, now)
    /\ EndLeg(r, l, "refused")
    /\ UNCHANGED breaker

\* Without a token, or with RETRY_ATTEMPTS below one, the task ends without suspending.
Admitted(r, l) ==
    /\ StartLeg(r, l)
    /\ Allows(breaker, now)
    /\ LET asked == AfterAllows(breaker, now) IN
        \/ /\ settings.attempts < 1
           /\ EndLeg(r, l, "fault")
           /\ breaker' = AfterFailure(asked, now)
        \/ /\ settings.attempts >= 1
           /\ EndLeg(r, l, IF settings.token THEN "sending" ELSE "broken")
           /\ breaker' = asked

Start(r, l) == Cached(r, l) \/ Refused(r, l) \/ Admitted(r, l)

-----------------------------------------------------------------------------
Sending(r, l) == phase[r] = "gathering" /\ leg[r][l] = "sending"

Served(r, l) ==
    /\ Sending(r, l)
    /\ breaker' = AfterSuccess(breaker)
    /\ EndLeg(r, l, "value")
    /\ UNCHANGED <<settings, now, phase, partial>>

\* Mutant of Missing: a definitive "no such record" is a fault.
MissingIsFault(r, l) ==
    /\ Sending(r, l)
    /\ breaker' = AfterFailure(breaker, now)
    /\ EndLeg(r, l, "missing")
    /\ UNCHANGED <<settings, now, phase, partial>>

Missing(r, l) ==
    /\ Sending(r, l)
    /\ breaker' = AfterSuccess(breaker)
    /\ EndLeg(r, l, "missing")
    /\ UNCHANGED <<settings, now, phase, partial>>

Fault(r, l) ==
    /\ Sending(r, l)
    /\ breaker' = AfterFailure(breaker, now)
    /\ EndLeg(r, l, "fault")
    /\ UNCHANGED <<settings, now, phase, partial>>

\* int() of an infinite Retry-After raises, and the breaker is told nothing.
Overflow(r, l) ==
    /\ Sending(r, l)
    /\ EndLeg(r, l, "broken")
    /\ UNCHANGED <<settings, now, breaker, phase, partial>>

-----------------------------------------------------------------------------
\* gather(return_exceptions=True) waits for all tasks, whatever becomes of them.
Gathered(r) == \A l \in Legs : leg[r][l] \notin Unfinished

Unavailable(r) == {l \in Enrichment : leg[r][l] # "value"}

\* Mutant of Answer: what was refused is not reported.
AnswerFaultsOnly(r) ==
    /\ phase[r] = "gathering" /\ Gathered(r)
    /\ leg[r]["detail"] = "value"
    /\ MoveTo(r, "answered")
    /\ partial' = [partial EXCEPT ![r] = {l \in Enrichment : leg[r][l] \in {"missing", "fault"}}]
    /\ UNCHANGED <<settings, now, breaker, leg>>

Answer(r) ==
    /\ phase[r] = "gathering" /\ Gathered(r)
    /\ leg[r]["detail"] = "value"
    /\ MoveTo(r, "answered")
    /\ partial' = [partial EXCEPT ![r] = Unavailable(r)]
    /\ UNCHANGED <<settings, now, breaker, leg>>

\* Mutant of Fail: gather without return_exceptions raises the first exception.
FailEarly(r) ==
    /\ phase[r] = "gathering"
    /\ leg[r]["detail"] \notin Unfinished \cup {"value"}
    /\ MoveTo(r, "failed")
    /\ UNCHANGED <<settings, now, breaker, leg, partial>>

Fail(r) ==
    /\ phase[r] = "gathering" /\ Gathered(r)
    /\ leg[r]["detail"] # "value"
    /\ MoveTo(r, "failed")
    /\ UNCHANGED <<settings, now, breaker, leg, partial>>

\* Cancelling the request, before its tasks have started or after, cancels them; each
\* ends when it is resumed, one that has not started without ever asking the breaker.
CancelRequest(r) ==
    /\ phase[r] = "gathering"
    /\ MoveTo(r, "cancelling")
    /\ UNCHANGED <<settings, now, breaker, leg, partial>>

\* Mutant of CancelLeg: tasks that have not started yet are forgotten.
CancelStartedLeg(r, l) ==
    /\ phase[r] = "cancelling"
    /\ leg[r][l] = "sending"
    /\ EndLeg(r, l, "cancelled")
    /\ UNCHANGED <<settings, now, breaker, phase, partial>>

CancelLeg(r, l) ==
    /\ phase[r] = "cancelling"
    /\ leg[r][l] \in Unfinished
    /\ EndLeg(r, l, "cancelled")
    /\ UNCHANGED <<settings, now, breaker, phase, partial>>

EndCancelled(r) ==
    /\ phase[r] = "cancelling" /\ Gathered(r)
    /\ MoveTo(r, "cancelled")
    /\ UNCHANGED <<settings, now, breaker, leg, partial>>

Tick == now' = now + 1 /\ UNCHANGED <<settings, breaker, phase, leg, partial>>

-----------------------------------------------------------------------------
Reply(r, l) == Served(r, l) \/ Missing(r, l) \/ Fault(r, l) \/ Overflow(r, l)

RunLeg(r, l) == Reply(r, l) \/ CancelLeg(r, l)

Conclude(r) == Answer(r) \/ Fail(r) \/ EndCancelled(r)

\* What may happen while no request is about to start more of its tasks.
Settled == \A r \in Requests : ~Starting(r)

Request(r) ==
    \/ \E l \in Legs : Start(r, l)
    \/ Settled /\ (Gather(r) \/ CancelRequest(r) \/ Conclude(r) \/ \E l \in Legs : RunLeg(r, l))

Next == (\E r \in Requests : Request(r)) \/ Tick

Spec == Init /\ [][Next]_vars

\* The event loop runs every task, and every call of the client returns.
Fairness ==
    \A r \in Requests :
        /\ WF_vars(Settled /\ Conclude(r))
        /\ \A l \in Legs : WF_vars(Start(r, l)) /\ WF_vars(Settled /\ RunLeg(r, l))

FairSpec == Spec /\ Fairness

-----------------------------------------------------------------------------
(***************************************************************************)
(* Properties.                                                             *)
(***************************************************************************)
Ended(r) == phase[r] \in {"answered", "failed", "cancelled"}
FaultyTasks == {t \in Requests \X Legs : leg[t[1]][t[2]] = "fault"}

\* No task outlives its request, whichever way it ended: nothing of it will still
\* report a verdict or occupy a connection.
NoTaskOutlivesRequest == \A r \in Requests : Ended(r) => Gathered(r)

\* An answer has the required document and admits to everything else it lacks, also
\* to what was never asked for because the breaker opened half-way through.
PartialIsHonest ==
    \A r \in Requests : phase[r] = "answered" =>
        /\ leg[r]["detail"] = "value"
        /\ \A l \in Enrichment : leg[r][l] = "value" <=> l \notin partial[r]

\* A task is refused only after Threshold tasks have met faults: movies the upstream
\* does not know and requests that are cancelled never shut the others out.
RefusalsNeedFaults ==
    (\E r \in Requests, l \in Legs : leg[r][l] = "refused") =>
        Cardinality(FaultyTasks) >= Threshold

\* Every request that fans out ends.
EveryRequestEnds == \A r \in Requests : phase[r] = "gathering" ~> Ended(r)

-----------------------------------------------------------------------------
\* Inductive: the run of failures the breaker counts is covered by tasks that met a
\* fault, and requests that have ended are as they should be.
IInv ==
    /\ breaker.state = "closed" <=> breaker.failures < Threshold
    /\ breaker.failures <= Cardinality(FaultyTasks)
    /\ RefusalsNeedFaults
    /\ NoTaskOutlivesRequest
    /\ PartialIsHonest
=============================================================================
