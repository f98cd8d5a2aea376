-------------------------- MODULE ResilientClient --------------------------
(***************************************************************************)
(* Concurrent executions of ResilientHttpClient._get_json_uncached         *)
(* (src/movieservice/transport/client.py): one event loop, so a call runs  *)
(* without interruption from one await to the next, and every action is    *)
(* the code between two suspension points.  A call suspends while its      *)
(* request is out ("sending") and while it sleeps before a retry           *)
(* ("backoff").  All calls share the breaker and the counters.             *)
(*                                                                         *)
(* The upstream is the environment: any reply, or no reply, at any time.   *)
(***************************************************************************)
EXTENDS CircuitBreaker, RetryPolicy, FiniteSets

CONSTANTS
    Calls,          \* executions of _get_json_uncached
    Configurations, \* what Settings.from_env may find in the environment
    ErrorStatuses,  \* HTTP statuses >= 400, other than 404, the upstream answers
    RetryHeaders    \* Retry-After headers it sends with them

\* TMDB_TOKEN, set or not, and RETRY_ATTEMPTS, which may be zero or negative.
Settings == [token: BOOLEAN, attempts: Int]

ASSUME ClientAssumption ==
    /\ IsFiniteSet(Calls)
    /\ Configurations \subseteq Settings
    /\ ErrorStatuses \subseteq 400..599 \ {404}
    /\ RetryHeaders \subseteq Int

VARIABLES
    settings,   \* read once at startup
    now,        \* time.monotonic()
    breaker,    \* self.breaker
    metrics,    \* self._metrics
    pc,         \* where each call is suspended
    attempt,    \* the loop variable, 0 before the loop
    wakeAt,     \* when the sleep of a backing-off call is over
    outcome     \* how a call ended

vars == <<settings, now, breaker, metrics, pc, attempt, wakeAt, outcome>>

Location == {"new", "sending", "backoff", "done"}

\* The errors recorded as a failure of the dependency, and all endings of a call.
Faults == {"timeout", "unavailable", "rate_limited"}
Outcome == Faults \cup
    {"none", "payload", "bad_payload", "not_found", "circuit_open", "not_configured", "overflow",
     "cancelled"}

TypeOK ==
    /\ settings \in Configurations
    /\ now \in Nat
    /\ breaker \in Breaker
    /\ metrics \in [requests: Nat, retries: Nat, failures: Nat]
    /\ pc \in [Calls -> Location]
    /\ attempt \in [Calls -> Nat]
    /\ wakeAt \in [Calls -> Int]
    /\ outcome \in [Calls -> Outcome]

Init ==
    /\ settings \in Configurations
    /\ now = 0
    /\ breaker = InitialBreaker
    /\ metrics = [requests |-> 0, retries |-> 0, failures |-> 0]
    /\ pc = [c \in Calls |-> "new"]
    /\ attempt = [c \in Calls |-> 0]
    /\ wakeAt = [c \in Calls |-> 0]
    /\ outcome = [c \in Calls |-> "none"]

-----------------------------------------------------------------------------
\* Pieces of a step.

Finish(c, result) ==
    /\ pc' = [pc EXCEPT ![c] = "done"]
    /\ outcome' = [outcome EXCEPT ![c] = result]

\* One turn of the retry loop, up to the await of the response.
SendRequest(c) ==
    /\ attempt' = [attempt EXCEPT ![c] = @ + 1]
    /\ metrics' = [metrics EXCEPT !.requests = @ + 1]

\* record_failure() and the failures counter always go together.
ReportFault(b) ==
    /\ breaker' = AfterFailure(b, now)
    /\ metrics' = [metrics EXCEPT !.failures = @ + 1]

-----------------------------------------------------------------------------
\* The start of a call, up to its first suspension.

\* Mutant of Refuse: failing fast counts as a failure of the dependency.
RefuseRecorded(c) ==
    /\ pc[c] = "new"
    /\ ~Allows(breaker, now)
    /\ ReportFault(breaker)
    /\ Finish(c, "circuit_open")
    /\ UNCHANGED <<settings, now, attempt, wakeAt>>

Refuse(c) ==
    /\ pc[c] = "new"
    /\ ~Allows(breaker, now)
    /\ Finish(c, "circuit_open")
    /\ UNCHANGED <<settings, now, breaker, metrics, attempt, wakeAt>>

Begin(c) ==
    /\ pc[c] = "new"
    /\ Allows(breaker, now)
    /\ settings.attempts >= 1
    /\ settings.token
    /\ breaker' = AfterAllows(breaker, now)
    /\ SendRequest(c)
    /\ pc' = [pc EXCEPT ![c] = "sending"]
    /\ UNCHANGED <<settings, now, wakeAt, outcome>>

\* Mutant of BeginWithoutToken: any exception of an attempt is a failure.
BeginWithoutTokenRecorded(c) ==
    /\ pc[c] = "new"
    /\ Allows(breaker, now)
    /\ settings.attempts >= 1
    /\ ~settings.token
    /\ attempt' = [attempt EXCEPT ![c] = @ + 1]
    /\ ReportFault(AfterAllows(breaker, now))
    /\ Finish(c, "not_configured")
    /\ UNCHANGED <<settings, now, wakeAt>>

\* The headers provider raises inside the loop, where only httpx errors are caught.
BeginWithoutToken(c) ==
    /\ pc[c] = "new"
    /\ Allows(breaker, now)
    /\ settings.attempts >= 1
    /\ ~settings.token
    /\ breaker' = AfterAllows(breaker, now)
    /\ SendRequest(c)
    /\ Finish(c, "not_configured")
    /\ UNCHANGED <<settings, now, wakeAt>>

\* With RETRY_ATTEMPTS below one the loop body never runs.
BeginWithoutAttempts(c) ==
    /\ pc[c] = "new"
    /\ Allows(breaker, now)
    /\ settings.attempts < 1
    /\ ReportFault(AfterAllows(breaker, now))
    /\ Finish(c, "unavailable")
    /\ UNCHANGED <<settings, now, attempt, wakeAt>>

-----------------------------------------------------------------------------
\* A request in flight ends.

\* A status below 400, with or without a JSON object in the body, and a 404 all
\* count as a success of the dependency.
Answered(c) ==
    /\ pc[c] = "sending"
    /\ breaker' = AfterSuccess(breaker)
    /\ \E result \in {"payload", "bad_payload", "not_found"} : Finish(c, result)
    /\ UNCHANGED <<settings, now, metrics, attempt, wakeAt>>

\* An httpx error outside _RETRYABLE_EXCEPTIONS.
Rejected(c) ==
    /\ pc[c] = "sending"
    /\ ReportFault(breaker)
    /\ Finish(c, "unavailable")
    /\ UNCHANGED <<settings, now, attempt, wakeAt>>

\* Mutants of StartBackoff: each failed attempt is recorded, or the retry not counted.
StartBackoffRecorded(c, hint) ==
    /\ \E delay \in Delays(attempt[c], hint) : wakeAt' = [wakeAt EXCEPT ![c] = now + delay]
    /\ metrics' = [metrics EXCEPT !.retries = @ + 1]
    /\ breaker' = AfterFailure(breaker, now)
    /\ pc' = [pc EXCEPT ![c] = "backoff"]
    /\ UNCHANGED <<settings, now, attempt, outcome>>

StartBackoffUncounted(c, hint) ==
    /\ \E delay \in Delays(attempt[c], hint) : wakeAt' = [wakeAt EXCEPT ![c] = now + delay]
    /\ pc' = [pc EXCEPT ![c] = "backoff"]
    /\ UNCHANGED <<settings, now, breaker, metrics, attempt, outcome>>

StartBackoff(c, hint) ==
    /\ \E delay \in Delays(attempt[c], hint) : wakeAt' = [wakeAt EXCEPT ![c] = now + delay]
    /\ metrics' = [metrics EXCEPT !.retries = @ + 1]
    /\ pc' = [pc EXCEPT ![c] = "backoff"]
    /\ UNCHANGED <<settings, now, breaker, attempt, outcome>>

GiveUp(c, error) ==
    /\ ReportFault(breaker)
    /\ Finish(c, error)
    /\ UNCHANGED <<settings, now, attempt, wakeAt>>

\* An exception that is no domain error leaves the loop: nothing catches or records it.
Escape(c) ==
    /\ Finish(c, "overflow")
    /\ UNCHANGED <<settings, now, breaker, metrics, attempt, wakeAt>>

FailedAttempt(c, error, status, hint) ==
    /\ pc[c] = "sending"
    /\ \/ /\ ShouldRetry(settings.attempts, attempt[c], status)
          /\ ~DelayOverflows(attempt[c], hint)
          /\ StartBackoff(c, hint)
       \/ /\ ShouldRetry(settings.attempts, attempt[c], status)
          /\ DelayOverflows(attempt[c], hint)
          /\ Escape(c)
       \/ ~ShouldRetry(settings.attempts, attempt[c], status) /\ GiveUp(c, error)

\* Timeout, refused connection, broken read, exhausted pool.
TransportFailure(c) ==
    \E error \in {"timeout", "unavailable"} : FailedAttempt(c, error, NoStatus, NoHint)

ErrorStatus(c) ==
    \E status \in ErrorStatuses, header \in RetryHeaders :
        FailedAttempt(c, IF status = 429 THEN "rate_limited" ELSE "unavailable",
                      status, ParseRetryAfter(header))

\* A Retry-After may spell an infinite float: _status_error makes an int of it when
\* the status is 429, before anything else is done with the answer.
HintOverflow(c) ==
    /\ pc[c] = "sending"
    /\ 429 \in ErrorStatuses
    /\ Escape(c)

\* Mutant of Resume: a retry waits until the breaker is closed.
ResumeWhenClosed(c) ==
    /\ pc[c] = "backoff"
    /\ now >= wakeAt[c]
    /\ breaker.state = "closed"
    /\ SendRequest(c)
    /\ pc' = [pc EXCEPT ![c] = "sending"]
    /\ UNCHANGED <<settings, now, breaker, wakeAt, outcome>>

\* The sleep of _backoff is over: continue the loop, without asking the breaker.  If
\* range() held no further attempt, the call would give up with the last error.
Resume(c) ==
    /\ pc[c] = "backoff"
    /\ now >= wakeAt[c]
    /\ IF attempt[c] < settings.attempts
       THEN /\ SendRequest(c)
            /\ pc' = [pc EXCEPT ![c] = "sending"]
            /\ UNCHANGED <<settings, now, breaker, wakeAt, outcome>>
       ELSE \E error \in Faults : GiveUp(c, error)

\* Mutant of Cancel: a caller that goes away counts as a failure.
CancelRecorded(c) ==
    /\ pc[c] \in {"sending", "backoff"}
    /\ ReportFault(breaker)
    /\ Finish(c, "cancelled")
    /\ UNCHANGED <<settings, now, attempt, wakeAt>>

\* CancelledError at a suspension point: nothing catches it, nothing is recorded.
Cancel(c) ==
    /\ pc[c] \in {"sending", "backoff"}
    /\ Finish(c, "cancelled")
    /\ UNCHANGED <<settings, now, breaker, metrics, attempt, wakeAt>>

Tick ==
    /\ now' = now + 1
    /\ UNCHANGED <<settings, breaker, metrics, pc, attempt, wakeAt, outcome>>

-----------------------------------------------------------------------------
Start(c) == Refuse(c) \/ Begin(c) \/ BeginWithoutToken(c) \/ BeginWithoutAttempts(c)

Reply(c) ==
    \/ Answered(c) \/ Rejected(c)
    \/ TransportFailure(c) \/ ErrorStatus(c) \/ HintOverflow(c)

CallStep(c) == Start(c) \/ Reply(c) \/ Resume(c) \/ Cancel(c)

Next == (\E c \in Calls : CallStep(c)) \/ Tick

Spec == Init /\ [][Next]_vars

\* Time passes, the event loop runs a coroutine whose sleep is over, and httpx
\* ends every request: with a reply, or with its own timeout.
FairSpec ==
    /\ Spec
    /\ WF_vars(Tick)
    /\ \A c \in Calls : WF_vars(Reply(c)) /\ WF_vars(Resume(c))

-----------------------------------------------------------------------------
(***************************************************************************)
(* Properties.                                                             *)
(***************************************************************************)
InFlight == {c \in Calls : pc[c] \in {"sending", "backoff"}}
Sleeping == {c \in Calls : pc[c] = "backoff"}
Entered == {c \in Calls : attempt[c] > 0}
Failed == {c \in Calls : outcome[c] \in Faults}
Cancelled == {c \in Calls : outcome[c] = "cancelled"}

\* The breaker is closed exactly while the run of failures is short, whatever the
\* order in which probes and calls admitted earlier report: record_failure and
\* record_success never leave state and counter in disagreement.
RunMatchesState == breaker.state = "closed" <=> breaker.failures < Threshold

\* Every trip is paid for by failed calls, the first one by Threshold of them: the
\* attempts of one call, its retries and cancelled calls count for nothing in
\* record_failure, so one slow caller cannot open the breaker for the others.
TripsNeedFailedCalls ==
    breaker.trips > 0 => breaker.trips + Threshold - 1 <= Cardinality(Failed)

\* A service without a token refuses its own calls without blaming the dependency:
\* ConfigurationError leaves the loop, from inside its try, unseen by the breaker.
MisconfigurationIsNoFault ==
    ~settings.token /\ settings.attempts >= 1 =>
        breaker = InitialBreaker /\ metrics.failures = 0

\* The retry counter of snapshot() is explained by the requests: each retry is
\* followed by a request, is still asleep, or belongs to a cancelled call.
RetriesAccounted ==
    LET owed == metrics.retries + Cardinality(Entered) - metrics.requests
    IN  Cardinality(Sleeping) <= owed /\ owed <= Cardinality(Sleeping) + Cardinality(Cancelled)

\* A call sends at most RETRY_ATTEMPTS requests, and sleeps only if it will send
\* another one: should_retry, asked before the sleep, and range(), which goes on after
\* it, agree on how many there are.
AttemptBudget ==
    \A c \in Calls :
        /\ pc[c] = "sending" => attempt[c] <= settings.attempts
        /\ pc[c] = "backoff" => attempt[c] < settings.attempts

\* No call is parked: whatever Retry-After asks for and however the jitter falls, a
\* sleep ends within MaxDelay and the jitter, which compute_delay adds to the cap; a
\* negative MaxDelay counts as none.  The condition is needed: from a negative base or
\* cap, a jitter of more than the whole backoff makes a delay that no setting bounds.
WaitsBounded ==
    (BaseDelay >= 0 /\ MaxDelay >= 0) \/ JitterPercent <= 100 =>
        \A c \in Calls : pc[c] = "backoff" =>
            100 * (wakeAt[c] - now) <= AtLeast(0, MaxDelay) * (100 + AtLeast(0, JitterPercent))

\* While the breaker is open and its reset time has not passed, no call joins those
\* that were admitted earlier, and only their retries send anything: with none of them
\* left the upstream gets no request at all.
Quarantine ==
    [][breaker.state = "open" /\ ~ResetElapsed(breaker, now) =>
         /\ InFlight' \subseteq InFlight
         /\ metrics'.requests > metrics.requests => \E c \in Sleeping : pc'[c] = "sending"]_vars

\* The whole client behaves towards the breaker as BreakerProtocol says: at most
\* one verdict per admitted call and none from a refused or a cancelled one.
Protocol == INSTANCE BreakerProtocol WITH
    run <- breaker.failures,
    shutAt <- breaker.openedAt,
    probing <- breaker.state = "half_open",
    inflight <- InFlight

FollowsProtocol == Protocol!Spec

\* Every admitted call returns: no sleep and no retry goes on for ever.
EveryCallReturns == \A c \in Calls : pc[c] \in {"sending", "backoff"} ~> pc[c] = "done"

-----------------------------------------------------------------------------
(***************************************************************************)
(* The inductive invariant behind the safety properties.                   *)
(***************************************************************************)

\* A call has no result before it is done, and is in the loop once it has started.
CallsConsistent ==
    \A c \in Calls :
        /\ pc[c] = "new" => attempt[c] = 0
        /\ pc[c] \in {"sending", "backoff"} => attempt[c] > 0
        /\ pc[c] # "done" => outcome[c] = "none"

\* The failures counter counts calls, and covers both the current run and the trips.
FailuresCovered ==
    /\ metrics.failures = Cardinality(Failed)
    /\ breaker.failures <= metrics.failures
    /\ breaker.trips > 0 => breaker.trips + Threshold - 1 <= metrics.failures

\* All of it together: no call leaves the loop, whatever way, without the breaker,
\* the counters and its own result agreeing on what happened.
IInv ==
    /\ CallsConsistent
    /\ AttemptBudget
    /\ RunMatchesState
    /\ FailuresCovered
    /\ RetriesAccounted

-----------------------------------------------------------------------------
(***************************************************************************)
(* What comments, tests and documents of the repository say, and the code  *)
(* does not do.                                                            *)
(***************************************************************************)

\* breaker.py: HALF_OPEN is "letting a single probe through".
SingleProbe ==
    [][\A c \in Calls : breaker.state = "half_open" /\ InFlight # {} /\ pc[c] = "new"
         => pc'[c] # "sending"]_vars
=============================================================================
