--------------------------- MODULE CircuitBreaker ---------------------------
(***************************************************************************)
(* The circuit breaker of src/movieservice/transport/breaker.py as         *)
(* operators on a breaker record: what each method returns and what it     *)
(* leaves behind.  The methods neither await nor call back, so each is one *)
(* indivisible function of the record and of time.monotonic(), here an     *)
(* integer clock in an arbitrary unit.                                     *)
(***************************************************************************)
EXTENDS Integers

CONSTANTS
    FailureThreshold,   \* BREAKER_FAILURE_THRESHOLD: any integer from the environment
    ResetSeconds        \* BREAKER_RESET_SECONDS

ASSUME BreakerAssumption == FailureThreshold \in Int /\ ResetSeconds \in Int

BreakerState == {"closed", "open", "half_open"}

\* __init__ clamps the threshold: a breaker never opens before a first failure.
Threshold == IF FailureThreshold > 1 THEN FailureThreshold ELSE 1

Breaker == [state: BreakerState, failures: Nat, openedAt: Int, trips: Nat]

InitialBreaker == [state |-> "closed", failures |-> 0, openedAt |-> 0, trips |-> 0]

-----------------------------------------------------------------------------
\* allows(): the answer, and the move from OPEN to HALF_OPEN it makes on the way.

ResetElapsed(b, now) == now - b.openedAt >= ResetSeconds

\* Mutant of Allows: the difference taken the wrong way round.
AllowsSwapped(b, now) == b.state = "open" => b.openedAt - now <= ResetSeconds

Allows(b, now) == b.state = "open" => ResetElapsed(b, now)

AfterAllows(b, now) ==
    IF b.state = "open" /\ ResetElapsed(b, now)
    THEN [b EXCEPT !.state = "half_open"]
    ELSE b

\* Mutants of AfterSuccess: the run is shortened by one, or not reset at all.
AfterSuccessForgivingOne(b) == [b EXCEPT !.state = "closed", !.failures = @ - 1]
AfterSuccessKeepingRun(b) == [b EXCEPT !.state = "closed"]

\* record_success() closes the breaker from any state.
AfterSuccess(b) == [b EXCEPT !.state = "closed", !.failures = 0]

\* record_failure() opens on a failed probe or on a long enough run of failures,
\* and pushes openedAt forward each time it does, also when already open.
AfterFailure(b, now) ==
    LET run   == b.failures + 1
        opens == b.state = "half_open" \/ run >= Threshold
    IN  [state    |-> IF opens THEN "open" ELSE b.state,
         failures |-> run,
         openedAt |-> IF opens THEN now ELSE b.openedAt,
         trips    |-> IF opens /\ b.state # "open" THEN b.trips + 1 ELSE b.trips]
=============================================================================
