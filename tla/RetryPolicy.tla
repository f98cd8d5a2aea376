---------------------------- MODULE RetryPolicy ----------------------------
(***************************************************************************)
(* The retry policy of src/movieservice/transport/retry.py.  The floats of *)
(* the code are integers of an arbitrary unit (the runs use milliseconds), *)
(* negative ones included, because from_env does not clamp them; infinity  *)
(* and NaN as settings are left out.  The random roll is a set of possible *)
(* delays.                                                                 *)
(***************************************************************************)
EXTENDS Integers

CONSTANTS
    BaseDelay,
    MaxDelay,
    JitterPercent,  \* RETRY_JITTER in hundredths
    MaxExponent     \* the largest n for which 2 ** n is a float: 1023 in Python

ASSUME RetryAssumption ==
    /\ BaseDelay \in Int
    /\ MaxDelay \in Int
    /\ JitterPercent \in Int
    /\ MaxExponent \in Nat

RetryableStatuses == {408, 425, 429, 500, 502, 503, 504}

NoStatus == 0   \* status=None: the request never got an answer
NoHint == -1    \* retry_after=None

\* A Retry-After header is represented by the number of seconds it spells;
\* NoHint stands for an absent, an HTTP-date or any other unparsable header.
ParseRetryAfter(header) == IF header >= 0 THEN header ELSE NoHint

\* Mutant of ShouldRetry: an attempt too many.
ShouldRetryOnceMore(attempts, attempt, status) ==
    /\ attempt <= attempts
    /\ status = NoStatus \/ status \in RetryableStatuses

\* attempts is RETRY_ATTEMPTS.
ShouldRetry(attempts, attempt, status) ==
    /\ attempt < attempts
    /\ status = NoStatus \/ status \in RetryableStatuses

-----------------------------------------------------------------------------
AtMost(limit, n) == IF n < limit THEN n ELSE limit
AtLeast(limit, n) == IF n > limit THEN n ELSE limit

Between(a, b) == AtMost(a, b) .. AtLeast(a, b)

Exponent(attempt) == AtLeast(0, attempt - 1)

\* base_delay * 2 ** n
Doubled(n) ==
    LET delay[k \in 0..n] == IF k = 0 THEN BaseDelay ELSE 2 * delay[k - 1] IN delay[n]

Backoff(attempt) == AtMost(MaxDelay, Doubled(Exponent(attempt)))

\* The jitter is added to a backoff that is already capped.  Of a negative backoff
\* the spread is negative too, and the roll goes the other way.
Jittered(backoff) ==
    IF JitterPercent <= 0 THEN {backoff}
    ELSE LET spread == (backoff * JitterPercent) \div 100
         IN  {AtLeast(0, d) : d \in Between(backoff - spread, backoff + spread)}

\* compute_delay raises: without a hint, 2 ** n is multiplied with a float.
DelayOverflows(attempt, hint) == hint < 0 /\ Exponent(attempt) > MaxExponent

\* Mutant of Delays: the server's hint is not limited.
DelaysObeyingHint(attempt, hint) == IF hint >= 0 THEN {hint} ELSE Jittered(Backoff(attempt))

\* Every delay compute_delay may return otherwise; the upper end is reached only
\* through rounding, random.random() being less than one.
Delays(attempt, hint) ==
    IF hint >= 0 THEN {AtMost(MaxDelay, hint)} ELSE Jittered(Backoff(attempt))
=============================================================================
