-------------------------- MODULE MCResilientClient ------------------------
(***************************************************************************)
(* ResilientClient on small instances.                                     *)
(***************************************************************************)
EXTENDS ResilientClient, TLC

CallSymmetry == Permutations(Calls)

\* The usual case, and what the environment may get wrong.
MCConfigurations == {[token |-> TRUE, attempts |-> 2]} \cup [token: BOOLEAN, attempts: {0, 1}]

\* A call with three retries, the last of which finds an exponent out of range.
MCPatient == {[token |-> TRUE, attempts |-> 4]}

\* One retryable status with a meaning of its own and one that is not retried.
MCErrorStatuses == {429, 501}

\* No usable header, and one that asks for far more than MaxDelay.
MCRetryHeaders == {-1, 7}

\* Time is let pass only while some sleep or the reset period is running: nothing
\* else in the code looks at the clock, so later ticks would change no guard.
ClockMatters ==
    \/ \E c \in Calls : pc[c] = "backoff" /\ now < wakeAt[c]
    \/ breaker.state = "open" /\ ~ResetElapsed(breaker, now)

MCTick == ClockMatters /\ Tick

MCNext == (\E c \in Calls : CallStep(c)) \/ MCTick

MCSpec == Init /\ [][MCNext]_vars

MCFairSpec ==
    /\ MCSpec
    /\ WF_vars(MCTick)
    /\ \A c \in Calls : WF_vars(Reply(c)) /\ WF_vars(Resume(c))
=============================================================================
