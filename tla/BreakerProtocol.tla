-------------------------- MODULE BreakerProtocol --------------------------
(***************************************************************************)
(* What the transport promises about a failing dependency, without the     *)
(* three-state machine, the retry loop or the counters: calls are admitted *)
(* or refused, an admitted call reports at most one verdict, and refusals  *)
(* depend only on the run of bad verdicts since the last good one.         *)
(*                                                                         *)
(* ResilientClient is shown to implement this specification.               *)
(***************************************************************************)
EXTENDS Integers

CONSTANTS
    Calls,              \* identities of the calls that may be in flight together
    FailureThreshold,
    ResetSeconds

ASSUME ProtocolAssumption == FailureThreshold \in Int /\ ResetSeconds \in Int

VARIABLES
    now,        \* monotonic clock
    run,        \* bad verdicts since the last good one
    shutAt,     \* when a bad verdict last found or made the run too long
    probing,    \* calls are being let through although the run is too long
    inflight    \* admitted calls that have not reported

vars == <<now, run, shutAt, probing, inflight>>

Threshold == IF FailureThreshold > 1 THEN FailureThreshold ELSE 1

TypeOK ==
    /\ now \in Nat
    /\ run \in Nat
    /\ shutAt \in Nat
    /\ probing \in BOOLEAN
    /\ inflight \subseteq Calls

Init ==
    /\ now = 0
    /\ run = 0
    /\ shutAt = 0
    /\ probing = FALSE
    /\ inflight = {}

-----------------------------------------------------------------------------
TooManyFailures == run >= Threshold

\* Mutant of Admits: one probe at a time, with nobody to take over from a lost one.
AdmitsOneProbe == ~TooManyFailures \/ (~probing /\ now - shutAt >= ResetSeconds)

Admits == ~TooManyFailures \/ probing \/ now - shutAt >= ResetSeconds

\* Being admitted against too long a run is what makes a call a probe.
Admitted ==
    /\ Admits
    /\ probing' = TooManyFailures
    /\ UNCHANGED <<now, run, shutAt>>

GoodVerdict ==
    /\ run' = 0
    /\ probing' = FALSE
    /\ UNCHANGED <<now, shutAt>>

BadVerdict ==
    /\ run' = run + 1
    /\ probing' = FALSE
    /\ shutAt' = IF run + 1 >= Threshold THEN now ELSE shutAt
    /\ UNCHANGED now

Admit(c) ==
    /\ c \notin inflight
    /\ Admitted
    /\ inflight' = inflight \cup {c}

\* A call that cannot even be sent may report at once, or end without a verdict.
AdmitAndFail == Admits /\ BadVerdict /\ UNCHANGED inflight

AdmitAndDrop == Admitted /\ UNCHANGED inflight

Good(c) == c \in inflight /\ GoodVerdict /\ inflight' = inflight \ {c}

Bad(c) == c \in inflight /\ BadVerdict /\ inflight' = inflight \ {c}

\* The caller went away: no verdict is ever reported for this call.
Drop(c) ==
    /\ c \in inflight
    /\ inflight' = inflight \ {c}
    /\ UNCHANGED <<now, run, shutAt, probing>>

Tick == now' = now + 1 /\ UNCHANGED <<run, shutAt, probing, inflight>>

Next ==
    \/ \E c \in Calls : Admit(c) \/ Good(c) \/ Bad(c) \/ Drop(c)
    \/ AdmitAndFail
    \/ AdmitAndDrop
    \/ Tick

Spec == Init /\ [][Next]_vars

-----------------------------------------------------------------------------
\* A breaker that has opened closes again, once the dependency answers and calls
\* keep coming: neither probes that end without a verdict nor late bad verdicts of
\* earlier calls can shut the dependency out for good.
Recovery == TooManyFailures ~> ~TooManyFailures
=============================================================================
