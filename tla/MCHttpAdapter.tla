--------------------------- MODULE MCHttpAdapter ---------------------------
(***************************************************************************)
(* HttpAdapter on a small instance: an upstream that fails, and loads that *)
(* break, a bounded number of times and then no more, and a client that    *)
(* does not give up.                                                       *)
(***************************************************************************)
EXTENDS HttpAdapter

CONSTANTS
    MaxTrouble,     \* failed and broken loads in a behaviour
    PatientClient   \* asks, again and again, for what is not in the cache

\* One movie can be watched in one region, the other in the other.
MCServed == {[movie |-> "Alien", region |-> "IN"], [movie |-> "Heat", region |-> "US"]}

\* Nothing but the running reset period looks at the clock.
MCTimePasses == TooManyFailures /\ now - shutAt < ResetSeconds /\ TimePasses

\* Requests are alike: the next one takes the first place that is free.
FirstFree(c) == \A d \in 1..(c - 1) : d \in DOMAIN open

MCNext ==
    \/ \E c \in Calls :
        \/ /\ FirstFree(c)
           /\ \E client \in Clients, m \in Movies, region \in Asked :
                Arrive(c, client, [movie |-> m, region |-> region])
        \/ Load(c)
        \/ FollowerLeaves(c)
    \/ \E client \in Clients : HitLeaves(client)
    \/ \E m \in Movies : Forget(m)
    \/ MCTimePasses

MCBounded == MCNext /\ failedLoads' + brokenLoads' <= MaxTrouble

Probe(c) ==
    /\ FirstFree(c)
    /\ \E m \in Movies, region \in Asked : Lead(c, PatientClient, [movie |-> m, region |-> region])

\* The upstream answers, with whatever document; hits and documents grow old.
MCFairSpec ==
    /\ AdapterInit /\ [][MCBounded]_adapterVars
    /\ \A c \in Calls :
        WF_adapterVars(LoadServed(c) \/ LoadServedMisfit(c) \/ LoadMissing(c))
    /\ \A client \in Clients : WF_adapterVars(HitLeaves(client))
    /\ \A m \in Movies : WF_adapterVars(Forget(m))
    /\ WF_adapterVars(MCTimePasses)
    /\ SF_adapterVars(\E c \in Calls : Probe(c))
=============================================================================
