--------------------------- MODULE MCSingleFlight ---------------------------
(***************************************************************************)
(* SingleFlight on small instances.                                        *)
(***************************************************************************)
EXTENDS SingleFlight

CONSTANT MaxVersion     \* how often a document changes

\* Nothing but an entry that has not expired looks at the clock.
MCTick ==
    /\ \E i \in 1..Len(entries) : entries[i].expires > now
    /\ Tick

MCPublish(k) == version[k] < MaxVersion /\ Publish(k)

MCNext ==
    \/ \E c \in Calls : CallStep(c)
    \/ \E k \in Keys : MCPublish(k)
    \/ Clear
    \/ MCTick

MCSpec == Init /\ [][MCNext]_vars

MCFairSpec == MCSpec /\ \A c \in Calls : WF_vars(Load(c)) /\ WF_vars(Deliver(c))
=============================================================================
