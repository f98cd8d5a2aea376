----------------------------- MODULE MCOverview -----------------------------
(***************************************************************************)
(* Overview on small instances.                                            *)
(***************************************************************************)
EXTENDS Overview

\* The usual deployment, one without a token, and one without attempts.
MCDeployments ==
    {[token |-> TRUE, attempts |-> 3], [token |-> FALSE, attempts |-> 3],
     [token |-> TRUE, attempts |-> 0]}

\* Only the running reset period looks at the clock.
MCTick == breaker.state = "open" /\ ~ResetElapsed(breaker, now) /\ Tick

Waiting(r) == phase[r] = "gathering" /\ Unstarted(r) = Legs

\* Requests are numbered in the order in which they come, and the event loop starts
\* their tasks, and those of each, in the order of creation.  Requests differ in
\* nothing else, nor do optional tasks.
InTurn(r) ==
    /\ \A q \in Requests : q < r =>
        /\ phase[r] = "new" => phase[q] # "new"
        /\ Waiting(r) /\ leg'[r] # leg[r] => ~Waiting(q)
    /\ leg[r]["cast"] = "new" => leg'[r]["watch"] = "new"

\* A bound: the upstream answers one endpoint, if it is asked, with what is expected.
Reliable == {"watch"}

WithinBounds(r) ==
    \A l \in Reliable :
        /\ leg'[r][l] # "missing"
        /\ Sending(r, l) => leg'[r][l] \in {"sending", "value", "cancelled"}

MCNext == (\E r \in Requests : Request(r) /\ InTurn(r) /\ WithinBounds(r)) \/ MCTick

MCSpec == Init /\ [][MCNext]_vars

MCFairSpec == MCSpec /\ Fairness
=============================================================================
