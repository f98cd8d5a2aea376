---------------------------- MODULE MCRateLimiter ---------------------------
(***************************************************************************)
(* RateLimiter on small instances.                                         *)
(***************************************************************************)
EXTENDS RateLimiter, TLC

CONSTANTS
    MaxTime,        \* ticks in a behaviour
    MaxAdmissions   \* admissions of a client since everybody was forgotten

ClientSymmetry == Permutations(Clients)

MCCheck(c) == Len(admitted[c]) < MaxAdmissions /\ Check(c)

MCTick == now < MaxTime /\ Tick

MCNext == (\E c \in Clients : MCCheck(c)) \/ Clear \/ MCTick \/ SetBack

MCSpec == Init /\ [][MCNext]_vars
=============================================================================
