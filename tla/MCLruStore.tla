----------------------------- MODULE MCLruStore -----------------------------
(***************************************************************************)
(* StoreHistory for a bounded time.                                        *)
(***************************************************************************)
EXTENDS StoreHistory

CONSTANT MaxTime    \* ticks in a behaviour

MCNext == StoreNext /\ clock' <= MaxTime

MCSpec == StoreInit /\ [][MCNext]_storeVars
=============================================================================
