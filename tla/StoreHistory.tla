---------------------------- MODULE StoreHistory ----------------------------
(***************************************************************************)
(* One TTLCache (src/movieservice/transport/cache.py) under every sequence *)
(* of get and set, beside a record of what was set and in which order the  *)
(* keys were used.  The names differ from those of SingleFlight, whose     *)
(* proofs use lemmas about the same store.                                 *)
(***************************************************************************)
EXTENDS LruStore, FiniteSets

CONSTANTS
    StoredKeys,
    StoredValues,
    Ttls            \* a ttl is chosen anew for each set

ASSUME HistoryAssumption ==
    /\ IsFiniteSet(StoredKeys)
    /\ Ttls \subseteq Int

VARIABLES
    clock,      \* time.monotonic()
    store,      \* self._entries
    lastSet,    \* history: for each key what the last set that stored something stored
    since       \* history: for each key the other keys used after it; all, if it never was

storeVars == <<clock, store, lastSet, since>>

NeverSet == [value |-> 0, expires |-> 0]

StoreTypeOK ==
    /\ clock \in Nat
    /\ store \in Seq(Entry(StoredKeys, StoredValues))
    /\ lastSet \in [StoredKeys -> [value: StoredValues, expires: Int] \cup {NeverSet}]
    /\ since \in [StoredKeys -> SUBSET StoredKeys]

StoreInit ==
    /\ clock = 0
    /\ store = <<>>
    /\ lastSet = [k \in StoredKeys |-> NeverSet]
    /\ since = [k \in StoredKeys |-> StoredKeys]

Use(k) == since' = [j \in StoredKeys |-> IF j = k THEN {} ELSE since[j] \cup {k}]

Get(k) ==
    /\ store' = AfterGet(store, k, clock)
    /\ IF Fresh(store, k, clock) THEN Use(k) ELSE UNCHANGED since
    /\ UNCHANGED <<clock, lastSet>>

Put(k, v, ttl) ==
    /\ store' = AfterSet(store, k, v, ttl, clock)
    /\ IF ttl > 0
       THEN Use(k) /\ lastSet' = [lastSet EXCEPT ![k] = [value |-> v, expires |-> clock + ttl]]
       ELSE UNCHANGED <<since, lastSet>>
    /\ UNCHANGED clock

TimePasses == clock' = clock + 1 /\ UNCHANGED <<store, lastSet, since>>

StoreNext ==
    \/ \E k \in StoredKeys : Get(k)
    \/ \E k \in StoredKeys, v \in StoredValues, ttl \in Ttls : Put(k, v, ttl)
    \/ TimePasses

StoreSpec == StoreInit /\ [][StoreNext]_storeVars

-----------------------------------------------------------------------------
\* TTLCache evicts only the least recently used: an unexpired key that fewer than
\* Capacity other keys were used after is still there, with the value set last.
RecentlyUsedSurvive ==
    \A k \in StoredKeys :
        Cardinality(since[k]) < Capacity /\ lastSet[k].expires > clock =>
            Fresh(store, k, clock) /\ ValueOf(store, k) = lastSet[k].value

\* The entries are in the order their keys were last used, reads included, so that
\* popitem(last=False) finds the right victim, and there are never more than fit.
OrderedByUse ==
    /\ Len(store) <= Capacity
    /\ \A i, j \in 1..Len(store) : i < j => store[j].key \in since[store[i].key]

-----------------------------------------------------------------------------
(***************************************************************************)
(* The inductive invariant behind them: nothing is stored twice, what is   *)
(* stored is what was set last, and what is missing has expired or been    *)
(* pushed out by as many keys as fit.                                      *)
(***************************************************************************)
KeptAsSet ==
    /\ \A i, j \in 1..Len(store) : store[i].key = store[j].key => i = j
    /\ \A i \in 1..Len(store) :
         /\ store[i].value = lastSet[store[i].key].value
         /\ store[i].expires = lastSet[store[i].key].expires

LostForCause ==
    \A k \in StoredKeys :
        ~Holds(store, k) /\ lastSet[k].expires > clock => Cardinality(since[k]) >= Capacity

HistoryInv == OrderedByUse /\ KeptAsSet /\ LostForCause
=============================================================================
