------------------------------ MODULE LruStore ------------------------------
(***************************************************************************)
(* The stored half of TTLCache (src/movieservice/transport/cache.py): the  *)
(* OrderedDict of entries as a sequence, least recently used first, and    *)
(* what get and set make of it.  Neither awaits, so each is one function   *)
(* of the sequence and the clock.                                          *)
(***************************************************************************)
EXTENDS Integers, SequencesExt

CONSTANT MaxEntries     \* CACHE_MAX_ENTRIES: any integer from the environment

ASSUME StoreAssumption == MaxEntries \in Int

\* __init__ clamps the size: there is always room for one entry.
Capacity == IF MaxEntries > 1 THEN MaxEntries ELSE 1

Entry(Key, Value) == [key: Key, value: Value, expires: Int]

NewEntry(k, v, expires) == [key |-> k, value |-> v, expires |-> expires]

-----------------------------------------------------------------------------
Holds(store, k) == \E i \in 1..Len(store) : store[i].key = k

Position(store, k) == CHOOSE i \in 1..Len(store) : store[i].key = k

Without(store, k) ==
    IF Holds(store, k) THEN RemoveAt(store, Position(store, k)) ELSE store

Fresh(store, k, now) == Holds(store, k) /\ store[Position(store, k)].expires > now

\* What get returns when the entry is fresh.
ValueOf(store, k) == store[Position(store, k)].value

\* Mutant of AfterGet: a read does not count as a use.
AfterGetWithoutMove(store, k, now) == IF Fresh(store, k, now) THEN store ELSE Without(store, k)

\* get moves a fresh entry to the recently used end and deletes an expired one.
AfterGet(store, k, now) ==
    IF Fresh(store, k, now)
    THEN Append(Without(store, k), store[Position(store, k)])
    ELSE Without(store, k)

\* Mutant of Newest: one entry too many is kept.
NewestButOne(store, n) ==
    IF Len(store) > n + 1 THEN SubSeq(store, Len(store) - n, Len(store)) ELSE store

\* The entries popitem(last=False) leaves when there are more than n.
Newest(store, n) ==
    IF Len(store) > n THEN SubSeq(store, Len(store) - n + 1, Len(store)) ELSE store

\* Mutant of AfterSet: a key that is there is replaced where it stands.
AfterSetInPlace(store, k, v, ttl, now) ==
    IF ttl <= 0 THEN store
    ELSE IF Holds(store, k)
         THEN [store EXCEPT ![Position(store, k)] = NewEntry(k, v, now + ttl)]
         ELSE Newest(Append(store, NewEntry(k, v, now + ttl)), Capacity)

\* set replaces and moves to the end in one go; a ttl of zero or less stores nothing.
AfterSet(store, k, v, ttl, now) ==
    IF ttl <= 0
    THEN store
    ELSE Newest(Append(Without(store, k), NewEntry(k, v, now + ttl)), Capacity)
=============================================================================
