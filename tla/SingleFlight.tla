---------------------------- MODULE SingleFlight ----------------------------
(***************************************************************************)
(* Concurrent executions of TTLCache.get_or_load                           *)
(* (src/movieservice/transport/cache.py).  A call runs from one await to   *)
(* the next without interruption: it suspends either as the leader that    *)
(* runs the loader ("loading") or as a follower that awaits, shielded, the *)
(* leader's future ("waiting").                                            *)
(*                                                                         *)
(* The loader's result is a version of the upstream document, read at some *)
(* moment while the load is under way; the document may change at any time.*)
(***************************************************************************)
EXTENDS LruStore, FiniteSets

CONSTANTS
    Calls,      \* executions of get_or_load
    Keys,       \* cache keys
    Ttl,        \* the ttl the calls pass
    NoCall      \* no leader

ASSUME FlightAssumption ==
    /\ IsFiniteSet(Calls)
    /\ Ttl \in Int
    /\ NoCall \notin Calls

VARIABLES
    now,        \* time.monotonic()
    version,    \* the upstream's current version of each document
    entries,    \* self._entries
    inflight,   \* self._inflight: for each key the leader whose future is registered
    pc,         \* where each call is suspended
    key,        \* the key of a call
    leader,     \* the leader whose future a follower awaits
    response,   \* the version a leader's loader has read, -1 before
    result,     \* how a call ended; for a leader also what its future was given
    served,     \* history: the newest version any call has returned for each key
    floor       \* history: served[key], when the call started

vars == <<now, version, entries, inflight, pc, key, leader, response, result, served, floor>>

Location == {"new", "loading", "waiting", "done"}

Result == [kind: {"none", "value", "error", "cancelled"}, version: Int]
NoResult == [kind |-> "none", version |-> -1]
Failure == [kind |-> "error", version |-> -1]
Cancellation == [kind |-> "cancelled", version |-> -1]
Value(v) == [kind |-> "value", version |-> v]

TypeOK ==
    /\ now \in Nat
    /\ version \in [Keys -> Nat]
    /\ entries \in Seq(Entry(Keys, Nat))
    /\ inflight \in [Keys -> Calls \cup {NoCall}]
    /\ pc \in [Calls -> Location]
    /\ key \in [Calls -> Keys]
    /\ leader \in [Calls -> Calls \cup {NoCall}]
    /\ response \in [Calls -> Nat \cup {-1}]
    /\ result \in [Calls -> Result]
    /\ served \in [Keys -> Nat]
    /\ floor \in [Calls -> Nat]

Init ==
    /\ now = 0
    /\ version = [k \in Keys |-> 0]
    /\ entries = <<>>
    /\ inflight = [k \in Keys |-> NoCall]
    /\ pc = [c \in Calls |-> "new"]
    /\ key \in [Calls -> Keys]
    /\ leader = [c \in Calls |-> NoCall]
    /\ response = [c \in Calls |-> -1]
    /\ result = [c \in Calls |-> NoResult]
    /\ served = [k \in Keys |-> 0]
    /\ floor = [c \in Calls |-> 0]

-----------------------------------------------------------------------------
Finish(c, r) ==
    /\ pc' = [pc EXCEPT ![c] = "done"]
    /\ result' = [result EXCEPT ![c] = r]
    /\ served' = IF r.version > served[key[c]]
                 THEN [served EXCEPT ![key[c]] = r.version]
                 ELSE served

\* The lookup every call starts with, which also refreshes or deletes the entry.
Lookup(c) ==
    /\ pc[c] = "new"
    /\ entries' = AfterGet(entries, key[c], now)
    /\ floor' = [floor EXCEPT ![c] = served[key[c]]]

Hit(c) ==
    /\ Lookup(c)
    /\ Fresh(entries, key[c], now)
    /\ Finish(c, Value(ValueOf(entries, key[c])))
    /\ UNCHANGED <<now, version, inflight, key, leader, response>>

Coalesce(c) ==
    /\ Lookup(c)
    /\ ~Fresh(entries, key[c], now)
    /\ inflight[key[c]] # NoCall
    /\ leader' = [leader EXCEPT ![c] = inflight[key[c]]]
    /\ pc' = [pc EXCEPT ![c] = "waiting"]
    /\ UNCHANGED <<now, version, inflight, key, response, result, served>>

\* Mutant of Miss: every call that misses runs its loader.
MissUnguarded(c) ==
    /\ Lookup(c)
    /\ ~Fresh(entries, key[c], now)
    /\ inflight' = [inflight EXCEPT ![key[c]] = c]
    /\ pc' = [pc EXCEPT ![c] = "loading"]
    /\ UNCHANGED <<now, version, key, leader, response, result, served>>

\* A loader that ends without suspending is this step and the next of the same call.
Miss(c) ==
    /\ Lookup(c)
    /\ ~Fresh(entries, key[c], now)
    /\ inflight[key[c]] = NoCall
    /\ inflight' = [inflight EXCEPT ![key[c]] = c]
    /\ pc' = [pc EXCEPT ![c] = "loading"]
    /\ UNCHANGED <<now, version, key, leader, response, result, served>>

\* The upstream answers with the document as it is now; the answer is on its way.
UpstreamAnswers(c) ==
    /\ pc[c] = "loading"
    /\ response[c] = -1
    /\ response' = [response EXCEPT ![c] = version[key[c]]]
    /\ UNCHANGED <<now, version, entries, inflight, pc, key, leader, result, served, floor>>

-----------------------------------------------------------------------------
\* The leader's await of the loader ends; its future is resolved and unregistered
\* before any other coroutine runs.

\* Mutant of Unregister: the loads of other keys are forgotten as well.
UnregisterAll(c) == inflight' = [k \in Keys |-> NoCall]

Unregister(c) == inflight' = [inflight EXCEPT ![key[c]] = NoCall]

\* Mutant of LoadReturns: it does not wait for the loader's answer.
LoadReturnsUnawaited(c) ==
    /\ pc[c] = "loading"
    /\ entries' = AfterSet(entries, key[c], response[c], Ttl, now)
    /\ Finish(c, Value(response[c]))
    /\ Unregister(c)
    /\ UNCHANGED <<now, version, key, leader, response, floor>>

LoadReturns(c) ==
    /\ pc[c] = "loading"
    /\ response[c] # -1
    /\ entries' = AfterSet(entries, key[c], response[c], Ttl, now)
    /\ Finish(c, Value(response[c]))
    /\ Unregister(c)
    /\ UNCHANGED <<now, version, key, leader, response, floor>>

\* Mutant of LoadEndsWith: the exception leaves without resolving the future.
LoadEndsUnresolved(c, failure) ==
    /\ pc[c] = "loading"
    /\ pc' = [pc EXCEPT ![c] = "done"]
    /\ Unregister(c)
    /\ UNCHANGED <<now, version, entries, key, leader, response, result, served, floor>>

LoadEndsWith(c, failure) ==
    /\ pc[c] = "loading"
    /\ Finish(c, failure)
    /\ Unregister(c)
    /\ UNCHANGED <<now, version, entries, key, leader, response, floor>>

LoadFails(c) == LoadEndsWith(c, Failure)

\* except BaseException also catches the leader's own cancellation.
LeaderCancelled(c) == LoadEndsWith(c, Cancellation)

\* Mutant of Deliver: only a value wakes the followers.
DeliverValue(c) ==
    /\ pc[c] = "waiting"
    /\ pc[leader[c]] = "done"
    /\ result[leader[c]].kind = "value"
    /\ Finish(c, result[leader[c]])
    /\ UNCHANGED <<now, version, entries, inflight, key, leader, response, floor>>

\* The future of the leader is resolved and the event loop resumes a follower, which
\* returns or raises what the future was given.
Deliver(c) ==
    /\ pc[c] = "waiting"
    /\ pc[leader[c]] = "done"
    /\ Finish(c, result[leader[c]])
    /\ UNCHANGED <<now, version, entries, inflight, key, leader, response, floor>>

\* shield() keeps the cancellation of a follower from the shared future.
FollowerCancelled(c) ==
    /\ pc[c] = "waiting"
    /\ Finish(c, Cancellation)
    /\ UNCHANGED <<now, version, entries, inflight, key, leader, response, floor>>

-----------------------------------------------------------------------------
\* clear() drops what is stored; loads under way are not touched.  The class offers it,
\* nothing in the repository calls it.
Clear ==
    /\ entries' = <<>>
    /\ UNCHANGED <<now, version, inflight, pc, key, leader, response, result, served, floor>>

Publish(k) ==
    /\ version' = [version EXCEPT ![k] = @ + 1]
    /\ UNCHANGED <<now, entries, inflight, pc, key, leader, response, result, served, floor>>

Tick ==
    /\ now' = now + 1
    /\ UNCHANGED <<version, entries, inflight, pc, key, leader, response, result, served, floor>>

Load(c) == UpstreamAnswers(c) \/ LoadReturns(c) \/ LoadFails(c) \/ LeaderCancelled(c)

CallStep(c) ==
    \/ Hit(c) \/ Coalesce(c) \/ Miss(c)
    \/ Load(c)
    \/ Deliver(c) \/ FollowerCancelled(c)

Next ==
    \/ \E c \in Calls : CallStep(c)
    \/ \E k \in Keys : Publish(k)
    \/ Clear
    \/ Tick

Spec == Init /\ [][Next]_vars

\* Loaders end (every call of ResilientClient returns), and the event loop resumes
\* the followers of a resolved future.
FairSpec ==
    Spec /\ \A c \in Calls : WF_vars(Load(c)) /\ WF_vars(Deliver(c))

-----------------------------------------------------------------------------
(***************************************************************************)
(* Properties.                                                             *)
(***************************************************************************)

\* One loader per key: the calls that run a loader are exactly the registered ones,
\* so a cold key never stampedes the upstream, whatever fails or is cancelled.
OneLoaderPerKey ==
    /\ \A c \in Calls : pc[c] = "loading" => inflight[key[c]] = c
    /\ \A k \in Keys : inflight[k] # NoCall =>
         pc[inflight[k]] = "loading" /\ key[inflight[k]] = k

\* Nobody waits for a future that no one will resolve: a follower's leader is a call
\* on the same key that still runs its loader or has ended with a result.
NoOrphans ==
    \A c \in Calls : pc[c] = "waiting" =>
        /\ leader[c] \in Calls
        /\ key[leader[c]] = key[c]
        /\ \/ pc[leader[c]] = "loading"
           \/ pc[leader[c]] = "done" /\ result[leader[c]].kind # "none"

\* A call that starts after another one returned never gets an older document, be it
\* from the store, from its own load or from a load that was under way.
MonotonicReads ==
    \A c \in Calls : result[c].kind = "value" => result[c].version >= floor[c]

\* The store never exceeds its capacity nor holds a key twice, and what it holds is
\* the newest document any call has returned: no late load replaces a newer one.
StoreCurrent ==
    /\ Len(entries) <= Capacity
    /\ \A i, j \in 1..Len(entries) : entries[i].key = entries[j].key => i = j
    /\ \A i \in 1..Len(entries) : entries[i].value = served[entries[i].key]

-----------------------------------------------------------------------------
(***************************************************************************)
(* The inductive invariant behind the safety properties.                   *)
(***************************************************************************)

\* A call has a result when it is done, and no value newer than what was served.
ResultsConsistent ==
    \A c \in Calls :
        /\ pc[c] = "new" => response[c] = -1
        /\ pc[c] # "done" => result[c] = NoResult
        /\ pc[c] = "done" =>
             \/ result[c] \in {Failure, Cancellation}
             \/ result[c].kind = "value" /\ result[c].version \in 0..served[key[c]]

\* Nothing served is newer than the upstream, an answer on its way is at least as new
\* as everything served, and a follower's result as what it may rely on.
VersionsConsistent ==
    /\ \A k \in Keys : served[k] <= version[k]
    /\ \A c \in Calls :
        /\ floor[c] <= served[key[c]]
        /\ pc[c] = "loading" /\ response[c] # -1 =>
             response[c] \in served[key[c]]..version[key[c]]
        /\ pc[c] = "waiting" /\ result[leader[c]].kind = "value" =>
             result[leader[c]].version >= floor[c]

\* All of it together: registry, futures, store and documents agree at every await.
IInv ==
    /\ OneLoaderPerKey
    /\ NoOrphans
    /\ ResultsConsistent
    /\ VersionsConsistent
    /\ MonotonicReads
    /\ StoreCurrent
    /\ Ttl <= 0 => entries = <<>>

-----------------------------------------------------------------------------
\* Every call returns, as a leader and as a follower, also when loads fail.
EveryCallReturns == \A c \in Calls : pc[c] \in {"loading", "waiting"} ~> pc[c] = "done"

\* errors.py: "Every layer below the adapters raises one of these", domain errors
\* that is; a follower nobody cancelled should get no CancelledError.
FollowersSpared ==
    [][\A c \in Calls : Deliver(c) => result'[c].kind # "cancelled"]_vars
=============================================================================
