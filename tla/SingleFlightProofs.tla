------------------------- MODULE SingleFlightProofs -------------------------
(***************************************************************************)
(* Theorems about SingleFlight for every set of calls and keys, every      *)
(* capacity and every ttl.                                                 *)
(***************************************************************************)
EXTENDS SingleFlight, LruStoreProofs

-----------------------------------------------------------------------------
(***************************************************************************)
(* Type correctness.                                                       *)
(***************************************************************************)

LEMMA ResultTypes ==
  /\ NoResult \in Result /\ Failure \in Result /\ Cancellation \in Result
  /\ \A v \in Int : Value(v) \in Result
  BY DEF NoResult, Failure, Cancellation, Value, Result

LEMMA FreshValueOK ==
  ASSUME TypeOK, NEW k, Fresh(entries, k, now)
  PROVE  /\ Position(entries, k) \in 1..Len(entries)
         /\ entries[Position(entries, k)].key = k
         /\ ValueOf(entries, k) \in Nat
<1>1. /\ Position(entries, k) \in 1..Len(entries)
      /\ entries[Position(entries, k)].key = k
      /\ entries[Position(entries, k)] \in Entry(Keys, Nat)
  BY PositionOK DEF TypeOK, Fresh
<1>2. QED
  BY <1>1 DEF Entry, ValueOf

\* A lookup and a set leave sequences of entries.
LEMMA StoreTypes ==
  ASSUME TypeOK, NEW c \in Calls
  PROVE  /\ AfterGet(entries, key[c], now) \in Seq(Entry(Keys, Nat))
         /\ response[c] # -1 =>
              AfterSet(entries, key[c], response[c], Ttl, now) \in Seq(Entry(Keys, Nat))
<1>1. entries \in Seq(Entry(Keys, Nat)) /\ now \in Int /\ key[c] \in Keys /\ Ttl \in Int
  BY FlightAssumption DEF TypeOK
<1>2. response[c] # -1 => response[c] \in Nat
  BY DEF TypeOK
<1>3. AfterGet(entries, key[c], now) \in Seq(Entry(Keys, Nat))
  BY <1>1, AfterGetOK
<1>4. response[c] # -1 =>
        AfterSet(entries, key[c], response[c], Ttl, now) \in Seq(Entry(Keys, Nat))
  BY <1>1, <1>2, AfterSetOK
<1>5. QED
  BY <1>3, <1>4

LEMMA FinishType ==
  ASSUME TypeOK, NEW c \in Calls, NEW r \in Result, Finish(c, r)
  PROVE  /\ pc' \in [Calls -> Location]
         /\ result' \in [Calls -> Result]
         /\ served' \in [Keys -> Nat]
<1>1. r.version \in Int
  BY DEF Result
<1>2. served' \in [Keys -> Nat]
  BY <1>1 DEF TypeOK, Finish
<1>3. QED
  BY <1>2 DEF TypeOK, Finish, Location

\* TypeOK needs to know that a follower has a leader.
TypeInv == TypeOK /\ \A c \in Calls : pc[c] = "waiting" => leader[c] \in Calls

LEMMA TypeInvCorrect == Spec => []TypeInv
<1>1. Init => TypeInv
  <2>1. <<>> \in Seq(Entry(Keys, Nat))
    BY EmptySeq
  <2>2. QED
    BY <2>1, ResultTypes DEF Init, TypeInv, TypeOK, Location
<1>2. TypeInv /\ [Next]_vars => TypeOK'
  <2> SUFFICES ASSUME TypeInv, TypeOK, [Next]_vars PROVE TypeOK'
    BY DEF TypeInv
  <2>1. ASSUME NEW c \in Calls, Hit(c) PROVE TypeOK'
    <3>1. ValueOf(entries, key[c]) \in Nat
      BY <2>1, FreshValueOK DEF Hit
    <3>2. Value(ValueOf(entries, key[c])) \in Result
      BY <3>1, ResultTypes
    <3>3. QED
      BY <2>1, <3>2, StoreTypes, FinishType DEF Hit, Lookup, TypeOK
  <2>2. ASSUME NEW c \in Calls, Coalesce(c) PROVE TypeOK'
    BY <2>2, StoreTypes DEF Coalesce, Lookup, TypeOK, Location
  <2>3. ASSUME NEW c \in Calls, Miss(c) PROVE TypeOK'
    BY <2>3, StoreTypes DEF Miss, Lookup, TypeOK, Location
  <2>4. ASSUME NEW c \in Calls, UpstreamAnswers(c) PROVE TypeOK'
    BY <2>4 DEF UpstreamAnswers, TypeOK
  <2>5. ASSUME NEW c \in Calls, LoadReturns(c) PROVE TypeOK'
    <3>0. response[c] \in Int
      BY DEF TypeOK
    <3>1. Value(response[c]) \in Result
      BY <3>0, ResultTypes
    <3>2. entries' \in Seq(Entry(Keys, Nat))
      BY <2>5, StoreTypes DEF LoadReturns
    <3>3. /\ pc' \in [Calls -> Location]
          /\ result' \in [Calls -> Result]
          /\ served' \in [Keys -> Nat]
      BY <2>5, <3>1, FinishType DEF LoadReturns
    <3>4. QED
      BY <2>5, <3>2, <3>3 DEF LoadReturns, Unregister, TypeOK
  <2>6. ASSUME NEW c \in Calls, NEW r \in {Failure, Cancellation}, LoadEndsWith(c, r)
        PROVE  TypeOK'
    BY <2>6, ResultTypes, FinishType DEF LoadEndsWith, Unregister, TypeOK
  <2>7. ASSUME NEW c \in Calls, Deliver(c) PROVE TypeOK'
    <3>1. result[leader[c]] \in Result
      BY <2>7 DEF Deliver, TypeInv, TypeOK
    <3>2. QED
      BY <2>7, <3>1, FinishType DEF Deliver, TypeOK
  <2>8. ASSUME NEW c \in Calls, FollowerCancelled(c) PROVE TypeOK'
    BY <2>8, ResultTypes, FinishType DEF FollowerCancelled, TypeOK
  <2>9. CASE Clear
    BY <2>9, EmptySeq DEF Clear, TypeOK
  <2>10. ASSUME NEW k \in Keys, Publish(k) PROVE TypeOK'
    BY <2>10 DEF Publish, TypeOK
  <2>11. CASE Tick \/ UNCHANGED vars
    BY <2>11 DEF Tick, vars, TypeOK
  <2>12. QED
    BY <2>1, <2>2, <2>3, <2>4, <2>5, <2>6, <2>7, <2>8, <2>9, <2>10, <2>11
       DEF Next, CallStep, Load, LoadFails, LeaderCancelled
<1>3. TypeInv /\ [Next]_vars => (\A c \in Calls : pc[c] = "waiting" => leader[c] \in Calls)'
  <2> SUFFICES ASSUME TypeInv, [Next]_vars, NEW c \in Calls, pc'[c] = "waiting"
               PROVE  leader'[c] \in Calls
    OBVIOUS
  <2> USE DEF TypeInv, TypeOK, Location, Finish, Lookup
  <2>1. ASSUME NEW d \in Calls, Hit(d) \/ Coalesce(d) \/ Miss(d) PROVE leader'[c] \in Calls
    BY <2>1 DEF Hit, Coalesce, Miss
  <2>2. ASSUME NEW d \in Calls, Load(d) PROVE leader'[c] \in Calls
    BY <2>2 DEF Load, UpstreamAnswers, LoadReturns, LoadFails, LeaderCancelled, LoadEndsWith
  <2>3. ASSUME NEW d \in Calls, Deliver(d) \/ FollowerCancelled(d) PROVE leader'[c] \in Calls
    BY <2>3 DEF Deliver, FollowerCancelled
  <2>4. CASE Clear \/ (\E k \in Keys : Publish(k)) \/ Tick \/ UNCHANGED vars
    BY <2>4 DEF Clear, Publish, Tick, vars
  <2>5. QED
    BY <2>1, <2>2, <2>3, <2>4 DEF Next, CallStep
<1>4. QED
  BY <1>1, <1>2, <1>3, PTL DEF Spec, TypeInv

\* The variables always have the types TypeOK gives them.
THEOREM TypeCorrect == Spec => []TypeOK
<1>1. TypeInv => TypeOK
  BY DEF TypeInv
<1>2. QED
  BY <1>1, TypeInvCorrect, PTL

-----------------------------------------------------------------------------
(***************************************************************************)
(* The registry of loads under way.                                        *)
(***************************************************************************)

\* How a step moves calls between locations, and what it does to the registry: the
\* store, the documents and the versions play no part in it.
RegistryInv == OneLoaderPerKey /\ NoOrphans /\ \A c \in Calls : pc[c] # "done" => result[c] = NoResult

LEMMA RegistryStart ==
  ASSUME TypeOK, RegistryInv, NEW d \in Calls, Hit(d) \/ Coalesce(d) \/ Miss(d)
  PROVE  RegistryInv'
<1> USE DEF TypeOK, Location, Lookup, Finish, Value, NoResult,
            RegistryInv, OneLoaderPerKey, NoOrphans
<1>1. CASE Hit(d)
  BY <1>1 DEF Hit
<1>2. CASE Coalesce(d)
  <2>1. inflight[key[d]] \in Calls
    BY <1>2 DEF Coalesce
  <2>2. QED
    BY <1>2, <2>1 DEF Coalesce
<1>3. CASE Miss(d)
  BY <1>3, FlightAssumption DEF Miss
<1>4. QED
  BY <1>1, <1>2, <1>3

LEMMA RegistryLoad ==
  ASSUME TypeOK, RegistryInv, NEW d \in Calls, Load(d)
  PROVE  RegistryInv'
<1> USE FlightAssumption DEF TypeOK, Location, Finish, Unregister, NoResult,
            RegistryInv, OneLoaderPerKey, NoOrphans
<1>1. CASE UpstreamAnswers(d)
  BY <1>1 DEF UpstreamAnswers
<1>2. CASE LoadReturns(d)
  BY <1>2 DEF LoadReturns, Value
<1>3. ASSUME NEW r, r.kind # "none", LoadEndsWith(d, r) PROVE RegistryInv'
  BY <1>3 DEF LoadEndsWith
<1>4. Failure.kind # "none" /\ Cancellation.kind # "none"
  BY DEF Failure, Cancellation
<1>5. QED
  BY <1>1, <1>2, <1>3, <1>4 DEF Load, LoadFails, LeaderCancelled

LEMMA RegistryFollower ==
  ASSUME TypeOK, RegistryInv, NEW d \in Calls, Deliver(d) \/ FollowerCancelled(d)
  PROVE  RegistryInv'
<1> USE DEF TypeOK, Location, Finish, NoResult, RegistryInv, OneLoaderPerKey, NoOrphans
<1>1. CASE Deliver(d)
  BY <1>1 DEF Deliver
<1>2. CASE FollowerCancelled(d)
  BY <1>2 DEF FollowerCancelled, Cancellation
<1>3. QED
  BY <1>1, <1>2

LEMMA RegistryHolds == Spec => []RegistryInv
<1>1. Init => RegistryInv
  BY DEF Init, RegistryInv, OneLoaderPerKey, NoOrphans
<1>2. TypeOK /\ RegistryInv /\ [Next]_vars => RegistryInv'
  <2> SUFFICES ASSUME TypeOK, RegistryInv, [Next]_vars PROVE RegistryInv'
    OBVIOUS
  <2>1. CASE Clear \/ (\E k \in Keys : Publish(k)) \/ Tick \/ UNCHANGED vars
    BY <2>1 DEF Clear, Publish, Tick, vars, RegistryInv, OneLoaderPerKey, NoOrphans
  <2>2. QED
    BY <2>1, RegistryStart, RegistryLoad, RegistryFollower DEF Next, CallStep
<1>3. QED
  BY <1>1, <1>2, TypeCorrect, PTL DEF Spec

\* A key has at most one loader, whatever fails, is cancelled or cleared.
THEOREM OneLoader == Spec => []OneLoaderPerKey
<1>1. RegistryInv => OneLoaderPerKey
  BY DEF RegistryInv
<1>2. QED
  BY <1>1, RegistryHolds, PTL

\* A follower always has a leader that is loading or has left a result for it.
THEOREM FollowersHaveLeaders == Spec => []NoOrphans
<1>1. RegistryInv => NoOrphans
  BY DEF RegistryInv
<1>2. QED
  BY <1>1, RegistryHolds, PTL

-----------------------------------------------------------------------------
(***************************************************************************)
(* What is stored and what is served.                                      *)
(***************************************************************************)

ReadsInv == ResultsConsistent /\ VersionsConsistent /\ MonotonicReads

StoreInv == StoreCurrent /\ (Ttl <= 0 => entries = <<>>)

LEMMA EntriesType ==
  ASSUME TypeOK
  PROVE  /\ Len(entries) \in Nat
         /\ \A i \in 1..Len(entries) : entries[i] \in Entry(Keys, Nat)
         /\ now \in Int
  BY LenProperties, ElementOfSeq DEF TypeOK

\* The lookup every call starts with keeps the store current.
LEMMA LookupKeepsStore ==
  ASSUME TypeOK, StoreInv, NEW c \in Calls,
         entries' = AfterGet(entries, key[c], now), UNCHANGED served
  PROVE  StoreInv'
<1>1. /\ entries' \in Seq(Entry(Keys, Nat))
      /\ Len(entries') <= Len(entries)
      /\ Within(entries', entries)
      /\ Distinct(entries) => Distinct(entries')
  BY AfterGetOK DEF TypeOK
<1>2. Len(entries) \in Nat /\ Len(entries') \in Nat /\ Capacity \in Nat
  BY <1>1, EntriesType, LenProperties, CapacityType
<1>3. Distinct(entries')
  BY <1>1 DEF StoreInv, StoreCurrent, Distinct
<1>4. \A i \in 1..Len(entries') : entries'[i].value = served[entries'[i].key]
  BY <1>1 DEF StoreInv, StoreCurrent, Within
<1>5. Ttl <= 0 => entries' = <<>>
  <2>1. ASSUME Ttl <= 0 PROVE Len(entries') = 0
    <3>1. Len(entries) = 0
      BY <2>1, EmptySeq DEF StoreInv
    <3>2. QED
      BY <1>1, <1>2, <3>1
  <2>2. QED
    BY <1>1, <2>1, EmptySeq
<1>6. QED
  BY <1>1, <1>2, <1>3, <1>4, <1>5 DEF StoreInv, StoreCurrent, Distinct

\* What a hit returns is what was served last.
LEMMA HitServesNewest ==
  ASSUME TypeOK, StoreInv, NEW c \in Calls, Hit(c)
  PROVE  /\ ValueOf(entries, key[c]) = served[key[c]]
         /\ UNCHANGED served
<1>1. /\ Position(entries, key[c]) \in 1..Len(entries)
      /\ entries[Position(entries, key[c])].key = key[c]
  BY FreshValueOK DEF Hit
<1>2. ValueOf(entries, key[c]) = served[key[c]]
  BY <1>1 DEF ValueOf, StoreInv, StoreCurrent
<1>3. served[key[c]] \in Nat
  BY DEF TypeOK
<1>4. UNCHANGED served
  BY <1>2, <1>3 DEF Hit, Finish, Value
<1>5. QED
  BY <1>2, <1>4

\* A load that returns serves its own answer and stores nothing older.
LEMMA LoadServesNewest ==
  ASSUME TypeOK, StoreInv, ReadsInv, NEW c \in Calls, LoadReturns(c)
  PROVE  /\ response[c] \in Nat
         /\ served' = [served EXCEPT ![key[c]] = response[c]]
         /\ StoreInv'
<1>1. response[c] \in Nat /\ response[c] >= served[key[c]] /\ key[c] \in Keys
      /\ served \in [Keys -> Nat]
  BY DEF TypeOK, LoadReturns, ReadsInv, VersionsConsistent
<1>2. served' = [served EXCEPT ![key[c]] = response[c]]
  <2>1. served' = IF response[c] > served[key[c]]
                  THEN [served EXCEPT ![key[c]] = response[c]]
                  ELSE served
    BY DEF LoadReturns, Finish, Value
  <2>2. CASE response[c] = served[key[c]]
    <3>1. [served EXCEPT ![key[c]] = served[key[c]]] = served
      BY <1>1
    <3>2. QED
      BY <1>1, <2>1, <2>2, <3>1
  <2>3. CASE response[c] > served[key[c]]
    BY <2>1, <2>3
  <2>4. QED
    BY <1>1, <2>2, <2>3
<1>3. /\ entries' \in Seq(Entry(Keys, Nat))
      /\ Len(entries) <= Capacity => Len(entries') <= Capacity
      /\ Distinct(entries) => Distinct(entries')
      /\ Ttl <= 0 => entries' = entries
      /\ Ttl > 0 /\ Distinct(entries) =>
           Replaces(entries', entries, NewEntry(key[c], response[c], now + Ttl))
  <2>1. /\ entries \in Seq(Entry(Keys, Nat)) /\ now \in Int /\ Ttl \in Int
        /\ entries' = AfterSet(entries, key[c], response[c], Ttl, now)
    BY FlightAssumption DEF TypeOK, LoadReturns
  <2>2. entries' \in Seq(Entry(Keys, Nat))
    BY <1>1, <2>1, AfterSetOK
  <2>3. Len(entries) <= Capacity => Len(entries') <= Capacity
    BY <1>1, <2>1, AfterSetOK
  <2>4. Distinct(entries) => Distinct(entries')
    BY <1>1, <2>1, AfterSetOK
  <2>5. Ttl <= 0 => entries' = entries
    BY <2>1 DEF AfterSet
  <2>6. ASSUME Ttl > 0, Distinct(entries)
        PROVE  Replaces(AfterSet(entries, key[c], response[c], Ttl, now), entries,
                        NewEntry(key[c], response[c], now + Ttl))
    BY <1>1, <2>1, <2>6, AfterSetReplaces
  <2>7. QED
    BY <2>1, <2>2, <2>3, <2>4, <2>5, <2>6
<1>4. Distinct(entries) /\ Len(entries) <= Capacity
  BY DEF StoreInv, StoreCurrent, Distinct
<1>5. \A i \in 1..Len(entries') : entries'[i].value = served'[entries'[i].key]
  <2>1. CASE Ttl <= 0
    <3>1. entries' = <<>> /\ Len(entries') = 0
      BY <1>3, <2>1, EmptySeq DEF StoreInv
    <3>2. QED
      BY <3>1
  <2>2. CASE Ttl > 0
    <3> SUFFICES ASSUME NEW i \in 1..Len(entries')
                 PROVE  entries'[i].value = served'[entries'[i].key]
      OBVIOUS
    <3>1. CASE entries'[i] = NewEntry(key[c], response[c], now + Ttl)
      BY <1>1, <1>2, <3>1 DEF NewEntry
    <3>2. ASSUME NEW j \in 1..Len(entries), entries'[i] = entries[j], entries[j].key # key[c]
          PROVE  entries'[i].value = served'[entries'[i].key]
      <4>1. entries[j].value = served[entries[j].key]
        BY DEF StoreInv, StoreCurrent
      <4>2. entries[j].key \in Keys
        BY EntriesType DEF Entry
      <4>3. QED
        BY <1>1, <1>2, <3>2, <4>1, <4>2
    <3>3. QED
      BY <1>3, <1>4, <2>2, <3>1, <3>2 DEF Replaces, NewEntry
  <2>3. QED
    BY <2>1, <2>2, FlightAssumption
<1>6. StoreInv'
  BY <1>3, <1>4, <1>5 DEF StoreInv, StoreCurrent, Distinct
<1>7. QED
  BY <1>1, <1>2, <1>6

-----------------------------------------------------------------------------
(***************************************************************************)
(* Monotonic reads.                                                        *)
(***************************************************************************)

FullInv == RegistryInv /\ ReadsInv /\ StoreInv

LEMMA FullInvInit == Init => FullInv
<1> SUFFICES ASSUME Init PROVE FullInv
  OBVIOUS
<1>1. RegistryInv
  BY DEF Init, RegistryInv, OneLoaderPerKey, NoOrphans
<1>2. ReadsInv
  BY DEF Init, ReadsInv, ResultsConsistent, VersionsConsistent, MonotonicReads, NoResult
<1>3. StoreInv
  BY EmptySeq, CapacityType DEF Init, StoreInv, StoreCurrent
<1>4. QED
  BY <1>1, <1>2, <1>3 DEF FullInv

LEMMA ReadsStart ==
  ASSUME TypeOK, FullInv, NEW d \in Calls, Hit(d) \/ Coalesce(d) \/ Miss(d)
  PROVE  ReadsInv' /\ StoreInv'
<1> USE DEF FullInv
<1>1. CASE Hit(d)
  <2>1. ValueOf(entries, key[d]) = served[key[d]] /\ UNCHANGED served
    BY <1>1, HitServesNewest
  <2>2. StoreInv'
    BY <1>1, <2>1, LookupKeepsStore DEF Hit, Lookup
  <2>3. ReadsInv'
    BY <1>1, <2>1
       DEF Hit, Lookup, Finish, Value, NoResult, Failure, Cancellation, TypeOK, Location,
           RegistryInv, NoOrphans, ReadsInv, ResultsConsistent, VersionsConsistent,
           MonotonicReads
  <2>4. QED
    BY <2>2, <2>3
<1>2. CASE Coalesce(d)
  <2>1. StoreInv'
    BY <1>2, LookupKeepsStore DEF Coalesce, Lookup
  <2>2. inflight[key[d]] \in Calls /\ result[inflight[key[d]]] = NoResult
    BY <1>2 DEF Coalesce, TypeOK, RegistryInv, OneLoaderPerKey
  <2>3. ReadsInv'
    BY <1>2, <2>2, SMTT(30)
       DEF Coalesce, Lookup, NoResult, Failure, Cancellation, TypeOK, Location,
           RegistryInv, NoOrphans, ReadsInv, ResultsConsistent, VersionsConsistent,
           MonotonicReads
  <2>4. QED
    BY <2>1, <2>3
<1>3. CASE Miss(d)
  <2>1. StoreInv'
    BY <1>3, LookupKeepsStore DEF Miss, Lookup
  <2>2. ReadsInv'
    BY <1>3
       DEF Miss, Lookup, NoResult, Failure, Cancellation, TypeOK, Location,
           RegistryInv, NoOrphans, ReadsInv, ResultsConsistent, VersionsConsistent,
           MonotonicReads
  <2>3. QED
    BY <2>1, <2>2
<1>4. QED
  BY <1>1, <1>2, <1>3

LEMMA ReadsLoad ==
  ASSUME TypeOK, FullInv, NEW d \in Calls, Load(d)
  PROVE  ReadsInv' /\ StoreInv'
<1> USE DEF FullInv
<1>1. CASE UpstreamAnswers(d)
  BY <1>1
     DEF UpstreamAnswers, TypeOK, Location, StoreInv, StoreCurrent,
         ReadsInv, ResultsConsistent, VersionsConsistent, MonotonicReads
<1>2. CASE LoadReturns(d)
  <2>1. /\ response[d] \in Nat
        /\ served' = [served EXCEPT ![key[d]] = response[d]]
        /\ StoreInv'
    BY <1>2, LoadServesNewest
  <2>2. /\ pc[d] = "loading"
        /\ pc' = [pc EXCEPT ![d] = "done"]
        /\ result' = [result EXCEPT ![d] = Value(response[d])]
        /\ UNCHANGED <<version, key, leader, response, floor>>
    BY <1>2 DEF LoadReturns, Finish
  <2>3. /\ response[d] >= served[key[d]]
        /\ response[d] <= version[key[d]]
        /\ floor[d] <= response[d]
    BY <2>1, <2>2 DEF TypeOK, ReadsInv, VersionsConsistent
  <2>4. \A c \in Calls : pc[c] = "loading" /\ key[c] = key[d] => c = d
    BY <2>2 DEF RegistryInv, OneLoaderPerKey
  <2>5. ResultsConsistent'
    BY <2>1, <2>2, <2>3
       DEF TypeOK, Location, ReadsInv, ResultsConsistent, Value
  <2>6. VersionsConsistent'
    BY <2>1, <2>2, <2>3, <2>4
       DEF TypeOK, Location, RegistryInv, NoOrphans, ReadsInv, VersionsConsistent, Value
  <2>7. MonotonicReads'
    BY <2>1, <2>2, <2>3 DEF TypeOK, ReadsInv, MonotonicReads, Value
  <2>8. QED
    BY <2>1, <2>5, <2>6, <2>7 DEF ReadsInv
<1>3. ASSUME NEW r \in {Failure, Cancellation}, LoadEndsWith(d, r)
      PROVE  ReadsInv' /\ StoreInv'
  <2>1. UNCHANGED served /\ r.kind # "value"
    BY <1>3 DEF LoadEndsWith, Finish, Failure, Cancellation, TypeOK
  <2>2. StoreInv'
    BY <1>3, <2>1 DEF LoadEndsWith, StoreInv, StoreCurrent
  <2>3. ReadsInv'
    BY <1>3, <2>1
       DEF LoadEndsWith, Finish, TypeOK, Location, RegistryInv, NoOrphans, ReadsInv,
           ResultsConsistent, VersionsConsistent, MonotonicReads
  <2>4. QED
    BY <2>2, <2>3
<1>4. QED
  BY <1>1, <1>2, <1>3 DEF Load, LoadFails, LeaderCancelled

LEMMA ReadsFollower ==
  ASSUME TypeOK, FullInv, NEW d \in Calls, Deliver(d) \/ FollowerCancelled(d)
  PROVE  ReadsInv' /\ StoreInv'
<1> USE DEF FullInv
<1>1. CASE Deliver(d)
  <2> DEFINE r == result[leader[d]]
  <2>1. /\ leader[d] \in Calls /\ key[leader[d]] = key[d]
        /\ \/ r \in {Failure, Cancellation}
           \/ r.kind = "value" /\ r.version \in 0..served[key[d]] /\ r.version >= floor[d]
    BY <1>1
       DEF Deliver, RegistryInv, NoOrphans, ReadsInv, ResultsConsistent, VersionsConsistent
  <2>2. /\ pc' = [pc EXCEPT ![d] = "done"]
        /\ result' = [result EXCEPT ![d] = r]
        /\ UNCHANGED <<version, entries, key, leader, response, floor>>
        /\ pc[d] = "waiting"
    BY <1>1 DEF Deliver, Finish
  <2> HIDE DEF r
  <2>3. UNCHANGED served
    BY <1>1, <2>1 DEF Deliver, Finish, Failure, Cancellation, TypeOK, r
  <2>4. StoreInv'
    BY <2>2, <2>3 DEF StoreInv, StoreCurrent
  <2>5. r.kind = "value" => r.version >= floor[d]
    BY <2>1 DEF Failure, Cancellation
  <2>6. ResultsConsistent'
    BY <2>1, <2>2, <2>3 DEF TypeOK, Location, ReadsInv, ResultsConsistent
  <2>7. VersionsConsistent'
    BY <2>2, <2>3, <2>5
       DEF TypeOK, Location, RegistryInv, NoOrphans, ReadsInv, VersionsConsistent
  <2>8. MonotonicReads'
    BY <2>2, <2>5 DEF TypeOK, ReadsInv, MonotonicReads
  <2>9. QED
    BY <2>4, <2>6, <2>7, <2>8 DEF ReadsInv
<1>2. CASE FollowerCancelled(d)
  <2>1. UNCHANGED served /\ Cancellation.kind # "value"
    BY <1>2 DEF FollowerCancelled, Finish, Cancellation, TypeOK
  <2>2. StoreInv'
    BY <1>2, <2>1 DEF FollowerCancelled, StoreInv, StoreCurrent
  <2>3. ReadsInv'
    BY <1>2, <2>1
       DEF FollowerCancelled, Finish, TypeOK, Location, RegistryInv, NoOrphans, ReadsInv,
           ResultsConsistent, VersionsConsistent, MonotonicReads
  <2>4. QED
    BY <2>2, <2>3
<1>3. QED
  BY <1>1, <1>2

LEMMA FullInvHolds == Spec => []FullInv
<1>1. TypeOK /\ FullInv /\ [Next]_vars => FullInv'
  <2> SUFFICES ASSUME TypeOK, FullInv, [Next]_vars PROVE FullInv'
    OBVIOUS
  <2>1. CASE \E c \in Calls : CallStep(c)
    <3> PICK c \in Calls : CallStep(c)
      BY <2>1
    <3>1. RegistryInv
      BY DEF FullInv
    <3>2. CASE Hit(c) \/ Coalesce(c) \/ Miss(c)
      BY <3>1, <3>2, RegistryStart, ReadsStart DEF FullInv
    <3>3. CASE Load(c)
      BY <3>1, <3>3, RegistryLoad, ReadsLoad DEF FullInv
    <3>4. CASE Deliver(c) \/ FollowerCancelled(c)
      BY <3>1, <3>4, RegistryFollower, ReadsFollower DEF FullInv
    <3>5. QED
      BY <3>2, <3>3, <3>4 DEF CallStep
  <2>2. CASE Clear
    <3>1. RegistryInv'
      BY <2>2 DEF Clear, FullInv, RegistryInv, OneLoaderPerKey, NoOrphans
    <3>2. ReadsInv'
      BY <2>2 DEF Clear, FullInv, ReadsInv, ResultsConsistent, VersionsConsistent,
                  MonotonicReads
    <3>3. StoreInv'
      BY <2>2, EmptySeq, CapacityType DEF Clear, StoreInv, StoreCurrent
    <3>4. QED
      BY <3>1, <3>2, <3>3 DEF FullInv
  <2>3. CASE (\E k \in Keys : Publish(k)) \/ Tick \/ UNCHANGED vars
    <3> USE DEF Publish, Tick, vars
    <3>1. RegistryInv'
      BY <2>3 DEF FullInv, RegistryInv, OneLoaderPerKey, NoOrphans
    <3>2. StoreInv'
      BY <2>3 DEF FullInv, StoreInv, StoreCurrent
    <3>3. UNCHANGED <<pc, key, leader, response, result, served, floor>>
      BY <2>3
    <3>4. \A k \in Keys : version[k] \in Nat /\ version'[k] \in Nat /\ version[k] <= version'[k]
      BY <2>3 DEF TypeOK
    <3>5. ResultsConsistent' /\ MonotonicReads'
      BY <3>3 DEF FullInv, ReadsInv, ResultsConsistent, MonotonicReads
    <3>6. VersionsConsistent'
      BY <3>3, <3>4 DEF TypeOK, FullInv, ReadsInv, VersionsConsistent
    <3>7. ReadsInv'
      BY <3>5, <3>6 DEF ReadsInv
    <3>8. QED
      BY <3>1, <3>2, <3>7 DEF FullInv
  <2>4. QED
    BY <2>1, <2>2, <2>3 DEF Next
<1>2. QED
  BY <1>1, FullInvInit, TypeCorrect, PTL DEF Spec

\* No call ever gets a document older than one returned before it started.
THEOREM ReadsAreMonotonic == Spec => []MonotonicReads
<1>1. FullInv => MonotonicReads
  BY DEF FullInv, ReadsInv
<1>2. QED
  BY <1>1, FullInvHolds, PTL

\* The store stays within its capacity and holds the newest document served.
THEOREM StoreStaysCurrent == Spec => []StoreCurrent
<1>1. FullInv => StoreCurrent
  BY DEF FullInv, StoreInv
<1>2. QED
  BY <1>1, FullInvHolds, PTL

\* The inductive invariant of the cache, as the runs check it.
THEOREM InvariantHolds == Spec => []IInv
<1>1. FullInv => IInv
  BY DEF FullInv, RegistryInv, ReadsInv, StoreInv, IInv
<1>2. QED
  BY <1>1, FullInvHolds, PTL
=============================================================================
