------------------------- MODULE HttpAdapterProofs -------------------------
(***************************************************************************)
(* Theorems about HttpAdapter for every number of requests, clients and    *)
(* movies, and every configuration of the breaker and the limiter.         *)
(***************************************************************************)
EXTENDS HttpAdapter, TLAPS

-----------------------------------------------------------------------------
(***************************************************************************)
(* The inductive invariant: every load is that of a request that awaits it,*)
(* no two that are shared are for the same movie, what is cached is true,  *)
(* and every bad verdict of the run is that of a failed load.              *)
(***************************************************************************)

\* Whoever leads a load awaits it, and nobody else loads a document that is shared.
LoadsAreOpen ==
    /\ inflight \subseteq DOMAIN open
    /\ Shared => \A c, d \in inflight : open[c].movie = open[d].movie => c = d

\* What is cached is what was loaded.
CacheIsTrue == \A m \in Movies : cache[m] \in {Cold, Misfit, Fit(ServedFor(m))}

\* Each failed load is one bad verdict, however many requests awaited it.
RunIsPaidFor == run <= failedLoads

IInv == AdapterTypeOK /\ LoadsAreOpen /\ CacheIsTrue /\ RunIsPaidFor

LEMMA Thresholds == Threshold \in Nat \ {0} /\ Limit \in Nat \ {0}
  BY ProtocolAssumption, AdapterAssumption DEF Threshold, Limit

LEMMA RegionsOK ==
  \A m \in Movies, region \in Asked : [movie |-> m, region |-> region] \in Request
  BY AdapterAssumption DEF Asked, Resolve, Request

\* Each response of the mapping is one the adapter may give.
LEMMA ResponsesOK ==
  ASSUME NEW to \in Request
  PROVE  /\ \A code \in DOMAIN StatusOf : Error(code, to) \in Response
         /\ Ok(ServedFor(to.movie), to) \in Response
         /\ Unhandled(to) \in Response
<1>1. \A code \in DOMAIN StatusOf :
        StatusOf[code] \in {200, 400, 404, 429, 500, 502, 503, 504}
  BY DEF StatusOf
<1>2. to.region \in Regions
  BY DEF Request
<1>3. QED
  BY <1>1, <1>2 DEF Error, Ok, Unhandled, Response

\* Errors are tagged, are not 200, and 503 is said of an open breaker only.
LEMMA ErrorsOK ==
  ASSUME NEW code \in DOMAIN StatusOf, NEW to
  PROVE  /\ Error(code, to).status # 200
         /\ Error(code, to).tagged
         /\ Error(code, to).status = 503 => code = "circuit_open"
<1>1. StatusOf[code] # 200 /\ (StatusOf[code] = 503 => code = "circuit_open")
  BY DEF StatusOf
<1>2. QED
  BY <1>1 DEF Error

-----------------------------------------------------------------------------
(***************************************************************************)
(* Its preservation, one lemma per part.                                   *)
(***************************************************************************)

\* The steps of the adapter.
LEMMA Steps ==
  ASSUME AdapterNext
  PROVE  \/ \E c \in Calls, client \in Clients, to \in Request : Arrive(c, client, to)
         \/ \E c \in Calls : Load(c) \/ FollowerLeaves(c)
         \/ \E client \in Clients : HitLeaves(client)
         \/ \E m \in Movies : Forget(m)
         \/ TimePasses
  BY RegionsOK DEF AdapterNext

\* A deployment keeps its settings.
LEMMA SettingsStep == AdapterNext => UNCHANGED ttl
<1>1. ASSUME NEW c \in Calls, NEW client \in Clients, NEW to \in Request, Arrive(c, client, to)
      PROVE  UNCHANGED ttl
  BY <1>1 DEF Arrive, OverQuota, Invalid, Hit, Follow, Lead, CircuitOpen, WithoutAttempts,
              WithoutToken, RespondAtOnce, Await
<1>2. ASSUME NEW c \in Calls, Load(c) PROVE UNCHANGED ttl
  BY <1>2 DEF Load, LoadServed, LoadServedMisfit, LoadMissing, LoadFault, LoadBreaks, EndLoad
<1>3. QED
  BY <1>1, <1>2, Steps DEF FollowerLeaves, HitLeaves, Forget, TimePasses

\* Every step is one of the breaker protocol, or leaves the protocol alone.
LEMMA StepsFollowProtocol == AdapterNext => [Next]_vars
<1> USE DEF Next, vars
<1>1. ASSUME NEW c \in Calls, NEW client \in Clients, NEW to \in Request,
             Arrive(c, client, to)
      PROVE  [Next]_vars
  BY <1>1 DEF Arrive, OverQuota, Invalid, Hit, Follow, Lead, CircuitOpen,
              WithoutAttempts, WithoutToken
<1>2. ASSUME NEW c \in Calls, Load(c) \/ FollowerLeaves(c)
      PROVE  [Next]_vars
  BY <1>2 DEF Load, LoadServed, LoadServedMisfit, LoadMissing, LoadFault, LoadBreaks,
              FollowerLeaves
<1>3. ASSUME NEW client \in Clients, HitLeaves(client)
      PROVE  [Next]_vars
  BY <1>3 DEF HitLeaves
<1>4. ASSUME NEW m \in Movies, Forget(m)
      PROVE  [Next]_vars
  BY <1>4 DEF Forget
<1>5. ASSUME TimePasses
      PROVE  [Next]_vars
  BY <1>5 DEF TimePasses
<1>6. QED
  BY <1>1, <1>2, <1>3, <1>4, <1>5, Steps

\* The protocol keeps its types.
LEMMA ProtocolTypes == TypeOK /\ [Next]_vars => TypeOK'
<1> SUFFICES ASSUME TypeOK, [Next]_vars PROVE TypeOK'
  OBVIOUS
<1> USE DEF TypeOK
<1>1. TooManyFailures \in BOOLEAN /\ run + 1 \in Nat /\ now + 1 \in Nat
  BY DEF TooManyFailures
<1>2. ASSUME Admitted PROVE UNCHANGED <<now, run, shutAt>> /\ probing' \in BOOLEAN
  BY <1>1, <1>2 DEF Admitted
<1>3. ASSUME NEW c \in Calls, Admit(c) \/ Good(c) \/ Bad(c) \/ Drop(c) PROVE TypeOK'
  <2>1. CASE Admit(c)
    BY <1>2, <2>1 DEF Admit
  <2>2. CASE Good(c)
    BY <2>2 DEF Good, GoodVerdict
  <2>3. CASE Bad(c)
    BY <1>1, <2>3 DEF Bad, BadVerdict
  <2>4. CASE Drop(c)
    BY <2>4 DEF Drop
  <2>5. QED
    BY <1>3, <2>1, <2>2, <2>3, <2>4
<1>4. ASSUME AdmitAndFail \/ AdmitAndDrop \/ Tick \/ UNCHANGED vars PROVE TypeOK'
  BY <1>1, <1>2, <1>4 DEF AdmitAndFail, BadVerdict, AdmitAndDrop, Tick, vars
<1>5. QED
  BY <1>3, <1>4 DEF Next

\* A step of the protocol adds at most one to the run.
LEMMA LedgerStep ==
  ASSUME IInv, AdapterNext
  PROVE  /\ failedLoads' \in Nat /\ brokenLoads' \in Nat
         /\ failedLoads' >= failedLoads
         /\ RunIsPaidFor'
<1> USE DEF IInv, AdapterTypeOK, TypeOK, RunIsPaidFor, history, vars
<1>1. ASSUME NEW c \in Calls, NEW client \in Clients, NEW to \in Request,
             Arrive(c, client, to)
      PROVE  /\ failedLoads' \in Nat /\ brokenLoads' \in Nat
             /\ failedLoads' >= failedLoads
             /\ RunIsPaidFor'
  <2>1. CASE WithoutAttempts(c, client, to)
    BY <2>1 DEF WithoutAttempts, AdmitAndFail, BadVerdict
  <2>2. CASE WithoutToken(c, client, to)
    BY <2>2 DEF WithoutToken, AdmitAndDrop, Admitted
  <2>3. CASE Lead(c, client, to)
    BY <2>3 DEF Lead, Admit, Admitted, Await
  <2>4. QED
    BY <1>1, <2>1, <2>2, <2>3
       DEF Arrive, OverQuota, Invalid, Hit, Follow, CircuitOpen, Await
<1>2. ASSUME NEW c \in Calls, Load(c)
      PROVE  /\ failedLoads' \in Nat /\ brokenLoads' \in Nat
             /\ failedLoads' >= failedLoads
             /\ RunIsPaidFor'
  <2>1. CASE LoadFault(c)
    BY <2>1 DEF LoadFault, Bad, BadVerdict
  <2>2. CASE LoadBreaks(c) \/ LoadServedMisfit(c)
    BY <2>2 DEF LoadBreaks, Drop, LoadServedMisfit, Good, GoodVerdict
  <2>3. QED
    BY <1>2, <2>1, <2>2 DEF Load, LoadServed, LoadMissing, Good, GoodVerdict
<1>3. ASSUME UNCHANGED <<run, history>>
      PROVE  /\ failedLoads' \in Nat /\ brokenLoads' \in Nat
             /\ failedLoads' >= failedLoads
             /\ RunIsPaidFor'
  BY <1>3
<1>4. QED
  BY <1>1, <1>2, <1>3, Steps DEF FollowerLeaves, HitLeaves, Forget, TimePasses, Tick

\* Requests come and go so that loads stay open and apart.
LEMMA OpenStep ==
  ASSUME IInv, AdapterNext
  PROVE  /\ DOMAIN open' \subseteq Calls
         /\ \A c \in DOMAIN open' : open'[c] \in Request
         /\ LoadsAreOpen'
<1>0. Shared' = Shared
  BY SettingsStep DEF Shared
<1> USE DEF IInv, AdapterTypeOK, TypeOK, LoadsAreOpen, vars
<1> DEFINE Goal == /\ DOMAIN open' \subseteq Calls
                   /\ \A c \in DOMAIN open' : open'[c] \in Request
                   /\ LoadsAreOpen'
<1>1. ASSUME NEW c \in Calls, NEW client \in Clients, NEW to \in Request,
             Follow(c, client, to) \/ Lead(c, client, to)
      PROVE  Goal
  <2>1. /\ c \notin DOMAIN open
        /\ DOMAIN open' = DOMAIN open \cup {c}
        /\ open'[c] = to
        /\ \A d \in DOMAIN open : open'[d] = open[d]
    BY <1>1 DEF Follow, Lead, Miss, Await
  <2>2. CASE Follow(c, client, to)
    BY <1>0, <2>1, <2>2 DEF Follow
  <2>3. CASE Lead(c, client, to)
    <3>1. /\ inflight' = inflight \cup {c}
          /\ Shared => \A d \in inflight : open[d].movie # to.movie
      BY <2>3 DEF Lead, Admit, Loading
    <3>2. QED
      BY <1>0, <2>1, <3>1
  <2>4. QED
    BY <1>1, <2>2, <2>3
<1>2. ASSUME NEW c \in Calls, Load(c)
      PROVE  Goal
  <2>1. /\ c \in inflight
        /\ inflight' = inflight \ {c}
        /\ open' = [r \in DOMAIN open \ Awaiting(c) |-> open[r]]
    BY <1>2 DEF Load, LoadServed, LoadServedMisfit, LoadMissing, LoadFault, LoadBreaks,
                EndLoad, Good, Bad, Drop
  <2>2. \A d \in inflight : d \in Awaiting(c) => d = c
    BY <2>1 DEF Awaiting
  <2>3. QED
    BY <1>0, <2>1, <2>2
<1>3. ASSUME NEW c \in Calls, FollowerLeaves(c)
      PROVE  Goal
  BY <1>0, <1>3 DEF FollowerLeaves
<1>4. ASSUME UNCHANGED <<inflight, open>>
      PROVE  Goal
  BY <1>0, <1>4
<1>5. ASSUME NEW c \in Calls, NEW client \in Clients, NEW to \in Request,
             Arrive(c, client, to)
      PROVE  Goal
  <2>1. CASE Follow(c, client, to) \/ Lead(c, client, to)
    BY <1>1, <2>1
  <2>2. CASE UNCHANGED <<inflight, open>>
    BY <1>4, <2>2
  <2>3. QED
    BY <1>5, <2>1, <2>2
       DEF Arrive, OverQuota, Invalid, Hit, CircuitOpen, WithoutAttempts, WithoutToken,
           RespondAtOnce, AdmitAndFail, AdmitAndDrop
<1>6. QED
  BY <1>2, <1>3, <1>4, <1>5, Steps DEF HitLeaves, Forget, TimePasses, Tick

\* The quotas.
LEMMA QuotaStep == IInv /\ AdapterNext => used' \in [Clients -> 0..Limit]
<1> SUFFICES ASSUME IInv, AdapterNext PROVE used' \in [Clients -> 0..Limit]
  OBVIOUS
<1>1. used \in [Clients -> 0..Limit] /\ Limit \in Nat
  BY Thresholds DEF IInv, AdapterTypeOK
<1>2. ASSUME NEW client \in Clients, WithinQuota(client) PROVE used' \in [Clients -> 0..Limit]
  BY <1>1, <1>2 DEF WithinQuota
<1>3. ASSUME NEW client \in Clients, HitLeaves(client) PROVE used' \in [Clients -> 0..Limit]
  BY <1>1, <1>3 DEF HitLeaves
<1>4. ASSUME UNCHANGED used PROVE used' \in [Clients -> 0..Limit]
  BY <1>1, <1>4
<1>5. ASSUME NEW c \in Calls, Load(c) \/ FollowerLeaves(c) PROVE UNCHANGED used
  BY <1>5 DEF Load, LoadServed, LoadServedMisfit, LoadMissing, LoadFault, LoadBreaks, EndLoad,
              FollowerLeaves
<1>6. ASSUME NEW c \in Calls, NEW client \in Clients, NEW to \in Request,
             Arrive(c, client, to)
      PROVE  WithinQuota(client) \/ UNCHANGED used
  BY <1>6 DEF Arrive, OverQuota, Invalid, Hit, Follow, Lead, CircuitOpen,
              WithoutAttempts, WithoutToken, Miss
<1>7. QED
  BY <1>2, <1>3, <1>4, <1>5, <1>6, Steps DEF Forget, TimePasses

\* The cache.
LEMMA CacheStep ==
  ASSUME IInv, AdapterNext
  PROVE  cache' \in [Movies -> Cached] /\ CacheIsTrue'
<1> USE DEF IInv, AdapterTypeOK, CacheIsTrue
<1> DEFINE Goal == cache' \in [Movies -> Cached] /\ CacheIsTrue'
<1>1. Cold \in Cached /\ Misfit \in Cached /\ \A m \in Movies : Fit(ServedFor(m)) \in Cached
  BY DEF Cold, Misfit, Fit, Cached, ServedFor
<1>2. ASSUME NEW m \in Movies, NEW document \in {Cold, Misfit, Fit(ServedFor(m))},
             cache' = [cache EXCEPT ![m] = document]
      PROVE  Goal
  BY <1>1, <1>2
<1>3. ASSUME UNCHANGED cache PROVE Goal
  BY <1>3
<1>4. ASSUME NEW c \in Calls, Load(c) PROVE Goal
  <2>1. ASSUME c \in inflight PROVE open[c].movie \in Movies
    BY <2>1 DEF LoadsAreOpen, Request
  <2>2. c \in inflight
    BY <1>4 DEF Load, LoadServed, LoadServedMisfit, LoadMissing, LoadFault, LoadBreaks, EndLoad
  <2>3. CASE LoadServed(c)
    BY <2>1, <2>2, <2>3, <1>2, <1>3 DEF LoadServed, Keep
  <2>4. CASE LoadServedMisfit(c)
    BY <2>1, <2>2, <2>4, <1>2, <1>3 DEF LoadServedMisfit, Keep
  <2>5. QED
    BY <1>3, <1>4, <2>3, <2>4 DEF Load, LoadMissing, LoadFault, LoadBreaks
<1>5. ASSUME NEW c \in Calls, NEW client \in Clients, NEW to \in Request,
             Arrive(c, client, to)
      PROVE  UNCHANGED cache
  BY <1>5 DEF Arrive, OverQuota, Invalid, Hit, Follow, Lead, CircuitOpen,
              WithoutAttempts, WithoutToken, RespondAtOnce, Await
<1>6. ASSUME NEW m \in Movies, Forget(m) PROVE Goal
  BY <1>2, <1>6 DEF Forget
<1>7. QED
  BY <1>3, <1>4, <1>5, <1>6, Steps DEF FollowerLeaves, HitLeaves, TimePasses

\* A request that is answered, its answer, and the cause of it in this step.
Answers(r, to) ==
    \/ \E code \in DOMAIN StatusOf \ {"circuit_open"} : r = Error(code, to)
    \/ r = Error("circuit_open", to) /\ TooManyFailures /\ UNCHANGED failedLoads
    \/ r = Ok(ServedFor(to.movie), to)
    \/ r = Unhandled(to) /\ (brokenLoads' > brokenLoads \/ cache[to.movie] = Misfit)

RepliesHaveCause == \A r \in replies' : \E to \in Request : Answers(r, to)

\* The answer to a request that does not wait.
LEMMA ArrivalsStep ==
  ASSUME IInv, NEW c \in Calls, NEW client \in Clients, NEW to \in Request, Arrive(c, client, to)
  PROVE  RepliesHaveCause
<1> USE DEF RespondAtOnce, RepliesHaveCause
<1>1. {"invalid_query", "rate_limited", "upstream_unavailable", "configuration_error"}
        \subseteq DOMAIN StatusOf \ {"circuit_open"}
  BY DEF StatusOf
<1>2. CASE OverQuota(c, client, to) \/ Invalid(c, client, to)
  BY <1>1, <1>2 DEF OverQuota, Invalid, Answers
<1>3. CASE Hit(c, client, to)
  <2>1. cache[to.movie] = Misfit \/ cache[to.movie] = Fit(ServedFor(to.movie))
    BY <1>3 DEF Hit, IInv, CacheIsTrue, Request
  <2>2. Fit(ServedFor(to.movie)) # Misfit
    BY DEF Fit, Misfit
  <2>3. QED
    BY <1>3, <2>1, <2>2 DEF Hit, Fit, Answers
<1>4. CASE Follow(c, client, to) \/ Lead(c, client, to)
  BY <1>4 DEF Follow, Lead, Await
<1>5. CASE CircuitOpen(c, client, to)
  BY <1>5 DEF CircuitOpen, Admits, history, Answers
<1>6. CASE WithoutAttempts(c, client, to) \/ WithoutToken(c, client, to)
  BY <1>1, <1>6 DEF WithoutAttempts, WithoutToken, Answers
<1>7. QED
  BY <1>2, <1>3, <1>4, <1>5, <1>6 DEF Arrive

\* The answers to those that await a load: each about its own region.
LEMMA LoadsStep ==
  ASSUME IInv, NEW c \in Calls, Load(c)
  PROVE  RepliesHaveCause
<1> USE DEF EndLoad, RepliesHaveCause
<1>1. \A r \in Awaiting(c) : open[r] \in Request /\ open[r].movie = open[c].movie
  BY DEF Awaiting, IInv, AdapterTypeOK
<1>2. {"not_found", "upstream_error"} \cup Fault \subseteq DOMAIN StatusOf \ {"circuit_open"}
  BY DEF StatusOf, Fault
<1>3. CASE LoadServed(c)
  BY <1>1, <1>3 DEF LoadServed, Answers
<1>4. CASE LoadMissing(c) \/ LoadFault(c)
  BY <1>1, <1>2, <1>4 DEF LoadMissing, LoadFault, Answers
<1>5. CASE LoadBreaks(c) \/ LoadServedMisfit(c)
  <2>1. brokenLoads' > brokenLoads
    BY <1>5 DEF LoadBreaks, LoadServedMisfit, IInv, AdapterTypeOK
  <2>2. QED
    BY <1>1, <1>5, <2>1 DEF LoadBreaks, LoadServedMisfit, Answers
<1>6. QED
  BY <1>3, <1>4, <1>5 DEF Load

LEMMA RepliesStep == IInv /\ AdapterNext => RepliesHaveCause
<1> SUFFICES ASSUME IInv, AdapterNext PROVE RepliesHaveCause
  OBVIOUS
<1>1. ASSUME replies' = {} PROVE RepliesHaveCause
  BY <1>1 DEF RepliesHaveCause
<1>2. QED
  BY <1>1, Steps, ArrivalsStep, LoadsStep
     DEF FollowerLeaves, HitLeaves, Forget, TimePasses

\* What an answer says.
LEMMA AnswersOK ==
  ASSUME NEW r, NEW to \in Request, Answers(r, to)
  PROVE  /\ r \in Response
         /\ r.status = 200 => r.region = r.to.region /\ (r.options <=> r.to \in Served)
         /\ r.status = 503 => TooManyFailures /\ UNCHANGED failedLoads
         /\ ~r.tagged => brokenLoads' > brokenLoads \/ cache[r.to.movie] = Misfit
<1> DEFINE Goal == /\ r \in Response
                   /\ r.status = 200 => r.region = r.to.region /\ (r.options <=> r.to \in Served)
                   /\ r.status = 503 => TooManyFailures /\ UNCHANGED failedLoads
                   /\ ~r.tagged => brokenLoads' > brokenLoads \/ cache[r.to.movie] = Misfit
<1>1. ASSUME NEW code \in DOMAIN StatusOf, r = Error(code, to),
             code = "circuit_open" => TooManyFailures /\ UNCHANGED failedLoads
      PROVE  Goal
  BY <1>1, ErrorsOK, ResponsesOK
<1>2. CASE r = Ok(ServedFor(to.movie), to)
  <2>1. to = [movie |-> to.movie, region |-> to.region] /\ to.region \in Regions
    BY DEF Request
  <2>2. to.region \in ServedFor(to.movie) <=> to \in Served
    BY <2>1 DEF ServedFor
  <2>3. r \in Response
    BY <1>2, ResponsesOK
  <2>4. r.to = to /\ r.status = 200 /\ r.region = to.region /\ r.tagged
    BY <1>2 DEF Ok
  <2>5. r.options <=> to.region \in ServedFor(to.movie)
    BY <1>2 DEF Ok
  <2>6. QED
    BY <2>2, <2>3, <2>4, <2>5
<1>3. CASE r = Unhandled(to) /\ (brokenLoads' > brokenLoads \/ cache[to.movie] = Misfit)
  BY <1>3, ResponsesOK DEF Unhandled
<1>4. "circuit_open" \in DOMAIN StatusOf
  BY DEF StatusOf
<1>5. QED
  BY <1>1, <1>2, <1>3, <1>4 DEF Answers

-----------------------------------------------------------------------------
(***************************************************************************)
(* The theorems.                                                           *)
(***************************************************************************)

\* The inductive invariant of the adapter holds.
THEOREM InvariantHolds == AdapterSpec => [](IInv /\ HonestReplies)
<1> DEFINE Inv == IInv /\ HonestReplies
<1>1. AdapterInit => Inv
  <2> SUFFICES ASSUME AdapterInit PROVE Inv
    OBVIOUS
  <2> USE Thresholds DEF AdapterInit, Init
  <2>1. Cold \in Cached /\ DOMAIN open = {}
    BY DEF Cold, Cached
  <2>2. AdapterTypeOK
    <3>1. TypeOK
      BY DEF TypeOK
    <3>2. used \in [Clients -> 0..Limit] /\ cache \in [Movies -> Cached]
      BY <2>1
    <3>3. QED
      BY <2>1, <3>1, <3>2 DEF AdapterTypeOK
  <2>3. LoadsAreOpen /\ CacheIsTrue /\ RunIsPaidFor
    BY <2>1 DEF LoadsAreOpen, CacheIsTrue, RunIsPaidFor
  <2>4. RegionsAreTold /\ TroubleHasCause
    BY DEF RegionsAreTold, TroubleHasCause, Health, TooManyFailures
  <2>5. QED
    BY <2>2, <2>3, <2>4 DEF IInv, HonestReplies
<1>2. Inv /\ [AdapterNext]_adapterVars => Inv'
  <2>1. ASSUME Inv, UNCHANGED adapterVars PROVE Inv'
    BY <2>1 DEF adapterVars, adapter, history, vars, IInv, HonestReplies, AdapterTypeOK, TypeOK,
                LoadsAreOpen, Shared, CacheIsTrue, RunIsPaidFor, RegionsAreTold, TroubleHasCause,
                Health, TooManyFailures
  <2>2. ASSUME Inv, AdapterNext PROVE Inv'
    <3> USE <2>2
    <3>1. /\ failedLoads \in Nat /\ failedLoads' \in Nat /\ run \in Nat /\ run' \in Nat
          /\ TypeOK' /\ RunIsPaidFor' /\ RunIsPaidFor /\ failedLoads' >= failedLoads
      BY StepsFollowProtocol, ProtocolTypes, LedgerStep DEF IInv, AdapterTypeOK, TypeOK
    <3>2. \A r \in replies' : \E to \in Request : Answers(r, to)
      BY RepliesStep DEF RepliesHaveCause
    <3>3. replies' \subseteq Response
      BY <3>2, AnswersOK
    <3>4. AdapterTypeOK' /\ LoadsAreOpen' /\ CacheIsTrue'
      BY <3>1, <3>3, LedgerStep, OpenStep, QuotaStep, CacheStep, SettingsStep
         DEF IInv, AdapterTypeOK
    <3>5. RegionsAreTold'
      BY <3>2, AnswersOK DEF RegionsAreTold
    <3>6. TroubleHasCause'
      <4>1. \A r \in replies' : r.status = 503 => failedLoads' >= Threshold
        BY <3>1, <3>2, AnswersOK, Thresholds DEF TooManyFailures, RunIsPaidFor
      <4>2. Health' = 503 => failedLoads' >= Threshold
        BY <3>1, Thresholds DEF Health, TooManyFailures, RunIsPaidFor
      <4>3. QED
        BY <4>1, <4>2 DEF TroubleHasCause
    <3>7. QED
      BY <3>1, <3>4, <3>5, <3>6 DEF IInv, HonestReplies
  <2>3. QED
    BY <2>1, <2>2
<1>3. QED
  BY <1>1, <1>2, PTL DEF AdapterSpec

\* Clients are told the truth about their movie and region whoever asked for the document
\* first; degraded health and refusals are paid for by failed loads.
THEOREM RepliesAreHonest == AdapterSpec => []HonestReplies
BY InvariantHolds, PTL

\* A response lacks its id only when, in that step, a load broke that its request awaited
\* or its request found a document that does not fit.
THEOREM UntaggedRepliesHaveCause == AdapterSpec => UntaggedHaveCause
<1>1. IInv /\ AdapterNext =>
        \A r \in replies' :
          ~r.tagged => brokenLoads' > brokenLoads \/ cache[r.to.movie] = Misfit
  BY RepliesStep, AnswersOK DEF RepliesHaveCause
<1>2. IInv /\ [AdapterNext]_adapterVars =>
        [\A r \in replies' :
           ~r.tagged => brokenLoads' > brokenLoads \/ cache[r.to.movie] = Misfit]_adapterVars
  BY <1>1
<1>3. QED
  BY <1>2, InvariantHolds, PTL DEF AdapterSpec, UntaggedHaveCause

\* Every step of the adapter is one its breaker allows.
THEOREM AdapterFollowsProtocol == AdapterSpec => Spec
<1>1. AdapterInit => Init
  BY DEF AdapterInit
<1>2. [AdapterNext]_adapterVars => [Next]_vars
  BY StepsFollowProtocol DEF adapterVars
<1>3. QED
  BY <1>1, <1>2, PTL DEF AdapterSpec, Spec
=============================================================================
