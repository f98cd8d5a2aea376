---------------------------- MODULE HttpAdapter ----------------------------
(***************************************************************************)
(* The HTTP adapter (src/webapp.py) in front of the service: the quota of  *)
(* each client, validation, the mapping of errors to responses, request    *)
(* ids and the health check.  The requests are those of api_watch: where a *)
(* movie can be watched, for a region, from one document about all regions *)
(* that requests share, in the cache and while it is loaded, unless the    *)
(* deployment gives it no ttl.                                             *)
(*                                                                         *)
(* Below the adapter is what the other modules say of it: loads are the    *)
(* calls of BreakerProtocol, and a quota is the number of hits RateLimiter *)
(* finds in the window.  The limiter's clock and the breaker's differ.     *)
(***************************************************************************)
EXTENDS BreakerProtocol, FiniteSets

CONSTANTS
    Clients,        \* client addresses
    Movies,         \* movie ids
    Regions,        \* well-formed country codes
    DefaultRegion,  \* WATCH_DEFAULT_REGION
    Served,         \* which movie can be watched where
    MaxRequests,    \* RATE_LIMIT_MAX_REQUESTS
    Ttls            \* what CACHE_WATCH_TTL_SECONDS may be

ASSUME AdapterAssumption ==
    /\ IsFiniteSet(Calls)
    /\ DefaultRegion \in Regions
    /\ Served \subseteq [movie: Movies, region: Regions]
    /\ MaxRequests \in Int
    /\ Ttls \subseteq Int

VARIABLES
    ttl,            \* CACHE_WATCH_TTL_SECONDS
    used,           \* hits of each client in its window
    cache,          \* the document of each movie in the cache
    open,           \* the requests that await a document: a function from some of Calls
    replies,        \* the responses of this step
    failedLoads,    \* history: loads that ended with a fault
    brokenLoads     \* history: loads that ended with an exception nobody handles

history == <<failedLoads, brokenLoads>>
adapter == <<ttl, used, cache, open, replies, history>>
adapterVars == <<vars, adapter>>

Limit == IF MaxRequests > 1 THEN MaxRequests ELSE 1

None == "none"              \* no query parameter, no header, no response
Malformed == "malformed"    \* no country code

\* What the cache holds for a movie: nothing, the regions where it can be watched, or a
\* document the gateway cannot read.
Cached == [shape: {"cold", "fit", "misfit"}, regions: SUBSET Regions]

Cold == [shape |-> "cold", regions |-> {}]
Fit(document) == [shape |-> "fit", regions |-> document]
Misfit == [shape |-> "misfit", regions |-> {}]

Request == [movie: Movies, region: Regions]

\* to_payload and status_code of the errors.
StatusOf ==
    [invalid_query |-> 400, not_found |-> 404, rate_limited |-> 429,
     configuration_error |-> 500, upstream_error |-> 502, upstream_rate_limited |-> 429,
     upstream_timeout |-> 504, upstream_unavailable |-> 502, circuit_open |-> 503]

Fault == {"upstream_rate_limited", "upstream_timeout", "upstream_unavailable"}

\* A response to a request: the region it is about and whether there are options in it,
\* whether it has a Retry-After header, and whether it has the request id, which dispatch
\* adds to what call_next returns.
Response == [to: Request, status: {200, 400, 404, 429, 500, 502, 503, 504},
             region: Regions \cup {None}, options: BOOLEAN, retryAfter: BOOLEAN, tagged: BOOLEAN]

Ok(document, to) ==
    [to |-> to, status |-> 200, region |-> to.region, options |-> to.region \in document,
     retryAfter |-> FALSE, tagged |-> TRUE]

\* Only the errors of a quota carry a retry_after.
Error(code, to) ==
    [to |-> to, status |-> StatusOf[code], region |-> None, options |-> FALSE,
     retryAfter |-> code \in {"rate_limited", "upstream_rate_limited"}, tagged |-> TRUE]

\* What has no handler leaves dispatch as an exception.
Unhandled(to) ==
    [to |-> to, status |-> 500, region |-> None, options |-> FALSE,
     retryAfter |-> FALSE, tagged |-> FALSE]

AdapterTypeOK ==
    /\ TypeOK
    /\ ttl \in Ttls
    /\ used \in [Clients -> 0..Limit]
    /\ cache \in [Movies -> Cached]
    /\ DOMAIN open \subseteq Calls /\ \A c \in DOMAIN open : open[c] \in Request
    /\ replies \subseteq Response
    /\ failedLoads \in Nat /\ brokenLoads \in Nat

AdapterInit ==
    /\ Init
    /\ ttl \in Ttls
    /\ used = [c \in Clients |-> 0]
    /\ cache = [m \in Movies |-> Cold]
    /\ open = <<>>
    /\ replies = {}
    /\ failedLoads = 0 /\ brokenLoads = 0

-----------------------------------------------------------------------------
\* resolve_region: an explicit region wins over the hint of the CDN.
Preferred(asked, hint) == IF asked # None THEN asked ELSE hint

\* _resolve_region: the default for a missing or malformed one.
Resolve(region) == IF region \in Regions THEN region ELSE DefaultRegion

\* The regions that requests ask for, with and without parameter and header.
Asked ==
    {Resolve(Preferred(asked, hint)) : asked, hint \in Regions \cup {None, Malformed}}

\* The document about a movie.
ServedFor(m) == {region \in Regions : [movie |-> m, region |-> region] \in Served}

\* get_json: without a ttl every request loads for itself and nothing is cached.
Shared == ttl > 0

Loading(m) == Shared /\ \E c \in inflight : open[c].movie = m

\* The response of the only request that is answered in this step.
RespondAtOnce(c, response) ==
    /\ c \notin DOMAIN open
    /\ replies' = {response}
    /\ UNCHANGED <<ttl, open, cache>>

OverQuota(c, client, to) ==
    /\ used[client] >= Limit
    /\ RespondAtOnce(c, Error("rate_limited", to))
    /\ UNCHANGED <<vars, used, history>>

WithinQuota(client) ==
    /\ used[client] < Limit
    /\ used' = [used EXCEPT ![client] = @ + 1]

\* A parameter that is refused has used the quota.
Invalid(c, client, to) ==
    /\ WithinQuota(client)
    /\ RespondAtOnce(c, Error("invalid_query", to))
    /\ UNCHANGED <<vars, history>>

\* where_to_watch, when the document is in the cache.
Hit(c, client, to) ==
    /\ WithinQuota(client)
    /\ cache[to.movie] # Cold
    /\ RespondAtOnce(c, IF cache[to.movie] = Misfit
                        THEN Unhandled(to)
                        ELSE Ok(cache[to.movie].regions, to))
    /\ UNCHANGED <<vars, history>>

Miss(c, client, to) ==
    /\ WithinQuota(client)
    /\ cache[to.movie] = Cold
    /\ c \notin DOMAIN open

Await(c, to) ==
    /\ open' = [r \in DOMAIN open \cup {c} |-> IF r = c THEN to ELSE open[r]]
    /\ replies' = {}
    /\ UNCHANGED <<ttl, cache, history>>

Follow(c, client, to) ==
    /\ Miss(c, client, to)
    /\ Loading(to.movie)
    /\ Await(c, to)
    /\ UNCHANGED vars

Lead(c, client, to) ==
    /\ Miss(c, client, to)
    /\ ~Loading(to.movie)
    /\ Admit(c)
    /\ Await(c, to)

CircuitOpen(c, client, to) ==
    /\ Miss(c, client, to)
    /\ ~Loading(to.movie)
    /\ ~Admits
    /\ RespondAtOnce(c, Error("circuit_open", to))
    /\ UNCHANGED <<vars, history>>

\* Loads that end before they suspend: without attempts, or without a token.
WithoutAttempts(c, client, to) ==
    /\ Miss(c, client, to)
    /\ ~Loading(to.movie)
    /\ AdmitAndFail
    /\ failedLoads' = failedLoads + 1
    /\ RespondAtOnce(c, Error("upstream_unavailable", to))
    /\ UNCHANGED brokenLoads

WithoutToken(c, client, to) ==
    /\ Miss(c, client, to)
    /\ ~Loading(to.movie)
    /\ AdmitAndDrop
    /\ RespondAtOnce(c, Error("configuration_error", to))
    /\ UNCHANGED history

Arrive(c, client, to) ==
    \/ OverQuota(c, client, to) \/ Invalid(c, client, to) \/ Hit(c, client, to)
    \/ Follow(c, client, to) \/ Lead(c, client, to) \/ CircuitOpen(c, client, to)
    \/ WithoutAttempts(c, client, to) \/ WithoutToken(c, client, to)

-----------------------------------------------------------------------------
\* Who awaits the load of c: c, and those that found its movie being loaded.
Awaiting(c) == {r \in DOMAIN open : r = c \/ (Shared /\ open[r].movie = open[c].movie)}

\* The load of c ends and everybody gets the same outcome, each in its own region.
EndLoad(c, ResponseTo(_)) ==
    /\ c \in inflight
    /\ replies' = {ResponseTo(open[r]) : r \in Awaiting(c)}
    /\ open' = [r \in DOMAIN open \ Awaiting(c) |-> open[r]]
    /\ UNCHANGED <<ttl, used>>

Keep(m, document) == cache' = IF Shared THEN [cache EXCEPT ![m] = document] ELSE cache

\* Mutant of LoadServed: what was read for the leader is what everybody gets.
LoadServedForLeader(c) ==
    /\ EndLoad(c, LAMBDA to : [Ok(ServedFor(open[c].movie), open[c]) EXCEPT !.to = to])
    /\ Good(c)
    /\ Keep(open[c].movie, Fit(ServedFor(open[c].movie)))
    /\ UNCHANGED history

LoadServed(c) ==
    /\ EndLoad(c, LAMBDA to : Ok(ServedFor(open[c].movie), to))
    /\ Good(c)
    /\ Keep(open[c].movie, Fit(ServedFor(open[c].movie)))
    /\ UNCHANGED history

\* A JSON object is cached before the gateway reads it.
LoadServedMisfit(c) ==
    /\ EndLoad(c, Unhandled)
    /\ Good(c)
    /\ Keep(open[c].movie, Misfit)
    /\ brokenLoads' = brokenLoads + 1
    /\ UNCHANGED failedLoads

\* 404, or a body that is no JSON object.
LoadMissing(c) ==
    /\ \E code \in {"not_found", "upstream_error"} : EndLoad(c, LAMBDA to : Error(code, to))
    /\ Good(c)
    /\ UNCHANGED <<cache, history>>

\* Mutant of LoadFault: every request that is told of the fault reports it.
LoadFaultForEach(c) ==
    /\ \E code \in Fault : EndLoad(c, LAMBDA to : Error(code, to))
    /\ run' = run + Cardinality(Awaiting(c))
    /\ probing' = FALSE
    /\ shutAt' = IF run' >= Threshold THEN now ELSE shutAt
    /\ inflight' = inflight \ {c}
    /\ failedLoads' = failedLoads + 1
    /\ UNCHANGED <<now, cache, brokenLoads>>

LoadFault(c) ==
    /\ \E code \in Fault : EndLoad(c, LAMBDA to : Error(code, to))
    /\ Bad(c)
    /\ failedLoads' = failedLoads + 1
    /\ UNCHANGED <<cache, brokenLoads>>

\* A hint that overflows, or the CancelledError of a leader: nobody handles either.
LoadBreaks(c) ==
    /\ EndLoad(c, Unhandled)
    /\ Drop(c)
    /\ brokenLoads' = brokenLoads + 1
    /\ UNCHANGED <<cache, failedLoads>>

\* Mutant of FollowerLeaves: the future is awaited without a shield, so that it is
\* cancelled with the follower, for all the others that await it.
FollowerLeavesUnshielded(c) ==
    /\ c \in (DOMAIN open) \ inflight
    /\ LET others == (Awaiting(c) \ {c}) \ inflight
       IN  /\ replies' = {Unhandled(open[r]) : r \in others}
           /\ open' = [r \in DOMAIN open \ (others \cup {c}) |-> open[r]]
    /\ UNCHANGED <<vars, ttl, used, cache, history>>

\* A follower is cancelled; the load does not notice.
FollowerLeaves(c) ==
    /\ c \in (DOMAIN open) \ inflight
    /\ open' = [r \in DOMAIN open \ {c} |-> open[r]]
    /\ replies' = {}
    /\ UNCHANGED <<vars, ttl, used, cache, history>>

Load(c) ==
    LoadServed(c) \/ LoadServedMisfit(c) \/ LoadMissing(c) \/ LoadFault(c) \/ LoadBreaks(c)

-----------------------------------------------------------------------------
\* The oldest hit of a client leaves its window.
HitLeaves(client) ==
    /\ used[client] > 0
    /\ used' = [used EXCEPT ![client] = @ - 1]
    /\ replies' = {}
    /\ UNCHANGED <<vars, ttl, cache, open, history>>

\* A document expires or is evicted.
Forget(m) ==
    /\ cache[m] # Cold
    /\ cache' = [cache EXCEPT ![m] = Cold]
    /\ replies' = {}
    /\ UNCHANGED <<vars, ttl, used, open, history>>

TimePasses ==
    /\ Tick
    /\ replies' = {}
    /\ UNCHANGED <<ttl, used, cache, open, history>>

AdapterNext ==
    \/ \E c \in Calls, client \in Clients, m \in Movies, region \in Asked :
         Arrive(c, client, [movie |-> m, region |-> region])
    \/ \E c \in Calls : Load(c) \/ FollowerLeaves(c)
    \/ \E client \in Clients : HitLeaves(client)
    \/ \E m \in Movies : Forget(m)
    \/ TimePasses

AdapterSpec == AdapterInit /\ [][AdapterNext]_adapterVars

-----------------------------------------------------------------------------
(***************************************************************************)
(* Properties.                                                             *)
(***************************************************************************)

\* healthcheck: the breaker is closed exactly while the run of failures is short
\* (RunMatchesState of ResilientClient).
Health == IF TooManyFailures THEN 503 ELSE 200

\* Everybody is told about the movie and the region they asked for, and of options only
\* if there are any, whichever request, for whichever region, loaded the document.
RegionsAreTold ==
    \A r \in replies :
        r.status = 200 => r.region = r.to.region /\ (r.options <=> r.to \in Served)

\* The service reports itself degraded, and turns requests away, only after Threshold
\* loads have met faults, however many requests were told of each of them.
TroubleHasCause ==
    503 \in {Health} \cup {r.status : r \in replies} => failedLoads >= Threshold

\* What the adapter says, to clients and to whoever asks for its health, is so.
HonestReplies == AdapterTypeOK /\ RegionsAreTold /\ TroubleHasCause

\* A response lacks its request id only if, at that moment, the load its request awaited
\* broke, or the document cached for its movie does not fit: a request that goes away
\* takes nobody along who awaits the same load.
UntaggedHaveCause ==
    [][\A r \in replies' :
         ~r.tagged => brokenLoads' > brokenLoads \/ cache[r.to.movie] = Misfit]_adapterVars
=============================================================================
