------------------------------- MODULE Search -------------------------------
(***************************************************************************)
(* CatalogService.search (src/movieservice/catalog/service.py) for several *)
(* prompts at once: look up the genres, parse the prompt with what was     *)
(* found, ask the upstream either to discover or to search, narrow.        *)
(*                                                                         *)
(* The genre list is one document that all searches share: it may be in    *)
(* the cache, also when it does not have the shape the gateway expects,    *)
(* because raw payloads are cached; on a miss one search leads the load    *)
(* and the others follow, as in SingleFlight.  A document with results is  *)
(* shared likewise by the searches that ask for it at the same time.  All  *)
(* loads ask the same breaker and report at most one verdict, as in        *)
(* BreakerProtocol.  Without a ttl a document is neither cached nor shared.*)
(***************************************************************************)
EXTENDS CircuitBreaker, PromptParser

CONSTANTS
    Searches,       \* executions of search
    NoSearch,       \* no leader
    Deployments,    \* what Settings.from_env may find in the environment
    Pieces,         \* what prompts are made of
    Genres,         \* names in TMDB's list, in its order: a sequence of texts
    MaxQueryLength, \* MAX_QUERY_LENGTH, in pieces
    ResultLimit,    \* limit: 20 for the HTTP adapter, 5 for the MCP adapter
    ResultLists     \* what the upstream may answer: sequences of movies

ASSUME SearchAssumption ==
    /\ IsFiniteSet(Searches)
    /\ NoSearch \notin Searches
    /\ Deployments \subseteq [token: BOOLEAN, attempts: Int, genreTtl: Int, ttl: Int]
    /\ ResultLimit \in Nat \ {0}
    /\ MaxQueryLength \in Int

ASSUME GenresAssumption ==
    /\ Genres \in Seq(Range(Genres))
    /\ \A name \in Range(Genres) : Nameable(name)

VARIABLES
    settings,   \* TMDB_TOKEN, set or not, RETRY_ATTEMPTS, CACHE_GENRE_TTL_SECONDS and CACHE_TTL_SECONDS
    now,        \* time.monotonic()
    breaker,    \* the breaker of the upstream
    genreDoc,   \* the genre list in the cache
    leading,    \* the search that loads it
    phase,      \* where each search is suspended, or how it ended
    prompt,     \* its text
    leader,     \* whose load of the genre list it awaits: for the leader, itself
    lookup,     \* how its genre lookup ended; the leader's is what its future holds
    asker,      \* whose load of the results it awaits: for who sends the request, itself
    outcome,    \* how its call for results ended
    found       \* the movies it was given

vars ==
    <<settings, now, breaker, genreDoc, leading, phase, prompt, leader, lookup, asker, outcome, found>>

\* A movie, as far as one search distinguishes it: its title contains the keywords;
\* it was released in the year.
Movie == [titled: BOOLEAN, dated: BOOLEAN]

ASSUME ResultsAssumption == ResultLists \subseteq Seq(Movie)

Phase ==
    {"unasked", "new", "leading", "following", "asking", "awaiting", "answered", "failed"}

\* Endings of a call for a document that are domain errors: _safe_genres takes them for
\* an outage.  Without a token no request can be sent.
Outage == {"missing", "fault", "refused", "unconfigured"}

\* Those that are not.  int() of an infinite Retry-After raises OverflowError, and so does
\* the exponent of the delay after more than a thousand attempts.
Defect == {"misfit", "overflow", "cancelled"}

Lookup == {"none", "listed"} \cup Outage \cup Defect
Outcome == {"none", "invalid", "limited", "results"} \cup Outage \cup Defect

TypeOK ==
    /\ settings \in Deployments
    /\ now \in Nat
    /\ breaker \in Breaker
    /\ genreDoc \in {"cold", "fit", "misfit"}
    /\ leading \in Searches \cup {NoSearch}
    /\ phase \in [Searches -> Phase]
    /\ prompt \in [Searches -> Seq(Pieces)]
    /\ leader \in [Searches -> Searches \cup {NoSearch}]
    /\ lookup \in [Searches -> Lookup]
    /\ asker \in [Searches -> Searches \cup {NoSearch}]
    /\ outcome \in [Searches -> Outcome]
    /\ found \in [Searches -> Seq(Movie)]

Init ==
    /\ settings \in Deployments
    /\ now = 0
    /\ breaker = InitialBreaker
    /\ genreDoc = "cold"
    /\ leading = NoSearch
    /\ phase = [s \in Searches |-> "unasked"]
    /\ prompt = [s \in Searches |-> <<>>]
    /\ leader = [s \in Searches |-> NoSearch]
    /\ lookup = [s \in Searches |-> "none"]
    /\ asker = [s \in Searches |-> NoSearch]
    /\ outcome = [s \in Searches |-> "none"]
    /\ found = [s \in Searches |-> <<>>]

-----------------------------------------------------------------------------
\* _narrow and the limit.

Titled == {m \in Movie : m.titled}
Dated == {m \in Movie : m.dated}

\* Those of `movies` that are in `fitting`, in their order.
Among(movies, fitting) ==
    LET kept[n \in 0..Len(movies)] ==
            IF n = 0 THEN <<>>
            ELSE IF movies[n] \in fitting THEN Append(kept[n - 1], movies[n])
            ELSE kept[n - 1]
    IN  kept[Len(movies)]

\* The same, but all of them if there are none.
Prefer(movies, fitting) ==
    IF Among(movies, fitting) = <<>> THEN movies ELSE Among(movies, fitting)

\* Mutant of Narrow: the year goes before the title.
NarrowByYearFirst(movies, year) ==
    Prefer(IF year = NoYear THEN movies ELSE Prefer(movies, Dated), Titled)

\* Title matches if there are any, and of those the ones of the year if there are any.
Narrow(movies, year) ==
    IF year = NoYear THEN Prefer(movies, Titled) ELSE Prefer(Prefer(movies, Titled), Dated)

\* The prompt is parsed with the list, or with none if its lookup ended otherwise.
Parse(s, how) == ParseQuery(Strip(prompt[s]), IF how = "listed" THEN Genres ELSE <<>>)

Parsed(s) == Parse(s, lookup[s])

\* What the answer lists: discovered movies are not narrowed.
Shown(s) ==
    LET parsed == Parsed(s)
        movies == IF FilterOnly(parsed) THEN found[s] ELSE Narrow(found[s], parsed.year)
    IN  SubSeq(movies, 1, IF Len(movies) < ResultLimit THEN Len(movies) ELSE ResultLimit)

-----------------------------------------------------------------------------
MoveTo(s, p) == phase' = [phase EXCEPT ![s] = p]
Conclude(s, o) == outcome' = [outcome EXCEPT ![s] = o]

GiveUp(s, o) == MoveTo(s, "failed") /\ Conclude(s, o) /\ UNCHANGED found

Answer(s, movies) ==
    /\ MoveTo(s, "answered")
    /\ Conclude(s, "results")
    /\ found' = [found EXCEPT ![s] = movies]

\* The path and the parameters of the request for results: discover or search.
Document(parsed) ==
    IF FilterOnly(parsed) THEN <<"discover", parsed.genre, parsed.year>>
    ELSE <<"search", parsed.keywords, parsed.year>>

\* Who loads the document that `s` needs after its lookup ended so.
Loading(s, how) ==
    {t \in Searches \ {s} :
        /\ settings.ttl > 0
        /\ phase[t] = "asking" /\ Document(Parsed(t)) = Document(Parse(s, how))}

\* A request that can be sent.
Sends == settings.token /\ settings.attempts >= 1

\* The genre lookup is over and `b` is the breaker it leaves behind.  The search goes
\* on at once: its results are cached, they are being loaded, or the breaker is asked,
\* for the second time.  Only who asks it sends a request, unless it cannot.
Recall(s, b) ==
    /\ settings.ttl > 0 /\ Sends
    /\ (\E movies \in ResultLists : Answer(s, movies)) \/ GiveUp(s, "misfit")
    /\ breaker' = b
    /\ UNCHANGED asker

Share(s, t, b) ==
    /\ asker' = [asker EXCEPT ![s] = t]
    /\ MoveTo(s, "awaiting")
    /\ breaker' = b
    /\ UNCHANGED <<outcome, found>>

Send(s, b) ==
    /\ asker' = [asker EXCEPT ![s] = s]
    /\ breaker' = IF settings.attempts < 1 THEN AfterFailure(b, now) ELSE b
    /\ \/ settings.attempts < 1 /\ GiveUp(s, "fault")
       \/ settings.attempts >= 1 /\ ~settings.token /\ GiveUp(s, "unconfigured")
       \/ Sends /\ MoveTo(s, "asking") /\ UNCHANGED <<outcome, found>>

AskForResults(s, how, b) ==
    \/ Loading(s, how) = {} /\ Recall(s, b)
    \/ \E t \in Loading(s, how) : Share(s, t, b)
    \/ Loading(s, how) = {} /\ Allows(b, now) /\ Send(s, AfterAllows(b, now))
    \/ /\ Loading(s, how) = {} /\ ~Allows(b, now)
       /\ GiveUp(s, "refused")
       /\ breaker' = b
       /\ UNCHANGED asker

\* Mutant of EndLookup: only the faults of the upstream are caught.
EndLookupCatchingFaults(s, how, b) ==
    /\ lookup' = [lookup EXCEPT ![s] = how]
    /\ IF how \in {"listed", "fault"}
       THEN AskForResults(s, how, b)
       ELSE GiveUp(s, "none") /\ breaker' = b /\ UNCHANGED asker

\* _safe_genres catches domain errors; everything else passes through it and through
\* search: a payload that does not fit, an OverflowError, a CancelledError.
EndLookup(s, how, b) ==
    /\ lookup' = [lookup EXCEPT ![s] = how]
    /\ IF how \in {"listed"} \cup Outage
       THEN AskForResults(s, how, b)
       ELSE GiveUp(s, "none") /\ breaker' = b /\ UNCHANGED asker

-----------------------------------------------------------------------------
\* An adapter is asked to search for a text.
Submit(s, text) ==
    /\ phase[s] = "unasked"
    /\ MoveTo(s, "new")
    /\ prompt' = [prompt EXCEPT ![s] = text]
    /\ UNCHANGED <<settings, now, breaker, genreDoc, leading, leader, lookup, asker, outcome, found>>

\* The HTTP adapter has a quota: the service is not called.
TurnAway(s) ==
    /\ phase[s] = "new"
    /\ GiveUp(s, "limited")
    /\ UNCHANGED <<settings, now, breaker, genreDoc, leading, prompt, leader, lookup, asker>>

Acceptable(text) ==
    /\ Strip(text) # <<>>
    /\ Len(Strip(text)) <= MaxQueryLength

Reject(s) ==
    /\ phase[s] = "new"
    /\ ~Acceptable(prompt[s])
    /\ GiveUp(s, "invalid")
    /\ UNCHANGED <<settings, now, breaker, genreDoc, leading, prompt, leader, lookup, asker>>

Starts(s) ==
    /\ phase[s] = "new" /\ Acceptable(prompt[s])
    /\ UNCHANGED <<settings, now, genreDoc, prompt>>

LookupHit(s) ==
    /\ Starts(s)
    /\ genreDoc # "cold"
    /\ EndLookup(s, IF genreDoc = "fit" THEN "listed" ELSE "misfit", breaker)
    /\ UNCHANGED <<leading, leader>>

LookupFollow(s) ==
    /\ Starts(s)
    /\ genreDoc = "cold" /\ leading # NoSearch
    /\ leader' = [leader EXCEPT ![s] = leading]
    /\ MoveTo(s, "following")
    /\ UNCHANGED <<breaker, leading, lookup, asker, outcome, found>>

LookupAdmitted(s) ==
    /\ Starts(s)
    /\ genreDoc = "cold" /\ leading = NoSearch
    /\ Allows(breaker, now)
    /\ leader' = [leader EXCEPT ![s] = s]

\* The load is registered for others to follow unless the list is not to be cached.
LookupLead(s) ==
    /\ LookupAdmitted(s)
    /\ Sends
    /\ breaker' = AfterAllows(breaker, now)
    /\ leading' = IF settings.genreTtl > 0 THEN s ELSE NoSearch
    /\ MoveTo(s, "leading")
    /\ UNCHANGED <<lookup, asker, outcome, found>>

\* Loads that end before they suspend: without attempts, or without a token.
LookupUnsent(s) ==
    /\ LookupAdmitted(s)
    /\ \/ /\ settings.attempts < 1
          /\ EndLookup(s, "fault", AfterFailure(AfterAllows(breaker, now), now))
       \/ /\ settings.attempts >= 1 /\ ~settings.token
          /\ EndLookup(s, "unconfigured", AfterAllows(breaker, now))
    /\ UNCHANGED leading

\* The loader is refused without suspending: nobody can have followed it.
LookupRefused(s) ==
    /\ Starts(s)
    /\ genreDoc = "cold" /\ leading = NoSearch
    /\ ~Allows(breaker, now)
    /\ EndLookup(s, "refused", breaker)
    /\ UNCHANGED <<leading, leader>>

Start(s) ==
    \/ TurnAway(s) \/ Reject(s)
    \/ LookupHit(s) \/ LookupFollow(s) \/ LookupLead(s) \/ LookupUnsent(s) \/ LookupRefused(s)

-----------------------------------------------------------------------------
\* The leader's load ends; its future is resolved and unregistered in the same step.
EndLoad(s) ==
    /\ phase[s] = "leading"
    /\ leading' = NoSearch
    /\ UNCHANGED <<settings, now, prompt, leader>>

\* A JSON object, which is cached whatever its shape, if it is to be cached.
LookupServed(s) ==
    /\ EndLoad(s)
    /\ \E shape \in {"fit", "misfit"} :
        /\ genreDoc' = IF settings.genreTtl > 0 THEN shape ELSE genreDoc
        /\ EndLookup(s, IF shape = "fit" THEN "listed" ELSE "misfit", AfterSuccess(breaker))

\* A definitive answer without the list: 404, or a body that is no JSON object.
LookupMissing(s) ==
    /\ EndLoad(s)
    /\ EndLookup(s, "missing", AfterSuccess(breaker))
    /\ UNCHANGED genreDoc

LookupFault(s) ==
    /\ EndLoad(s)
    /\ EndLookup(s, "fault", AfterFailure(breaker, now))
    /\ UNCHANGED genreDoc

\* A 429 whose hint is infinite, or an exponent out of range: the breaker learns nothing.
LookupOverflow(s) ==
    /\ EndLoad(s)
    /\ EndLookup(s, "overflow", breaker)
    /\ UNCHANGED genreDoc

LeaderCancelled(s) ==
    /\ EndLoad(s)
    /\ EndLookup(s, "cancelled", breaker)
    /\ UNCHANGED genreDoc

\* Mutant of Resume: followers are told of a list only.
ResumeWithList(s) ==
    /\ phase[s] = "following"
    /\ lookup[leader[s]] = "listed"
    /\ EndLookup(s, lookup[leader[s]], breaker)
    /\ UNCHANGED <<settings, now, genreDoc, leading, prompt, leader>>

\* A follower is resumed with what the leader's future was given.
Resume(s) ==
    /\ phase[s] = "following"
    /\ lookup[leader[s]] # "none"
    /\ EndLookup(s, lookup[leader[s]], breaker)
    /\ UNCHANGED <<settings, now, genreDoc, leading, prompt, leader>>

FollowerCancelled(s) ==
    /\ phase[s] = "following"
    /\ EndLookup(s, "cancelled", breaker)
    /\ UNCHANGED <<settings, now, genreDoc, leading, prompt, leader>>

-----------------------------------------------------------------------------
\* The call for results ends.
EndAsking(s) ==
    /\ phase[s] = "asking"
    /\ UNCHANGED <<settings, now, genreDoc, leading, prompt, leader, lookup, asker>>

ResultsServed(s) ==
    /\ EndAsking(s)
    /\ breaker' = AfterSuccess(breaker)
    /\ (\E movies \in ResultLists : Answer(s, movies)) \/ GiveUp(s, "misfit")

ResultsMissing(s) ==
    /\ EndAsking(s)
    /\ breaker' = AfterSuccess(breaker)
    /\ GiveUp(s, "missing")

ResultsFault(s) ==
    /\ EndAsking(s)
    /\ breaker' = AfterFailure(breaker, now)
    /\ GiveUp(s, "fault")

ResultsOverflow(s) ==
    /\ EndAsking(s)
    /\ UNCHANGED breaker
    /\ GiveUp(s, "overflow")

\* Whoever awaits the load is resumed with what its future was given.
ResumeResults(s) ==
    /\ phase[s] = "awaiting"
    /\ outcome[asker[s]] # "none"
    /\ MoveTo(s, IF outcome[asker[s]] = "results" THEN "answered" ELSE "failed")
    /\ Conclude(s, outcome[asker[s]])
    /\ found' = [found EXCEPT ![s] = found[asker[s]]]
    /\ UNCHANGED <<settings, now, breaker, genreDoc, leading, prompt, leader, lookup, asker>>

AskerCancelled(s) ==
    /\ phase[s] \in {"asking", "awaiting"}
    /\ GiveUp(s, "cancelled")
    /\ UNCHANGED <<settings, now, breaker, genreDoc, leading, prompt, leader, lookup, asker>>

-----------------------------------------------------------------------------
\* The cached list expires, is evicted or cleared; a load under way is not touched.
Forget ==
    /\ genreDoc' = "cold"
    /\ UNCHANGED <<settings, now, breaker, leading, phase, prompt, leader, lookup, asker, outcome, found>>

Tick ==
    /\ now' = now + 1
    /\ UNCHANGED <<settings, breaker, genreDoc, leading, phase, prompt, leader, lookup, asker, outcome, found>>

Lookups(s) ==
    \/ LeaderCancelled(s)
    \/ LookupServed(s) \/ LookupMissing(s) \/ LookupFault(s) \/ LookupOverflow(s)

Followers(s) == Resume(s) \/ FollowerCancelled(s)

Results(s) ==
    \/ ResultsServed(s) \/ ResultsMissing(s) \/ ResultsFault(s) \/ ResultsOverflow(s)

Step(s) ==
    \/ Start(s) \/ Lookups(s) \/ Followers(s)
    \/ Results(s) \/ ResumeResults(s) \/ AskerCancelled(s)

Next ==
    \/ \E s \in Searches : Step(s) \/ \E text \in Seq(Pieces) : Submit(s, text)
    \/ Forget
    \/ Tick

Spec == Init /\ [][Next]_vars

-----------------------------------------------------------------------------
(***************************************************************************)
(* Properties.                                                             *)
(***************************************************************************)
Ended(s) == phase[s] \in {"answered", "failed"}

\* Calls, for the list or for results, that met a fault of the upstream.
FaultyLookups == {s \in Searches : lookup[s] = "fault" /\ leader[s] = s}
FaultyAnswers == {s \in Searches : outcome[s] = "fault" /\ asker[s] = s}

\* Searches are refused, at their lookup or for their results, only after Threshold
\* calls of all searches together have met faults, each counted once however many
\* searches followed it.
RefusalsNeedFaults ==
    (\E s \in Searches : "refused" \in {lookup[s], outcome[s]}) =>
        Cardinality(FaultyLookups) + Cardinality(FaultyAnswers) >= Threshold

\* A genre lookup that meets an outage never fails the search by itself, and a refusal
\* never comes without faults: a search that failed was turned away or no prompt, or has
\* met with trouble in its own call for results.  The exceptions are what _safe_genres
\* does not catch: a list in a shape the gateway cannot read, a hint that overflows, and
\* a load that was cancelled, the search's own or that of the one it followed.
SearchesFailForCause ==
    /\ RefusalsNeedFaults
    /\ \A s \in Searches : phase[s] = "failed" =>
        \/ outcome[s] \notin {"none", "results"}
        \/ lookup[s] \in Defect

\* Narrowing never leaves nothing of something, and never shows a movie that fits less
\* than one that was found: the title counts for more than the year.
FitsLess(m, n, year) ==
    \/ n.titled /\ ~m.titled
    \/ n.titled = m.titled /\ year # NoYear /\ n.dated /\ ~m.dated

NarrowingKeepsTheBest ==
    \A s \in Searches :
        LET parsed == Parsed(s)
            shown == Shown(s)
        IN  phase[s] = "answered" /\ ~FilterOnly(parsed) =>
                /\ shown = <<>> => found[s] = <<>>
                /\ \A i \in DOMAIN found[s], k \in DOMAIN shown :
                     ~FitsLess(shown[k], found[s][i], parsed.year)
=============================================================================
