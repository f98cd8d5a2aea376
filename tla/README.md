# A formal model of the movie catalog service

TLA+ modules, TLC configurations and TLAPS proofs about the service in `src/`:
an asynchronous TMDB client with retries, a circuit breaker and a cache, the
catalog service on top of it, and an HTTP and an MCP adapter. `PROJECT.json`
lists the components, runs, hazards, findings and theorems, and maps every
definition to the lines it models.

Run from this directory:

    tlc -workers 2 -config ResilientClientSafety.cfg MCResilientClient
    tlapm ResilientClientProofs.tla

## 1. Inventory

| Component (source) | State | Operations | What makes it correct |
| --- | --- | --- | --- |
| `CircuitBreaker` (transport/breaker.py) | state, run of failures, `opened_at`, trips | `allows`, `record_success`, `record_failure` | state and run agree whatever the order of verdicts; it opens for failed calls only, and recovers |
| `RetryPolicy` (transport/retry.py) | none | `should_retry`, `compute_delay`, `parse_retry_after` | what is retried, and how long a call waits |
| `ResilientHttpClient` (transport/client.py) | breaker, counters, pooled connections; per call the loop variable | `get_json`, `_get_json_uncached`, `aclose` | one verdict per call at most, attempts bounded, counters explain the requests, every call returns |
| `TTLCache` (transport/cache.py) | ordered entries, loads in flight | `get`, `set`, `get_or_load`, `clear` | one load per key, no follower forgotten, no older document after a newer one, least recently used evicted |
| `SlidingWindowRateLimiter` (inbound/ratelimit.py) | a deque of hits per client | `check`, `clear` | the quota in every window, no refusal without cause, a usable Retry-After |
| `CatalogService` (catalog/service.py) | none of its own; per request a fan-out of tasks | `movie_overview`, `search`, `where_to_watch` | partial answers are honest, no task outlives its request, every request ends |
| `TmdbGateway` (tmdb/gateway.py) | none | the TMDB reads, the headers provider | a missing token is no outage |
| prompt parser (catalog/query.py) | none | `normalize`, `extract_search_text`, `parse_query` | what stands for the filter is used up, the rest are the keywords |
| HTTP adapter (webapp.py) | the service, the limiter, a request id per request | quota, validation, regions, error mapping, health | a reply says what its request met; a degraded service turns healthy again |
| MCP adapter (server.py) | the lazily built service | four tools | domain errors become text |
| browser client (public/static/app.js) | box, status line, prompt line, grids, panel | search, open and close the panel | what is announced is shown, and nothing waits for ever |
| settings, models, errors, logging | immutable or none | | |

**How they interact.** Everything runs on one asyncio event loop. A request of an
adapter calls `CatalogService`, which calls `TmdbGateway`, whose one
`ResilientHttpClient` is shared by all requests. `get_json` goes through the cache:
a hit returns, a miss runs the loader or awaits the future of the call that does;
the loader is `_get_json_uncached`, which asks the breaker once, sends up to
`RETRY_ATTEMPTS` requests with sleeps in between, and reports at most one verdict.
`movie_overview` starts four such chains as tasks and gathers them; `search` awaits two
in a row, the genre list, which all searches share, and its results; `where_to_watch`
awaits one, for a document that all regions share. The rate limiter stands in front of
the routes that cost upstream calls. The page calls the routes with `fetch` and handles
each answer when it comes.

**What is hard.** Coroutines interleave at every await: verdicts arrive late, and
after the breaker has opened, closed or sent probes; calls sleep across state changes;
leaders fail or are cancelled under their followers; documents change while they are
loaded; entries expire under a load; the tasks of unrelated requests share a
breaker. Configuration is taken as it comes, clamped only where the code does so: zero attempts,
a threshold or a ttl of zero, a negative delay, a missing token. Nothing is persisted, so there is no recovery to
model; a restart is a new initial state. The hazards, each at its line and with the
properties that watch it, are in `PROJECT.json`.

## 2. The modules

One module per component, written over the operators of the component below it; MC
modules add symmetry and bounds; proofs live in modules of their own, over the lemmas of
`SharedLemmas`.

| Module | Models | Checked by | Proved in |
| --- | --- | --- | --- |
| `CircuitBreaker` | the breaker's methods as operators on a record | through the modules that use it | `SharedLemmas` |
| `BreakerProtocol` | what a breaker shared by concurrent calls promises: the abstract specification | `client_safety`, `breaker_protocol` | |
| `RetryPolicy` | the policy, delays as sets | `client_*` | `ResilientClientProofs` |
| `ResilientClient` | concurrent `_get_json_uncached`; EXTENDS `CircuitBreaker`, `RetryPolicy`; implements `BreakerProtocol` | `client_*` | `ResilientClientProofs` |
| `LruStore` | the ordered entries, `get` and `set` as operators | through the modules that use it | `LruStoreProofs` |
| `StoreHistory` | one store under every sequence of `get` and `set`, beside a record of what was set and used; EXTENDS `LruStore` | `lru_store` | `LruStoreProofs` |
| `SingleFlight` | concurrent `get_or_load` and `clear`; EXTENDS `LruStore` | `single_flight` | `SingleFlightProofs` |
| `RateLimiter` | `check` and `clear` on an exact clock | `rate_limiter` | `RateLimiterProofs` |
| `Overview` | concurrent `movie_overview`; EXTENDS `CircuitBreaker` | `overview` | `OverviewProofs` |
| `PromptParser` | the parser as operators, and what it is for | `search_page` | `BrowserClientProofs` |
| `Search` | concurrent `search`; EXTENDS `CircuitBreaker`, `PromptParser` | `search_page` | `BrowserClientProofs` |
| `BrowserClient` | the page; EXTENDS `Search` | `search_page` | `BrowserClientProofs` |
| `HttpAdapter` | the HTTP adapter and `where_to_watch`; EXTENDS `BreakerProtocol` | `breaker_protocol` | `HttpAdapterProofs` |

### State and actions

**Steps.** A coroutine runs without interruption from one await to the next, so an
action is the code between two suspension points, with all its effects. A method
without an await is an operator, applied inside the step that calls it. Clocks, delays and
ttls are integers of an arbitrary unit where the code has floats; a random roll is a
set of possible results.

**`ResilientClient`.** `settings` is what the environment held at startup. `pc` is where a
call is suspended: `sending` at the await of the response (client.py:132), `backoff` at the
sleep (client.py:198). `Refuse`, `Begin`,
`BeginWithoutToken` and `BeginWithoutAttempts` are the code up to the first
suspension; `Answered`, `Rejected`, `TransportFailure`, `ErrorStatus` and
`HintOverflow` what follows a response or an httpx error, up to the return, the raise
or the sleep; `Resume` the code after the sleep, up to the next request; `Cancel` a
CancelledError at either suspension. Creating the pooled client takes the lock only
when nobody holds it, so `_get_client` does not suspend. The upstream is free: any
reply or none, at any time. Payload and error text are left out; a call ends with an
outcome per class of `errors.py`. Two exits of the loop belong to no class: int() of an
infinite Retry-After (`HintOverflow`), and, where an attempt has to be delayed whose number
is above 1024, 2 ** n as a factor of a float (`DelayOverflows`); both leave through `Escape`,
without a verdict.

**`RetryPolicy`.** `Delays` is the set of what `compute_delay` may return. from_env clamps
neither the delays nor the jitter, so they may be negative: the cap is then below zero, and the
spread of a negative backoff turns round (`Between`). Infinity and NaN as settings are left out.
`MaxExponent` is 1023 in Python; the runs set it to 1, to reach the overflow in the third
backoff.

**`BreakerProtocol`** knows only a run of bad verdicts, when it last became or stayed
too long, whether probes are being let through, and who has been admitted. The
refinement mapping takes `run` from `failures`, `shutAt` from `opened_at`, `probing`
from the state HALF_OPEN, and `inflight` from the calls that are sending or
asleep: retries, sleeps and counters disappear.

**`SingleFlight`.** `loading` is the leader at its await of the loader (cache.py:77),
`waiting` a follower at its shielded await (cache.py:71). `inflight` maps a key to the
leader whose future is registered, and the leader's `result` is what that future was
given. The upstream document has a version that may change at any time; the loader
reads it (`UpstreamAnswers`) some time before it returns (`LoadReturns`). `served` and
`floor` are history.

**`Overview`.** `Gather` creates the tasks, `StartLeg` is the first run of one: asyncio
resumes new tasks in the order of their creation, one right after the other, so no
response is handled in between. Each that is not answered from the cache asks the breaker.
Documents still in the cache are any subset, because entries expire one by one. From
then on a task is what `BreakerProtocol` says of a call: it ends with a value, with a
failure the breaker takes for a success, with a fault, or by cancellation. Raw payloads
are cached before the gateway reads them, so a document in the cache may be one that does
not fit, and the task ends with an error no domain class covers. The requests are about
different movies, so they share no load; sharing is the subject of `SingleFlight`,
`Search` and `HttpAdapter`. Without a token or without attempts a task ends in its first
run, and a hint that overflows ends it without a verdict (`Overflow`). Each task reads the
clock for itself, so time may pass between the starts of two tasks of a request; nothing
else may.

**`StoreHistory`.** `Get` and `Put` are whole calls of the cache's methods, which do not
await. `since` holds for each key the other keys used after it, so that its cardinality says how
many entries must have been pushed behind it; `lastSet` is what the store should hold.
Its names differ from those of `SingleFlight`, because `SingleFlightProofs` extends the lemmas
about the store.

**`RateLimiter`.** `check` is one action, `Admit` or `Refuse`, on a clock with several
ticks per second, because the limiter compares exact times and answers in whole
seconds. `SetBack` is the wall clock being adjusted; the quota needs a steady clock, the
causes of refusals and the hints do not. `admitted`, `refused`, `steady` and `comeBack`
are history.

**`PromptParser`.** A text is a sequence of pieces. `Gap` is one blank; `Whitespace` is what
strip() removes; `Separators` is all that the word pattern does not find, punctuation
and accented letters included. Any other piece is a stretch of letters and digits that
matters as a whole. Substring search is search for consecutive pieces, so `<<"war", "s">>`
is the word "wars", in which the genre "war" is found, and a genre with one blank is not found
in a text with two or with a hyphen. For \b, underscores and accented letters are parts of a
word (`Joiners`), and an apostrophe is not, though the word pattern takes it for one (`Openers`,
`Possessives`). `ParseQuery` runs the code's steps in its order. `WithoutGenre` scans from
the left as `str.replace` does; it leaves a blank for each piece it takes, where the code
leaves one for all, so that positions stay what they were: only words are looked at
afterwards. `Keywords` walks over the text and collects a word where one ends. The genre
names are `Nameable`, as all of TMDB's are and those of the tests
(test_catalog.py:22-31): no year in them, a word before every blank, and no
name that can overlap itself. A list with a name "tv tv" would need this spelled out: in
"tv tv tv" the scan takes the first two and keeps the third, which the reference counts as
used up as well. `UsedUp`, `Runs` and `IntendedKeywords` are the reference: they
say by positions, without an order of removal, which pieces stand for the filter and which
words remain.

**`Search`.** `settings` is one of `Deployments`: a token or none, the attempts, and the two
ttls. `Submit` is a request to an adapter; the HTTP adapter may turn it away for its quota
(`TurnAway`). Then `Start` is the code up to the first suspension: validation, then the genre
list from the cache, as a follower of the search that is loading it, as the leader of a new
load, or not at all because the breaker refuses or no request can be sent (`LookupUnsent`).
`Lookups` end the leader's load and resolve its future; `Resume` gives a
follower what that future holds. `EndLookup` is `_safe_genres` and all that runs after it
without suspending: parsing and the start of the call for results. A search that is asking
for the same path and parameters lends its load (`Share`, `awaiting`, `ResumeResults`);
otherwise the breaker is asked, for the second time (`Send`). `Results` end that call. Results
are cached per document, so any of the lists may be there (`Recall`). Without a positive ttl
nothing is cached and no load is shared. What `_safe_genres` does not catch is `Defect`: a
list that does not fit, an OverflowError of the transport, a CancelledError. A movie
is a pair: its title contains the keywords, its year is the
one asked for. `Narrow` keeps the movies that match, unless there are none
(`Prefer`, `Among`), once by title and once by year.

**`BrowserClient`.** The variables are the elements of the page: the box, the status line and
the search it is about, the line about the prompt, the grids in the results (an
answer appends its grid; only a new search clears them), the panel. `DoSearch` is
`doSearch` up to its fetch, `HandleAnswer` the rest; `OpenPanel` and `FillPanel` are the
two halves of `openWatchPanel`. Nothing is disabled or aborted in between, so any number
of answers is outstanding. The connection of a fetch may break at any time (`ShowError`),
whatever becomes of the search on the server. What the server does in `Server` are the
steps of `Search`.

**`HttpAdapter`.** A request of `api_watch` is rejected (`OverQuota`,
`Invalid`), answered from the cache (`Hit`), becomes the leader or a follower of the load
of its movie's document (`Lead`, `Follow`), or ends without suspending (`CircuitOpen`,
`WithoutAttempts`, `WithoutToken`). With a ttl that is not positive nothing is cached and
every request loads for itself (`Shared`). Any load may find no token or no attempts to
make, which is more than a deployment does: there it is all of them or none. `Load` ends a
load; all requests that await it are answered in that step, each for its own region: the
order in which the event loop resumes them makes no difference to any reply. A reply names the request it is to, its status, the region
and whether there are options, whether it has a Retry-After header (the two errors of a quota
do) and whether it has the request id. The loads are the calls of `BreakerProtocol`, and the
quota of a client is the number of hits that `RateLimiter` finds in its window;
`HitLeaves` takes one out. The limiter's clock is not the breaker's, so hits and the reset
period age independently. `replies` holds the responses of the step; `failedLoads` and
`brokenLoads` are history.

## 3. The runs

| Run | Instance | Shows |
| --- | --- | --- |
| `breaker_protocol` | `MCHttpAdapter`: 3 requests at a time of 1 client with a quota of 1, 2 movies, 2 regions, each movie in one of them, ttl 0 or positive, threshold 2, reset after 1 tick, at most `MaxTrouble` = 3 failed or broken loads | replies are honest, and lack their id for cause; a degraded service turns healthy once the dependency answers |
| `client_safety` | 4 calls, threshold 2, reset after 2 ticks; 2 attempts, or one, or none, with or without a token | the safety properties, and the refinement of `BreakerProtocol` |
| `client_liveness` | 2 calls, threshold 0 (clamped to 1), 4 attempts, an exponent of at most 1 (`MaxExponent`), jitter, 429 and 501, hints | every call returns, no sleep is too long; the inductive invariant holds |
| `lru_store` | 3 keys, 2 places, ttls 0 to 2 | eviction, expiry and order of use |
| `single_flight` | 3 calls, 2 keys, 1 place, two changes per document (`MaxVersion`) | registry, futures, store and documents agree; everybody returns |
| `rate_limiter` | 2 clients, 2 hits per 4 ticks, 6 ticks (`MaxTime`), 3 admissions (`MaxAdmissions`), clock set back at will | quota, earned refusals, honest hints |
| `overview` | 2 requests of 3 tasks, one endpoint `Reliable`, threshold 2, in the usual deployment, without a token and without attempts | honest answers, owned tasks, refusals with a cause; every request ends |
| `search_page` | `MCBrowserClient`: 2 searches, 3 prompts, any text of up to 3 pieces (`MaxTyped`), 3 result lists of which 1 movie is shown (`ResultLimit`), prompts of up to 5 pieces (`MaxQueryLength`), threshold 2, 2 panels, in 4 `Deployments` | parser against its reference; narrowing; failures with a cause; what is announced is shown; every search is read |

**Bounds.** Threshold 2 is the least that tells a run from a single failure, and four
calls are the least with two that trip the breaker, one that is late and one that
probes. One place in the cache with two keys makes every store an eviction; three calls
are a leader, a follower and one that comes before or after. Two changes of a document
are enough for a load that is two versions behind. Six ticks are a window and a half,
so that hits leave it one by one, and three admissions one more than the quota. Three
requests at a time are a leader, its follower and a leader for the other movie; a quota of
1 makes every second request one that is refused, and three bad loads trip the breaker and
fail a probe. Two searches are a leader and a follower, and the two whose answers
overlap; three pieces are enough for a genre inside a word, a genre of two words and a
year before an apostrophe, and the chips hold the longer prompts, one of them too
long. Two panels are the least with a late answer. In `search_page` the user types before
the first search, searches are used in their order, and panels are opened when the first
search has been answered and no other has begun: the panel and the searches share
nothing but the cards. The deployments are the usual one, one without a
cache, one without a token and one without attempts. Only the connection of the first search
breaks before its answer is there. In `overview` the requests are numbered in the order in
which they come, their tasks are started in it, and the endpoint in `Reliable`, if it is asked,
answers with what is expected. Calls
are not restarted: a call that has ended and one that begins anew differ only in the
history the properties look at, and the number of calls bounds the behaviour. Clocks
are bounded by a guard, not by a constraint: in `MCResilientClient`, `MCOverview`,
`MCSingleFlight`, `MCHttpAdapter` and `MCBrowserClient` time passes only while something in the code
waits for it: a sleep, the reset period, an entry that has not expired. All comparisons
with the clock are against such a moment, so a tick that is left out would change no
guard. `MCRateLimiter` and `MCLruStore` stop at `MaxTime`.

**Symmetry** is used for calls and clients, in `client_safety` and `rate_limiter` only.

**Deadlock** is checked in `lru_store` (when the clock stops, gets and sets go on)
and in `breaker_protocol` (requests keep coming). In the other runs it is turned off
because a system of finitely many calls does stop; that it stops with everything answered is
what the liveness properties say.

**Fairness.** *The client:* httpx ends every request, with a reply or its own timeout
(`WF(Reply)`); the event loop resumes a coroutine whose sleep is over (`WF(Resume)`),
and time passes. Nothing is assumed of new calls or of cancellation. *The cache:*
loaders end, which is what `EveryCallReturns` says of the client, and the loop resumes
those who await a resolved future. *The overview:* the loop starts and resumes tasks,
and every call of the client returns. *The searches and the page:* the server starts what was
sent and resumes followers, its loads end, and fetch returns; the page handles whatever
it is given (`WF_read(Returned)`). Followers are
assumed to be resumed when no search awaits its results, which is less than the event loop does
and enough. The user need not do anything. *The adapter:* after at most
`MaxTrouble` bad loads the upstream answers each of them, hits leave their window, documents
leave the cache, the reset period passes, and one client does not give up asking for a
movie that is not in the cache (strong fairness: others may take the free place or its
quota again and again). `Recovery` is about such an upstream and such traffic: without
requests that reach the upstream, an open breaker stays open and `/api/health` degraded.

### Disagreements between code and documents

Three runs expect a violation; each checks one sentence of the repository against what
the code does, and `PROJECT.json` quotes it.

- `claim_single_probe`: in half-open state every call is let through, not one.
- `claim_followers_spared`: a cancelled leader cancels its followers, whom nobody
  cancelled; an overview of another request then lacks a document, or dies of it.
- `claim_panel`: the answer to an earlier click is written into the panel that a later
  click has opened (app.js:212), under the other movie's title. The answer to a click
  whose panel was closed likewise stays in the hidden panel, and is seen in the next.

The models follow the code in other places where a document says more, and the
properties state what does hold:

- README.md:53-54 says delays are capped at `RETRY_MAX_DELAY`; the jitter is added after
  the cap (`WaitsBounded`). With a negative base or cap and a jitter of more than the whole
  backoff no setting bounds a delay; `WaitsBounded` excludes that case.
- README.md:53 says 5xx are retried; the code retries 500, 502, 503 and 504
  (`RetryableStatuses`).
- breaker.py:5 says an open breaker fails fast until a probe succeeds; a late success of
  a call admitted earlier closes it too (`AfterSuccess`), and calls that sleep when it
  opens still send their retries. `Quarantine` holds once none of them is left.
- errors.py:5-7 says upstream failures do not leak; a 429 with an infinite Retry-After
  ends in an OverflowError (`HintOverflow`), which `_safe_genres` does not catch either
  (`LookupOverflow`).
- README.md:95 says every response carries an `x-request-id`; the response to an exception
  without a handler does not (`Unhandled`). `UntaggedHaveCause` says when that is.
- README.md:81 says a genre outage does not fail a search; domain errors do not, but a list of
  an unexpected shape, which stays in the cache, an infinite Retry-After and a cancelled leader
  do. The failed lookup also counts against the breaker that is then asked for the results.
  `SearchesFailForCause` lists all causes: the search was turned away or was no prompt; its
  own call for results, or the one it shares, ended badly; its lookup ended in a `Defect`.
- Requests with an invalid parameter have spent quota (`Invalid`).
- A Retry-After is cut to whole seconds (ratelimit.py:31): who waits exactly as long may be
  refused again. `HintHonoured` allows a second more.
- Of two overlapping searches the page may show the older one's answer last, and both their
  grids; `FoundIsShown` says that status, prompt line and last grid belong together.
- `TTLCache.clear` drops entries under a load (`Clear`); the repository does not call it.

## 4. The proofs

Every safety invariant and action property of the runs is proved, and so are the two
refinements of `BreakerProtocol`. The theorems
hold for every number of calls, requests, keys and legs and every finite configuration the code
accepts, `WaitsBounded` under the condition it states; the assumptions are the named ASSUMEs of the modules (finite sets, integer
numbers, the shape of genre names), which TLC evaluates in the runs.

**`SharedLemmas`** has the lemmas on the breaker's methods and the means to reason about
recursive functions. The library's induction takes an operator as a parameter, which the
provers cannot instantiate; here it is stated of sets. `Induction`: a set of numbers that
has zero and the successor of each member has them all. `RecursionExists`: for a start and
a step relation that always leads somewhere, a sequence of values exists; a function that the
model defines by CHOOSE, as all recursive functions are, is therefore one that satisfies its
equations. `Least` and `Greatest` give a bounded set of numbers its ends.

**`ResilientClientProofs`.** The threshold property counts failed calls, and is not
inductive: the breaker only remembers a run. `IInv` adds that the failures counter is
the number of failed calls and covers both the run and the trips
(`breaker.trips + Threshold - 1 <= failures`), that state and run agree, and what each
call's position says about its attempt and outcome. The lemmas `BreakerStep`,
`FaultStep` and `RequestStep` summarise what any step does to the breaker, to failures
and to requests; each theorem then has one case per kind of step. Further theorems:
the attempt budget, the explanation of the retry counter, `Quarantine` as an action
property (while the breaker is open, only the retries of calls in flight are sent),
blamelessness without a token, `SleepsEnd`: provided that base and cap are not negative, or that
the jitter is at most the whole backoff, no sleep is longer than
the cap with its jitter, which rests on the doubled delay being a number whatever
the attempt; and `ImplementsProtocol`: every step of the client is a step of
`BreakerProtocol` or a stutter.

**`LruStoreProofs`** are lemmas on the store's operators (which keys they leave, that
no key is doubled, that the capacity holds, which values survive), and the theorems
about `StoreHistory`. `RecentlyUsedSurvive` is not inductive: of a key that is gone it must be
known that enough others were used after it, which is true of the victim of an eviction
because the entries are ordered by use. `HistoryInv` therefore consists of
`OrderedByUse`, `KeptAsSet` (what is stored is what was set last, once) and `LostForCause` (an
unexpired key that is missing was pushed out by as many keys as fit).

**`SingleFlightProofs`.** The registry invariant (loading calls are exactly the
registered ones, and followers have a leader on their key that runs or has a result)
gives `OneLoader` and `FollowersHaveLeaders`. Monotonic reads need to know why a late
store is harmless: only one load per key runs, so an answer on its way is at least as
new as everything served (`VersionsConsistent`), and the store holds what was served
last (`StoreCurrent`). The two are proved together in `FullInv`.

**`OverviewProofs`.** `RefusalsArePaidFor` follows from the breaker's run being covered
by tasks that met a fault; honesty and ownership from the gathering of all tasks
before a request goes on.

**`HttpAdapterProofs`.** `IInv` says that the loads are requests that are open, no two
that are shared for the same movie; that the cache holds the truth or a document that does
not fit; and that the run of bad verdicts is covered by failed loads. `Answers` names what a
reply may be and why; from it follow the honesty of the replies and the cause of every
missing id. `AdapterFollowsProtocol`: in the composition every step is one of
`BreakerProtocol` or a stutter. With `ImplementsProtocol` both users of the
abstract specification, above and below, are tied to it.

**`BrowserClientProofs`** is about `Search` and `BrowserClient`. What a
search knows follows from where it is (`Progress`: before its lookup ends it has no result, and
only one search leads). The breaker's run is covered by faulty calls, where a lookup counts
for its leader only, and a call for results for who asked, not for those that share it; this
gives the refusals of `FailuresHaveCause`. A success is about an answered
search, and answers do not change, so `SuccessIsShown` holds although answers arrive in
any order. `PageSearches`: whatever the page does, the server sees a behaviour of `Search`,
so its theorems hold of the page. `BestIsShown` follows the movies through the two
narrowings: what is shown is a subset of what was found, nonempty if that was, and if any of
them matches the title, or the year among those that do, all of them do.

`KeywordsAreIntended` compares the parser with its reference for every text and every list of
nameable genres; `PromptsAreUnderstood` is the invariant that follows. The reference knows nothing of
an order of removal, so the proof shows that the order does not matter. (1) Taking out the year
neither destroys an occurrence of the genre, since no name contains a year, nor makes one:
it puts a blank between two boundaries, and a name has a word before each of its
blanks. (2) Occurrences do not overlap, so the scan from the left finds all of
them, and the pieces it takes are the covered ones (`ReplaceOK`). (3) What remains has a separator
exactly where the reference says used up (`UsedUpIsBlank`), hence the words are the runs. (4) The
k-th word the walk appends is the run with k - 1 generic-free runs before it, by induction on the length
walked (`WordsInOrder`).

**`RateLimiterProofs`.** The deque is the end of the admissions, and every admission before
it has expired, which with a steady clock stays so. `QuotaHeld` and `RefusalsEarned` compare
this end with the limit; for the hints, the earliest hint of a client is never before its
oldest hit leaves. The clock may be set back in all but `QuotaHeld`.

**Only model-checked** is liveness: `EveryCallReturns` of the client and of the cache,
`EveryRequestEnds`, `Recovery` and `PageSettles`. They hold under fairness, that is under ENABLED, of
which the prover knows nothing. The claims of the three disagreements are refuted by TLC, and
have no theorem.

## 5. Not modelled

- The life cycle of the httpx pool. The service closes it when the application shuts
  down, after its requests; the tests close it when they are done.
- `get_json` as one module: `Search` and `HttpAdapter` compose the shared loads with the
  breaker, for their documents, but no module has the store's eviction and the retry loop at once.
- `movie_detail` and `recommendations` of the service: they pass one call through.
- The MCP adapter: it formats as text what `Search` and `Overview` answer, and builds its
  service without an await.
- Parsing of settings, pydantic models, formatting, logging, templates and styles have no
  behaviour of their own. Settings are constants of the modules.
- `_hits` of the limiter is never pruned: a growing dictionary is no state a property
  can tell from a legal one.

## 6. Plan

1. *Done:* breaker, retry policy, client, breaker protocol; cache; overview; limiter;
   parser, search and the page; the HTTP adapter over the protocol.
2. *Done:* theorems for all safety properties. Left: that `RateLimiter`, while its clock is steady,
   implements the count of hits that `HttpAdapter` uses; that followers of `SingleFlight`
   end as their leader did.
3. `Transport`: `get_json` as the cache over the client. Abstract specification: a
   read-through cache that answers with some recent document or one error per load;
   `HttpAdapter` and `Search` already use loads in this sense.
4. The pool: `aclose` awaits between reading and resetting `_client`. Worth a module once
   something other than the shutdown closes it.
