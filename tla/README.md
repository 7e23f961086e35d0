# Link checker service: a verification project

TLA+ models of the [link checker service](../src/README.md), the TLC runs that check them on small
instances, and TLAPS proofs of what matters most for instances of any size. Line numbers are those of
the repository's files; `PROJECT.json` maps every definition to the lines it stands for.

## The system

A client sends a list of URLs to `POST /checkUrls` (one JSON answer, the *batch*) or to
`POST /checkUrls/stream` (one JSON line per URL, the *stream*). A check of one URL passes through a
chain of checkers, each calling the next one:

    handler -> worker goroutine -> blacklist -> CachedURLChecker -> CCLimitedURLChecker
            -> (goroutine) DomainRateLimitedChecker -> URLCheckerClient -> plugins -> HTTP client

| Component | State | Operations | Correct if |
|---|---|---|---|
| List check (`server.go:169-326`) | collected responses, unbuffered result and done channels, wait group, timer | parse, set up, receive in a `select`, return | each URL is answered at most once; "complete" is complete; every request ends; nothing sends on the closed channel |
| Deduplicator (`deduplicator.go`, `url_normalizer.go`) | first occurrences, duplicates by normal form, response cache (`sync.Map`) | deduplicate, keep a response, answer the duplicates | all spellings of a URL share one check and its verdict |
| Blacklist (`server.go:365-386`) | globs (constant) | skip | a skipped URL is not requested |
| Result cache (`cached_url_checker.go`, `cache.go`) | URL -> result, shared by all requests | look up, store | old failures are not served; "dropped" is not kept |
| Concurrency guard (`cc_limited_url_checker.go`) | tokens in use; one goroutine per call | acquire, wait for the result or the cancellation, release | tokens are given back once; a cancelled call returns |
| Rate limiter (`domain_rate_limited_checker.go`) | domain -> limiter | wait for a turn | checks of a domain are spaced |
| Client and plugins (`url_checker.go`) | shared settings; per call: plugin, HTTP client, last result, trace | choose a proxy, HEAD, HEAD as a browser, GET, next plugin | no needless request; no other check's proxy; the trace explains the result; every check returns |
| Body reader (`url_checker.go:713-755`) | what was read | read up to the limit | the body up to the limit is searched, and little more is held |
| Remote address (`url_checker.go:461-616`) | per call: `remoteAddr`; an address cache shared by all | look up, trace, resolve | the cache holds no other host's address; what was found there is what is reported |
| Statistics (`stats_collector.go`) | totals, per-domain maps, one lock | count, copy | totals and domains agree; a reply is a copy |
| Server (`server.go:69-167, 283-293, 388-477`) | the handlers of every route; the limiter's store | set up, then CORS, limit, token, count, handle | routes are guarded as configured, the open ones stay open; one rate per address |
| Other flags, logging, profiles, samples | - | - | not modelled, see below |

The components interact by calls, by the request's context (cancelled by a disconnect, and by `net/http` when
the handler returns), by channels within one request, and by state shared by all requests: the
result cache, the guard, the limiters and the statistics. The hard behaviours are:

* the handler's `select` chooses at random among results, the done channel, the timer and the cancellation;
* workers keep their response for the duplicates, send it and leave the wait group while a waiter closes the channel behind them;
* a call returns at a cancellation while its goroutine, and the HTTP request, go on;
* what a cancelled call found may reach the cache that others use;
* failures age in the cache while other checks for the same URL run;
* callbacks of the HTTP transport write to a check's variables while it reads them, and after it returned;
* a client that neither reads nor writes nor leaves keeps its request waiting, whatever the timer does;
* what guards a route depends on the order of the calls that set it up.

`PROJECT.json` lists these hazards at their lines, with the properties that cover them.

## The modules

| Module | Models |
|---|---|
| `URLListPromise` | what a client may rely on for one list: the abstract specification |
| `URLListCheck` | handler, deduplicator, workers, waiter, timer, disconnect; its properties and inductive invariant |
| `URLListCheckProofs` | the theorems about it |
| `CheckPromise` | what every layer's `CheckURL` promises: one verdict per call, "dropped" only to the cancelled |
| `CheckPipeline` | result cache, guard and inner goroutine, for concurrent calls |
| `CheckPipelineProofs` | the theorems about it |
| `URLCheckerClient` | the plugin chain and its HTTP requests, for concurrent checks |
| `URLCheckerClientProofs` | the theorems about it |
| `BodyReader` | how much of a response's body is read and searched, as a part of `URLCheckerClient` |
| `RemoteAddress` | the address reported with a result, the callbacks that write it, the cache behind it |
| `RemoteAddressProofs` | the theorems about it |
| `Server` | routes, CORS, JWT, rate limiting, and concurrent requests through them |
| `ServerProofs` | the theorems about it |
| `DomainRateLimitedChecker` | the per-domain limiters |
| `StatsCollector` | the statistics, fed by concurrent checks and read meanwhile |
| `StatsCollectorProofs` | the theorems about it |
| `Sums`, `SumsProofs` | the sum of a function's values (per domain, per code, per worker), and the lemmas on it |
| `...MC` | constants and symmetry for TLC |

They compose by promises. A worker of `URLListCheck` takes a check as one step of any duration and with
any verdict, "dropped" only if the request's context is done. That is `CheckPromise`, which
`CheckPipeline` implements; there the goroutine's check is again a few steps with any verdict, as
`URLCheckerClient` (which implements `CheckPromise`, too) allows. `Server` ends where `URLListCheck` begins, at the
handler of a list check; `URLCheckerClient` extends `BodyReader` by the requests that bring a body, and `RemoteAddress` looks into the connections
that it leaves out.

### URLListCheck

`request` and `route` are inputs. The handler goes through `Reject` or `Accept`
(`parseURLCheckRequestOrAbort`), `Deduplicate` once per URL (`deduplicateURLs`), `SetUp`
(`setUpAsyncURLCheck`: timer, `wg.Add`, workers, waiter), and then the `select` loop:
`ReceiveResult`, `ReceiveDone`, `DeadlineReached`, `ClientDisconnected`. A stream writes each response it receives to its client
(state "writing"), and goes on only when that ends (`WriteEnds`); it ends with the loop. A batch then builds its
reply (`AddDuplicate`, once per duplicate, while workers may still keep responses) and sends it (`Reply`). A receive from an unbuffered channel and the
send it meets are one step, in which both sides move. A worker does `CheckReturns`, `OnResponse`, its send (within
`ReceiveResult`), `WorkerDone`; the waiter `WaiterWakes`, its send (within `ReceiveDone`), `WaiterCloses`. A list of
URLs is a sequence of spellings and `Norm` any function from spellings to URLs; responses are verdicts.
`answers` records, per position of the list, what was collected (batch) or written (stream), and position 0 would record
the zero value a receive from the closed channel gives. `Delivered` is what the client sees of them: nothing of a batch before
`Reply`, and nothing of an aborted one.

### CheckPipeline

A call is a `CachedURLChecker.CheckURL`: `CacheHit`, or `CacheMiss`, then `Acquire` or `AcquireFails`, then
`TakeResult` or `TakeCancellation`, then `StoreResult`. Its goroutine goes from `entering` (the rate limiter's wait, the
client's first look at the context) to `requesting` and then `sending`, where it stays if the call has left. The clock
counts seconds as the code does; `Evict` is both libraries' expiry and admission. `cut` is an auxiliary mark on failures that a
cancellation caused, for one property.

### URLCheckerClient and BodyReader

A call walks `plugins` from `pos`; `step` says which request it waits for. `Init` takes what `urlCheckerPluginsFromViper` makes of
a configured list and what `buildCheckerPlugins` accepts (else the program panics at its start). `StartCheck` chooses the HTTP client: the one
built with the plugin, or, for `urlcheck-pac`, one for what the PAC script answers, from a copy of the settings that all checks share. A plugin that is
called with a result not worth a retry hands it back instead (`HandBack`, `url_checker.go:369`), and the chain goes on with it.
Responses are status codes; a transport failure is 502 (timeouts) or 528.

`BodyReader` adds the configured `limit` and, per call, the `body`: how many bytes the connection gave, and how many of them are searched. `GetAnswered`
opens a body if patterns are searched; each `ReadBody` is one read (of `readLimited`, or of `io.ReadAll` without a limit), which may give bytes and an
error at once; at its end, or at the limit, the check goes on to `onCheckResult`. A limit that is no `int` (2^63 and more) would panic in `safelyTrimmedString`; the
model's limits are small.

### RemoteAddress

A check is one `URLCheckerClient.checkURL`. The transport's dials run beside it, also when it has returned, and to any host. A callback computes an
address (`DNSDone`, `ConnectDone`), then writes it (`CallbackWrites`): in between the check may read, and sees the old value, the new one or, because a Go
string is two words, `Torn`. An address is abstracted to the host it belongs to, which is all the properties ask of it. `NeedsTrace` decides whether a check's
requests get the callbacks at all; `known` keeps what the check found in the cache, for `FoundIsReported`.

### Server

`setupRoutes` is a function from the options and a route to the sequence of its handlers, built the way gin builds it: a group starts with
the engine's handlers of that time, a route with its group's. A request walks that sequence (`todo`), one handler a step; the limiter's store
and the statistics are shared.

The limiter counts per address, and the address is what gin's `ClientIP` gives: with `ForwardedByClientIP` (`server.go:449`), and no proxies to trust
configured, the one that the request's forwarding header names if there is one, else the connection's. A request of the model therefore has a client, the
address of its connection (the client's or a proxy's) and any header or none. So the rate is one per *address*: it is one per client exactly as far as headers
tell the client, which the service does not establish. `AdmittedWithinRate` speaks of addresses only; `RefusedAtRateOnly` speaks of a client whose own
request tells its address, directly or through a proxy, and of what was admitted under that address, whoever sent it.

The limiter's memory store counts in a fixed window, which an address's first request opens. `earlier` counts those admitted in the window before that are
still less than a window's length ago: at the window's end (`WindowEnds`) all but the first, which opened it, and then one less at a time (`LeavesSpan`),
none any more when the next window ends. `earlier + admitted` is thus what was admitted within the last window's length: less than twice the rate
(`AdmittedWithinRate`), and not within the rate, as the sliding window of README.md:275 would have it.

### DomainRateLimitedChecker and StatsCollector

`Reserve` is the map look-up and the reservation that `rate.Limiter.Wait` makes, `WaitEnds` and `WaitAborted` its two ends.
In `StatsCollector` each handler is one step, because it runs under one lock; a check calls them in the
order of the code, and a reader's copy is kept while it is written. A map in a copy is either a value of its own or
the collector's, as Go shares maps by reference. The two counters of incoming requests are in `Server`.

## The runs

| Run | Shows | Bounds |
|---|---|---|
| `list_check` | the list check's safety properties, its inductive invariant, that it implements `URLListPromise`; that the `select` always has a case to come, that steps run out; that requests end if their client keeps up, and complete ones leave no goroutine | lists of up to 4 URLs over 4 spellings of 3 URLs, size limit 3 |
| `list_leak` (violation) | after a disconnect goroutines stay | lists of up to 3, no size limit |
| `pipeline` | tokens, who waits for whom, ages, goroutines, the order of stores, and that it implements `CheckPromise` | 3 calls, 1 URL, 1 token, seconds 0-2, failures kept 1 second |
| `pipeline_live` | cancelled calls return; all calls do if requests end | 2 calls |
| `pipeline_overrun` (violation) | more requests than the limit | 3 calls |
| `pipeline_cut` (violation) | another's cancellation told as a broken link | 3 calls |
| `client` | counts, the trace, proxies, needless requests, that the chain never turns back, its inductive invariant, `CheckPromise`, termination; the body reader | 2 calls, 6 configured lists, 1 proxy, codes 200, 403, 410 and failures; limits 0 (none) and 1, reads of up to 2 bytes (`BufferSize`), bodies of up to 3 (`MaxBody`) |
| `rate_limit` (violation) | checks of a domain are not spaced | 3 calls, 2 domains, seconds 0-3 |
| `stats` | totals agree with domains; every request is accounted for; a reply is a past state, and a copy | 2 checks, 2 domains, 3 requests and look-ups |
| `remote` | the shared address cache, and that what is found there is what is reported | 2 checks, 2 hosts, one dial per check at a time, 2 counted and 2 real failures |
| `remote_lookups` (violation) | successful look-ups count as failed | as before |
| `server` | guards, open routes, the order of counting; the rate per address, and who is refused | 2 connections, 4 requests, rate 2; every configuration with 2 clients, 5 routes, every token and origin (listed ones on preflights); under the limiter alone, list checks directly or through 1 proxy with every header |

Why these bounds are enough to be interesting: three accepted URLs hold a first occurrence, a duplicate by spelling, and
another URL at the same time, so that two workers race and one of them has duplicates; the size limit of 3 with lists of 4 reaches
the rejection, on both sides of the boundary. Three calls on one token are one that holds it, one that waits and one that finds
what the first left in the cache; two seconds after time 0 are enough for a failure to be fresh, at the edge and too old. Two plugins
are the least with a next one; the codes are one per branch of the code. Bodies of three bytes lie below, at and above the limit of 1,
and reads of two can step over it. Two checks and two hosts are a request that is led to the other's host; the bound on look-ups stops a check's third
failure only. Rate 2 with four list checks is two admitted, one or two refused or in the next window, or two clients that reach the rate
by the same proxy; the two list-check routes can share it, and 2 is the least rate at which something of the window before is left when the next one opens. Deadlock is not checked where requests, calls or checks end for good.

Every property of a passing run has a mutant in `PROJECT.json`: a plausible bug, as an operator beside the definition it
would replace, for which TLC finds the property violated.

Fairness. Goroutines are scheduled (weak fairness of each worker, of the waiter, of each call, and of those steps of the handler that wait for nobody
outside, `SelfPaced`). Nothing is assumed of clients: reading the body, writing a stream's response and sending the batch
(`ClientPaced`) block on a client that stalls without disconnecting, since the server is run without timeouts (`server.go:131`), and the deadline is looked at only
between two of them. Nothing is assumed of checks and of the timer either, unless a property names it: `RequestEnds` holds if the client keeps up (`ClientKeepsUp`) *and*
the timer expires or the checks return; `CompleteLeavesNothing` needs none of these; `CallsReturn` holds if requests end (the HTTP client has a timeout, `url_checker.go:759`, which bounds the reading of a body, too: hence the fairness of
`URLCheckerClient`'s calls), and `CancelledCallsReturn` with neither. No
fairness is assumed of cancellations or eviction. An action that stays enabled in Go's `select` may be passed over for ever only
if others keep becoming ready; in the models each other case can be taken finitely often, so that weak fairness of the whole step is enough.

## What is found

The five violation runs are disagreements between the code and what the repository says of it; `PROJECT.json` quotes both:
workers and waiter that stay after a disconnect (`list_leak`), more HTTP requests at a time than the
limit (`pipeline_overrun`; that limit is always 256, as `getMaxConcurrentRequests` ignores the setting, `cc_limited_url_checker.go:69-75`), broken links made of other callers' cancellations (`pipeline_cut`), a rate limiter
that never limits (`rate_limit`), and successful name look-ups counted as failed (`remote_lookups`).

Met while modelling, and without a run of their own:

* a blacklisted URL adds to its domain's statistics without a request (`server.go:366`; README.md:259 has it tracked "upon completion or termination
  of the outgoing requests only");
* `buildClient` follows `defaultMaxRedirectsCount` redirects, whatever the setting (`url_checker.go:761`, `root.go:92`);
* a PAC script's DIRECT alone keeps the configured proxy, and a SOCKS entry is used if a PROXY follows it (`url_checker.go:396-401`);
* `resolveAndCacheTCPAddr` takes the domain of an address, not of a URL, for the count of failures (`url_checker.go:583`);
* the limiter's window is fixed (`server.go:446`, by the library's memory store) where README.md:275 speaks of a sliding one: at a rate of two, three list checks
  can be admitted within its length (`AdmittedWithinRate` has the bound that holds);
* a rate that does not parse leaves the service without a limit (`server.go:439`).

## What is proved

`tlapm` proves, from the assumptions named in the modules (`ListAssumption`, `PipelineAssumption`, `ClientAssumption`, `BodyAssumption`, `AddressAssumption`,
`ServerAssumption`, `StatsAssumption`, `NoneAssumption` and the like: sizes are naturals, sets of calls are finite, "no result" is not a result, the
statistics' own reasons are no status codes, which are numbers in the code):

* **URLListCheckProofs**, for lists of any length, any spellings and any normalisation. None of the safety properties is
  inductive: that a duplicate is answered once depends on where its worker is, that "complete" is complete on the
  counting of the wait group. `IndInv` adds, in named parts, what the deduplicator computed (`Deduplicated`: one worker position per URL, for every
  URL scanned), the order of a worker's steps (`WorkersInOrder`: kept before sent), what the wait group counts (`WaiterLast`: the
  workers that are not done, as a cardinality), and how answers follow the workers (`AnswersInOrder`). One lemma
  per action shows that it is preserved; `AnsweredAtMostOnce`, `CompleteIsComplete`, `VerdictShared`, `StreamAnswersTogether`
  and `NoSendAfterClose` follow from it, and so does the refinement: `CheckReturns`, `AddDuplicate` and the
  like stutter, `OnResponse` is `Decide`, receiving and replying are `Respond`.
* **CheckPipelineProofs**, for any calls, URLs, limits and times. `IndInv` adds to the token count where results
  are (`ResultsInOrder`), that "dropped" never leaves a cancelled call (`DroppedStaysHome`: not into the cache), and how old what
  a call knows can be (`FoundSinceAsked`). One lemma per part; the theorems are the token count, the age of failures, the goroutines left behind,
  the overlap of calls whose stores change their order (an action property, from `FoundSinceAsked`)
  and the refinement of `CheckPromise`, where `CacheHit` and `StoreResult` are `Return`.
* **URLCheckerClientProofs**, for any calls, configured lists, proxies, status codes, limits and buffers. `IndInv` adds where in the chain a call is (`TraceInStep`),
  that an intermediate result is that of its code (`ResultOfCode`), and that the shared settings stay as configured (`SettingsKept`, without which
  `OwnProxyOnly` is not inductive); for the bodies, that who reads is below
  the limit and that nobody else has read anything (`ReadsBelowLimit`). The theorems are the counts, the trace, the proxies, the bodies, `NoNeedlessRequest` and
  the promise.
* **RemoteAddressProofs**, for any checks and hosts. `SharedAddressIsOwn` alone is not inductive: a check that took its address from the cache must get no
  callback, which `CallbacksOfTraced` says. Nor is `FoundIsReported`: that an address found in the cache stays until the check reads it depends on the check not being
traced, so that no dial for it, to whatever host, has a callback (`KnownStays`).
* **ServerProofs**, for any connections, clients, routes and rate. The limiter's count and the requests that passed it belong together, and of the window before less
  than the rate are left (`RateInStep`); a handler works on a request that arrived (`WorksOnRequest`). From these follow `AdmittedWithinRate` and, as a request that
  tells its client is counted under that client's address (`ToldAddress`), `RefusedAtRateOnly`. Nothing is assumed of the headers. `GuardsAhead` says
  that whoever is to be refused has the guard still before it and every handler behind that, and that who is not has none: it holds of what `setupRoutes` gives
  a route, by a lemma on concatenations per kind of guard, and each handler's `Tail` keeps it; `GuardedAsConfigured` and `OpenRoutesAnswer` follow.
  `StreamsInStep` counts the requests between the two counts of a stream, for `StreamsAmongRequests`.

* **StatsCollectorProofs**, for any checks, domains and codes. The totals are sums over maps of maps, so that the proof rests on **SumsProofs**: `Sum` is a fold
  of the library over a finite domain, and that it does not depend on the order, is a natural number, changes by what one value changes by
  (`SumOfOneChanged`) and is monotone (`SumOfSmaller`) is proved there, by induction. The library's induction theorems are out of the prover's reach, because they
  take a predicate; instead the sets for which a statement fails are a set, a least one exists by the well-foundedness of `<` on the cardinalities, and it is led to
  a contradiction (`SetInduction`). `TotalsMatchDomains` and `RequestsAccounted` are inductive given `TypeOK`; `ReplyIsPast` and `ReplyIsFrozen` need of it
  that a copy never holds the collector's own map.

**The safety half of liveness.** That something happens at all takes fairness, and is left to TLC; that nothing stands in its way does not, and is proved:

* A list check is never stuck: `SelectIsServed` (while the handler is in its `select`, a worker is still to end, or the waiter can go on, or it is
  signalling), from `WaiterLast`. It never runs for ever: `StepsRunOut`, as every step of the handler, a worker, the waiter, the client or the timer
  leaves fewer of at most 12n + 11 steps, for a list of n URLs. The workers' share is a `Sum`; `ReceiveResult` leaves fewer only since the closed channel is never
  received from, which is `WaiterLast` again. `OnlyIncompleteLeaveGoroutines` bounds what the finding `list_leak` shows: a request that
  was not cut short leaves no worker.
* `FullGuardIsFreed`: whoever the guard keeps waiting is kept by a call whose check runs. It follows from `TokensAreHeld` and `ResultsInOrder`.
* `ChainNeverTurnsBack`: a check gets on to a later request or plugin, at most 8 times per plugin, or reads on; `NoneHandsBack`: the plugin's own look at
  the last result (`url_checker.go:356`) and the chain's (line 446) agree, so that no plugin of a list hands a result back without a request (a conjunct of `IndInv`).

Model-checked only: liveness under fairness (`RequestEnds`, `CompleteLeavesNothing`, `CancelledCallsReturn`, `CallsReturn`, `CheckReturns`), which is out of the prover's
reach. Every other property of a passing run is a theorem, too.
Where a run checks `IndInv` (`list_check`, `client`), its conjuncts, `TypeOK` among them, are not listed again unless they matter by themselves. The
other inductive invariants, and `OnlyIncompleteLeaveGoroutines`, hold in the runs as well, for anyone who adds them to the `.cfg`; they are theorems, so that no run repeats them.

## What is not modelled

Of the command line and the configuration only the server's options and the list of plugins are modelled; the rest is
read once at the start, and its values are constants here. The impersonation profiles are unused by the service; logging, string helpers and the
sample clients only write. The blacklist's globs and `DomainOf` are constant sets, the normaliser and the search patterns are arbitrary. Libraries are modelled by
their use: the cache libraries (an entry may vanish), the concurrency limiter (a semaphore of fixed size; the real
one adapts its limit), the token bucket, the HTTP client and its transport (any code, a failure, an end by timeout, callbacks at any time after the dial),
gin and its middleware (handlers in order; a token is valid or not), contexts and timers.

## Plan

All but the last two steps are done.

1. `URLListPromise`, `URLListCheck`: the core, with its proofs.
2. `CheckPromise`, `CheckPipeline`: cache and guard, with their proofs.
3. `URLCheckerClient`: plugins, proxies and requests, with the counts, the trace and the proxies proved.
4. `DomainRateLimitedChecker`, `StatsCollector`, with the proofs about the statistics.
5. `RemoteAddress`: callbacks that outlive their request, the address cache, the counting of look-ups, with its proofs.
6. `BodyReader`: that the limit's prefix is searched however the body arrives, with its proof.
7. `Server`: routes, guards, the limit per address, with its proofs.
8. The safety half of liveness, proved for the list check, the guard and the plugin chain.
9. `deduplicateURLs` as a fold, against a reference definition; the list check on top of the pipeline: two requests that share the
   cache, with their disconnects. `CheckPromise` is what joins the two now.
10. Proofs: that each step which liveness counts on is enabled, stated without `ENABLED`; the spacing of turns for a limiter that is stored.
