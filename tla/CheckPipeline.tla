--------------------------- MODULE CheckPipeline ----------------------------
(***************************************************************************)
(* The path of one URL through the service, for calls that run at the same *)
(* time: CachedURLChecker looks into the shared result cache, a miss goes  *)
(* to CCLimitedURLChecker, which takes a token of the concurrency guard    *)
(* and runs the check (DomainRateLimitedChecker, then URLCheckerClient) in *)
(* a goroutine of its own, so that the call can return as soon as its      *)
(* context is cancelled.  The cache's expiry and the guard are libraries:  *)
(* an entry may vanish at any time, the guard is a counting semaphore.     *)
(***************************************************************************)
EXTENDS Naturals, FiniteSets

CONSTANTS
  Calls,            \* the calls of CachedURLChecker.CheckURL considered
  URLs,             \* the URLs they check
  Limit,            \* the guard's limit of concurrent checks
  RetryFailedAfter, \* seconds a failure is served from the cache
  MaxTime,          \* bound: the last second of the clock
  None              \* no result

ASSUME PipelineAssumption ==
  /\ IsFiniteSet(Calls)
  /\ Limit \in Nat \ {0}
  /\ RetryFailedAfter \in Nat
  /\ MaxTime \in Nat

Seconds == 0..MaxTime

(* "cut" marks, for the properties only, a failure that the cancellation   *)
(* of the caller's context caused.                                         *)
Results == [status : {"ok", "broken", "dropped"}, at : Seconds, cut : BOOLEAN]

ASSUME NoneAssumption == None \notin Results

VARIABLES
  now,         \* the clock, in seconds
  cache,       \* the result cache: URL -> result
  url,         \* call -> its URL
  ctxDone,     \* the calls whose context is cancelled
  pc,          \* call -> where it is
  started,     \* call -> when it looked into the cache
  result,      \* call -> its result
  tokens,      \* the guard's tokens in use
  inner,       \* call -> where its goroutine is
  innerResult  \* call -> what its goroutine found

callVars  == <<pc, started, result>>
innerVars == <<inner, innerResult>>
vars == <<now, cache, url, ctxDone, callVars, tokens, innerVars>>

Init ==
  /\ now = 0
  /\ cache = [u \in URLs |-> None]
  /\ url \in [Calls -> URLs]
  /\ ctxDone = {}
  /\ pc = [c \in Calls |-> "idle"]
  /\ started = [c \in Calls |-> 0]
  /\ result = [c \in Calls |-> None]
  /\ tokens = 0
  /\ inner = [c \in Calls |-> "none"]
  /\ innerResult = [c \in Calls |-> None]

Dropped(at) == [status |-> "dropped", at |-> at, cut |-> FALSE]

(* Mutant: the calls share one context.                                    *)
AnyContextDone(c) == ctxDone # {}

ContextDone(c) == c \in ctxDone

-----------------------------------------------------------------------------
(* CachedURLChecker: look up, and keep what a check found.                 *)

(* Mutant: failures are served until the cache expires them.               *)
TakeAnyCachedResult(res) == TRUE

shouldTakeCachedResult(res) ==
  res.status = "ok" \/ now <= res.at + RetryFailedAfter

Hit(u) == cache[u] # None /\ shouldTakeCachedResult(cache[u])

(* Mutant: a hit is stored again, to keep it for longer.                   *)
StoredAgain == "storing"

AfterHit == "done"

CacheHit(c) ==
  /\ pc[c] = "idle"
  /\ Hit(url[c])
  /\ pc' = [pc EXCEPT ![c] = AfterHit]
  /\ started' = [started EXCEPT ![c] = now]
  /\ result' = [result EXCEPT ![c] = cache[url[c]]]
  /\ UNCHANGED <<now, cache, url, ctxDone, tokens, innerVars>>

CacheMiss(c) ==
  /\ pc[c] = "idle"
  /\ ~Hit(url[c])
  /\ pc' = [pc EXCEPT ![c] = "acquiring"]
  /\ started' = [started EXCEPT ![c] = now]
  /\ UNCHANGED <<now, cache, url, ctxDone, result, tokens, innerVars>>

(* Mutant: every result is kept.                                           *)
KeepAll(res) == TRUE

Keeps(res) == res.status # "dropped"

StoreResult(c) ==
  /\ pc[c] = "storing"
  /\ pc' = [pc EXCEPT ![c] = "done"]
  /\ cache' = IF Keeps(result[c]) THEN [cache EXCEPT ![url[c]] = result[c]] ELSE cache
  /\ UNCHANGED <<now, url, ctxDone, started, result, tokens, innerVars>>

-----------------------------------------------------------------------------
(* CCLimitedURLChecker: the guard, and the wait for the goroutine.         *)

Acquire(c) ==
  /\ pc[c] = "acquiring"
  /\ tokens < Limit
  /\ tokens' = tokens + 1
  /\ pc' = [pc EXCEPT ![c] = "waiting"]
  /\ inner' = [inner EXCEPT ![c] = "entering"]
  /\ UNCHANGED <<now, cache, url, ctxDone, started, result, innerResult>>

(* Mutant: the guard is waited for without the context.                    *)
AcquireNeverFails(c) == FALSE

AcquireFails(c) ==
  /\ pc[c] = "acquiring"
  /\ ContextDone(c)
  /\ result' = [result EXCEPT ![c] = Dropped(started[c])]
  /\ pc' = [pc EXCEPT ![c] = "storing"]
  /\ UNCHANGED <<now, cache, url, ctxDone, started, tokens, innerVars>>

TakeResult(c) ==
  /\ pc[c] = "waiting"
  /\ inner[c] = "sending"
  /\ inner' = [inner EXCEPT ![c] = "ended"]
  /\ result' = [result EXCEPT ![c] = innerResult[c]]
  /\ tokens' = tokens - 1
  /\ pc' = [pc EXCEPT ![c] = "storing"]
  /\ UNCHANGED <<now, cache, url, ctxDone, started, innerResult>>

(* Mutants: a cancelled call keeps its token; its goroutine releases it,   *)
(* too.                                                                    *)
KeptByCancelled == tokens
ReleasedTwice == tokens - 2

ReleasedByCancelled == tokens - 1

(* The goroutine goes on; nobody will receive its result.                  *)
TakeCancellation(c) ==
  /\ pc[c] = "waiting"
  /\ ContextDone(c)
  /\ result' = [result EXCEPT ![c] = Dropped(started[c])]
  /\ tokens' = ReleasedByCancelled
  /\ pc' = [pc EXCEPT ![c] = "storing"]
  /\ UNCHANGED <<now, cache, url, ctxDone, started, innerVars>>

-----------------------------------------------------------------------------
(* The goroutine: the rate limiter's wait and the client's first look at   *)
(* the context drop a cancelled check; later the cancellation makes the    *)
(* HTTP request fail, unless another checker plugin drops it.              *)

Finds(c, status, cut) ==
  /\ inner' = [inner EXCEPT ![c] = "sending"]
  /\ innerResult' = [innerResult EXCEPT ![c] = [status |-> status, at |-> now, cut |-> cut]]
  /\ UNCHANGED <<now, cache, url, ctxDone, callVars, tokens>>

EnterRequest(c) ==
  /\ inner[c] = "entering"
  /\ c \notin ctxDone
  /\ inner' = [inner EXCEPT ![c] = "requesting"]
  /\ UNCHANGED <<now, cache, url, ctxDone, callVars, tokens, innerResult>>

EntryRefused(c) ==
  /\ inner[c] = "entering"
  /\ c \in ctxDone
  /\ Finds(c, "dropped", FALSE)

RequestReturns(c) ==
  /\ inner[c] = "requesting"
  /\ \E status \in {"ok", "broken"} : Finds(c, status, FALSE)

RequestCut(c) ==
  /\ inner[c] = "requesting"
  /\ c \in ctxDone
  /\ \E status \in {"broken", "dropped"} : Finds(c, status, status = "broken")

-----------------------------------------------------------------------------
Cancel(c) ==
  /\ pc[c] # "done"
  /\ c \notin ctxDone
  /\ ctxDone' = ctxDone \cup {c}
  /\ UNCHANGED <<now, cache, url, callVars, tokens, innerVars>>

(* Expiry, or no admission to a full cache.                                *)
Evict(u) ==
  /\ cache[u] # None
  /\ cache' = [cache EXCEPT ![u] = None]
  /\ UNCHANGED <<now, url, ctxDone, callVars, tokens, innerVars>>

Tick ==
  /\ now < MaxTime
  /\ now' = now + 1
  /\ UNCHANGED <<cache, url, ctxDone, callVars, tokens, innerVars>>

-----------------------------------------------------------------------------
CallStep(c) ==
  CacheHit(c) \/ CacheMiss(c) \/ Acquire(c) \/ AcquireFails(c)
  \/ TakeResult(c) \/ TakeCancellation(c) \/ StoreResult(c)
RequestEnds(c) == RequestReturns(c) \/ RequestCut(c)

Next ==
  \/ \E c \in Calls : \/ CallStep(c)
                      \/ EnterRequest(c) \/ EntryRefused(c) \/ RequestEnds(c)
                      \/ Cancel(c)
  \/ \E u \in URLs : Evict(u)
  \/ Tick

Spec == Init /\ [][Next]_vars

(* The goroutines run; requests may hang.                                  *)
FairSpec ==
  /\ Spec
  /\ \A c \in Calls : /\ WF_vars(CallStep(c))
                      /\ WF_vars(EnterRequest(c) \/ EntryRefused(c))

(* The HTTP client's timeout ends every request.                           *)
RequestsEnd == \A c \in Calls : WF_vars(RequestEnds(c))

-----------------------------------------------------------------------------
TypeOK ==
  /\ now \in Seconds
  /\ cache \in [URLs -> Results \cup {None}]
  /\ url \in [Calls -> URLs]
  /\ ctxDone \subseteq Calls
  /\ pc \in [Calls -> {"idle", "acquiring", "waiting", "storing", "done"}]
  /\ started \in [Calls -> Seconds]
  /\ result \in [Calls -> Results \cup {None}]
  /\ tokens \in Nat
  /\ inner \in [Calls -> {"none", "entering", "requesting", "sending", "ended"}]
  /\ innerResult \in [Calls -> Results \cup {None}]

(* A token is in use exactly for the calls that wait for their check:      *)
(* whatever way a call ends, it gives its token back once, so the guard    *)
(* neither loses capacity nor admits more calls than its limit.            *)
TokensAreHeld ==
  /\ tokens = Cardinality({c \in Calls : pc[c] = "waiting"})
  /\ tokens <= Limit

(* Why these hold.  A call has a result when it has one to store or to     *)
(* return, and its goroutine one when it has one to send; neither has one  *)
(* before it is called.  A call that waits has its goroutine to wait for.  *)
ResultsInOrder ==
  \A c \in Calls :
    /\ result[c] # None <=> pc[c] \in {"storing", "done"}
    /\ inner[c] = "sending" => innerResult[c] # None
    /\ pc[c] = "idle" => inner[c] = "none" /\ innerResult[c] = None
    /\ pc[c] = "acquiring" => inner[c] = "none"
    /\ pc[c] = "waiting" => inner[c] \in {"entering", "requesting", "sending"}

(* "dropped" stays with the call that was cancelled: it is never kept.     *)
IsDropped(res) == res # None /\ res.status = "dropped"

DroppedStaysHome ==
  /\ \A u \in URLs : ~IsDropped(cache[u])
  /\ \A c \in Calls :
       IsDropped(innerResult[c]) \/ IsDropped(result[c]) => c \in ctxDone

(* What a call's own check found is not older than the call, and a failure *)
(* from the cache not older than RetryFailedAfter allows.                  *)
FoundSinceAsked ==
  \A c \in Calls :
    /\ started[c] <= now
    /\ innerResult[c] # None => started[c] <= innerResult[c].at
    /\ pc[c] = "storing" => started[c] <= result[c].at
    /\ result[c] # None /\ result[c].status = "broken" =>
         started[c] <= result[c].at + RetryFailedAfter

(* A goroutine outlives its call only if the call was cancelled: it then   *)
(* goes on, and ends up sending a result that nobody receives.             *)
Running(c) == inner[c] \in {"entering", "requesting", "sending"}

OnlyCancelledLeaveGoroutines ==
  \A c \in Calls : pc[c] \in {"storing", "done"} /\ Running(c) => c \in ctxDone

(* A call that the guard keeps waiting is kept by calls whose checks run   *)
(* and will give their tokens back: the guard never runs dry, whatever     *)
(* calls were cancelled, and no two calls wait for each other.             *)
FullGuardIsFreed ==
  \A c \in Calls : pc[c] = "acquiring" /\ tokens >= Limit =>
    \E d \in Calls \ {c} : pc[d] = "waiting" /\ Running(d)

IndInv ==
  /\ TypeOK /\ TokensAreHeld /\ ResultsInOrder /\ DroppedStaysHome /\ FoundSinceAsked
  /\ OnlyCancelledLeaveGoroutines

Verdict ==
  [c \in Calls |-> IF pc[c] = "done" THEN result[c].status ELSE None]

Promise == INSTANCE CheckPromise WITH verdict <- Verdict

(* A call whose own context is alive is never told that its check was      *)
(* dropped, whoever filled the cache and whoever was cancelled meanwhile,  *)
(* and what a call is told never changes: CheckPromise.                    *)
KeepsPromise == Promise!Spec

(* A failure is never told to a caller who asked more than                 *)
(* RetryFailedAfter seconds after it was found.                            *)
FailuresAreRecent ==
  \A c \in Calls : pc[c] = "done" /\ result[c].status = "broken" =>
    started[c] <= result[c].at + RetryFailedAfter

(* Of two calls that missed, the later one to store wins.  So an entry may *)
(* give way to an older one, but only by a call that was under way when    *)
(* the newer result was found: what was found before a call began cannot   *)
(* be undone by it.                                                        *)
GoesBackByOverlapOnly ==
  [][\A u \in URLs :
       cache[u] # None /\ cache'[u] # None /\ cache'[u].at < cache[u].at =>
         \E c \in Calls : url[c] = u /\ pc[c] = "storing" /\ started[c] < cache[u].at]_vars

(* A cancelled call returns even if its request hangs, and even if all the *)
(* tokens are in use ("allow for cancellation -> run in a goroutine").     *)
CancelledCallsReturn == \A c \in Calls : c \in ctxDone ~> pc[c] = "done"

(* If requests end, every call returns, cancelled or not.                  *)
CallsReturn == RequestsEnd => \A c \in Calls : pc[c] = "idle" ~> pc[c] = "done"

(* root.go:124 "maximum number of total concurrent HTTP requests".         *)
RequestsWithinLimit == Cardinality({c \in Calls : inner[c] = "requesting"}) <= Limit

(* urlcheckstatus.go:21-24: a cancelled check is "dropped" (an internal    *)
(* reason), it does not make the URL "broken" for another caller.          *)
ForeignCancellationHidden ==
  \A c \in Calls \ ctxDone : pc[c] = "done" => ~result[c].cut
=============================================================================
