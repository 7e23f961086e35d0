---------------------------- MODULE URLListCheck ----------------------------
(***************************************************************************)
(* One list check of the server: the handler of POST /checkUrls (route     *)
(* "batch") or POST /checkUrls/stream (route "stream"), the deduplicator,  *)
(* one worker goroutine per distinct URL, and the waiter goroutine that    *)
(* announces the end.  They share an unbuffered result channel, an         *)
(* unbuffered done channel, a wait group and the deduplicator's response   *)
(* cache.  The check of one URL is a step that takes any time and returns  *)
(* any verdict; modules CheckPipeline and URLCheckerClient detail it.      *)
(***************************************************************************)
EXTENDS Naturals, Sequences, FiniteSets, Sums

CONSTANTS
  URLs,             \* the spellings of URLs a client can send
  Norm,             \* normalizedURL: the spelling -> the URL it stands for
  Blacklisted,      \* the spellings whose domain a blacklist glob matches
  MaxURLsInRequest, \* the server's option of that name, 0 for no limit
  MaxSize,          \* bound: the longest list a client sends
  None              \* no result yet

CheckOutcomes == {"ok", "broken", "dropped"}
Outcomes == CheckOutcomes \cup {"skipped"}

ASSUME ListAssumption ==
  /\ Blacklisted \subseteq URLs
  /\ MaxURLsInRequest \in Nat
  /\ MaxSize \in Nat
  /\ None \notin Outcomes

(* How a request that was taken on ends.                                   *)
Endings == {"complete", "partial", "aborted"}

Keys == {Norm[u] : u \in URLs}
Positions == 1..MaxSize

(* A list without URLs also stands for a body that is not the JSON asked for. *)
Requests == UNION {[1..n -> URLs] : n \in 0..MaxSize}

VARIABLES
  request,       \* the URLs of the request body
  route,         \* "batch" or "stream"
  handler,       \* where the handler is; at one of Endings, a batch builds its reply
  result,        \* how the request ended; not told to the client of a stream
  scanned,       \* how much of the list deduplicateURLs went through
  toCheck,       \* the positions with a worker; other scanned ones: toDuplicate
  responseCache, \* the deduplicator's sync.Map: normalised URL -> response
  worker,        \* position -> where its goroutine is
  response,      \* position -> the response its goroutine holds
  wg,            \* the wait group's counter
  waiter,        \* where the goroutine that waits for the others is
  answers,       \* position -> responses collected (batch) or given to the writes (stream)
  toAdd,         \* the duplicates that the batch's reply still has to look up
  clientGone,    \* the client closed the connection
  deadlineFired  \* the request's timer expired

dedupVars   == <<scanned, toCheck>>
workerVars  == <<worker, response, responseCache, wg>>
handlerVars == <<handler, result, answers, toAdd>>
inputVars   == <<request, route>>
envVars     == <<clientGone, deadlineFired>>
vars == <<dedupVars, workerVars, handlerVars, inputVars, envVars, waiter>>

(* Position 0 collects what does not belong to any URL of the list: the    *)
(* zero value that a receive from a closed channel gives.                  *)
Init ==
  /\ request \in Requests
  /\ route \in {"batch", "stream"}
  /\ handler = "parsing"
  /\ result = "open"
  /\ scanned = 0
  /\ toCheck = {}
  /\ responseCache = [k \in Keys |-> None]
  /\ worker = [i \in Positions |-> "none"]
  /\ response = [i \in Positions |-> None]
  /\ wg = 0
  /\ waiter = "none"
  /\ answers = [i \in {0} \cup Positions |-> << >>]
  /\ toAdd = {}
  /\ clientGone = FALSE
  /\ deadlineFired = FALSE

Key(i) == Norm[request[i]]
Returned == handler = "returned"

(* The request's context is cancelled when the client disconnects and, by  *)
(* net/http, when the handler returns.                                     *)
ContextDone == clientGone \/ Returned

(* The result channel is closed by the waiter's deferred call.             *)
Closed == waiter = "done"

-----------------------------------------------------------------------------
(* The handler's first part: parse, deduplicate, set up.  The body is read *)
(* from the client, however long it takes to send it; one that is cut off  *)
(* is no JSON.                                                             *)

TooMany == MaxURLsInRequest # 0 /\ Len(request) > MaxURLsInRequest

Reject ==
  /\ handler = "parsing"
  /\ \/ TooMany /\ result' = "tooLarge"
     \/ (request = << >> \/ clientGone) /\ result' = "badRequest"
  /\ handler' = "returned"
  /\ UNCHANGED <<answers, toAdd, dedupVars, workerVars, inputVars, envVars, waiter>>

Accept ==
  /\ handler = "parsing"
  /\ ~TooMany /\ request # << >>
  /\ handler' = "deduplicating"
  /\ UNCHANGED <<result, answers, toAdd, dedupVars, workerVars, inputVars, envVars, waiter>>

(* Mutant: the spelling is looked up, not its normal form.                 *)
SeenSpelling(i) == \E j \in toCheck : request[j] = request[i]

Seen(i) == \E j \in toCheck : Key(j) = Key(i)

(* The next URL: to be checked unless its normal form was seen before.     *)
Deduplicate ==
  LET i == scanned + 1 IN
  /\ handler = "deduplicating"
  /\ scanned < Len(request)
  /\ scanned' = i
  /\ toCheck' = IF Seen(i) THEN toCheck ELSE toCheck \cup {i}
  /\ UNCHANGED <<workerVars, handlerVars, inputVars, envVars, waiter>>

(* Mutants: wg.Add moved into the goroutines; of all the URLs of the list; *)
(* one too few.                                                            *)
AddedLater == 0
AllAdded == Len(request)
OneTooFew == Cardinality(toCheck) - 1

WorkersAdded == Cardinality(toCheck)

(* Starts the timer, the workers and the waiter.                           *)
SetUp ==
  /\ handler = "deduplicating"
  /\ scanned = Len(request)
  /\ handler' = "serving"
  /\ wg' = WorkersAdded
  /\ worker' = [i \in Positions |-> IF i \in toCheck THEN "checking" ELSE "none"]
  /\ waiter' = "waiting"
  /\ UNCHANGED <<result, answers, toAdd, response, responseCache, dedupVars, inputVars, envVars>>

-----------------------------------------------------------------------------
(* A worker: check, keep the response for the duplicates, send, wg.Done.   *)

(* checkURL.  The blacklist sees the spelling of the first occurrence, and *)
(* a check is dropped only when its context ends.                          *)
Verdicts(u) ==
  IF u \in Blacklisted THEN {"skipped"}
  ELSE {o \in CheckOutcomes : o = "dropped" => ContextDone}

CheckReturns(i) ==
  /\ worker[i] = "checking"
  /\ worker' = [worker EXCEPT ![i] = "checked"]
  /\ \E o \in Verdicts(request[i]) : response' = [response EXCEPT ![i] = o]
  /\ UNCHANGED <<responseCache, wg, dedupVars, handlerVars, inputVars, envVars, waiter>>

OnResponse(i) ==
  /\ worker[i] = "checked"
  /\ worker' = [worker EXCEPT ![i] = "sending"]
  /\ responseCache' = [responseCache EXCEPT ![Key(i)] = response[i]]
  /\ UNCHANGED <<response, wg, dedupVars, handlerVars, inputVars, envVars, waiter>>

WorkerDone(i) ==
  /\ worker[i] = "sent"
  /\ worker' = [worker EXCEPT ![i] = "done"]
  /\ wg' = wg - 1
  /\ UNCHANGED <<response, responseCache, dedupVars, handlerVars, inputVars, envVars, waiter>>

(* Mutant: the end is announced without waiting.                           *)
WakesAtOnce ==
  /\ waiter = "waiting"
  /\ waiter' = "signalling"
  /\ UNCHANGED <<dedupVars, workerVars, handlerVars, inputVars, envVars>>

WaiterWakes ==
  /\ waiter = "waiting"
  /\ wg = 0
  /\ waiter' = "signalling"
  /\ UNCHANGED <<dedupVars, workerVars, handlerVars, inputVars, envVars>>

(* Mutant: the channel is closed before the end is announced.              *)
ClosesFirst ==
  /\ waiter = "signalling"
  /\ waiter' = "done"
  /\ UNCHANGED <<dedupVars, workerVars, handlerVars, inputVars, envVars>>

(* The deferred close of the result channel.                               *)
WaiterCloses ==
  /\ waiter = "closing"
  /\ waiter' = "done"
  /\ UNCHANGED <<dedupVars, workerVars, handlerVars, inputVars, envVars>>

-----------------------------------------------------------------------------
(* The handler's select loop; a ready case is chosen at random.            *)

(* Mutant: the first occurrences are taken for duplicates, too.            *)
AllOccurrences == 1..scanned

Duplicates == (1..scanned) \ toCheck

(* addResponseIfCached, for the duplicates of S.                           *)
WithCached(ans, S) ==
  [i \in DOMAIN ans |->
     IF i \in S /\ responseCache[Key(i)] # None
     THEN Append(ans[i], responseCache[Key(i)]) ELSE ans[i]]

(* Mutant: the response is sent before it is kept for the duplicates.      *)
SendsBeforeStore ==
  {i \in Positions : worker[i] \in {"checked", "sending"}} \cup {i \in {0} : Closed}

(* The sends a receive can meet; 0 is the closed channel.                  *)
Sends == {i \in Positions : worker[i] = "sending"} \cup {i \in {0} : Closed}

(* The batch keeps the response; the stream writes it, and with it the     *)
(* duplicates', before it looks at its select again.                       *)
ReceiveResult ==
  /\ handler = "serving"
  /\ \E i \in Sends :
       LET r == IF i = 0 THEN None ELSE response[i]
           own == [answers EXCEPT ![i] = Append(@, r)]
           duplicates == {j \in Duplicates : i # 0 /\ Key(j) = Key(i)} IN
       /\ answers' = IF route = "stream" THEN WithCached(own, duplicates) ELSE own
       /\ worker' = [j \in Positions |-> IF j = i THEN "sent" ELSE worker[j]]
  /\ handler' = IF route = "stream" THEN "writing" ELSE "serving"
  /\ UNCHANGED <<result, toAdd, response, responseCache, wg, dedupVars, inputVars, envVars, waiter>>

(* The client took what was written and flushed, or its connection is no   *)
(* more; meanwhile neither the deadline nor the disconnect is looked at.   *)
WriteEnds ==
  /\ handler = "writing"
  /\ handler' = "serving"
  /\ UNCHANGED <<result, answers, toAdd, dedupVars, workerVars, inputVars, envVars, waiter>>

(* The stream just ends; the batch goes on to build its reply.             *)
Return(res) ==
  /\ handler = "serving"
  /\ IF route = "stream"
     THEN handler' = "returned" /\ result' = res /\ UNCHANGED toAdd
     ELSE handler' = res /\ toAdd' = Duplicates /\ UNCHANGED result
  /\ UNCHANGED answers

(* allResultsDeduplicated: one duplicate after the other, in the order of  *)
(* a Go map, while the workers may still keep responses.                   *)
AddDuplicate ==
  /\ handler \in Endings
  /\ \E i \in toAdd :
       /\ answers' = WithCached(answers, {i})
       /\ toAdd' = toAdd \ {i}
  /\ UNCHANGED <<handler, result, dedupVars, workerVars, inputVars, envVars, waiter>>

Reply ==
  /\ handler \in Endings
  /\ toAdd = {}
  /\ result' = handler
  /\ handler' = "returned"
  /\ UNCHANGED <<answers, toAdd, dedupVars, workerVars, inputVars, envVars, waiter>>

ReceiveDone ==
  /\ waiter = "signalling"
  /\ Return("complete")
  /\ waiter' = "closing"
  /\ UNCHANGED <<dedupVars, workerVars, inputVars, envVars>>

(* Mutant: the stream's select has no case for the deadline.               *)
DeadlineReachedByBatch ==
  /\ deadlineFired /\ route = "batch"
  /\ Return("partial")
  /\ UNCHANGED <<dedupVars, workerVars, inputVars, envVars, waiter>>

DeadlineReached ==
  /\ deadlineFired
  /\ Return("partial")
  /\ UNCHANGED <<dedupVars, workerVars, inputVars, envVars, waiter>>

(* The context's end or, on the stream, the close notification: both come  *)
(* of the client's disconnect.                                             *)
ClientDisconnected ==
  /\ clientGone
  /\ Return("aborted")
  /\ UNCHANGED <<dedupVars, workerVars, inputVars, envVars, waiter>>

-----------------------------------------------------------------------------
ClientLeaves ==
  /\ ~clientGone /\ ~Returned
  /\ clientGone' = TRUE
  /\ UNCHANGED <<dedupVars, workerVars, handlerVars, inputVars, deadlineFired, waiter>>

DeadlineFires ==
  /\ handler \in {"serving", "writing"} /\ ~deadlineFired
  /\ deadlineFired' = TRUE
  /\ UNCHANGED <<dedupVars, workerVars, handlerVars, inputVars, clientGone, waiter>>

-----------------------------------------------------------------------------
(* The handler's steps that take as long as the client does: the body is   *)
(* read from it, the stream's responses and the batch's reply are written  *)
(* to it, and the server sets no timeouts.  The others run by themselves.  *)
ClientPaced == Reject \/ Accept \/ WriteEnds \/ (handler # "aborted" /\ Reply)

SelfPaced == Deduplicate \/ SetUp
             \/ ReceiveResult \/ ReceiveDone \/ DeadlineReached \/ ClientDisconnected
             \/ AddDuplicate \/ (handler = "aborted" /\ Reply)

HandlerStep == ClientPaced \/ SelfPaced
WorkerStep(i) == OnResponse(i) \/ WorkerDone(i)
WaiterStep == WaiterWakes \/ WaiterCloses

Next ==
  \/ HandlerStep
  \/ \E i \in Positions : CheckReturns(i) \/ WorkerStep(i)
  \/ WaiterStep
  \/ ClientLeaves
  \/ DeadlineFires

Spec == Init /\ [][Next]_vars

(* The goroutines run; nothing is assumed of the checks, the timer and the *)
(* client, not even that it sends its request or reads the response.       *)
FairSpec ==
  /\ Spec
  /\ WF_vars(SelfPaced)
  /\ \A i \in Positions : WF_vars(WorkerStep(i))
  /\ WF_vars(WaiterStep)

(* What some liveness properties assume besides: the client sends all of   *)
(* its request and reads what is written, or closes the connection; the    *)
(* timer expires; every check returns (the HTTP client has a timeout).     *)
ClientKeepsUp == WF_vars(ClientPaced)
TimerExpires == WF_vars(DeadlineFires)
ChecksReturn == \A i \in Positions : WF_vars(CheckReturns(i))

-----------------------------------------------------------------------------
TypeOK ==
  /\ request \in Requests
  /\ route \in {"batch", "stream"}
  /\ handler \in {"parsing", "deduplicating", "serving", "writing", "returned"} \cup Endings
  /\ result \in {"open", "badRequest", "tooLarge"} \cup Endings
  /\ scanned \in 0..MaxSize
  /\ toCheck \subseteq Positions
  /\ responseCache \in [Keys -> Outcomes \cup {None}]
  /\ worker \in [Positions -> {"none", "checking", "checked", "sending", "sent", "done"}]
  /\ response \in [Positions -> Outcomes \cup {None}]
  /\ wg \in Nat
  /\ waiter \in {"none", "waiting", "signalling", "closing", "done"}
  /\ answers \in [{0} \cup Positions -> Seq(Outcomes \cup {None})]
  /\ toAdd \subseteq Positions
  /\ clientGone \in BOOLEAN
  /\ deadlineFired \in BOOLEAN

(* No URL of the list is answered twice, whatever route, order of the      *)
(* workers and end: a first occurrence is answered by its worker alone, a  *)
(* duplicate by the deduplicator alone, and only once; and nothing is      *)
(* answered that was not asked for (server.go:183-241).                    *)
AnsweredAtMostOnce ==
  /\ \A i \in Positions : Len(answers[i]) <= 1
  /\ answers[0] = << >>

(* The done channel is served only after every worker's send was received: *)
(* "complete" leaves out no URL of the list, duplicates included.          *)
CompleteIsComplete ==
  result = "complete" => \A i \in DOMAIN request : answers[i] # << >>

(* All the spellings of a URL get the verdict that its one check found.    *)
VerdictShared ==
  \A i \in DOMAIN request : \A n \in DOMAIN answers[i] :
    answers[i][n] = responseCache[Key(i)] /\ answers[i][n] # None

(* A stream never separates the occurrences of a URL: once one is written, *)
(* all are (deduplicatedResultFor runs after onResponse stored).           *)
StreamAnswersTogether ==
  route = "stream" => \A i, j \in DOMAIN request :
    Key(i) = Key(j) /\ answers[i] # << >> => answers[j] # << >>

(* The result channel is closed only when no worker can send on it any     *)
(* more: a send on a closed channel would panic and end the service.       *)
NoSendAfterClose ==
  waiter \in {"closing", "done"} => \A i \in toCheck : worker[i] = "done"

(* Why these hold.  The deduplicator picks one position for every URL of   *)
(* the part of the list it scanned, and the workers are those positions.   *)
Served ==
  handler \notin {"parsing", "deduplicating"} /\ result \notin {"badRequest", "tooLarge"}

Leaving == handler \in Endings \cup {"returned"}

Deduplicated ==
  /\ scanned <= Len(request) /\ toCheck \subseteq 1..scanned
  /\ handler = "parsing" => scanned = 0
  /\ Served => scanned = Len(request)
  /\ \A i, j \in toCheck : Key(i) = Key(j) => i = j
  /\ \A i \in 1..scanned : \E j \in toCheck : Key(j) = Key(i)

(* The order of a worker's steps: nothing is kept for the duplicates       *)
(* before the check returned, and what is sent was kept before.            *)
Finished(i) == worker[i] \in {"sent", "done"}
Stored(i) == worker[i] = "sending" \/ Finished(i)

WorkersInOrder ==
  /\ \A i \in Positions : worker[i] # "none" <=> (i \in toCheck /\ Served)
  /\ ~Served => \A k \in Keys : responseCache[k] = None
  /\ \A i \in toCheck :
       /\ worker[i] = "checked" \/ Stored(i) => response[i] # None
       /\ responseCache[Key(i)] = IF Stored(i) THEN response[i] ELSE None

(* The wait group counts the workers that have not ended, and the waiter   *)
(* goes on only when there are none; it closes when the handler leaves.    *)
Running == {i \in toCheck : worker[i] # "done"}

WaiterLast ==
  /\ waiter = "none" <=> ~Served
  /\ Served => wg = Cardinality(Running)
  /\ waiter \in {"signalling", "closing", "done"} => Running = {}
  /\ waiter \in {"closing", "done"} => Leaving
  /\ "complete" \in {handler, result} => waiter \in {"closing", "done"}
  /\ handler = "returned" <=> result # "open"

(* A first occurrence is answered when its worker's send is received; a    *)
(* duplicate with it (stream) or when the reply is built (batch).          *)
AnswersInOrder ==
  /\ \A i \in DOMAIN answers \ (1..scanned) : answers[i] = << >>
  /\ \A i \in toCheck : answers[i] = IF Finished(i) THEN <<response[i]>> ELSE << >>
  /\ \A i \in Duplicates, j \in toCheck : Key(i) = Key(j) =>
       IF route = "stream" THEN answers[i] = answers[j]
       ELSE \/ answers[i] = << >>
            \/ /\ Leaving /\ i \notin toAdd /\ Stored(j)
               /\ answers[i] = <<response[j]>>
  /\ toAdd \subseteq Duplicates
  /\ toAdd # {} => handler \in Endings
  /\ handler \in Endings => route = "batch"
  /\ "complete" \in {handler, result} => \A i \in (1..scanned) \ toAdd : answers[i] # << >>

IndInv == TypeOK /\ Deduplicated /\ WorkersInOrder /\ WaiterLast /\ AnswersInOrder

(* What reaches the client: an aborted batch response is not sent.         *)
Delivered ==
  [i \in Positions |->
     IF route = "stream" \/ result \in {"complete", "partial"} THEN answers[i] ELSE << >>]

Promise == INSTANCE URLListPromise
             WITH verdict <- responseCache, delivered <- Delivered, status <- result

(* The goroutines together keep the promise of URLListPromise.             *)
KeepsPromise == Promise!Spec

(* The select loop is never left waiting for a case that cannot come: a    *)
(* worker is still to end, or the waiter can go on, or it is signalling.   *)
SelectIsServed ==
  handler = "serving" =>
    Running # {} \/ waiter = "signalling" \/ (waiter = "waiting" /\ wg = 0)

(* Goroutines outlive a request only if it was cut short; else the waiter  *)
(* alone is left, on its way to the end.                                   *)
OnlyIncompleteLeaveGoroutines ==
  Returned /\ result \notin {"partial", "aborted"} =>
    /\ \A i \in Positions : worker[i] \in {"none", "done"}
    /\ waiter \in {"none", "closing", "done"}

(* The steps that are left, at most: for a list of n URLs 12n + 11 in all. *)
(* A worker's count twice, as one of them also starts a write.             *)
WorkerSteps == [none |-> 5, checking |-> 4, checked |-> 3, sending |-> 2, sent |-> 1, done |-> 0]
WaiterSteps == [none |-> 4, waiting |-> 3, signalling |-> 2, closing |-> 1, done |-> 0]

HandlerSteps(h) ==
  CASE h = "parsing" -> 5 [] h = "deduplicating" -> 4 [] h = "writing" -> 3
    [] h = "serving" -> 2 [] h = "returned" -> 0 [] OTHER -> 1

StepsLeft ==
  HandlerSteps(handler) + WaiterSteps[waiter] + (Len(request) - scanned)
    + (IF Leaving THEN Cardinality(toAdd) ELSE Len(request))
    + 2 * Sum([i \in DOMAIN request |-> WorkerSteps[worker[i]]])
    + (IF clientGone THEN 0 ELSE 1) + (IF deadlineFired THEN 0 ELSE 1)

(* Nothing is done again: whatever the handler, its goroutines, the client *)
(* and the timer do, each step leaves fewer, so that a request can neither *)
(* run for ever nor spin on a closed channel.                              *)
StepsRunOut == [][StepsLeft' < StepsLeft]_vars

(* Every request whose client neither holds back its body nor stops        *)
(* reading ends: by its timer even if its checks never return, and by its  *)
(* checks even if the timer never expires (server.go:188-212).  With a     *)
(* client that stalls and stays connected, none of the two helps: the      *)
(* server has no read or write timeouts (server.go:131, 134).              *)
RequestEnds ==
  ClientKeepsUp /\ (TimerExpires \/ ChecksReturn) => (handler = "parsing" ~> Returned)

GoroutinesEnded ==
  /\ \A i \in Positions : worker[i] \in {"none", "done"}
  /\ waiter \in {"none", "done"}

(* A request that completes leaves no goroutine behind.                    *)
CompleteLeavesNothing == result = "complete" ~> GoroutinesEnded

(* CHANGES.md:197 "aborting processing on client disconnected": after a    *)
(* disconnect the request's goroutines end.                                *)
DisconnectAbortsProcessing ==
  ClientKeepsUp /\ ChecksReturn => (clientGone ~> GoroutinesEnded)
=============================================================================
