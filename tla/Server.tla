------------------------------- MODULE Server -------------------------------
(***************************************************************************)
(* The HTTP server around the list checks: the handlers that every route   *)
(* gets when the service starts (NewServerWithOptions, setupRoutes), and   *)
(* requests that walk through them concurrently, sharing the store of the  *)
(* rate limiter and the statistics.                                        *)
(*                                                                         *)
(* The handlers of a route are those of the engine and of the route's      *)
(* group at the time of its registration: gin copies them then, so that    *)
(* the order of the calls in setupRoutes decides what a route is guarded   *)
(* by.  A list check itself is the subject of URLListCheck.                *)
(***************************************************************************)
EXTENDS Naturals, Sequences, FiniteSets

CONSTANTS
  Requests,    \* the connections: one request at a time on each
  Clients,     \* the clients, each named by its IP address
  Proxies,     \* the addresses of proxies that clients come through
  Configurations, \* the configurations considered
  Traffic,     \* configuration -> the requests considered under it
  Rate,        \* requests per window and address, if IPRateLimit gives one
  MaxArrivals, \* bound: the requests of a behaviour
  None         \* no answer yet, no header

CheckRoutes == {"/checkUrls", "/checkUrls/stream"}
StatsRoutes == {"/stats", "/stats/domains"}
OpenRoutes == {"/version", "/livez", "/readyz"}
(* An OPTIONS request matches no route, and gets the engine's handlers.    *)
Preflight == "OPTIONS"

Routes == CheckRoutes \cup StatsRoutes \cup OpenRoutes \cup {Preflight}

(* The answers: a handler's, of whatever status, and the others.           *)
Answers == {"handled", "204", "401", "403", "404", "429"}

Addresses == Clients \cup Proxies

(* A request: who sends it, from which address its connection comes, which *)
(* address its forwarding header (X-Forwarded-For, X-Real-IP) names if it  *)
(* has one, where it goes, whether a foreign page makes the browser send   *)
(* it, and whether its token is valid.                                     *)
Origins == {"none", "listed", "foreign"}
Messages ==
  {m \in [client : Clients, connection : Addresses, forwarded : Addresses \cup {None},
          route : Routes, origin : Origins, token : BOOLEAN] :
     m.connection \in {m.client} \cup Proxies}

(* serve.go's options.  A rate that does not parse is no rate.             *)
Options == [cors : BOOLEAN, rate : {"none", "malformed", "given"}, jwt : BOOLEAN]

ASSUME ServerAssumption ==
  /\ Configurations \subseteq Options /\ Traffic \in [Configurations -> SUBSET Messages]
  /\ Rate \in Nat /\ MaxArrivals \in Nat
  /\ IsFiniteSet(Requests)
ASSUME NoneAssumption == None \notin Answers \cup Messages \cup Clients

-----------------------------------------------------------------------------
(* Setting up the routes.                                                  *)

setUpCORS(o) == IF o.cors THEN <<"cors">> ELSE << >>

setUpRateLimiting(o) == IF o.rate = "given" THEN <<"limiter">> ELSE << >>

(* What the engine uses before the first route is registered: the recovery *)
(* and the logger besides, which let every request pass.                   *)
(* Mutant: the engine uses the limiter, not the group.                     *)
EngineLimited(o) == setUpCORS(o) \o setUpRateLimiting(o)

Engine(o) == setUpCORS(o)

(* What a group starts with: what the engine uses when it is made.         *)
(* Mutant: the groups are made before the engine uses CORS.                *)
GroupedBeforeCORS(o) == << >>

Group(o) == Engine(o)

setUpJWTValidation(o, route) ==
  IF o.jwt /\ route \in CheckRoutes \cup StatsRoutes THEN <<"jwt">> ELSE << >>

(* Mutant: the stream is counted before it is counted as a request.        *)
StreamCountedFirst(route) ==
  IF route = "/checkUrls/stream"
  THEN <<"OnIncomingStreamRequest", "OnIncomingRequest", "handler">>
  ELSE <<"OnIncomingRequest", "handler">>

(* How a list check's handler begins.                                      *)
CheckHandler(route) ==
  IF route = "/checkUrls/stream"
  THEN <<"OnIncomingRequest", "OnIncomingStreamRequest", "handler">>
  ELSE <<"OnIncomingRequest", "handler">>

setupRoutes(o, route) ==
  CASE route \in CheckRoutes ->
         Group(o) \o setUpRateLimiting(o) \o setUpJWTValidation(o, route) \o CheckHandler(route)
    [] route \in StatsRoutes ->
         Group(o) \o setUpJWTValidation(o, route) \o <<"handler">>
    [] route \in OpenRoutes -> Engine(o) \o <<"handler">>
    [] OTHER -> Engine(o) \o <<"not found">>

-----------------------------------------------------------------------------
VARIABLES
  options,  \* the configuration
  message,  \* connection -> its request
  todo,     \* connection -> the handlers that its request has yet to pass
  answer,   \* connection -> the answer to it, or None
  hits,     \* store -> address -> the requests under it in the limiter's window
  admitted, \* address -> those that passed the limiter in the same window
  earlier,  \* address -> those that passed in the window before, and less than
            \* the length of a window ago
  incomingRequests, incomingStreamRequests, \* the statistics
  arrivals  \* the requests so far

statVars == <<incomingRequests, incomingStreamRequests>>
rateVars == <<hits, admitted, earlier>>
vars == <<options, message, todo, answer, rateVars, statVars, arrivals>>

Init ==
  /\ options \in Configurations
  /\ message = [r \in Requests |-> None]
  /\ todo = [r \in Requests |-> << >>]
  /\ answer = [r \in Requests |-> None]
  /\ hits = [store \in CheckRoutes |-> [a \in Addresses |-> 0]]
  /\ admitted = [a \in Addresses |-> 0]
  /\ earlier = [a \in Addresses |-> 0]
  /\ incomingRequests = 0 /\ incomingStreamRequests = 0
  /\ arrivals = 0

-----------------------------------------------------------------------------
(* A request arrives, on a connection whose last one is answered.          *)
Arrive(r) ==
  /\ todo[r] = << >>
  /\ arrivals < MaxArrivals
  /\ arrivals' = arrivals + 1
  /\ \E m \in Traffic[options] :
       /\ message' = [message EXCEPT ![r] = m]
       /\ todo' = [todo EXCEPT ![r] = setupRoutes(options, m.route)]
       /\ answer' = [answer EXCEPT ![r] = None]
  /\ UNCHANGED <<options, rateVars, statVars>>

Reached(r, handler) == todo[r] # << >> /\ Head(todo[r]) = handler

(* A handler passes the request on, or answers it.                         *)
PassOn(r) ==
  /\ todo' = [todo EXCEPT ![r] = Tail(@)]
  /\ UNCHANGED answer

Reply(r, status) ==
  /\ todo' = [todo EXCEPT ![r] = << >>]
  /\ answer' = [answer EXCEPT ![r] = status]

(* Only requests with a foreign origin are refused; a preflight ends here. *)
CheckOrigin(r) ==
  LET m == message[r] IN
  /\ Reached(r, "cors")
  /\ CASE m.origin = "foreign" -> Reply(r, "403")
       [] m.origin = "listed" /\ m.route = Preflight -> Reply(r, "204")
       [] OTHER -> PassOn(r)
  /\ UNCHANGED <<options, message, rateVars, statVars, arrivals>>

(* One limiter, with one store, is used by the group of the list checks.   *)
(* Mutant: each route has a store of its own.                              *)
StorePerRoute(route) == route

Store(route) == "/checkUrls"

(* Mutant: without ForwardedByClientIP the header is not looked at.        *)
ConnectionAddress(m) == m.connection

(* The address that gin takes for the client's: the one that the header    *)
(* names, whoever set it, as no proxies to trust are configured.           *)
ClientIP(m) == IF m.forwarded # None THEN m.forwarded ELSE m.connection

(* The store counts, and the limiter compares, in one step.                *)
Limit(r) ==
  LET store == Store(message[r].route)
      key == ClientIP(message[r])
  IN
  /\ Reached(r, "limiter")
  /\ hits' = [hits EXCEPT ![store][key] = @ + 1]
  /\ IF hits[store][key] < Rate
     THEN /\ admitted' = [admitted EXCEPT ![key] = @ + 1]
          /\ PassOn(r)
     ELSE /\ Reply(r, "429")
          /\ UNCHANGED admitted
  /\ UNCHANGED <<options, message, earlier, statVars, arrivals>>

(* The window of an address, which the first request under it opened, is   *)
(* over, a window's length after that request.  Those admitted since then  *)
(* are all more recent, and those of the window before are all older.      *)
WindowEnds(a) ==
  /\ \E store \in CheckRoutes : hits[store][a] > 0
  /\ earlier[a] = 0
  /\ hits' = [store \in CheckRoutes |-> [hits[store] EXCEPT ![a] = 0]]
  /\ admitted' = [admitted EXCEPT ![a] = 0]
  /\ earlier' = [earlier EXCEPT ![a] = IF admitted[a] > 0 THEN admitted[a] - 1 ELSE 0]
  /\ UNCHANGED <<options, message, todo, answer, statVars, arrivals>>

(* The length of a window has passed since one of the window before.       *)
LeavesSpan(a) ==
  /\ earlier[a] > 0
  /\ earlier' = [earlier EXCEPT ![a] = @ - 1]
  /\ UNCHANGED <<options, message, todo, answer, hits, admitted, statVars, arrivals>>

ValidateToken(r) ==
  /\ Reached(r, "jwt")
  /\ IF message[r].token THEN PassOn(r) ELSE Reply(r, "401")
  /\ UNCHANGED <<options, message, rateVars, statVars, arrivals>>

OnIncomingRequest(r) ==
  /\ Reached(r, "OnIncomingRequest")
  /\ incomingRequests' = incomingRequests + 1
  /\ PassOn(r)
  /\ UNCHANGED <<options, message, rateVars, incomingStreamRequests, arrivals>>

OnIncomingStreamRequest(r) ==
  /\ Reached(r, "OnIncomingStreamRequest")
  /\ incomingStreamRequests' = incomingStreamRequests + 1
  /\ PassOn(r)
  /\ UNCHANGED <<options, message, rateVars, incomingRequests, arrivals>>

Handle(r) ==
  /\ \/ Reached(r, "handler") /\ Reply(r, "handled")
     \/ Reached(r, "not found") /\ Reply(r, "404")
  /\ UNCHANGED <<options, message, rateVars, statVars, arrivals>>

Next ==
  \/ \E r \in Requests :
       \/ Arrive(r) \/ CheckOrigin(r) \/ Limit(r) \/ ValidateToken(r)
       \/ OnIncomingRequest(r) \/ OnIncomingStreamRequest(r) \/ Handle(r)
  \/ \E a \in Addresses : WindowEnds(a) \/ LeavesSpan(a)

Spec == Init /\ [][Next]_vars

-----------------------------------------------------------------------------
Steps ==
  {"cors", "limiter", "jwt", "OnIncomingRequest", "OnIncomingStreamRequest",
   "handler", "not found"}

TypeOK ==
  /\ options \in Configurations
  /\ message \in [Requests -> Messages \cup {None}]
  /\ todo \in [Requests -> Seq(Steps)]
  /\ answer \in [Requests -> Answers \cup {None}]
  /\ hits \in [CheckRoutes -> [Addresses -> Nat]]
  /\ admitted \in [Addresses -> Nat] /\ earlier \in [Addresses -> Nat]
  /\ incomingRequests \in Nat /\ incomingStreamRequests \in Nat
  /\ arrivals \in 0..MaxArrivals

(* In one window of an address no more list checks than the rate get past  *)
(* the limiter, whichever of the two routes they take, and in a span of    *)
(* the same length across the end of a window fewer than twice as many     *)
(* (as the window is fixed, and not the sliding one of README.md:275).  An *)
(* address is what ClientIP gives: a client that is named by several has   *)
(* the rate under each.                                                    *)
AdmittedWithinRate ==
  \A a \in Addresses :
    /\ admitted[a] <= Rate
    /\ Rate > 0 => earlier[a] + admitted[a] < 2 * Rate

(* Why this holds: the store's count says how many of them passed.         *)
RateInStep ==
  \A a \in Addresses :
    LET count == hits["/checkUrls"][a] IN
    /\ admitted[a] = IF count < Rate THEN count ELSE Rate
    /\ earlier[a] = 0 \/ earlier[a] < Rate

(* What a handler works on is a request that arrived.                      *)
WorksOnRequest == \A r \in Requests : todo[r] # << >> => message[r] # None

(* A request that tells whom it is from: by the header, or, without one,   *)
(* by the connection.                                                      *)
TellsClient(m) ==
  m.forwarded = m.client \/ (m.forwarded = None /\ m.connection = m.client)

(* A client whose request tells its address, be it through the same proxy  *)
(* as others, is refused only after the rate was used up under that very   *)
(* address: what comes under other addresses does not count for it.        *)
RefusedAtRateOnly ==
  [][\A r \in Requests : LET m == message[r] IN
       answer'[r] = "429" /\ answer[r] = None /\ TellsClient(m) =>
         admitted[m.client] = Rate]_vars

(* A handler has begun, or has answered.                                   *)
Handlers == {"OnIncomingRequest", "OnIncomingStreamRequest", "handler"}
Begun(r) == answer[r] = "handled" \/ \E handler \in Handlers : Reached(r, handler)

(* No handler of the service runs for a foreign page if CORS is set up,    *)
(* and none that checks or tells the statistics without a valid token if   *)
(* JWT validation is.                                                      *)
GuardedAsConfigured ==
  \A r \in Requests : Begun(r) =>
    /\ options.cors => message[r].origin # "foreign"
    /\ options.jwt /\ message[r].route \notin OpenRoutes => message[r].token

(* Health checks, the version and preflights need no token and use up no   *)
(* rate: an orchestrator's probes, and the browser's, carry none.          *)
OpenRoutesAnswer ==
  \A r \in Requests :
    message[r] # None /\ message[r].route \in OpenRoutes \cup {Preflight} =>
      answer[r] \notin {"401", "429"}

(* A stream is counted as a request before it is counted as a stream, in   *)
(* two steps, so that no reader of the statistics sees more streams than   *)
(* requests, however many requests arrive in between.                      *)
StreamsAmongRequests == incomingStreamRequests <= incomingRequests

(* Why these hold.  Whoever is to be refused meets the one who refuses     *)
(* before any handler, and nobody else has refused it before; who is not   *)
(* to be refused never meets one.                                          *)
WaitsFor(guard, handlers) ==
  \A n \in DOMAIN handlers : handlers[n] \in Handlers =>
    \E before \in DOMAIN handlers : before < n /\ handlers[before] = guard

GuardsAhead ==
  \A r \in Requests : LET m == message[r] IN
    IF m = None
    THEN todo[r] = << >> /\ answer[r] = None
    ELSE /\ options.cors /\ m.origin = "foreign" =>
              answer[r] # "handled" /\ WaitsFor("cors", todo[r])
         /\ options.jwt /\ m.route \notin OpenRoutes /\ ~m.token =>
              answer[r] # "handled" /\ WaitsFor("jwt", todo[r])
         /\ m.route \in OpenRoutes \cup {Preflight} =>
              /\ answer[r] \notin {"401", "429"}
              /\ todo[r] \in Seq(Steps \ {"limiter", "jwt"})

(* A request that is yet to be counted as a stream has been counted as a   *)
(* request, or will be before.                                             *)
ToBeCounted == {r \in Requests : Reached(r, "OnIncomingStreamRequest")}

StreamsInStep ==
  /\ incomingStreamRequests + Cardinality(ToBeCounted) <= incomingRequests
  /\ \A r \in Requests : \A n \in DOMAIN todo[r] :
       n > 1 /\ todo[r][n] = "OnIncomingStreamRequest" => todo[r][n - 1] = "OnIncomingRequest"

RateInv == TypeOK /\ RateInStep /\ WorksOnRequest

IndInv == RateInv /\ GuardsAhead /\ StreamsInStep
=============================================================================
