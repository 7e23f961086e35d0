---------------------------- MODULE ServerProofs ----------------------------
(***************************************************************************)
(* The rate limiter's promise, what guards which route, and the order of   *)
(* the counts, for any number of clients and connections and any rate.     *)
(***************************************************************************)
EXTENDS Server, FiniteSetTheorems, TLAPS

(* A list of handlers is made of lists of handlers.                        *)
LEMMA ChainType ==
  ASSUME NEW o \in Options, NEW route
  PROVE  setupRoutes(o, route) \in Seq(Steps)
<1>1. /\ setUpCORS(o) \in Seq(Steps) /\ setUpRateLimiting(o) \in Seq(Steps)
      /\ setUpJWTValidation(o, route) \in Seq(Steps)
      /\ CheckHandler(route) \in Seq(Steps)
  <2>1. \A s \in Steps : <<s>> \in Seq(Steps)
    OBVIOUS
  <2>2. << >> \in Seq(Steps)
    OBVIOUS
  <2>3. {"cors", "limiter", "jwt", "OnIncomingRequest", "OnIncomingStreamRequest",
         "handler"} \subseteq Steps
    BY DEF Steps
  <2>4. \A s, t \in Steps : <<s, t>> \in Seq(Steps)
    OBVIOUS
  <2>5. \A s, t, u \in Steps : <<s, t, u>> \in Seq(Steps)
    OBVIOUS
  <2>6. setUpCORS(o) \in Seq(Steps)
    BY <2>1, <2>2, <2>3 DEF setUpCORS
  <2>7. setUpRateLimiting(o) \in Seq(Steps)
    BY <2>1, <2>2, <2>3 DEF setUpRateLimiting
  <2>8. setUpJWTValidation(o, route) \in Seq(Steps)
    BY <2>1, <2>2, <2>3 DEF setUpJWTValidation
  <2>9. CheckHandler(route) \in Seq(Steps)
    BY <2>3, <2>4, <2>5 DEF CheckHandler
  <2> QED
    BY <2>6, <2>7, <2>8, <2>9
<1>2. <<"handler">> \in Seq(Steps) /\ <<"not found">> \in Seq(Steps)
  BY DEF Steps
<1>3. \A s, t \in Seq(Steps) : s \o t \in Seq(Steps)
  OBVIOUS
<1>4. Group(o) \in Seq(Steps) /\ Engine(o) \in Seq(Steps)
  BY <1>1 DEF Group, Engine
<1>5. CASE route \in CheckRoutes
  <2>1. setupRoutes(o, route) =
          ((Group(o) \o setUpRateLimiting(o)) \o setUpJWTValidation(o, route))
            \o CheckHandler(route)
    BY <1>5 DEF setupRoutes, CheckRoutes, StatsRoutes, OpenRoutes
  <2>2. Group(o) \o setUpRateLimiting(o) \in Seq(Steps)
    BY <1>1, <1>3, <1>4
  <2>3. (Group(o) \o setUpRateLimiting(o)) \o setUpJWTValidation(o, route) \in Seq(Steps)
    BY <1>1, <1>3, <2>2
  <2> QED
    BY <1>1, <1>3, <2>1, <2>3
<1>6. CASE route \notin CheckRoutes /\ route \in StatsRoutes
  <2>1. setupRoutes(o, route) =
          (Group(o) \o setUpJWTValidation(o, route)) \o <<"handler">>
    BY <1>6 DEF setupRoutes, CheckRoutes, StatsRoutes, OpenRoutes
  <2>2. Group(o) \o setUpJWTValidation(o, route) \in Seq(Steps)
    BY <1>1, <1>3, <1>4
  <2> QED
    BY <1>2, <1>3, <2>1, <2>2
<1>7. CASE route \notin CheckRoutes \cup StatsRoutes /\ route \in OpenRoutes
  <2>1. setupRoutes(o, route) = Engine(o) \o <<"handler">>
    BY <1>7 DEF setupRoutes
  <2> QED
    BY <1>2, <1>3, <1>4, <2>1
<1>8. CASE route \notin CheckRoutes \cup StatsRoutes \cup OpenRoutes
  <2>1. setupRoutes(o, route) = Engine(o) \o <<"not found">>
    BY <1>8 DEF setupRoutes
  <2> QED
    BY <1>2, <1>3, <1>4, <2>1
<1> QED
  BY <1>5, <1>6, <1>7, <1>8

(* Passing a request on, or answering it, keeps the types.                 *)
LEMMA StepTypes ==
  ASSUME TypeOK, NEW r \in Requests, todo[r] # << >>,
         PassOn(r) \/ \E status \in Answers : Reply(r, status)
  PROVE  todo' \in [Requests -> Seq(Steps)] /\ answer' \in [Requests -> Answers \cup {None}]
<1>1. todo[r] \in Seq(Steps) /\ Tail(todo[r]) \in Seq(Steps)
  BY DEF TypeOK
<1>2. << >> \in Seq(Steps)
  OBVIOUS
<1> QED
  BY <1>1, <1>2 DEF TypeOK, PassOn, Reply

(* What gin takes for the client's address is one that the limiter counts. *)
LEMMA AddressType ==
  ASSUME NEW m \in Messages
  PROVE  ClientIP(m) \in Addresses
  BY DEF Messages, ClientIP

(* Who tells its address is counted under it.                              *)
LEMMA ToldAddress ==
  ASSUME NEW m \in Messages, TellsClient(m)
  PROVE  ClientIP(m) = m.client
<1>1. m.client # None
  BY NoneAssumption DEF Messages
<1> QED
  BY <1>1 DEF TellsClient, ClientIP

LEMMA InitRateInv == Init => RateInv
<1> SUFFICES ASSUME Init PROVE RateInv
  OBVIOUS
<1>1. << >> \in Seq(Steps)
  OBVIOUS
<1>2. TypeOK
  BY <1>1, ServerAssumption DEF Init, TypeOK
<1>3. RateInStep
  BY ServerAssumption DEF Init, RateInStep, CheckRoutes
<1>4. WorksOnRequest
  BY DEF Init, WorksOnRequest
<1> QED
  BY <1>2, <1>3, <1>4 DEF RateInv

(* The steps that leave the limiter alone.                                 *)
LEMMA OtherSteps ==
  ASSUME RateInv, NEW r \in Requests,
         \/ Arrive(r) \/ CheckOrigin(r) \/ ValidateToken(r) \/ OnIncomingRequest(r)
         \/ OnIncomingStreamRequest(r) \/ Handle(r)
  PROVE  RateInv'
<1>0. TypeOK /\ RateInStep /\ WorksOnRequest
  BY DEF RateInv
<1>1. UNCHANGED <<options, rateVars>>
  BY DEF Arrive, CheckOrigin, ValidateToken, OnIncomingRequest, OnIncomingStreamRequest, Handle,
         rateVars
<1>2. RateInStep'
  BY <1>0, <1>1 DEF RateInStep, rateVars
<1>3. CASE Arrive(r)
  <2>1. PICK m \in Messages :
          /\ message' = [message EXCEPT ![r] = m]
          /\ todo' = [todo EXCEPT ![r] = setupRoutes(options, m.route)]
          /\ answer' = [answer EXCEPT ![r] = None]
    BY <1>0, <1>3, ServerAssumption DEF Arrive, TypeOK
  <2>2. setupRoutes(options, m.route) \in Seq(Steps)
    BY <1>0, ChainType, ServerAssumption DEF TypeOK
  <2>3. arrivals' \in 0..MaxArrivals /\ UNCHANGED statVars
    BY <1>0, <1>3, ServerAssumption DEF TypeOK, Arrive
  <2>4. TypeOK'
    BY <1>0, <1>1, <2>1, <2>2, <2>3 DEF TypeOK, rateVars, statVars
  <2>5. m # None
    BY NoneAssumption
  <2>6. WorksOnRequest'
    BY <1>0, <2>1, <2>5 DEF TypeOK, WorksOnRequest
  <2> QED
    BY <1>2, <2>4, <2>6 DEF RateInv
<1>4. CASE \/ CheckOrigin(r) \/ ValidateToken(r) \/ OnIncomingRequest(r)
           \/ OnIncomingStreamRequest(r) \/ Handle(r)
  <2>1. todo[r] # << >> /\ (PassOn(r) \/ \E status \in Answers : Reply(r, status))
    <3>1. {"handled", "204", "401", "403", "404"} \subseteq Answers
      BY DEF Answers
    <3> QED
      BY <1>4, <3>1 DEF CheckOrigin, ValidateToken, OnIncomingRequest, OnIncomingStreamRequest,
                        Handle, Reached
  <2>2. /\ UNCHANGED <<message, arrivals>>
        /\ incomingRequests' \in Nat /\ incomingStreamRequests' \in Nat
    <3>1. incomingRequests \in Nat /\ incomingStreamRequests \in Nat
      BY <1>0 DEF TypeOK
    <3>2. CASE CheckOrigin(r) \/ ValidateToken(r) \/ Handle(r)
      <4>1. UNCHANGED <<message, statVars, arrivals>>
        BY <3>2 DEF CheckOrigin, ValidateToken, Handle
      <4> QED
        BY <3>1, <4>1 DEF statVars
    <3>3. CASE OnIncomingRequest(r)
      BY <3>1, <3>3 DEF OnIncomingRequest
    <3>4. CASE OnIncomingStreamRequest(r)
      BY <3>1, <3>4 DEF OnIncomingStreamRequest
    <3> QED
      BY <1>4, <3>2, <3>3, <3>4
  <2>3. TypeOK'
    BY <1>0, <1>1, <2>1, <2>2, StepTypes DEF TypeOK, rateVars
  <2>4. \A x \in Requests \ {r} : todo'[x] = todo[x]
    BY <1>0, <2>1 DEF TypeOK, PassOn, Reply
  <2>5. WorksOnRequest'
    BY <1>0, <2>1, <2>2, <2>4 DEF WorksOnRequest
  <2> QED
    BY <1>2, <2>3, <2>5 DEF RateInv
<1> QED
  BY <1>3, <1>4

(* The store counts a request, and it passes if the count was below the    *)
(* rate.                                                                   *)
LEMMA LimitStep ==
  ASSUME RateInv, NEW r \in Requests, Limit(r)
  PROVE  RateInv'
<1>0. TypeOK /\ RateInStep /\ WorksOnRequest
  BY DEF RateInv
<1> DEFINE key == ClientIP(message[r])
           count == hits["/checkUrls"][key]
<1>1. key \in Addresses /\ count \in Nat /\ "/checkUrls" \in CheckRoutes
  <2>1. message[r] # None
    BY <1>0 DEF Limit, Reached, WorksOnRequest
  <2>2. key \in Addresses
    BY <1>0, <2>1, AddressType DEF TypeOK
  <2> QED
    BY <1>0, <2>2 DEF TypeOK, CheckRoutes
<1>2. /\ hits' = [hits EXCEPT !["/checkUrls"][key] = @ + 1]
      /\ \/ /\ count < Rate
            /\ admitted' = [admitted EXCEPT ![key] = @ + 1] /\ PassOn(r)
         \/ ~(count < Rate) /\ admitted' = admitted /\ Reply(r, "429")
      /\ earlier' = earlier
  BY DEF Limit, Store
<1>3. todo[r] # << >> /\ "429" \in Answers
  BY DEF Limit, Reached, Answers
<1>4. todo' \in [Requests -> Seq(Steps)] /\ answer' \in [Requests -> Answers \cup {None}]
  BY <1>0, <1>2, <1>3, StepTypes
<1> HIDE DEF key
<1>5. hits' \in [CheckRoutes -> [Addresses -> Nat]] /\ admitted' \in [Addresses -> Nat]
  <2>1. [hits["/checkUrls"] EXCEPT ![key] = @ + 1] \in [Addresses -> Nat]
    BY <1>0, <1>1 DEF TypeOK
  <2>2. hits' \in [CheckRoutes -> [Addresses -> Nat]]
    BY <1>0, <1>1, <1>2, <2>1 DEF TypeOK
  <2>3. admitted' \in [Addresses -> Nat]
    BY <1>0, <1>1, <1>2 DEF TypeOK
  <2> QED
    BY <2>2, <2>3
<1>6. TypeOK'
  BY <1>0, <1>2, <1>4, <1>5 DEF TypeOK, Limit, statVars
<1>7. RateInStep'
  <2> SUFFICES ASSUME NEW a \in Addresses
               PROVE  admitted'[a] =
                        IF hits'["/checkUrls"][a] < Rate THEN hits'["/checkUrls"][a] ELSE Rate
    BY <1>0, <1>2 DEF RateInStep
  <2>1. admitted[a] = IF hits["/checkUrls"][a] < Rate THEN hits["/checkUrls"][a] ELSE Rate
    BY <1>0 DEF RateInStep
  <2>2. CASE a # key
    BY <1>0, <1>1, <1>2, <2>1, <2>2 DEF TypeOK
  <2>3. CASE a = key
    BY <1>0, <1>1, <1>2, <2>1, <2>3, ServerAssumption DEF TypeOK
  <2> QED
    BY <2>2, <2>3
<1>8. WorksOnRequest'
  BY <1>0, <1>2, <1>3 DEF TypeOK, WorksOnRequest, Limit, PassOn, Reply
<1> QED
  BY <1>6, <1>7, <1>8 DEF RateInv

(* The count and the requests that it stands for are forgotten together,   *)
(* and all of them but the first, at most, are those of the window before. *)
LEMMA WindowStep ==
  ASSUME RateInv, NEW a \in Addresses, WindowEnds(a)
  PROVE  RateInv'
<1>0. TypeOK /\ RateInStep /\ WorksOnRequest /\ "/checkUrls" \in CheckRoutes
  BY DEF RateInv, CheckRoutes
<1> DEFINE left == IF admitted[a] > 0 THEN admitted[a] - 1 ELSE 0
<1>1. /\ hits' = [store \in CheckRoutes |-> [hits[store] EXCEPT ![a] = 0]]
      /\ admitted' = [admitted EXCEPT ![a] = 0]
      /\ earlier' = [earlier EXCEPT ![a] = left]
      /\ UNCHANGED <<options, message, todo, answer, statVars, arrivals>>
  BY DEF WindowEnds
<1>2. left \in Nat /\ (left = 0 \/ left < Rate)
  <2>1. hits["/checkUrls"][a] \in Nat /\ admitted[a] \in Nat
    BY <1>0 DEF TypeOK
  <2>2. admitted[a] = IF hits["/checkUrls"][a] < Rate THEN hits["/checkUrls"][a] ELSE Rate
    BY <1>0 DEF RateInStep
  <2> QED
    BY <2>1, <2>2, ServerAssumption
<1> HIDE DEF left
<1>3. TypeOK'
  <2>1. \A store \in CheckRoutes : [hits[store] EXCEPT ![a] = 0] \in [Addresses -> Nat]
    BY <1>0 DEF TypeOK
  <2>2. hits' \in [CheckRoutes -> [Addresses -> Nat]]
    BY <1>1, <2>1
  <2>3. admitted' \in [Addresses -> Nat] /\ earlier' \in [Addresses -> Nat]
    BY <1>0, <1>1, <1>2 DEF TypeOK
  <2> QED
    BY <1>0, <1>1, <2>2, <2>3 DEF TypeOK, statVars
<1>4. RateInStep'
  <2> SUFFICES ASSUME NEW x \in Addresses
               PROVE  /\ admitted'[x] = IF hits'["/checkUrls"][x] < Rate
                                        THEN hits'["/checkUrls"][x] ELSE Rate
                      /\ earlier'[x] = 0 \/ earlier'[x] < Rate
    BY DEF RateInStep
  <2>1. CASE x = a
    BY <1>0, <1>1, <1>2, <2>1, ServerAssumption DEF TypeOK
  <2>2. CASE x # a
    BY <1>0, <1>1, <2>2 DEF TypeOK, RateInStep
  <2> QED
    BY <2>1, <2>2
<1>5. WorksOnRequest'
  BY <1>0, <1>1 DEF WorksOnRequest
<1> QED
  BY <1>3, <1>4, <1>5 DEF RateInv

(* One less of those of the window before counts.                          *)
LEMMA LeavesStep ==
  ASSUME RateInv, NEW a \in Addresses, LeavesSpan(a)
  PROVE  RateInv'
<1>0. TypeOK /\ RateInStep /\ WorksOnRequest
  BY DEF RateInv
<1>1. /\ earlier[a] > 0 /\ earlier' = [earlier EXCEPT ![a] = @ - 1]
      /\ UNCHANGED <<options, message, todo, answer, hits, admitted, statVars, arrivals>>
  BY DEF LeavesSpan
<1>2. earlier[a] \in Nat /\ (earlier[a] = 0 \/ earlier[a] < Rate)
  BY <1>0 DEF TypeOK, RateInStep
<1>3. TypeOK'
  BY <1>0, <1>1, <1>2 DEF TypeOK, statVars
<1>4. RateInStep'
  <2>1. \A x \in Addresses : earlier'[x] = 0 \/ earlier'[x] < Rate
    BY <1>0, <1>1, <1>2, ServerAssumption DEF TypeOK, RateInStep
  <2> QED
    BY <1>0, <1>1, <2>1 DEF RateInStep
<1>5. WorksOnRequest'
  BY <1>0, <1>1 DEF WorksOnRequest
<1> QED
  BY <1>3, <1>4, <1>5 DEF RateInv

LEMMA NextRateInv == RateInv /\ [Next]_vars => RateInv'
<1> SUFFICES ASSUME RateInv, [Next]_vars PROVE RateInv'
  OBVIOUS
<1>1. CASE Next
  BY <1>1, OtherSteps, LimitStep, WindowStep, LeavesStep DEF Next
<1>2. CASE UNCHANGED vars
  BY <1>2 DEF RateInv, TypeOK, RateInStep, WorksOnRequest, vars, rateVars, statVars
<1> QED
  BY <1>1, <1>2

(* The types, and the limiter's count of whom it let through.              *)
LEMMA RateHolds == Spec => []RateInv
  BY InitRateInv, NextRateInv, PTL DEF Spec

(* Both list-check routes together admit no more of the requests under an  *)
(* address in a window than the rate, and less than twice as many in any   *)
(* span of that length (setUpRateLimiting).                                *)
THEOREM WithinRate == Spec => []AdmittedWithinRate
<1>1. RateInv => AdmittedWithinRate
  <2> SUFFICES ASSUME RateInv, NEW a \in Addresses
               PROVE  admitted[a] <= Rate /\ (Rate > 0 => earlier[a] + admitted[a] < 2 * Rate)
    BY DEF AdmittedWithinRate
  <2>1. hits["/checkUrls"][a] \in Nat /\ admitted[a] \in Nat /\ earlier[a] \in Nat
    BY DEF RateInv, TypeOK, CheckRoutes
  <2>2. /\ admitted[a] = IF hits["/checkUrls"][a] < Rate THEN hits["/checkUrls"][a] ELSE Rate
        /\ earlier[a] = 0 \/ earlier[a] < Rate
    BY DEF RateInv, RateInStep
  <2> QED
    BY <2>1, <2>2, ServerAssumption
<1> QED
  BY <1>1, RateHolds, PTL

RefusedAtRate ==
  \A r \in Requests : LET m == message[r] IN
    answer'[r] = "429" /\ answer[r] = None /\ TellsClient(m) => admitted[m.client] = Rate

(* Only the limiter answers 429, and only when the count is at the rate.   *)
LEMMA RefusalStep == RateInv /\ [Next]_vars => [RefusedAtRate]_vars
<1> SUFFICES ASSUME RateInv, Next, NEW x \in Requests, answer'[x] = "429", answer[x] = None,
                    TellsClient(message[x])
             PROVE  admitted[message[x].client] = Rate
  BY DEF RefusedAtRate
<1>0. answer \in [Requests -> Answers \cup {None}] /\ None # "429"
  BY NoneAssumption DEF RateInv, TypeOK, Answers
<1>1. ASSUME NEW r \in Requests, Limit(r) PROVE admitted[message[x].client] = Rate
  <2> DEFINE key == ClientIP(message[r])
             count == hits["/checkUrls"][key]
  <2>1. /\ ~(count < Rate) /\ x = r
    BY <1>0, <1>1 DEF Limit, Store, PassOn, Reply
  <2>2. message[r] \in Messages
    BY <1>1 DEF RateInv, TypeOK, WorksOnRequest, Limit, Reached
  <2>3. key = message[x].client /\ key \in Addresses
    BY <2>1, <2>2, AddressType, ToldAddress
  <2>4. admitted[key] = IF count < Rate THEN count ELSE Rate
    BY <2>3 DEF RateInv, RateInStep
  <2> QED
    BY <2>1, <2>3, <2>4
<1>2. ASSUME NEW r \in Requests, Arrive(r) PROVE FALSE
  BY <1>0, <1>2 DEF Arrive
<1>3. ASSUME NEW r \in Requests,
             \/ CheckOrigin(r) \/ ValidateToken(r) \/ OnIncomingRequest(r)
             \/ OnIncomingStreamRequest(r) \/ Handle(r)
      PROVE  FALSE
  <2>1. PassOn(r) \/ \E status \in {"204", "401", "403", "404", "handled"} : Reply(r, status)
    BY <1>3 DEF CheckOrigin, ValidateToken, OnIncomingRequest, OnIncomingStreamRequest, Handle
  <2> QED
    BY <1>0, <2>1 DEF PassOn, Reply
<1>4. ASSUME NEW a \in Addresses, WindowEnds(a) \/ LeavesSpan(a) PROVE FALSE
  BY <1>0, <1>4 DEF WindowEnds, LeavesSpan
<1> QED
  BY <1>1, <1>2, <1>3, <1>4 DEF Next

(* A client whose request tells its address is refused only once the rate  *)
(* was used up under that address (setUpRateLimiting).                     *)
THEOREM RefusedAtRateAlone == Spec => RefusedAtRateOnly
  BY RateHolds, RefusalStep, PTL DEF Spec, RefusedAtRateOnly, RefusedAtRate

-----------------------------------------------------------------------------
(* The handlers of a route, each guard before what it guards.              *)
Guards == {"cors", "limiter", "jwt"}

LEMMA GuardsType ==
  ASSUME NEW o \in Options, NEW route
  PROVE  /\ Engine(o) \in Seq(Guards) /\ Group(o) = Engine(o)
         /\ setUpRateLimiting(o) \in Seq(Guards) /\ setUpJWTValidation(o, route) \in Seq(Guards)
         /\ Group(o) \o setUpRateLimiting(o) \in Seq(Guards)
         /\ (Group(o) \o setUpRateLimiting(o)) \o setUpJWTValidation(o, route) \in Seq(Guards)
         /\ Group(o) \o setUpJWTValidation(o, route) \in Seq(Guards)
<1>0. \A S : << >> \in Seq(S) /\ \A x \in S : <<x>> \in Seq(S)
  OBVIOUS
<1>1. Group(o) = Engine(o)
  BY DEF Group
<1>a. "cors" \in Guards /\ "limiter" \in Guards /\ "jwt" \in Guards
  BY DEF Guards
<1>2. Engine(o) \in Seq(Guards)
  BY <1>0, <1>a DEF Engine, setUpCORS
<1>3. setUpRateLimiting(o) \in Seq(Guards)
  BY <1>0, <1>a DEF setUpRateLimiting
<1>4. setUpJWTValidation(o, route) \in Seq(Guards)
  BY <1>0, <1>a DEF setUpJWTValidation
<1>5. \A s, t \in Seq(Guards) : s \o t \in Seq(Guards)
  OBVIOUS
<1>6. Group(o) \o setUpRateLimiting(o) \in Seq(Guards)
  BY <1>1, <1>2, <1>3, <1>5
<1>7. (Group(o) \o setUpRateLimiting(o)) \o setUpJWTValidation(o, route) \in Seq(Guards)
  BY <1>4, <1>5, <1>6
<1>8. Group(o) \o setUpJWTValidation(o, route) \in Seq(Guards)
  BY <1>1, <1>2, <1>4, <1>5
<1> QED
  BY <1>1, <1>2, <1>3, <1>4, <1>6, <1>7, <1>8

LEMMA HandlerType ==
  ASSUME NEW route
  PROVE  CheckHandler(route) \in Seq(Steps) /\ <<"handler">> \in Seq(Steps)
         /\ <<"not found">> \in Seq(Steps)
<1>1. \A s, t, u \in Steps : <<s>> \in Seq(Steps) /\ <<s, t>> \in Seq(Steps)
                              /\ <<s, t, u>> \in Seq(Steps)
  OBVIOUS
<1>2. {"OnIncomingRequest", "OnIncomingStreamRequest", "handler", "not found"} \subseteq Steps
  BY DEF Steps
<1> QED
  BY <1>1, <1>2 DEF CheckHandler

(* If a guard is among those that come first, it is waited for.            *)
LEMMA WaitsForFirst ==
  ASSUME NEW guard, NEW s \in Seq(Guards), NEW t \in Seq(Steps),
         \E n \in DOMAIN s : s[n] = guard
  PROVE  WaitsFor(guard, s \o t)
<1>1. PICK k \in DOMAIN s : s[k] = guard
  OBVIOUS
<1> DEFINE c == s \o t
<1>2. /\ Len(c) = Len(s) + Len(t) /\ DOMAIN c = 1..Len(c) /\ DOMAIN s = 1..Len(s)
      /\ Len(s) \in Nat /\ Len(t) \in Nat
      /\ \A n \in DOMAIN s : c[n] = s[n] /\ s[n] \in Guards
  OBVIOUS
<1>3. Guards \cap Handlers = {}
  BY DEF Guards, Handlers
<1> SUFFICES ASSUME NEW n \in DOMAIN c, c[n] \in Handlers
             PROVE  \E before \in DOMAIN c : before < n /\ c[before] = guard
  BY DEF WaitsFor
<1>4. n \notin DOMAIN s
  BY <1>2, <1>3
<1> HIDE DEF c
<1>5. k \in DOMAIN c /\ k < n /\ c[k] = guard
  BY <1>1, <1>2, <1>4
<1> QED
  BY <1>5

LEMMA NothingToWaitFor ==
  ASSUME NEW guard, NEW s, \A n \in DOMAIN s : s[n] \notin Handlers
  PROVE  WaitsFor(guard, s)
  BY DEF WaitsFor

(* Passing on what is not the guard keeps the rest waiting for it.         *)
LEMMA WaitsForRest ==
  ASSUME NEW guard, NEW s \in Seq(Steps), s # << >>, Head(s) # guard, WaitsFor(guard, s)
  PROVE  WaitsFor(guard, Tail(s))
<1> SUFFICES ASSUME NEW n \in DOMAIN Tail(s), Tail(s)[n] \in Handlers
             PROVE  \E before \in DOMAIN Tail(s) : before < n /\ Tail(s)[before] = guard
  BY DEF WaitsFor
<1>1. /\ Len(s) \in Nat \ {0} /\ DOMAIN s = 1..Len(s) /\ DOMAIN Tail(s) = 1..(Len(s) - 1)
      /\ \A k \in DOMAIN Tail(s) : Tail(s)[k] = s[k + 1]
      /\ Head(s) = s[1]
  OBVIOUS
<1>2. n + 1 \in DOMAIN s /\ s[n + 1] \in Handlers
  BY <1>1
<1>3. PICK before \in DOMAIN s : before < n + 1 /\ s[before] = guard
  BY <1>2 DEF WaitsFor
<1>4. before # 1
  BY <1>1, <1>3
<1>5. before - 1 \in DOMAIN Tail(s) /\ before - 1 < n /\ Tail(s)[before - 1] = guard
  BY <1>1, <1>3, <1>4
<1> QED
  BY <1>5

(* A handler that waits is not the next one.                               *)
LEMMA NoHandlerYet ==
  ASSUME NEW guard, NEW s \in Seq(Steps), s # << >>, WaitsFor(guard, s)
  PROVE  Head(s) \notin Handlers
<1>1. 1 \in DOMAIN s /\ Head(s) = s[1] /\ DOMAIN s = 1..Len(s) /\ Len(s) \in Nat
  OBVIOUS
<1>2. \A before \in DOMAIN s : ~(before < 1)
  BY <1>1
<1> QED
  BY <1>1, <1>2 DEF WaitsFor

(* What comes first stays, and so does what comes last.                    *)
LEMMA Within ==
  ASSUME NEW guard, NEW s \in Seq(Guards), NEW t \in Seq(Guards),
         (\E n \in DOMAIN s : s[n] = guard) \/ (\E n \in DOMAIN t : t[n] = guard)
  PROVE  \E n \in DOMAIN (s \o t) : (s \o t)[n] = guard
<1>1. /\ Len(s \o t) = Len(s) + Len(t) /\ DOMAIN (s \o t) = 1..Len(s \o t)
      /\ DOMAIN s = 1..Len(s) /\ DOMAIN t = 1..Len(t)
      /\ Len(s) \in Nat /\ Len(t) \in Nat
      /\ \A n \in DOMAIN s : (s \o t)[n] = s[n]
      /\ \A n \in DOMAIN t : (s \o t)[Len(s) + n] = t[n]
  OBVIOUS
<1>2. CASE \E n \in DOMAIN s : s[n] = guard
  <2>1. PICK n \in DOMAIN s : s[n] = guard
    BY <1>2
  <2>2. n \in DOMAIN (s \o t) /\ (s \o t)[n] = guard
    BY <1>1, <2>1
  <2> QED
    BY <2>2
<1>3. CASE \E n \in DOMAIN t : t[n] = guard
  <2>1. PICK n \in DOMAIN t : t[n] = guard
    BY <1>3
  <2>2. Len(s) + n \in DOMAIN (s \o t) /\ (s \o t)[Len(s) + n] = guard
    BY <1>1, <2>1
  <2> QED
    BY <2>2
<1> QED
  BY <1>2, <1>3

(* With CORS it comes first, and with JWT validation the token's check     *)
(* comes before the handlers of the routes that need one.                  *)
LEMMA ChainWaits ==
  ASSUME NEW o \in Options, NEW route
  PROVE  /\ o.cors => WaitsFor("cors", setupRoutes(o, route))
         /\ o.jwt /\ route \notin OpenRoutes => WaitsFor("jwt", setupRoutes(o, route))
<1>1. /\ Engine(o) \in Seq(Guards) /\ Group(o) = Engine(o)
      /\ Group(o) \o setUpRateLimiting(o) \in Seq(Guards)
      /\ (Group(o) \o setUpRateLimiting(o)) \o setUpJWTValidation(o, route) \in Seq(Guards)
      /\ Group(o) \o setUpJWTValidation(o, route) \in Seq(Guards)
      /\ setUpRateLimiting(o) \in Seq(Guards) /\ setUpJWTValidation(o, route) \in Seq(Guards)
  BY GuardsType
<1>2. o.cors => \E n \in DOMAIN Engine(o) : Engine(o)[n] = "cors"
  <2>1. 1 \in DOMAIN <<"cors">> /\ <<"cors">>[1] = "cors"
    OBVIOUS
  <2> QED
    BY <2>1 DEF Engine, setUpCORS
<1>3. o.jwt /\ route \in CheckRoutes \cup StatsRoutes =>
        \E n \in DOMAIN setUpJWTValidation(o, route) :
          setUpJWTValidation(o, route)[n] = "jwt"
  <2>1. 1 \in DOMAIN <<"jwt">> /\ <<"jwt">>[1] = "jwt"
    OBVIOUS
  <2> QED
    BY <2>1 DEF setUpJWTValidation
<1>4. /\ CheckHandler(route) \in Seq(Steps) /\ <<"handler">> \in Seq(Steps)
      /\ <<"not found">> \in Seq(Steps)
  BY HandlerType
<1>5. CASE route \in CheckRoutes
  <2> DEFINE s == (Group(o) \o setUpRateLimiting(o)) \o setUpJWTValidation(o, route)
  <2>1. setupRoutes(o, route) = s \o CheckHandler(route)
    BY <1>5 DEF setupRoutes, CheckRoutes, StatsRoutes, OpenRoutes
  <2>2. o.cors => \E n \in DOMAIN (Group(o) \o setUpRateLimiting(o)) :
                    (Group(o) \o setUpRateLimiting(o))[n] = "cors"
    BY <1>1, <1>2, Within
  <2>3. o.cors => \E n \in DOMAIN s : s[n] = "cors"
    BY <1>1, <2>2, Within
  <2>4. o.jwt => \E n \in DOMAIN s : s[n] = "jwt"
    BY <1>1, <1>3, <1>5, Within
  <2>5. s \in Seq(Guards)
    BY <1>1
  <2> HIDE DEF s
  <2> QED
    BY <1>4, <2>1, <2>3, <2>4, <2>5, WaitsForFirst
<1>6. CASE route \notin CheckRoutes /\ route \in StatsRoutes
  <2> DEFINE s == Group(o) \o setUpJWTValidation(o, route)
  <2>1. setupRoutes(o, route) = s \o <<"handler">>
    BY <1>6 DEF setupRoutes, CheckRoutes, StatsRoutes, OpenRoutes
  <2>2. o.cors => \E n \in DOMAIN s : s[n] = "cors"
    BY <1>1, <1>2, Within
  <2>3. o.jwt => \E n \in DOMAIN s : s[n] = "jwt"
    <3>1. Group(o) \in Seq(Guards)
      BY <1>1
    <3>2. o.jwt => \E n \in DOMAIN setUpJWTValidation(o, route) :
                     setUpJWTValidation(o, route)[n] = "jwt"
      BY <1>3, <1>6
    <3> QED
      BY <1>1, <3>1, <3>2, Within
  <2>4. s \in Seq(Guards)
    BY <1>1
  <2> HIDE DEF s
  <2> QED
    BY <1>4, <2>1, <2>2, <2>3, <2>4, WaitsForFirst
<1>7. CASE route \notin CheckRoutes \cup StatsRoutes /\ route \in OpenRoutes
  <2>1. setupRoutes(o, route) = Engine(o) \o <<"handler">>
    BY <1>7 DEF setupRoutes
  <2> QED
    BY <1>1, <1>2, <1>4, <1>7, <2>1, WaitsForFirst
<1>8. CASE route \notin CheckRoutes \cup StatsRoutes \cup OpenRoutes
  <2> DEFINE c == Engine(o) \o <<"not found">>
  <2>1. setupRoutes(o, route) = c
    BY <1>8 DEF setupRoutes
  <2>2. c \in Seq(Guards \cup {"not found"})
    <3> DEFINE S == Guards \cup {"not found"}
    <3>1. \A T : << >> \in Seq(T) /\ \A x \in T : <<x>> \in Seq(T)
      OBVIOUS
    <3>2. "cors" \in S /\ "not found" \in S
      BY DEF Guards
    <3>3. Engine(o) \in Seq(S) /\ <<"not found">> \in Seq(S)
      BY <3>1, <3>2 DEF Engine, setUpCORS
    <3>4. \A T : \A s, t \in Seq(T) : s \o t \in Seq(T)
      OBVIOUS
    <3> QED
      BY <3>3, <3>4
  <2>3. (Guards \cup {"not found"}) \cap Handlers = {}
    BY DEF Guards, Handlers
  <2>4. \A n \in DOMAIN c : c[n] \in Guards \cup {"not found"}
    <3>1. \A T : \A s \in Seq(T) : \A n \in DOMAIN s : s[n] \in T
      OBVIOUS
    <3> QED
      BY <2>2, <3>1
  <2> HIDE DEF c
  <2> QED
    BY <2>1, <2>3, <2>4, NothingToWaitFor
<1> QED
  BY <1>5, <1>6, <1>7, <1>8

(* The open routes are not behind the limiter or the token's check.        *)
LEMMA ChainOpen ==
  ASSUME NEW o \in Options, NEW route \in OpenRoutes \cup {Preflight}
  PROVE  setupRoutes(o, route) \in Seq(Steps \ {"limiter", "jwt"})
<1>1. Engine(o) \in Seq(Steps \ {"limiter", "jwt"})
  <2>1. "cors" \in Steps \ {"limiter", "jwt"}
    BY DEF Steps
  <2>2. \A S : << >> \in Seq(S) /\ \A x \in S : <<x>> \in Seq(S)
    OBVIOUS
  <2> QED
    BY <2>1, <2>2 DEF Engine, setUpCORS
<1>2. <<"handler">> \in Seq(Steps \ {"limiter", "jwt"})
  BY DEF Steps
<1>3. <<"not found">> \in Seq(Steps \ {"limiter", "jwt"})
  BY DEF Steps
<1>4. setupRoutes(o, route) \in {Engine(o) \o <<"handler">>, Engine(o) \o <<"not found">>}
  BY DEF setupRoutes, OpenRoutes, CheckRoutes, StatsRoutes, Preflight
<1>5. \A T : \A s, t \in Seq(T) : s \o t \in Seq(T)
  OBVIOUS
<1> QED
  BY <1>1, <1>2, <1>3, <1>4, <1>5

(* A stream is counted as a request right before.                          *)
StreamsFollow(s) ==
  \A n \in DOMAIN s : n > 1 /\ s[n] = "OnIncomingStreamRequest" => s[n - 1] = "OnIncomingRequest"

LEMMA ChainStreams ==
  ASSUME NEW o \in Options, NEW route
  PROVE  /\ StreamsFollow(setupRoutes(o, route))
         /\ setupRoutes(o, route) # << >> /\ Head(setupRoutes(o, route)) # "OnIncomingStreamRequest"
<1>1. \A g \in Seq(Guards), h \in Seq(Steps) :
        StreamsFollow(h) /\ h # << >> /\ h[1] # "OnIncomingStreamRequest"
          => StreamsFollow(g \o h) /\ g \o h # << >> /\ Head(g \o h) # "OnIncomingStreamRequest"
  <2> SUFFICES ASSUME NEW g \in Seq(Guards), NEW h \in Seq(Steps), StreamsFollow(h), h # << >>,
                      h[1] # "OnIncomingStreamRequest"
               PROVE  StreamsFollow(g \o h) /\ g \o h # << >>
                      /\ Head(g \o h) # "OnIncomingStreamRequest"
    OBVIOUS
  <2> DEFINE c == g \o h
  <2>1. /\ Len(c) = Len(g) + Len(h) /\ DOMAIN c = 1..Len(c) /\ DOMAIN h = 1..Len(h)
        /\ Len(g) \in Nat /\ Len(h) \in Nat \ {0} /\ DOMAIN g = 1..Len(g)
        /\ \A n \in DOMAIN g : c[n] = g[n]
        /\ \A n \in DOMAIN c : n > Len(g) => c[n] = h[n - Len(g)]
        /\ c # << >> /\ Head(c) = c[1]
    OBVIOUS
  <2>2. \A n \in DOMAIN g : g[n] # "OnIncomingStreamRequest"
    <3>1. \A n \in DOMAIN g : g[n] \in Guards
      OBVIOUS
    <3> QED
      BY <3>1 DEF Guards
  <2> HIDE DEF c
  <2>3. ASSUME NEW n \in DOMAIN c, n > 1, c[n] = "OnIncomingStreamRequest"
        PROVE  c[n - 1] = "OnIncomingRequest"
    <3>1. n > Len(g)
      BY <2>1, <2>2, <2>3
    <3>2. n - Len(g) \in DOMAIN h /\ h[n - Len(g)] = "OnIncomingStreamRequest"
      BY <2>1, <2>3, <3>1
    <3>3. n - Len(g) > 1
      BY <2>1, <3>2
    <3>4. h[(n - Len(g)) - 1] = "OnIncomingRequest"
      BY <3>2, <3>3 DEF StreamsFollow
    <3>5. n - 1 \in DOMAIN c /\ n - 1 > Len(g) /\ (n - 1) - Len(g) = (n - Len(g)) - 1
      BY <2>1, <3>3
    <3> QED
      BY <2>1, <3>4, <3>5
  <2>4. c[1] # "OnIncomingStreamRequest"
    <3>1. CASE Len(g) = 0
      BY <2>1, <3>1
    <3>2. CASE Len(g) # 0
      BY <2>1, <2>2, <3>2
    <3> QED
      BY <3>1, <3>2
  <2> QED
    BY <2>1, <2>3, <2>4 DEF StreamsFollow, c
<1>2. \A h \in {<<"handler">>, <<"not found">>, CheckHandler(route)} :
        h \in Seq(Steps) /\ StreamsFollow(h) /\ h # << >> /\ h[1] # "OnIncomingStreamRequest"
  <2>1. \A x : /\ DOMAIN <<x>> = {1} /\ <<x>>[1] = x /\ <<x>> # << >>
    OBVIOUS
  <2>2. \A x, y : /\ DOMAIN <<x, y>> = {1, 2} /\ <<x, y>>[1] = x /\ <<x, y>>[2] = y
                  /\ <<x, y>> # << >>
    OBVIOUS
  <2>3. \A x, y, z : /\ DOMAIN <<x, y, z>> = {1, 2, 3} /\ <<x, y, z>>[1] = x
                     /\ <<x, y, z>>[2] = y /\ <<x, y, z>>[3] = z /\ <<x, y, z>> # << >>
    OBVIOUS
  <2>4. \A x \in {"handler", "not found"} :
          StreamsFollow(<<x>>) /\ <<x>> # << >> /\ <<x>>[1] # "OnIncomingStreamRequest"
    BY <2>1 DEF StreamsFollow
  <2>5. LET h == <<"OnIncomingRequest", "OnIncomingStreamRequest", "handler">> IN
        StreamsFollow(h) /\ h # << >> /\ h[1] # "OnIncomingStreamRequest"
    BY <2>3 DEF StreamsFollow
  <2>6. LET h == <<"OnIncomingRequest", "handler">> IN
        StreamsFollow(h) /\ h # << >> /\ h[1] # "OnIncomingStreamRequest"
    BY <2>2 DEF StreamsFollow
  <2> QED
    BY <2>4, <2>5, <2>6, HandlerType DEF CheckHandler
<1>3. PICK g \in Seq(Guards), h \in {<<"handler">>, <<"not found">>, CheckHandler(route)} :
        setupRoutes(o, route) = g \o h
  <2>1. /\ Engine(o) \in Seq(Guards)
        /\ (Group(o) \o setUpRateLimiting(o)) \o setUpJWTValidation(o, route) \in Seq(Guards)
        /\ Group(o) \o setUpJWTValidation(o, route) \in Seq(Guards)
    BY GuardsType
  <2>2. \/ setupRoutes(o, route) = ((Group(o) \o setUpRateLimiting(o))
                                     \o setUpJWTValidation(o, route)) \o CheckHandler(route)
        \/ setupRoutes(o, route) = (Group(o) \o setUpJWTValidation(o, route)) \o <<"handler">>
        \/ setupRoutes(o, route) = Engine(o) \o <<"handler">>
        \/ setupRoutes(o, route) = Engine(o) \o <<"not found">>
    BY DEF setupRoutes, CheckRoutes, StatsRoutes, OpenRoutes
  <2> QED
    BY <2>1, <2>2
<1> QED
  BY <1>1, <1>2, <1>3

-----------------------------------------------------------------------------
(* What GuardsAhead says of a request m with the handlers h before it and  *)
(* the answer a.                                                           *)
Guarded(o, m, h, a) ==
  IF m = None
  THEN h = << >> /\ a = None
  ELSE /\ o.cors /\ m.origin = "foreign" => a # "handled" /\ WaitsFor("cors", h)
       /\ o.jwt /\ m.route \notin OpenRoutes /\ ~m.token => a # "handled" /\ WaitsFor("jwt", h)
       /\ m.route \in OpenRoutes \cup {Preflight} =>
            a \notin {"401", "429"} /\ h \in Seq(Steps \ {"limiter", "jwt"})

LEMMA ArrivesGuarded ==
  ASSUME NEW o \in Options, NEW m \in Messages
  PROVE  Guarded(o, m, setupRoutes(o, m.route), None)
<1>1. None \notin Answers /\ m # None
  BY NoneAssumption
<1> QED
  BY <1>1, ChainWaits, ChainOpen DEF Guarded, Answers

(* A guard that passes a request on does so rightly.                       *)
LEMMA PassGuarded ==
  ASSUME NEW o, NEW m, NEW h \in Seq(Steps), NEW a, Guarded(o, m, h, a), h # << >>,
         Head(h) = "cors" => m.origin # "foreign", Head(h) = "jwt" => m.token
  PROVE  Guarded(o, m, Tail(h), a)
<1>1. m # None
  BY DEF Guarded
<1>2. o.cors /\ m.origin = "foreign" => a # "handled" /\ WaitsFor("cors", Tail(h))
  BY <1>1, WaitsForRest DEF Guarded
<1>3. o.jwt /\ m.route \notin OpenRoutes /\ ~m.token
        => a # "handled" /\ WaitsFor("jwt", Tail(h))
  BY <1>1, WaitsForRest DEF Guarded
<1>4. \A T : \A s \in Seq(T) : s # << >> => Tail(s) \in Seq(T)
  OBVIOUS
<1>5. m.route \in OpenRoutes \cup {Preflight} =>
        a \notin {"401", "429"} /\ Tail(h) \in Seq(Steps \ {"limiter", "jwt"})
  BY <1>1, <1>4 DEF Guarded
<1> QED
  BY <1>1, <1>2, <1>3, <1>5 DEF Guarded

(* A handler answers who has passed the guards, and a guard only those     *)
(* that it is there for.                                                   *)
LEMMA ReplyGuarded ==
  ASSUME NEW o, NEW m, NEW h \in Seq(Steps), NEW a, Guarded(o, m, h, a), h # << >>,
         NEW status,
         status = "handled" => Head(h) \in Handlers,
         status = "401" => Head(h) = "jwt", status = "429" => Head(h) = "limiter"
  PROVE  Guarded(o, m, << >>, status)
<1>1. m # None
  BY DEF Guarded
<1>2. \A guard : WaitsFor(guard, << >>)
  BY DEF WaitsFor
<1>3. \A guard : WaitsFor(guard, h) => status # "handled"
  BY NoHandlerYet
<1>4. \A T : << >> \in Seq(T) /\ \A s \in Seq(T) : s # << >> => Head(s) \in T
  OBVIOUS
<1>5. h \in Seq(Steps \ {"limiter", "jwt"}) => status \notin {"401", "429"}
  <2> SUFFICES ASSUME h \in Seq(Steps \ {"limiter", "jwt"}) PROVE status \notin {"401", "429"}
    OBVIOUS
  <2>1. Head(h) \in Steps \ {"limiter", "jwt"}
    BY <1>4
  <2> QED
    BY <2>1
<1> QED
  BY <1>1, <1>2, <1>3, <1>4, <1>5 DEF Guarded

(* A step of a request that is under way.                                  *)
Proceeds(r) ==
  \/ CheckOrigin(r) \/ Limit(r) \/ ValidateToken(r) \/ OnIncomingRequest(r)
  \/ OnIncomingStreamRequest(r) \/ Handle(r)

LEMMA ProceedsGuarded ==
  ASSUME RateInv, NEW r \in Requests, Proceeds(r)
  PROVE  /\ todo[r] # << >> /\ UNCHANGED <<options, message>>
         /\ \/ /\ PassOn(r)
               /\ Head(todo[r]) = "cors" => message[r].origin # "foreign"
               /\ Head(todo[r]) = "jwt" => message[r].token
            \/ \E status \in Answers :
               /\ Reply(r, status)
               /\ status = "handled" => Head(todo[r]) \in Handlers
               /\ status = "401" => Head(todo[r]) = "jwt"
               /\ status = "429" => Head(todo[r]) = "limiter"
<1>1. {"handled", "204", "401", "403", "404", "429"} = Answers
  BY DEF Answers
<1>2. CASE CheckOrigin(r)
  BY <1>1, <1>2 DEF CheckOrigin, Reached
<1>3. CASE Limit(r)
  BY <1>1, <1>3 DEF Limit, Reached
<1>4. CASE ValidateToken(r)
  BY <1>1, <1>4 DEF ValidateToken, Reached
<1>5. CASE OnIncomingRequest(r) \/ OnIncomingStreamRequest(r)
  BY <1>5 DEF OnIncomingRequest, OnIncomingStreamRequest, Reached
<1>6. CASE Handle(r)
  BY <1>1, <1>6 DEF Handle, Reached, Handlers
<1> QED
  BY <1>2, <1>3, <1>4, <1>5, <1>6 DEF Proceeds

LEMMA GuardsStep == RateInv /\ GuardsAhead /\ [Next]_vars => GuardsAhead'
<1> SUFFICES ASSUME RateInv, GuardsAhead, [Next]_vars PROVE GuardsAhead'
  OBVIOUS
<1>1. \A r \in Requests : Guarded(options, message[r], todo[r], answer[r])
  BY DEF GuardsAhead, Guarded
<1>2. /\ options \in Options /\ todo \in [Requests -> Seq(Steps)]
      /\ answer \in [Requests -> Answers \cup {None}]
      /\ message \in [Requests -> Messages \cup {None}]
  BY ServerAssumption DEF RateInv, TypeOK
<1>3. SUFFICES \A r \in Requests : Guarded(options', message'[r], todo'[r], answer'[r])
  BY DEF GuardsAhead, Guarded
<1>4. ASSUME NEW r \in Requests, Arrive(r)
      PROVE  \A x \in Requests : Guarded(options', message'[x], todo'[x], answer'[x])
  <2>1. PICK m \in Messages :
          /\ message' = [message EXCEPT ![r] = m]
          /\ todo' = [todo EXCEPT ![r] = setupRoutes(options, m.route)]
          /\ answer' = [answer EXCEPT ![r] = None]
          /\ options' = options
    BY <1>4, ServerAssumption DEF Arrive, RateInv, TypeOK
  <2>2. /\ message'[r] = m /\ todo'[r] = setupRoutes(options, m.route) /\ answer'[r] = None
        /\ \A x \in Requests \ {r} :
             message'[x] = message[x] /\ todo'[x] = todo[x] /\ answer'[x] = answer[x]
    BY <1>2, <2>1
  <2>3. Guarded(options, m, setupRoutes(options, m.route), None)
    BY <1>2, ArrivesGuarded
  <2> QED
    BY <1>1, <2>1, <2>2, <2>3
<1>5. ASSUME NEW r \in Requests, Proceeds(r)
      PROVE  \A x \in Requests : Guarded(options', message'[x], todo'[x], answer'[x])
  <2>1. /\ todo[r] # << >> /\ options' = options /\ message' = message
        /\ \/ /\ PassOn(r)
              /\ Head(todo[r]) = "cors" => message[r].origin # "foreign"
              /\ Head(todo[r]) = "jwt" => message[r].token
           \/ \E status \in Answers :
              /\ Reply(r, status)
              /\ status = "handled" => Head(todo[r]) \in Handlers
              /\ status = "401" => Head(todo[r]) = "jwt"
              /\ status = "429" => Head(todo[r]) = "limiter"
    BY <1>5, ProceedsGuarded
  <2>2. \A x \in Requests \ {r} : todo'[x] = todo[x] /\ answer'[x] = answer[x]
    BY <1>2, <2>1 DEF PassOn, Reply
  <2>3. Guarded(options, message[r], todo[r], answer[r]) /\ todo[r] \in Seq(Steps)
    BY <1>1, <1>2
  <2>4. CASE /\ PassOn(r)
             /\ Head(todo[r]) = "cors" => message[r].origin # "foreign"
             /\ Head(todo[r]) = "jwt" => message[r].token
    <3>1. todo'[r] = Tail(todo[r]) /\ answer'[r] = answer[r]
      BY <1>2, <2>4 DEF PassOn
    <3>2. Guarded(options, message[r], Tail(todo[r]), answer[r])
      BY <2>1, <2>3, <2>4, PassGuarded
    <3> QED
      BY <1>1, <2>1, <2>2, <3>1, <3>2
  <2>5. ASSUME NEW status \in Answers, Reply(r, status),
               status = "handled" => Head(todo[r]) \in Handlers,
               status = "401" => Head(todo[r]) = "jwt", status = "429" => Head(todo[r]) = "limiter"
        PROVE  \A x \in Requests : Guarded(options', message'[x], todo'[x], answer'[x])
    <3>1. todo'[r] = << >> /\ answer'[r] = status
      BY <1>2, <2>5 DEF Reply
    <3>2. Guarded(options, message[r], << >>, status)
      BY <2>1, <2>3, <2>5, ReplyGuarded
    <3> QED
      BY <1>1, <2>1, <2>2, <3>1, <3>2
  <2> QED
    BY <2>1, <2>4, <2>5
<1>6. (UNCHANGED vars) \/ (\E a \in Addresses : WindowEnds(a) \/ LeavesSpan(a))
        => UNCHANGED <<options, message, todo, answer>>
  BY DEF vars, WindowEnds, LeavesSpan
<1> QED
  BY <1>1, <1>4, <1>5, <1>6 DEF Next, Proceeds

-----------------------------------------------------------------------------
(* The order of the two counts of a stream.                                *)
LEMMA StreamsFollowRest ==
  ASSUME NEW s \in Seq(Steps), s # << >>, StreamsFollow(s)
  PROVE  /\ StreamsFollow(Tail(s))
         /\ Tail(s) # << >> /\ Head(Tail(s)) = "OnIncomingStreamRequest"
              => Head(s) = "OnIncomingRequest"
<1>1. /\ Len(s) \in Nat \ {0} /\ DOMAIN s = 1..Len(s) /\ DOMAIN Tail(s) = 1..(Len(s) - 1)
      /\ \A k \in DOMAIN Tail(s) : Tail(s)[k] = s[k + 1]
      /\ Head(s) = s[1]
  OBVIOUS
<1>2. ASSUME NEW n \in DOMAIN Tail(s), n > 1, Tail(s)[n] = "OnIncomingStreamRequest"
      PROVE  Tail(s)[n - 1] = "OnIncomingRequest"
  <2>1. n + 1 \in DOMAIN s /\ n + 1 > 1 /\ s[n + 1] = "OnIncomingStreamRequest"
    BY <1>1, <1>2
  <2>2. s[(n + 1) - 1] = "OnIncomingRequest"
    BY <2>1 DEF StreamsFollow
  <2>3. n - 1 \in DOMAIN Tail(s) /\ (n - 1) + 1 = (n + 1) - 1
    BY <1>1, <1>2
  <2> QED
    BY <1>1, <2>2, <2>3
<1>3. ASSUME Tail(s) # << >>, Head(Tail(s)) = "OnIncomingStreamRequest"
      PROVE  Head(s) = "OnIncomingRequest"
  <2>1. 1 \in DOMAIN Tail(s) /\ Head(Tail(s)) = Tail(s)[1]
    BY <1>3
  <2>2. 2 \in DOMAIN s /\ s[2] = "OnIncomingStreamRequest"
    BY <1>1, <1>3, <2>1
  <2>3. s[2 - 1] = "OnIncomingRequest"
    BY <2>2 DEF StreamsFollow
  <2> QED
    BY <1>1, <2>3
<1> QED
  BY <1>2, <1>3 DEF StreamsFollow

(* A handler before the first count leaves both counts and those who are   *)
(* between them alone, or takes one away.                                  *)
LEMMA CountedBetween ==
  ASSUME RateInv
  PROVE  /\ IsFiniteSet(ToBeCounted) /\ Cardinality(ToBeCounted) \in Nat
         /\ \A r \in Requests :
              /\ IsFiniteSet(ToBeCounted \cup {r})
              /\ Cardinality(ToBeCounted \cup {r}) <= Cardinality(ToBeCounted) + 1
              /\ r \in ToBeCounted =>
                   Cardinality(ToBeCounted \ {r}) = Cardinality(ToBeCounted) - 1
<1>1. ToBeCounted \subseteq Requests /\ IsFiniteSet(Requests)
  BY ServerAssumption DEF ToBeCounted
<1>2. IsFiniteSet(ToBeCounted)
  BY <1>1, FS_Subset
<1>3. Cardinality(ToBeCounted) \in Nat
  BY <1>2, FS_CardinalityType
<1> SUFFICES ASSUME NEW r \in Requests
             PROVE  /\ IsFiniteSet(ToBeCounted \cup {r})
                    /\ Cardinality(ToBeCounted \cup {r}) <= Cardinality(ToBeCounted) + 1
                    /\ r \in ToBeCounted =>
                         Cardinality(ToBeCounted \ {r}) = Cardinality(ToBeCounted) - 1
  BY <1>2, <1>3
<1>4. /\ IsFiniteSet(ToBeCounted \cup {r})
      /\ Cardinality(ToBeCounted \cup {r}) =
           IF r \in ToBeCounted THEN Cardinality(ToBeCounted) ELSE Cardinality(ToBeCounted) + 1
  BY <1>2, FS_AddElement
<1>5. Cardinality(ToBeCounted \ {r}) =
        IF r \in ToBeCounted THEN Cardinality(ToBeCounted) - 1 ELSE Cardinality(ToBeCounted)
  BY <1>2, FS_RemoveElement
<1> QED
  BY <1>3, <1>4, <1>5

LEMMA StreamsStep == RateInv /\ StreamsInStep /\ [Next]_vars => StreamsInStep'
<1> SUFFICES ASSUME RateInv, StreamsInStep, [Next]_vars PROVE StreamsInStep'
  OBVIOUS
<1>0. /\ options \in Options /\ todo \in [Requests -> Seq(Steps)]
      /\ incomingRequests \in Nat /\ incomingStreamRequests \in Nat
  BY ServerAssumption DEF RateInv, TypeOK
<1>1. /\ \A r \in Requests : StreamsFollow(todo[r])
      /\ incomingStreamRequests + Cardinality(ToBeCounted) <= incomingRequests
  BY DEF StreamsInStep, StreamsFollow
<1>2. SUFFICES /\ \A r \in Requests : StreamsFollow(todo'[r])
               /\ incomingStreamRequests' + Cardinality(ToBeCounted') <= incomingRequests'
  BY DEF StreamsInStep, StreamsFollow
<1>3. ASSUME ToBeCounted' \subseteq ToBeCounted, UNCHANGED statVars
      PROVE  incomingStreamRequests' + Cardinality(ToBeCounted') <= incomingRequests'
  <2>1. IsFiniteSet(ToBeCounted) /\ Cardinality(ToBeCounted) \in Nat
    BY CountedBetween
  <2>2. Cardinality(ToBeCounted') <= Cardinality(ToBeCounted) /\ Cardinality(ToBeCounted') \in Nat
    BY <1>3, <2>1, FS_Subset, FS_CardinalityType
  <2> QED
    BY <1>0, <1>1, <1>3, <2>1, <2>2 DEF statVars
<1>4. CASE \E r \in Requests : Arrive(r)
  <2>1. PICK r \in Requests : Arrive(r)
    BY <1>4
  <2>2. PICK m \in Messages :
          todo' = [todo EXCEPT ![r] = setupRoutes(options, m.route)] /\ UNCHANGED statVars
    BY <2>1, ServerAssumption DEF Arrive, RateInv, TypeOK
  <2>3. StreamsFollow(todo'[r]) /\ Head(todo'[r]) # "OnIncomingStreamRequest"
    BY <1>0, <2>2, ChainStreams
  <2>4. \A x \in Requests \ {r} : todo'[x] = todo[x]
    BY <1>0, <2>2
  <2>5. ToBeCounted' \subseteq ToBeCounted
    BY <2>3, <2>4 DEF ToBeCounted, Reached
  <2> QED
    BY <1>1, <1>3, <2>2, <2>3, <2>4, <2>5
<1>5. CASE \E r \in Requests : Proceeds(r)
  <2>1. PICK r \in Requests : Proceeds(r)
    BY <1>5
  <2>2. todo[r] # << >> /\ (PassOn(r) \/ \E status \in Answers : Reply(r, status))
    BY <2>1, ProceedsGuarded
  <2>3. todo'[r] \in {Tail(todo[r]), << >>} /\ \A x \in Requests \ {r} : todo'[x] = todo[x]
    BY <1>0, <2>2 DEF PassOn, Reply
  <2>4. /\ StreamsFollow(Tail(todo[r])) /\ StreamsFollow(<< >>)
        /\ todo'[r] # << >> /\ Head(todo'[r]) = "OnIncomingStreamRequest"
             => Head(todo[r]) = "OnIncomingRequest"
    <3>1. todo[r] \in Seq(Steps) /\ StreamsFollow(todo[r])
      BY <1>0, <1>1
    <3>2. StreamsFollow(<< >>)
      BY DEF StreamsFollow
    <3> QED
      BY <2>2, <2>3, <3>1, <3>2, StreamsFollowRest
  <2>5. \A x \in Requests : StreamsFollow(todo'[x])
    BY <1>1, <2>3, <2>4
  <2>6. ToBeCounted' \subseteq ToBeCounted \cup {r}
    BY <2>3 DEF ToBeCounted, Reached
  <2>7. Head(todo[r]) # "OnIncomingRequest" => ToBeCounted' \subseteq ToBeCounted \ {r}
    BY <2>3, <2>4 DEF ToBeCounted, Reached
  <2>8. CASE OnIncomingRequest(r)
    <3>1. incomingRequests' = incomingRequests + 1
          /\ incomingStreamRequests' = incomingStreamRequests
      BY <2>8 DEF OnIncomingRequest
    <3>2. /\ IsFiniteSet(ToBeCounted \cup {r}) /\ Cardinality(ToBeCounted) \in Nat
          /\ Cardinality(ToBeCounted \cup {r}) <= Cardinality(ToBeCounted) + 1
      BY CountedBetween
    <3>3. /\ Cardinality(ToBeCounted') <= Cardinality(ToBeCounted \cup {r})
          /\ Cardinality(ToBeCounted') \in Nat /\ Cardinality(ToBeCounted \cup {r}) \in Nat
      BY <2>6, <3>2, FS_Subset, FS_CardinalityType
    <3>4. incomingStreamRequests' + Cardinality(ToBeCounted') <= incomingRequests'
      BY <1>0, <1>1, <3>1, <3>2, <3>3
    <3> QED
      BY <2>5, <3>4
  <2>9. CASE OnIncomingStreamRequest(r)
    <3>1. /\ incomingRequests' = incomingRequests
          /\ incomingStreamRequests' = incomingStreamRequests + 1
          /\ Head(todo[r]) = "OnIncomingStreamRequest" /\ r \in ToBeCounted
      BY <2>9 DEF OnIncomingStreamRequest, Reached, ToBeCounted
    <3>2. /\ IsFiniteSet(ToBeCounted) /\ Cardinality(ToBeCounted) \in Nat
          /\ Cardinality(ToBeCounted \ {r}) = Cardinality(ToBeCounted) - 1
      BY <3>1, CountedBetween
    <3>3. IsFiniteSet(ToBeCounted \ {r})
      BY <3>2, FS_Subset
    <3>4. /\ Cardinality(ToBeCounted') <= Cardinality(ToBeCounted \ {r})
          /\ Cardinality(ToBeCounted') \in Nat
      BY <2>7, <3>1, <3>3, FS_Subset, FS_CardinalityType
    <3>5. incomingStreamRequests' + Cardinality(ToBeCounted') <= incomingRequests'
      BY <1>0, <1>1, <3>1, <3>2, <3>4
    <3> QED
      BY <2>5, <3>5
  <2>10. CASE CheckOrigin(r) \/ Limit(r) \/ ValidateToken(r) \/ Handle(r)
    <3>1. UNCHANGED statVars /\ Head(todo[r]) # "OnIncomingRequest"
      BY <2>10 DEF CheckOrigin, Limit, ValidateToken, Handle, Reached
    <3>2. ToBeCounted' \subseteq ToBeCounted
      BY <2>7, <3>1
    <3> QED
      BY <1>3, <2>5, <3>1, <3>2
  <2> QED
    BY <2>1, <2>8, <2>9, <2>10 DEF Proceeds
<1>6. CASE (UNCHANGED vars) \/ (\E a \in Addresses : WindowEnds(a) \/ LeavesSpan(a))
  <2>1. UNCHANGED todo /\ UNCHANGED statVars
    BY <1>6 DEF vars, WindowEnds, LeavesSpan
  <2>2. ToBeCounted' = ToBeCounted
    BY <2>1 DEF ToBeCounted, Reached
  <2> QED
    BY <1>1, <1>3, <2>1, <2>2
<1> QED
  BY <1>4, <1>5, <1>6 DEF Next, Proceeds

-----------------------------------------------------------------------------
LEMMA InitGuards == Init => GuardsAhead /\ StreamsInStep
<1> SUFFICES ASSUME Init PROVE GuardsAhead /\ StreamsInStep
  OBVIOUS
<1>1. GuardsAhead
  BY DEF Init, GuardsAhead
<1>2. ToBeCounted = {}
  BY DEF Init, ToBeCounted, Reached
<1>3. Cardinality(ToBeCounted) = 0
  BY <1>2, FS_EmptySet
<1>4. \A r \in Requests : DOMAIN todo[r] = {}
  BY DEF Init
<1> QED
  BY <1>1, <1>3, <1>4 DEF Init, StreamsInStep

(* The limiter's count, the guards ahead of the handlers, and the order of *)
(* the counts.                                                             *)
THEOREM InductiveInvariant == Spec => []IndInv
<1>1. Init => IndInv
  BY InitRateInv, InitGuards DEF IndInv
<1>2. IndInv /\ [Next]_vars => IndInv'
  <2> SUFFICES ASSUME IndInv, [Next]_vars PROVE IndInv'
    OBVIOUS
  <2>1. RateInv' /\ GuardsAhead' /\ StreamsInStep'
    BY NextRateInv, GuardsStep, StreamsStep DEF IndInv
  <2> QED
    BY <2>1 DEF IndInv
<1> QED
  BY <1>1, <1>2, PTL DEF Spec

(* No handler runs for whom CORS or the token's check is to stop           *)
(* (setUpCORS, setUpJWTValidation).                                        *)
THEOREM Guarding == Spec => []GuardedAsConfigured
<1>1. IndInv => GuardedAsConfigured
  <2> SUFFICES ASSUME IndInv, NEW r \in Requests, Begun(r)
               PROVE  /\ options.cors => message[r].origin # "foreign"
                      /\ options.jwt /\ message[r].route \notin OpenRoutes => message[r].token
    BY DEF GuardedAsConfigured
  <2>1. Guarded(options, message[r], todo[r], answer[r]) /\ todo[r] \in Seq(Steps)
    BY DEF IndInv, RateInv, TypeOK, GuardsAhead, Guarded
  <2>2. None # "handled"
    BY NoneAssumption DEF Answers
  <2>3. answer[r] = "handled" \/ (todo[r] # << >> /\ Head(todo[r]) \in Handlers)
    BY DEF Begun, Reached
  <2>4. \A guard : WaitsFor(guard, todo[r]) /\ todo[r] # << >> => Head(todo[r]) \notin Handlers
    BY <2>1, NoHandlerYet
  <2> QED
    BY <2>1, <2>2, <2>3, <2>4 DEF Guarded
<1> QED
  BY <1>1, InductiveInvariant, PTL

(* Health checks, the version and preflights are refused for no token and  *)
(* no rate (setupRoutes).                                                  *)
THEOREM OpenRoutesStayOpen == Spec => []OpenRoutesAnswer
<1>1. IndInv => OpenRoutesAnswer
  BY DEF IndInv, GuardsAhead, OpenRoutesAnswer
<1> QED
  BY <1>1, InductiveInvariant, PTL

(* No reader of the statistics sees more streams than requests             *)
(* (checkURLsStream).                                                      *)
THEOREM StreamsCounted == Spec => []StreamsAmongRequests
<1>1. IndInv => StreamsAmongRequests
  <2> SUFFICES ASSUME IndInv PROVE incomingStreamRequests <= incomingRequests
    BY DEF StreamsAmongRequests
  <2>1. Cardinality(ToBeCounted) \in Nat
    BY CountedBetween DEF IndInv
  <2>2. incomingRequests \in Nat /\ incomingStreamRequests \in Nat
        /\ incomingStreamRequests + Cardinality(ToBeCounted) <= incomingRequests
    BY DEF IndInv, RateInv, TypeOK, StreamsInStep
  <2> QED
    BY <2>1, <2>2
<1> QED
  BY <1>1, InductiveInvariant, PTL
=============================================================================
