------------------------- MODULE URLListCheckProofs -------------------------
(***************************************************************************)
(* Proofs about URLListCheck, for lists of any length over any set of URLs *)
(* and any normalisation: the inductive invariant IndInv, and from it the  *)
(* safety properties that the runs check on small lists.                   *)
(***************************************************************************)
EXTENDS URLListCheck, SumsProofs

(* What a list of the request is: its length, its positions, its URLs.     *)
LEMMA RequestShape ==
  ASSUME request \in Requests, MaxSize \in Nat
  PROVE  /\ Len(request) \in 0..MaxSize
         /\ DOMAIN request = 1..Len(request)
         /\ \A i \in 1..Len(request) : request[i] \in URLs /\ Key(i) \in Keys
<1>1. PICK n \in 0..MaxSize : request \in [1..n -> URLs]
  BY DEF Requests
<1>2. Len(request) = n /\ DOMAIN request = 1..n
  BY <1>1
<1> QED
  BY <1>1, <1>2 DEF Key, Keys

(* The workers are finitely many.                                          *)
LEMMA RunningFinite ==
  ASSUME scanned \in Nat, toCheck \subseteq 1..scanned
  PROVE  IsFiniteSet(toCheck) /\ IsFiniteSet(Running)
<1>1. IsFiniteSet(1..scanned)
  BY FS_Interval
<1>2. IsFiniteSet(toCheck)
  BY <1>1, FS_Subset
<1> QED
  BY <1>2, FS_Subset DEF Running

(* One answer is an answer.                                                *)
LEMMA OneAnswer ==
  \A x : Append(<< >>, x) = <<x>> /\ <<x>> # << >> /\ Len(<<x>>) = 1
         /\ DOMAIN <<x>> = {1} /\ <<x>>[1] = x
  OBVIOUS

(* The initial states.                                                     *)
LEMMA InitIndInv == Init => IndInv
<1> SUFFICES ASSUME Init PROVE IndInv
  OBVIOUS
<1> USE ListAssumption DEF Endings
<1>1. TypeOK
  <2>1. answers \in [{0} \cup Positions -> Seq(Outcomes \cup {None})]
    BY DEF Init
  <2>2. MaxSize \in Nat /\ 0 \in 0..MaxSize
    BY ListAssumption
  <2> QED
    BY <2>1, <2>2 DEF Init, TypeOK
<1>2. Deduplicated
  BY RequestShape DEF Init, Deduplicated, Served
<1>3. WorkersInOrder
  BY DEF Init, WorkersInOrder, Served
<1>4. WaiterLast
  BY DEF Init, WaiterLast, Served
<1>5. AnswersInOrder
  BY DEF Init, AnswersInOrder, Duplicates
<1> QED
  BY <1>1, <1>2, <1>3, <1>4, <1>5 DEF IndInv

-----------------------------------------------------------------------------
(* One lemma per step: the step preserves the invariant.                   *)

(* The request is answered with an error, or taken on.                     *)
LEMMA ParseIndInv == IndInv /\ (Reject \/ Accept) => IndInv'
<1> SUFFICES ASSUME IndInv, Reject \/ Accept PROVE IndInv'
  OBVIOUS
<1> USE DEF IndInv, Leaving, Endings, dedupVars, workerVars, inputVars, envVars
<1>1. UNCHANGED <<answers, toAdd, dedupVars, workerVars, inputVars, envVars, waiter>>
  BY DEF Reject, Accept
<1>2. handler = "parsing" /\ scanned = 0 /\ ~Served /\ ~Served'
  BY DEF Reject, Accept, Served, Deduplicated, WaiterLast, TypeOK
<1>3. TypeOK'
  BY <1>1 DEF Reject, Accept, TypeOK
<1>4. Deduplicated'
  BY <1>1, <1>2 DEF Deduplicated, Key
<1>5. WorkersInOrder'
  BY <1>1, <1>2 DEF WorkersInOrder, Key, Stored, Finished
<1>6. WaiterLast'
  BY <1>1, <1>2 DEF WaiterLast, Running, Reject, Accept
<1>7. AnswersInOrder'
  BY <1>1, <1>2 DEF AnswersInOrder, Deduplicated, Duplicates, Reject, Accept, TypeOK
<1> QED
  BY <1>3, <1>4, <1>5, <1>6, <1>7

(* The deduplicator looks at one more URL.                                 *)
LEMMA DeduplicateIndInv == IndInv /\ Deduplicate => IndInv'
<1> SUFFICES ASSUME IndInv, Deduplicate PROVE IndInv'
  OBVIOUS
<1> USE DEF IndInv, Leaving, Endings
<1> DEFINE i == scanned + 1
<1>1. UNCHANGED <<workerVars, handlerVars, inputVars, envVars, waiter>>
  BY DEF Deduplicate
<1>2. /\ handler = "deduplicating" /\ result = "open" /\ ~Served /\ ~Served'
      /\ scanned \in Nat /\ scanned < Len(request) /\ scanned' = i
  BY <1>1 DEF Deduplicate, Served, WaiterLast, TypeOK, handlerVars
<1>3. /\ Len(request) \in 0..MaxSize /\ i \in 1..Len(request) /\ i \in Positions
      /\ Key(i) \in Keys /\ MaxSize \in Nat
  BY <1>2, RequestShape, ListAssumption DEF TypeOK, Positions
<1>4. toCheck' \in {toCheck, toCheck \cup {i}} /\ i \notin toCheck
  BY <1>2 DEF Deduplicate, Deduplicated
<1>5. TypeOK'
  <2>1. scanned' \in 0..MaxSize /\ toCheck' \subseteq Positions
    BY <1>2, <1>3, <1>4 DEF TypeOK, Positions
  <2> QED
    BY <1>1, <2>1 DEF TypeOK, workerVars, handlerVars, inputVars, envVars
<1>6. Deduplicated'
  <2>1. \A j \in 1..Len(request) : Key(j)' = Key(j)
    BY <1>1 DEF Key, inputVars
  <2>2. CASE Seen(i)
    <3>1. toCheck' = toCheck /\ \E j \in toCheck : Key(j) = Key(i)
      BY <2>2 DEF Deduplicate, Seen
    <3> QED
      BY <1>1, <1>2, <1>3, <2>1, <3>1 DEF Deduplicated, inputVars, handlerVars
  <2>3. CASE ~Seen(i)
    <3>1. toCheck' = toCheck \cup {i} /\ \A j \in toCheck : Key(j) # Key(i)
      BY <2>3 DEF Deduplicate, Seen
    <3> QED
      BY <1>1, <1>2, <1>3, <2>1, <3>1 DEF Deduplicated, inputVars, handlerVars
  <2> QED
    BY <2>2, <2>3
<1>7. WorkersInOrder'
  BY <1>1, <1>2, <1>3, <1>4
     DEF WorkersInOrder, Key, Stored, Finished, workerVars, inputVars, Deduplicated, TypeOK
<1>8. WaiterLast'
  BY <1>1, <1>2 DEF WaiterLast, handlerVars
<1>9. AnswersInOrder'
  <2>1. \A j \in toCheck : worker[j] = "none" /\ answers[j] = << >>
    BY <1>2 DEF WorkersInOrder, AnswersInOrder, Finished, TypeOK
  <2>2. \A j \in Duplicates : answers[j] = << >>
    BY <1>2, <2>1 DEF AnswersInOrder, Deduplicated, Duplicates
  <2>3. \A j \in DOMAIN answers : answers[j] = << >>
    BY <2>1, <2>2 DEF AnswersInOrder, Duplicates
  <2>4. /\ answers' = answers /\ worker' = worker /\ result' = "open"
        /\ toAdd' = {} /\ handler' = "deduplicating"
    BY <1>1, <1>2 DEF handlerVars, workerVars, AnswersInOrder
  <2>5. worker[i] = "none"
    BY <1>2, <1>3 DEF WorkersInOrder
  <2> QED
    BY <1>2, <1>3, <1>4, <2>1, <2>3, <2>4, <2>5 DEF AnswersInOrder, Finished,
         Deduplicated, Duplicates, TypeOK, Positions
<1> QED
  BY <1>5, <1>6, <1>7, <1>8, <1>9

(* The list's positions, as the invariant knows them.                      *)
LEMMA Shape ==
  ASSUME TypeOK, Deduplicated
  PROVE  /\ MaxSize \in Nat /\ scanned \in Nat /\ Len(request) \in 0..MaxSize
         /\ 1..scanned \subseteq Positions /\ toCheck \subseteq 1..scanned
         /\ DOMAIN request = 1..Len(request) /\ 1..scanned \subseteq DOMAIN request
         /\ \A i \in 1..scanned : i \in DOMAIN answers /\ Key(i) \in Keys
         /\ IsFiniteSet(Running)
<1>1. MaxSize \in Nat /\ scanned \in Nat
  BY ListAssumption DEF TypeOK
<1>2. Len(request) \in 0..MaxSize /\ DOMAIN request = 1..Len(request)
      /\ \A i \in 1..Len(request) : Key(i) \in Keys
  BY <1>1, RequestShape DEF TypeOK
<1>3. IsFiniteSet(Running)
  BY <1>1, RunningFinite DEF Deduplicated
<1>4. scanned <= Len(request) /\ toCheck \subseteq 1..scanned
  BY DEF Deduplicated
<1>5. 1..scanned \subseteq 1..Len(request) /\ 1..scanned \subseteq Positions
  BY <1>1, <1>2, <1>4 DEF Positions
<1>6. DOMAIN answers = {0} \cup Positions
  BY DEF TypeOK
<1> QED
  BY <1>1, <1>2, <1>3, <1>4, <1>5, <1>6

(* The workers and the waiter start.                                       *)
LEMMA SetUpIndInv == IndInv /\ SetUp => IndInv'
<1> SUFFICES ASSUME IndInv, SetUp PROVE IndInv'
  OBVIOUS
<1> USE DEF IndInv, Leaving, Endings
<1>1. /\ UNCHANGED <<result, answers, toAdd, response, responseCache, scanned, toCheck,
                     request, route, clientGone, deadlineFired>>
      /\ handler = "deduplicating" /\ handler' = "serving" /\ scanned = Len(request)
      /\ worker' = [i \in Positions |-> IF i \in toCheck THEN "checking" ELSE "none"]
      /\ waiter' = "waiting" /\ wg' = Cardinality(toCheck)
  BY DEF SetUp, dedupVars, inputVars, envVars, WorkersAdded
<1>2. ~Served /\ Served' /\ result = "open"
  BY <1>1 DEF Served, WaiterLast
<1>3. /\ MaxSize \in Nat /\ scanned \in Nat /\ toCheck \subseteq Positions
      /\ \A i \in 1..scanned : Key(i) \in Keys /\ Key(i)' = Key(i)
  BY <1>1, Shape DEF Key
<1>4. TypeOK'
  <2>1. IsFiniteSet(toCheck)
    BY <1>3, RunningFinite DEF Deduplicated
  <2>2. wg' \in Nat
    BY <1>1, <2>1, FS_CardinalityType
  <2> QED
    BY <1>1, <2>2 DEF TypeOK
<1>5. Deduplicated'
  BY <1>1, <1>2, <1>3 DEF Deduplicated
<1>6. WorkersInOrder'
  BY <1>1, <1>2, <1>3 DEF WorkersInOrder, Stored, Finished, Deduplicated
<1>7. WaiterLast'
  <2>1. Running' = toCheck
    BY <1>1, <1>3 DEF Running
  <2> QED
    BY <1>1, <1>2, <2>1 DEF WaiterLast
<1>8. AnswersInOrder'
  <2>1. \A j \in toCheck : answers[j] = << >>
    BY <1>2, <1>3 DEF AnswersInOrder, WorkersInOrder, Finished
  <2>2. \A j \in Duplicates : answers[j] = << >>
    BY <1>1, <2>1 DEF AnswersInOrder, Deduplicated, Duplicates
  <2> QED
    BY <1>1, <1>2, <1>3, <2>1, <2>2
       DEF AnswersInOrder, Finished, Duplicates, Deduplicated
<1> QED
  BY <1>4, <1>5, <1>6, <1>7, <1>8

(* A check returns.                                                        *)
LEMMA CheckReturnsIndInv ==
  ASSUME NEW i \in Positions, IndInv, CheckReturns(i) PROVE IndInv'
<1> USE DEF IndInv, Leaving, Endings
<1>1. /\ UNCHANGED <<responseCache, wg, scanned, toCheck, handler, result, answers, toAdd,
                     request, route, clientGone, deadlineFired, waiter>>
      /\ worker[i] = "checking" /\ worker' = [worker EXCEPT ![i] = "checked"]
  BY DEF CheckReturns, dedupVars, handlerVars, inputVars, envVars
<1>2. PICK o \in Outcomes : response' = [response EXCEPT ![i] = o]
  BY DEF CheckReturns, Verdicts, Outcomes, CheckOutcomes
<1>3. o # None
  BY <1>2, ListAssumption
<1>4. /\ \A j \in Positions : Finished(j)' = Finished(j) /\ Stored(j)' = Stored(j)
      /\ ~Finished(i) /\ ~Stored(i) /\ Served' = Served /\ i \in toCheck
      /\ Duplicates' = Duplicates /\ toCheck \subseteq Positions
      /\ \A j : Key(j)' = Key(j)
  BY <1>1, Shape
     DEF TypeOK, Finished, Stored, Served, WorkersInOrder, Duplicates, Key
<1>5. \A j \in Positions : j # i => response'[j] = response[j] /\ worker'[j] = worker[j]
  BY <1>1, <1>2 DEF TypeOK
<1>6. TypeOK'
  <2>1. /\ worker' \in [Positions -> {"none", "checking", "checked", "sending", "sent", "done"}]
        /\ response' \in [Positions -> Outcomes \cup {None}]
    BY <1>1, <1>2 DEF TypeOK
  <2> QED
    BY <1>1, <2>1 DEF TypeOK
<1>7. Deduplicated'
  BY <1>1, <1>4 DEF Deduplicated
<1>8. WorkersInOrder'
  BY <1>1, <1>2, <1>3, <1>4, <1>5 DEF WorkersInOrder, TypeOK
<1>9. WaiterLast'
  <2>1. Running' = Running
    BY <1>1, <1>4 DEF Running, TypeOK
  <2> QED
    BY <1>1, <1>4, <2>1 DEF WaiterLast
<1>10. AnswersInOrder'
  <2>1. \A j \in toCheck :
          /\ Finished(j)' = Finished(j) /\ Stored(j)' = Stored(j)
          /\ Finished(j) \/ Stored(j) => response'[j] = response[j]
    BY <1>4, <1>5
  <2>2. /\ \A j \in DOMAIN answers' \ (1..scanned') : answers'[j] = << >>
        /\ \A j \in toCheck' :
             answers'[j] = IF Finished(j)' THEN <<response'[j]>> ELSE << >>
        /\ "complete" \in {handler', result'} =>
             \A j \in (1..scanned') \ toAdd' : answers'[j] # << >>
        /\ toAdd' \subseteq Duplicates /\ (toAdd' # {} => handler' \in Endings)
        /\ handler' \in Endings => route = "batch"
    BY <1>1, <2>1 DEF AnswersInOrder
  <2>3. ASSUME NEW d \in Duplicates, NEW j \in toCheck, Key(d) = Key(j)
        PROVE  IF route = "stream" THEN answers'[d] = answers'[j]
               ELSE \/ answers'[d] = << >>
                    \/ /\ Leaving /\ d \notin toAdd /\ Stored(j)'
                       /\ answers'[d] = <<response'[j]>>
    BY <1>1, <2>1, <2>3 DEF AnswersInOrder
  <2> QED
    BY <1>1, <1>4, <2>2, <2>3 DEF AnswersInOrder
<1> QED
  BY <1>6, <1>7, <1>8, <1>9, <1>10

(* A response is kept for the duplicates.                                  *)
LEMMA OnResponseIndInv ==
  ASSUME NEW i \in Positions, IndInv, OnResponse(i) PROVE IndInv'
<1> USE DEF IndInv, Leaving, Endings
<1>1. /\ UNCHANGED <<response, wg, scanned, toCheck, handler, result, answers, toAdd,
                     request, route, clientGone, deadlineFired, waiter>>
      /\ worker[i] = "checked" /\ worker' = [worker EXCEPT ![i] = "sending"]
      /\ responseCache' = [responseCache EXCEPT ![Key(i)] = response[i]]
  BY DEF OnResponse, dedupVars, handlerVars, inputVars, envVars
<1>2. /\ \A j \in Positions : Finished(j)' = Finished(j)
      /\ \A j \in Positions : j # i => Stored(j)' = Stored(j)
      /\ ~Finished(i) /\ ~Stored(i) /\ Stored(i)' /\ Served' = Served /\ Served
      /\ i \in toCheck /\ response[i] # None
      /\ Duplicates' = Duplicates /\ toCheck \subseteq Positions
      /\ \A j \in toCheck : Key(j) \in Keys
      /\ \A j : Key(j)' = Key(j)
  BY <1>1, Shape DEF TypeOK, Finished, Stored, Served, WorkersInOrder, Duplicates, Key
<1>3. \A j \in toCheck : j # i => responseCache'[Key(j)] = responseCache[Key(j)]
  BY <1>1, <1>2 DEF TypeOK, Deduplicated
<1>4. responseCache'[Key(i)] = response[i]
  BY <1>1, <1>2 DEF TypeOK
<1>6. TypeOK'
  BY <1>1, <1>2 DEF TypeOK
<1>7. Deduplicated'
  BY <1>1, <1>2 DEF Deduplicated
<1>8. WorkersInOrder'
  BY <1>1, <1>2, <1>3, <1>4 DEF WorkersInOrder, TypeOK
<1>9. WaiterLast'
  <2>1. Running' = Running
    BY <1>1, <1>2 DEF Running, TypeOK
  <2> QED
    BY <1>1, <1>2, <2>1 DEF WaiterLast
<1>10. AnswersInOrder'
  BY <1>1, <1>2 DEF AnswersInOrder
<1> QED
  BY <1>6, <1>7, <1>8, <1>9, <1>10

(* A worker leaves the wait group.                                         *)
LEMMA WorkerDoneIndInv ==
  ASSUME NEW i \in Positions, IndInv, WorkerDone(i) PROVE IndInv'
<1> USE DEF IndInv, Leaving, Endings
<1>1. /\ UNCHANGED <<response, responseCache, scanned, toCheck, handler, result, answers, toAdd,
                     request, route, clientGone, deadlineFired, waiter>>
      /\ worker[i] = "sent" /\ worker' = [worker EXCEPT ![i] = "done"] /\ wg' = wg - 1
  BY DEF WorkerDone, dedupVars, handlerVars, inputVars, envVars
<1>2. /\ \A j \in Positions : Finished(j)' = Finished(j) /\ Stored(j)' = Stored(j)
      /\ Served' = Served /\ Served /\ i \in toCheck
      /\ Duplicates' = Duplicates /\ toCheck \subseteq Positions
      /\ \A j : Key(j)' = Key(j)
  BY <1>1, Shape DEF TypeOK, Finished, Stored, Served, WorkersInOrder, Duplicates, Key
<1>3. i \in Running /\ Running' = Running \ {i}
  BY <1>1, <1>2 DEF Running, TypeOK
<1>4. /\ IsFiniteSet(Running) /\ Cardinality(Running) \in Nat
      /\ IsFiniteSet(Running') /\ Cardinality(Running') \in Nat
      /\ Cardinality(Running') = Cardinality(Running) - 1
  <2>1. IsFiniteSet(Running) /\ IsFiniteSet(Running \ {i})
        /\ Cardinality(Running \ {i}) = Cardinality(Running) - 1
    BY <1>3, Shape, FS_RemoveElement
  <2> QED
    BY <1>3, <2>1, FS_CardinalityType
<1>5. wg = Cardinality(Running) /\ wg' = Cardinality(Running')
  BY <1>1, <1>2, <1>4 DEF WaiterLast
<1>6. TypeOK'
  BY <1>1, <1>4, <1>5 DEF TypeOK
<1>7. Deduplicated'
  BY <1>1, <1>2 DEF Deduplicated
<1>8. WorkersInOrder'
  BY <1>1, <1>2 DEF WorkersInOrder, TypeOK
<1>9. WaiterLast'
  BY <1>1, <1>2, <1>3, <1>5 DEF WaiterLast
<1>10. AnswersInOrder'
  BY <1>1, <1>2 DEF AnswersInOrder
<1> QED
  BY <1>6, <1>7, <1>8, <1>9, <1>10

(* The waiter finds the wait group empty, and later closes the channel.    *)
LEMMA WaiterIndInv == IndInv /\ WaiterStep => IndInv'
<1> SUFFICES ASSUME IndInv, WaiterStep PROVE IndInv'
  OBVIOUS
<1> USE DEF IndInv, Leaving, Endings
<1>1. UNCHANGED <<worker, response, responseCache, wg, scanned, toCheck, handler, result,
                  answers, toAdd, request, route, clientGone, deadlineFired>>
  BY DEF WaiterStep, WaiterWakes, WaiterCloses, workerVars, dedupVars, handlerVars,
         inputVars, envVars
<1>2. \/ waiter = "waiting" /\ wg = 0 /\ waiter' = "signalling"
      \/ waiter = "closing" /\ waiter' = "done"
  BY DEF WaiterStep, WaiterWakes, WaiterCloses
<1>3. waiter' = "signalling" => Running = {}
  <2>1. Served => wg = Cardinality(Running)
    BY DEF WaiterLast
  <2>2. waiter # "none" => Served
    BY DEF WaiterLast
  <2> QED
    BY <1>2, <2>1, <2>2, Shape, FS_EmptySet
<1>4. TypeOK'
  BY <1>1, <1>2 DEF TypeOK
<1>5. Deduplicated'
  BY <1>1 DEF Deduplicated, Served, Key
<1>6. WorkersInOrder'
  BY <1>1 DEF WorkersInOrder, Served, Key, Stored, Finished
<1>7. WaiterLast'
  BY <1>1, <1>2, <1>3 DEF WaiterLast, Served, Running
<1>8. AnswersInOrder'
  BY <1>1 DEF AnswersInOrder, Key, Stored, Finished, Duplicates
<1> QED
  BY <1>4, <1>5, <1>6, <1>7, <1>8

(* The stream's write comes to its end.                                    *)
LEMMA WriteEndsIndInv == IndInv /\ WriteEnds => IndInv'
<1> SUFFICES ASSUME IndInv, WriteEnds PROVE IndInv'
  OBVIOUS
<1> USE DEF IndInv, Leaving, Endings
<1>1. /\ UNCHANGED <<worker, response, responseCache, wg, scanned, toCheck, result, answers,
                     toAdd, request, route, clientGone, deadlineFired, waiter>>
      /\ handler = "writing" /\ handler' = "serving" /\ result = "open" /\ Served /\ Served'
  BY DEF WriteEnds, workerVars, dedupVars, inputVars, envVars, Served, WaiterLast
<1>2. TypeOK'
  BY <1>1 DEF TypeOK
<1>3. Deduplicated'
  BY <1>1 DEF Deduplicated, Key
<1>4. WorkersInOrder'
  BY <1>1 DEF WorkersInOrder, Key, Stored, Finished
<1>5. WaiterLast'
  BY <1>1 DEF WaiterLast, Running
<1>6. AnswersInOrder'
  BY <1>1 DEF AnswersInOrder, Key, Stored, Finished, Duplicates
<1> QED
  BY <1>2, <1>3, <1>4, <1>5, <1>6

(* The client leaves, the timer fires.                                     *)
LEMMA EnvironmentIndInv == IndInv /\ (ClientLeaves \/ DeadlineFires) => IndInv'
<1> SUFFICES ASSUME IndInv, ClientLeaves \/ DeadlineFires PROVE IndInv'
  OBVIOUS
<1> USE DEF IndInv, Leaving, Endings
<1>1. /\ UNCHANGED <<worker, response, responseCache, wg, scanned, toCheck, handler,
                     result, answers, toAdd, request, route, waiter>>
      /\ clientGone' \in BOOLEAN /\ deadlineFired' \in BOOLEAN
  BY DEF ClientLeaves, DeadlineFires, workerVars, dedupVars, handlerVars, inputVars, TypeOK
<1>2. TypeOK'
  BY <1>1 DEF TypeOK
<1>3. Deduplicated'
  BY <1>1 DEF Deduplicated, Served, Key
<1>4. WorkersInOrder'
  BY <1>1 DEF WorkersInOrder, Served, Key, Stored, Finished
<1>5. WaiterLast'
  BY <1>1 DEF WaiterLast, Served, Running
<1>6. AnswersInOrder'
  BY <1>1 DEF AnswersInOrder, Key, Stored, Finished, Duplicates
<1> QED
  BY <1>2, <1>3, <1>4, <1>5, <1>6

(* addResponseIfCached appends one response to the answers of S that have  *)
(* a kept response, and leaves the others alone.                           *)
LEMMA WithCachedAnswers ==
  ASSUME TypeOK, NEW ans \in [{0} \cup Positions -> Seq(Outcomes \cup {None})],
         NEW S \in SUBSET Positions, \A d \in S : Key(d) \in Keys
  PROVE  /\ WithCached(ans, S) \in [{0} \cup Positions -> Seq(Outcomes \cup {None})]
         /\ \A d \in {0} \cup Positions :
              d \notin S \/ responseCache[Key(d)] = None => WithCached(ans, S)[d] = ans[d]
         /\ \A d \in S : ans[d] = << >> /\ responseCache[Key(d)] # None =>
              WithCached(ans, S)[d] = <<responseCache[Key(d)]>>
<1>1. DOMAIN ans = {0} \cup Positions
  OBVIOUS
<1>2. \A d \in S : responseCache[Key(d)] \in Outcomes \cup {None}
  BY DEF TypeOK
<1>3. \A d \in S : Append(ans[d], responseCache[Key(d)]) \in Seq(Outcomes \cup {None})
  BY <1>2
<1> QED
  BY <1>1, <1>3, OneAnswer DEF WithCached

(* The handler receives a worker's response; on the stream, its duplicates *)
(* are answered with it.                                                   *)
LEMMA ReceiveResultIndInv == IndInv /\ ReceiveResult => IndInv'
<1> SUFFICES ASSUME IndInv, ReceiveResult PROVE IndInv'
  OBVIOUS
<1> USE DEF IndInv, Leaving, Endings
<1>1. /\ UNCHANGED <<result, toAdd, response, responseCache, wg, scanned, toCheck,
                     request, route, clientGone, deadlineFired, waiter>>
      /\ handler = "serving" /\ handler' \in {"serving", "writing"} /\ result = "open"
      /\ Served /\ Served'
  BY DEF ReceiveResult, dedupVars, inputVars, envVars, Served, WaiterLast
<1>2. Sends \subseteq {i \in Positions : worker[i] = "sending"}
  BY <1>1 DEF Sends, Closed, WaiterLast
<1> DEFINE own(i) == [answers EXCEPT ![i] = Append(@, response[i])]
           dups(i) == {j \in Duplicates : Key(j) = Key(i)}
<1>3. PICK i \in Positions :
        /\ worker[i] = "sending"
        /\ answers' = IF route = "stream" THEN WithCached(own(i), dups(i)) ELSE own(i)
        /\ worker' = [j \in Positions |-> IF j = i THEN "sent" ELSE worker[j]]
  <2>1. PICK i \in Sends :
          LET r == IF i = 0 THEN None ELSE response[i]
              ow == [answers EXCEPT ![i] = Append(@, r)]
              du == {j \in Duplicates : i # 0 /\ Key(j) = Key(i)} IN
          /\ answers' = IF route = "stream" THEN WithCached(ow, du) ELSE ow
          /\ worker' = [j \in Positions |-> IF j = i THEN "sent" ELSE worker[j]]
    BY DEF ReceiveResult
  <2>2. i \in Positions /\ worker[i] = "sending" /\ i # 0
    BY <1>2, <2>1 DEF Positions
  <2> QED
    BY <2>1, <2>2
<1>4. /\ i \in toCheck /\ toCheck \subseteq Positions /\ Duplicates \subseteq Positions
      /\ \A j \in toCheck : Key(j) \in Keys
      /\ \A j \in Duplicates : Key(j) \in Keys /\ j \notin toCheck /\ j \in 1..scanned
      /\ \A j : Key(j)' = Key(j)
      /\ Duplicates' = Duplicates /\ 0 \notin Positions
  BY <1>1, <1>3, Shape DEF WorkersInOrder, Key, Duplicates, Positions
<1>5. /\ \A j \in Positions : Stored(j)' = Stored(j)
      /\ \A j \in Positions : j # i => Finished(j)' = Finished(j)
      /\ Finished(i)' /\ ~Finished(i) /\ Stored(i)
  BY <1>3 DEF Stored, Finished, TypeOK
<1>6. /\ answers[i] = << >> /\ response[i] \in Outcomes
      /\ responseCache[Key(i)] = response[i] /\ response[i] # None
  BY <1>4, <1>5 DEF AnswersInOrder, WorkersInOrder, TypeOK
<1>7. /\ own(i) \in [{0} \cup Positions -> Seq(Outcomes \cup {None})]
      /\ own(i)[i] = <<response[i]>>
      /\ \A j \in {0} \cup Positions : j # i => own(i)[j] = answers[j]
  BY <1>6, OneAnswer DEF TypeOK
<1>8. dups(i) \subseteq Duplicates /\ i \notin dups(i)
      /\ \A j \in dups(i) : responseCache[Key(j)] = response[i]
  BY <1>4, <1>6
<1>9. /\ answers' \in [{0} \cup Positions -> Seq(Outcomes \cup {None})]
      /\ answers'[i] = <<response[i]>>
      /\ \A j \in {0} \cup Positions : j # i /\ j \notin dups(i) => answers'[j] = answers[j]
      /\ route # "stream" => \A j \in {0} \cup Positions : j # i => answers'[j] = answers[j]
      /\ route = "stream" => \A j \in dups(i) : answers'[j] = <<response[i]>>
  <2>1. CASE route # "stream"
    BY <1>3, <1>7, <2>1
  <2>2. CASE route = "stream"
    <3> DEFINE ans == own(i)
               S == dups(i)
    <3>1. answers' = WithCached(ans, S)
      BY <1>3, <2>2
    <3>2. ans \in [{0} \cup Positions -> Seq(Outcomes \cup {None})] /\ S \in SUBSET Positions
          /\ \A d \in S : Key(d) \in Keys
      BY <1>4, <1>7, <1>8
    <3>3. \A d \in S : ans[d] = << >>
      <4>1. \A d \in S : answers[d] = answers[i]
        BY <1>4, <2>2 DEF AnswersInOrder
      <4> QED
        BY <1>4, <1>6, <1>7, <1>8, <4>1
    <3> HIDE DEF ans, S
    <3>4. /\ answers' \in [{0} \cup Positions -> Seq(Outcomes \cup {None})]
          /\ \A d \in {0} \cup Positions :
               d \notin S \/ responseCache[Key(d)] = None => answers'[d] = ans[d]
          /\ \A d \in S : ans[d] = << >> /\ responseCache[Key(d)] # None =>
               answers'[d] = <<responseCache[Key(d)]>>
      BY <3>1, <3>2, WithCachedAnswers
    <3>5. \A d \in S : answers'[d] = <<response[i]>>
      <4>1. \A d \in S : responseCache[Key(d)] = response[i]
        BY <1>8 DEF S
      <4> QED
        BY <1>6, <3>3, <3>4, <4>1
    <3>6. \A d \in {0} \cup Positions : d \notin S => answers'[d] = ans[d]
      BY <3>4
    <3>7. /\ ans[i] = <<response[i]>>
          /\ \A j \in {0} \cup Positions : j # i => ans[j] = answers[j]
          /\ i \notin S
      BY <1>7, <1>8 DEF ans, S
    <3>8. answers'[i] = <<response[i]>>
      BY <3>6, <3>7
    <3>9. \A j \in {0} \cup Positions : j # i /\ j \notin S => answers'[j] = answers[j]
      BY <3>6, <3>7
    <3> QED
      BY <2>2, <3>4, <3>5, <3>8, <3>9 DEF S
  <2> QED
    BY <2>1, <2>2
<1> HIDE DEF own, dups
<1>10. TypeOK'
  BY <1>1, <1>3, <1>9 DEF TypeOK
<1>11. Deduplicated'
  BY <1>1, <1>4 DEF Deduplicated
<1>12. WorkersInOrder'
  BY <1>1, <1>3, <1>4, <1>5 DEF WorkersInOrder, TypeOK
<1>13. WaiterLast'
  <2>1. Running' = Running
    BY <1>1, <1>3, <1>4 DEF Running, TypeOK
  <2> QED
    BY <1>1, <2>1 DEF WaiterLast
<1>14. AnswersInOrder'
  <2>1. \A j \in DOMAIN answers' \ (1..scanned') : answers'[j] = << >>
    <3>1. DOMAIN answers' = DOMAIN answers /\ DOMAIN answers = {0} \cup Positions
      BY <1>9 DEF TypeOK
    <3>2. i \in 1..scanned /\ dups(i) \subseteq 1..scanned
      BY <1>4, <1>8, Shape
    <3> QED
      BY <1>1, <1>9, <3>1, <3>2 DEF AnswersInOrder
  <2>2. \A j \in toCheck :
          answers'[j] = IF Finished(j)' THEN <<response[j]>> ELSE << >>
    <3>1. \A j \in toCheck : j \notin dups(i)
      BY <1>4, <1>8
    <3> QED
      BY <1>4, <1>5, <1>9, <3>1 DEF AnswersInOrder
  <2>3. ASSUME NEW d \in Duplicates, NEW j \in toCheck, Key(d) = Key(j)
        PROVE  IF route = "stream" THEN answers'[d] = answers'[j]
               ELSE answers'[d] = << >>
    <3>1. d \in {0} \cup Positions /\ d # i /\ (d \in dups(i) <=> j = i)
      BY <1>4, <2>3 DEF Deduplicated, dups
    <3>2. j \in {0} \cup Positions /\ j \notin dups(i)
      BY <1>4, <1>8
    <3>3. CASE route = "stream"
      BY <1>9, <2>3, <3>1, <3>2, <3>3 DEF AnswersInOrder
    <3>4. CASE route # "stream"
      BY <1>1, <1>9, <2>3, <3>1, <3>4 DEF AnswersInOrder
    <3> QED
      BY <3>3, <3>4
  <2> QED
    BY <1>1, <1>4, <2>1, <2>2, <2>3 DEF AnswersInOrder
<1> QED
  BY <1>10, <1>11, <1>12, <1>13, <1>14

(* The loop ends: at the end, at the deadline, or without a client.        *)
LEMMA ReturnIndInv ==
  IndInv /\ (ReceiveDone \/ DeadlineReached \/ ClientDisconnected) => IndInv'
<1> SUFFICES ASSUME IndInv, ReceiveDone \/ DeadlineReached \/ ClientDisconnected
             PROVE  IndInv'
  OBVIOUS
<1> USE DEF IndInv, Leaving, Endings
<1>1. /\ UNCHANGED <<worker, response, responseCache, wg, scanned, toCheck, answers,
                     request, route, clientGone, deadlineFired>>
      /\ handler = "serving" /\ Served /\ Served' /\ result = "open" /\ toAdd = {}
  BY DEF ReceiveDone, DeadlineReached, ClientDisconnected, Return, Served,
         workerVars, dedupVars, inputVars, envVars, WaiterLast, AnswersInOrder
<1>2. \E res \in Endings :
        /\ \/ route = "stream" /\ handler' = "returned" /\ result' = res /\ toAdd' = {}
           \/ route = "batch" /\ handler' = res /\ result' = "open" /\ toAdd' = Duplicates
        /\ \/ res # "complete" /\ waiter' = waiter
           \/ res = "complete" /\ waiter = "signalling" /\ waiter' = "closing"
  <2>1. route \in {"batch", "stream"}
    BY DEF TypeOK
  <2> QED
    BY <1>1, <2>1 DEF ReceiveDone, DeadlineReached, ClientDisconnected, Return
<1>3. /\ Running' = Running /\ Duplicates' = Duplicates
      /\ \A j \in Positions : Finished(j)' = Finished(j) /\ Stored(j)' = Stored(j)
      /\ \A j : Key(j)' = Key(j)
  BY <1>1 DEF Running, Duplicates, Finished, Stored, Key
<1>4. toCheck \subseteq Positions /\ Duplicates \subseteq Positions
  BY Shape DEF Duplicates
<1>5. TypeOK'
  BY <1>1, <1>2, <1>4 DEF TypeOK
<1>6. Deduplicated'
  BY <1>1, <1>2, <1>3 DEF Deduplicated
<1>7. WorkersInOrder'
  BY <1>1, <1>3, <1>4 DEF WorkersInOrder
<1>8. WaiterLast'
  BY <1>1, <1>2, <1>3 DEF WaiterLast
<1>9. AnswersInOrder'
  <2>1. /\ \A j \in DOMAIN answers' \ (1..scanned') : answers'[j] = << >>
        /\ \A j \in toCheck' :
             answers'[j] = IF Finished(j)' THEN <<response'[j]>> ELSE << >>
    BY <1>1, <1>3, <1>4 DEF AnswersInOrder
  <2>2. ASSUME NEW d \in Duplicates, NEW j \in toCheck, Key(d) = Key(j)
        PROVE  IF route = "stream" THEN answers'[d] = answers'[j] ELSE answers'[d] = << >>
    BY <1>1, <2>2 DEF AnswersInOrder
  <2>3. /\ toAdd' \subseteq Duplicates /\ (toAdd' # {} => handler' \in Endings)
        /\ handler' \in Endings => route = "batch"
    BY <1>2
  <2>4. ASSUME "complete" \in {handler', result'}, NEW j \in (1..scanned) \ toAdd'
        PROVE  answers'[j] # << >>
    <3>1. Running = {}
      BY <1>2, <2>4 DEF WaiterLast
    <3>2. \A k \in toCheck : answers'[k] = <<response[k]>>
      <4>1. \A k \in toCheck : Finished(k)
        BY <3>1 DEF Running, Finished
      <4> QED
        BY <1>1, <4>1 DEF AnswersInOrder
    <3>3. CASE j \in toCheck
      BY <3>2, <3>3, OneAnswer
    <3>4. CASE j \notin toCheck
      <4>1. j \in Duplicates
        BY <3>4 DEF Duplicates
      <4>2. route = "stream"
        BY <1>2, <4>1, <2>4
      <4>3. PICK k \in toCheck : Key(j) = Key(k)
        BY DEF Deduplicated
      <4> QED
        BY <2>2, <3>2, <4>1, <4>2, <4>3, OneAnswer
    <3> QED
      BY <3>3, <3>4
  <2> QED
    BY <1>1, <1>3, <2>1, <2>2, <2>3, <2>4 DEF AnswersInOrder
<1> QED
  BY <1>5, <1>6, <1>7, <1>8, <1>9

(* The batch's reply gets one duplicate's answer, if its URL has one.      *)
LEMMA AddDuplicateIndInv == IndInv /\ AddDuplicate => IndInv'
<1> SUFFICES ASSUME IndInv, AddDuplicate PROVE IndInv'
  OBVIOUS
<1> USE DEF IndInv, Leaving
<1>1. /\ UNCHANGED <<handler, result, worker, response, responseCache, wg, scanned, toCheck,
                     request, route, clientGone, deadlineFired, waiter>>
      /\ handler \in Endings /\ route = "batch"
  BY DEF AddDuplicate, workerVars, dedupVars, inputVars, envVars, AnswersInOrder
<1>2. PICK i \in toAdd : answers' = WithCached(answers, {i}) /\ toAdd' = toAdd \ {i}
  BY DEF AddDuplicate
<1>3. /\ Running' = Running /\ Duplicates' = Duplicates /\ Served' = Served
      /\ \A j \in Positions : Finished(j)' = Finished(j) /\ Stored(j)' = Stored(j)
      /\ \A j : Key(j)' = Key(j)
  BY <1>1 DEF Running, Duplicates, Served, Finished, Stored, Key
<1>4. /\ toCheck \subseteq Positions /\ toCheck \subseteq 1..scanned
      /\ i \in Duplicates /\ i \in Positions /\ i \in 1..scanned /\ i \notin toCheck
      /\ Key(i) \in Keys /\ 0 \notin Positions
      /\ answers \in [{0} \cup Positions -> Seq(Outcomes \cup {None})]
  BY Shape DEF AnswersInOrder, Duplicates, TypeOK, Positions
<1>5. PICK k \in toCheck : Key(i) = Key(k)
  BY <1>4 DEF Deduplicated
<1>6. answers[i] = << >>
  <2>1. route # "stream"
    BY <1>1
  <2> QED
    BY <1>2, <1>4, <1>5, <2>1 DEF AnswersInOrder
<1>7. /\ answers' \in [{0} \cup Positions -> Seq(Outcomes \cup {None})]
      /\ \A d \in {0} \cup Positions : d # i => answers'[d] = answers[d]
      /\ responseCache[Key(i)] = None => answers'[i] = << >>
      /\ responseCache[Key(i)] # None => answers'[i] = <<responseCache[Key(i)]>>
  <2> DEFINE S == {i}
  <2>1. S \in SUBSET Positions /\ \A d \in S : Key(d) \in Keys
    BY <1>4
  <2>2. /\ answers' \in [{0} \cup Positions -> Seq(Outcomes \cup {None})]
        /\ \A d \in {0} \cup Positions :
             d \notin S \/ responseCache[Key(d)] = None => answers'[d] = answers[d]
        /\ \A d \in S : answers[d] = << >> /\ responseCache[Key(d)] # None =>
             answers'[d] = <<responseCache[Key(d)]>>
    <3>1. answers' = WithCached(answers, S)
      BY <1>2
    <3> HIDE DEF S
    <3> QED
      BY <1>4, <2>1, <3>1, WithCachedAnswers
  <2> QED
    BY <1>4, <1>6, <2>2
<1>8. /\ responseCache[Key(i)] = IF Stored(k) THEN response[k] ELSE None
      /\ Stored(k) => response[k] # None
  BY <1>5 DEF WorkersInOrder
<1>9. answers'[i] = IF Stored(k) THEN <<response[k]>> ELSE << >>
  BY <1>7, <1>8
<1>10. TypeOK'
  BY <1>1, <1>2, <1>7 DEF TypeOK
<1>11. Deduplicated'
  BY <1>1, <1>3 DEF Deduplicated
<1>12. WorkersInOrder'
  BY <1>1, <1>3, <1>4 DEF WorkersInOrder
<1>13. WaiterLast'
  BY <1>1, <1>3 DEF WaiterLast
<1>14. AnswersInOrder'
  <2>1. \A j \in DOMAIN answers' \ (1..scanned') : answers'[j] = << >>
    <3>1. DOMAIN answers' = DOMAIN answers /\ DOMAIN answers = {0} \cup Positions
      BY <1>4, <1>7
    <3> QED
      BY <1>1, <1>4, <1>7, <3>1 DEF AnswersInOrder
  <2>2. \A j \in toCheck :
          answers'[j] = IF Finished(j)' THEN <<response'[j]>> ELSE << >>
    BY <1>1, <1>3, <1>4, <1>7 DEF AnswersInOrder
  <2>3. ASSUME NEW d \in Duplicates, NEW j \in toCheck, Key(d) = Key(j)
        PROVE  \/ answers'[d] = << >>
               \/ d \notin toAdd' /\ Stored(j) /\ answers'[d] = <<response[j]>>
    <3>1. CASE d = i
      <4>1. j = k
        BY <1>5, <2>3, <3>1 DEF Deduplicated
      <4> QED
        BY <1>2, <1>9, <3>1, <4>1
    <3>2. CASE d # i
      <4>1. d \in Positions
        BY Shape DEF Duplicates
      <4>2. \/ answers[d] = << >>
            \/ d \notin toAdd /\ Stored(j) /\ answers[d] = <<response[j]>>
        BY <1>1, <2>3 DEF AnswersInOrder
      <4> QED
        BY <1>2, <1>7, <3>2, <4>1, <4>2
    <3> QED
      BY <3>1, <3>2
  <2>4. ASSUME "complete" \in {handler, result}, NEW j \in (1..scanned) \ toAdd'
        PROVE  answers'[j] # << >>
    <3>1. CASE j = i
      <4>1. handler = "complete"
        BY <1>1, <2>4 DEF WaiterLast, Endings
      <4>2. Stored(k)
        BY <4>1 DEF WaiterLast, Running, Stored, Finished
      <4> QED
        BY <1>9, <3>1, <4>2, OneAnswer
    <3>2. CASE j # i
      <4>1. j \in Positions /\ j \in (1..scanned) \ toAdd
        BY <1>2, <3>2, Shape
      <4> QED
        BY <1>7, <2>4, <3>2, <4>1 DEF AnswersInOrder
    <3> QED
      BY <3>1, <3>2
  <2>5. toAdd' \subseteq Duplicates
    BY <1>2 DEF AnswersInOrder
  <2>6. ASSUME NEW d \in Duplicates, NEW j \in toCheck, Key(d) = Key(j)
        PROVE  IF route' = "stream" THEN answers'[d] = answers'[j]
               ELSE \/ answers'[d] = << >>
                    \/ Leaving' /\ d \notin toAdd' /\ Stored(j)' /\ answers'[d] = <<response'[j]>>
    <3>1. j \in Positions /\ route' # "stream" /\ Leaving' /\ response' = response
      BY <1>1, <1>4
    <3> QED
      BY <1>3, <2>3, <2>6, <3>1
  <2>7. handler' \in Endings /\ route' = "batch"
    BY <1>1
  <2> QED
    BY <1>1, <1>3, <2>1, <2>2, <2>4, <2>5, <2>6, <2>7 DEF AnswersInOrder
<1> QED
  BY <1>10, <1>11, <1>12, <1>13, <1>14

(* The batch's reply is complete in itself, and sent.                      *)
LEMMA ReplyIndInv == IndInv /\ Reply => IndInv'
<1> SUFFICES ASSUME IndInv, Reply PROVE IndInv'
  OBVIOUS
<1> USE DEF IndInv, Leaving, Endings
<1>1. /\ UNCHANGED <<answers, toAdd, worker, response, responseCache, wg, scanned, toCheck,
                     request, route, clientGone, deadlineFired, waiter>>
      /\ handler \in Endings /\ result' = handler /\ handler' = "returned" /\ toAdd = {}
  BY DEF Reply, workerVars, dedupVars, inputVars, envVars
<1>2. /\ Running' = Running /\ Duplicates' = Duplicates /\ Served /\ Served'
      /\ \A j : Finished(j)' = Finished(j) /\ Stored(j)' = Stored(j) /\ Key(j)' = Key(j)
  BY <1>1 DEF Running, Duplicates, Served, WaiterLast, Finished, Stored, Key
<1>3. TypeOK'
  BY <1>1 DEF TypeOK
<1>4. Deduplicated'
  BY <1>1, <1>2 DEF Deduplicated
<1>5. WorkersInOrder'
  BY <1>1, <1>2 DEF WorkersInOrder
<1>6. WaiterLast'
  BY <1>1, <1>2 DEF WaiterLast
<1>7. AnswersInOrder'
  BY <1>1, <1>2 DEF AnswersInOrder
<1> QED
  BY <1>3, <1>4, <1>5, <1>6, <1>7

-----------------------------------------------------------------------------
(* The invariant holds in every state of every list check.                 *)
LEMMA StepIndInv == IndInv /\ [Next]_vars => IndInv'
<1> SUFFICES ASSUME IndInv, [Next]_vars PROVE IndInv'
  OBVIOUS
<1>1. CASE HandlerStep
  BY <1>1, ParseIndInv, DeduplicateIndInv, SetUpIndInv, ReceiveResultIndInv, WriteEndsIndInv,
     ReturnIndInv, AddDuplicateIndInv, ReplyIndInv
     DEF HandlerStep, ClientPaced, SelfPaced
<1>2. CASE \E i \in Positions : CheckReturns(i) \/ WorkerStep(i)
  BY <1>2, CheckReturnsIndInv, OnResponseIndInv, WorkerDoneIndInv DEF WorkerStep
<1>3. CASE WaiterStep
  BY <1>3, WaiterIndInv
<1>4. CASE ClientLeaves \/ DeadlineFires
  BY <1>4, EnvironmentIndInv
<1>5. CASE UNCHANGED vars
  <2>1. UNCHANGED <<worker, response, responseCache, wg, scanned, toCheck, handler, result,
                    answers, toAdd, request, route, clientGone, deadlineFired, waiter>>
    BY <1>5 DEF vars, workerVars, dedupVars, handlerVars, inputVars, envVars
  <2>2. TypeOK'
    BY <2>1 DEF IndInv, TypeOK
  <2>3. Deduplicated'
    BY <2>1 DEF IndInv, Deduplicated, Served, Key
  <2>4. WorkersInOrder'
    BY <2>1 DEF IndInv, WorkersInOrder, Served, Key, Stored, Finished
  <2>5. WaiterLast'
    BY <2>1 DEF IndInv, WaiterLast, Leaving, Served, Running
  <2>6. AnswersInOrder'
    BY <2>1 DEF IndInv, AnswersInOrder, Leaving, Key, Stored, Finished, Duplicates
  <2> QED
    BY <2>2, <2>3, <2>4, <2>5, <2>6 DEF IndInv
<1> QED
  BY <1>1, <1>2, <1>3, <1>4, <1>5 DEF Next

(* The inductive invariant is an invariant; run list_check checks it too.  *)
THEOREM InductiveInvariant == Spec => []IndInv
<1>1. Init => IndInv
  BY InitIndInv
<1>2. IndInv /\ [Next]_vars => IndInv'
  BY StepIndInv
<1> QED
  BY <1>1, <1>2, PTL DEF Spec

(* Every variable keeps its type; among the rest, the wait group's counter *)
(* never becomes negative, which would panic.                              *)
THEOREM TypeCorrect == Spec => []TypeOK
<1>1. IndInv => TypeOK
  BY DEF IndInv
<1> QED
  BY <1>1, InductiveInvariant, PTL

(* A position has at most one answer, the one its URL's worker found.      *)
LEMMA AnswerShape ==
  ASSUME IndInv, NEW i \in 1..scanned
  PROVE  \/ answers[i] = << >>
         \/ /\ answers[i] = <<responseCache[Key(i)]>>
            /\ responseCache[Key(i)] # None
<1> USE DEF IndInv
<1>1. PICK j \in toCheck : Key(j) = Key(i)
  BY DEF Deduplicated
<1>2. /\ responseCache[Key(i)] = IF Stored(j) THEN response[j] ELSE None
      /\ Stored(j) => response[j] # None
      /\ Finished(j) => Stored(j)
      /\ answers[j] = IF Finished(j) THEN <<response[j]>> ELSE << >>
  BY <1>1 DEF WorkersInOrder, AnswersInOrder, Stored
<1>3. CASE i \in toCheck
  <2>1. i = j
    BY <1>1, <1>3 DEF Deduplicated
  <2> QED
    BY <1>2, <2>1
<1>4. CASE i \notin toCheck
  <2>1. i \in Duplicates
    BY <1>4 DEF Duplicates
  <2>2. IF route = "stream" THEN answers[i] = answers[j]
        ELSE answers[i] = << >> \/ (Stored(j) /\ answers[i] = <<response[j]>>)
    BY <1>1, <2>1 DEF AnswersInOrder
  <2> QED
    BY <1>2, <2>2
<1> QED
  BY <1>3, <1>4

(* No URL of a list is answered twice, and nothing else is answered.       *)
THEOREM AtMostOneAnswer == Spec => []AnsweredAtMostOnce
<1>1. IndInv => AnsweredAtMostOnce
  <2> SUFFICES ASSUME IndInv PROVE AnsweredAtMostOnce
    OBVIOUS
  <2>1. 0 \in DOMAIN answers \ (1..scanned) /\ Positions \subseteq DOMAIN answers
    BY DEF IndInv, TypeOK
  <2>2. \A i \in DOMAIN answers \ (1..scanned) : answers[i] = << >>
    BY DEF IndInv, AnswersInOrder
  <2>3. ASSUME NEW i \in 1..scanned PROVE Len(answers[i]) <= 1
    <3>1. CASE answers[i] = << >>
      BY <3>1
    <3>2. CASE answers[i] # << >>
      <4>1. answers[i] = <<responseCache[Key(i)]>>
        BY <3>2, AnswerShape
      <4> QED
        BY <4>1
    <3> QED
      BY <3>1, <3>2
  <2> QED
    BY <2>1, <2>2, <2>3 DEF AnsweredAtMostOnce
<1> QED
  BY <1>1, InductiveInvariant, PTL

(* A list check that ends "complete" answered its whole list.              *)
THEOREM Completeness == Spec => []CompleteIsComplete
<1>1. IndInv => CompleteIsComplete
  <2> SUFFICES ASSUME IndInv, result = "complete" PROVE CompleteIsComplete
    BY DEF CompleteIsComplete
  <2>1. Served
    BY DEF IndInv, WaiterLast, Served
  <2>2. DOMAIN request = 1..scanned
    BY <2>1, Shape DEF IndInv, Deduplicated
  <2>3. toAdd = {}
    BY DEF IndInv, WaiterLast, AnswersInOrder, Endings
  <2> QED
    BY <2>2, <2>3 DEF IndInv, AnswersInOrder, CompleteIsComplete
<1> QED
  BY <1>1, InductiveInvariant, PTL

(* All the spellings of a URL get the verdict of its one check.            *)
THEOREM OneVerdictPerURL == Spec => []VerdictShared
<1>1. IndInv => VerdictShared
  <2> SUFFICES ASSUME IndInv, NEW i \in DOMAIN request, NEW n \in DOMAIN answers[i]
               PROVE  answers[i][n] = responseCache[Key(i)] /\ answers[i][n] # None
    BY DEF VerdictShared
  <2>1. i \in DOMAIN answers /\ answers[i] # << >>
    BY Shape DEF IndInv, TypeOK, Positions
  <2>2. i \in 1..scanned
    BY <2>1 DEF IndInv, AnswersInOrder
  <2> QED
    BY <2>1, <2>2, AnswerShape, OneAnswer
<1> QED
  BY <1>1, InductiveInvariant, PTL

(* A stream answers all the occurrences of a URL together.                 *)
THEOREM TogetherOnStream == Spec => []StreamAnswersTogether
<1>1. IndInv => StreamAnswersTogether
  <2> SUFFICES ASSUME IndInv, route = "stream", NEW i \in DOMAIN request, NEW j \in DOMAIN request,
                      Key(i) = Key(j), answers[i] # << >>
               PROVE  answers[j] # << >>
    BY DEF StreamAnswersTogether
  <2>1. /\ i \in DOMAIN answers /\ j \in DOMAIN answers /\ scanned \in Nat
        /\ DOMAIN request = 1..Len(request)
    BY Shape DEF IndInv, TypeOK, Positions
  <2>2. i \in 1..scanned
    BY <2>1 DEF IndInv, AnswersInOrder
  <2>3. PICK k \in toCheck : Key(k) = Key(i)
    BY <2>2 DEF IndInv, Deduplicated
  <2>4. \A d \in 1..scanned : Key(d) = Key(k) => answers[d] = answers[k]
    <3>1. ASSUME NEW d \in 1..scanned, Key(d) = Key(k) PROVE answers[d] = answers[k]
      <4>1. CASE d \in toCheck
        BY <3>1, <4>1 DEF IndInv, Deduplicated
      <4>2. CASE d \notin toCheck
        BY <3>1, <4>2 DEF IndInv, AnswersInOrder, Duplicates
      <4> QED
        BY <4>1, <4>2
    <3> QED
      BY <3>1
  <2>5. Finished(k)
    BY <2>2, <2>3, <2>4 DEF IndInv, AnswersInOrder
  <2>6. Served
    <3>1. k \in Positions
      BY Shape DEF IndInv
    <3> QED
      BY <2>5, <3>1 DEF IndInv, WorkersInOrder, Finished
  <2>7. j \in 1..scanned
    BY <2>1, <2>6 DEF IndInv, Deduplicated
  <2> QED
    BY <2>2, <2>3, <2>4, <2>7
<1> QED
  BY <1>1, InductiveInvariant, PTL

(* No worker sends on the closed result channel.                           *)
THEOREM ChannelClosedLast == Spec => []NoSendAfterClose
<1>1. IndInv => NoSendAfterClose
  BY DEF IndInv, WaiterLast, Running, NoSendAfterClose
<1> QED
  BY <1>1, InductiveInvariant, PTL

-----------------------------------------------------------------------------
(* The goroutines implement URLListPromise.                                *)

(* What was delivered for a position is the verdict on its URL.            *)
DeliveredVerdicts ==
  \A i \in Positions :
    \/ Delivered[i] = << >>
    \/ /\ i \in DOMAIN request /\ Delivered[i] = <<responseCache[Key(i)]>>
       /\ responseCache[Key(i)] # None

LEMMA DeliveredShape == IndInv => DeliveredVerdicts
<1> SUFFICES ASSUME IndInv, NEW i \in Positions
             PROVE  \/ Delivered[i] = << >>
                    \/ /\ i \in DOMAIN request /\ Delivered[i] = <<responseCache[Key(i)]>>
                       /\ responseCache[Key(i)] # None
  BY DEF DeliveredVerdicts
<1>1. i \in DOMAIN answers /\ 1..scanned \subseteq DOMAIN request
  BY Shape DEF IndInv, TypeOK
<1>2. CASE i \in 1..scanned
  BY <1>1, <1>2, AnswerShape DEF Delivered
<1>3. CASE i \notin 1..scanned
  BY <1>1, <1>3 DEF IndInv, AnswersInOrder, Delivered
<1> QED
  BY <1>2, <1>3

(* A step that keeps the verdicts, takes no answer back and ends the       *)
(* request properly is a Respond step of the promise.                      *)
LEMMA RespondStep ==
  ASSUME IndInv, IndInv', DeliveredVerdicts, DeliveredVerdicts',
         result = "open", UNCHANGED <<request, responseCache>>,
         \A i \in Positions : Delivered[i] # << >> => Delivered'[i] # << >>,
         result' \in {"badRequest", "tooLarge"} => \A i \in Positions : Delivered'[i] = << >>
  PROVE  Promise!Next
<1> DEFINE S == {i \in Positions : Delivered[i] = << >> /\ Delivered'[i] # << >>}
<1>1. ASSUME NEW i \in Positions
      PROVE  Delivered'[i] = IF i \in S THEN <<responseCache[Norm[request[i]]]>> ELSE Delivered[i]
  <2>1. \/ Delivered[i] = << >>
        \/ Delivered[i] = <<responseCache[Norm[request[i]]]>>
    BY DEF DeliveredVerdicts, Key
  <2>2. \/ Delivered'[i] = << >>
        \/ Delivered'[i] = <<responseCache'[Norm[request'[i]]]>>
    BY DEF DeliveredVerdicts, Key, Positions
  <2> QED
    BY <2>1, <2>2
<1>2. S \subseteq Promise!Answerable
  BY DEF DeliveredVerdicts, Promise!Answerable, Key, Positions
<1>3. Delivered' = [i \in Promise!Positions |->
                      IF i \in S THEN <<responseCache[Norm[request[i]]]>> ELSE Delivered[i]]
  BY <1>1 DEF Delivered, Positions, Promise!Positions
<1>4. result' = "complete" => \A i \in DOMAIN request : Delivered'[i] # << >>
  <2> SUFFICES ASSUME result' = "complete", NEW i \in DOMAIN request PROVE Delivered'[i] # << >>
    OBVIOUS
  <2>1. Served' /\ scanned' = Len(request')
    BY DEF IndInv, TypeOK, WaiterLast, Served, Deduplicated
  <2>2. DOMAIN request = 1..Len(request) /\ i \in Positions
    <3>1. Len(request) \in 0..MaxSize /\ DOMAIN request = 1..Len(request) /\ MaxSize \in Nat
      BY Shape DEF IndInv
    <3> QED
      BY <3>1 DEF Positions
  <2>3. toAdd' = {}
    BY DEF IndInv, WaiterLast, AnswersInOrder, Endings
  <2>4. i \in 1..scanned' /\ answers'[i] # << >>
    BY <2>1, <2>2, <2>3 DEF IndInv, AnswersInOrder
  <2> QED
    BY <2>2, <2>4 DEF Delivered, Positions
<1>5. result' \in {"open", "partial", "aborted", "complete", "badRequest", "tooLarge"}
  BY DEF IndInv, TypeOK, Endings
<1>6. Promise!Respond(S)
  BY <1>3, <1>4, <1>5 DEF Promise!Respond, Promise!Positions, Positions
<1> QED
  BY <1>2, <1>6 DEF Promise!Next

(* Receiving a response takes no answer back.                              *)
LEMMA AnswersStay ==
  ASSUME IndInv, ReceiveResult, NEW x \in Positions, answers[x] # << >>
  PROVE  answers'[x] # << >>
<1>1. /\ answers \in [{0} \cup Positions -> Seq(Outcomes \cup {None})]
      /\ answers[x] \in Seq(Outcomes \cup {None}) /\ 0 \notin Positions
  BY DEF IndInv, TypeOK, Positions
<1>2. PICK i \in Sends, r \in Outcomes \cup {None}, D \in SUBSET Duplicates :
        LET own == [answers EXCEPT ![i] = Append(@, r)] IN
        answers' = IF route = "stream" THEN WithCached(own, D) ELSE own
  <2>1. \A i \in Sends : (IF i = 0 THEN None ELSE response[i]) \in Outcomes \cup {None}
    BY DEF Sends, IndInv, TypeOK
  <2> QED
    BY <2>1 DEF ReceiveResult
<1> DEFINE own == [answers EXCEPT ![i] = Append(@, r)]
<1>3. DOMAIN own = {0} \cup Positions /\ (own[x] = answers[x] \/ own[x] = Append(answers[x], r))
  BY <1>1
<1>4. own[x] # << >> /\ \A v : Append(own[x], v) # << >>
  <2>1. \A s, v : Append(s, v) # << >>
    OBVIOUS
  <2> QED
    BY <1>3, <2>1
<1>5. answers' = IF route = "stream" THEN WithCached(own, D) ELSE own
  BY <1>2
<1> HIDE DEF own
<1> QED
  BY <1>3, <1>4, <1>5 DEF WithCached

(* Every step is a step of the promise, or leaves what it speaks of alone. *)
LEMMA StepKeepsPromise ==
  ASSUME IndInv, IndInv', DeliveredVerdicts, DeliveredVerdicts', [Next]_vars
  PROVE  [Promise!Next]_(Promise!vars)
<1> USE DEF dedupVars, workerVars, handlerVars, inputVars, envVars
<1>1. ASSUME UNCHANGED <<request, responseCache, answers, route, result>>
      PROVE  UNCHANGED Promise!vars
  BY <1>1 DEF Promise!vars, Delivered, Positions
<1>2. CASE Reject
  <2>1. /\ UNCHANGED <<request, responseCache>> /\ result = "open"
        /\ result' \in {"badRequest", "tooLarge"}
    BY <1>2 DEF Reject, IndInv, WaiterLast
  <2>2. \A i \in Positions : Delivered[i] = << >> /\ Delivered'[i] = << >>
    <3>1. handler = "parsing" /\ scanned = 0 /\ answers' = answers
      BY <1>2 DEF Reject, IndInv, Deduplicated
    <3>2. DOMAIN answers = {0} \cup Positions /\ 1..scanned = {}
      BY <3>1 DEF IndInv, TypeOK
    <3>3. \A i \in Positions : answers[i] = << >>
      BY <3>2 DEF IndInv, AnswersInOrder
    <3> QED
      BY <3>1, <3>3 DEF Delivered, Positions
  <2> QED
    BY <2>1, <2>2, RespondStep
<1>3. CASE Accept \/ Deduplicate \/ SetUp \/ WriteEnds \/ WaiterStep
           \/ ClientLeaves \/ DeadlineFires
           \/ \E i \in Positions : CheckReturns(i) \/ WorkerDone(i)
  BY <1>1, <1>3 DEF Accept, Deduplicate, SetUp, WriteEnds, WaiterStep, WaiterWakes, WaiterCloses,
                    ClientLeaves, DeadlineFires, CheckReturns, WorkerDone
<1>4. ASSUME NEW i \in Positions, OnResponse(i)
      PROVE  Promise!Next
  <2>1. /\ UNCHANGED <<request, answers, route, result>> /\ worker[i] = "checked"
        /\ responseCache' = [responseCache EXCEPT ![Key(i)] = response[i]]
    BY <1>4 DEF OnResponse
  <2>2. UNCHANGED Delivered
    BY <2>1 DEF Delivered, Positions
  <2>3. i \in toCheck /\ Key(i) \in Keys
    <3>1. i \in toCheck
      BY <2>1 DEF IndInv, WorkersInOrder
    <3> QED
      BY <3>1, Shape DEF IndInv
  <2>4. response[i] \in Outcomes /\ responseCache[Key(i)] = None
    BY <2>1, <2>3 DEF IndInv, TypeOK, WorkersInOrder, Stored, Finished
  <2>5. Promise!Decide(Key(i))
    BY <2>1, <2>2, <2>4 DEF Promise!Decide
  <2> QED
    BY <2>3, <2>5 DEF Promise!Next, Promise!Keys, Keys
<1>5. CASE ReceiveResult
  <2>1. UNCHANGED <<request, responseCache, route, result>> /\ result = "open"
    BY <1>5 DEF ReceiveResult, IndInv, WaiterLast
  <2>2. \A i \in Positions : Delivered[i] # << >> => Delivered'[i] # << >>
    BY <1>5, <2>1, AnswersStay DEF Delivered, Positions
  <2> QED
    BY <2>1, <2>2, RespondStep
<1>6. CASE ReceiveDone \/ DeadlineReached \/ ClientDisconnected \/ Reply
  <2>1. /\ UNCHANGED <<request, responseCache, route, answers>> /\ result = "open"
        /\ result' \notin {"badRequest", "tooLarge"}
    BY <1>6 DEF ReceiveDone, DeadlineReached, ClientDisconnected, Return, Reply, Endings,
                IndInv, WaiterLast
  <2>2. \A i \in Positions : Delivered[i] # << >> => Delivered'[i] # << >>
    BY <2>1 DEF Delivered, Positions
  <2> QED
    BY <2>1, <2>2, RespondStep
<1>8. CASE AddDuplicate
  <2>1. /\ UNCHANGED <<request, responseCache, route, result>>
        /\ route # "stream" /\ result = "open"
    BY <1>8 DEF AddDuplicate, IndInv, AnswersInOrder, WaiterLast, Endings
  <2> QED
    BY <2>1 DEF Promise!vars, Delivered, Positions
<1>7. CASE UNCHANGED vars
  BY <1>1, <1>7 DEF vars
<1> QED
  BY <1>2, <1>3, <1>4, <1>5, <1>6, <1>7, <1>8
     DEF Next, HandlerStep, ClientPaced, SelfPaced, WorkerStep

(* The list check keeps what URLListPromise states: run list_check checks  *)
(* it on short lists, this theorem says so for every list.                 *)
THEOREM Refinement == Spec => KeepsPromise
<1>1. Init => Promise!Init
  BY DEF Init, Promise!Init, Requests, Promise!Requests, Keys, Promise!Keys, Delivered,
         Positions, Promise!Positions
<1>2. IndInv /\ IndInv' /\ DeliveredVerdicts /\ DeliveredVerdicts' /\ [Next]_vars
        => [Promise!Next]_(Promise!vars)
  BY StepKeepsPromise
<1> QED
  BY <1>1, <1>2, InductiveInvariant, DeliveredShape, PTL DEF Spec, KeepsPromise, Promise!Spec

-----------------------------------------------------------------------------
(* The safety half of liveness: never stuck, and never running for ever.   *)

(* The select loop always has a case that is ready or still to come.       *)
THEOREM SelectAlwaysServed == Spec => []SelectIsServed
<1>1. IndInv => SelectIsServed
  <2> SUFFICES ASSUME IndInv, handler = "serving", Running = {}
               PROVE  waiter = "signalling" \/ (waiter = "waiting" /\ wg = 0)
    BY DEF SelectIsServed
  <2>1. result = "open" /\ Served /\ ~Leaving
    BY DEF IndInv, WaiterLast, Served, Leaving, Endings
  <2>2. wg = 0
    BY <2>1, FS_EmptySet DEF IndInv, WaiterLast
  <2>3. waiter \in {"waiting", "signalling"}
    BY <2>1 DEF IndInv, TypeOK, WaiterLast
  <2> QED
    BY <2>2, <2>3
<1> QED
  BY <1>1, InductiveInvariant, PTL

(* Only requests that were cut short leave goroutines behind.              *)
THEOREM CompleteLeavesWaiterOnly == Spec => []OnlyIncompleteLeaveGoroutines
<1>1. IndInv => OnlyIncompleteLeaveGoroutines
  <2> SUFFICES ASSUME IndInv, Returned, result \notin {"partial", "aborted"}
               PROVE  /\ \A i \in Positions : worker[i] \in {"none", "done"}
                      /\ waiter \in {"none", "closing", "done"}
    BY DEF OnlyIncompleteLeaveGoroutines
  <2>1. result \in {"badRequest", "tooLarge", "complete"}
    BY DEF IndInv, TypeOK, WaiterLast, Returned, Endings
  <2>2. CASE result = "complete"
    <3>1. waiter \in {"closing", "done"} /\ Running = {}
      BY <2>2 DEF IndInv, WaiterLast
    <3> QED
      BY <3>1 DEF IndInv, WorkersInOrder, Running
  <2>3. CASE result \in {"badRequest", "tooLarge"}
    <3>1. ~Served
      BY <2>3 DEF Served
    <3> QED
      BY <3>1 DEF IndInv, WorkersInOrder, WaiterLast
  <2> QED
    BY <2>1, <2>2, <2>3
<1> QED
  BY <1>1, InductiveInvariant, PTL

-----------------------------------------------------------------------------
(* The steps that are left, part by part.                                  *)
WorkersLeft(r, w) == Sum([i \in DOMAIN r |-> WorkerSteps[w[i]]])
AddsLeft(h, adds, r) == IF h \in Endings \cup {"returned"} THEN Cardinality(adds) ELSE Len(r)
OnceLeft(happened) == IF happened THEN 0 ELSE 1

LEMMA PartsOfSteps ==
  /\ StepsLeft = HandlerSteps(handler) + WaiterSteps[waiter] + (Len(request) - scanned)
                   + AddsLeft(handler, toAdd, request) + 2 * WorkersLeft(request, worker)
                   + OnceLeft(clientGone) + OnceLeft(deadlineFired)
  /\ StepsLeft' = HandlerSteps(handler') + WaiterSteps[waiter'] + (Len(request') - scanned')
                   + AddsLeft(handler', toAdd', request') + 2 * WorkersLeft(request', worker')
                   + OnceLeft(clientGone') + OnceLeft(deadlineFired')
<1>1. HandlerSteps(handler)' = HandlerSteps(handler')
  BY DEF HandlerSteps
<1>2. WaiterSteps[waiter]' = WaiterSteps[waiter']
  BY DEF WaiterSteps
<1>3. (IF Leaving THEN Cardinality(toAdd) ELSE Len(request))' = AddsLeft(handler', toAdd', request')
  BY DEF AddsLeft, Leaving
<1>4. (2 * Sum([i \in DOMAIN request |-> WorkerSteps[worker[i]]]))' = 2 * WorkersLeft(request', worker')
  <2>1. Sum([i \in DOMAIN request |-> WorkerSteps[worker[i]]])'
          = Sum([i \in DOMAIN request' |-> WorkerSteps[worker'[i]]])
    OBVIOUS
  <2> QED
    BY <2>1 DEF WorkersLeft
<1>5. StepsLeft' = HandlerSteps(handler)' + WaiterSteps[waiter]' + (Len(request) - scanned)'
                    + (IF Leaving THEN Cardinality(toAdd) ELSE Len(request))'
                    + (2 * Sum([i \in DOMAIN request |-> WorkerSteps[worker[i]]]))'
                    + (IF clientGone THEN 0 ELSE 1)' + (IF deadlineFired THEN 0 ELSE 1)'
  BY DEF StepsLeft
<1>6. StepsLeft = HandlerSteps(handler) + WaiterSteps[waiter] + (Len(request) - scanned)
                   + AddsLeft(handler, toAdd, request) + 2 * WorkersLeft(request, worker)
                   + OnceLeft(clientGone) + OnceLeft(deadlineFired)
  BY DEF StepsLeft, AddsLeft, WorkersLeft, OnceLeft, Leaving
<1>7. StepsLeft' = HandlerSteps(handler') + WaiterSteps[waiter'] + (Len(request') - scanned')
                   + AddsLeft(handler', toAdd', request') + 2 * WorkersLeft(request', worker')
                   + OnceLeft(clientGone') + OnceLeft(deadlineFired')
  BY <1>1, <1>2, <1>3, <1>4, <1>5 DEF OnceLeft
<1> QED
  BY <1>6, <1>7

Places == {"none", "checking", "checked", "sending", "sent", "done"}

LEMMA WorkersLeftType ==
  ASSUME NEW r \in Requests, NEW w \in [Positions -> Places]
  PROVE  /\ IsFiniteSet(DOMAIN r) /\ DOMAIN r \subseteq Positions
         /\ [i \in DOMAIN r |-> WorkerSteps[w[i]]] \in [DOMAIN r -> Nat]
         /\ WorkersLeft(r, w) \in Nat
<1>1. PICK n \in 0..MaxSize : r \in [1..n -> URLs]
  BY DEF Requests
<1>2. DOMAIN r = 1..n /\ DOMAIN r \subseteq Positions /\ IsFiniteSet(1..n)
  BY <1>1, FS_Interval, ListAssumption DEF Positions
<1>3. \A x \in Places : WorkerSteps[x] \in Nat
  BY DEF Places, WorkerSteps
<1>4. [i \in DOMAIN r |-> WorkerSteps[w[i]]] \in [DOMAIN r -> Nat]
  BY <1>2, <1>3
<1>5. WorkersLeft(r, w) \in Nat
  BY <1>2, <1>4, SumType DEF WorkersLeft
<1> QED
  BY <1>2, <1>4, <1>5

LEMMA PartsType ==
  ASSUME NEW h, NEW x \in {"none", "waiting", "signalling", "closing", "done"},
         NEW r \in Requests, NEW n \in Nat, n <= Len(r), NEW adds \in SUBSET (1..n),
         NEW gone \in BOOLEAN
  PROVE  /\ HandlerSteps(h) \in Nat /\ WaiterSteps[x] \in Nat /\ Len(r) - n \in Nat
         /\ AddsLeft(h, adds, r) \in Nat /\ AddsLeft(h, adds, r) <= Len(r)
         /\ OnceLeft(gone) \in Nat
         /\ IsFiniteSet(adds) /\ Cardinality(adds) \in Nat
<1>1. Len(r) \in Nat
  BY ListAssumption DEF Requests
<1>2. IsFiniteSet(1..n) /\ Cardinality(1..n) = n
  BY FS_Interval
<1>3. IsFiniteSet(adds) /\ Cardinality(adds) \in Nat /\ Cardinality(adds) <= n
  BY <1>2, FS_Subset, FS_CardinalityType
<1>4. AddsLeft(h, adds, r) \in Nat /\ AddsLeft(h, adds, r) <= Len(r)
  BY <1>1, <1>3 DEF AddsLeft
<1>5. HandlerSteps(h) \in Nat
  BY DEF HandlerSteps
<1>6. WaiterSteps[x] \in Nat
  BY DEF WaiterSteps
<1>7. Len(r) - n \in Nat
  BY <1>1
<1>8. OnceLeft(gone) \in Nat
  BY DEF OnceLeft
<1> QED
  BY <1>3, <1>4, <1>5, <1>6, <1>7, <1>8

(* One worker's step is one step less.                                     *)
LEMMA WorkersLeftLess ==
  ASSUME NEW r \in Requests, NEW w \in [Positions -> Places], NEW v \in [Positions -> Places],
         \A i \in DOMAIN r : WorkerSteps[v[i]] <= WorkerSteps[w[i]]
  PROVE  /\ WorkersLeft(r, v) <= WorkersLeft(r, w)
         /\ \A i \in DOMAIN r : WorkerSteps[v[i]] < WorkerSteps[w[i]] =>
              WorkersLeft(r, v) < WorkersLeft(r, w)
<1> DEFINE of(u) == [i \in DOMAIN r |-> WorkerSteps[u[i]]]
<1>1. of(v) \in [DOMAIN r -> Nat] /\ of(w) \in [DOMAIN r -> Nat] /\ IsFiniteSet(DOMAIN r)
  BY WorkersLeftType
<1>2. \A i \in DOMAIN r : of(v)[i] = WorkerSteps[v[i]] /\ of(w)[i] = WorkerSteps[w[i]]
  OBVIOUS
<1>3. WorkersLeft(r, v) = Sum(of(v)) /\ WorkersLeft(r, w) = Sum(of(w))
  BY DEF WorkersLeft
<1> HIDE DEF of
<1> QED
  BY <1>1, <1>2, <1>3, SumOfSmaller

(* No part has more steps left, and some part has fewer.                   *)
NoMoreSteps ==
  /\ HandlerSteps(handler') <= HandlerSteps(handler)
  /\ WaiterSteps[waiter'] <= WaiterSteps[waiter]
  /\ scanned <= scanned'
  /\ AddsLeft(handler', toAdd', request) <= AddsLeft(handler, toAdd, request)
  /\ WorkersLeft(request, worker') <= WorkersLeft(request, worker)
  /\ OnceLeft(clientGone') <= OnceLeft(clientGone)
  /\ OnceLeft(deadlineFired') <= OnceLeft(deadlineFired)

FewerSteps ==
  \/ HandlerSteps(handler') < HandlerSteps(handler)
  \/ WaiterSteps[waiter'] < WaiterSteps[waiter]
  \/ scanned < scanned'
  \/ AddsLeft(handler', toAdd', request) < AddsLeft(handler, toAdd, request)
  \/ WorkersLeft(request, worker') < WorkersLeft(request, worker)
  \/ OnceLeft(clientGone') < OnceLeft(clientGone)
  \/ OnceLeft(deadlineFired') < OnceLeft(deadlineFired)

LEMMA PartsAreNumbers ==
  ASSUME IndInv, IndInv', request' = request
  PROVE  /\ HandlerSteps(handler) \in Nat /\ HandlerSteps(handler') \in Nat
         /\ WaiterSteps[waiter] \in Nat /\ WaiterSteps[waiter'] \in Nat
         /\ scanned \in Nat /\ scanned' \in Nat /\ Len(request) \in Nat
         /\ scanned <= Len(request) /\ scanned' <= Len(request)
         /\ AddsLeft(handler, toAdd, request) \in Nat
         /\ AddsLeft(handler', toAdd', request) \in Nat
         /\ AddsLeft(handler', toAdd', request) <= Len(request)
         /\ WorkersLeft(request, worker) \in Nat /\ WorkersLeft(request, worker') \in Nat
         /\ OnceLeft(clientGone) \in Nat /\ OnceLeft(clientGone') \in Nat
         /\ OnceLeft(deadlineFired) \in Nat /\ OnceLeft(deadlineFired') \in Nat
         /\ Cardinality(toAdd) \in Nat /\ IsFiniteSet(toAdd)
<1> USE DEF IndInv
<1>1. /\ request \in Requests /\ scanned \in Nat /\ scanned <= Len(request)
      /\ toAdd \in SUBSET (1..scanned)
      /\ waiter \in {"none", "waiting", "signalling", "closing", "done"}
      /\ clientGone \in BOOLEAN /\ deadlineFired \in BOOLEAN
      /\ worker \in [Positions -> Places]
  BY ListAssumption DEF TypeOK, Deduplicated, AnswersInOrder, Duplicates, Places
<1>2. /\ scanned' \in Nat /\ scanned' <= Len(request)
      /\ toAdd' \in SUBSET (1..scanned')
      /\ waiter' \in {"none", "waiting", "signalling", "closing", "done"}
      /\ clientGone' \in BOOLEAN /\ deadlineFired' \in BOOLEAN
      /\ worker' \in [Positions -> Places]
  BY ListAssumption DEF TypeOK, Deduplicated, AnswersInOrder, Duplicates, Places
<1>3. Len(request) \in Nat
  BY <1>1, RequestShape, ListAssumption
<1>4. WorkersLeft(request, worker) \in Nat /\ WorkersLeft(request, worker') \in Nat
  BY <1>1, <1>2, WorkersLeftType
<1>5. OnceLeft(deadlineFired) \in Nat /\ OnceLeft(deadlineFired') \in Nat
  BY DEF OnceLeft
<1>6. /\ HandlerSteps(handler) \in Nat /\ WaiterSteps[waiter] \in Nat
      /\ AddsLeft(handler, toAdd, request) \in Nat /\ OnceLeft(clientGone) \in Nat
      /\ Cardinality(toAdd) \in Nat /\ IsFiniteSet(toAdd)
  BY <1>1, PartsType
<1>7. /\ HandlerSteps(handler') \in Nat /\ WaiterSteps[waiter'] \in Nat
      /\ AddsLeft(handler', toAdd', request) \in Nat /\ OnceLeft(clientGone') \in Nat
      /\ AddsLeft(handler', toAdd', request) <= Len(request)
  BY <1>1, <1>2, PartsType
<1> QED
  BY <1>1, <1>2, <1>3, <1>4, <1>5, <1>6, <1>7

LEMMA FewerInAll ==
  ASSUME IndInv, IndInv', request' = request, NoMoreSteps, FewerSteps
  PROVE  StepsLeft' < StepsLeft
<1> DEFINE h == HandlerSteps(handler)                h1 == HandlerSteps(handler')
           x == WaiterSteps[waiter]                  x1 == WaiterSteps[waiter']
           s == Len(request) - scanned               s1 == Len(request) - scanned'
           a == AddsLeft(handler, toAdd, request)    a1 == AddsLeft(handler', toAdd', request)
           w == WorkersLeft(request, worker)         w1 == WorkersLeft(request, worker')
           g == OnceLeft(clientGone)                 g1 == OnceLeft(clientGone')
           d == OnceLeft(deadlineFired)              d1 == OnceLeft(deadlineFired')
<1>1. StepsLeft = h + x + s + a + 2 * w + g + d
  BY PartsOfSteps
<1>2. StepsLeft' = h1 + x1 + s1 + a1 + 2 * w1 + g1 + d1
  BY PartsOfSteps
<1>3. /\ h \in Nat /\ x \in Nat /\ s \in Nat /\ a \in Nat /\ w \in Nat /\ g \in Nat /\ d \in Nat
      /\ h1 \in Nat /\ x1 \in Nat /\ s1 \in Nat /\ a1 \in Nat /\ w1 \in Nat
      /\ g1 \in Nat /\ d1 \in Nat
  BY PartsAreNumbers
<1>4. (scanned <= scanned' => s1 <= s) /\ (scanned < scanned' => s1 < s)
  BY PartsAreNumbers
<1>5. h1 <= h /\ x1 <= x /\ s1 <= s /\ a1 <= a /\ w1 <= w /\ g1 <= g /\ d1 <= d
  BY <1>4 DEF NoMoreSteps
<1>6. h1 < h \/ x1 < x \/ s1 < s \/ a1 < a \/ w1 < w \/ g1 < g \/ d1 < d
  BY <1>4 DEF FewerSteps
<1> HIDE DEF h, x, s, a, w, g, d, h1, x1, s1, a1, w1, g1, d1
<1> QED
  BY <1>1, <1>2, <1>3, <1>5, <1>6

(* A write that begins is one step more, and its worker's receive two less. *)
LEMMA FewerByReceive ==
  ASSUME IndInv, IndInv', request' = request,
         UNCHANGED <<waiter, scanned, clientGone, deadlineFired>>,
         AddsLeft(handler', toAdd', request) = AddsLeft(handler, toAdd, request),
         HandlerSteps(handler') <= HandlerSteps(handler) + 1,
         WorkersLeft(request, worker') < WorkersLeft(request, worker)
  PROVE  StepsLeft' < StepsLeft
<1> DEFINE h == HandlerSteps(handler)                h1 == HandlerSteps(handler')
           x == WaiterSteps[waiter]                  s == Len(request) - scanned
           a == AddsLeft(handler, toAdd, request)    a1 == AddsLeft(handler', toAdd', request')
           w == WorkersLeft(request, worker)         w1 == WorkersLeft(request, worker')
           g == OnceLeft(clientGone)                 d == OnceLeft(deadlineFired)
<1>1. StepsLeft = h + x + s + a + 2 * w + g + d
  BY ONLY PartsOfSteps
<1>2. StepsLeft' = h1 + WaiterSteps[waiter'] + (Len(request') - scanned') + a1
                     + 2 * WorkersLeft(request', worker')
                     + OnceLeft(clientGone') + OnceLeft(deadlineFired')
  BY ONLY PartsOfSteps
<1>3. StepsLeft' = h1 + x + s + a + 2 * w1 + g + d
  BY <1>2
<1>4. /\ h \in Nat /\ x \in Nat /\ s \in Nat /\ a \in Nat /\ w \in Nat /\ g \in Nat /\ d \in Nat
      /\ h1 \in Nat /\ w1 \in Nat
  BY PartsAreNumbers
<1>5. h1 <= h + 1 /\ w1 < w
  OBVIOUS
<1> HIDE DEF h, x, s, a, w, g, d, h1, w1
<1> QED
  BY <1>1, <1>3, <1>4, <1>5

(* A step of a worker alone.                                               *)
LEMMA WorkerStepFewer ==
  ASSUME IndInv, IndInv', request' = request, NEW i \in DOMAIN request, NEW x \in Places,
         worker' = [worker EXCEPT ![i] = x], WorkerSteps[x] < WorkerSteps[worker[i]]
  PROVE  WorkersLeft(request, worker') < WorkersLeft(request, worker)
<1>1. request \in Requests /\ worker \in [Positions -> Places] /\ worker' \in [Positions -> Places]
  BY DEF IndInv, TypeOK, Places
<1>2. DOMAIN request \subseteq Positions
  BY <1>1, WorkersLeftType
<1>3. \A j \in Positions : WorkerSteps[worker[j]] \in Nat
  BY <1>1 DEF Places, WorkerSteps
<1>4. \A j \in DOMAIN request : WorkerSteps[worker'[j]] <= WorkerSteps[worker[j]]
  <2> SUFFICES ASSUME NEW j \in DOMAIN request
               PROVE  WorkerSteps[worker'[j]] <= WorkerSteps[worker[j]]
    OBVIOUS
  <2>1. j \in Positions /\ WorkerSteps[worker[j]] \in Nat
    BY <1>2, <1>3
  <2>2. CASE j = i
    <3>1. worker'[j] = x /\ WorkerSteps[x] \in Nat
      BY <1>1, <2>1, <2>2 DEF Places, WorkerSteps
    <3> QED
      BY <2>1, <2>2, <3>1
  <2>3. CASE j # i
    <3>1. worker'[j] = worker[j]
      BY <1>1, <2>1, <2>3
    <3> QED
      BY <2>1, <3>1
  <2> QED
    BY <2>2, <2>3
<1>5. WorkerSteps[worker'[i]] < WorkerSteps[worker[i]]
  BY <1>1, <1>2
<1> QED
  BY <1>1, <1>4, <1>5, WorkersLeftLess

(* A request's positions; those with a goroutine are some of them.         *)
LEMMA WorkersArePositions ==
  ASSUME IndInv, NEW i \in Positions, worker[i] # "none"
  PROVE  i \in DOMAIN request
<1>1. i \in 1..scanned /\ scanned <= Len(request) /\ scanned \in Nat
  BY ListAssumption DEF IndInv, WorkersInOrder, Deduplicated, TypeOK
<1>2. DOMAIN request = 1..Len(request) /\ Len(request) \in Nat
  BY RequestShape, ListAssumption DEF IndInv, TypeOK
<1> QED
  BY <1>1, <1>2

(* What a step leaves alone has as many steps left as before.              *)
LEMMA LeftAlone ==
  ASSUME IndInv, IndInv', request' = request
  PROVE  /\ handler' = handler => HandlerSteps(handler') <= HandlerSteps(handler)
         /\ waiter' = waiter => WaiterSteps[waiter'] <= WaiterSteps[waiter]
         /\ scanned' = scanned => scanned <= scanned'
         /\ worker' = worker => WorkersLeft(request, worker') <= WorkersLeft(request, worker)
         /\ handler' = handler /\ toAdd' = toAdd =>
              AddsLeft(handler', toAdd', request) <= AddsLeft(handler, toAdd, request)
         /\ clientGone' = clientGone => OnceLeft(clientGone') <= OnceLeft(clientGone)
         /\ deadlineFired' = deadlineFired => OnceLeft(deadlineFired') <= OnceLeft(deadlineFired)
  BY PartsAreNumbers

(* The handler comes to its end, and what is added later is on the list.   *)
LEMMA ReturnFewer ==
  ASSUME IndInv, IndInv', request' = request, NEW res \in Endings, Return(res)
  PROVE  /\ HandlerSteps(handler') < HandlerSteps(handler)
         /\ AddsLeft(handler', toAdd', request) <= AddsLeft(handler, toAdd, request)
<1>1. handler = "serving" /\ handler' \in Endings \cup {"returned"}
  BY DEF Return
<1>2. HandlerSteps(handler') < HandlerSteps(handler)
  BY <1>1 DEF HandlerSteps, Endings
<1>3. AddsLeft(handler, toAdd, request) = Len(request)
  BY <1>1 DEF AddsLeft, Endings
<1> QED
  BY <1>2, <1>3, PartsAreNumbers

(* The handler's steps before the select loop.                             *)
LEMMA SetUpFewer ==
  ASSUME IndInv, IndInv', Reject \/ Accept \/ Deduplicate \/ SetUp
  PROVE  StepsLeft' < StepsLeft
<1> USE DEF dedupVars, workerVars, handlerVars, inputVars, envVars
<1>1. CASE Reject
  <2>1. /\ request' = request /\ handler = "parsing" /\ handler' = "returned"
        /\ UNCHANGED <<waiter, scanned, worker, toAdd, clientGone, deadlineFired>>
    BY <1>1 DEF Reject
  <2>2. HandlerSteps(handler') < HandlerSteps(handler)
    BY <2>1 DEF HandlerSteps, Endings
  <2>3. AddsLeft(handler, toAdd, request) = Len(request)
    BY <2>1 DEF AddsLeft, Endings
  <2> QED
    BY <2>1, <2>2, <2>3, PartsAreNumbers, LeftAlone, FewerInAll DEF NoMoreSteps, FewerSteps
<1>2. CASE Accept
  <2>1. /\ request' = request /\ handler = "parsing" /\ handler' = "deduplicating"
        /\ UNCHANGED <<waiter, scanned, worker, toAdd, clientGone, deadlineFired>>
    BY <1>2 DEF Accept
  <2>2. HandlerSteps(handler') < HandlerSteps(handler)
    BY <2>1 DEF HandlerSteps, Endings
  <2>3. AddsLeft(handler, toAdd, request) = Len(request)
    BY <2>1 DEF AddsLeft, Endings
  <2> QED
    BY <2>1, <2>2, <2>3, PartsAreNumbers, LeftAlone, FewerInAll DEF NoMoreSteps, FewerSteps
<1>3. CASE Deduplicate
  <2>1. /\ request' = request /\ scanned' = scanned + 1
        /\ UNCHANGED <<handler, waiter, worker, toAdd, clientGone, deadlineFired>>
    BY <1>3 DEF Deduplicate
  <2>2. scanned < scanned'
    BY <2>1, PartsAreNumbers
  <2> QED
    BY <2>1, <2>2, PartsAreNumbers, LeftAlone, FewerInAll DEF NoMoreSteps, FewerSteps
<1>4. CASE SetUp
  <2>1. /\ request' = request /\ handler = "deduplicating" /\ handler' = "serving"
        /\ waiter' = "waiting" /\ UNCHANGED <<scanned, toAdd, clientGone, deadlineFired>>
        /\ worker' = [i \in Positions |-> IF i \in toCheck THEN "checking" ELSE "none"]
    BY <1>4 DEF SetUp
  <2>2. ~Served /\ waiter = "none" /\ \A i \in Positions : worker[i] = "none"
    BY <2>1 DEF IndInv, Served, WaiterLast, WorkersInOrder
  <2>3. HandlerSteps(handler') < HandlerSteps(handler) /\ WaiterSteps[waiter'] <= WaiterSteps[waiter]
    BY <2>1, <2>2 DEF HandlerSteps, WaiterSteps, Endings
  <2>4. AddsLeft(handler, toAdd, request) = Len(request)
    BY <2>1 DEF AddsLeft, Endings
  <2>5. /\ request \in Requests /\ worker \in [Positions -> Places]
        /\ worker' \in [Positions -> Places]
    BY <2>1 DEF IndInv, TypeOK, Places
  <2>6. \A i \in DOMAIN request : WorkerSteps[worker'[i]] <= WorkerSteps[worker[i]]
    BY <2>1, <2>2, <2>5, WorkersLeftType DEF WorkerSteps
  <2>7. WorkersLeft(request, worker') <= WorkersLeft(request, worker)
    BY <2>5, <2>6, WorkersLeftLess
  <2> QED
    BY <2>1, <2>3, <2>4, <2>7, PartsAreNumbers, LeftAlone, FewerInAll
       DEF NoMoreSteps, FewerSteps
<1> QED
  BY <1>1, <1>2, <1>3, <1>4

(* The select loop and the batch's reply.                                  *)
LEMMA ServingFewer ==
  ASSUME IndInv, IndInv',
         ReceiveResult \/ WriteEnds \/ ReceiveDone \/ DeadlineReached \/ ClientDisconnected
           \/ AddDuplicate \/ Reply
  PROVE  StepsLeft' < StepsLeft
<1> USE DEF dedupVars, workerVars, handlerVars, inputVars, envVars
<1>1. CASE ReceiveResult
  <2>1. /\ request' = request /\ handler = "serving" /\ handler' \in {"serving", "writing"}
        /\ UNCHANGED <<waiter, scanned, toAdd, clientGone, deadlineFired>>
    BY <1>1 DEF ReceiveResult
  <2>2. waiter # "done"
    BY <2>1 DEF IndInv, WaiterLast, Leaving, Endings
  <2>3. PICK i \in Sends : worker' = [j \in Positions |-> IF j = i THEN "sent" ELSE worker[j]]
    BY <1>1 DEF ReceiveResult
  <2>4. i \in Positions /\ worker[i] = "sending"
    BY <2>2, <2>3 DEF Sends, Closed
  <2>5. worker' = [worker EXCEPT ![i] = "sent"]
    BY <2>3 DEF IndInv, TypeOK
  <2>6. i \in DOMAIN request
    BY <2>4, WorkersArePositions
  <2>7. WorkerSteps["sent"] < WorkerSteps[worker[i]] /\ "sent" \in Places
    BY <2>4 DEF WorkerSteps, Places
  <2>8. WorkersLeft(request, worker') < WorkersLeft(request, worker)
    BY <2>1, <2>5, <2>6, <2>7, WorkerStepFewer
  <2>9. HandlerSteps(handler') <= HandlerSteps(handler) + 1
    BY <2>1 DEF HandlerSteps
  <2>10. AddsLeft(handler', toAdd', request) = AddsLeft(handler, toAdd, request)
    BY <2>1 DEF AddsLeft, Endings
  <2> QED
    BY <2>1, <2>8, <2>9, <2>10, FewerByReceive
<1>2. CASE ReceiveDone
  <2>1. /\ request' = request /\ waiter = "signalling" /\ waiter' = "closing"
        /\ UNCHANGED <<scanned, worker, clientGone, deadlineFired>> /\ Return("complete")
    BY <1>2 DEF ReceiveDone
  <2>2. WaiterSteps[waiter'] < WaiterSteps[waiter]
    BY <2>1 DEF WaiterSteps
  <2>3. /\ HandlerSteps(handler') < HandlerSteps(handler)
        /\ AddsLeft(handler', toAdd', request) <= AddsLeft(handler, toAdd, request)
    BY <2>1, ReturnFewer DEF Endings
  <2> QED
    BY <2>1, <2>2, <2>3, PartsAreNumbers, LeftAlone, FewerInAll DEF NoMoreSteps, FewerSteps
<1>3. CASE DeadlineReached \/ ClientDisconnected
  <2>1. /\ request' = request /\ UNCHANGED <<waiter, scanned, worker, clientGone, deadlineFired>>
        /\ \E res \in Endings : Return(res)
    BY <1>3 DEF DeadlineReached, ClientDisconnected, Endings
  <2>2. /\ HandlerSteps(handler') < HandlerSteps(handler)
        /\ AddsLeft(handler', toAdd', request) <= AddsLeft(handler, toAdd, request)
    BY <2>1, ReturnFewer
  <2> QED
    BY <2>1, <2>2, PartsAreNumbers, LeftAlone, FewerInAll DEF NoMoreSteps, FewerSteps
<1>4. CASE AddDuplicate
  <2>1. /\ request' = request /\ handler \in Endings
        /\ UNCHANGED <<handler, waiter, scanned, worker, clientGone, deadlineFired>>
        /\ \E i \in toAdd : toAdd' = toAdd \ {i}
    BY <1>4 DEF AddDuplicate
  <2>2. Cardinality(toAdd') < Cardinality(toAdd)
    <3>1. PICK i \in toAdd : toAdd' = toAdd \ {i}
      BY <2>1
    <3>2. IsFiniteSet(toAdd) /\ Cardinality(toAdd) \in Nat
      BY <2>1, PartsAreNumbers
    <3>3. Cardinality(toAdd') = Cardinality(toAdd) - 1
      BY <3>1, <3>2, FS_RemoveElement
    <3> QED
      BY <3>2, <3>3
  <2>3. AddsLeft(handler', toAdd', request) < AddsLeft(handler, toAdd, request)
    BY <2>1, <2>2 DEF AddsLeft
  <2> QED
    BY <2>1, <2>3, PartsAreNumbers, LeftAlone, FewerInAll DEF NoMoreSteps, FewerSteps
<1>5. CASE Reply
  <2>1. /\ request' = request /\ handler \in Endings /\ handler' = "returned"
        /\ UNCHANGED <<waiter, scanned, worker, toAdd, clientGone, deadlineFired>>
    BY <1>5 DEF Reply
  <2>2. HandlerSteps(handler') < HandlerSteps(handler)
    BY <2>1 DEF HandlerSteps, Endings
  <2>3. AddsLeft(handler', toAdd', request) = AddsLeft(handler, toAdd, request)
    BY <2>1 DEF AddsLeft
  <2> QED
    BY <2>1, <2>2, <2>3, PartsAreNumbers, LeftAlone, FewerInAll DEF NoMoreSteps, FewerSteps
<1>6. CASE WriteEnds
  <2>1. /\ request' = request /\ handler = "writing" /\ handler' = "serving"
        /\ UNCHANGED <<waiter, scanned, worker, toAdd, clientGone, deadlineFired>>
    BY <1>6 DEF WriteEnds
  <2>2. HandlerSteps(handler') < HandlerSteps(handler)
    BY <2>1 DEF HandlerSteps
  <2>3. AddsLeft(handler', toAdd', request) = AddsLeft(handler, toAdd, request)
    BY <2>1 DEF AddsLeft, Endings
  <2> QED
    BY <2>1, <2>2, <2>3, PartsAreNumbers, LeftAlone, FewerInAll DEF NoMoreSteps, FewerSteps
<1> QED
  BY <1>1, <1>2, <1>3, <1>4, <1>5, <1>6

(* The workers' and the waiter's steps, the client and the timer.          *)
LEMMA GoroutinesFewer ==
  ASSUME IndInv, IndInv',
         \/ \E i \in Positions : CheckReturns(i) \/ WorkerStep(i)
         \/ WaiterStep \/ ClientLeaves \/ DeadlineFires
  PROVE  StepsLeft' < StepsLeft
<1> USE DEF dedupVars, workerVars, handlerVars, inputVars, envVars
<1>1. CASE \E i \in Positions : CheckReturns(i) \/ WorkerStep(i)
  <2>1. /\ request' = request
        /\ UNCHANGED <<handler, waiter, scanned, toAdd, clientGone, deadlineFired>>
    BY <1>1 DEF CheckReturns, WorkerStep, OnResponse, WorkerDone
  <2>2. PICK i \in Positions : CheckReturns(i) \/ WorkerStep(i)
    BY <1>1
  <2>3. \E x \in Places : /\ worker' = [worker EXCEPT ![i] = x] /\ worker[i] # "none"
                          /\ WorkerSteps[x] < WorkerSteps[worker[i]]
    BY <2>2 DEF CheckReturns, WorkerStep, OnResponse, WorkerDone, Places, WorkerSteps
  <2>4. i \in DOMAIN request
    BY <2>3, WorkersArePositions
  <2>5. WorkersLeft(request, worker') < WorkersLeft(request, worker)
    BY <2>1, <2>3, <2>4, WorkerStepFewer
  <2> QED
    BY <2>1, <2>5, PartsAreNumbers, LeftAlone, FewerInAll DEF NoMoreSteps, FewerSteps
<1>2. CASE WaiterStep
  <2>1. /\ request' = request
        /\ UNCHANGED <<handler, scanned, worker, toAdd, clientGone, deadlineFired>>
    BY <1>2 DEF WaiterStep, WaiterWakes, WaiterCloses
  <2>2. WaiterSteps[waiter'] < WaiterSteps[waiter]
    BY <1>2 DEF WaiterStep, WaiterWakes, WaiterCloses, WaiterSteps
  <2> QED
    BY <2>1, <2>2, PartsAreNumbers, LeftAlone, FewerInAll DEF NoMoreSteps, FewerSteps
<1>3. CASE ClientLeaves
  <2>1. /\ request' = request /\ ~clientGone /\ clientGone' = TRUE
        /\ UNCHANGED <<handler, waiter, scanned, worker, toAdd, deadlineFired>>
    BY <1>3 DEF ClientLeaves
  <2>2. OnceLeft(clientGone') < OnceLeft(clientGone) /\ OnceLeft(clientGone') <= OnceLeft(clientGone)
    BY <2>1 DEF OnceLeft
  <2> QED
    BY <2>1, <2>2, PartsAreNumbers, LeftAlone, FewerInAll DEF NoMoreSteps, FewerSteps
<1>4. CASE DeadlineFires
  <2>1. /\ request' = request /\ ~deadlineFired /\ deadlineFired' = TRUE
        /\ UNCHANGED <<handler, waiter, scanned, worker, toAdd, clientGone>>
    BY <1>4 DEF DeadlineFires
  <2>2. OnceLeft(deadlineFired') < OnceLeft(deadlineFired) /\ OnceLeft(deadlineFired') <= OnceLeft(deadlineFired)
    BY <2>1 DEF OnceLeft
  <2> QED
    BY <2>1, <2>2, PartsAreNumbers, LeftAlone, FewerInAll DEF NoMoreSteps, FewerSteps
<1> QED
  BY <1>1, <1>2, <1>3, <1>4

(* Every step leaves fewer steps.                                          *)
THEOREM StepsAlwaysRunOut == Spec => StepsRunOut
<1>1. IndInv /\ IndInv' /\ [Next]_vars => [StepsLeft' < StepsLeft]_vars
  <2> SUFFICES ASSUME IndInv, IndInv', Next PROVE StepsLeft' < StepsLeft
    OBVIOUS
  <2>1. CASE HandlerStep
    BY <2>1, SetUpFewer, ServingFewer DEF HandlerStep, ClientPaced, SelfPaced
  <2>2. CASE ~HandlerStep
    BY <2>2, GoroutinesFewer DEF Next
  <2> QED
    BY <2>1, <2>2
<1> QED
  BY <1>1, InductiveInvariant, PTL DEF Spec, StepsRunOut
=============================================================================
