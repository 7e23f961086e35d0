------------------------ MODULE CheckPipelineProofs -------------------------
(***************************************************************************)
(* Proofs about CheckPipeline, for any calls, URLs, limit and times: the   *)
(* inductive invariant IndInv, the guard's accounting, the age of cached   *)
(* failures, and that the pipeline implements CheckPromise.                *)
(***************************************************************************)
EXTENDS CheckPipeline, FiniteSetTheorems, TLAPS

(* The calls that hold a token.                                            *)
Waiting == {c \in Calls : pc[c] = "waiting"}

(* A call that begins or ends to wait changes their number by one.         *)
LEMMA WaitingCount ==
  ASSUME NEW W, NEW c, IsFiniteSet(W)
  PROVE  /\ Cardinality(W) \in Nat
         /\ c \notin W => Cardinality(W \cup {c}) = Cardinality(W) + 1
         /\ c \in W => Cardinality(W \ {c}) = Cardinality(W) - 1 /\ Cardinality(W) # 0
<1>1. Cardinality(W) \in Nat
  BY FS_CardinalityType
<1>2. c \notin W => Cardinality(W \cup {c}) = Cardinality(W) + 1
  BY FS_AddElement
<1>3. c \in W => Cardinality(W \ {c}) = Cardinality(W) - 1
  BY FS_RemoveElement
<1>4. c \in W => Cardinality(W) # 0
  BY FS_EmptySet
<1> QED
  BY <1>1, <1>2, <1>3, <1>4

LEMMA WaitingFinite == IsFiniteSet(Waiting) /\ IsFiniteSet(Waiting')
  BY PipelineAssumption, FS_Subset DEF Waiting

(* The initial states.                                                     *)
LEMMA InitIndInv == Init => IndInv
<1> SUFFICES ASSUME Init PROVE IndInv
  OBVIOUS
<1> USE PipelineAssumption, NoneAssumption
<1>1. TypeOK
  BY DEF Init, TypeOK, Seconds
<1>2. TokensAreHeld
  <2>1. {c \in Calls : pc[c] = "waiting"} = {}
    BY DEF Init
  <2> QED
    BY <2>1, FS_EmptySet DEF Init, TokensAreHeld
<1>3. ResultsInOrder /\ DroppedStaysHome /\ FoundSinceAsked /\ OnlyCancelledLeaveGoroutines
  BY DEF Init, ResultsInOrder, DroppedStaysHome, IsDropped, FoundSinceAsked,
         OnlyCancelledLeaveGoroutines
<1> QED
  BY <1>1, <1>2, <1>3 DEF IndInv

(* Results that the actions make.                                          *)
LEMMA MadeResults ==
  ASSUME NEW status \in {"ok", "broken", "dropped"}, NEW at \in Seconds, NEW cut \in BOOLEAN
  PROVE  LET r == [status |-> status, at |-> at, cut |-> cut] IN
         r \in Results /\ r # None /\ r.status = status /\ r.at = at
<1> DEFINE r == [status |-> status, at |-> at, cut |-> cut]
<1>1. r \in Results
  BY DEF Results
<1>2. r # None
  BY <1>1, NoneAssumption
<1> QED
  BY <1>1, <1>2

LEMMA MadeDropped ==
  ASSUME NEW at \in Seconds
  PROVE  Dropped(at) \in Results /\ Dropped(at) # None /\ Dropped(at).status = "dropped"
  BY MadeResults DEF Dropped

-----------------------------------------------------------------------------
(* What the goroutine's end does, whichever way it ends.                   *)
InnerEnds(c) ==
  \E status \in {"ok", "broken", "dropped"}, cut \in BOOLEAN :
    /\ inner[c] \in {"entering", "requesting"}
    /\ status = "dropped" => c \in ctxDone
    /\ Finds(c, status, cut)

LEMMA InnerEndings ==
  ASSUME NEW c \in Calls, EntryRefused(c) \/ RequestEnds(c)
  PROVE  InnerEnds(c)
  BY DEF EntryRefused, RequestEnds, RequestReturns, RequestCut, InnerEnds

(* Types.                                                                  *)
LEMMA StepTypeOK == IndInv /\ [Next]_vars => TypeOK'
<1> SUFFICES ASSUME IndInv, [Next]_vars PROVE TypeOK'
  OBVIOUS
<1> USE PipelineAssumption, NoneAssumption
<1>0. TypeOK /\ TokensAreHeld /\ ResultsInOrder
  BY DEF IndInv
<1>1. CASE UNCHANGED vars
  BY <1>0, <1>1 DEF vars, callVars, innerVars, TypeOK
<1>2. ASSUME NEW c \in Calls, CacheHit(c) PROVE TypeOK'
  BY <1>0, <1>2 DEF CacheHit, AfterHit, Hit, innerVars, TypeOK
<1>3. ASSUME NEW c \in Calls, CacheMiss(c) PROVE TypeOK'
  BY <1>0, <1>3 DEF CacheMiss, innerVars, TypeOK
<1>4. ASSUME NEW c \in Calls, StoreResult(c) PROVE TypeOK'
  <2>1. result[c] \in Results /\ url[c] \in URLs
    BY <1>0, <1>4 DEF StoreResult, ResultsInOrder, TypeOK
  <2> QED
    BY <1>0, <1>4, <2>1 DEF StoreResult, innerVars, TypeOK
<1>5. ASSUME NEW c \in Calls, Acquire(c) PROVE TypeOK'
  BY <1>0, <1>5 DEF Acquire, TypeOK
<1>6. ASSUME NEW c \in Calls, AcquireFails(c) PROVE TypeOK'
  <2>1. Dropped(started[c]) \in Results
    BY <1>0, MadeDropped DEF TypeOK
  <2> QED
    BY <1>0, <1>6, <2>1 DEF AcquireFails, innerVars, TypeOK
<1>7. ASSUME NEW c \in Calls, TakeResult(c) \/ TakeCancellation(c) PROVE TypeOK'
  <2>1. Dropped(started[c]) \in Results
    BY <1>0, MadeDropped DEF TypeOK
  <2>2. c \in Waiting
    BY <1>7 DEF TakeResult, TakeCancellation, Waiting
  <2>3. tokens \in Nat /\ tokens # 0
    BY <1>0, <2>2, WaitingCount, WaitingFinite DEF TokensAreHeld, Waiting
  <2>4. tokens - 1 \in Nat
    BY <2>3
  <2>5. CASE TakeResult(c)
    BY <1>0, <2>4, <2>5 DEF TakeResult, TypeOK
  <2>6. CASE TakeCancellation(c)
    BY <1>0, <2>1, <2>4, <2>6 DEF TakeCancellation, ReleasedByCancelled, innerVars, TypeOK
  <2> QED
    BY <1>7, <2>5, <2>6
<1>8. ASSUME NEW c \in Calls, EnterRequest(c) PROVE TypeOK'
  BY <1>0, <1>8 DEF EnterRequest, callVars, TypeOK
<1>9. ASSUME NEW c \in Calls, EntryRefused(c) \/ RequestEnds(c) PROVE TypeOK'
  <2>1. PICK status \in {"ok", "broken", "dropped"}, cut \in BOOLEAN : Finds(c, status, cut)
    BY <1>9, InnerEndings DEF InnerEnds
  <2>2. [status |-> status, at |-> now, cut |-> cut] \in Results
    BY <1>0 DEF TypeOK, Results
  <2> QED
    BY <1>0, <2>1, <2>2 DEF Finds, callVars, TypeOK
<1>10. ASSUME NEW c \in Calls, Cancel(c) PROVE TypeOK'
  BY <1>0, <1>10 DEF Cancel, callVars, innerVars, TypeOK
<1>11. ASSUME NEW u \in URLs, Evict(u) PROVE TypeOK'
  BY <1>0, <1>11 DEF Evict, callVars, innerVars, TypeOK
<1>12. CASE Tick
  BY <1>0, <1>12 DEF Tick, callVars, innerVars, TypeOK, Seconds
<1> QED
  BY <1>1, <1>2, <1>3, <1>4, <1>5, <1>6, <1>7, <1>8, <1>9, <1>10, <1>11, <1>12
     DEF Next, CallStep

-----------------------------------------------------------------------------
(* A call takes a token as it begins to wait, and gives it back as it      *)
(* ends to; nobody else touches the guard.                                 *)
LEMMA StepTokens == IndInv /\ [Next]_vars => TokensAreHeld'
<1> SUFFICES ASSUME IndInv, [Next]_vars PROVE TokensAreHeld'
  OBVIOUS
<1> USE PipelineAssumption
<1>0. TypeOK /\ tokens = Cardinality(Waiting) /\ tokens <= Limit /\ tokens \in Nat
  BY DEF IndInv, TypeOK, TokensAreHeld, Waiting
<1>1. ASSUME NEW c \in Calls, Acquire(c) PROVE TokensAreHeld'
  <2>1. Waiting' = Waiting \cup {c} /\ c \notin Waiting
    BY <1>0, <1>1 DEF Acquire, Waiting, TypeOK
  <2>2. Cardinality(Waiting') = Cardinality(Waiting) + 1
    BY <2>1, WaitingCount, WaitingFinite
  <2> QED
    BY <1>0, <1>1, <2>2 DEF Acquire, TokensAreHeld, Waiting
<1>2. ASSUME NEW c \in Calls, TakeResult(c) \/ TakeCancellation(c) PROVE TokensAreHeld'
  <2>1. Waiting' = Waiting \ {c} /\ c \in Waiting
    BY <1>0, <1>2 DEF TakeResult, TakeCancellation, Waiting, TypeOK
  <2>2. Cardinality(Waiting') = Cardinality(Waiting) - 1
    BY <2>1, WaitingCount, WaitingFinite
  <2>3. tokens' = tokens - 1
    BY <1>2 DEF TakeResult, TakeCancellation, ReleasedByCancelled
  <2> QED
    BY <1>0, <2>2, <2>3 DEF TokensAreHeld, Waiting
<1>3. ASSUME Waiting' = Waiting, tokens' = tokens PROVE TokensAreHeld'
  BY <1>0, <1>3 DEF TokensAreHeld, Waiting
<1>4. ASSUME NEW c \in Calls,
             CacheHit(c) \/ CacheMiss(c) \/ AcquireFails(c) \/ StoreResult(c)
      PROVE  Waiting' = Waiting /\ tokens' = tokens
  BY <1>0, <1>4 DEF CacheHit, AfterHit, CacheMiss, AcquireFails, StoreResult, Waiting, TypeOK
<1>5. ASSUME NEW c \in Calls,
             EnterRequest(c) \/ EntryRefused(c) \/ RequestEnds(c) \/ Cancel(c)
      PROVE  Waiting' = Waiting /\ tokens' = tokens
  BY <1>5 DEF EnterRequest, EntryRefused, RequestEnds, RequestReturns, RequestCut, Finds,
              Cancel, callVars, Waiting
<1>6. (UNCHANGED vars) \/ Tick \/ (\E u \in URLs : Evict(u))
      => Waiting' = Waiting /\ tokens' = tokens
  BY DEF vars, Tick, Evict, callVars, Waiting
<1> QED
  BY <1>1, <1>2, <1>3, <1>4, <1>5, <1>6 DEF Next, CallStep

-----------------------------------------------------------------------------
(* Results.                                                                *)
LEMMA StepResults == IndInv /\ [Next]_vars => ResultsInOrder'
<1> SUFFICES ASSUME IndInv, [Next]_vars PROVE ResultsInOrder'
  OBVIOUS
<1> USE NoneAssumption
<1>0. TypeOK /\ ResultsInOrder
  BY DEF IndInv
<1>1. (UNCHANGED vars) \/ Tick \/ (\E u \in URLs : Evict(u)) \/ (\E c \in Calls : Cancel(c))
      => ResultsInOrder'
  BY <1>0 DEF vars, Tick, Evict, Cancel, callVars, innerVars, ResultsInOrder
<1>2. ASSUME NEW c \in Calls, CacheHit(c) PROVE ResultsInOrder'
  <2>1. cache[url[c]] # None
    BY <1>2 DEF CacheHit, Hit
  <2> QED
    BY <1>0, <1>2, <2>1 DEF CacheHit, AfterHit, innerVars, ResultsInOrder, TypeOK
<1>3. ASSUME NEW c \in Calls, CacheMiss(c) \/ StoreResult(c) PROVE ResultsInOrder'
  BY <1>0, <1>3 DEF CacheMiss, StoreResult, innerVars, ResultsInOrder, TypeOK
<1>4. ASSUME NEW c \in Calls, Acquire(c) PROVE ResultsInOrder'
  BY <1>0, <1>4 DEF Acquire, ResultsInOrder, TypeOK
<1>5. ASSUME NEW c \in Calls, AcquireFails(c) \/ TakeCancellation(c) PROVE ResultsInOrder'
  <2>1. Dropped(started[c]) # None
    BY <1>0, MadeDropped DEF TypeOK
  <2> QED
    BY <1>0, <1>5, <2>1 DEF AcquireFails, TakeCancellation, innerVars, ResultsInOrder, TypeOK
<1>6. ASSUME NEW c \in Calls, TakeResult(c) PROVE ResultsInOrder'
  BY <1>0, <1>6 DEF TakeResult, ResultsInOrder, TypeOK
<1>7. ASSUME NEW c \in Calls, EnterRequest(c) PROVE ResultsInOrder'
  BY <1>0, <1>7 DEF EnterRequest, callVars, ResultsInOrder, TypeOK
<1>8. ASSUME NEW c \in Calls, EntryRefused(c) \/ RequestEnds(c) PROVE ResultsInOrder'
  <2>1. PICK status \in {"ok", "broken", "dropped"}, cut \in BOOLEAN :
          inner[c] \in {"entering", "requesting"} /\ Finds(c, status, cut)
    BY <1>8, InnerEndings DEF InnerEnds
  <2>2. [status |-> status, at |-> now, cut |-> cut] # None
    BY <1>0, MadeResults DEF TypeOK
  <2> QED
    BY <1>0, <2>1, <2>2 DEF Finds, callVars, ResultsInOrder, TypeOK
<1> QED
  BY <1>1, <1>2, <1>3, <1>4, <1>5, <1>6, <1>7, <1>8 DEF Next, CallStep

(* "dropped" is found only by a call that is cancelled, and is not kept.   *)
LEMMA StepDropped == IndInv /\ [Next]_vars => DroppedStaysHome'
<1> SUFFICES ASSUME IndInv, [Next]_vars PROVE DroppedStaysHome'
  OBVIOUS
<1>0. TypeOK /\ ResultsInOrder /\ DroppedStaysHome
  BY DEF IndInv
<1>1. (UNCHANGED vars) \/ Tick => DroppedStaysHome'
  BY <1>0 DEF vars, Tick, callVars, innerVars, DroppedStaysHome, IsDropped
<1>2. ASSUME NEW u \in URLs, Evict(u) PROVE DroppedStaysHome'
  BY <1>0, <1>2 DEF Evict, callVars, innerVars, DroppedStaysHome, IsDropped, TypeOK
<1>3. ASSUME NEW c \in Calls, Cancel(c) PROVE DroppedStaysHome'
  BY <1>0, <1>3 DEF Cancel, callVars, innerVars, DroppedStaysHome, IsDropped
<1>4. ASSUME NEW c \in Calls, CacheHit(c) PROVE DroppedStaysHome'
  <2>1. ~IsDropped(cache[url[c]])
    BY <1>0 DEF DroppedStaysHome, TypeOK
  <2> QED
    BY <1>0, <1>4, <2>1 DEF CacheHit, AfterHit, innerVars, DroppedStaysHome, IsDropped, TypeOK
<1>5. ASSUME NEW c \in Calls,
             CacheMiss(c) \/ Acquire(c) \/ EnterRequest(c)
      PROVE  DroppedStaysHome'
  BY <1>0, <1>5 DEF CacheMiss, Acquire, EnterRequest, callVars, innerVars,
                    DroppedStaysHome, IsDropped
<1>6. ASSUME NEW c \in Calls, StoreResult(c) PROVE DroppedStaysHome'
  <2>1. Keeps(result[c]) => ~IsDropped(result[c])
    BY DEF Keeps, IsDropped
  <2> QED
    BY <1>0, <1>6, <2>1 DEF StoreResult, innerVars, DroppedStaysHome, IsDropped, TypeOK
<1>7. ASSUME NEW c \in Calls, AcquireFails(c) \/ TakeCancellation(c) PROVE DroppedStaysHome'
  BY <1>0, <1>7 DEF AcquireFails, TakeCancellation, ContextDone, innerVars, DroppedStaysHome,
                    IsDropped, TypeOK
<1>8. ASSUME NEW c \in Calls, TakeResult(c) PROVE DroppedStaysHome'
  BY <1>0, <1>8 DEF TakeResult, DroppedStaysHome, IsDropped, TypeOK
<1>9. ASSUME NEW c \in Calls, EntryRefused(c) \/ RequestEnds(c) PROVE DroppedStaysHome'
  <2>1. PICK status \in {"ok", "broken", "dropped"}, cut \in BOOLEAN :
          (status = "dropped" => c \in ctxDone) /\ Finds(c, status, cut)
    BY <1>9, InnerEndings DEF InnerEnds
  <2>2. [status |-> status, at |-> now, cut |-> cut].status = status
    OBVIOUS
  <2> QED
    BY <1>0, <2>1, <2>2 DEF Finds, callVars, DroppedStaysHome, IsDropped, TypeOK
<1> QED
  BY <1>1, <1>2, <1>3, <1>4, <1>5, <1>6, <1>7, <1>8, <1>9 DEF Next, CallStep

(* Ages.                                                                   *)
LEMMA StepFound == IndInv /\ [Next]_vars => FoundSinceAsked'
<1> SUFFICES ASSUME IndInv, [Next]_vars PROVE FoundSinceAsked'
  OBVIOUS
<1> USE PipelineAssumption
<1>0. TypeOK /\ ResultsInOrder /\ FoundSinceAsked
  BY DEF IndInv
<1>1. /\ now \in Nat
      /\ \A c \in Calls : started[c] \in Nat
      /\ \A c \in Calls : result[c] # None => result[c].at \in Nat
      /\ \A c \in Calls : innerResult[c] # None => innerResult[c].at \in Nat
  BY <1>0 DEF TypeOK, Results, Seconds
<1>2. (UNCHANGED vars) \/ (\E u \in URLs : Evict(u)) \/ (\E c \in Calls : Cancel(c))
      => FoundSinceAsked'
  BY <1>0 DEF vars, Evict, Cancel, callVars, innerVars, FoundSinceAsked
<1>3. CASE Tick
  BY <1>0, <1>1, <1>3 DEF Tick, callVars, innerVars, FoundSinceAsked
<1>4. ASSUME NEW c \in Calls, CacheHit(c) PROVE FoundSinceAsked'
  <2>1. cache[url[c]].status = "broken" => now <= cache[url[c]].at + RetryFailedAfter
    BY <1>4 DEF CacheHit, Hit, shouldTakeCachedResult
  <2>2. innerResult[c] = None
    BY <1>0, <1>4 DEF CacheHit, ResultsInOrder
  <2> QED
    BY <1>0, <1>1, <1>4, <2>1, <2>2 DEF CacheHit, AfterHit, innerVars, FoundSinceAsked, TypeOK
<1>5. ASSUME NEW c \in Calls, CacheMiss(c) PROVE FoundSinceAsked'
  <2>1. innerResult[c] = None /\ result[c] = None
    BY <1>0, <1>5 DEF CacheMiss, ResultsInOrder
  <2> QED
    BY <1>0, <1>1, <1>5, <2>1 DEF CacheMiss, innerVars, FoundSinceAsked, TypeOK
<1>6. ASSUME NEW c \in Calls, StoreResult(c) \/ Acquire(c) \/ EnterRequest(c)
      PROVE  FoundSinceAsked'
  BY <1>0, <1>6 DEF StoreResult, Acquire, EnterRequest, callVars, innerVars, FoundSinceAsked,
                    TypeOK
<1>7. ASSUME NEW c \in Calls, AcquireFails(c) \/ TakeCancellation(c) PROVE FoundSinceAsked'
  <2>1. Dropped(started[c]).status # "broken" /\ Dropped(started[c]).at = started[c]
    BY DEF Dropped
  <2> QED
    BY <1>0, <1>1, <1>7, <2>1 DEF AcquireFails, TakeCancellation, innerVars, FoundSinceAsked, TypeOK
<1>8. ASSUME NEW c \in Calls, TakeResult(c) PROVE FoundSinceAsked'
  <2>1. innerResult[c] # None
    BY <1>0, <1>8 DEF TakeResult, ResultsInOrder
  <2>2. /\ started[c] <= innerResult[c].at + RetryFailedAfter
        /\ started[c] <= innerResult[c].at
    BY <1>0, <1>1, <2>1 DEF FoundSinceAsked
  <2> QED
    BY <1>0, <1>8, <2>2 DEF TakeResult, FoundSinceAsked, TypeOK
<1>9. ASSUME NEW c \in Calls, EntryRefused(c) \/ RequestEnds(c) PROVE FoundSinceAsked'
  <2>1. PICK status \in {"ok", "broken", "dropped"}, cut \in BOOLEAN : Finds(c, status, cut)
    BY <1>9, InnerEndings DEF InnerEnds
  <2>2. [status |-> status, at |-> now, cut |-> cut].at = now
    OBVIOUS
  <2> QED
    BY <1>0, <1>1, <2>1, <2>2 DEF Finds, callVars, FoundSinceAsked, TypeOK
<1> QED
  BY <1>2, <1>3, <1>4, <1>5, <1>6, <1>7, <1>8, <1>9 DEF Next, CallStep

(* A call leaves its goroutine behind only when it takes the cancellation. *)
LEMMA StepGoroutines == IndInv /\ [Next]_vars => OnlyCancelledLeaveGoroutines'
<1> SUFFICES ASSUME IndInv, [Next]_vars PROVE OnlyCancelledLeaveGoroutines'
  OBVIOUS
<1>0. TypeOK /\ ResultsInOrder /\ OnlyCancelledLeaveGoroutines
  BY DEF IndInv
<1>1. (UNCHANGED vars) \/ Tick \/ (\E u \in URLs : Evict(u)) \/ (\E c \in Calls : Cancel(c))
      => OnlyCancelledLeaveGoroutines'
  BY <1>0 DEF vars, Tick, Evict, Cancel, callVars, innerVars, OnlyCancelledLeaveGoroutines, Running
<1>2. ASSUME NEW c \in Calls, CacheHit(c) PROVE OnlyCancelledLeaveGoroutines'
  <2>1. inner[c] = "none"
    BY <1>0, <1>2 DEF CacheHit, ResultsInOrder
  <2> QED
    BY <1>0, <1>2, <2>1 DEF CacheHit, innerVars, OnlyCancelledLeaveGoroutines, Running, TypeOK
<1>3. ASSUME NEW c \in Calls, CacheMiss(c) \/ StoreResult(c)
      PROVE  OnlyCancelledLeaveGoroutines'
  BY <1>0, <1>3 DEF CacheMiss, StoreResult, innerVars, OnlyCancelledLeaveGoroutines, Running, TypeOK
<1>4. ASSUME NEW c \in Calls, Acquire(c) \/ TakeResult(c) PROVE OnlyCancelledLeaveGoroutines'
  BY <1>0, <1>4 DEF Acquire, TakeResult, OnlyCancelledLeaveGoroutines, Running, TypeOK
<1>5. ASSUME NEW c \in Calls, AcquireFails(c) \/ TakeCancellation(c)
      PROVE  OnlyCancelledLeaveGoroutines'
  BY <1>0, <1>5 DEF AcquireFails, TakeCancellation, ContextDone, innerVars,
                    OnlyCancelledLeaveGoroutines, Running, TypeOK
<1>6. ASSUME NEW c \in Calls, EnterRequest(c) PROVE OnlyCancelledLeaveGoroutines'
  BY <1>0, <1>6 DEF EnterRequest, callVars, OnlyCancelledLeaveGoroutines, Running, TypeOK
<1>7. ASSUME NEW c \in Calls, EntryRefused(c) \/ RequestEnds(c)
      PROVE  OnlyCancelledLeaveGoroutines'
  <2>1. PICK status \in {"ok", "broken", "dropped"}, cut \in BOOLEAN :
          inner[c] \in {"entering", "requesting"} /\ Finds(c, status, cut)
    BY <1>7, InnerEndings DEF InnerEnds
  <2> QED
    BY <1>0, <2>1 DEF Finds, callVars, OnlyCancelledLeaveGoroutines, Running, TypeOK
<1> QED
  BY <1>1, <1>2, <1>3, <1>4, <1>5, <1>6, <1>7 DEF Next, CallStep

-----------------------------------------------------------------------------
(* The inductive invariant holds in every state.                           *)
THEOREM InductiveInvariant == Spec => []IndInv
<1>1. Init => IndInv
  BY InitIndInv
<1>2. IndInv /\ [Next]_vars => IndInv'
  BY StepTypeOK, StepTokens, StepResults, StepDropped, StepFound, StepGoroutines DEF IndInv
<1> QED
  BY <1>1, <1>2, PTL DEF Spec

(* The state is always of the shape that TypeOK says.                      *)
THEOREM TypeCorrect == Spec => []TypeOK
<1>1. IndInv => TypeOK
  BY DEF IndInv
<1> QED
  BY <1>1, InductiveInvariant, PTL

(* The guard's tokens in use are the calls that wait, never more than the  *)
(* limit: no call returns without giving its token back, or gives it back  *)
(* twice, however it ends (cc_limited_url_checker.go:114-122).             *)
THEOREM TokensAccounted == Spec => []TokensAreHeld
<1>1. IndInv => TokensAreHeld
  BY DEF IndInv
<1> QED
  BY <1>1, InductiveInvariant, PTL

(* No call is told of a failure that was found more than RetryFailedAfter  *)
(* before it asked (cached_url_checker.go:98, 113-117).                    *)
THEOREM FailuresRecent == Spec => []FailuresAreRecent
<1>1. IndInv => FailuresAreRecent
  <2> SUFFICES ASSUME IndInv, NEW c \in Calls, pc[c] = "done", result[c].status = "broken"
               PROVE  started[c] <= result[c].at + RetryFailedAfter
    BY DEF FailuresAreRecent
  <2>1. result[c] # None
    BY DEF IndInv, ResultsInOrder
  <2> QED
    BY <2>1 DEF IndInv, FoundSinceAsked
<1> QED
  BY <1>1, InductiveInvariant, PTL

(* Only a cancelled call leaves a goroutine behind                         *)
(* (cc_limited_url_checker.go:107-122).                                    *)
THEOREM GoroutinesAccounted == Spec => []OnlyCancelledLeaveGoroutines
<1>1. IndInv => OnlyCancelledLeaveGoroutines
  BY DEF IndInv
<1> QED
  BY <1>1, InductiveInvariant, PTL

(* The guard never runs dry: whoever it keeps waiting waits for calls      *)
(* whose checks are under way (cc_limited_url_checker.go:98-122).          *)
THEOREM GuardFreed == Spec => []FullGuardIsFreed
<1>1. IndInv => FullGuardIsFreed
  <2> SUFFICES ASSUME IndInv, NEW c \in Calls, pc[c] = "acquiring", tokens >= Limit
               PROVE  \E d \in Calls \ {c} : pc[d] = "waiting" /\ Running(d)
    BY DEF FullGuardIsFreed
  <2>1. tokens = Cardinality(Waiting) /\ tokens # 0
    BY PipelineAssumption DEF IndInv, TypeOK, TokensAreHeld, Waiting
  <2>2. Waiting # {}
    BY <2>1, FS_EmptySet
  <2>3. PICK d \in Calls : pc[d] = "waiting"
    BY <2>2 DEF Waiting
  <2>4. Running(d)
    BY <2>3 DEF IndInv, ResultsInOrder, Running
  <2> QED
    BY <2>3, <2>4
<1> QED
  BY <1>1, InductiveInvariant, PTL

(* An older result replaces a newer one only by a call that overlapped the *)
(* newer one's check (cached_url_checker.go:95-111).                       *)
THEOREM GoesBackByOverlap == Spec => GoesBackByOverlapOnly
<1> DEFINE Overlap ==
      \A u \in URLs :
        cache[u] # None /\ cache'[u] # None /\ cache'[u].at < cache[u].at =>
          \E c \in Calls : url[c] = u /\ pc[c] = "storing" /\ started[c] < cache[u].at
<1>1. IndInv /\ [Next]_vars => Overlap
  <2> SUFFICES ASSUME IndInv, [Next]_vars, NEW u \in URLs, cache[u] # None, cache'[u] # None,
                      cache'[u].at < cache[u].at
               PROVE  \E c \in Calls : url[c] = u /\ pc[c] = "storing" /\ started[c] < cache[u].at
    OBVIOUS
  <2>0. TypeOK /\ ResultsInOrder /\ FoundSinceAsked
    BY DEF IndInv
  <2>1. cache[u] \in Results /\ cache[u].at \in Nat
    BY <2>0 DEF TypeOK, Results, Seconds
  <2>2. cache'[u] # cache[u]
    BY <2>1
  <2>3. ~\E v \in URLs : Evict(v)
    BY <2>0, <2>2 DEF Evict, TypeOK
  <2>4. PICK c \in Calls : StoreResult(c)
    <3>1. ~(UNCHANGED vars) /\ ~Tick
      BY <2>2 DEF vars, Tick
    <3>2. ASSUME NEW c \in Calls,
                 \/ CacheHit(c) \/ CacheMiss(c) \/ Acquire(c) \/ AcquireFails(c)
                 \/ TakeResult(c) \/ TakeCancellation(c)
                 \/ EnterRequest(c) \/ EntryRefused(c) \/ RequestEnds(c) \/ Cancel(c)
          PROVE  cache' = cache
      BY <3>2 DEF CacheHit, CacheMiss, Acquire, AcquireFails, TakeResult, TakeCancellation,
                  EnterRequest, EntryRefused, RequestEnds, RequestReturns, RequestCut, Finds, Cancel
    <3> QED
      BY <2>2, <2>3, <3>1, <3>2 DEF Next, CallStep
  <2>5. url[c] = u /\ cache'[u] = result[c] /\ pc[c] = "storing"
    BY <2>0, <2>2, <2>4 DEF StoreResult, TypeOK
  <2>6. result[c] \in Results /\ started[c] <= result[c].at
    BY <2>0, <2>5 DEF TypeOK, ResultsInOrder, FoundSinceAsked
  <2>7. started[c] < cache[u].at
    BY <2>0, <2>1, <2>5, <2>6 DEF TypeOK, Results, Seconds
  <2> QED
    BY <2>5, <2>7
<1>2. GoesBackByOverlapOnly <=> [][Overlap]_vars
  BY DEF GoesBackByOverlapOnly
<1> QED
  BY <1>1, <1>2, InductiveInvariant, PTL DEF Spec

-----------------------------------------------------------------------------
(* A call that returns a result it may have is a Return of CheckPromise.   *)
LEMMA ReturnStep ==
  ASSUME IndInv, NEW c \in Calls, NEW res \in Results,
         IsDropped(res) => c \in ctxDone,
         pc[c] # "done", pc' = [pc EXCEPT ![c] = "done"],
         result'[c] = res, \A e \in Calls \ {c} : result'[e] = result[e],
         UNCHANGED ctxDone
  PROVE  Promise!Return(c)
<1>1. pc \in [Calls -> {"idle", "acquiring", "waiting", "storing", "done"}]
  BY DEF IndInv, TypeOK
<1>2. Verdict[c] = None
  BY DEF Verdict
<1>3. Verdict' = [Verdict EXCEPT ![c] = res.status]
  BY <1>1 DEF Verdict
<1>4. res.status \in {"ok", "broken"} \cup {d \in {"dropped"} : c \in ctxDone}
  BY NoneAssumption DEF IsDropped, Results
<1> QED
  BY <1>2, <1>3, <1>4 DEF Promise!Return

(* Every step of the pipeline is a step of CheckPromise or a stutter.      *)
LEMMA StepKeepsPromise == IndInv /\ [Next]_vars => [Promise!Next]_(Promise!vars)
<1> SUFFICES ASSUME IndInv, [Next]_vars PROVE [Promise!Next]_(Promise!vars)
  OBVIOUS
<1>0. TypeOK /\ ResultsInOrder /\ DroppedStaysHome
  BY DEF IndInv
<1>1. (UNCHANGED vars) \/ Tick \/ (\E u \in URLs : Evict(u)) => UNCHANGED Promise!vars
  BY DEF vars, Tick, Evict, callVars, Promise!vars, Verdict
<1>2. ASSUME NEW c \in Calls, Cancel(c) PROVE Promise!Next
  BY <1>2 DEF Cancel, callVars, Verdict, Promise!Next, Promise!Cancel
<1>3. ASSUME NEW c \in Calls, CacheHit(c) PROVE Promise!Next
  <2>1. cache[url[c]] \in Results /\ ~IsDropped(cache[url[c]])
    BY <1>0, <1>3 DEF CacheHit, Hit, TypeOK, DroppedStaysHome
  <2>2. Promise!Return(c)
    BY <1>0, <1>3, <2>1, ReturnStep DEF CacheHit, AfterHit, TypeOK
  <2> QED
    BY <2>2 DEF Promise!Next
<1>4. ASSUME NEW c \in Calls, StoreResult(c) PROVE Promise!Next
  <2>1. result[c] \in Results /\ (IsDropped(result[c]) => c \in ctxDone)
    BY <1>0, <1>4 DEF StoreResult, TypeOK, ResultsInOrder, DroppedStaysHome
  <2>2. Promise!Return(c)
    BY <1>0, <1>4, <2>1, ReturnStep DEF StoreResult
  <2> QED
    BY <2>2 DEF Promise!Next
<1>5. ASSUME NEW c \in Calls,
             CacheMiss(c) \/ Acquire(c) \/ AcquireFails(c) \/ TakeResult(c)
             \/ TakeCancellation(c)
      PROVE  UNCHANGED Promise!vars
  <2>1. /\ UNCHANGED ctxDone
        /\ \A e \in Calls : pc'[e] = "done" <=> pc[e] = "done"
        /\ \A e \in Calls : pc[e] = "done" => result'[e] = result[e]
    BY <1>0, <1>5 DEF CacheMiss, Acquire, AcquireFails, TakeResult, TakeCancellation, TypeOK
  <2> QED
    BY <2>1 DEF Promise!vars, Verdict
<1>6. ASSUME NEW c \in Calls, EnterRequest(c) \/ EntryRefused(c) \/ RequestEnds(c)
      PROVE  UNCHANGED Promise!vars
  BY <1>6 DEF EnterRequest, EntryRefused, RequestEnds, RequestReturns, RequestCut, Finds,
              callVars, Promise!vars, Verdict
<1> QED
  BY <1>1, <1>2, <1>3, <1>4, <1>5, <1>6 DEF Next, CallStep

(* The cache, the guard and the goroutines together keep the promise of    *)
(* CheckPromise: one verdict per call, and "dropped" for nobody but the    *)
(* cancelled (cached_url_checker.go:107, cc_limited_url_checker.go:118).   *)
THEOREM Refinement == Spec => KeepsPromise
<1>1. Init => Promise!Init
  BY DEF Init, Promise!Init, Verdict
<1>2. IndInv /\ [Next]_vars => [Promise!Next]_(Promise!vars)
  BY StepKeepsPromise
<1> QED
  BY <1>1, <1>2, InductiveInvariant, PTL DEF Spec, KeepsPromise, Promise!Spec
=============================================================================
