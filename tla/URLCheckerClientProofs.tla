----------------------- MODULE URLCheckerClientProofs -----------------------
(***************************************************************************)
(* Proofs about URLCheckerClient, for any calls, plugin lists and status   *)
(* codes: the inductive invariant IndInv, the counts of the statistics,    *)
(* what the trace says, and that the chain implements CheckPromise.        *)
(***************************************************************************)
EXTENDS URLCheckerClient, FiniteSetTheorems, TLAPS

LEMMA AppendFacts ==
  ASSUME NEW S, NEW s \in Seq(S), NEW e \in S
  PROVE  /\ Append(s, e) \in Seq(S) /\ Len(s) \in Nat
         /\ Len(Append(s, e)) = Len(s) + 1 /\ Append(s, e)[Len(s) + 1] = e
         /\ \A n \in 1..Len(s) : Append(s, e)[n] = s[n]
  OBVIOUS

(* A code of a server or of a failed request gives a result of its kind.   *)
LEMMA CodeResults ==
  ASSUME NEW code \in Codes \cup FailureCodes \cup {200, 500}
  PROVE  /\ processResponse(code) \in Results
         /\ processResponse(code) # None
         /\ processResponse(code).status \in {"ok", "broken"}
         /\ shouldRetryBasedOnStatus(processResponse(code).code)
            => processResponse(code).status = "broken"
<1>1. code \in AllCodes /\ code \in Nat
  BY ClientAssumption DEF AllCodes, FailureCodes, CustomHTTPErrorCode
<1>2. processResponse(code) \in Results
  BY <1>1 DEF processResponse, Results
<1>3. shouldRetryBasedOnStatus(code) => ~(code < 300)
  BY <1>1 DEF shouldRetryBasedOnStatus, RetriedCodes, CustomHTTPErrorCode
<1> QED
  BY <1>2, <1>3, NoneAssumption DEF processResponse

LEMMA DroppedResult ==
  LET r == [status |-> "dropped", code |-> CustomHTTPErrorCode] IN
  r \in Results /\ r # None /\ r.status = "dropped"
  BY NoneAssumption DEF Results, AllCodes, FailureCodes

LEMMA FakeResult ==
  ASSUME NEW c \in Calls, FakeCheck(c)
  PROVE  \E r \in Results : PluginReturns(c, r, TRUE) /\ r.status # "dropped"
<1>1. PICK r \in {processResponse(200), processResponse(500)} : PluginReturns(c, r, TRUE)
  BY DEF FakeCheck
<1>2. r \in Results /\ r.status # "dropped"
  BY CodeResults
<1> QED
  BY <1>1, <1>2

(* As none hands back what was found before it, a plugin that starts sends *)
(* requests.                                                               *)
LEMMA PluginStarts ==
  ASSUME NoneHandsBack, NEW c \in Calls, StartCheck(c)
  PROVE  /\ step[c] = "plugin" /\ plugins[pos[c]] \in HttpPlugins
         /\ StartRequests(c)
<1>1. res[c] = None \/ shouldRetryBasedOnStatus(res[c].code)
  BY DEF NoneHandsBack, StartCheck
<1> QED
  BY <1>1 DEF StartCheck

(* A call enters or leaves an HTTP plugin alone.                           *)
LEMMA InPluginCount ==
  ASSUME NEW c
  PROVE  /\ IsFiniteSet(InPlugin) /\ Cardinality(InPlugin) \in Nat
         /\ c \notin InPlugin => Cardinality(InPlugin \cup {c}) = Cardinality(InPlugin) + 1
         /\ c \in InPlugin => Cardinality(InPlugin \ {c}) = Cardinality(InPlugin) - 1
<1>1. IsFiniteSet(InPlugin)
  BY ClientAssumption, FS_Subset DEF InPlugin
<1> QED
  BY <1>1, FS_CardinalityType, FS_AddElement, FS_RemoveElement

LEMMA PluginsLength == TypeOK => Len(plugins) \in Nat
<1> SUFFICES ASSUME TypeOK PROVE Len(plugins) \in Nat
  OBVIOUS
<1>1. plugins \in Seq(Plugins)
  BY DEF TypeOK
<1> QED
  BY <1>1

LEMMA InitIndInv == Init => IndInv
<1> SUFFICES ASSUME Init PROVE IndInv
  OBVIOUS
<1> USE ClientAssumption, NoneAssumption
<1>1. plugins \in Seq(Plugins) /\ plugins # << >>
  <2>1. PICK option \in Options : plugins = urlCheckerPluginsFromViper(option)
    BY DEF Init
  <2>2. option \in Seq(STRING)
    BY <2>1
  <2>3. CASE option \in {<< >>, <<"[]">>}
    <3>1. plugins = <<"urlcheck">>
      BY <2>1, <2>3 DEF urlCheckerPluginsFromViper
    <3>2. "urlcheck" \in Plugins
      BY DEF Plugins, HttpPlugins
    <3> QED
      BY <3>1, <3>2
  <2>4. CASE option \notin {<< >>, <<"[]">>}
    <3>1. plugins \in Seq(STRING) /\ plugins # << >>
      BY <2>1, <2>2, <2>4 DEF urlCheckerPluginsFromViper
    <3>2. \A n \in 1..Len(plugins) : plugins[n] \in Plugins
      BY <3>1 DEF Init, Buildable
    <3> QED
      BY <3>1, <3>2
  <2> QED
    BY <2>3, <2>4
<1>2. 1 \in 1..Len(plugins)
  BY <1>1
<1>3. TypeOK
  BY <1>1, <1>2, BodyAssumption DEF Init, BodyInit, NoBody, Bodies, TypeOK, PacAnswers
<1>7. SearchesUpToLimit /\ HoldsLittleMore /\ ReadsBelowLimit
  BY <1>3, BodyAssumption
  DEF Init, BodyInit, NoBody, TypeOK, SearchesUpToLimit, HoldsLittleMore, ReadsBelowLimit
<1>4. OutgoingAddsUp
  <2>1. InPlugin = {}
    BY DEF Init, InPlugin
  <2> QED
    BY <2>1, FS_EmptySet DEF Init, OutgoingAddsUp
<1>6. OwnProxyOnly /\ SettingsKept
  BY DEF Init, InPlugin, OwnProxyOnly, SettingsKept
<1>5. TraceInStep /\ ResultOfCode
  BY DEF Init, TraceInStep, ResultOfCode
<1>8. NoneHandsBack
  BY DEF Init, NoneHandsBack
<1> QED
  BY <1>3, <1>4, <1>5, <1>6, <1>7, <1>8 DEF IndInv

-----------------------------------------------------------------------------
(* The chain.                                                              *)
ChainInv == TraceInStep /\ ResultOfCode

ChainTypes ==
  /\ plugins \in Seq(Plugins) /\ plugins # << >>
  /\ searches \in BOOLEAN
  /\ ctxDone \subseteq Calls
  /\ step \in [Calls -> {"plugin", "entering", "HEAD", "browser HEAD", "GET",
                         "reading", "counting", "returned"}]
  /\ pos \in [Calls -> 1..Len(plugins)]
  /\ res \in [Calls -> Results \cup {None}]
  /\ trace \in [Calls -> Seq(Results)]

(* A plugin's result is added to the trace; a next plugin runs only if the *)
(* result gives the reason that TraceInStep asks for.                      *)
LEMMA ChainStep ==
  ASSUME IndInv, NEW c \in Calls, NEW r \in Results, NEW abort \in BOOLEAN,
         PluginReturns(c, r, abort), step[c] # "returned",
         UNCHANGED <<configVars, ctxDone>>,
         GoesOn(r, abort) => r.status = "broken",
         r.status = "dropped" => ContextDone(c)
  PROVE  ChainTypes' /\ ChainInv'
<1>0. TypeOK /\ TraceInStep /\ ResultOfCode
  BY DEF IndInv
<1>1. /\ pos[c] \in Nat \ {0} /\ pos[c] <= Len(plugins) /\ Len(plugins) \in Nat
      /\ trace[c] \in Seq(Results) /\ Len(trace[c]) = pos[c] - 1
  <2>1. Len(plugins) \in Nat
    BY <1>0, PluginsLength
  <2>2. pos[c] \in 1..Len(plugins) /\ trace[c] \in Seq(Results)
    BY <1>0 DEF TypeOK
  <2>3. Len(trace[c]) = pos[c] - 1
    BY <1>0 DEF TraceInStep
  <2> QED
    BY <2>1, <2>2, <2>3
<1>2. /\ res' = [res EXCEPT ![c] = r]
      /\ trace' = [trace EXCEPT ![c] = Append(@, r)]
  BY DEF PluginReturns
<1>3. /\ trace'[c] = Append(trace[c], r) /\ trace'[c] \in Seq(Results)
      /\ Len(trace'[c]) = pos[c] /\ trace'[c][pos[c]] = r
      /\ \A n \in 1..(pos[c] - 1) : trace'[c][n] = trace[c][n]
  <2>1. trace'[c] = Append(trace[c], r)
    BY <1>0, <1>2 DEF TypeOK
  <2>2. Len(trace[c]) + 1 = pos[c]
    BY <1>1
  <2> QED
    BY <1>1, <2>1, <2>2, AppendFacts
<1>4. \/ /\ GoesOn(r, abort) /\ pos[c] < Len(plugins)
         /\ pos' = [pos EXCEPT ![c] = @ + 1] /\ step' = [step EXCEPT ![c] = "plugin"]
      \/ pos' = pos /\ step' = [step EXCEPT ![c] = "returned"]
  BY DEF PluginReturns, MorePlugins
<1>5. ChainTypes'
  <2>1. trace' \in [Calls -> Seq(Results)] /\ res' \in [Calls -> Results \cup {None}]
    BY <1>0, <1>2, <1>3 DEF TypeOK
  <2>2. pos' \in [Calls -> 1..Len(plugins)]
    <3>1. pos \in [Calls -> 1..Len(plugins)]
      BY <1>0 DEF TypeOK
    <3>2. pos[c] < Len(plugins) => pos[c] + 1 \in 1..Len(plugins)
      BY <1>1
    <3> QED
      BY <1>4, <3>1, <3>2
  <2>3. step' \in [Calls -> {"plugin", "entering", "HEAD", "browser HEAD", "GET",
                             "reading", "counting", "returned"}]
    BY <1>0, <1>4 DEF TypeOK
  <2> QED
    BY <1>0, <2>1, <2>2, <2>3 DEF TypeOK, ChainTypes, configVars
<1>6. TraceInStep'
  <2> SUFFICES ASSUME NEW e \in Calls
               PROVE  /\ Len(trace'[e]) = IF step'[e] = "returned" THEN pos'[e] ELSE pos'[e] - 1
                      /\ step'[e] = "returned" => trace'[e][pos'[e]] = res'[e]
                      /\ \A n \in 1..(pos'[e] - 1) :
                           /\ trace'[e][n].status = "broken"
                           /\ shouldRetryBasedOnStatus(trace'[e][n].code)
    BY DEF TraceInStep
  <2>1. CASE e # c
    <3>1. /\ trace'[e] = trace[e] /\ step'[e] = step[e]
          /\ pos'[e] = pos[e] /\ res'[e] = res[e]
      BY <1>0, <1>2, <1>4, <2>1 DEF TypeOK
    <3> QED
      BY <1>0, <3>1 DEF TraceInStep
  <2>2. CASE e = c
    <3>1. res'[c] = r
      BY <1>0, <1>2 DEF TypeOK
    <3>2. \A n \in 1..(pos[c] - 1) : /\ trace[c][n].status = "broken"
                                     /\ shouldRetryBasedOnStatus(trace[c][n].code)
      BY <1>0 DEF TraceInStep
    <3>3. CASE pos' = pos /\ step' = [step EXCEPT ![c] = "returned"]
      <4>1. pos'[c] = pos[c] /\ step'[c] = "returned"
        BY <1>0, <3>3 DEF TypeOK
      <4> QED
        BY <1>3, <2>2, <3>1, <3>2, <4>1
    <3>4. CASE /\ GoesOn(r, abort)
               /\ pos' = [pos EXCEPT ![c] = @ + 1] /\ step' = [step EXCEPT ![c] = "plugin"]
      <4>1. pos'[c] = pos[c] + 1 /\ step'[c] = "plugin"
        BY <1>0, <3>4 DEF TypeOK
      <4>2. r.status = "broken" /\ shouldRetryBasedOnStatus(r.code)
        BY <3>4 DEF GoesOn
      <4>3. \A n \in 1..pos[c] : n = pos[c] \/ n \in 1..(pos[c] - 1)
        BY <1>1
      <4>4. pos'[c] - 1 = pos[c] /\ Len(trace'[c]) = pos'[c] - 1
        BY <1>1, <1>3, <4>1
      <4>5. \A n \in 1..pos[c] : /\ trace'[c][n].status = "broken"
                                 /\ shouldRetryBasedOnStatus(trace'[c][n].code)
        BY <1>3, <3>2, <4>2, <4>3
      <4> QED
        BY <2>2, <4>1, <4>4, <4>5
    <3> QED
      BY <1>4, <3>3, <3>4
  <2> QED
    BY <2>1, <2>2
<1>7. ResultOfCode'
  <2>1. r # None
    BY NoneAssumption
  <2> QED
    BY <1>0, <1>2, <1>4, <2>1 DEF TypeOK, ResultOfCode, ContextDone
<1> QED
  BY <1>5, <1>6, <1>7 DEF ChainInv

(* Every step of a call keeps the chain in order.                          *)
LEMMA StepChain == IndInv /\ [Next]_vars => ChainTypes' /\ ChainInv'
<1> SUFFICES ASSUME IndInv, [Next]_vars PROVE ChainTypes' /\ ChainInv'
  OBVIOUS
<1>0. TypeOK /\ TraceInStep /\ ResultOfCode
  BY DEF IndInv
<1>1. CASE UNCHANGED vars
  BY <1>0, <1>1 DEF vars, configVars, callVars, TypeOK, TraceInStep, ResultOfCode,
                    ContextDone, ChainTypes, ChainInv
<1>2. ASSUME NEW c \in Calls, FakeCheck(c) PROVE ChainTypes' /\ ChainInv'
  <2>1. PICK r \in Results : PluginReturns(c, r, TRUE) /\ r.status # "dropped"
    BY <1>2, FakeResult
  <2>2. ~GoesOn(r, TRUE)
    BY DEF GoesOn
  <2>3. step[c] # "returned" /\ UNCHANGED <<configVars, ctxDone>>
    BY <1>2 DEF FakeCheck
  <2> QED
    BY <2>1, <2>2, <2>3, ChainStep
<1>3. ASSUME NEW c \in Calls, DropCheck(c) PROVE ChainTypes' /\ ChainInv'
  <2> DEFINE r == [status |-> "dropped", code |-> CustomHTTPErrorCode]
  <2>1. r \in Results /\ ~GoesOn(r, TRUE)
    BY DroppedResult DEF GoesOn
  <2>2. PluginReturns(c, r, TRUE) /\ ContextDone(c)
    BY <1>3 DEF DropCheck, DropAborts
  <2>3. step[c] # "returned" /\ UNCHANGED <<configVars, ctxDone>>
    BY <1>3 DEF DropCheck
  <2> QED
    BY <2>1, <2>2, <2>3, ChainStep
<1>4. ASSUME NEW c \in Calls, onCheckResult(c) PROVE ChainTypes' /\ ChainInv'
  <2>1. PICK code \in Codes \cup FailureCodes : res[c] = processResponse(code)
    BY <1>0, <1>4 DEF onCheckResult, ResultOfCode
  <2>2. /\ res[c] \in Results
        /\ res[c].status # "dropped"
        /\ GoesOn(res[c], FALSE) => res[c].status = "broken"
    BY <2>1, CodeResults DEF GoesOn
  <2>3. /\ PluginReturns(c, res[c], FALSE)
        /\ step[c] # "returned" /\ UNCHANGED <<configVars, ctxDone>>
    BY <1>4 DEF onCheckResult
  <2> QED
    BY <2>2, <2>3, ChainStep
<1>5. ASSUME NEW c \in Calls, StartCheck(c) \/ SendHead(c) PROVE ChainTypes' /\ ChainInv'
  <2>1. PICK next \in {"entering", "HEAD"} :
          /\ step[c] # "returned" /\ step' = [step EXCEPT ![c] = next]
          /\ UNCHANGED <<configVars, ctxDone, pos, res, trace>>
    BY <1>5, PluginStarts DEF StartRequests, SendHead, IndInv
  <2>2. ChainTypes'
    BY <1>0, <2>1 DEF configVars, TypeOK, ChainTypes
  <2>3. TraceInStep'
    BY <1>0, <2>1 DEF TypeOK, TraceInStep
  <2>4. ResultOfCode'
    BY <1>0, <2>1 DEF TypeOK, ResultOfCode, ContextDone
  <2> QED
    BY <2>2, <2>3, <2>4 DEF ChainInv
<1>6. ASSUME NEW c \in Calls,
             HeadAnswered(c) \/ BrowserHeadAnswered(c) \/ GetAnswered(c) \/ GetFailed(c)
      PROVE  ChainTypes' /\ ChainInv'
  <2>1. PICK code \in Codes \cup FailureCodes, kind \in {"HEAD", "browser HEAD", "GET"},
             next \in {"browser HEAD", "GET", "reading", "counting"} :
          Answered(c, kind, code) /\ step' = [step EXCEPT ![c] = next]
    BY <1>6 DEF HeadAnswered, BrowserHeadAnswered, GetAnswered, GetFailed, AfterHead
  <2> DEFINE r == processResponse(code)
  <2>2. r \in Results /\ r # None /\ r.status # "dropped"
    BY CodeResults
  <2>3. /\ res' = [res EXCEPT ![c] = r]
        /\ step[c] # "returned" /\ UNCHANGED <<configVars, ctxDone, pos, trace>>
    BY <2>1 DEF Answered
  <2>4. ChainTypes' /\ TraceInStep'
    BY <1>0, <2>1, <2>2, <2>3 DEF configVars, TypeOK, TraceInStep, ChainTypes
  <2>5. ResultOfCode'
    <3> SUFFICES ASSUME NEW e \in Calls
                 PROVE  /\ step'[e] \in {"reading", "counting"} =>
                             \E k \in Codes \cup FailureCodes : res'[e] = processResponse(k)
                        /\ step'[e] = "returned" => res'[e] # None
                        /\ res'[e] # None /\ res'[e].status = "dropped" => e \in ctxDone'
      BY DEF ResultOfCode, ContextDone
    <3>1. CASE e = c
      <4>1. res'[c] = r /\ step'[c] = next
        BY <1>0, <2>1, <2>3 DEF TypeOK
      <4> QED
        BY <2>2, <3>1, <4>1
    <3>2. CASE e # c
      <4>1. res'[e] = res[e] /\ step'[e] = step[e]
        BY <1>0, <2>1, <2>3, <3>2 DEF TypeOK
      <4> QED
        BY <1>0, <2>3, <4>1 DEF ResultOfCode, ContextDone
    <3> QED
      BY <3>1, <3>2
  <2> QED
    BY <2>4, <2>5 DEF ChainInv
<1>7. ASSUME NEW c \in Calls, Cancel(c) PROVE ChainTypes' /\ ChainInv'
  BY <1>0, <1>7 DEF Cancel, configVars, callVars, TypeOK, TraceInStep, ResultOfCode,
                    ContextDone, ChainTypes, ChainInv
<1>8. ASSUME NEW c \in Calls, ReadBody(c) PROVE ChainTypes' /\ ChainInv'
  <2>1. PICK next \in {"reading", "counting"} :
          /\ step[c] = "reading" /\ step' = [step EXCEPT ![c] = next]
          /\ UNCHANGED <<configVars, ctxDone, pos, res, trace>>
    BY <1>8 DEF ReadBody
  <2>2. ChainTypes'
    BY <1>0, <2>1 DEF configVars, TypeOK, ChainTypes
  <2>3. TraceInStep'
    BY <1>0, <2>1 DEF TypeOK, TraceInStep
  <2>4. ResultOfCode'
    BY <1>0, <2>1 DEF TypeOK, ResultOfCode, ContextDone
  <2> QED
    BY <2>2, <2>3, <2>4 DEF ChainInv
<1> QED
  BY <1>1, <1>2, <1>3, <1>4, <1>5, <1>6, <1>7, <1>8 DEF Next, CallStep

-----------------------------------------------------------------------------
(* The statistics.                                                         *)
CountTypes == outgoing \in Nat /\ linkOk \in Nat /\ linkBroken \in Nat /\ linkDropped \in Nat

(* A check is counted as outgoing when it enters an HTTP plugin, and under *)
(* its status in the step that leaves the plugin.                          *)
LEMMA StepCounts == IndInv /\ [Next]_vars => CountTypes' /\ OutgoingAddsUp'
<1> SUFFICES ASSUME IndInv, [Next]_vars PROVE CountTypes' /\ OutgoingAddsUp'
  OBVIOUS
<1> DEFINE N == Cardinality(InPlugin)
<1>0. /\ CountTypes /\ N \in Nat
      /\ outgoing = linkOk + linkBroken + linkDropped + N
  BY InPluginCount DEF IndInv, TypeOK, CountTypes, OutgoingAddsUp
<1>1. step \in [Calls -> {"plugin", "entering", "HEAD", "browser HEAD", "GET",
                          "reading", "counting", "returned"}]
  BY DEF IndInv, TypeOK
<1>2. ASSUME NEW c \in Calls, StartCheck(c) PROVE CountTypes' /\ OutgoingAddsUp'
  <2>0. step[c] = "plugin" /\ StartRequests(c)
    BY <1>2, PluginStarts DEF IndInv
  <2>1. c \notin InPlugin /\ InPlugin' = InPlugin \cup {c}
    BY <1>1, <2>0 DEF StartRequests, InPlugin
  <2>2. Cardinality(InPlugin') = N + 1
    BY <2>1, InPluginCount
  <2>3. /\ outgoing' = outgoing + 1
        /\ UNCHANGED <<linkOk, linkBroken, linkDropped>>
    BY <2>0 DEF StartRequests
  <2> QED
    BY <1>0, <2>2, <2>3 DEF CountTypes, OutgoingAddsUp
<1>3. ASSUME NEW c \in Calls, DropCheck(c) \/ onCheckResult(c)
      PROVE  CountTypes' /\ OutgoingAddsUp'
  <2>1. /\ step[c] \in {"entering", "counting"}
        /\ \/ step' = [step EXCEPT ![c] = "plugin"]
           \/ step' = [step EXCEPT ![c] = "returned"]
    BY <1>3 DEF DropCheck, onCheckResult, PluginReturns
  <2>2. c \in InPlugin /\ InPlugin' = InPlugin \ {c}
    BY <1>1, <2>1 DEF InPlugin
  <2>3. Cardinality(InPlugin') = N - 1
    BY <2>2, InPluginCount
  <2>4. /\ outgoing' = outgoing
        /\ \/ linkOk' = linkOk + 1 /\ linkBroken' = linkBroken /\ linkDropped' = linkDropped
           \/ linkOk' = linkOk /\ linkBroken' = linkBroken + 1 /\ linkDropped' = linkDropped
           \/ linkOk' = linkOk /\ linkBroken' = linkBroken /\ linkDropped' = linkDropped + 1
    BY <1>3 DEF DropCheck, onCheckResult, CountsBroken
  <2> QED
    BY <1>0, <2>3, <2>4 DEF CountTypes, OutgoingAddsUp
<1>4. ASSUME InPlugin' = InPlugin, UNCHANGED statVars PROVE CountTypes' /\ OutgoingAddsUp'
  BY <1>0, <1>4 DEF statVars, CountTypes, OutgoingAddsUp
<1>5. ASSUME NEW c \in Calls, FakeCheck(c) PROVE InPlugin' = InPlugin /\ UNCHANGED statVars
  <2>1. /\ step[c] = "plugin" /\ UNCHANGED statVars
        /\ \/ step' = [step EXCEPT ![c] = "plugin"]
           \/ step' = [step EXCEPT ![c] = "returned"]
    BY <1>5 DEF FakeCheck, PluginReturns
  <2> QED
    BY <1>1, <2>1 DEF InPlugin
<1>6. ASSUME NEW c \in Calls,
             \/ SendHead(c) \/ HeadAnswered(c) \/ BrowserHeadAnswered(c)
             \/ GetAnswered(c) \/ GetFailed(c) \/ ReadBody(c)
      PROVE  InPlugin' = InPlugin /\ UNCHANGED statVars
  <2>1. PICK next \in {"HEAD", "browser HEAD", "GET", "reading", "counting"} :
          /\ step[c] \in {"entering", "HEAD", "browser HEAD", "GET", "reading"}
          /\ step' = [step EXCEPT ![c] = next]
          /\ UNCHANGED statVars
    BY <1>6 DEF SendHead, ReadBody, HeadAnswered, BrowserHeadAnswered, GetAnswered, GetFailed,
                Answered, AfterHead
  <2> QED
    BY <1>1, <2>1 DEF InPlugin
<1>7. (UNCHANGED vars) \/ (\E c \in Calls : Cancel(c))
      => InPlugin' = InPlugin /\ UNCHANGED statVars
  BY DEF vars, Cancel, callVars, InPlugin
<1> QED
  BY <1>2, <1>3, <1>4, <1>5, <1>6, <1>7 DEF Next, CallStep

-----------------------------------------------------------------------------
(* The choice of a proxy.                                                  *)
ProxyTypes ==
  /\ {proxyURL, settings} \subseteq Proxies \cup {NoProxy}
  /\ answer \in [Calls -> PacAnswers]
  /\ client \in [Calls -> Proxies \cup {NoProxy}]

ProxyInv == ProxyTypes /\ OwnProxyOnly /\ SettingsKept

(* What a PAC script's answer consists of.                                 *)
LEMMA AnswerFacts ==
  ASSUME NEW found \in PacAnswers
  PROVE  /\ Named(found) \subseteq Proxies \cup {NoProxy}
         /\ Named(found) # {} => found[1] \in Named(found)
<1>1. CASE found = << >>
  BY <1>1 DEF Named
<1>2. CASE found = <<NoProxy>>
  BY <1>2 DEF Named
<1>3. CASE found \in (Proxies \X Proxies) \cup ({NoProxy} \X Proxies)
  <2>1. PICK p \in Proxies \cup {NoProxy}, q \in Proxies : found = <<p, q>>
    BY <1>3
  <2>2. Named(found) = {p, q} /\ found[1] = p
    BY <2>1 DEF Named
  <2> QED
    BY <2>1, <2>2
<1> QED
  BY <1>1, <1>2, <1>3 DEF PacAnswers

(* The choice is one of the check's own, and changes no setting.           *)
LEMMA SelectedClient ==
  ASSUME IndInv, NEW c \in Calls, NEW plugin \in HttpPlugins, SelectClient(c, plugin)
  PROVE  \E found \in PacAnswers, proxy \in Proxies \cup {NoProxy} :
           /\ proxy \in {NoProxy, proxyURL} \cup Named(found)
           /\ answer' = [answer EXCEPT ![c] = found]
           /\ client' = [client EXCEPT ![c] = proxy]
           /\ plugin = "urlcheck-noproxy" => proxy = NoProxy
           /\ settings' = settings
<1>0. settings = proxyURL /\ proxyURL \in Proxies \cup {NoProxy}
  BY DEF IndInv, SettingsKept, TypeOK
<1>1. PICK found \in PacAnswers :
        /\ answer' = [answer EXCEPT ![c] = found]
        /\ client' = [client EXCEPT ![c] = ClientOf(plugin, found)]
        /\ settings' = settings
  BY DEF SelectClient, SettingsAfter
<1>2. autoSelectClientFor(found) \in {proxyURL} \cup Named(found)
  BY <1>0, AnswerFacts DEF autoSelectClientFor
<1>3. /\ ClientOf(plugin, found) \in {NoProxy, proxyURL} \cup Named(found)
      /\ plugin = "urlcheck-noproxy" => ClientOf(plugin, found) = NoProxy
  BY <1>2 DEF ClientOf, HttpPlugins
<1>4. ClientOf(plugin, found) \in Proxies \cup {NoProxy}
  BY <1>0, <1>3, AnswerFacts
<1> QED
  BY <1>1, <1>3, <1>4

(* A client is chosen when its plugin starts and is gone when it returns.  *)
LEMMA StepProxies == IndInv /\ [Next]_vars => ProxyInv'
<1> SUFFICES ASSUME IndInv, [Next]_vars PROVE ProxyInv'
  OBVIOUS
<1>0. ProxyTypes /\ OwnProxyOnly /\ SettingsKept
  BY DEF IndInv, TypeOK, ProxyTypes
<1>1. /\ step \in [Calls -> {"plugin", "entering", "HEAD", "browser HEAD", "GET",
                             "reading", "counting", "returned"}]
      /\ pos \in [Calls -> 1..Len(plugins)]
  BY DEF IndInv, TypeOK
<1>2. ASSUME NEW c \in Calls, StartCheck(c) PROVE ProxyInv'
  <2>1. /\ plugins[pos[c]] \in HttpPlugins /\ SelectClient(c, plugins[pos[c]])
        /\ step' = [step EXCEPT ![c] = "entering"] /\ UNCHANGED <<configVars, pos>>
    BY <1>2, PluginStarts DEF StartRequests, IndInv
  <2>2. PICK found \in PacAnswers, proxy \in Proxies \cup {NoProxy} :
          /\ proxy \in {NoProxy, proxyURL} \cup Named(found)
          /\ answer' = [answer EXCEPT ![c] = found]
          /\ client' = [client EXCEPT ![c] = proxy]
          /\ plugins[pos[c]] = "urlcheck-noproxy" => proxy = NoProxy
          /\ settings' = settings
    BY <2>1, SelectedClient
  <2>4. ProxyTypes' /\ SettingsKept'
    BY <1>0, <2>1, <2>2 DEF ProxyTypes, SettingsKept, configVars
  <2>5. InPlugin' \subseteq InPlugin \cup {c}
    BY <1>1, <2>1 DEF InPlugin
  <2>6. OwnProxyOnly'
    BY <1>0, <2>1, <2>2, <2>5 DEF ProxyTypes, OwnProxyOnly, configVars
  <2> QED
    BY <2>4, <2>6 DEF ProxyInv
<1>3. ASSUME NEW c \in Calls, DropCheck(c) \/ onCheckResult(c) PROVE ProxyInv'
  <2>1. /\ ClientGone(c) /\ UNCHANGED configVars
        /\ \/ step' = [step EXCEPT ![c] = "plugin"]
           \/ step' = [step EXCEPT ![c] = "returned"]
        /\ \A e \in Calls \ {c} : pos'[e] = pos[e]
    BY <1>1, <1>3 DEF DropCheck, onCheckResult, PluginReturns
  <2>2. InPlugin' = InPlugin \ {c}
    BY <1>1, <2>1 DEF InPlugin
  <2>3. ProxyTypes' /\ SettingsKept'
    BY <1>0, <2>1 DEF ProxyTypes, SettingsKept, ClientGone, configVars, PacAnswers
  <2>4. \A e \in Calls \ {c} : answer'[e] = answer[e] /\ client'[e] = client[e]
    BY <1>0, <2>1 DEF ProxyTypes, ClientGone
  <2>5. InPlugin \subseteq Calls
    BY DEF InPlugin
  <2>6. OwnProxyOnly'
    BY <1>0, <2>1, <2>2, <2>4, <2>5 DEF OwnProxyOnly, configVars
  <2> QED
    BY <2>3, <2>6 DEF ProxyInv
<1>4. ASSUME UNCHANGED <<configVars, proxyVars>>, InPlugin' \subseteq InPlugin,
             \A e \in InPlugin : pos'[e] = pos[e]
      PROVE  ProxyInv'
  BY <1>0, <1>4 DEF ProxyInv, ProxyTypes, OwnProxyOnly, SettingsKept, configVars, proxyVars
<1>5. ASSUME NEW c \in Calls, FakeCheck(c) PROVE ProxyInv'
  <2>1. /\ step[c] = "plugin" /\ UNCHANGED <<configVars, proxyVars>>
        /\ \/ step' = [step EXCEPT ![c] = "plugin"]
           \/ step' = [step EXCEPT ![c] = "returned"]
        /\ \A e \in Calls \ {c} : pos'[e] = pos[e]
    BY <1>1, <1>5 DEF FakeCheck, PluginReturns
  <2>2. InPlugin' = InPlugin /\ c \notin InPlugin /\ InPlugin \subseteq Calls
    BY <1>1, <2>1 DEF InPlugin
  <2>3. \A e \in InPlugin : pos'[e] = pos[e]
    BY <2>1, <2>2
  <2> QED
    BY <1>4, <2>1, <2>2, <2>3
<1>6. ASSUME NEW c \in Calls,
             \/ SendHead(c) \/ HeadAnswered(c) \/ BrowserHeadAnswered(c)
             \/ GetAnswered(c) \/ GetFailed(c) \/ ReadBody(c)
      PROVE  ProxyInv'
  <2>1. PICK next \in {"HEAD", "browser HEAD", "GET", "reading", "counting"} :
          /\ step[c] \in {"entering", "HEAD", "browser HEAD", "GET", "reading"}
          /\ step' = [step EXCEPT ![c] = next]
          /\ UNCHANGED <<configVars, proxyVars, pos>>
    BY <1>6 DEF SendHead, ReadBody, HeadAnswered, BrowserHeadAnswered, GetAnswered, GetFailed,
                Answered, AfterHead
  <2>2. InPlugin' = InPlugin
    BY <1>1, <2>1 DEF InPlugin
  <2> QED
    BY <1>4, <2>1, <2>2
<1>7. (UNCHANGED vars) \/ (\E c \in Calls : Cancel(c)) => ProxyInv'
  <2>1. (UNCHANGED vars) \/ (\E c \in Calls : Cancel(c))
        => UNCHANGED <<configVars, proxyVars, callVars>>
    BY DEF vars, Cancel
  <2>2. UNCHANGED callVars => InPlugin' = InPlugin /\ pos' = pos
    BY DEF callVars, InPlugin
  <2> QED
    BY <1>4, <2>1, <2>2
<1> QED
  BY <1>2, <1>3, <1>5, <1>6, <1>7 DEF Next, CallStep

-----------------------------------------------------------------------------
(* What holds of a call at step at whose body is b, if the limit is lim.   *)
Sound(lim, at, b) ==
  /\ b \in Bodies
  /\ at = "counting" =>
       IF lim = 0 \/ b.read <= lim
       THEN b.searched = b.read /\ (b.ended \/ b.searched = lim)
       ELSE b.searched = lim
  /\ lim # 0 => b.read < lim + BufferSize
  /\ at = "reading" => lim = 0 \/ b.read < lim
  /\ at \notin {"reading", "counting"} => b = NoBody

BodyInv ==
  /\ limit \in Nat /\ body \in [Calls -> Bodies]
  /\ SearchesUpToLimit /\ HoldsLittleMore /\ ReadsBelowLimit

LEMMA EveryBody ==
  ASSUME BodyInv, NEW c \in Calls PROVE Sound(limit, step[c], body[c])
<1>1. body[c] \in Bodies /\ body[c].read \in Nat /\ limit \in Nat
  BY DEF BodyInv, Bodies
<1>2. step[c] = "reading" => limit = 0 \/ body[c].read < limit
  BY <1>1 DEF BodyInv, ReadsBelowLimit, LimitReached
<1> QED
  BY <1>1, <1>2 DEF BodyInv, SearchesUpToLimit, HoldsLittleMore, ReadsBelowLimit, Sound

LEMMA EveryBodyNext ==
  ASSUME limit' \in Nat, body' \in [Calls -> Bodies],
         \A c \in Calls : Sound(limit', step'[c], body'[c])
  PROVE  BodyInv'
<1>1. \A c \in Calls : body'[c].read \in Nat
  BY DEF Bodies
<1>2. ReadsBelowLimit'
  BY <1>1 DEF ReadsBelowLimit, LimitReached, Sound
<1>3. SearchesUpToLimit' /\ HoldsLittleMore'
  BY DEF SearchesUpToLimit, HoldsLittleMore, Sound
<1> QED
  BY <1>2, <1>3 DEF BodyInv

(* Whatever the limit, nothing has been read of no body.                   *)
LEMMA NoBodySound ==
  ASSUME NEW lim \in Nat, NEW at PROVE Sound(lim, at, NoBody)
<1>1. NoBody \in Bodies /\ NoBody.read = 0 /\ NoBody.searched = 0 /\ NoBody.ended
  BY DEF NoBody, Bodies
<1> QED
  BY <1>1, BodyAssumption DEF Sound

LEMMA OpenedSound ==
  ASSUME NEW lim \in Nat, NEW b \in Bodies, b.read = 0 PROVE Sound(lim, "reading", b)
<1>1. lim # 0 => b.read < lim + BufferSize /\ b.read < lim
  BY BodyAssumption
<1> QED
  BY <1>1 DEF Sound

(* A read from below the limit leaves a body that is below it, or has      *)
(* ended, or is cut at the limit.                                          *)
LEMMA ReadStep ==
  ASSUME limit \in Nat, body \in [Calls -> Bodies], NEW c \in Calls,
         Sound(limit, step[c], body[c]), ReadBody(c), NEW Steps, step \in [Calls -> Steps]
  PROVE  body' \in [Calls -> Bodies] /\ Sound(limit, step'[c], body'[c])
<1>1. PICK n \in 0..BufferSize, err \in BOOLEAN :
        /\ step[c] = "reading" /\ ReadMore(c, n, err)
        /\ step' = [step EXCEPT ![c] =
                      IF err \/ LimitReached(body[c].read + n) THEN "counting" ELSE @]
  BY DEF ReadBody
<1> DEFINE total == body[c].read + n
           next == [read |-> total, searched |-> safelyTrimmedString(total), ended |-> err]
<1>2. /\ body[c].read \in Nat /\ n \in Nat /\ n <= BufferSize /\ BufferSize \in Nat \ {0}
      /\ total \in Nat
  BY <1>1, BodyAssumption DEF Bodies
<1>3. safelyTrimmedString(total) \in Nat
  BY <1>2 DEF safelyTrimmedString
<1>4. next \in Bodies
  BY <1>2, <1>3 DEF Bodies
<1>5. body' = [body EXCEPT ![c] = next]
  BY <1>1 DEF ReadMore, Appended
<1>6. body' \in [Calls -> Bodies] /\ body'[c] = next
  BY <1>4, <1>5
<1>7. limit # 0 => body[c].read < limit /\ total < limit + BufferSize
  BY <1>1, <1>2 DEF Sound
<1>8. next.read = total /\ next.searched = safelyTrimmedString(total) /\ next.ended = err
  OBVIOUS
<1> HIDE DEF next, total
<1>9. CASE err \/ LimitReached(total)
  <2>1. step'[c] = "counting"
    BY <1>1, <1>9 DEF total
  <2>2. LimitReached(total) => limit # 0 /\ total >= limit
    BY DEF LimitReached
  <2>3. IF limit = 0 \/ total <= limit
        THEN safelyTrimmedString(total) = total
        ELSE safelyTrimmedString(total) = limit
    BY DEF safelyTrimmedString
  <2>4. limit = 0 \/ total <= limit => err \/ total = limit
    <3>1. CASE err
      BY <3>1
    <3>2. CASE LimitReached(total)
      BY <1>2, <2>2, <3>2
    <3> QED
      BY <1>9, <3>1, <3>2
  <2>5. limit = 0 \/ next.read <= limit => next.ended \/ next.searched = limit
    BY <1>8, <2>3, <2>4
  <2>6. IF limit = 0 \/ next.read <= limit
        THEN next.searched = next.read
        ELSE next.searched = limit
    BY <1>8, <2>3
  <2>7. limit # 0 => next.read < limit + BufferSize
    BY <1>7, <1>8
  <2>8. Sound(limit, "counting", next)
    BY <1>4, <2>5, <2>6, <2>7 DEF Sound
  <2> QED
    BY <1>6, <2>1, <2>8
<1>10. CASE ~(err \/ LimitReached(total))
  <2>1. step'[c] = "reading"
    BY <1>1, <1>10 DEF total
  <2>2. limit = 0 \/ next.read < limit
    BY <1>2, <1>8, <1>10 DEF LimitReached
  <2>3. Sound(limit, "reading", next)
    BY <1>4, <1>7, <1>8, <2>2 DEF Sound
  <2> QED
    BY <1>6, <2>1, <2>3
<1> QED
  BY <1>9, <1>10

(* A body is opened by the answer to a GET and closed with its plugin.     *)
LEMMA StepBody == IndInv /\ [Next]_vars => BodyInv'
<1> SUFFICES ASSUME IndInv, [Next]_vars PROVE BodyInv'
  OBVIOUS
<1>0. /\ limit \in Nat /\ body \in [Calls -> Bodies]
      /\ step \in [Calls -> {"plugin", "entering", "HEAD", "browser HEAD", "GET",
                             "reading", "counting", "returned"}]
  BY DEF IndInv, TypeOK
<1>1. limit' = limit
  BY DEF Next, CallStep, FakeCheck, StartCheck, StartRequests, HandBack, DropCheck, SendHead,
         HeadAnswered, BrowserHeadAnswered, GetAnswered, GetFailed, Answered, ReadBody,
         onCheckResult, Cancel, vars, configVars
<1>2. \A c \in Calls : Sound(limit, step[c], body[c])
  BY EveryBody DEF IndInv, TypeOK, BodyInv
<1>3. \A c \in Calls : step[c] \notin {"reading", "counting"} => body[c] = NoBody
  BY <1>2 DEF Sound
<1>4. ASSUME NEW c \in Calls, body' \in [Calls -> Bodies], Sound(limit, step'[c], body'[c]),
             \A e \in Calls \ {c} : body'[e] = body[e] /\ step'[e] = step[e]
      PROVE  BodyInv'
  <2>1. \A e \in Calls : Sound(limit', step'[e], body'[e])
    BY <1>1, <1>2, <1>4
  <2> QED
    BY <1>0, <1>1, <1>4, <2>1, EveryBodyNext
<1>5. ASSUME NEW c \in Calls, NEW next, step' = [step EXCEPT ![c] = next],
             body'[c] = NoBody, body' = [body EXCEPT ![c] = NoBody]
      PROVE  BodyInv'
  <2>1. NoBody \in Bodies
    BY DEF NoBody, Bodies
  <2>2. /\ body' \in [Calls -> Bodies]
        /\ \A e \in Calls \ {c} : body'[e] = body[e] /\ step'[e] = step[e]
    BY <1>0, <1>5, <2>1
  <2>3. Sound(limit, step'[c], body'[c])
    BY <1>0, <1>5, NoBodySound
  <2> QED
    BY <1>4, <2>2, <2>3
<1>6. ASSUME NEW c \in Calls, ReadBody(c) PROVE BodyInv'
  <2>1. body' \in [Calls -> Bodies] /\ Sound(limit, step'[c], body'[c])
    BY <1>0, <1>2, <1>6, ReadStep
  <2>2. PICK at, b : step' = [step EXCEPT ![c] = at] /\ body' = [body EXCEPT ![c] = b]
    BY <1>6 DEF ReadBody, ReadMore
  <2>3. \A e \in Calls \ {c} : body'[e] = body[e] /\ step'[e] = step[e]
    BY <1>0, <2>2
  <2> QED
    BY <1>4, <2>1, <2>3
<1>7. ASSUME NEW c \in Calls, GetAnswered(c) PROVE BodyInv'
  <2>1. /\ step[c] = "GET"
        /\ \/ step' = [step EXCEPT ![c] = "reading"] /\ body' = [body EXCEPT ![c].ended = FALSE]
           \/ step' = [step EXCEPT ![c] = "counting"] /\ body' = body
    BY <1>7 DEF GetAnswered, Answered, OpenBody
  <2>2. body[c] = NoBody
    BY <1>3, <2>1
  <2>3. CASE step' = [step EXCEPT ![c] = "reading"] /\ body' = [body EXCEPT ![c].ended = FALSE]
    <3> DEFINE next == [body[c] EXCEPT !.ended = FALSE]
    <3>1. next \in Bodies /\ next.read = body[c].read
      BY <1>0 DEF Bodies
    <3>2. next.read = 0
      BY <2>2, <3>1 DEF NoBody
    <3>3. body' = [body EXCEPT ![c] = next]
      BY <2>3
    <3> HIDE DEF next
    <3>4. /\ step'[c] = "reading" /\ body'[c] = next /\ body' \in [Calls -> Bodies]
          /\ \A e \in Calls \ {c} : body'[e] = body[e] /\ step'[e] = step[e]
      BY <1>0, <2>3, <3>1, <3>3
    <3>5. Sound(limit, "reading", next)
      BY <1>0, <3>1, <3>2, OpenedSound
    <3> QED
      BY <1>4, <3>4, <3>5
  <2>4. CASE step' = [step EXCEPT ![c] = "counting"] /\ body' = body
    BY <1>0, <1>5, <2>2, <2>4
  <2> QED
    BY <2>1, <2>3, <2>4
<1>8. ASSUME NEW c \in Calls, GetFailed(c) \/ HeadAnswered(c) \/ BrowserHeadAnswered(c)
      PROVE  BodyInv'
  <2>1. PICK next \in {"browser HEAD", "GET", "counting"} :
          /\ step[c] \in {"HEAD", "browser HEAD", "GET"}
          /\ step' = [step EXCEPT ![c] = next] /\ body' = body
    BY <1>8 DEF GetFailed, HeadAnswered, BrowserHeadAnswered, Answered, AfterHead
  <2>2. body[c] = NoBody
    BY <1>3, <2>1
  <2> QED
    BY <1>0, <1>5, <2>1, <2>2
<1>9. ASSUME NEW c \in Calls, DropCheck(c) \/ onCheckResult(c) PROVE BodyInv'
  <2>1. PICK next \in {"plugin", "returned"} :
          step' = [step EXCEPT ![c] = next] /\ body' = [body EXCEPT ![c] = NoBody]
    BY <1>9 DEF DropCheck, onCheckResult, PluginReturns, ClientGone, CloseBody
  <2> QED
    BY <1>0, <1>5, <2>1
<1>10. ASSUME NEW c \in Calls, FakeCheck(c) \/ StartCheck(c) \/ SendHead(c) PROVE BodyInv'
  <2>1. PICK next \in {"plugin", "entering", "HEAD", "returned"} :
          /\ step[c] \in {"plugin", "entering"}
          /\ step' = [step EXCEPT ![c] = next] /\ body' = body
    BY <1>10 DEF FakeCheck, StartCheck, StartRequests, HandBack, SendHead, PluginReturns
  <2>2. body[c] = NoBody
    BY <1>3, <2>1
  <2> QED
    BY <1>0, <1>5, <2>1, <2>2
<1>11. (UNCHANGED vars) \/ (\E c \in Calls : Cancel(c)) => BodyInv'
  <2>1. (UNCHANGED vars) \/ (\E c \in Calls : Cancel(c)) => UNCHANGED <<body, step>>
    BY DEF vars, Cancel, callVars
  <2> QED
    BY <1>0, <1>1, <1>2, <2>1, EveryBodyNext
<1> QED
  BY <1>6, <1>7, <1>8, <1>9, <1>10, <1>11 DEF Next, CallStep

-----------------------------------------------------------------------------
(* A plugin that the chain runs next is given a result worth a retry.      *)
LEMMA StepNoneHandsBack == TypeOK /\ NoneHandsBack /\ [Next]_vars => NoneHandsBack'
<1> SUFFICES ASSUME TypeOK, NoneHandsBack, [Next]_vars,
                    NEW e \in Calls, step'[e] = "plugin", res'[e] # None
             PROVE  shouldRetryBasedOnStatus(res'[e].code)
  BY DEF NoneHandsBack
<1>0. /\ step \in [Calls -> {"plugin", "entering", "HEAD", "browser HEAD", "GET",
                             "reading", "counting", "returned"}]
      /\ res \in [Calls -> Results \cup {None}]
  BY DEF TypeOK
<1>1. ASSUME step'[e] = step[e], res'[e] = res[e]
      PROVE  shouldRetryBasedOnStatus(res'[e].code)
  BY <1>1 DEF NoneHandsBack
<1>2. ASSUME NEW c \in Calls, FakeCheck(c) \/ DropCheck(c) \/ onCheckResult(c)
      PROVE  shouldRetryBasedOnStatus(res'[e].code)
  <2>1. PICK r \in {processResponse(200), processResponse(500), res[c],
                    [status |-> "dropped", code |-> CustomHTTPErrorCode]},
             abort \in BOOLEAN : PluginReturns(c, r, abort)
    BY <1>2 DEF FakeCheck, DropCheck, onCheckResult, DropAborts
  <2>2. res' = [res EXCEPT ![c] = r]
    BY <2>1 DEF PluginReturns
  <2>3. \/ step' = [step EXCEPT ![c] = "plugin"] /\ GoesOn(r, abort)
        \/ step' = [step EXCEPT ![c] = "returned"]
    BY <2>1 DEF PluginReturns
  <2>4. CASE e = c
    <3>1. GoesOn(r, abort) /\ res'[e] = r
      BY <1>0, <2>2, <2>3, <2>4
    <3> QED
      BY <3>1 DEF GoesOn
  <2>5. CASE e # c
    <3>1. step'[e] = step[e] /\ res'[e] = res[e]
      BY <1>0, <2>2, <2>3, <2>5
    <3> QED
      BY <1>1, <3>1
  <2> QED
    BY <2>4, <2>5
<1>3. ASSUME NEW c \in Calls,
             \/ StartCheck(c) \/ SendHead(c) \/ HeadAnswered(c) \/ BrowserHeadAnswered(c)
             \/ GetAnswered(c) \/ GetFailed(c) \/ ReadBody(c)
      PROVE  shouldRetryBasedOnStatus(res'[e].code)
  <2>1. /\ \E next \in {"entering", "HEAD", "browser HEAD", "GET", "reading", "counting"} :
             step' = [step EXCEPT ![c] = next]
        /\ \A x \in Calls \ {c} : res'[x] = res[x]
    BY <1>0, <1>3, PluginStarts
       DEF StartRequests, SendHead, ReadBody, HeadAnswered, BrowserHeadAnswered, GetAnswered,
           GetFailed, AfterHead, Answered
  <2>2. e # c
    BY <1>0, <2>1
  <2> QED
    BY <1>0, <1>1, <2>1, <2>2
<1>4. (UNCHANGED vars) \/ (\E c \in Calls : Cancel(c)) => UNCHANGED callVars
  BY DEF vars, Cancel
<1> QED
  BY <1>1, <1>2, <1>3, <1>4 DEF Next, CallStep, callVars

-----------------------------------------------------------------------------
(* The inductive invariant holds in every state.                           *)
THEOREM InductiveInvariant == Spec => []IndInv
<1>1. Init => IndInv
  BY InitIndInv
<1>2. IndInv /\ [Next]_vars => IndInv'
  <2> SUFFICES ASSUME IndInv, [Next]_vars PROVE IndInv'
    OBVIOUS
  <2>1. /\ ChainTypes' /\ ChainInv' /\ CountTypes' /\ OutgoingAddsUp'
        /\ ProxyInv' /\ BodyInv'
    BY StepChain, StepCounts, StepProxies, StepBody
  <2>2. NoneHandsBack'
    BY StepNoneHandsBack DEF IndInv
  <2>3. TypeOK'
    BY <2>1 DEF TypeOK, ChainTypes, CountTypes, ProxyInv, ProxyTypes, BodyInv
  <2> QED
    BY <2>1, <2>2, <2>3 DEF IndInv, ChainInv, ProxyInv, BodyInv
<1> QED
  BY <1>1, <1>2, PTL DEF Spec

(* The state is always of the shape that TypeOK says.                      *)
THEOREM TypeCorrect == Spec => []TypeOK
<1>1. IndInv => TypeOK
  BY DEF IndInv
<1> QED
  BY <1>1, InductiveInvariant, PTL

(* However many checks run, each outgoing one is counted exactly once more *)
(* when it ends (url_checker.go:364, 380, 382, 511).                       *)
THEOREM CountsAddUp == Spec => []OutgoingAddsUp
<1>1. IndInv => OutgoingAddsUp
  BY DEF IndInv
<1> QED
  BY <1>1, InductiveInvariant, PTL

(* No check goes by a proxy that was found for another one: autoSelect-  *)
(* ClientFor works on a copy of the shared settings (url_checker.go:392).   *)
THEOREM OwnProxies == Spec => []OwnProxyOnly
<1>1. IndInv => OwnProxyOnly
  BY DEF IndInv
<1> QED
  BY <1>1, InductiveInvariant, PTL

(* What is searched of a body is all of it that the limit admits, however  *)
(* the connection cuts it (url_checker.go:731-755).                        *)
THEOREM SearchedUpToLimit == Spec => []SearchesUpToLimit
<1>1. IndInv => SearchesUpToLimit
  BY DEF IndInv
<1> QED
  BY <1>1, InductiveInvariant, PTL

(* A body is read no further than a buffer past the limit.                 *)
THEOREM HeldWithinLimit == Spec => []HoldsLittleMore
<1>1. IndInv => HoldsLittleMore
  BY DEF IndInv
<1> QED
  BY <1>1, InductiveInvariant, PTL

(* The trace of a returned check ends with its result, and every earlier   *)
(* entry is the reason why the chain went on.                              *)
THEOREM TraceExplained == Spec => []TraceExplainsResult
<1>1. IndInv => TraceExplainsResult
  <2> SUFFICES ASSUME IndInv, NEW c \in Calls
               PROVE  /\ step[c] = "returned" =>
                           trace[c] # << >> /\ trace[c][Len(trace[c])] = res[c]
                      /\ \A n \in DOMAIN trace[c] : n < pos[c] =>
                           /\ trace[c][n].status = "broken"
                           /\ shouldRetryBasedOnStatus(trace[c][n].code)
    BY DEF TraceExplainsResult
  <2>0. Len(plugins) \in Nat
    BY PluginsLength DEF IndInv
  <2>1. trace[c] \in Seq(Results) /\ pos[c] \in 1..Len(plugins)
    BY DEF IndInv, TypeOK
  <2>2. /\ Len(trace[c]) = IF step[c] = "returned" THEN pos[c] ELSE pos[c] - 1
        /\ step[c] = "returned" => trace[c][pos[c]] = res[c]
        /\ \A n \in 1..(pos[c] - 1) : /\ trace[c][n].status = "broken"
                                      /\ shouldRetryBasedOnStatus(trace[c][n].code)
    BY DEF IndInv, TraceInStep
  <2>3. DOMAIN trace[c] = 1..Len(trace[c])
    BY <2>1
  <2>4. step[c] = "returned" => trace[c] # << >> /\ trace[c][Len(trace[c])] = res[c]
    BY <2>0, <2>1, <2>2
  <2>5. \A n \in DOMAIN trace[c] : n < pos[c] => n \in 1..(pos[c] - 1)
    BY <2>0, <2>1, <2>3
  <2> QED
    BY <2>2, <2>4, <2>5
<1> QED
  BY <1>1, InductiveInvariant, PTL

-----------------------------------------------------------------------------
(* A plugin's result either is passed over, or is the call's verdict.      *)
LEMMA VerdictStep ==
  ASSUME IndInv, NEW c \in Calls, NEW r \in Results, NEW abort \in BOOLEAN,
         PluginReturns(c, r, abort), step[c] # "returned", UNCHANGED ctxDone,
         r.status = "dropped" => ContextDone(c)
  PROVE  [Promise!Next]_(Promise!vars)
<1>0. TypeOK
  BY DEF IndInv
<1>1. CASE step' = [step EXCEPT ![c] = "plugin"]
  <2>1. \A e \in Calls \ {c} : res'[e] = res[e]
    BY <1>0 DEF PluginReturns, TypeOK
  <2>2. Verdict' = Verdict
    BY <1>0, <1>1, <2>1 DEF Verdict, TypeOK
  <2> QED
    BY <2>2 DEF Promise!vars
<1>2. CASE step' = [step EXCEPT ![c] = "returned"]
  <2>1. Verdict[c] = None
    BY DEF Verdict
  <2>2. res'[c] = r /\ \A e \in Calls \ {c} : res'[e] = res[e]
    BY <1>0 DEF PluginReturns, TypeOK
  <2>3. Verdict' = [Verdict EXCEPT ![c] = r.status]
    BY <1>0, <1>2, <2>2 DEF Verdict, TypeOK
  <2>4. r.status \in {"ok", "broken"} \cup {d \in {"dropped"} : c \in ctxDone}
    BY DEF Results, ContextDone
  <2> QED
    BY <2>1, <2>3, <2>4 DEF Promise!Next, Promise!Return
<1> QED
  BY <1>1, <1>2 DEF PluginReturns

(* Every step of the chain is a step of CheckPromise or a stutter.         *)
LEMMA StepKeepsPromise == IndInv /\ [Next]_vars => [Promise!Next]_(Promise!vars)
<1> SUFFICES ASSUME IndInv, [Next]_vars PROVE [Promise!Next]_(Promise!vars)
  OBVIOUS
<1>0. TypeOK /\ ResultOfCode
  BY DEF IndInv
<1>1. CASE UNCHANGED vars
  BY <1>1 DEF vars, callVars, Promise!vars, Verdict
<1>2. ASSUME NEW c \in Calls, Cancel(c) PROVE Promise!Next
  BY <1>2 DEF Cancel, callVars, Verdict, Promise!Next, Promise!Cancel
<1>3. ASSUME NEW c \in Calls, FakeCheck(c) PROVE [Promise!Next]_(Promise!vars)
  <2>1. PICK r \in Results : PluginReturns(c, r, TRUE) /\ r.status # "dropped"
    BY <1>3, FakeResult
  <2>2. step[c] # "returned" /\ UNCHANGED ctxDone
    BY <1>3 DEF FakeCheck
  <2> QED
    BY <2>1, <2>2, VerdictStep
<1>4. ASSUME NEW c \in Calls, DropCheck(c) PROVE [Promise!Next]_(Promise!vars)
  <2> DEFINE r == [status |-> "dropped", code |-> CustomHTTPErrorCode]
  <2>1. r \in Results
    BY DroppedResult
  <2>2. /\ PluginReturns(c, r, TRUE) /\ ContextDone(c)
        /\ step[c] # "returned" /\ UNCHANGED ctxDone
    BY <1>4 DEF DropCheck, DropAborts
  <2> QED
    BY <2>1, <2>2, VerdictStep
<1>5. ASSUME NEW c \in Calls, onCheckResult(c) PROVE [Promise!Next]_(Promise!vars)
  <2>1. PICK code \in Codes \cup FailureCodes : res[c] = processResponse(code)
    BY <1>0, <1>5 DEF onCheckResult, ResultOfCode
  <2>2. res[c] \in Results /\ res[c].status # "dropped"
    BY <2>1, CodeResults
  <2>3. /\ PluginReturns(c, res[c], FALSE)
        /\ step[c] # "returned" /\ UNCHANGED ctxDone
    BY <1>5 DEF onCheckResult
  <2> QED
    BY <2>2, <2>3, VerdictStep
<1>6. ASSUME NEW c \in Calls, StartCheck(c) \/ SendHead(c)
      PROVE  UNCHANGED Promise!vars
  BY <1>0, <1>6, PluginStarts
     DEF StartRequests, SendHead, IndInv, TypeOK, Promise!vars, Verdict
<1>7. ASSUME NEW c \in Calls,
             \/ HeadAnswered(c) \/ BrowserHeadAnswered(c)
             \/ GetAnswered(c) \/ GetFailed(c) \/ ReadBody(c)
      PROVE  UNCHANGED Promise!vars
  <2>1. PICK next \in {"browser HEAD", "GET", "reading", "counting"} :
          step[c] # "returned" /\ step' = [step EXCEPT ![c] = next]
    BY <1>7 DEF ReadBody, HeadAnswered, BrowserHeadAnswered, GetAnswered, GetFailed, Answered,
                AfterHead
  <2>2. UNCHANGED ctxDone /\ \A e \in Calls \ {c} : res'[e] = res[e]
    BY <1>0, <1>7 DEF ReadBody, HeadAnswered, BrowserHeadAnswered, GetAnswered, GetFailed, Answered,
                      TypeOK
  <2> QED
    BY <1>0, <2>1, <2>2 DEF TypeOK, Promise!vars, Verdict
<1> QED
  BY <1>1, <1>2, <1>3, <1>4, <1>5, <1>6, <1>7 DEF Next, CallStep

(* The chain of plugins keeps the promise of CheckPromise: one verdict per *)
(* call, and "dropped" only for a call that is cancelled.                  *)
THEOREM Refinement == Spec => KeepsPromise
<1>1. Init => Promise!Init
  BY DEF Init, Promise!Init, Verdict
<1>2. IndInv /\ [Next]_vars => [Promise!Next]_(Promise!vars)
  BY StepKeepsPromise
<1> QED
  BY <1>1, <1>2, InductiveInvariant, PTL DEF Spec, KeepsPromise, Promise!Spec

-----------------------------------------------------------------------------
(* A request is sent to begin with, after an answer that is worth a retry, *)
(* or to search the body.                                                  *)
SentForReason(c) ==
  Sends(c) /\ res'[c] # None =>
    shouldRetryBasedOnStatus(res'[c].code) \/ (searches /\ step'[c] = "GET")

(* A plugin that starts after another one was let to by the last result.   *)
StartedForReason ==
  \A c \in Calls : step[c] = "entering" /\ res[c] # None =>
    shouldRetryBasedOnStatus(res[c].code)

(* The calls that are in the middle of a plugin, after any step.           *)
LEMMA StepStartedForReason ==
  TypeOK /\ StartedForReason /\ [Next]_vars => StartedForReason'
<1> SUFFICES ASSUME TypeOK, StartedForReason, [Next]_vars,
                    NEW e \in Calls, step'[e] = "entering", res'[e] # None
             PROVE  shouldRetryBasedOnStatus(res'[e].code)
  BY DEF StartedForReason
<1>0. /\ step \in [Calls -> {"plugin", "entering", "HEAD", "browser HEAD", "GET",
                             "reading", "counting", "returned"}]
      /\ res \in [Calls -> Results \cup {None}]
  BY DEF TypeOK
<1>1. ASSUME step'[e] = step[e], res'[e] = res[e]
      PROVE  shouldRetryBasedOnStatus(res'[e].code)
  BY <1>1 DEF StartedForReason
<1>2. ASSUME NEW c \in Calls, res[c] = None \/ shouldRetryBasedOnStatus(res[c].code),
             StartRequests(c)
      PROVE  shouldRetryBasedOnStatus(res'[e].code)
  <2>1. step' = [step EXCEPT ![c] = "entering"] /\ res' = res
    BY <1>2 DEF StartRequests
  <2> QED
    BY <1>0, <1>1, <1>2, <2>1
<1>3. ASSUME NEW c \in Calls, FakeCheck(c) \/ HandBack(c) \/ DropCheck(c) \/ onCheckResult(c)
      PROVE  shouldRetryBasedOnStatus(res'[e].code)
  <2>1. PICK r \in {processResponse(200), processResponse(500), res[c],
                    [status |-> "dropped", code |-> CustomHTTPErrorCode]},
             next \in {"plugin", "returned"} :
          res' = [res EXCEPT ![c] = r] /\ step' = [step EXCEPT ![c] = next]
    BY <1>3 DEF FakeCheck, HandBack, DropCheck, onCheckResult, PluginReturns
  <2> QED
    BY <1>0, <1>1, <2>1
<1>4. ASSUME NEW c \in Calls,
             \/ SendHead(c) \/ HeadAnswered(c) \/ BrowserHeadAnswered(c)
             \/ GetAnswered(c) \/ GetFailed(c) \/ ReadBody(c)
      PROVE  shouldRetryBasedOnStatus(res'[e].code)
  <2>1. PICK next \in {"HEAD", "browser HEAD", "GET", "reading", "counting"} :
          step' = [step EXCEPT ![c] = next]
    BY <1>4 DEF SendHead, ReadBody, HeadAnswered, BrowserHeadAnswered, GetAnswered, GetFailed,
                AfterHead
  <2>2. \A x \in Calls \ {c} : res'[x] = res[x]
    BY <1>0, <1>4 DEF SendHead, ReadBody, HeadAnswered, BrowserHeadAnswered, GetAnswered, GetFailed,
                      Answered
  <2> QED
    BY <1>0, <1>1, <2>1, <2>2
<1>5. (UNCHANGED vars) \/ (\E c \in Calls : Cancel(c)) => UNCHANGED callVars
  BY DEF vars, Cancel
<1> QED
  BY <1>1, <1>2, <1>3, <1>4, <1>5 DEF Next, CallStep, StartCheck, callVars

LEMMA AlwaysStartedForReason == Spec => []StartedForReason
<1>1. Init => StartedForReason
  BY DEF Init, StartedForReason
<1> QED
  BY <1>1, StepStartedForReason, TypeCorrect, PTL DEF Spec

(* The code of an answer's result is the answer's.                         *)
LEMMA SendsForReason ==
  ASSUME TypeOK, StartedForReason, [Next]_vars, NEW c \in Calls
  PROVE  SentForReason(c)
<1> SUFFICES ASSUME Sends(c), res'[c] # None
             PROVE  shouldRetryBasedOnStatus(res'[c].code) \/ (searches /\ step'[c] = "GET")
  BY DEF SentForReason
<1>0. /\ step \in [Calls -> {"plugin", "entering", "HEAD", "browser HEAD", "GET",
                             "reading", "counting", "returned"}]
      /\ res \in [Calls -> Results \cup {None}]
      /\ step'[c] # step[c] /\ step'[c] \in {"HEAD", "browser HEAD", "GET"}
  BY DEF TypeOK, Sends
<1>1. CASE SendHead(c)
  <2>1. step[c] = "entering" /\ res' = res
    BY <1>1 DEF SendHead
  <2> QED
    BY <2>1 DEF StartedForReason
<1>2. CASE HeadAnswered(c) \/ BrowserHeadAnswered(c) \/ GetAnswered(c) \/ GetFailed(c)
  <2>1. PICK code \in Codes \cup FailureCodes, kind \in {"HEAD", "browser HEAD", "GET"} :
          /\ Answered(c, kind, code)
          /\ \/ code = 403 /\ step' = [step EXCEPT ![c] = "browser HEAD"]
             \/ step' = [step EXCEPT ![c] = AfterHead(code)]
             \/ step' = [step EXCEPT ![c] = "reading"]
             \/ step' = [step EXCEPT ![c] = "counting"]
    BY <1>2 DEF HeadAnswered, BrowserHeadAnswered, GetAnswered, GetFailed
  <2>2. res'[c].code = code
    BY <1>0, <2>1 DEF Answered, processResponse
  <2>3. code = 403 \/ (step'[c] = AfterHead(code) /\ AfterHead(code) # "counting")
    BY <1>0, <2>1
  <2>4. CASE code = 403
    <3>0. res'[c].code = 403
      BY <2>2, <2>4
    <3>1. shouldRetryBasedOnStatus(res'[c].code)
      BY <3>0, Zenon DEF shouldRetryBasedOnStatus, RetriedCodes
    <3> QED
      BY <3>1, Zenon
  <2>5. CASE step'[c] = AfterHead(code) /\ AfterHead(code) # "counting"
    <3>1. TriesGet(code) /\ step'[c] = "GET"
      BY <2>5 DEF AfterHead
    <3>2. searches \/ shouldRetryBasedOnStatus(code)
      BY <3>1 DEF TriesGet
    <3>3. shouldRetryBasedOnStatus(res'[c].code) <=> shouldRetryBasedOnStatus(code)
      BY <2>2
    <3> QED
      BY <3>1, <3>2, <3>3, Zenon
  <2> QED
    BY <2>3, <2>4, <2>5
<1>3. CASE FakeCheck(c) \/ StartCheck(c) \/ DropCheck(c) \/ ReadBody(c) \/ onCheckResult(c)
  <2>1. PICK next \in {"plugin", "entering", "reading", "counting", "returned"} :
          step' = [step EXCEPT ![c] = next]
    BY <1>3 DEF FakeCheck, StartCheck, StartRequests, HandBack, DropCheck, ReadBody,
                onCheckResult, PluginReturns
  <2> QED
    BY <1>0, <2>1
<1>4. CASE (UNCHANGED vars) \/ (\E e \in Calls : Cancel(e))
  BY <1>0, <1>4 DEF vars, Cancel, callVars
<1>5. CASE \E e \in Calls \ {c} : CallStep(e)
  <2>1. PICK e \in Calls \ {c} : CallStep(e)
    BY <1>5
  <2>2. PICK next \in {"plugin", "entering", "HEAD", "browser HEAD", "GET", "reading",
                       "counting", "returned"} : step' = [step EXCEPT ![e] = next]
    BY <2>1 DEF CallStep, FakeCheck, StartCheck, StartRequests, HandBack, DropCheck, SendHead,
                HeadAnswered, BrowserHeadAnswered, GetAnswered, GetFailed, ReadBody, onCheckResult,
                PluginReturns, AfterHead
  <2> QED
    BY <1>0, <2>2
<1> QED
  BY <1>1, <1>2, <1>3, <1>4, <1>5 DEF Next, CallStep

(* A check bothers no server without a reason (url_checker.go:535, 693 and *)
(* 447): every request but a first one follows an answer worth a retry, or *)
(* is sent for the body.                                                   *)
THEOREM NoNeedlessRequests == Spec => NoNeedlessRequest
<1>1. TypeOK /\ StartedForReason /\ [Next]_vars => [\A c \in Calls : SentForReason(c)]_vars
  BY SendsForReason
<1>2. [\A c \in Calls : SentForReason(c)]_vars
      => [\A c \in Calls : Sends(c) /\ res'[c] # None =>
            shouldRetryBasedOnStatus(res'[c].code) \/ (searches /\ step'[c] = "GET")]_vars
  BY DEF SentForReason
<1> QED
  BY <1>1, <1>2, TypeCorrect, AlwaysStartedForReason, PTL DEF Spec, NoNeedlessRequest

-----------------------------------------------------------------------------
(* The chain and its plugins agree on what is worth a retry                *)
(* (url_checker.go:356, 446): a result is never handed back.               *)
THEOREM NoneHandedBack == Spec => []NoneHandsBack
<1>1. IndInv => NoneHandsBack
  BY DEF IndInv
<1> QED
  BY <1>1, InductiveInvariant, PTL

-----------------------------------------------------------------------------
(* A check gets on, or stays where it is.                                  *)
GetsOn(c) ==
  \/ StepsLeft(c)' < StepsLeft(c)
  \/ StepsLeft(c)' = StepsLeft(c) /\ body'[c].read > body[c].read
  \/ UNCHANGED <<step[c], pos[c], body[c].read>>

LEMMA StepsOfEach ==
  /\ StepsOf("plugin") = 7 /\ StepsOf("entering") = 6 /\ StepsOf("HEAD") = 5
  /\ StepsOf("browser HEAD") = 4 /\ StepsOf("GET") = 3 /\ StepsOf("reading") = 2
  /\ StepsOf("counting") = 1 /\ StepsOf("returned") = 0
  BY DEF StepsOf

LEMMA PluginNumber ==
  ASSUME TypeOK, NEW c \in Calls
  PROVE  Len(plugins) \in Nat /\ pos[c] \in Nat
<1>1. Len(plugins) \in Nat
  BY PluginsLength
<1>2. pos[c] \in 1..Len(plugins)
  BY DEF TypeOK
<1> QED
  BY <1>1, <1>2

LEMMA StepsLeftNext ==
  ASSUME NEW c, UNCHANGED plugins
  PROVE  StepsLeft(c)' = 8 * (Len(plugins) - pos'[c]) + StepsOf(step'[c])
<1>1. StepsOf(step[c])' = StepsOf(step'[c])
  BY DEF StepsOf
<1> QED
  BY <1>1 DEF StepsLeft

(* Within a plugin, a check goes to a later step.                          *)
LEMMA LaterStep ==
  ASSUME TypeOK, NEW c \in Calls, UNCHANGED <<plugins, pos>>,
         StepsOf(step'[c]) < StepsOf(step[c]),
         StepsOf(step[c]) \in Nat, StepsOf(step'[c]) \in Nat
  PROVE  StepsLeft(c)' < StepsLeft(c)
<1>1. Len(plugins) \in Nat /\ pos[c] \in Nat
  BY PluginNumber
<1>2. StepsLeft(c) = 8 * (Len(plugins) - pos[c]) + StepsOf(step[c])
  BY DEF StepsLeft
<1>3. StepsLeft(c)' = 8 * (Len(plugins) - pos[c]) + StepsOf(step'[c])
  BY StepsLeftNext
<1> QED
  BY <1>1, <1>2, <1>3

(* The end of a plugin: the next one begins, or the check returns.         *)
LEMMA LaterPlugin ==
  ASSUME TypeOK, NEW c \in Calls, NEW r, NEW abort, PluginReturns(c, r, abort),
         UNCHANGED plugins, step[c] \in {"plugin", "entering", "counting"}
  PROVE  StepsLeft(c)' < StepsLeft(c)
<1>1. Len(plugins) \in Nat /\ pos[c] \in Nat
  BY PluginNumber
<1>2. StepsOf(step[c]) \in {1, 6, 7} /\ StepsOf("plugin") = 7 /\ StepsOf("returned") = 0
  BY StepsOfEach
<1>3. \/ pos'[c] = pos[c] + 1 /\ step'[c] = "plugin"
      \/ pos'[c] = pos[c] /\ step'[c] = "returned"
  BY DEF PluginReturns, TypeOK
<1>4. StepsLeft(c) = 8 * (Len(plugins) - pos[c]) + StepsOf(step[c])
  BY DEF StepsLeft
<1>5. StepsLeft(c)' = 8 * (Len(plugins) - pos'[c]) + StepsOf(step'[c])
  BY StepsLeftNext
<1>6. CASE pos'[c] = pos[c] + 1 /\ step'[c] = "plugin"
  <2>1. StepsLeft(c)' = 8 * (Len(plugins) - (pos[c] + 1)) + 7
    BY <1>2, <1>5, <1>6
  <2> QED
    BY <1>1, <1>2, <1>4, <2>1
<1>7. CASE pos'[c] = pos[c] /\ step'[c] = "returned"
  <2>1. StepsLeft(c)' = 8 * (Len(plugins) - pos[c]) + 0
    BY <1>2, <1>5, <1>7
  <2> QED
    BY <1>1, <1>2, <1>4, <2>1
<1> QED
  BY <1>3, <1>6, <1>7

(* What another call does leaves a check where it is.                      *)
LEMMA OthersStay ==
  ASSUME TypeOK, NEW c \in Calls, NEW e \in Calls, e # c, CallStep(e) \/ Cancel(e)
  PROVE  UNCHANGED <<step[c], pos[c], body[c].read>>
<1>0. /\ step \in [Calls -> {"plugin", "entering", "HEAD", "browser HEAD", "GET",
                             "reading", "counting", "returned"}]
      /\ pos \in [Calls -> 1..Len(plugins)] /\ body \in [Calls -> Bodies]
  BY DEF TypeOK
<1>1. step'[c] = step[c]
  BY <1>0 DEF CallStep, FakeCheck, StartCheck, StartRequests, HandBack, DropCheck, SendHead,
              HeadAnswered, BrowserHeadAnswered, GetAnswered, GetFailed, ReadBody, onCheckResult,
              PluginReturns, Answered, Cancel, callVars
<1>2. pos'[c] = pos[c]
  BY <1>0 DEF CallStep, FakeCheck, StartCheck, StartRequests, HandBack, DropCheck, SendHead,
              HeadAnswered, BrowserHeadAnswered, GetAnswered, GetFailed, ReadBody, onCheckResult,
              PluginReturns, Answered, Cancel, callVars
<1>3. body'[c] = body[c]
  BY <1>0 DEF CallStep, FakeCheck, StartCheck, StartRequests, HandBack, DropCheck, SendHead,
              HeadAnswered, BrowserHeadAnswered, GetAnswered, GetFailed, ReadBody, onCheckResult,
              Cancel, ClientGone, CloseBody, OpenBody, ReadMore
<1> QED
  BY <1>1, <1>2, <1>3

(* What a call does gets it on.                                            *)
LEMMA CallGetsOn ==
  ASSUME TypeOK, NEW c \in Calls, CallStep(c)
  PROVE  GetsOn(c)
<1>0. /\ step \in [Calls -> {"plugin", "entering", "HEAD", "browser HEAD", "GET",
                             "reading", "counting", "returned"}]
      /\ pos \in [Calls -> 1..Len(plugins)] /\ body \in [Calls -> Bodies]
  BY DEF TypeOK
<1>1. CASE FakeCheck(c) \/ (step[c] = "plugin" /\ HandBack(c)) \/ DropCheck(c) \/ onCheckResult(c)
  <2>1. /\ \E r, abort : PluginReturns(c, r, abort)
        /\ step[c] \in {"plugin", "entering", "counting"} /\ UNCHANGED plugins
    BY <1>1 DEF FakeCheck, HandBack, DropCheck, onCheckResult, configVars
  <2> QED
    BY <2>1, LaterPlugin DEF GetsOn
<1>2. CASE \/ step[c] = "plugin" /\ StartRequests(c)
           \/ SendHead(c) \/ HeadAnswered(c) \/ BrowserHeadAnswered(c)
           \/ GetAnswered(c) \/ GetFailed(c)
  <2>1. UNCHANGED <<plugins, pos>>
    BY <1>2 DEF StartRequests, SendHead, HeadAnswered, BrowserHeadAnswered, GetAnswered, GetFailed,
                Answered, configVars
  <2>2. \/ step[c] = "plugin" /\ step'[c] = "entering"
        \/ step[c] = "entering" /\ step'[c] = "HEAD"
        \/ step[c] = "HEAD" /\ step'[c] \in {"browser HEAD", "GET", "counting"}
        \/ step[c] = "browser HEAD" /\ step'[c] \in {"GET", "counting"}
        \/ step[c] = "GET" /\ step'[c] \in {"reading", "counting"}
    <3>1. CASE (step[c] = "plugin" /\ StartRequests(c)) \/ SendHead(c)
      BY <1>0, <3>1 DEF StartRequests, SendHead
    <3>2. CASE HeadAnswered(c)
      <4>1. PICK code : /\ step[c] = "HEAD"
                        /\ step' = [step EXCEPT ![c] = IF code = 403 THEN "browser HEAD"
                                                      ELSE AfterHead(code)]
        BY <3>2 DEF HeadAnswered, Answered
      <4> QED
        BY <1>0, <4>1 DEF AfterHead
    <3>3. CASE BrowserHeadAnswered(c)
      <4>1. PICK code : /\ step[c] = "browser HEAD"
                        /\ step' = [step EXCEPT ![c] = AfterHead(code)]
        BY <3>3 DEF BrowserHeadAnswered, Answered
      <4> QED
        BY <1>0, <4>1 DEF AfterHead
    <3>4. CASE GetAnswered(c) \/ GetFailed(c)
      <4>1. /\ step[c] = "GET"
            /\ \/ step' = [step EXCEPT ![c] = "reading"]
               \/ step' = [step EXCEPT ![c] = "counting"]
        BY <3>4 DEF GetAnswered, GetFailed, Answered
      <4> QED
        BY <1>0, <4>1
    <3> QED
      BY <1>2, <3>1, <3>2, <3>3, <3>4
  <2>3. /\ StepsOf(step'[c]) < StepsOf(step[c])
        /\ StepsOf(step[c]) \in Nat /\ StepsOf(step'[c]) \in Nat
    <3>1. CASE step[c] = "plugin" /\ step'[c] = "entering"
      <4>1. StepsOf(step[c]) = 7 /\ StepsOf(step'[c]) = 6
        BY <3>1, StepsOfEach
      <4> QED
        BY <4>1
    <3>2. CASE step[c] = "entering" /\ step'[c] = "HEAD"
      <4>1. StepsOf(step[c]) = 6 /\ StepsOf(step'[c]) = 5
        BY <3>2, StepsOfEach
      <4> QED
        BY <4>1
    <3>3. CASE step[c] = "HEAD" /\ step'[c] \in {"browser HEAD", "GET", "counting"}
      <4>1. StepsOf(step[c]) = 5 /\ StepsOf(step'[c]) \in {4, 3, 1}
        BY <3>3, StepsOfEach
      <4> QED
        BY <4>1
    <3>4. CASE step[c] = "browser HEAD" /\ step'[c] \in {"GET", "counting"}
      <4>1. StepsOf(step[c]) = 4 /\ StepsOf(step'[c]) \in {3, 1}
        BY <3>4, StepsOfEach
      <4> QED
        BY <4>1
    <3>5. CASE step[c] = "GET" /\ step'[c] \in {"reading", "counting"}
      <4>1. StepsOf(step[c]) = 3 /\ StepsOf(step'[c]) \in {2, 1}
        BY <3>5, StepsOfEach
      <4> QED
        BY <4>1
    <3> QED
      BY <2>2, <3>1, <3>2, <3>3, <3>4, <3>5
  <2> QED
    BY <2>1, <2>3, LaterStep DEF GetsOn
<1>3. CASE ReadBody(c)
  <2>1. PICK n \in 0..BufferSize, err \in BOOLEAN :
          /\ step[c] = "reading" /\ ReadMore(c, n, err)
          /\ step' = [step EXCEPT ![c] =
                        IF err \/ LimitReached(body[c].read + n) THEN "counting" ELSE @]
          /\ UNCHANGED <<configVars, pos>>
    BY <1>3 DEF ReadBody
  <2>2. body'[c].read = body[c].read + n /\ body[c].read \in Nat /\ n \in Nat
    <3>0. n \in Nat
      BY <2>1, BodyAssumption
    <3>1. body[c].read \in Nat
      BY <1>0 DEF Bodies
    <3>2. body' = [body EXCEPT ![c] =
             [read |-> body[c].read + n,
              searched |-> safelyTrimmedString(Appended(body[c].read, n, err)), ended |-> err]]
      BY <2>1 DEF ReadMore
    <3>3. body'[c].read = body[c].read + n
      BY <1>0, <3>2
    <3> QED
      BY <3>0, <3>1, <3>3
  <2>3. CASE step'[c] = "counting"
    <3>1. /\ StepsOf(step'[c]) < StepsOf(step[c])
          /\ StepsOf(step[c]) \in Nat /\ StepsOf(step'[c]) \in Nat
      <4>1. StepsOf(step[c]) = 2 /\ StepsOf(step'[c]) = 1
        BY <2>1, <2>3, StepsOfEach
      <4> QED
        BY <4>1
    <3> QED
      BY <2>1, <3>1, LaterStep DEF GetsOn, configVars
  <2>4. CASE step'[c] = step[c]
    <3>1. UNCHANGED <<step[c], pos[c]>> /\ StepsLeft(c)' = StepsLeft(c)
      BY <2>1, <2>4, StepsLeftNext DEF configVars, StepsLeft
    <3> QED
      BY <2>2, <3>1 DEF GetsOn
  <2> QED
    BY <1>0, <2>1, <2>3, <2>4
<1> QED
  BY <1>1, <1>2, <1>3 DEF CallStep, StartCheck

(* The chain never turns back (url_checker.go:430-449, 505-553).           *)
THEOREM ChainGoesOn == Spec => ChainNeverTurnsBack
<1>1. TypeOK /\ [Next]_vars => [\A c \in Calls : GetsOn(c)]_vars
  <2> SUFFICES ASSUME TypeOK, Next, NEW c \in Calls PROVE GetsOn(c)
    OBVIOUS
  <2>1. PICK e \in Calls : CallStep(e) \/ Cancel(e)
    BY DEF Next
  <2>2. CASE e = c /\ CallStep(c)
    BY <2>2, CallGetsOn
  <2>3. CASE Cancel(c)
    BY <2>3 DEF Cancel, callVars, GetsOn
  <2>4. CASE e # c
    BY <2>1, <2>4, OthersStay DEF GetsOn
  <2> QED
    BY <2>1, <2>2, <2>3, <2>4
<1>2. [\A c \in Calls : GetsOn(c)]_vars
      => [\A c \in Calls :
            \/ StepsLeft(c)' < StepsLeft(c)
            \/ StepsLeft(c)' = StepsLeft(c) /\ body'[c].read > body[c].read
            \/ UNCHANGED <<step[c], pos[c], body[c].read>>]_vars
  BY DEF GetsOn
<1> QED
  BY <1>1, <1>2, TypeCorrect, PTL DEF Spec, ChainNeverTurnsBack
=============================================================================
