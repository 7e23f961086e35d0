-------------------------- MODULE URLCheckerClient --------------------------
(***************************************************************************)
(* URLCheckerClient.CheckURL: a check walks the configured checker plugins *)
(* until one aborts the chain or finds a status not worth a retry.  The    *)
(* HTTP plugins ("urlcheck" and its proxy variants) send a HEAD request, a *)
(* HEAD as a browser if that was forbidden, and a GET if the answer is     *)
(* worth a retry or bodies are searched; the other plugins are test        *)
(* doubles with a fixed result.  Checks (Calls) run concurrently, share    *)
(* the settings and the statistics, and may be cancelled at any time.      *)
(***************************************************************************)
EXTENDS BodyReader, Sequences, FiniteSets

CONSTANTS
  Options,     \* bound: the lists of plugins given in configurations
  Codes,       \* the HTTP status codes that servers answer with
  Proxies,     \* the URLs of proxies
  HttpProxies, \* those that a PAC script calls PROXY, not SOCKS or the like
  NoProxy,     \* the empty URL, which DIRECT in a PAC script stands for, too
  None         \* no result yet

HttpPlugins == {"urlcheck", "urlcheck-pac", "urlcheck-noproxy"}
Fakes == {"_always_ok", "_always_bad", "_ok_after_1s_on_delay.com"}
Plugins == HttpPlugins \cup Fakes

(* What a request without an answer gives: 502 for a timeout, else 528.    *)
CustomHTTPErrorCode == 528
FailureCodes == {502, CustomHTTPErrorCode}
AllCodes == Codes \cup FailureCodes \cup {200, 500}

RetriedCodes == {403, 404, 405, 408, 502, 503, 504, CustomHTTPErrorCode}

ASSUME ClientAssumption ==
  /\ IsFiniteSet(Calls)
  /\ Options \subseteq Seq(STRING)
  /\ Codes \subseteq 200..599
  /\ HttpProxies \subseteq Proxies /\ NoProxy \notin Proxies

shouldRetryBasedOnStatus(code) == code \in RetriedCodes

Results == [status : {"ok", "broken", "dropped"}, code : AllCodes]
ASSUME NoneAssumption == None \notin Results /\ None \notin {"ok", "broken", "dropped"}

(* processResponse: from 300 on the URL is broken.                         *)
processResponse(code) ==
  [status |-> IF code < 300 THEN "ok" ELSE "broken", code |-> code]

VARIABLES
  plugins,  \* the configured list
  searches, \* the configured searchForBodyPatterns
  proxyURL, \* the configured proxy, which the plugins' clients are built with
  settings, \* c.settings.ProxyURL, which all checks share
  ctxDone,  \* the calls whose context is cancelled
  step,     \* call -> where it is
  pos,      \* call -> the plugin it runs
  res,      \* call -> the latest result
  trace,    \* call -> the plugins' results (CheckerTrace)
  answer,   \* call -> what the PAC script found for its URL
  client,   \* call -> the proxy of the HTTP client of its plugin
  outgoing, linkOk, linkBroken, linkDropped \* the statistics

configVars == <<plugins, searches, proxyURL, limit>>
proxyVars == <<settings, answer, client>>
callVars == <<step, pos, res, trace>>
statVars == <<outgoing, linkOk, linkBroken, linkDropped>>
vars == <<configVars, ctxDone, callVars, body, proxyVars, statVars>>

(* The option's list; an empty list is one of the text "[]".               *)
urlCheckerPluginsFromViper(option) ==
  IF option \in {<< >>, <<"[]">>} THEN <<"urlcheck">> ELSE option

(* Else the program panics when it starts: a plugin has an unknown name,   *)
(* or there is no proxy to go without.  A PAC script is configured if a    *)
(* plugin needs one.                                                       *)
Buildable(names, proxy) ==
  \A n \in DOMAIN names :
    /\ names[n] \in Plugins
    /\ names[n] = "urlcheck-noproxy" => proxy # NoProxy

Init ==
  /\ proxyURL \in Proxies \cup {NoProxy}
  /\ \E option \in Options : plugins = urlCheckerPluginsFromViper(option)
  /\ Buildable(plugins, proxyURL)
  /\ settings = proxyURL
  /\ answer = [c \in Calls |-> << >>]
  /\ client = [c \in Calls |-> NoProxy]
  /\ searches \in BOOLEAN
  /\ BodyInit
  /\ ctxDone = {}
  /\ step = [c \in Calls |-> "plugin"]
  /\ pos = [c \in Calls |-> 1]
  /\ res = [c \in Calls |-> None]
  /\ trace = [c \in Calls |-> << >>]
  /\ outgoing = 0 /\ linkOk = 0 /\ linkBroken = 0 /\ linkDropped = 0

-----------------------------------------------------------------------------
(* The chain, once the plugin at pos gave result r.                        *)

(* Mutant: the chain looks at the status, not whether a retry is worth it. *)
RetryUnlessOk(r, abort) == ~abort /\ r.status # "ok"

GoesOn(r, abort) == ~abort /\ shouldRetryBasedOnStatus(r.code)

MorePlugins(c) == pos[c] < Len(plugins)

PluginReturns(c, r, abort) ==
  /\ res' = [res EXCEPT ![c] = r]
  /\ trace' = [trace EXCEPT ![c] = Append(@, r)]
  /\ IF GoesOn(r, abort) /\ MorePlugins(c)
     THEN /\ pos' = [pos EXCEPT ![c] = @ + 1]
          /\ step' = [step EXCEPT ![c] = "plugin"]
     ELSE /\ step' = [step EXCEPT ![c] = "returned"]
          /\ UNCHANGED pos

FakeCheck(c) ==
  LET plugin == plugins[pos[c]] IN
  /\ step[c] = "plugin"
  /\ plugin \in Fakes
  /\ PluginReturns(c, processResponse(IF plugin = "_always_bad" THEN 500 ELSE 200), TRUE)
  /\ UNCHANGED <<configVars, ctxDone, body, proxyVars, statVars>>

-----------------------------------------------------------------------------
(* The choice of a proxy.  A PAC script's answer is a list of proxies and  *)
(* DIRECT, or nothing if the script fails.                                 *)
PacAnswers == {<< >>, <<NoProxy>>} \cup (Proxies \X Proxies) \cup ({NoProxy} \X Proxies)

Named(found) == {found[n] : n \in DOMAIN found}

(* The first entry, whatever it is, if any of them is a PROXY.             *)
autoSelectClientFor(found) ==
  IF Named(found) \cap HttpProxies # {} THEN found[1] ELSE settings

(* Mutant: tmpSettings is not a copy.                                      *)
SettingsShared(found) == autoSelectClientFor(found)

SettingsAfter(found) == settings

(* What a plugin's client goes by, given the answer for the URL.           *)
ClientOf(plugin, found) ==
  CASE plugin = "urlcheck" -> proxyURL
    [] plugin = "urlcheck-noproxy" -> NoProxy
    [] OTHER -> autoSelectClientFor(found)

SelectClient(c, plugin) ==
  \E found \in PacAnswers :
    /\ plugin # "urlcheck-pac" => found = << >>
    /\ answer' = [answer EXCEPT ![c] = found]
    /\ client' = [client EXCEPT ![c] = ClientOf(plugin, found)]
    /\ settings' = IF plugin = "urlcheck-pac" THEN SettingsAfter(found) ELSE settings

-----------------------------------------------------------------------------
(* An HTTP plugin.                                                         *)

StartRequests(c) ==
  /\ SelectClient(c, plugins[pos[c]])
  /\ outgoing' = outgoing + 1
  /\ step' = [step EXCEPT ![c] = "entering"]
  /\ UNCHANGED <<configVars, ctxDone, pos, res, trace, body, linkOk, linkBroken, linkDropped>>

HandBack(c) ==
  /\ PluginReturns(c, res[c], FALSE)
  /\ UNCHANGED <<configVars, ctxDone, body, proxyVars, statVars>>

(* A plugin hands the last result back, as its own and uncounted, if that  *)
(* is not worth a retry.                                                   *)
StartCheck(c) ==
  /\ step[c] = "plugin"
  /\ plugins[pos[c]] \in HttpPlugins
  /\ IF res[c] = None \/ shouldRetryBasedOnStatus(res[c].code)
     THEN StartRequests(c) ELSE HandBack(c)

(* Mutant: the checks share one context.                                   *)
AnyContextDone(c) == ctxDone # {}

ContextDone(c) == c \in ctxDone

(* Mutant: a cancelled check does not end the chain.                       *)
DropGoesOn == FALSE

DropAborts == TRUE

(* The client, its answer and the body are local to the plugin's call.     *)
ClientGone(c) ==
  /\ answer' = [answer EXCEPT ![c] = << >>]
  /\ client' = [client EXCEPT ![c] = NoProxy]
  /\ CloseBody(c)
  /\ UNCHANGED settings

DropCheck(c) ==
  /\ step[c] = "entering"
  /\ ContextDone(c)
  /\ linkDropped' = linkDropped + 1
  /\ PluginReturns(c, [status |-> "dropped", code |-> CustomHTTPErrorCode], DropAborts)
  /\ ClientGone(c)
  /\ UNCHANGED <<configVars, ctxDone, outgoing, linkOk, linkBroken>>

SendHead(c) ==
  /\ step[c] = "entering"
  /\ ~ContextDone(c)
  /\ step' = [step EXCEPT ![c] = "HEAD"]
  /\ UNCHANGED <<configVars, ctxDone, pos, res, trace, body, proxyVars, statVars>>

(* A request is answered, or fails; a cancellation lets it fail.           *)
Answered(c, kind, code) ==
  /\ step[c] = kind
  /\ res' = [res EXCEPT ![c] = processResponse(code)]
  /\ UNCHANGED <<configVars, ctxDone, pos, trace, proxyVars, statVars>>

(* Mutant: the GET is sent whatever HEAD found.                            *)
AlwaysGets(code) == TRUE

TriesGet(code) == searches \/ shouldRetryBasedOnStatus(code)

(* Mutant: the HEAD request is repeated instead.                           *)
AfterHeadAgain(code) == IF TriesGet(code) THEN "entering" ELSE "counting"

AfterHead(code) == IF TriesGet(code) THEN "GET" ELSE "counting"

HeadAnswered(c) ==
  \E code \in Codes \cup FailureCodes :
    /\ Answered(c, "HEAD", code)
    /\ step' = [step EXCEPT ![c] = IF code = 403 THEN "browser HEAD" ELSE AfterHead(code)]
    /\ UNCHANGED body

BrowserHeadAnswered(c) ==
  \E code \in Codes \cup FailureCodes :
    /\ Answered(c, "browser HEAD", code)
    /\ step' = [step EXCEPT ![c] = AfterHead(code)]
    /\ UNCHANGED body

GetAnswered(c) ==
  \E code \in Codes :
    /\ Answered(c, "GET", code)
    /\ IF searches
       THEN step' = [step EXCEPT ![c] = "reading"] /\ OpenBody(c)
       ELSE step' = [step EXCEPT ![c] = "counting"] /\ UNCHANGED body

GetFailed(c) ==
  \E code \in FailureCodes :
    /\ Answered(c, "GET", code)
    /\ step' = [step EXCEPT ![c] = "counting"]
    /\ UNCHANGED body

(* The body is read to its end, or up to the limit.                        *)
ReadBody(c) ==
  \E n \in 0..BufferSize, err \in BOOLEAN :
    /\ step[c] = "reading"
    /\ ReadMore(c, n, err)
    /\ step' = [step EXCEPT ![c] =
                  IF err \/ LimitReached(body[c].read + n) THEN "counting" ELSE @]
    /\ UNCHANGED <<configVars, ctxDone, pos, res, trace, proxyVars, statVars>>

(* Mutant: a broken link that the next plugin retries is not counted yet.  *)
CountsFinal(c) == IF pos[c] = Len(plugins) THEN 1 ELSE 0

CountsBroken(c) == 1

onCheckResult(c) ==
  /\ step[c] = "counting"
  /\ IF res[c].status = "ok"
     THEN linkOk' = linkOk + 1 /\ UNCHANGED linkBroken
     ELSE linkBroken' = linkBroken + CountsBroken(c) /\ UNCHANGED linkOk
  /\ PluginReturns(c, res[c], FALSE)
  /\ ClientGone(c)
  /\ UNCHANGED <<configVars, ctxDone, outgoing, linkDropped>>

Cancel(c) ==
  /\ step[c] # "returned"
  /\ c \notin ctxDone
  /\ ctxDone' = ctxDone \cup {c}
  /\ UNCHANGED <<configVars, callVars, body, proxyVars, statVars>>

-----------------------------------------------------------------------------
CallStep(c) ==
  \/ FakeCheck(c) \/ StartCheck(c) \/ DropCheck(c) \/ SendHead(c)
  \/ HeadAnswered(c) \/ BrowserHeadAnswered(c) \/ GetAnswered(c) \/ GetFailed(c)
  \/ ReadBody(c) \/ onCheckResult(c)

Next == \E c \in Calls : CallStep(c) \/ Cancel(c)

Spec == Init /\ [][Next]_vars

(* Each request, and the reading of its body, ends by the HTTP client's    *)
(* timeout.                                                                *)
FairSpec == Spec /\ \A c \in Calls : WF_vars(CallStep(c))

-----------------------------------------------------------------------------
TypeOK ==
  /\ plugins \in Seq(Plugins) /\ plugins # << >>
  /\ {proxyURL, settings} \subseteq Proxies \cup {NoProxy}
  /\ answer \in [Calls -> PacAnswers]
  /\ client \in [Calls -> Proxies \cup {NoProxy}]
  /\ searches \in BOOLEAN
  /\ ctxDone \subseteq Calls
  /\ limit \in Nat /\ body \in [Calls -> Bodies]
  /\ step \in [Calls -> {"plugin", "entering", "HEAD", "browser HEAD", "GET",
                         "reading", "counting", "returned"}]
  /\ pos \in [Calls -> 1..Len(plugins)]
  /\ res \in [Calls -> Results \cup {None}]
  /\ trace \in [Calls -> Seq(Results)]
  /\ \A n \in {outgoing, linkOk, linkBroken, linkDropped} : n \in Nat

(* The calls that run an HTTP plugin.                                      *)
InPlugin == {c \in Calls : step[c] \notin {"plugin", "returned"}}

(* Every outgoing check is counted once more when it ends, under the       *)
(* status it ended with, whatever other checks do meanwhile.               *)
OutgoingAddsUp ==
  outgoing = linkOk + linkBroken + linkDropped + Cardinality(InPlugin)

(* The result is the last plugin's, and its trace explains why the chain   *)
(* got there: every earlier plugin found a status worth a retry and none   *)
(* of them was dropped.                                                    *)
TraceExplainsResult ==
  \A c \in Calls :
    /\ step[c] = "returned" => trace[c] # << >> /\ trace[c][Len(trace[c])] = res[c]
    /\ \A n \in DOMAIN trace[c] : n < pos[c] =>
         trace[c][n].status = "broken" /\ shouldRetryBasedOnStatus(trace[c][n].code)

(* A check goes by the configured proxy or by one that the PAC script      *)
(* named for its own URL, never by what was found for another check, and   *)
(* the plugin that is to go without a proxy does.                          *)
OwnProxyOnly ==
  \A c \in InPlugin :
    /\ client[c] \in {NoProxy, proxyURL} \cup Named(answer[c])
    /\ plugins[pos[c]] = "urlcheck-noproxy" => client[c] = NoProxy

(* Why these hold.  While a plugin runs, the trace holds the plugins       *)
(* before it, and each of them gave a reason to go on.                     *)
TraceInStep ==
  \A c \in Calls :
    /\ Len(trace[c]) = IF step[c] = "returned" THEN pos[c] ELSE pos[c] - 1
    /\ step[c] = "returned" => trace[c][pos[c]] = res[c]
    /\ \A n \in 1..(pos[c] - 1) :
         trace[c][n].status = "broken" /\ shouldRetryBasedOnStatus(trace[c][n].code)

(* An answered request gave the result that its code stands for; only a    *)
(* call whose context is cancelled has the result "dropped".               *)
ResultOfCode ==
  \A c \in Calls :
    /\ step[c] \in {"reading", "counting"} =>
         \E code \in Codes \cup FailureCodes : res[c] = processResponse(code)
    /\ step[c] = "returned" => res[c] # None
    /\ res[c] # None /\ res[c].status = "dropped" => ContextDone(c)

(* However the connection cuts a body into reads, and however it ends, all *)
(* of it is searched that the limit admits: nothing that arrived is lost,  *)
(* and reading stops short of the body's end only at the limit.            *)
SearchesUpToLimit ==
  \A c \in Calls : LET b == body[c] IN step[c] = "counting" =>
    IF limit = 0 \/ b.read <= limit
    THEN b.searched = b.read /\ (b.ended \/ b.searched = limit)
    ELSE b.searched = limit

(* A body without end takes no more memory than the limit and a buffer.    *)
HoldsLittleMore == \A c \in Calls : limit # 0 => body[c].read < limit + BufferSize

(* Why these hold: who reads is below the limit, and nobody else has read. *)
ReadsBelowLimit ==
  \A c \in Calls :
    /\ step[c] = "reading" => ~LimitReached(body[c].read)
    /\ step[c] \notin {"reading", "counting"} => body[c] = NoBody

(* The chain and its plugins agree on what is worth a retry: no plugin     *)
(* that the chain runs hands back the result that was found before it, so  *)
(* that none is in the trace twice (url_checker.go:356, 446).              *)
NoneHandsBack ==
  \A c \in Calls : step[c] = "plugin" /\ res[c] # None =>
    shouldRetryBasedOnStatus(res[c].code)

(* The shared settings stay as configured.                                 *)
SettingsKept == settings = proxyURL

IndInv ==
  /\ TypeOK /\ OutgoingAddsUp /\ TraceInStep /\ ResultOfCode /\ OwnProxyOnly /\ SettingsKept
  /\ NoneHandsBack /\ SearchesUpToLimit /\ HoldsLittleMore /\ ReadsBelowLimit

Sends(c) == step'[c] # step[c] /\ step'[c] \in {"HEAD", "browser HEAD", "GET"}

(* A check bothers no server without a reason: it sends another request    *)
(* only after an answer worth a retry, or to search the body.              *)
NoNeedlessRequest ==
  [][\A c \in Calls : Sends(c) /\ res'[c] # None =>
       shouldRetryBasedOnStatus(res'[c].code) \/ (searches /\ step'[c] = "GET")]_vars

(* The steps that a check has left, at most: 8 per plugin.                 *)
StepsOf(at) ==
  CASE at = "plugin" -> 7 [] at = "entering" -> 6 [] at = "HEAD" -> 5 [] at = "browser HEAD" -> 4
    [] at = "GET" -> 3 [] at = "reading" -> 2 [] at = "counting" -> 1 [] at = "returned" -> 0

StepsLeft(c) == 8 * (Len(plugins) - pos[c]) + StepsOf(step[c])

(* The chain never turns back, whatever the servers answer, the bodies     *)
(* hold and other checks do: a check gets on to a later request or plugin, *)
(* or reads on in its body.                                                *)
ChainNeverTurnsBack ==
  [][\A c \in Calls :
       \/ StepsLeft(c)' < StepsLeft(c)
       \/ StepsLeft(c)' = StepsLeft(c) /\ body'[c].read > body[c].read
       \/ UNCHANGED <<step[c], pos[c], body[c].read>>]_vars

Verdict == [c \in Calls |-> IF step[c] = "returned" THEN res[c].status ELSE None]

Promise == INSTANCE CheckPromise WITH verdict <- Verdict

(* The chain of plugins keeps the promise of CheckPromise.                 *)
KeepsPromise == Promise!Spec

(* Every check returns: the chain never turns back.                        *)
CheckReturns == \A c \in Calls : <>(step[c] = "returned")
=============================================================================
