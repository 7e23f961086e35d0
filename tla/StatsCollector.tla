--------------------------- MODULE StatsCollector ---------------------------
(***************************************************************************)
(* The statistics of the service, as the concurrent checks of all the list *)
(* checks feed them and /stats/domains reads them.  Every On... handler    *)
(* runs under the write lock and is one step; GetDomainStats copies under  *)
(* the read lock, and the copy is written to the client after the unlock,  *)
(* while other checks go on counting.  A domain's counts by status are a   *)
(* Go map, which is shared unless it is cloned.                            *)
(***************************************************************************)
EXTENDS Naturals, Sequences, FiniteSets, Sums

CONSTANTS
  Checks,      \* the concurrent checks of a URL
  Domains,     \* the domains of their URLs
  Blacklisted, \* the domains that a blacklist glob matches
  Codes,       \* the statuses of broken links
  MaxRequests  \* bound: outgoing requests, and name lookups, in a behaviour

(* A code is the text of a number.                                         *)
ASSUME StatsAssumption ==
  /\ IsFiniteSet(Checks) /\ IsFiniteSet(Domains) /\ IsFiniteSet(Codes)
  /\ Codes \cap {"dns_resolution_failed", "dropped", "skipped"} = {}
  /\ Blacklisted \subseteq Domains
  /\ MaxRequests \in Nat

Reasons == Codes \cup {"dns_resolution_failed", "dropped", "skipped"}
Counters == {"OutgoingRequests", "CacheHits", "CacheMisses", "DNSResolutionsFailed",
             "LinkChecksOk", "LinkChecksBroken", "LinkChecksDropped", "LinkChecksSkipped"}

VARIABLES
  s,             \* the totals: counter -> count
  ok,            \* domain -> its Ok count
  brokenBecause, \* domain -> its map: reason -> count
  step,          \* check -> where it is
  domain,        \* check -> the domain of its URL
  remoteAddr,    \* the checks whose remote address is known
  copy           \* the reply to /stats/domains while it is written, or << >>

statsVars == <<s, ok, brokenBecause>>
checkVars == <<step, domain, remoteAddr>>
vars == <<statsVars, checkVars, copy>>

newStatsState ==
  /\ s = [n \in Counters |-> 0]
  /\ ok = [d \in Domains |-> 0]
  /\ brokenBecause = [d \in Domains |-> [r \in Reasons |-> 0]]

Init ==
  /\ newStatsState
  /\ step = [c \in Checks |-> "idle"]
  /\ domain \in [Checks -> Domains]
  /\ remoteAddr = {}
  /\ copy = << >>

-----------------------------------------------------------------------------
(* The handlers.                                                           *)

Counted(name) == s' = [s EXCEPT ![name] = @ + 1]

OnTotal(name) == Counted(name) /\ UNCHANGED <<ok, brokenBecause>>

OnLinkOk(d) ==
  /\ Counted("LinkChecksOk")
  /\ ok' = [ok EXCEPT ![d] = @ + 1]
  /\ UNCHANGED brokenBecause

(* Mutant: a domain without an entry gets none.                            *)
KnownDomainsOnly(d, reason) ==
  IF ok[d] = 0 THEN brokenBecause ELSE [brokenBecause EXCEPT ![d][reason] = @ + 1]

(* Mutant: each failure begins a new entry for its domain.                 *)
NewEntry(d, reason) ==
  [brokenBecause EXCEPT ![d] = [r \in Reasons |-> IF r = reason THEN @[r] + 1 ELSE 0]]

incrementOrDefaultStatus(d, reason) == [brokenBecause EXCEPT ![d][reason] = @ + 1]

OnReason(name, d, reason) ==
  /\ Counted(name)
  /\ brokenBecause' = incrementOrDefaultStatus(d, reason)
  /\ UNCHANGED ok

-----------------------------------------------------------------------------
(* Where a check calls them.                                               *)

Goes(c, from, to) == step[c] = from /\ step' = [step EXCEPT ![c] = to]

urlBlacklisted(c) ==
  /\ Goes(c, "idle", "done")
  /\ domain[c] \in Blacklisted
  /\ OnReason("LinkChecksSkipped", domain[c], "skipped")
  /\ UNCHANGED <<domain, remoteAddr, copy>>

CacheLookedUp(c) ==
  /\ domain[c] \notin Blacklisted
  /\ \/ Goes(c, "idle", "done") /\ OnTotal("CacheHits")
     \/ Goes(c, "idle", "missed") /\ OnTotal("CacheMisses")
  /\ UNCHANGED <<domain, remoteAddr, copy>>

(* The guard or the rate limiter drops the check: it is not counted.       *)
DroppedBefore(c) ==
  /\ Goes(c, "missed", "done")
  /\ UNCHANGED <<statsVars, domain, remoteAddr, copy>>

(* A checker plugin; more than one may run for a check.  The remote        *)
(* address may be known from an earlier request (cachedRemoteAddr).        *)
OutgoingRequest(c) ==
  /\ s["OutgoingRequests"] < MaxRequests
  /\ Goes(c, "missed", "requesting") \/ Goes(c, "missed", "cancelled")
  /\ OnTotal("OutgoingRequests")
  /\ remoteAddr' \in {remoteAddr \ {c}, remoteAddr \cup {c}}
  /\ UNCHANGED <<domain, copy>>

(* With request tracing, the end of a name lookup: it counts as a failure  *)
(* whether it found addresses or not.                                      *)
DNSDone(c) ==
  /\ step[c] = "requesting"
  /\ c \notin remoteAddr
  /\ s["DNSResolutionsFailed"] < MaxRequests
  /\ OnReason("DNSResolutionsFailed", domain[c], "dns_resolution_failed")
  /\ remoteAddr' \in {remoteAddr, remoteAddr \cup {c}}
  /\ UNCHANGED <<step, domain, copy>>

(* Mutant: a dropped check is left to the handler of the results, which    *)
(* leaves it to this one.                                                  *)
DroppedUncounted(c) ==
  /\ Goes(c, "cancelled", "done")
  /\ UNCHANGED <<statsVars, domain, remoteAddr, copy>>

checkDropped(c) ==
  /\ Goes(c, "cancelled", "done")
  /\ OnReason("LinkChecksDropped", domain[c], "dropped")
  /\ UNCHANGED <<domain, remoteAddr, copy>>

onCheckResult(c) ==
  /\ Goes(c, "requesting", "missed") \/ Goes(c, "requesting", "done")
  /\ \/ OnLinkOk(domain[c])
     \/ \E code \in Codes : OnReason("LinkChecksBroken", domain[c], code)
  /\ UNCHANGED <<domain, remoteAddr, copy>>

-----------------------------------------------------------------------------
(* A reader.  A map in a reply is << >> if it is the collector's own.      *)

(* Mutant: the struct is copied, and with it only a reference to its map.  *)
SameMap(d) == << >>

ClonedMap(d) == <<brokenBecause[d]>>

GetDomainStats ==
  /\ copy = << >>
  /\ copy' = <<[d \in Domains |-> [Ok |-> ok[d], BrokenBecause |-> ClonedMap(d)]]>>
  /\ UNCHANGED <<statsVars, checkVars>>

ReplyWritten ==
  /\ copy # << >>
  /\ copy' = << >>
  /\ UNCHANGED <<statsVars, checkVars>>

-----------------------------------------------------------------------------
CheckStep(c) ==
  \/ urlBlacklisted(c) \/ CacheLookedUp(c) \/ DroppedBefore(c)
  \/ OutgoingRequest(c) \/ DNSDone(c) \/ checkDropped(c) \/ onCheckResult(c)

Next == (\E c \in Checks : CheckStep(c)) \/ GetDomainStats \/ ReplyWritten

Spec == Init /\ [][Next]_vars

-----------------------------------------------------------------------------
(* The state is what the code keeps; each map in a reply is a clone.       *)
TypeOK ==
  /\ s \in [Counters -> Nat]
  /\ ok \in [Domains -> Nat]
  /\ brokenBecause \in [Domains -> [Reasons -> Nat]]
  /\ step \in [Checks -> {"idle", "missed", "requesting", "cancelled", "done"}]
  /\ domain \in [Checks -> Domains]
  /\ remoteAddr \subseteq Checks
  /\ copy # << >> => \A d \in Domains :
       /\ copy[1][d].Ok \in Nat
       /\ copy[1][d].BrokenBecause \in Seq([Reasons -> Nat]) \ {<< >>}

SumOver(because, reasons) ==
  Sum([d \in Domains |-> Sum([r \in reasons |-> because[d][r]])])

(* The two views of the statistics agree: the totals of /stats are the     *)
(* sums of what /stats/domains shows, whoever counted in between.          *)
TotalsMatchDomains ==
  /\ s["LinkChecksOk"] = Sum(ok)
  /\ s["LinkChecksBroken"] = SumOver(brokenBecause, Codes)
  /\ s["LinkChecksDropped"] = SumOver(brokenBecause, {"dropped"})
  /\ s["LinkChecksSkipped"] = SumOver(brokenBecause, {"skipped"})
  /\ s["DNSResolutionsFailed"] = SumOver(brokenBecause, {"dns_resolution_failed"})

(* Nothing is counted twice or forgotten: a request that went out is being *)
(* made or has one outcome, also if it was cancelled or is one of several  *)
(* of its check; a check that began has been skipped, found or missed.     *)
RequestsAccounted ==
  /\ s["OutgoingRequests"] =
       s["LinkChecksOk"] + s["LinkChecksBroken"] + s["LinkChecksDropped"]
         + Cardinality({c \in Checks : step[c] \in {"requesting", "cancelled"}})
  /\ s["LinkChecksSkipped"] + s["CacheHits"] + s["CacheMisses"] =
       Cardinality({c \in Checks : step[c] # "idle"})

(* What a client gets for a domain from the reply that is being written.   *)
Shown(d) ==
  [Ok |-> copy[1][d].Ok,
   BrokenBecause |-> IF copy[1][d].BrokenBecause = << >> THEN brokenBecause[d]
                     ELSE copy[1][d].BrokenBecause[1]]

(* A reply is a state that was: nothing in it is ahead of what is counted  *)
(* now, so that a later reply shows no less of any domain.                 *)
ReplyIsPast ==
  copy # << >> => \A d \in Domains :
    /\ Shown(d).Ok <= ok[d]
    /\ \A r \in Reasons : Shown(d).BrokenBecause[r] <= brokenBecause[d][r]

(* A reply does not change while it is written: no check can count in it   *)
(* (in Go that would be a fatal concurrent map access).                    *)
ReplyIsFrozen ==
  [][copy # << >> /\ copy' # << >> => \A d \in Domains : Shown(d)' = Shown(d)]_vars
=============================================================================
