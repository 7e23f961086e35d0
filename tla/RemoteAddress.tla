--------------------------- MODULE RemoteAddress ---------------------------
(***************************************************************************)
(* The remote address that URLCheckerClient.checkURL reports with a URL's  *)
(* result.  It comes from the address cache, which all checks share, or,   *)
(* with request tracing, from callbacks of the HTTP transport: the end of  *)
(* a name look-up and of a connection attempt.  The transport dials in     *)
(* goroutines of its own, which outlive a request that timed out or was    *)
(* cancelled, and it dials whatever host a request leads to: the URL's     *)
(* own, a proxy, the target of a redirect.                                 *)
(*                                                                         *)
(* An address is abstracted to the host that it is an address of.  A check *)
(* is one run of checkURL, with a variable remoteAddr of its own.          *)
(***************************************************************************)
EXTENDS Naturals

CONSTANTS
  Checks,     \* the runs of checkURL considered
  Hosts,      \* the hosts
  NoAddress,  \* the empty string
  Unresolved, \* the text "DNS resolution failed"
  Torn,       \* what a read during a write may see of two strings
  None,       \* nothing is dialled, or written
  MaxLookups  \* bound: the counted failures, and the real ones

ASSUME AddressAssumption ==
  /\ {NoAddress, Unresolved, Torn} \cap Hosts = {}
  /\ None \notin Hosts \cup {NoAddress, Unresolved, Torn}
  /\ MaxLookups \in Nat

Addresses == Hosts \cup {NoAddress, Unresolved}

(* A dial is in a look-up or in its connection attempts.  One dial of a    *)
(* check is in progress at a time, the bound of the model on them.         *)
Dials == [to : Hosts, at : {"lookup", "connecting"}]
ASSUME NoDialAssumption == None \notin Dials

VARIABLES
  tracing,    \* the setting EnableRequestTracing
  host,       \* check -> the host of its URL
  step,       \* check -> where it is
  known,      \* check -> the cache's entry when its requests started (history)
  traced,     \* the checks whose requests carry the callbacks
  remoteAddr, \* check -> its variable of that name
  dial,       \* check -> what the transport does for it
  writing,    \* check -> what a callback is writing into remoteAddr, or None
  report,     \* check -> the address in its result
  dnsCache,   \* host -> its entry, NoAddress if there is none
  counted,    \* how often OnDNSResolutionFailed was called
  failures    \* how many look-ups and resolutions failed

checkVars == <<step, known, traced, report>>
dialVars == <<dial, writing>>
countVars == <<counted, failures>>
vars == <<tracing, host, checkVars, remoteAddr, dialVars, dnsCache, countVars>>

Init ==
  /\ tracing \in BOOLEAN
  /\ host \in [Checks -> Hosts]
  /\ step = [c \in Checks |-> "idle"]
  /\ known = [c \in Checks |-> NoAddress]
  /\ traced = {}
  /\ remoteAddr = [c \in Checks |-> NoAddress]
  /\ dial = [c \in Checks |-> None]
  /\ writing = [c \in Checks |-> None]
  /\ report = [c \in Checks |-> NoAddress]
  /\ dnsCache = [h \in Hosts |-> NoAddress]
  /\ counted = 0 /\ failures = 0

-----------------------------------------------------------------------------
(* The check itself.                                                       *)

(* Mutant: an address that is known already is traced all the same.        *)
TracedAnyway(cachedRemoteAddr) == tracing

(* A known address, or a known failure to resolve it, needs no tracing.    *)
NeedsTrace(cachedRemoteAddr) == tracing /\ cachedRemoteAddr = NoAddress

StartRequests(c) ==
  LET cachedRemoteAddr == dnsCache[host[c]] IN
  /\ step[c] = "idle"
  /\ step' = [step EXCEPT ![c] = "requesting"]
  /\ remoteAddr' = [remoteAddr EXCEPT ![c] = cachedRemoteAddr]
  /\ known' = [known EXCEPT ![c] = cachedRemoteAddr]
  /\ traced' = IF NeedsTrace(cachedRemoteAddr) THEN traced \cup {c} ELSE traced
  /\ UNCHANGED <<tracing, host, report, dialVars, dnsCache, countVars>>

(* The check is cancelled before its first request.                        *)
DropCheck(c) ==
  /\ step[c] = "idle"
  /\ step' = [step EXCEPT ![c] = "returned"]
  /\ UNCHANGED <<tracing, host, known, traced, report, remoteAddr, dialVars, dnsCache, countVars>>

(* remoteAddr is read without a lock.  A callback that is just writing it  *)
(* is a data race: the two words of the string may be old, new, or one of  *)
(* each.                                                                   *)
Read(c) ==
  IF writing[c] \in {None, remoteAddr[c]} THEN {remoteAddr[c]}
  ELSE {remoteAddr[c], writing[c], Torn}

ReturnResult(c) ==
  /\ step[c] = "requesting"
  /\ step' = [step EXCEPT ![c] = "returned"]
  /\ \E addr \in Read(c) : report' = [report EXCEPT ![c] = addr]
  /\ UNCHANGED <<tracing, host, known, traced, remoteAddr, dialVars, dnsCache, countVars>>

-----------------------------------------------------------------------------
(* The transport, and its callbacks.  A callback computes an address, then *)
(* writes it.                                                              *)

(* An address literal needs no look-up.                                    *)
DialStarts(c) ==
  /\ step[c] = "requesting"
  /\ c \in traced
  /\ dial[c] = None
  /\ \E d \in Dials : dial' = [dial EXCEPT ![c] = d]
  /\ UNCHANGED <<tracing, host, checkVars, remoteAddr, writing, dnsCache, countVars>>

(* The end of a look-up, with the addresses it found, if any: it counts as *)
(* a failure if no address is known yet.                                   *)
DNSDone(c) ==
  /\ dial[c] # None
  /\ dial[c].at = "lookup"
  /\ writing[c] = None
  /\ \E found \in BOOLEAN :
       /\ IF remoteAddr[c] = NoAddress
          THEN /\ counted < MaxLookups
               /\ counted' = counted + 1
               /\ writing' = [writing EXCEPT ![c] = IF found THEN dial[c].to ELSE NoAddress]
          ELSE UNCHANGED <<counted, writing>>
       /\ IF found
          THEN dial' = [dial EXCEPT ![c].at = "connecting"] /\ UNCHANGED failures
          ELSE /\ failures < MaxLookups
               /\ failures' = failures + 1
               /\ dial' = [dial EXCEPT ![c] = None]
  /\ UNCHANGED <<tracing, host, checkVars, remoteAddr, dnsCache>>

(* Mutant: the address that was connected to is resolved.                  *)
Connected(c) == dial[c].to

addrToResolve(c) == host[c]

(* How a connection attempt ends: it failed (another one may have won), or *)
(* the address of the URL, not the connection's, is resolved and cached.   *)
ConnectFailed(c) ==
  /\ writing' = [writing EXCEPT ![c] = NoAddress]
  /\ UNCHANGED <<dnsCache, countVars>>

AddressResolved(c) ==
  /\ writing' = [writing EXCEPT ![c] = addrToResolve(c)]
  /\ dnsCache' = [dnsCache EXCEPT ![host[c]] = addrToResolve(c)]
  /\ UNCHANGED countVars

AddressUnresolved(c) ==
  /\ counted < MaxLookups /\ failures < MaxLookups
  /\ counted' = counted + 1 /\ failures' = failures + 1
  /\ writing' = [writing EXCEPT ![c] = NoAddress]
  /\ dnsCache' = [dnsCache EXCEPT ![host[c]] = Unresolved]

(* More attempts of the dial may follow.                                   *)
ConnectDone(c) ==
  /\ dial[c] # None
  /\ dial[c].at = "connecting"
  /\ writing[c] = None
  /\ ConnectFailed(c) \/ AddressResolved(c) \/ AddressUnresolved(c)
  /\ \E d \in {dial[c], None} : dial' = [dial EXCEPT ![c] = d]
  /\ UNCHANGED <<tracing, host, checkVars, remoteAddr>>

CallbackWrites(c) ==
  /\ writing[c] # None
  /\ remoteAddr' = [remoteAddr EXCEPT ![c] = writing[c]]
  /\ writing' = [writing EXCEPT ![c] = None]
  /\ UNCHANGED <<tracing, host, checkVars, dial, dnsCache, countVars>>

(* Addresses expire, failures to resolve them sooner.                      *)
Expire(h) ==
  /\ dnsCache[h] # NoAddress
  /\ dnsCache' = [dnsCache EXCEPT ![h] = NoAddress]
  /\ UNCHANGED <<tracing, host, checkVars, remoteAddr, dialVars, countVars>>

-----------------------------------------------------------------------------
Next ==
  \/ \E c \in Checks : \/ StartRequests(c) \/ DropCheck(c) \/ ReturnResult(c)
                       \/ DialStarts(c) \/ DNSDone(c) \/ ConnectDone(c) \/ CallbackWrites(c)
  \/ \E h \in Hosts : Expire(h)

Spec == Init /\ [][Next]_vars

-----------------------------------------------------------------------------
TypeOK ==
  /\ tracing \in BOOLEAN
  /\ host \in [Checks -> Hosts]
  /\ step \in [Checks -> {"idle", "requesting", "returned"}]
  /\ known \in [Checks -> Addresses]
  /\ traced \subseteq Checks
  /\ remoteAddr \in [Checks -> Addresses]
  /\ dial \in [Checks -> Dials \cup {None}]
  /\ writing \in [Checks -> Addresses \cup {None}]
  /\ report \in [Checks -> Addresses \cup {Torn}]
  /\ dnsCache \in [Hosts -> Addresses]
  /\ counted \in 0..MaxLookups /\ failures \in 0..MaxLookups

(* The cache that all checks share never holds another host's address,     *)
(* wherever redirects and proxies led the checks that filled it, and so    *)
(* neither does a check that took its address from there.                  *)
SharedAddressIsOwn ==
  /\ \A h \in Hosts : dnsCache[h] \in {h, Unresolved, NoAddress}
  /\ \A c \in Checks \ traced : remoteAddr[c] \in {host[c], Unresolved, NoAddress}

(* What a check found in the cache is what it reports, whatever its        *)
(* connections come to, other checks resolve and the cache drops before it *)
(* returns: neither a late callback nor a failed connection clears it, and *)
(* it is not read while it is written.                                     *)
FoundIsReported ==
  \A c \in Checks : step[c] = "returned" /\ known[c] # NoAddress => report[c] = known[c]

(* Why these hold: only a traced check is told anything by the transport,  *)
(* and a check that found an address is not traced.                        *)
CallbacksOfTraced == \A c \in Checks : dial[c] # None \/ writing[c] # None => c \in traced

KnownStays ==
  \A c \in Checks :
    /\ step[c] = "idle" => c \notin traced /\ known[c] = NoAddress
    /\ known[c] # NoAddress => c \notin traced /\ remoteAddr[c] = known[c]

IndInv == TypeOK /\ SharedAddressIsOwn /\ FoundIsReported /\ CallbacksOfTraced /\ KnownStays

(* stats_collector.go:87 "OnDNSResolutionFailed called on dns resolution   *)
(* failure".                                                               *)
OnlyFailuresCounted == counted <= failures
=============================================================================
