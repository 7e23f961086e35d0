------------------------ MODULE RemoteAddressProofs ------------------------
(***************************************************************************)
(* The safety properties of RemoteAddress, for any checks and hosts.       *)
(*                                                                         *)
(* The argument: a check that the transport tells nothing (it is not       *)
(* traced) has the address it took from the cache, and what the cache is   *)
(* filled with is always resolved from the host of the URL, never from     *)
(* what was connected to.  CallbacksOfTraced is what makes the first half  *)
(* inductive, and with KnownStays it gives the second property: a check    *)
(* that found an address is not traced, so that nothing is written to its  *)
(* variable until it returns.                                              *)
(***************************************************************************)
EXTENDS RemoteAddress, TLAPS

(* Initially nothing is known, dialled or written.                         *)
LEMMA InitIndInv == Init => IndInv
  BY AddressAssumption
  DEF Init, IndInv, TypeOK, SharedAddressIsOwn, FoundIsReported, CallbacksOfTraced, KnownStays,
      Addresses

(* The steps of a check itself.                                            *)
LEMMA CheckSteps ==
  ASSUME IndInv, NEW c \in Checks,
         StartRequests(c) \/ DropCheck(c) \/ ReturnResult(c)
  PROVE  IndInv'
<1>0. TypeOK /\ SharedAddressIsOwn /\ FoundIsReported /\ CallbacksOfTraced /\ KnownStays
  BY DEF IndInv
<1>h. host[c] \in Hosts
  BY <1>0 DEF TypeOK
<1>1. CASE StartRequests(c)
  <2>0. c \notin traced /\ known[c] = NoAddress
    BY <1>0, <1>1 DEF StartRequests, KnownStays
  <2>1. TypeOK'
    BY <1>0, <1>1, <1>h DEF TypeOK, StartRequests, dialVars, countVars, Addresses
  <2>2. SharedAddressIsOwn'
    BY <1>0, <1>1, <1>h DEF TypeOK, StartRequests, SharedAddressIsOwn
  <2>3. CallbacksOfTraced'
    BY <1>0, <1>1 DEF StartRequests, CallbacksOfTraced, dialVars
  <2>4. FoundIsReported'
    BY <1>0, <1>1 DEF TypeOK, StartRequests, FoundIsReported
  <2>5. KnownStays'
    BY <1>0, <1>1, <2>0 DEF TypeOK, StartRequests, KnownStays, NeedsTrace
  <2> QED BY <2>1, <2>2, <2>3, <2>4, <2>5 DEF IndInv
<1>2. CASE DropCheck(c)
  <2>1. TypeOK'
    BY <1>0, <1>2 DEF TypeOK, DropCheck, dialVars, countVars
  <2>2. SharedAddressIsOwn'
    BY <1>0, <1>2 DEF DropCheck, SharedAddressIsOwn
  <2>3. CallbacksOfTraced'
    BY <1>0, <1>2 DEF DropCheck, CallbacksOfTraced, dialVars
  <2>4. FoundIsReported'
    BY <1>0, <1>2 DEF TypeOK, DropCheck, FoundIsReported, KnownStays
  <2>5. KnownStays'
    BY <1>0, <1>2 DEF TypeOK, DropCheck, KnownStays
  <2> QED BY <2>1, <2>2, <2>3, <2>4, <2>5 DEF IndInv
<1>3. CASE ReturnResult(c)
  <2>1. PICK addr \in Read(c) : report' = [report EXCEPT ![c] = addr]
    BY <1>3 DEF ReturnResult
  <2>2. addr \in Addresses \cup {Torn}
    BY <1>0 DEF TypeOK, Read
  <2>3. TypeOK'
    BY <1>0, <1>3, <2>1, <2>2 DEF TypeOK, ReturnResult, dialVars, countVars
  <2>4. SharedAddressIsOwn'
    BY <1>0, <1>3 DEF ReturnResult, SharedAddressIsOwn
  <2>5. CallbacksOfTraced'
    BY <1>0, <1>3 DEF ReturnResult, CallbacksOfTraced, dialVars
  <2>6. known[c] # NoAddress => addr = known[c]
    BY <1>0, <2>1 DEF KnownStays, CallbacksOfTraced, Read
  <2>7. FoundIsReported'
    BY <1>0, <1>3, <2>1, <2>6 DEF TypeOK, ReturnResult, FoundIsReported
  <2>8. KnownStays'
    BY <1>0, <1>3 DEF TypeOK, ReturnResult, KnownStays
  <2> QED BY <2>3, <2>4, <2>5, <2>7, <2>8 DEF IndInv
<1> QED BY <1>1, <1>2, <1>3

(* The transport dials, and looks names up, for traced checks only.        *)
LEMMA DialSteps ==
  ASSUME IndInv, NEW c \in Checks, DialStarts(c) \/ DNSDone(c)
  PROVE  IndInv'
<1>0. TypeOK /\ SharedAddressIsOwn /\ FoundIsReported /\ CallbacksOfTraced /\ KnownStays
  BY DEF IndInv
<1>1. CASE DialStarts(c)
  <2>1. PICK d \in Dials : dial' = [dial EXCEPT ![c] = d]
    BY <1>1 DEF DialStarts
  <2>2. TypeOK'
    BY <1>0, <1>1, <2>1 DEF TypeOK, DialStarts, checkVars, countVars
  <2>3. SharedAddressIsOwn'
    BY <1>0, <1>1 DEF DialStarts, SharedAddressIsOwn, checkVars
  <2>4. CallbacksOfTraced'
    BY <1>0, <1>1, <2>1 DEF TypeOK, DialStarts, CallbacksOfTraced, checkVars
  <2>5. FoundIsReported' /\ KnownStays'
    BY <1>0, <1>1 DEF DialStarts, FoundIsReported, KnownStays, checkVars
  <2> QED BY <2>2, <2>3, <2>4, <2>5 DEF IndInv
<1>2. CASE DNSDone(c)
  <2>1. dial[c] \in Dials /\ c \in traced
    BY <1>0, <1>2 DEF TypeOK, DNSDone, CallbacksOfTraced
  <2>2. dial' \in [Checks -> Dials \cup {None}]
    <3>1. [dial EXCEPT ![c].at = "connecting"] \in [Checks -> Dials \cup {None}]
      <4>1. [dial[c] EXCEPT !.at = "connecting"] \in Dials
        BY <2>1 DEF Dials
      <4> QED BY <1>0, <4>1 DEF TypeOK
    <3>2. [dial EXCEPT ![c] = None] \in [Checks -> Dials \cup {None}]
      BY <1>0 DEF TypeOK
    <3> QED BY <1>2, <3>1, <3>2 DEF DNSDone
  <2>3. \A x \in Checks \ {c} : dial'[x] = dial[x] /\ writing'[x] = writing[x]
    BY <1>0, <1>2 DEF TypeOK, DNSDone
  <2>4. writing' \in [Checks -> Addresses \cup {None}]
    <3>1. dial[c].to \in Hosts
      BY <2>1 DEF Dials
    <3> QED BY <1>0, <1>2, <3>1 DEF TypeOK, DNSDone, Addresses
  <2>5. counted' \in 0..MaxLookups /\ failures' \in 0..MaxLookups
    BY <1>0, <1>2, AddressAssumption DEF TypeOK, DNSDone
  <2>6. TypeOK'
    BY <1>0, <1>2, <2>2, <2>4, <2>5 DEF TypeOK, DNSDone, checkVars
  <2>7. SharedAddressIsOwn'
    BY <1>0, <1>2 DEF DNSDone, SharedAddressIsOwn, checkVars
  <2>8. CallbacksOfTraced'
    BY <1>0, <1>2, <2>1, <2>3 DEF DNSDone, CallbacksOfTraced, checkVars
  <2>9. FoundIsReported' /\ KnownStays'
    BY <1>0, <1>2 DEF DNSDone, FoundIsReported, KnownStays, checkVars
  <2> QED BY <2>6, <2>7, <2>8, <2>9 DEF IndInv
<1> QED BY <1>1, <1>2

(* What the end of a connection attempt writes and caches.                 *)
LEMMA ConnectStep ==
  ASSUME IndInv, NEW c \in Checks, ConnectDone(c)
  PROVE  IndInv'
<1>0. TypeOK /\ SharedAddressIsOwn /\ FoundIsReported /\ CallbacksOfTraced /\ KnownStays
  BY DEF IndInv
<1>1. dial[c] \in Dials /\ c \in traced /\ host[c] \in Hosts
  BY <1>0 DEF ConnectDone, TypeOK, CallbacksOfTraced
<1>2. PICK d \in {dial[c], None} : dial' = [dial EXCEPT ![c] = d]
  BY DEF ConnectDone
<1>3. /\ writing' \in [Checks -> Addresses \cup {None}]
      /\ \A x \in Checks \ {c} : writing'[x] = writing[x]
  BY <1>0, <1>1
  DEF ConnectDone, ConnectFailed, AddressResolved, AddressUnresolved, TypeOK, Addresses,
      addrToResolve
<1>4. /\ dnsCache' \in [Hosts -> Addresses]
      /\ \A h \in Hosts : dnsCache'[h] \in {h, Unresolved, NoAddress}
  BY <1>0, <1>1
  DEF ConnectDone, ConnectFailed, AddressResolved, AddressUnresolved, TypeOK, Addresses,
      addrToResolve, SharedAddressIsOwn
<1>5. counted' \in 0..MaxLookups /\ failures' \in 0..MaxLookups
  BY <1>0, AddressAssumption
  DEF ConnectDone, ConnectFailed, AddressResolved, AddressUnresolved, TypeOK, countVars
<1>6. TypeOK'
  BY <1>0, <1>1, <1>2, <1>3, <1>4, <1>5 DEF TypeOK, ConnectDone, checkVars
<1>7. SharedAddressIsOwn'
  BY <1>0, <1>4 DEF ConnectDone, SharedAddressIsOwn, checkVars
<1>8. CallbacksOfTraced'
  BY <1>0, <1>1, <1>2, <1>3 DEF TypeOK, ConnectDone, CallbacksOfTraced, checkVars
<1>9. FoundIsReported' /\ KnownStays'
  BY <1>0 DEF ConnectDone, FoundIsReported, KnownStays, checkVars
<1> QED BY <1>6, <1>7, <1>8, <1>9 DEF IndInv

(* A callback writes the variable of a traced check; an entry expires.     *)
LEMMA WriteSteps ==
  ASSUME IndInv,
         (\E c \in Checks : CallbackWrites(c)) \/ (\E h \in Hosts : Expire(h))
  PROVE  IndInv'
<1>0. TypeOK /\ SharedAddressIsOwn /\ FoundIsReported /\ CallbacksOfTraced /\ KnownStays
  BY DEF IndInv
<1>1. ASSUME NEW c \in Checks, CallbackWrites(c) PROVE IndInv'
  <2>1. c \in traced /\ writing[c] \in Addresses
    BY <1>0, <1>1 DEF CallbackWrites, CallbacksOfTraced, TypeOK
  <2>2. TypeOK'
    BY <1>0, <1>1, <2>1 DEF TypeOK, CallbackWrites, checkVars, countVars
  <2>3. SharedAddressIsOwn'
    BY <1>0, <1>1, <2>1 DEF TypeOK, CallbackWrites, SharedAddressIsOwn, checkVars
  <2>4. CallbacksOfTraced'
    BY <1>0, <1>1, <2>1 DEF TypeOK, CallbackWrites, CallbacksOfTraced, checkVars
  <2>5. FoundIsReported'
    BY <1>0, <1>1 DEF CallbackWrites, FoundIsReported, checkVars
  <2>6. KnownStays'
    BY <1>0, <1>1, <2>1 DEF TypeOK, CallbackWrites, KnownStays, checkVars
  <2> QED BY <2>2, <2>3, <2>4, <2>5, <2>6 DEF IndInv
<1>2. ASSUME NEW h \in Hosts, Expire(h) PROVE IndInv'
  <2>1. TypeOK'
    BY <1>0, <1>2 DEF TypeOK, Expire, checkVars, dialVars, countVars, Addresses
  <2>2. SharedAddressIsOwn'
    BY <1>0, <1>2 DEF TypeOK, Expire, SharedAddressIsOwn, checkVars
  <2>3. CallbacksOfTraced'
    BY <1>0, <1>2 DEF Expire, CallbacksOfTraced, checkVars, dialVars
  <2>4. FoundIsReported' /\ KnownStays'
    BY <1>0, <1>2 DEF Expire, FoundIsReported, KnownStays, checkVars
  <2> QED BY <2>1, <2>2, <2>3, <2>4 DEF IndInv
<1> QED BY <1>1, <1>2

LEMMA StutterStep == IndInv /\ UNCHANGED vars => IndInv'
  BY DEF IndInv, TypeOK, SharedAddressIsOwn, FoundIsReported, CallbacksOfTraced, KnownStays,
         vars, checkVars, dialVars, countVars

LEMMA NextIndInv == IndInv /\ [Next]_vars => IndInv'
<1> SUFFICES ASSUME IndInv, [Next]_vars PROVE IndInv'
  OBVIOUS
<1>1. CASE Next
  BY <1>1, CheckSteps, DialSteps, ConnectStep, WriteSteps DEF Next
<1>2. CASE UNCHANGED vars
  BY <1>2, StutterStep
<1> QED BY <1>1, <1>2

(* The inductive invariant holds in every state, the types of all          *)
(* variables with it: the counters stay within their bound.                *)
THEOREM InductiveInvariant == Spec => []IndInv
  BY InitIndInv, NextIndInv, PTL DEF Spec

(* The address cache, which all checks share, never holds another host's   *)
(* address (maybeWithRequestTrace, resolveAndCacheTCPAddr).                *)
THEOREM SharedAddresses == Spec => []SharedAddressIsOwn
<1>1. IndInv => SharedAddressIsOwn
  BY DEF IndInv
<1> QED BY <1>1, InductiveInvariant, PTL

(* A check that found the address of its URL's host, or a failure to       *)
(* resolve it, in the cache reports that and nothing else, although        *)
(* remoteAddr is shared with callbacks without a lock and what it found    *)
(* may expire or be replaced meanwhile (url_checker.go:482, 520-525).      *)
THEOREM FoundReported == Spec => []FoundIsReported
<1>1. IndInv => FoundIsReported
  BY DEF IndInv
<1> QED BY <1>1, InductiveInvariant, PTL
=============================================================================
