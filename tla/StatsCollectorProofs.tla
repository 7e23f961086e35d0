----------------------- MODULE StatsCollectorProofs ------------------------
(***************************************************************************)
(* What is proved of the statistics, for any number of checks, domains and *)
(* statuses: the totals are the sums of the domains' counts, every request *)
(* and every check is accounted for, and a reply stays what it was.        *)
(* The sums of sums that the totals are compared with are taken apart by   *)
(* the lemmas of SumsProofs.                                               *)
(***************************************************************************)
EXTENDS StatsCollector, SumsProofs

-----------------------------------------------------------------------------
(* The counts of the domains.                                              *)

Counts == [Domains -> [Reasons -> Nat]]

(* The summands of SumOver are naturals, and so is the sum.                *)
LEMMA SumOverType ==
  ASSUME NEW b \in Counts, NEW reasons \in SUBSET Reasons
  PROVE  /\ IsFiniteSet(Reasons) /\ IsFiniteSet(reasons) /\ IsFiniteSet(Domains)
         /\ \A d \in Domains : [r \in reasons |-> b[d][r]] \in [reasons -> Nat]
         /\ [d \in Domains |-> Sum([r \in reasons |-> b[d][r]])] \in [Domains -> Nat]
         /\ SumOver(b, reasons) \in Nat
<1>1. IsFiniteSet(Domains) /\ IsFiniteSet(Codes)
  BY StatsAssumption
<1>2. IsFiniteSet(Reasons)
  <2>1. IsFiniteSet(Codes \cup {"dns_resolution_failed"})
    BY <1>1, FS_AddElement
  <2>2. IsFiniteSet((Codes \cup {"dns_resolution_failed"}) \cup {"dropped"})
    BY <2>1, FS_AddElement
  <2>3. IsFiniteSet(((Codes \cup {"dns_resolution_failed"}) \cup {"dropped"}) \cup {"skipped"})
    BY <2>2, FS_AddElement
  <2>4. Reasons = ((Codes \cup {"dns_resolution_failed"}) \cup {"dropped"}) \cup {"skipped"}
    BY DEF Reasons
  <2>5. QED
    BY <2>3, <2>4
<1>3. IsFiniteSet(reasons)
  BY <1>2, FS_Subset
<1>4. \A d \in Domains : [r \in reasons |-> b[d][r]] \in [reasons -> Nat]
  BY DEF Counts
<1>5. \A d \in Domains : Sum([r \in reasons |-> b[d][r]]) \in Nat
  BY <1>3, <1>4, SumType
<1>6. [d \in Domains |-> Sum([r \in reasons |-> b[d][r]])] \in [Domains -> Nat]
  BY <1>5
<1>7. SumOver(b, reasons) \in Nat
  BY <1>1, <1>6, SumType DEF SumOver
<1>8. QED
  BY <1>1, <1>2, <1>3, <1>4, <1>6, <1>7

OneMore(b, d, reason) == [b EXCEPT ![d][reason] = @ + 1]

(* One more for a reason: one more in every sum that has the reason, and   *)
(* no change in the others.                                                *)
LEMMA SumOverOneMore ==
  ASSUME NEW b \in Counts, NEW d \in Domains, NEW reason \in Reasons,
         NEW reasons \in SUBSET Reasons
  PROVE  /\ OneMore(b, d, reason) \in Counts
         /\ reason \in reasons =>
              SumOver(OneMore(b, d, reason), reasons) = SumOver(b, reasons) + 1
         /\ reason \notin reasons =>
              SumOver(OneMore(b, d, reason), reasons) = SumOver(b, reasons)
<1> DEFINE more == OneMore(b, d, reason)
           of(c, e) == [r \in reasons |-> c[e][r]]
           sums(c) == [e \in Domains |-> Sum(of(c, e))]
<1>1. /\ more \in Counts
      /\ more[d][reason] = b[d][reason] + 1
      /\ b[d][reason] \in Nat
      /\ \A r \in Reasons \ {reason} : more[d][r] = b[d][r]
      /\ \A e \in Domains \ {d} : more[e] = b[e]
  BY DEF Counts, OneMore
<1> HIDE DEF more
<1>2. \A c \in Counts : /\ \A e \in Domains : of(c, e) \in [reasons -> Nat]
                        /\ sums(c) \in [Domains -> Nat]
                        /\ SumOver(c, reasons) = Sum(sums(c))
                        /\ SumOver(c, reasons) \in Nat
  <2>1. TAKE c \in Counts
  <2>2. \A e \in Domains : of(c, e) \in [reasons -> Nat]
    BY SumOverType
  <2>3. sums(c) \in [Domains -> Nat]
    <3> HIDE DEF of
    <3>1. \A e \in Domains : Sum(of(c, e)) \in Nat
      BY <2>2, SumOverType, SumType
    <3>2. QED
      BY <3>1
  <2>4. SumOver(c, reasons) = Sum(sums(c))
    BY DEF SumOver
  <2>5. SumOver(c, reasons) \in Nat
    BY SumOverType
  <2>6. QED
    BY <2>2, <2>3, <2>4, <2>5
<1>3. IsFiniteSet(reasons) /\ IsFiniteSet(Domains)
  BY SumOverType
<1>4. \A e \in Domains \ {d} : of(more, e) = of(b, e)
  BY <1>1
<1>5. reason \notin reasons => of(more, d) = of(b, d)
  BY <1>1
<1>6. reason \in reasons => /\ of(more, d)[reason] = of(b, d)[reason] + 1
                            /\ of(b, d)[reason] \in Nat
                            /\ \A r \in reasons \ {reason} : of(more, d)[r] = of(b, d)[r]
  BY <1>1
<1> HIDE DEF of
<1>7. /\ \A e \in Domains : Sum(of(b, e)) \in Nat /\ Sum(of(more, e)) \in Nat
  BY <1>1, <1>2, <1>3, SumType
<1>8. reason \in reasons => Sum(of(more, d)) = Sum(of(b, d)) + 1
  <2>1. SUFFICES ASSUME reason \in reasons
                 PROVE  Sum(of(more, d)) = Sum(of(b, d)) + 1
    OBVIOUS
  <2>2. of(b, d) \in [reasons -> Nat] /\ of(more, d) \in [reasons -> Nat]
    BY <1>1, <1>2
  <2>3. Sum(of(more, d)) + of(b, d)[reason] = Sum(of(b, d)) + of(more, d)[reason]
    BY <1>3, <1>6, <2>1, <2>2, SumOfOneChanged
  <2>4. QED
    BY <1>6, <1>7, <2>1, <2>3
<1>9. /\ sums(more)[d] = Sum(of(more, d)) /\ sums(b)[d] = Sum(of(b, d))
      /\ \A e \in Domains \ {d} : sums(more)[e] = sums(b)[e]
  BY <1>4
<1> HIDE DEF sums
<1>10. Sum(sums(more)) + sums(b)[d] = Sum(sums(b)) + sums(more)[d]
  <2>1. sums(more) \in [Domains -> Nat] /\ sums(b) \in [Domains -> Nat]
    BY <1>1, <1>2
  <2>2. QED
    BY <1>3, <1>9, <2>1, SumOfOneChanged
<1>11. Sum(sums(more)) \in Nat /\ Sum(sums(b)) \in Nat
  BY <1>1, <1>2
<1>12. reason \in reasons => Sum(sums(more)) = Sum(sums(b)) + 1
  BY <1>7, <1>8, <1>9, <1>10, <1>11
<1>13. reason \notin reasons => Sum(sums(more)) = Sum(sums(b))
  BY <1>5, <1>7, <1>9, <1>10, <1>11
<1>14. /\ SumOver(more, reasons) = Sum(sums(more)) /\ SumOver(b, reasons) = Sum(sums(b))
  BY <1>1, <1>2
<1>15. QED
  BY <1>1, <1>12, <1>13, <1>14 DEF more

-----------------------------------------------------------------------------
(* The steps.                                                              *)

Others == {"OutgoingRequests", "CacheHits", "CacheMisses"}

(* What the three kinds of handlers leave typed.                           *)
LEMMA HandlersTyped ==
  ASSUME TypeOK, NEW d \in Domains
  PROVE  /\ \A name \in Counters : Counted(name) =>
              /\ s' \in [Counters -> Nat]
              /\ s'[name] = s[name] + 1
              /\ \A n \in Counters \ {name} : s'[n] = s[n]
         /\ OnLinkOk(d) =>
              /\ ok' \in [Domains -> Nat]
              /\ ok'[d] = ok[d] + 1
              /\ \A e \in Domains \ {d} : ok'[e] = ok[e]
         /\ \A reason \in Reasons : incrementOrDefaultStatus(d, reason) \in [Domains -> [Reasons -> Nat]]
<1>1. \A name \in Counters : Counted(name) =>
        /\ s' \in [Counters -> Nat]
        /\ s'[name] = s[name] + 1
        /\ \A n \in Counters \ {name} : s'[n] = s[n]
  BY DEF TypeOK, Counted
<1>2. OnLinkOk(d) => /\ ok' \in [Domains -> Nat]
                     /\ ok'[d] = ok[d] + 1
                     /\ \A e \in Domains \ {d} : ok'[e] = ok[e]
  BY DEF TypeOK, OnLinkOk
<1>3. ASSUME NEW reason \in Reasons
      PROVE  incrementOrDefaultStatus(d, reason) \in [Domains -> [Reasons -> Nat]]
  BY DEF TypeOK, incrementOrDefaultStatus
<1>4. QED
  BY <1>1, <1>2, <1>3

(* A handler that counts no outcome disturbs no sum.                       *)
LEMMA TotalsOnTotal ==
  ASSUME TypeOK, TotalsMatchDomains, NEW name \in Others, OnTotal(name)
  PROVE  TotalsMatchDomains'
<1>1. \A n \in Counters \ {name} : s'[n] = s[n]
  BY HandlersTyped DEF OnTotal, Counted, TypeOK
<1>2. ok' = ok /\ brokenBecause' = brokenBecause
  BY DEF OnTotal
<1>3. \A n \in {"LinkChecksOk", "LinkChecksBroken", "LinkChecksDropped", "LinkChecksSkipped",
                "DNSResolutionsFailed"} : n \in Counters \ {name}
  BY DEF Counters, Others
<1>4. QED
  BY <1>1, <1>2, <1>3 DEF TotalsMatchDomains

(* An Ok link is one more for its domain, and one more in all.             *)
LEMMA TotalsOnLinkOk ==
  ASSUME TypeOK, TotalsMatchDomains, NEW d \in Domains, OnLinkOk(d)
  PROVE  TotalsMatchDomains'
<1>1. /\ s'["LinkChecksOk"] = s["LinkChecksOk"] + 1
      /\ \A n \in Counters \ {"LinkChecksOk"} : s'[n] = s[n]
  BY HandlersTyped DEF OnLinkOk, Counters
<1>2. Sum(ok') = Sum(ok) + 1
  <2>1. /\ ok \in [Domains -> Nat] /\ ok' \in [Domains -> Nat] /\ ok'[d] = ok[d] + 1
        /\ \A e \in Domains \ {d} : ok'[e] = ok[e]
    BY HandlersTyped DEF TypeOK
  <2>2. IsFiniteSet(Domains)
    BY StatsAssumption
  <2>3. Sum(ok') + ok[d] = Sum(ok) + ok'[d]
    BY <2>1, <2>2, SumOfOneChanged
  <2>4. Sum(ok) \in Nat /\ Sum(ok') \in Nat /\ ok[d] \in Nat
    BY <2>1, <2>2, SumType
  <2>5. QED
    BY <2>1, <2>3, <2>4
<1>3. brokenBecause' = brokenBecause
  BY DEF OnLinkOk
<1>4. QED
  BY <1>1, <1>2, <1>3 DEF TotalsMatchDomains, Counters

(* The reasons that each total of failures sums up.                        *)
ReasonsOf == [LinkChecksBroken     |-> Codes,
              LinkChecksDropped    |-> {"dropped"},
              LinkChecksSkipped    |-> {"skipped"},
              DNSResolutionsFailed |-> {"dns_resolution_failed"}]

Failures == {"LinkChecksBroken", "LinkChecksDropped", "LinkChecksSkipped", "DNSResolutionsFailed"}

(* They are disjoint: no reason is counted by two totals.                  *)
LEMMA ReasonsApart ==
  /\ Failures \subseteq Counters \ (Others \cup {"LinkChecksOk"})
  /\ \A n \in Failures : ReasonsOf[n] \subseteq Reasons
  /\ \A m, n \in Failures : m # n => ReasonsOf[m] \cap ReasonsOf[n] = {}
  BY StatsAssumption DEF Failures, ReasonsOf, Reasons, Counters, Others

(* A failure is one more in its own total and in the sum beside it, and in *)
(* no other.                                                               *)
LEMMA TotalsOnReason ==
  ASSUME TypeOK, TotalsMatchDomains, NEW d \in Domains,
         NEW name \in Failures, NEW reason \in ReasonsOf[name], OnReason(name, d, reason)
  PROVE  TotalsMatchDomains'
<1>1. brokenBecause \in Counts
  BY DEF TypeOK, Counts
<1>2. reason \in Reasons
  BY ReasonsApart
<1>3. brokenBecause' = OneMore(brokenBecause, d, reason) /\ ok' = ok
  BY DEF OnReason, incrementOrDefaultStatus, OneMore
<1>4. /\ s'[name] = s[name] + 1
      /\ \A n \in Counters \ {name} : s'[n] = s[n]
  BY HandlersTyped, ReasonsApart DEF OnReason
<1>5. \A n \in Failures : s[n] = SumOver(brokenBecause, ReasonsOf[n])
  BY DEF TotalsMatchDomains, Failures, ReasonsOf
<1>6. ASSUME NEW n \in Failures PROVE s'[n] = SumOver(brokenBecause', ReasonsOf[n])
  <2>1. ReasonsOf[n] \in SUBSET Reasons
    BY ReasonsApart
  <2>2. /\ reason \in ReasonsOf[n] =>
             SumOver(brokenBecause', ReasonsOf[n]) = SumOver(brokenBecause, ReasonsOf[n]) + 1
        /\ reason \notin ReasonsOf[n] =>
             SumOver(brokenBecause', ReasonsOf[n]) = SumOver(brokenBecause, ReasonsOf[n])
    BY <1>1, <1>2, <1>3, <2>1, SumOverOneMore
  <2>3. reason \in ReasonsOf[n] <=> n = name
    BY ReasonsApart
  <2>4. QED
    BY <1>4, <1>5, <2>2, <2>3, ReasonsApart
<1>7. s'["LinkChecksOk"] = s["LinkChecksOk"]
  BY <1>4 DEF Counters, Failures
<1>8. QED
  BY <1>3, <1>6, <1>7 DEF TotalsMatchDomains, Failures, ReasonsOf

-----------------------------------------------------------------------------
(* Types.                                                                  *)

Steps == {"idle", "missed", "requesting", "cancelled", "done"}

(* What TypeOK says of the statistics alone.                               *)
StatsTyped ==
  /\ s \in [Counters -> Nat]
  /\ ok \in [Domains -> Nat]
  /\ brokenBecause \in [Domains -> [Reasons -> Nat]]

LEMMA HandlersKeepTypes ==
  ASSUME TypeOK, NEW d \in Domains, NEW name \in Counters,
         \/ OnTotal(name)
         \/ OnLinkOk(d)
         \/ \E reason \in Reasons : OnReason(name, d, reason)
         \/ UNCHANGED statsVars
  PROVE  StatsTyped'
<1>1. CASE OnTotal(name)
  BY <1>1, HandlersTyped DEF OnTotal, TypeOK, StatsTyped
<1>2. CASE OnLinkOk(d)
  <2>1. s' \in [Counters -> Nat]
    BY <1>2, HandlersTyped DEF OnLinkOk, Counters
  <2>2. QED
    BY <1>2, <2>1, HandlersTyped DEF OnLinkOk, TypeOK, StatsTyped
<1>3. CASE \E reason \in Reasons : OnReason(name, d, reason)
  BY <1>3, HandlersTyped DEF OnReason, TypeOK, StatsTyped
<1>4. CASE UNCHANGED statsVars
  BY <1>4 DEF statsVars, TypeOK, StatsTyped
<1>5. QED
  BY <1>1, <1>2, <1>3, <1>4

(* Where a check goes, it counts by one handler, or not at all.            *)
LEMMA CheckCounts ==
  ASSUME TypeOK, NEW c \in Checks, CheckStep(c)
  PROVE  \E name \in Counters :
           \/ OnTotal(name) /\ name \in Others
           \/ OnLinkOk(domain[c])
           \/ /\ name \in Failures
              /\ \E reason \in ReasonsOf[name] : OnReason(name, domain[c], reason)
           \/ UNCHANGED statsVars
<1>1. CASE urlBlacklisted(c)
  BY <1>1 DEF urlBlacklisted, Counters, Failures, ReasonsOf
<1>2. CASE CacheLookedUp(c)
  BY <1>2 DEF CacheLookedUp, Counters, Others
<1>3. CASE DroppedBefore(c)
  BY <1>3 DEF DroppedBefore, statsVars, Counters
<1>4. CASE OutgoingRequest(c)
  BY <1>4 DEF OutgoingRequest, Counters, Others
<1>5. CASE DNSDone(c)
  BY <1>5 DEF DNSDone, Counters, Failures, ReasonsOf
<1>6. CASE checkDropped(c)
  BY <1>6 DEF checkDropped, Counters, Failures, ReasonsOf
<1>7. CASE onCheckResult(c)
  BY <1>7 DEF onCheckResult, Counters, Failures, ReasonsOf
<1>8. QED
  BY <1>1, <1>2, <1>3, <1>4, <1>5, <1>6, <1>7 DEF CheckStep

(* What a check's step leaves alone.                                       *)
LEMMA CheckMoves ==
  ASSUME TypeOK, NEW c \in Checks, CheckStep(c)
  PROVE  /\ step' \in [Checks -> Steps]
         /\ \A b \in Checks \ {c} : step'[b] = step[b]
         /\ domain' = domain /\ copy' = copy
         /\ remoteAddr' \subseteq Checks
<1>1. \A from, to \in Steps : Goes(c, from, to) =>
        /\ step' \in [Checks -> Steps]
        /\ \A b \in Checks \ {c} : step'[b] = step[b]
  BY DEF Goes, TypeOK, Steps
<1>2. CASE urlBlacklisted(c)
  BY <1>1, <1>2 DEF urlBlacklisted, Steps, TypeOK
<1>3. CASE CacheLookedUp(c)
  BY <1>1, <1>3 DEF CacheLookedUp, Steps, TypeOK
<1>4. CASE DroppedBefore(c)
  BY <1>1, <1>4 DEF DroppedBefore, Steps, TypeOK
<1>5. CASE OutgoingRequest(c)
  BY <1>1, <1>5 DEF OutgoingRequest, Steps, TypeOK
<1>6. CASE DNSDone(c)
  BY <1>6 DEF DNSDone, Steps, TypeOK
<1>7. CASE checkDropped(c)
  BY <1>1, <1>7 DEF checkDropped, Steps, TypeOK
<1>8. CASE onCheckResult(c)
  BY <1>1, <1>8 DEF onCheckResult, Steps, TypeOK
<1>9. QED
  BY <1>2, <1>3, <1>4, <1>5, <1>6, <1>7, <1>8 DEF CheckStep

(* A reply is typed when it is made.                                       *)
LEMMA ReplyTyped ==
  ASSUME TypeOK, GetDomainStats
  PROVE  /\ copy' # << >>
         /\ \A d \in Domains :
              /\ copy'[1][d].Ok = ok[d]
              /\ copy'[1][d].BrokenBecause = <<brokenBecause[d]>>
              /\ copy'[1][d].BrokenBecause \in Seq([Reasons -> Nat]) \ {<< >>}
<1>1. \A T : \A x \in T : <<x>> \in Seq(T) \ {<< >>}
  OBVIOUS
<1>2. \A d \in Domains : <<brokenBecause[d]>> \in Seq([Reasons -> Nat]) \ {<< >>}
  BY <1>1 DEF TypeOK
<1>3. QED
  BY <1>2 DEF GetDomainStats, ClonedMap

(* The types hold, in particular that every map in a reply is a clone.     *)
THEOREM TypesHold == Spec => []TypeOK
<1>1. Init => TypeOK
  BY DEF Init, newStatsState, TypeOK
<1>2. TypeOK /\ [Next]_vars => TypeOK'
  <2> SUFFICES ASSUME TypeOK, [Next]_vars PROVE TypeOK'
    OBVIOUS
  <2>1. ASSUME NEW c \in Checks, CheckStep(c) PROVE TypeOK'
    <3>1. domain[c] \in Domains
      BY DEF TypeOK
    <3>2. StatsTyped'
      BY <2>1, <3>1, CheckCounts, HandlersKeepTypes, ReasonsApart
    <3>3. QED
      BY <2>1, <3>2, CheckMoves DEF StatsTyped, TypeOK, Steps
  <2>2. CASE GetDomainStats
    <3>1. statsVars' = statsVars /\ checkVars' = checkVars
      BY <2>2 DEF GetDomainStats
    <3>2. QED
      BY <2>2, <3>1, ReplyTyped DEF TypeOK, statsVars, checkVars
  <2>3. CASE ReplyWritten
    BY <2>3 DEF ReplyWritten, TypeOK, statsVars, checkVars
  <2>4. CASE UNCHANGED vars
    BY <2>4 DEF vars, TypeOK, statsVars, checkVars
  <2>5. QED
    BY <2>1, <2>2, <2>3, <2>4 DEF Next
<1>3. QED
  BY <1>1, <1>2, PTL DEF Spec

-----------------------------------------------------------------------------
(* The theorems.                                                           *)

(* At first every sum is one of zeros.                                     *)
LEMMA TotalsInit == Init => TotalsMatchDomains
<1> SUFFICES ASSUME Init PROVE TotalsMatchDomains
  OBVIOUS
<1>1. /\ \A n \in Counters : s[n] = 0
      /\ ok \in [Domains -> Nat] /\ \A d \in Domains : ok[d] = 0
      /\ brokenBecause \in Counts
      /\ \A d \in Domains : \A r \in Reasons : brokenBecause[d][r] = 0
  BY DEF Init, newStatsState, Counts
<1>2. Sum(ok) = 0
  BY <1>1, StatsAssumption, SumOfZeros
<1>3. ASSUME NEW reasons \in SUBSET Reasons PROVE SumOver(brokenBecause, reasons) = 0
  <2> DEFINE of(d) == [r \in reasons |-> brokenBecause[d][r]]
             sums == [d \in Domains |-> Sum(of(d))]
  <2>1. \A d \in Domains : of(d) \in [reasons -> Nat] /\ \A r \in reasons : of(d)[r] = 0
    BY <1>1
  <2> HIDE DEF of
  <2>2. IsFiniteSet(reasons) /\ IsFiniteSet(Domains)
    BY <1>1, SumOverType
  <2>3. \A d \in Domains : Sum(of(d)) = 0
    BY <2>1, <2>2, SumOfZeros
  <2>4. sums \in [Domains -> Nat] /\ \A d \in Domains : sums[d] = 0
    BY <2>3
  <2> HIDE DEF sums
  <2>5. Sum(sums) = 0
    BY <2>2, <2>4, SumOfZeros
  <2>6. QED
    BY <2>5 DEF sums, of, SumOver
<1>4. QED
  BY <1>1, <1>2, <1>3 DEF TotalsMatchDomains, Counters, Reasons

(* The totals of /stats are the sums of what /stats/domains shows, in      *)
(* every state, whatever the checks are doing meanwhile.                   *)
THEOREM TotalsAgree == Spec => []TotalsMatchDomains
<1>1. TypeOK /\ TotalsMatchDomains /\ [Next]_vars => TotalsMatchDomains'
  <2> SUFFICES ASSUME TypeOK, TotalsMatchDomains, [Next]_vars PROVE TotalsMatchDomains'
    OBVIOUS
  <2>1. CASE UNCHANGED statsVars
    BY <2>1 DEF statsVars, TotalsMatchDomains
  <2>2. ASSUME NEW c \in Checks, CheckStep(c) PROVE TotalsMatchDomains'
    <3>1. domain[c] \in Domains
      BY DEF TypeOK
    <3>2. QED
      BY <2>1, <2>2, <3>1, CheckCounts, TotalsOnTotal, TotalsOnLinkOk, TotalsOnReason
  <2>3. GetDomainStats \/ ReplyWritten \/ UNCHANGED vars => UNCHANGED statsVars
    BY DEF GetDomainStats, ReplyWritten, vars
  <2>4. QED
    BY <2>1, <2>2, <2>3 DEF Next
<1>2. QED
  BY TotalsInit, TypesHold, <1>1, PTL DEF Spec

(* The checks whose request is out, and those that began.                  *)
Requesting(at) == {c \in Checks : at[c] \in {"requesting", "cancelled"}}
Begun(at) == {c \in Checks : at[c] # "idle"}

(* What a step of one check does to the number of checks in a place.       *)
LEMMA OneMoved ==
  ASSUME NEW at \in [Checks -> Steps], NEW next \in [Checks -> Steps], NEW c \in Checks,
         \A b \in Checks \ {c} : next[b] = at[b]
  PROVE  /\ Cardinality(Requesting(at)) \in Nat
         /\ Cardinality(Requesting(next)) \in Nat
         /\ Cardinality(Begun(at)) \in Nat
         /\ Cardinality(Begun(next)) \in Nat
         /\ Cardinality(Requesting(next)) + (IF c \in Requesting(at) THEN 1 ELSE 0) =
              Cardinality(Requesting(at)) + (IF c \in Requesting(next) THEN 1 ELSE 0)
         /\ Cardinality(Begun(next)) + (IF c \in Begun(at) THEN 1 ELSE 0) =
              Cardinality(Begun(at)) + (IF c \in Begun(next) THEN 1 ELSE 0)
<1>1. ASSUME NEW S \in SUBSET Checks, NEW T \in SUBSET Checks, S \ {c} = T \ {c}
      PROVE  /\ Cardinality(S) \in Nat /\ Cardinality(T) \in Nat
             /\ Cardinality(T) + (IF c \in S THEN 1 ELSE 0) =
                  Cardinality(S) + (IF c \in T THEN 1 ELSE 0)
  <2>1. IsFiniteSet(S) /\ IsFiniteSet(T)
    BY StatsAssumption, FS_Subset
  <2>2. Cardinality(S) \in Nat /\ Cardinality(T) \in Nat
    BY <2>1, FS_CardinalityType
  <2>3. /\ Cardinality(S \ {c}) = IF c \in S THEN Cardinality(S) - 1 ELSE Cardinality(S)
        /\ Cardinality(T \ {c}) = IF c \in T THEN Cardinality(T) - 1 ELSE Cardinality(T)
    BY <2>1, FS_RemoveElement
  <2>4. Cardinality(S \ {c}) = Cardinality(T \ {c})
    BY <1>1
  <2>5. QED
    BY <2>2, <2>3, <2>4
<1>2. /\ Requesting(at) \in SUBSET Checks /\ Requesting(next) \in SUBSET Checks
      /\ Requesting(at) \ {c} = Requesting(next) \ {c}
  BY DEF Requesting
<1>3. /\ Begun(at) \in SUBSET Checks /\ Begun(next) \in SUBSET Checks
      /\ Begun(at) \ {c} = Begun(next) \ {c}
  BY DEF Begun
<1>4. QED
  BY <1>1, <1>2, <1>3

(* How the counters move together with the checks' places: these seven     *)
(* totals, and the two places.                                             *)
Outcomes(t) == t["LinkChecksOk"] + t["LinkChecksBroken"] + t["LinkChecksDropped"]
Looked(t) == t["LinkChecksSkipped"] + t["CacheHits"] + t["CacheMisses"]

LEMMA CountsMoves ==
  ASSUME TypeOK, NEW c \in Checks, CheckStep(c)
  PROVE  /\ s'["OutgoingRequests"] + Outcomes(s) + (IF c \in Requesting(step) THEN 1 ELSE 0) =
              s["OutgoingRequests"] + Outcomes(s') + (IF c \in Requesting(step') THEN 1 ELSE 0)
         /\ Looked(s') + (IF c \in Begun(step) THEN 1 ELSE 0) =
              Looked(s) + (IF c \in Begun(step') THEN 1 ELSE 0)
<1> USE DEF Requesting, Begun, Outcomes, Looked
<1>1. \A name \in Counters : Counted(name) =>
        s'[name] = s[name] + 1 /\ \A n \in Counters \ {name} : s'[n] = s[n]
  <2>1. PICK d \in Domains : TRUE
    BY DEF TypeOK
  <2>2. QED
    BY <2>1, HandlersTyped
<1>2. \A from, to \in Steps : Goes(c, from, to) => step[c] = from /\ step'[c] = to
  BY DEF Goes, TypeOK, Steps
<1>3. \A n \in Counters : s[n] \in Nat
  BY DEF TypeOK
<1>4. CASE urlBlacklisted(c)
  <2>1. step[c] = "idle" /\ step'[c] = "done"
    BY <1>2, <1>4 DEF urlBlacklisted, Steps
  <2>2. Counted("LinkChecksSkipped")
    BY <1>4 DEF urlBlacklisted, OnReason
  <2>3. QED
    BY <1>1, <1>3, <2>1, <2>2 DEF Counters
<1>5. CASE CacheLookedUp(c)
  <2>1. step[c] = "idle" /\ step'[c] \in {"done", "missed"}
    BY <1>2, <1>5 DEF CacheLookedUp, Steps
  <2>2. Counted("CacheHits") \/ Counted("CacheMisses")
    BY <1>5 DEF CacheLookedUp, OnTotal
  <2>3. QED
    BY <1>1, <1>3, <2>1, <2>2 DEF Counters
<1>6. CASE DroppedBefore(c)
  <2>1. step[c] = "missed" /\ step'[c] = "done"
    BY <1>2, <1>6 DEF DroppedBefore, Steps
  <2>2. s' = s
    BY <1>6 DEF DroppedBefore, statsVars
  <2>3. QED
    BY <1>3, <2>1, <2>2 DEF Counters
<1>7. CASE OutgoingRequest(c)
  <2>1. step[c] = "missed" /\ step'[c] \in {"requesting", "cancelled"}
    BY <1>2, <1>7 DEF OutgoingRequest, Steps
  <2>2. Counted("OutgoingRequests")
    BY <1>7 DEF OutgoingRequest, OnTotal
  <2>3. QED
    BY <1>1, <1>3, <2>1, <2>2 DEF Counters
<1>8. CASE DNSDone(c)
  <2>1. step[c] = "requesting" /\ step' = step
    BY <1>8 DEF DNSDone
  <2>2. Counted("DNSResolutionsFailed")
    BY <1>8 DEF DNSDone, OnReason
  <2>3. QED
    BY <1>1, <1>3, <2>1, <2>2 DEF Counters
<1>9. CASE checkDropped(c)
  <2>1. step[c] = "cancelled" /\ step'[c] = "done"
    BY <1>2, <1>9 DEF checkDropped, Steps
  <2>2. Counted("LinkChecksDropped")
    BY <1>9 DEF checkDropped, OnReason
  <2>3. QED
    BY <1>1, <1>3, <2>1, <2>2 DEF Counters
<1>10. CASE onCheckResult(c)
  <2>1. step[c] = "requesting" /\ step'[c] \in {"missed", "done"}
    BY <1>2, <1>10 DEF onCheckResult, Steps
  <2>2. Counted("LinkChecksOk") \/ Counted("LinkChecksBroken")
    BY <1>10 DEF onCheckResult, OnLinkOk, OnReason
  <2>3. QED
    BY <1>1, <1>3, <2>1, <2>2 DEF Counters
<1>11. QED
  BY <1>4, <1>5, <1>6, <1>7, <1>8, <1>9, <1>10 DEF CheckStep

(* Nothing is counted twice or forgotten, however many requests a check    *)
(* makes and wherever it is cancelled.                                     *)
THEOREM EverythingAccounted == Spec => []RequestsAccounted
<1>1. RequestsAccounted <=>
        /\ s["OutgoingRequests"] = Outcomes(s) + Cardinality(Requesting(step))
        /\ Looked(s) = Cardinality(Begun(step))
  BY DEF RequestsAccounted, Outcomes, Looked, Requesting, Begun
<1>2. Init => RequestsAccounted
  <2> SUFFICES ASSUME Init PROVE RequestsAccounted
    OBVIOUS
  <2>1. Requesting(step) = {} /\ Begun(step) = {}
    BY DEF Init, Requesting, Begun
  <2>2. \A n \in Counters : s[n] = 0
    BY DEF Init, newStatsState
  <2>3. Outcomes(s) = 0 /\ Looked(s) = 0 /\ s["OutgoingRequests"] = 0
    BY <2>2 DEF Outcomes, Looked, Counters
  <2>4. QED
    BY <1>1, <2>1, <2>3, FS_EmptySet
<1>3. TypeOK /\ TypeOK' /\ RequestsAccounted /\ [Next]_vars => RequestsAccounted'
  <2> SUFFICES ASSUME TypeOK, TypeOK', RequestsAccounted, [Next]_vars PROVE RequestsAccounted'
    OBVIOUS
  <2>1. /\ s["OutgoingRequests"] \in Nat /\ s'["OutgoingRequests"] \in Nat
        /\ Outcomes(s) \in Nat /\ Outcomes(s') \in Nat
        /\ Looked(s) \in Nat /\ Looked(s') \in Nat
    <3>1. \A n \in Counters : s[n] \in Nat /\ s'[n] \in Nat
      BY DEF TypeOK
    <3>2. QED
      BY <3>1 DEF Counters, Outcomes, Looked
  <2>2. ASSUME NEW c \in Checks, CheckStep(c) PROVE RequestsAccounted'
    <3>1. step \in [Checks -> Steps]
      BY DEF TypeOK, Steps
    <3>2. /\ step' \in [Checks -> Steps]
          /\ \A b \in Checks \ {c} : step'[b] = step[b]
      BY <2>2, CheckMoves
    <3> DEFINE R == Cardinality(Requesting(step))
               R1 == Cardinality(Requesting(step'))
               B == Cardinality(Begun(step))
               B1 == Cardinality(Begun(step'))
    <3>3. /\ R \in Nat /\ R1 \in Nat /\ B \in Nat /\ B1 \in Nat
          /\ R1 + (IF c \in Requesting(step) THEN 1 ELSE 0) =
               R + (IF c \in Requesting(step') THEN 1 ELSE 0)
          /\ B1 + (IF c \in Begun(step) THEN 1 ELSE 0) = B + (IF c \in Begun(step') THEN 1 ELSE 0)
      BY <3>1, <3>2, OneMoved
    <3>4. /\ s'["OutgoingRequests"] + Outcomes(s) + (IF c \in Requesting(step) THEN 1 ELSE 0) =
               s["OutgoingRequests"] + Outcomes(s') + (IF c \in Requesting(step') THEN 1 ELSE 0)
          /\ Looked(s') + (IF c \in Begun(step) THEN 1 ELSE 0) =
               Looked(s) + (IF c \in Begun(step') THEN 1 ELSE 0)
      BY <2>2, CountsMoves
    <3>5. s["OutgoingRequests"] = Outcomes(s) + R /\ Looked(s) = B
      BY <1>1
    <3> HIDE DEF R, R1, B, B1
    <3>6. s'["OutgoingRequests"] = Outcomes(s') + R1 /\ Looked(s') = B1
      BY <2>1, <3>3, <3>4, <3>5
    <3>7. QED
      BY <3>6 DEF RequestsAccounted, Outcomes, Looked, Requesting, Begun, R1, B1
  <2>3. GetDomainStats \/ ReplyWritten \/ UNCHANGED vars => UNCHANGED <<s, step>>
    BY DEF GetDomainStats, ReplyWritten, vars, statsVars, checkVars
  <2>4. UNCHANGED <<s, step>> => RequestsAccounted'
    BY DEF RequestsAccounted
  <2>5. QED
    BY <2>2, <2>3, <2>4 DEF Next
<1>4. QED
  BY TypesHold, <1>2, <1>3, PTL DEF Spec

(* A count that goes up stays above what a reply took from it.             *)
LEMMA CountsGrow ==
  ASSUME TypeOK, NEW c \in Checks, CheckStep(c), NEW d \in Domains
  PROVE  /\ ok[d] <= ok'[d]
         /\ \A r \in Reasons : brokenBecause[d][r] <= brokenBecause'[d][r]
<1>1. domain[c] \in Domains
  BY DEF TypeOK
<1>2. ok[d] \in Nat /\ \A r \in Reasons : brokenBecause[d][r] \in Nat
  BY DEF TypeOK
<1>3. ok' = ok \/ OnLinkOk(domain[c])
  BY CheckCounts DEF OnTotal, OnReason, statsVars
<1>4. \/ brokenBecause' = brokenBecause
      \/ \E reason \in Reasons : brokenBecause' = incrementOrDefaultStatus(domain[c], reason)
  BY CheckCounts, ReasonsApart DEF OnTotal, OnReason, OnLinkOk, statsVars
<1>5. ok[d] <= ok'[d]
  <2>1. CASE d = domain[c]
    BY <1>1, <1>2, <1>3, <2>1, HandlersTyped
  <2>2. CASE d # domain[c]
    BY <1>1, <1>2, <1>3, <2>2, HandlersTyped
  <2>3. QED
    BY <2>1, <2>2
<1>6. ASSUME NEW reason \in Reasons,
             brokenBecause' = incrementOrDefaultStatus(domain[c], reason), NEW r \in Reasons
      PROVE  brokenBecause'[d][r] \in {brokenBecause[d][r], brokenBecause[d][r] + 1}
  BY <1>1, <1>6 DEF TypeOK, incrementOrDefaultStatus
<1>7. \A r \in Reasons : brokenBecause[d][r] <= brokenBecause'[d][r]
  BY <1>2, <1>4, <1>6
<1>8. QED
  BY <1>5, <1>7

(* What is shown of a reply that holds clones is in the reply alone.       *)
ShownIn(reply, d) == [Ok |-> reply[1][d].Ok, BrokenBecause |-> reply[1][d].BrokenBecause[1]]

LEMMA ShownIsInReply ==
  /\ TypeOK /\ copy # << >> => \A d \in Domains : Shown(d) = ShownIn(copy, d)
  /\ TypeOK' /\ copy' # << >> => \A d \in Domains : Shown(d)' = ShownIn(copy', d)
  BY DEF TypeOK, Shown, ShownIn

(* A reply is a state that was, while the checks go on counting.           *)
THEOREM RepliesArePast == Spec => []ReplyIsPast
<1> DEFINE Within(reply, oks, because) ==
             \A d \in Domains :
               /\ ShownIn(reply, d).Ok <= oks[d]
               /\ \A r \in Reasons : ShownIn(reply, d).BrokenBecause[r] <= because[d][r]
<1>1. /\ TypeOK => (ReplyIsPast <=> (copy # << >> => Within(copy, ok, brokenBecause)))
      /\ TypeOK' => (ReplyIsPast' <=> (copy' # << >> => Within(copy', ok', brokenBecause')))
  BY ShownIsInReply DEF ReplyIsPast
<1>2. Init => ReplyIsPast
  BY DEF Init, ReplyIsPast
<1>3. TypeOK /\ TypeOK' /\ ReplyIsPast /\ [Next]_vars => ReplyIsPast'
  <2> SUFFICES ASSUME TypeOK, TypeOK', ReplyIsPast, [Next]_vars, copy' # << >>
               PROVE  Within(copy', ok', brokenBecause')
    BY <1>1
  <2>1. ASSUME NEW c \in Checks, CheckStep(c) PROVE Within(copy', ok', brokenBecause')
    <3>1. copy' = copy
      BY <2>1, CheckMoves
    <3>2. Within(copy, ok, brokenBecause)
      BY <1>1, <3>1
    <3>3. SUFFICES ASSUME NEW d \in Domains
                   PROVE  /\ ShownIn(copy, d).Ok <= ok'[d]
                          /\ \A r \in Reasons :
                               ShownIn(copy, d).BrokenBecause[r] <= brokenBecause'[d][r]
      BY <3>1
    <3>4. /\ ShownIn(copy, d).Ok \in Nat
          /\ \A r \in Reasons : ShownIn(copy, d).BrokenBecause[r] \in Nat
      <4>1. copy[1][d].BrokenBecause \in Seq([Reasons -> Nat]) \ {<< >>} /\ copy[1][d].Ok \in Nat
        BY <3>1 DEF TypeOK
      <4>2. copy[1][d].BrokenBecause[1] \in [Reasons -> Nat]
        BY <4>1
      <4>3. QED
        BY <4>1, <4>2 DEF ShownIn
    <3>5. /\ ok[d] \in Nat /\ ok'[d] \in Nat
          /\ \A r \in Reasons : brokenBecause[d][r] \in Nat /\ brokenBecause'[d][r] \in Nat
      BY DEF TypeOK
    <3>6. /\ ok[d] <= ok'[d]
          /\ \A r \in Reasons : brokenBecause[d][r] <= brokenBecause'[d][r]
      BY <2>1, CountsGrow
    <3>7. /\ ShownIn(copy, d).Ok <= ok[d]
          /\ \A r \in Reasons : ShownIn(copy, d).BrokenBecause[r] <= brokenBecause[d][r]
      BY <3>2
    <3>8. QED
      BY <3>4, <3>5, <3>6, <3>7
  <2>2. CASE GetDomainStats
    <3>1. ok' = ok /\ brokenBecause' = brokenBecause
      BY <2>2 DEF GetDomainStats, statsVars
    <3>2. \A d \in Domains : /\ ShownIn(copy', d).Ok = ok[d]
                             /\ ShownIn(copy', d).BrokenBecause = brokenBecause[d]
      BY <2>2, ReplyTyped DEF ShownIn
    <3>3. \A d \in Domains : ok[d] \in Nat /\ \A r \in Reasons : brokenBecause[d][r] \in Nat
      BY DEF TypeOK
    <3>4. QED
      BY <3>1, <3>2, <3>3
  <2>3. CASE ReplyWritten
    BY <2>3 DEF ReplyWritten
  <2>4. CASE UNCHANGED vars
    <3>1. copy' = copy /\ ok' = ok /\ brokenBecause' = brokenBecause
      BY <2>4 DEF vars, statsVars
    <3>2. QED
      BY <3>1, <1>1
  <2>5. QED
    BY <2>1, <2>2, <2>3, <2>4 DEF Next
<1>4. QED
  BY TypesHold, <1>2, <1>3, PTL DEF Spec

(* No step changes what the client of a reply gets while it is written.    *)
THEOREM RepliesAreFrozen == Spec => ReplyIsFrozen
<1>1. TypeOK /\ TypeOK' /\ [Next]_vars
        => [copy # << >> /\ copy' # << >> => \A d \in Domains : Shown(d)' = Shown(d)]_vars
  <2> SUFFICES ASSUME TypeOK, TypeOK', [Next]_vars, copy # << >>, copy' # << >>
               PROVE  \A d \in Domains : Shown(d)' = Shown(d)
    OBVIOUS
  <2>1. copy' = copy
    <3>1. (\E c \in Checks : CheckStep(c)) => copy' = copy
      BY CheckMoves
    <3>2. QED
      BY <3>1 DEF Next, GetDomainStats, ReplyWritten, vars
  <2>2. QED
    BY <2>1, ShownIsInReply
<1>2. QED
  BY TypesHold, <1>1, PTL DEF Spec, ReplyIsFrozen
=============================================================================
