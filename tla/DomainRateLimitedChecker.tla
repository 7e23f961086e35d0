---------------------- MODULE DomainRateLimitedChecker ----------------------
(***************************************************************************)
(* DomainRateLimitedChecker.CheckURL: before a check, a limiter that is    *)
(* kept per domain makes it wait for its turn.  The limiter itself is a    *)
(* library (golang.org/x/time/rate) with a burst of one: a wait reserves   *)
(* the first turn that is left, one every Interval seconds.                *)
(***************************************************************************)
EXTENDS Naturals

CONSTANTS
  Calls,    \* the calls of CheckURL
  Domains,  \* the domains of their URLs
  Interval, \* seconds per check of a domain: 1 / requestsPerSecondPerDomain
  MaxTime,  \* bound: the last second of the clock
  None      \* no limiter, no time

VARIABLES
  now,     \* the clock, in seconds
  domain,  \* call -> the domain of its URL
  domains, \* the sync.Map: domain -> its limiter's next turn
  ctxDone, \* the calls whose context is cancelled
  turn,    \* call -> the turn it waits for
  pc       \* call -> where it is

vars == <<now, domain, domains, ctxDone, turn, pc>>

Init ==
  /\ now = 0
  /\ domain \in [Calls -> Domains]
  /\ domains = [d \in Domains |-> None]
  /\ ctxDone = {}
  /\ turn = [c \in Calls |-> None]
  /\ pc = [c \in Calls |-> "idle"]

(* A domain that is not in the map gets a new limiter, whose first turn is *)
(* now; only a limiter found in the map is changed there.                  *)
Reserve(c) ==
  LET d == domain[c]
      known == domains[d] # None
      at == IF known /\ domains[d] > now THEN domains[d] ELSE now IN
  /\ pc[c] = "idle"
  /\ c \notin ctxDone
  /\ turn' = [turn EXCEPT ![c] = at]
  /\ domains' = IF known THEN [domains EXCEPT ![d] = at + Interval] ELSE domains
  /\ pc' = [pc EXCEPT ![c] = "waiting"]
  /\ UNCHANGED <<now, domain, ctxDone>>

WaitEnds(c) ==
  /\ pc[c] = "waiting"
  /\ now >= turn[c]
  /\ pc' = [pc EXCEPT ![c] = "checking"]
  /\ UNCHANGED <<now, domain, domains, ctxDone, turn>>

(* The library may give an aborted wait's turn to others; here it passes.  *)
WaitAborted(c) ==
  /\ pc[c] \in {"idle", "waiting"}
  /\ c \in ctxDone
  /\ pc' = [pc EXCEPT ![c] = "dropped"]
  /\ UNCHANGED <<now, domain, domains, ctxDone, turn>>

Cancel(c) ==
  /\ ctxDone' = ctxDone \cup {c}
  /\ UNCHANGED <<now, domain, domains, turn, pc>>

Tick ==
  /\ now < MaxTime
  /\ now' = now + 1
  /\ UNCHANGED <<domain, domains, ctxDone, turn, pc>>

Next ==
  \/ \E c \in Calls : Reserve(c) \/ WaitEnds(c) \/ WaitAborted(c) \/ Cancel(c)
  \/ Tick

Spec == Init /\ [][Next]_vars

-----------------------------------------------------------------------------
(* root.go:132 "Maximum requests per second per domain": the turns of two  *)
(* checks of a domain are at least Interval seconds apart.                 *)
TurnsAreSpaced ==
  \A c, e \in {x \in Calls : pc[x] = "checking"} :
    c # e /\ domain[c] = domain[e] =>
      turn[c] >= turn[e] + Interval \/ turn[e] >= turn[c] + Interval
=============================================================================
