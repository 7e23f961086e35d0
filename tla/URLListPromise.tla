--------------------------- MODULE URLListPromise ---------------------------
(***************************************************************************)
(* What the link checker promises to the client of one list check, on the  *)
(* batch route (POST /checkUrls) and on the streaming route (POST          *)
(* /checkUrls/stream): every URL of the list is answered at most once, two *)
(* URLs that normalise to the same one get the same verdict, nothing is    *)
(* answered after the request ended, and a request that ends "complete"    *)
(* has answered the whole list.  How the answers are computed (one         *)
(* goroutine per distinct URL, channels, a wait group, a timer) is         *)
(* URLListCheck, which implements this specification.                      *)
(***************************************************************************)
EXTENDS Naturals, Sequences

CONSTANTS
  URLs,      \* the spellings of URLs a client can send
  Norm,      \* normalizedURL: the spelling -> the URL it stands for
  MaxSize,   \* the longest list considered
  Outcomes,  \* the verdicts of a check
  None       \* no verdict yet

Keys == {Norm[u] : u \in URLs}
Requests == UNION {[1..n -> URLs] : n \in 0..MaxSize}
Positions == 1..MaxSize

VARIABLES
  request,   \* the list the client sent
  verdict,   \* normalised URL -> what its check found
  delivered, \* position -> the verdicts the client received for it
  status     \* "open" until the request ends

vars == <<request, verdict, delivered, status>>

Init ==
  /\ request \in Requests
  /\ verdict = [k \in Keys |-> None]
  /\ delivered = [i \in Positions |-> << >>]
  /\ status = "open"

(* The check of URL k finds its verdict; it may still do so after the      *)
(* request ended, and it never changes it.                                 *)
Decide(k) ==
  /\ verdict[k] = None
  /\ \E o \in Outcomes : verdict' = [verdict EXCEPT ![k] = o]
  /\ UNCHANGED <<request, delivered, status>>

(* The positions that may be answered now: asked for, not answered yet,    *)
(* and their URL has a verdict.                                            *)
Answerable ==
  {i \in DOMAIN request : delivered[i] = << >> /\ verdict[Norm[request[i]]] # None}

(* The client receives the answers of S, possibly with the request's end.  *)
Respond(S) ==
  /\ status = "open"
  /\ delivered' = [i \in Positions |->
                     IF i \in S THEN <<verdict[Norm[request[i]]]>> ELSE delivered[i]]
  /\ \/ status' \in {"open", "partial", "aborted"}
     \/ /\ status' = "complete"
        /\ \A i \in DOMAIN request : delivered'[i] # << >>
     \/ /\ status' \in {"badRequest", "tooLarge"}
        /\ \A i \in Positions : delivered'[i] = << >>
  /\ UNCHANGED <<request, verdict>>

Next ==
  \/ \E k \in Keys : Decide(k)
  \/ \E S \in SUBSET Answerable : Respond(S)

Spec == Init /\ [][Next]_vars
=============================================================================
