---------------------------- MODULE CheckPromise ----------------------------
(***************************************************************************)
(* What every CheckURL of the service promises its caller, whatever layer  *)
(* it is called on: a call gets one verdict, which never changes, and the  *)
(* verdict "dropped" (urlcheckstatus.go: an internal reason for not        *)
(* proceeding) only once its own context is cancelled.  CheckPipeline      *)
(* (cache and guard) and URLCheckerClient (the plugin chain) implement it, *)
(* and the workers of URLListCheck rely on it.                             *)
(***************************************************************************)
CONSTANTS
  Calls, \* the calls
  None   \* no verdict yet

VARIABLES
  ctxDone, \* the calls whose context is cancelled
  verdict  \* call -> its verdict

vars == <<ctxDone, verdict>>

Init ==
  /\ ctxDone = {}
  /\ verdict = [c \in Calls |-> None]

Cancel(c) ==
  /\ ctxDone' = ctxDone \cup {c}
  /\ UNCHANGED verdict

Return(c) ==
  /\ verdict[c] = None
  /\ \E v \in {"ok", "broken"} \cup {d \in {"dropped"} : c \in ctxDone} :
       verdict' = [verdict EXCEPT ![c] = v]
  /\ UNCHANGED ctxDone

Next == \E c \in Calls : Cancel(c) \/ Return(c)

Spec == Init /\ [][Next]_vars
=============================================================================
