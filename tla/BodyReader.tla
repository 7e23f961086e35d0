----------------------------- MODULE BodyReader -----------------------------
(***************************************************************************)
(* limitedBody: how much of a response's body is searched.  What the body  *)
(* holds does not matter here: a body is the bytes that the connection's   *)
(* reads give, and what is searched of it is the length of a prefix.       *)
(***************************************************************************)
EXTENDS Naturals

CONSTANTS
  Calls,      \* those who read a body
  Limits,     \* the configured limits considered; 0 stands for none
  BufferSize, \* the bytes that a read asks for, at most (1024 in the code)
  MaxBody     \* bound: the bytes of a body

ASSUME BodyAssumption ==
  /\ Limits \subseteq Nat
  /\ BufferSize \in Nat \ {0} /\ MaxBody \in Nat

VARIABLES
  limit, \* the configured limitBodyToNBytes
  body   \* call -> what it read of its response's body

Bodies ==
  [read : Nat,       \* the bytes that the connection gave
   searched : Nat,   \* how many of them are searched
   ended : BOOLEAN]  \* there are no more

NoBody == [read |-> 0, searched |-> 0, ended |-> TRUE]

BodyInit ==
  /\ limit \in Limits
  /\ body = [c \in Calls |-> NoBody]

safelyTrimmedString(length) == IF limit = 0 \/ length <= limit THEN length ELSE limit

(* Mutant: one read too many if the limit is met exactly.                  *)
PastTheLimit(bytesRead) == limit # 0 /\ bytesRead > limit

LimitReached(bytesRead) == limit # 0 /\ bytesRead >= limit

(* Mutant: bytes that come with an error are lost.                         *)
WithoutErrors(read, n, err) == IF err THEN read ELSE read + n

Appended(read, n, err) == read + n

OpenBody(c) == body' = [body EXCEPT ![c].ended = FALSE]

CloseBody(c) == body' = [body EXCEPT ![c] = NoBody]

(* A read may give bytes together with the error, or the end of the body,  *)
(* that it reports.                                                        *)
ReadMore(c, n, err) ==
  /\ body[c].read + n <= MaxBody
  /\ body' = [body EXCEPT ![c] =
       [read |-> @.read + n,
        searched |-> safelyTrimmedString(Appended(@.read, n, err)),
        ended |-> err]]
=============================================================================
