-------------------------- MODULE RemoteAddressMC --------------------------
(* Interchangeable checks and hosts.                                       *)
EXTENDS RemoteAddress, TLC

Interchangeable == Permutations(Checks) \cup Permutations(Hosts)
=============================================================================
