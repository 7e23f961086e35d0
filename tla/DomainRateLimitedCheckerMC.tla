--------------------- MODULE DomainRateLimitedCheckerMC ---------------------
(* Interchangeable calls and domains.                                      *)
EXTENDS DomainRateLimitedChecker, TLC

Interchangeable == Permutations(Calls) \cup Permutations(Domains)
=============================================================================
