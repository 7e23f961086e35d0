-------------------------- MODULE CheckPipelineMC ---------------------------
(* Interchangeable calls and URLs, for the safety runs.                    *)
EXTENDS CheckPipeline, TLC

Interchangeable == Permutations(Calls) \cup Permutations(URLs)
=============================================================================
