-------------------------------- MODULE Sums ---------------------------------
(* Sums of the values of a function with a finite domain.                  *)
EXTENDS Naturals, Functions

Sum(f) == FoldFunction(LAMBDA x, y : x + y, 0, f)
=============================================================================
