------------------------- MODULE MCIncludeCallbacks -------------------------
(* Instances of IncludeCallbacks for TLC.                                  *)
EXTENDS IncludeCallbacks, TLC

Sym == Permutations(Threads) \cup Permutations(Results)
=============================================================================
