-------------------------- MODULE MCClientHandles --------------------------
(* Instances of ClientHandles for TLC.                                     *)
EXTENDS ClientHandles, TLC

Sym == Permutations(Wrappers) \cup Permutations(Objects) \cup Permutations(Includers)
         \cup Permutations(Drivers) \cup Permutations(Compilers)
         \cup Permutations(Holders) \cup Permutations(Results)
=============================================================================
