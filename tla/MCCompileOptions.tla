-------------------------- MODULE MCCompileOptions --------------------------
(* Instances of CompileOptions for TLC.                                    *)
EXTENDS CompileOptions, TLC

Sym == Permutations(Objects)

(* Options that meet in the code are set by one client.                    *)
ThreeClients == {{"plain", "language", "debug", "level"}, {"target", "spirv", "debug"},
                 {"base", "registers"}}
BaseClient == {{"base"}}
TargetClient == {{"target"}}
=============================================================================
