--------------------------- MODULE MCShaderText ---------------------------
(* Instances of ShaderText for TLC.                                        *)
EXTENDS ShaderText

OldAndNew == {<<150, "core">>, <<330, "core">>, <<310, "es">>}
Overruled == {<<999, "core">>}
=============================================================================
