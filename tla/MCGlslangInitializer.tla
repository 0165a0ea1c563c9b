------------------------ MODULE MCGlslangInitializer ------------------------
(* Instances of GlslangInitializer for TLC.                                *)
EXTENDS GlslangInitializer
=============================================================================
