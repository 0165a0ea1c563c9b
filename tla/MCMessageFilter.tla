-------------------------- MODULE MCMessageFilter --------------------------
(* Instances of MessageFilter for TLC.                                     *)
EXTENDS MessageFilter

OneFile == {<<"a", "a">>}
=============================================================================
