------------------------- MODULE MCCompilePipeline -------------------------
(* Instances of CompilePipeline for TLC.                                   *)
EXTENDS CompilePipeline, TLC

Sym == Permutations(Stages)

Err == [prefix |-> "ERROR:", rest |-> "located"]
Warn == [prefix |-> "WARNING:", rest |-> "located"]
Global == [prefix |-> "WARNING:", rest |-> "global"]
Total == [prefix |-> "ERROR:", rest |-> "summary"]
NotYetComplete == [prefix |-> "Warning,", rest |-> "ignorable"]
Internal == [prefix |-> "other", rest |-> "global"]

(* Each kind alone, and those that the filter must tell apart together.    *)
SampleLogs == {<<>>, <<Err>>, <<Warn>>, <<Total>>, <<NotYetComplete>>, <<Internal>>,
               <<Err, Total>>, <<Err, Err>>, <<Err, Warn>>, <<Warn, Warn>>,
               <<NotYetComplete, Global>>, <<Warn, Internal>>}
ErrorLogs == {<<>>, <<Err>>}
=============================================================================
