---------------------------- MODULE MessageTypes ----------------------------
(***************************************************************************)
(* The messages of a glslang log, told apart as far as libshaderc_util's   *)
(* filter (message.cc) does, and what the filter makes of each under the   *)
(* options.  CompilePipeline counts with these operators; MessageFilter    *)
(* finds the same types by reading the characters of a message.            *)
(***************************************************************************)
EXTENDS Naturals, Sequences, FiniteSets

(* A message of glslang: its prefix, named without the blank at its end,   *)
(* and what follows the prefix.                                            *)
AllMessages == [prefix : {"ERROR:", "WARNING:", "Warning,", "other"},
                rest : {"located", "global", "summary", "ignorable"}]

(* ParseGlslangOutput: the type of a message under the options.            *)
MessageType(m, warnings_as_errors, suppress_warnings) ==
  IF m.prefix = "other" THEN "Unknown"
  ELSE IF m.prefix # "ERROR:" /\ suppress_warnings THEN "Ignored"
  ELSE LET is_error == m.prefix = "ERROR:" \/ warnings_as_errors
       IN  IF m.prefix = "Warning," \/ m.rest = "global"
           THEN IF is_error THEN "GlobalError" ELSE "GlobalWarning"
           ELSE IF m.rest = "summary"
           THEN IF is_error THEN "ErrorSummary" ELSE "WarningSummary"
           ELSE IF is_error THEN "Error" ELSE "Warning"

(* What a message is, whatever the options.                                *)
IsError(m) == m.prefix = "ERROR:" /\ m.rest \notin {"summary", "ignorable"}
IsWarning(m) == /\ m.prefix \in {"WARNING:", "Warning,"}
                /\ m.rest # "ignorable"
                /\ ~(m.prefix = "WARNING:" /\ m.rest = "summary")
HowMany(log, Is(_)) == Cardinality({i \in DOMAIN log : Is(log[i])})

(* The messages of a log whose type is in T; listed strings are skipped.   *)
CountTypes(log, T, warnings_as_errors, suppress_warnings) ==
  Cardinality({i \in DOMAIN log :
    /\ log[i].rest # "ignorable"
    /\ MessageType(log[i], warnings_as_errors, suppress_warnings) \in T})

NewErrors(log, wae, suppress) == CountTypes(log, {"Error", "GlobalError"}, wae, suppress)
NewWarnings(log, wae, suppress) == CountTypes(log, {"Warning", "GlobalWarning"}, wae, suppress)
=============================================================================
