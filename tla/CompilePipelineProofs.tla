----------------------- MODULE CompilePipelineProofs -----------------------
(***************************************************************************)
(* Proofs about CompilePipeline, for any stages, any logs of glslang, any  *)
(* number of pragmas and any sizes of texts and modules.                   *)
(***************************************************************************)
EXTENDS CompilePipeline, FiniteSetTheorems, TLAPS

-----------------------------------------------------------------------------
(* What the filter counts in a log.                                        *)

LEMMA CountIsNat ==
  ASSUME NEW log \in Logs \cup {<<>>}, NEW T, NEW wae, NEW suppress
  PROVE  CountTypes(log, T, wae, suppress) \in Nat
<1>1. DOMAIN log = 1 .. Len(log) /\ Len(log) \in Nat
  BY LogAssumption
<1>2. IsFiniteSet(DOMAIN log)
  BY <1>1, FS_Interval
<1> DEFINE S == {i \in DOMAIN log :
                   /\ log[i].rest # "ignorable"
                   /\ MessageType(log[i], wae, suppress) \in T}
<1>3. S \in SUBSET DOMAIN log
  OBVIOUS
<1>4. IsFiniteSet(S)
  BY <1>2, <1>3, FS_Subset
<1>5. Cardinality(S) \in Nat
  BY <1>4, FS_CardinalityType
<1> QED BY <1>5 DEF CountTypes

LEMMA CountsAreNat ==
  ASSUME NEW log \in Logs \cup {<<>>}, NEW wae, NEW suppress
  PROVE  /\ NewErrors(log, wae, suppress) \in Nat
         /\ NewWarnings(log, wae, suppress) \in Nat
BY CountIsNat DEF NewErrors, NewWarnings

(* Under the options, errors are counted as errors, warnings as warnings,  *)
(* as errors, or not at all.                                               *)
LEMMA WhatIsCounted ==
  ASSUME NEW log \in Logs \cup {<<>>}, NEW wae \in BOOLEAN
  PROVE  /\ HowMany(log, IsError) \in Nat /\ HowMany(log, IsWarning) \in Nat
         /\ NewErrors(log, wae, TRUE) = HowMany(log, IsError)
         /\ NewWarnings(log, wae, TRUE) = 0
         /\ NewErrors(log, TRUE, FALSE) = HowMany(log, IsError) + HowMany(log, IsWarning)
         /\ NewWarnings(log, TRUE, FALSE) = 0
         /\ NewErrors(log, FALSE, FALSE) = HowMany(log, IsError)
         /\ NewWarnings(log, FALSE, FALSE) = HowMany(log, IsWarning)
<1> DEFINE E == {i \in DOMAIN log : IsError(log[i])}
           W == {i \in DOMAIN log : IsWarning(log[i])}
           S(T, a, s) == {i \in DOMAIN log : /\ log[i].rest # "ignorable"
                                             /\ MessageType(log[i], a, s) \in T}
           Errors == {"Error", "GlobalError"}
           Warnings == {"Warning", "GlobalWarning"}
<1>1. DOMAIN log = 1 .. Len(log) /\ Len(log) \in Nat
  BY LogAssumption
<1>2. IsFiniteSet(DOMAIN log)
  BY <1>1, FS_Interval
<1>3. E \in SUBSET DOMAIN log /\ W \in SUBSET DOMAIN log
  OBVIOUS
<1>4. IsFiniteSet(E) /\ IsFiniteSet(W)
  BY <1>2, <1>3, FS_Subset
<1>5. Cardinality(E) \in Nat /\ Cardinality(W) \in Nat
  BY <1>4, FS_CardinalityType
<1>6. \A i \in DOMAIN log : log[i] \in AllMessages
  BY LogAssumption
<1>7. S(Errors, wae, TRUE) = E /\ S(Warnings, wae, TRUE) = {}
  BY <1>6 DEF AllMessages, MessageType, IsError
<1>8. S(Errors, TRUE, FALSE) = E \cup W /\ S(Warnings, TRUE, FALSE) = {}
  BY <1>6 DEF AllMessages, MessageType, IsError, IsWarning
<1>9. S(Errors, FALSE, FALSE) = E /\ S(Warnings, FALSE, FALSE) = W
  BY <1>6 DEF AllMessages, MessageType, IsError, IsWarning
<1>10. E \cap W = {}
  BY DEF IsError, IsWarning
<1>11. Cardinality({}) = 0
  BY FS_EmptySet
<1>12. Cardinality(E \cup W) = Cardinality(E) + Cardinality(W) - Cardinality(E \cap W)
  BY <1>4, FS_Union
<1>13. Cardinality(E \cup W) = Cardinality(E) + Cardinality(W)
  <2> HIDE DEF E, W
  <2>1. Cardinality(E \cap W) = 0
    BY <1>10, <1>11, Zenon
  <2> QED BY <1>5, <1>12, <2>1
<1>14. \A a, s : /\ NewErrors(log, a, s) = Cardinality(S(Errors, a, s))
                 /\ NewWarnings(log, a, s) = Cardinality(S(Warnings, a, s))
  BY DEF NewErrors, NewWarnings, CountTypes
<1>15. /\ NewErrors(log, wae, TRUE) = Cardinality(E)
       /\ NewWarnings(log, wae, TRUE) = 0
       /\ NewErrors(log, TRUE, FALSE) = Cardinality(E) + Cardinality(W)
       /\ NewWarnings(log, TRUE, FALSE) = 0
       /\ NewErrors(log, FALSE, FALSE) = Cardinality(E)
       /\ NewWarnings(log, FALSE, FALSE) = Cardinality(W)
  <2> HIDE DEF E, W, S, Errors, Warnings
  <2> QED BY <1>7, <1>8, <1>9, <1>11, <1>13, <1>14
<1> QED BY <1>5, <1>15 DEF HowMany

(* An empty log counts for nothing, and no warning counts under an option  *)
(* that suppresses warnings or makes errors of them.                       *)
LEMMA EmptyLogCounts ==
  ASSUME NEW wae, NEW suppress
  PROVE  NewErrors(<<>>, wae, suppress) = 0 /\ NewWarnings(<<>>, wae, suppress) = 0
<1>1. \A T : {i \in DOMAIN <<>> : /\ <<>>[i].rest # "ignorable"
                                 /\ MessageType(<<>>[i], wae, suppress) \in T} = {}
  OBVIOUS
<1>2. Cardinality({}) = 0
  BY FS_EmptySet
<1>3. \A T : CountTypes(<<>>, T, wae, suppress) = 0
  BY <1>1, <1>2, Zenon DEF CountTypes
<1> QED BY <1>3 DEF NewErrors, NewWarnings

LEMMA NoWarnings ==
  ASSUME NEW log \in Logs \cup {<<>>}, NEW wae \in BOOLEAN, NEW suppress \in BOOLEAN,
         wae \/ suppress
  PROVE  NewWarnings(log, wae, suppress) = 0
<1>1. CASE suppress = TRUE
  BY <1>1, WhatIsCounted
<1>2. CASE wae = TRUE /\ suppress = FALSE
  BY <1>2, WhatIsCounted
<1> QED BY <1>1, <1>2


(* What is counted in the logs of a call.                                  *)
PassNames == {"preprocess", "parse", "link"}
ErrorsIn(ls, wae, suppress) ==
  NewErrors(ls["preprocess"], wae, TRUE) + NewErrors(ls["parse"], wae, suppress)
    + NewErrors(ls["link"], wae, suppress)
WarningsIn(ls, wae, suppress) ==
  NewWarnings(ls["parse"], wae, suppress) + NewWarnings(ls["link"], wae, suppress)

(* The log of one more pass adds what is new in it.                        *)
LEMMA CountsAfterPreprocess ==
  ASSUME logs \in [PassNames -> Logs \cup {<<>>}], logs["preprocess"] = <<>>,
         NEW log \in Logs, NEW wae \in BOOLEAN, NEW suppress \in BOOLEAN,
         logs' = [logs EXCEPT !["preprocess"] = log]
  PROVE  /\ ErrorsIn(logs', wae, suppress)
              = ErrorsIn(logs, wae, suppress) + NewErrors(log, wae, TRUE)
         /\ WarningsIn(logs', wae, suppress) = WarningsIn(logs, wae, suppress)
<1> DEFINE E1(l) == NewErrors(l["preprocess"], wae, TRUE)
           E2(l) == NewErrors(l["parse"], wae, suppress)
           E3(l) == NewErrors(l["link"], wae, suppress)
           W2(l) == NewWarnings(l["parse"], wae, suppress)
           W3(l) == NewWarnings(l["link"], wae, suppress)
           e1 == NewErrors(log, wae, TRUE)
<1>1. logs["preprocess"] \in Logs \cup {<<>>} /\ logs["parse"] \in Logs \cup {<<>>}
      /\ logs["link"] \in Logs \cup {<<>>}
  BY DEF PassNames
<1>2. /\ E1(logs) \in Nat /\ E2(logs) \in Nat /\ E3(logs) \in Nat
      /\ W2(logs) \in Nat /\ W3(logs) \in Nat
  BY <1>1, CountsAreNat, Zenon
<1>3. e1 \in Nat
  BY CountsAreNat
<1>5. \A l : ErrorsIn(l, wae, suppress) = E1(l) + E2(l) + E3(l)
  BY Zenon DEF ErrorsIn
<1>6. \A l : WarningsIn(l, wae, suppress) = W2(l) + W3(l)
  BY Zenon DEF WarningsIn
<1>7. logs'["preprocess"] = log /\ logs'["parse"] = logs["parse"] /\ logs'["link"] = logs["link"]
  BY DEF PassNames
<1>8. /\ E1(logs) = 0 /\ E1(logs') = e1 /\ E2(logs') = E2(logs) /\ E3(logs') = E3(logs)
      /\ W2(logs') = W2(logs) /\ W3(logs') = W3(logs)
  BY <1>7, EmptyLogCounts, Zenon
<1>9. /\ ErrorsIn(logs', wae, suppress) = ErrorsIn(logs, wae, suppress) + e1
      /\ WarningsIn(logs', wae, suppress) = WarningsIn(logs, wae, suppress)
  <2> HIDE DEF E1, E2, E3, W2, W3, e1
  <2> QED BY <1>2, <1>3, <1>5, <1>6, <1>8
<1> QED BY <1>9, Zenon DEF e1

LEMMA WarningsAreNat ==
  ASSUME NEW ls \in [PassNames -> Logs \cup {<<>>}], NEW wae, NEW suppress
  PROVE  WarningsIn(ls, wae, suppress) \in Nat
<1>1. ls["parse"] \in Logs \cup {<<>>} /\ ls["link"] \in Logs \cup {<<>>}
  BY DEF PassNames
<1> DEFINE a == NewWarnings(ls["parse"], wae, suppress)
           b == NewWarnings(ls["link"], wae, suppress)
<1>2. a \in Nat /\ b \in Nat
  BY <1>1, CountsAreNat, Zenon
<1>3. WarningsIn(ls, wae, suppress) = a + b
  BY Zenon DEF WarningsIn
<1> HIDE DEF a, b
<1> QED BY <1>2, <1>3

LEMMA CountsAfterPass ==
  ASSUME logs \in [PassNames -> Logs \cup {<<>>}],
         NEW p \in {"parse", "link"}, logs[p] = <<>>,
         NEW log \in Logs, NEW wae \in BOOLEAN, NEW suppress \in BOOLEAN,
         logs' = [logs EXCEPT ![p] = log]
  PROVE  /\ ErrorsIn(logs', wae, suppress)
              = ErrorsIn(logs, wae, suppress) + NewErrors(log, wae, suppress)
         /\ WarningsIn(logs', wae, suppress)
              = WarningsIn(logs, wae, suppress) + NewWarnings(log, wae, suppress)
<1> DEFINE E1(l) == NewErrors(l["preprocess"], wae, TRUE)
           E2(l) == NewErrors(l["parse"], wae, suppress)
           E3(l) == NewErrors(l["link"], wae, suppress)
           W2(l) == NewWarnings(l["parse"], wae, suppress)
           W3(l) == NewWarnings(l["link"], wae, suppress)
           e == NewErrors(log, wae, suppress)
           w == NewWarnings(log, wae, suppress)
<1>1. logs["preprocess"] \in Logs \cup {<<>>} /\ logs["parse"] \in Logs \cup {<<>>}
      /\ logs["link"] \in Logs \cup {<<>>}
  BY DEF PassNames
<1>2. /\ E1(logs) \in Nat /\ E2(logs) \in Nat /\ E3(logs) \in Nat
      /\ W2(logs) \in Nat /\ W3(logs) \in Nat
  BY <1>1, CountsAreNat, Zenon
<1>3. e \in Nat /\ w \in Nat
  BY CountsAreNat
<1>5. \A l : ErrorsIn(l, wae, suppress) = E1(l) + E2(l) + E3(l)
  BY Zenon DEF ErrorsIn
<1>6. \A l : WarningsIn(l, wae, suppress) = W2(l) + W3(l)
  BY Zenon DEF WarningsIn
<1>7. CASE p = "parse"
  <2>1. logs'["parse"] = log /\ logs'["preprocess"] = logs["preprocess"]
        /\ logs'["link"] = logs["link"]
    BY <1>7 DEF PassNames
  <2>2. /\ E2(logs) = 0 /\ E2(logs') = e /\ E1(logs') = E1(logs) /\ E3(logs') = E3(logs)
        /\ W2(logs) = 0 /\ W2(logs') = w /\ W3(logs') = W3(logs)
    BY <1>7, <2>1, EmptyLogCounts, Zenon
  <2> HIDE DEF E1, E2, E3, W2, W3, e, w
  <2>3. /\ ErrorsIn(logs', wae, suppress) = ErrorsIn(logs, wae, suppress) + e
        /\ WarningsIn(logs', wae, suppress) = WarningsIn(logs, wae, suppress) + w
    BY <1>2, <1>3, <1>5, <1>6, <2>2
  <2> QED BY <2>3, Zenon DEF e, w
<1>8. CASE p = "link"
  <2>1. logs'["link"] = log /\ logs'["preprocess"] = logs["preprocess"]
        /\ logs'["parse"] = logs["parse"]
    BY <1>8 DEF PassNames
  <2>2. /\ E3(logs) = 0 /\ E3(logs') = e /\ E1(logs') = E1(logs) /\ E2(logs') = E2(logs)
        /\ W3(logs) = 0 /\ W3(logs') = w /\ W2(logs') = W2(logs)
    BY <1>8, <2>1, EmptyLogCounts, Zenon
  <2> HIDE DEF E1, E2, E3, W2, W3, e, w
  <2>3. /\ ErrorsIn(logs', wae, suppress) = ErrorsIn(logs, wae, suppress) + e
        /\ WarningsIn(logs', wae, suppress) = WarningsIn(logs, wae, suppress) + w
    BY <1>2, <1>3, <1>5, <1>6, <2>2
  <2> QED BY <2>3, Zenon DEF e, w
<1> QED BY <1>7, <1>8

(* In terms of what the messages are.                                      *)
LEMMA CountsOfLogs ==
  ASSUME NEW ls \in [PassNames -> Logs \cup {<<>>}],
         NEW wae \in BOOLEAN, NEW suppress \in BOOLEAN
  PROVE  /\ \A p \in PassNames : /\ HowMany(ls[p], IsError) \in Nat
                                 /\ HowMany(ls[p], IsWarning) \in Nat
         /\ ErrorsIn(ls, wae, suppress)
              = IF wae /\ ~suppress
                THEN HowMany(ls["preprocess"], IsError)
                       + (HowMany(ls["parse"], IsError) + HowMany(ls["parse"], IsWarning))
                       + (HowMany(ls["link"], IsError) + HowMany(ls["link"], IsWarning))
                ELSE HowMany(ls["preprocess"], IsError) + HowMany(ls["parse"], IsError)
                       + HowMany(ls["link"], IsError)
         /\ WarningsIn(ls, wae, suppress)
              = IF wae \/ suppress THEN 0
                ELSE HowMany(ls["parse"], IsWarning) + HowMany(ls["link"], IsWarning)
<1> DEFINE e1 == NewErrors(ls["preprocess"], wae, TRUE)
           e2 == NewErrors(ls["parse"], wae, suppress)
           e3 == NewErrors(ls["link"], wae, suppress)
           w2 == NewWarnings(ls["parse"], wae, suppress)
           w3 == NewWarnings(ls["link"], wae, suppress)
<1>1. /\ \A p \in PassNames : ls[p] \in Logs \cup {<<>>}
      /\ "preprocess" \in PassNames /\ "parse" \in PassNames /\ "link" \in PassNames
  BY DEF PassNames
<1>2. \A p \in PassNames : HowMany(ls[p], IsError) \in Nat /\ HowMany(ls[p], IsWarning) \in Nat
  BY <1>1, WhatIsCounted
<1>3. e1 = HowMany(ls["preprocess"], IsError)
  BY <1>1, WhatIsCounted
<1>4. ErrorsIn(ls, wae, suppress) = e1 + e2 + e3 /\ WarningsIn(ls, wae, suppress) = w2 + w3
  BY Zenon DEF ErrorsIn, WarningsIn
<1>5. CASE suppress = TRUE
  <2>1. /\ e2 = HowMany(ls["parse"], IsError) /\ e3 = HowMany(ls["link"], IsError)
        /\ w2 = 0 /\ w3 = 0
    BY <1>1, <1>5, WhatIsCounted, Zenon
  <2> HIDE DEF e1, e2, e3, w2, w3
  <2> QED BY <1>2, <1>3, <1>4, <1>5, <2>1
<1>6. CASE suppress = FALSE /\ wae = TRUE
  <2>1. /\ e2 = HowMany(ls["parse"], IsError) + HowMany(ls["parse"], IsWarning)
        /\ e3 = HowMany(ls["link"], IsError) + HowMany(ls["link"], IsWarning)
        /\ w2 = 0 /\ w3 = 0
    BY <1>1, <1>6, WhatIsCounted, Zenon
  <2> HIDE DEF e1, e2, e3, w2, w3
  <2> QED BY <1>2, <1>3, <1>4, <1>6, <2>1
<1>7. CASE suppress = FALSE /\ wae = FALSE
  <2>1. /\ e2 = HowMany(ls["parse"], IsError) /\ e3 = HowMany(ls["link"], IsError)
        /\ w2 = HowMany(ls["parse"], IsWarning) /\ w3 = HowMany(ls["link"], IsWarning)
    BY <1>1, <1>7, WhatIsCounted, Zenon
  <2> HIDE DEF e1, e2, e3, w2, w3
  <2> QED BY <1>2, <1>3, <1>4, <1>7, <2>1
<1> QED BY <1>2, <1>5, <1>6, <1>7

LEMMA WordsOfText == \A n \in Nat : /\ TextWords(n) \in Nat
                                    /\ n < 4 * TextWords(n)
                                    /\ 4 * TextWords(n) <= n + 4
BY DEF TextWords

-----------------------------------------------------------------------------
(* The inductive invariant, in layers.                                     *)

Running == {"check_target", "preprocess", "deduce", "parse", "link", "generate",
            "optimize", "emit", "returned"}
Staged == {"parse", "link", "generate", "optimize", "emit"}
Zero == [warnings |-> 0, errors |-> 0]
Silent == logs["preprocess"] = <<>> /\ logs["parse"] = <<>> /\ logs["link"] = <<>>
NoOutput == [succeeded |-> FALSE, data |-> Nothing, size |-> 0]

(* What has not been touched yet.                                          *)
FreshInv ==
  /\ pc \in {"idle", "assemble", "check_target", "preprocess"} =>
       totals = Zero /\ Silent
  /\ pc \in {"idle", "assemble", "check_target", "preprocess", "deduce"} =>
       source.pragmas = <<>>
  /\ pc \in {"deduce", "parse"} => logs["parse"] = <<>>
  /\ pc \in {"deduce", "parse", "link"} => logs["link"] = <<>>
  /\ pc \in {"idle", "check_target", "preprocess", "deduce", "parse", "link", "generate"} =>
       output = NoOutput
  /\ error_ => pc \in {"returned", "done"}
  /\ pc = "idle" <=> result.class = "none"
  /\ pc = "idle" => result = NoResult
  /\ pc \in Running => result = EmptyResult("vector", "invalid_stage") /\ request.named
  /\ pc \in Running \ {"check_target", "returned"} => request.target = "supported"
  /\ pc = "assemble" => result = EmptyResult("spv_binary", "invalid_assembly")
  /\ result.class = "spv_binary" => totals = Zero /\ Silent /\ ~error_

(* The stage, and the flag that says that none was found.                  *)
StageInv ==
  /\ StageIsTheRightOne
  /\ pc = "preprocess" => request.output_type = "PreprocessedText" \/ request.kind.how # "forced"
  /\ pc \in Staged \cup {"deduce"} => request.output_type # "PreprocessedText"
  /\ pc = "deduce" => request.kind.how # "forced"
  /\ error_ =>
       /\ pc \in {"returned", "done"} /\ ~output.succeeded
       /\ stage = NoStage /\ source.pragmas = <<>> /\ totals.errors = 0
       /\ request.kind.how = "infer" /\ request.output_type # "PreprocessedText"
       /\ pc = "done" => result.status = "invalid_stage"
  /\ Compiled /\ result.status = "invalid_stage" =>
       error_ /\ result.num_errors = totals.errors

(* A compilation that gets as far as glslang.                              *)
Counting == result.class = "vector" /\ request.named /\ request.target = "supported"

(* Nothing runs after an error.                                            *)
CleanInv ==
  /\ totals.errors > 0 => pc \in {"returned", "done"} /\ ~output.succeeded
  /\ output.succeeded => pc \in {"returned", "done"} /\ Counting
  /\ Compiled /\ result.status = "success" =>
       output.succeeded /\ result.num_errors = totals.errors
  /\ Done("success") /\ result.class = "spv_binary" => result.num_errors = 0

(* The output on its way, and in the result.                               *)
OutputInv ==
  /\ pc = "optimize" => request.passes
  /\ pc = "emit" => output.data.form = IF request.passes THEN "optimized" ELSE "spirv"
  /\ ~output.succeeded => output.size = 0
  /\ output.succeeded =>
       /\ output.data.form = Call!FormOf(request)
       /\ IF request.output_type = "SpirvBinary"
          THEN output.size = 4 * output.data.words
          ELSE output.size < 4 * output.data.words /\ 4 * output.data.words <= output.size + 4
  /\ Compiled /\ result.status = "success" =>
       result.data = output.data /\ result.size = output.size
  /\ pc = "done" /\ result.status # "success" => result.size = 0

(* The totals are those of the logs so far.                                *)
CountInv ==
  LET wae == request.warnings_as_errors  suppress == request.suppress_warnings IN
  /\ Counting => /\ totals.errors = ErrorsIn(logs, wae, suppress)
                 /\ totals.warnings = WarningsIn(logs, wae, suppress)
  /\ wae \/ suppress => totals.warnings = 0
  /\ Compiled /\ request.named /\ result.status # "internal_error" =>
       result.num_errors = totals.errors /\ result.num_warnings = totals.warnings

(* Nothing is counted in no logs.                                          *)
LEMMA SilenceCounts ==
  ASSUME Silent, NEW wae, NEW suppress
  PROVE  ErrorsIn(logs, wae, suppress) = 0 /\ WarningsIn(logs, wae, suppress) = 0
<1> DEFINE e1 == NewErrors(logs["preprocess"], wae, TRUE)
           e2 == NewErrors(logs["parse"], wae, suppress)
           e3 == NewErrors(logs["link"], wae, suppress)
           w2 == NewWarnings(logs["parse"], wae, suppress)
           w3 == NewWarnings(logs["link"], wae, suppress)
<1>1. e1 = 0 /\ e2 = 0 /\ e3 = 0 /\ w2 = 0 /\ w3 = 0
  BY EmptyLogCounts, Zenon DEF Silent
<1>2. ErrorsIn(logs, wae, suppress) = e1 + e2 + e3 /\ WarningsIn(logs, wae, suppress) = w2 + w3
  BY Zenon DEF ErrorsIn, WarningsIn
<1> HIDE DEF e1, e2, e3, w2, w3
<1> QED BY <1>1, <1>2

-----------------------------------------------------------------------------
(* What each action needs of the operators it calls.                       *)

LEMMA TextIsOutput ==
  ASSUME NEW form \in Forms, NEW n \in Lengths
  PROVE  Text(form, n) \in [succeeded : {TRUE}, data : [form : {form}, words : Nat], size : Nat]
BY WordsOfText, SizeAssumption DEF Text

LEMMA StagesOfKinds ==
  ASSUME NEW kind \in Kinds
  PROVE  /\ GetForcedStage(kind) \in Stages \cup {NoStage}
         /\ GetDefaultStage(kind) \in Stages \cup {NoStage}
         /\ GetForcedStage(kind) = NoStage <=> kind.how # "forced"
         /\ GetDefaultStage(kind) = NoStage <=> kind.how # "default"
         /\ kind.how \notin {"forced", "default"} <=> kind.how = "infer"
         /\ kind.how = "forced" => GetForcedStage(kind) = kind.stage
         /\ kind.how = "default" => GetDefaultStage(kind) = kind.stage
BY StageAssumption DEF Kinds, GetForcedStage, GetDefaultStage

LEMMA StageOfPragmas ==
  ASSUME NEW src \in Sources
  PROVE  /\ StageFromPragmas(src) \in Stages \cup {NoStage}
         /\ StageFromPragmas(src) # NoStage =>
              /\ src.pragmas # <<>> /\ ~src.code_first
              /\ \A i \in DOMAIN src.pragmas : src.pragmas[i] = StageFromPragmas(src)
BY StageAssumption DEF StageFromPragmas, PragmaErrors

LEMMA TotalsAfterLog ==
  ASSUME NEW log \in Logs, NEW wae, NEW suppress,
         totals \in [warnings : Nat, errors : Nat],
         PrintFilteredErrors(log, wae, suppress)
  PROVE  /\ totals' \in [warnings : Nat, errors : Nat]
         /\ totals'.errors = totals.errors + NewErrors(log, wae, suppress)
         /\ totals'.warnings = totals.warnings + NewWarnings(log, wae, suppress)
         /\ NoNewErrors(log, wae, suppress) => totals'.errors = totals.errors
<1>1. NewErrors(log, wae, suppress) \in Nat /\ NewWarnings(log, wae, suppress) \in Nat
  BY CountsAreNat
<1> QED BY <1>1 DEF PrintFilteredErrors, NoNewErrors

LEMMA TextSizes ==
  ASSUME NEW form, NEW n \in Lengths
  PROVE  /\ Text(form, n).succeeded = TRUE
         /\ Text(form, n).data.form = form
         /\ Text(form, n).size < 4 * Text(form, n).data.words
         /\ 4 * Text(form, n).data.words <= Text(form, n).size + 4
BY WordsOfText, SizeAssumption DEF Text

LEMMA TextIsText ==
  ASSUME NEW form, NEW n \in Lengths, output' = Text(form, n)
  PROVE  /\ output'.succeeded = TRUE /\ output'.data.form = form
         /\ output'.size < 4 * output'.data.words
         /\ 4 * output'.data.words <= output'.size + 4
BY TextSizes

(* The three passes of glslang, without the filter's operators.            *)
PreprocessEffect(log) ==
  LET wae == request.warnings_as_errors IN
  /\ pc = "preprocess" /\ pc' \in {"deduce", "returned"}
  /\ logs' = [logs EXCEPT !["preprocess"] = log]
  /\ totals' \in [warnings : Nat, errors : Nat]
  /\ totals'.errors = totals.errors + NewErrors(log, wae, TRUE)
  /\ totals'.warnings = totals.warnings + NewWarnings(log, wae, TRUE)
  /\ pc' = "deduce" =>
       totals'.errors = totals.errors /\ request.output_type # "PreprocessedText"
  /\ \/ UNCHANGED output
     \/ /\ pc' = "returned" /\ totals'.errors = totals.errors
        /\ request.output_type = "PreprocessedText"
        /\ \E n \in Lengths : output' = Text("preprocessed", n)
  /\ UNCHANGED <<request, source, stage, error_, result>>

LEMMA PreprocessStep ==
  ASSUME TypeOK, NEW ok \in BOOLEAN, NEW log \in Logs, Preprocess(ok, log)
  PROVE  PreprocessEffect(log)
<1>1. PrintFilteredErrors(log, request.warnings_as_errors, TRUE)
  BY DEF Preprocess
<1>2. /\ totals' \in [warnings : Nat, errors : Nat]
      /\ totals'.errors = totals.errors + NewErrors(log, request.warnings_as_errors, TRUE)
      /\ totals'.warnings = totals.warnings + NewWarnings(log, request.warnings_as_errors, TRUE)
      /\ NoNewErrors(log, request.warnings_as_errors, TRUE) => totals'.errors = totals.errors
  BY <1>1, TotalsAfterLog DEF TypeOK
<1> QED BY <1>2 DEF PreprocessEffect, Preprocess, Pass, Goto, Return


GlslangPassEffect(p, next, log) ==
  LET wae == request.warnings_as_errors
      suppress == request.suppress_warnings
  IN
  /\ pc = p /\ pc' \in {next, "returned"}
  /\ logs' = [logs EXCEPT ![p] = log]
  /\ totals' \in [warnings : Nat, errors : Nat]
  /\ totals'.errors = totals.errors + NewErrors(log, wae, suppress)
  /\ totals'.warnings = totals.warnings + NewWarnings(log, wae, suppress)
  /\ pc' # "returned" => totals'.errors = totals.errors
  /\ UNCHANGED <<request, source, stage, error_, output, result>>

LEMMA GlslangPassStep ==
  ASSUME TypeOK, NEW p \in {"parse", "link"}, NEW next,
         NEW ok \in BOOLEAN, NEW log \in Logs, GlslangPass(p, ok, log, next)
  PROVE  GlslangPassEffect(p, next, log)
<1> DEFINE wae == request.warnings_as_errors
           suppress == request.suppress_warnings
<1>1. PrintFilteredErrors(log, wae, suppress)
  BY DEF GlslangPass
<1>2. /\ totals' \in [warnings : Nat, errors : Nat]
      /\ totals'.errors = totals.errors + NewErrors(log, wae, suppress)
      /\ totals'.warnings = totals.warnings + NewWarnings(log, wae, suppress)
      /\ NoNewErrors(log, wae, suppress) => totals'.errors = totals.errors
  <2> HIDE DEF wae, suppress
  <2> QED BY <1>1, TotalsAfterLog DEF TypeOK
<1> QED BY <1>2 DEF GlslangPassEffect, GlslangPass, Pass, Goto, Return

-----------------------------------------------------------------------------
(* Types.                                                                  *)

(* After parsing or linking the state is again of the right type.          *)
LEMMA GlslangPassType ==
  ASSUME TypeOK, NEW p \in {"parse", "link"}, NEW next \in MayThrow,
         NEW ok \in BOOLEAN, NEW log \in Logs, GlslangPass(p, ok, log, next)
  PROVE  TypeOK'
<1>0. GlslangPassEffect(p, next, log)
  BY GlslangPassStep, Zenon
<1>1. /\ pc' \in {next, "returned"} /\ logs' = [logs EXCEPT ![p] = log]
      /\ totals' \in [warnings : Nat, errors : Nat]
      /\ UNCHANGED <<request, source, stage, error_, output, result>>
  BY <1>0 DEF GlslangPassEffect
<1>2. logs' \in [{"preprocess", "parse", "link"} -> Logs \cup {<<>>}]
  BY <1>1 DEF TypeOK
<1>3. pc' \in MayThrow \cup {"idle", "check_target", "deduce", "returned", "done"}
  BY <1>1
<1> QED BY <1>1, <1>2, <1>3 DEF TypeOK

LEMMA InitType == Init => TypeOK
<1>1. <<>> \in SeqOf(Stages \cup {"?"}, MaxPragmas)
  <2>1. <<>> \in [1 .. 0 -> Stages \cup {"?"}] /\ 0 \in 0 .. MaxPragmas
    BY SizeAssumption
  <2> QED BY <2>1 DEF SeqOf
<1>2. Init => logs \in [{"preprocess", "parse", "link"} -> Logs \cup {<<>>}]
  BY DEF Init, NoLogs
<1>3. Init => source \in Sources
  BY <1>1 DEF Init, Sources
<1>4. Init => /\ pc \in MayThrow \cup {"idle"} /\ request \in Requests
              /\ stage \in Stages \cup {NoStage}
              /\ totals \in [warnings : Nat, errors : Nat]
  BY DEF Init, MayThrow
<1>7. Init => error_ \in BOOLEAN
  BY DEF Init
<1>5. Init => output \in [succeeded : BOOLEAN, data : [form : Forms, words : Nat], size : Nat]
  BY DEF Init, Nothing, Forms
<1>6. Init => result \in [class : {"none", "vector", "spv_binary"},
                 status : {"success", "invalid_stage", "compilation_error",
                           "internal_error", "invalid_assembly", "null_result_object"},
                 num_errors : Nat, num_warnings : Nat,
                 data : [form : Forms, words : Nat], size : Nat]
  BY DEF Init, NoResult, EmptyResult, Nothing, Forms
<1> QED BY <1>2, <1>3, <1>4, <1>5, <1>6, <1>7 DEF TypeOK

LEMMA NextType ==
  TypeOK /\ [Next]_vars => TypeOK'
<1> SUFFICES ASSUME TypeOK, [Next]_vars PROVE TypeOK'
  OBVIOUS
<1> USE SizeAssumption DEF TypeOK, Forms, MayThrow
<1>1. CASE Start
  BY <1>1 DEF Start, EmptyResult, Goto, progress, Nothing
<1>2. CASE CheckTarget
  <2>1. GetForcedStage(request.kind) \in Stages \cup {NoStage}
    BY StagesOfKinds DEF Requests
  <2> QED BY <1>2, <2>1 DEF CheckTarget, Goto, Return
<1>3. ASSUME NEW src \in Sources, DeduceStage(src)
      PROVE  TypeOK'
  <2>1. /\ GetDefaultStage(request.kind) \in Stages \cup {NoStage}
        /\ StageFromPragmas(src) \in Stages \cup {NoStage}
    BY StagesOfKinds, StageOfPragmas DEF Requests
  <2> QED BY <1>3, <2>1 DEF DeduceStage, Goto, Return
<1>4. ASSUME NEW ok \in BOOLEAN, NEW log \in Logs, Preprocess(ok, log)
      PROVE  TypeOK'
  <2>1. /\ PrintFilteredErrors(log, request.warnings_as_errors,
                               TRUE)
        /\ UNCHANGED <<request, source, stage, error_, result>>
    BY <1>4 DEF Preprocess
  <2>2. totals' \in [warnings : Nat, errors : Nat]
    BY <2>1, TotalsAfterLog
  <2>3. logs' \in [{"preprocess", "parse", "link"} -> Logs \cup {<<>>}]
    BY <1>4 DEF Preprocess, Pass
  <2>4. /\ pc' \in MayThrow \cup {"deduce", "returned"}
        /\ output' \in [succeeded : BOOLEAN, size : Nat,
                        data : [form : Forms, words : Nat]]
    <3>1. CASE UNCHANGED output
      BY <1>4, <3>1 DEF Preprocess, Goto, Return
    <3>2. CASE pc' = "returned" /\ \E n \in Lengths : output' = Text("preprocessed", n)
      <4>1. PICK n \in Lengths : output' = Text("preprocessed", n)
        BY <3>2
      <4>2. Text("preprocessed", n) \in [succeeded : {TRUE}, data : [form : {"preprocessed"}, words : Nat],
                                       size : Nat]
        BY TextIsOutput
      <4> QED BY <3>2, <4>1, <4>2
    <3> QED BY <1>4, <3>1, <3>2 DEF Preprocess, Goto, Return
  <2> QED BY <2>1, <2>2, <2>3, <2>4
<1>5. ASSUME NEW ok \in BOOLEAN, NEW log \in Logs, Parse(ok, log)
      PROVE  TypeOK'
  <2>1. GlslangPass("parse", ok, log, "link") /\ "link" \in MayThrow
    BY <1>5 DEF Parse, MayThrow
  <2> HIDE DEF TypeOK
  <2> QED BY <2>1, GlslangPassType, Zenon
<1>6. ASSUME NEW ok \in BOOLEAN, NEW log \in Logs, Link(ok, log)
      PROVE  TypeOK'
  <2>1. GlslangPass("link", ok, log, "generate") /\ "generate" \in MayThrow
    BY <1>6 DEF Link, MayThrow
  <2> HIDE DEF TypeOK
  <2> QED BY <2>1, GlslangPassType, Zenon
<1>7. ASSUME NEW w \in Words, Generate(w)
      PROVE  TypeOK'
  BY <1>7 DEF Generate, Goto
<1>8. ASSUME NEW w \in Words, Optimize(w)
      PROVE  TypeOK'
  BY <1>8 DEF Optimize, Goto
<1>9. CASE OptimizeFails
  BY <1>9 DEF OptimizeFails, Goto, Return
<1>10. CASE EmitBinary
  <2>1. 4 * output.data.words \in Nat
    OBVIOUS
  <2> QED BY <1>10, <2>1 DEF EmitBinary, Goto
<1>11. ASSUME NEW n \in Lengths, Disassemble(n)
      PROVE  TypeOK'
  <2>1. /\ pc' = "returned" /\ output' = Text("assembly", n)
        /\ UNCHANGED <<request, source, stage, error_, totals, logs, result>>
    BY <1>11 DEF Disassemble, Goto
  <2>2. "assembly" \in Forms
    BY DEF Forms
  <2>3. output' \in [succeeded : {TRUE}, data : [form : {"assembly"}, words : Nat], size : Nat]
    BY <2>1, <2>2, TextIsOutput, Zenon
  <2>4. output' \in [succeeded : BOOLEAN, data : [form : Forms, words : Nat], size : Nat]
    BY <2>2, <2>3
  <2> QED BY <2>1, <2>4
<1>12. CASE DisassembleFails
  BY <1>12 DEF DisassembleFails, Goto, Return
<1>13. CASE FillResult
  BY <1>13 DEF FillResult, Goto, progress
<1>14. CASE StartAssemble
  BY <1>14 DEF StartAssemble, EmptyResult, Goto, progress, Nothing
<1>15. ASSUME NEW w \in Words, Assemble(w)
      PROVE  TypeOK'
  <2>1. w \in Nat /\ 4 * w \in Nat
    OBVIOUS
  <2>2. result'.data \in [form : Forms, words : Nat] /\ result'.size \in Nat
    BY <1>15, <2>1 DEF Assemble
  <2> QED BY <1>15, <2>2 DEF Assemble, Goto, progress
<1>16. CASE AssembleFails
  BY <1>16 DEF AssembleFails, Goto, progress
<1>17. CASE Throw
  BY <1>17 DEF Throw, MayThrow, Goto, progress
<1>18. CASE UNCHANGED vars
  BY <1>18 DEF vars, progress
<1> QED BY <1>1, <1>2, <1>3, <1>4, <1>5, <1>6, <1>7, <1>8, <1>9, <1>10, <1>11,
       <1>12, <1>13, <1>14, <1>15, <1>16, <1>17, <1>18 DEF Next, Compile,
       AssembleIntoSpv, vars

LEMMA NextFresh ==
  TypeOK /\ FreshInv /\ [Next]_vars => FreshInv'
<1> SUFFICES ASSUME TypeOK, FreshInv, [Next]_vars PROVE FreshInv'
  OBVIOUS
<1> USE DEF TypeOK, FreshInv, Running, Zero, NoOutput, NoResult, EmptyResult,
       Silent, Nothing
<1>1. CASE Start
  <2>1. CASE request.named
    BY <1>1, <2>1 DEF Start, Goto, progress
  <2>2. CASE ~request.named
    <3>1. pc' = "done" /\ result'.class = "vector" /\ ~error_
      BY <1>1, <2>2 DEF Start, Goto
    <3> QED BY <1>1, <3>1 DEF Start, Goto, progress
  <2> QED BY <2>1, <2>2
<1>2. CASE CheckTarget
  <2>1. /\ pc = "check_target" /\ pc' \in {"preprocess", "parse", "returned"}
        /\ pc' # "returned" => totals' = totals /\ output' = output /\ request.target = "supported"
        /\ UNCHANGED <<request, source, error_, logs, result>>
    BY <1>2 DEF CheckTarget, Goto, Return, Requests
  <2> QED BY <2>1
<1>3. ASSUME NEW src \in Sources, DeduceStage(src)
      PROVE  FreshInv'
  BY <1>3 DEF DeduceStage, StageFromPragmas, PragmaErrors, GetDefaultStage,
       Goto, Return
<1>4. ASSUME NEW ok \in BOOLEAN, NEW log \in Logs, Preprocess(ok, log)
      PROVE  FreshInv'
  <2>1. /\ pc = "preprocess" /\ pc' \in {"deduce", "returned"}
        /\ logs' = [logs EXCEPT !["preprocess"] = log]
        /\ pc' # "returned" => output' = output
        /\ UNCHANGED <<request, source, error_, result>>
    BY <1>4 DEF Preprocess, Pass, Goto, Return
  <2> QED BY <2>1
<1>5. ASSUME NEW ok \in BOOLEAN, NEW log \in Logs, Parse(ok, log)
      PROVE  FreshInv'
  BY <1>5 DEF Parse, GlslangPass, Pass, Goto, Return
<1>6. ASSUME NEW ok \in BOOLEAN, NEW log \in Logs, Link(ok, log)
      PROVE  FreshInv'
  BY <1>6 DEF Link, GlslangPass, Pass, Goto, Return
<1>7. ASSUME NEW w \in Words, Generate(w)
      PROVE  FreshInv'
  BY <1>7 DEF Generate, Goto
<1>8. ASSUME NEW w \in Words, Optimize(w)
      PROVE  FreshInv'
  BY <1>8 DEF Optimize, Goto
<1>9. CASE OptimizeFails
  BY <1>9 DEF OptimizeFails, Goto, Return
<1>10. CASE EmitBinary
  BY <1>10 DEF EmitBinary, Goto
<1>11. ASSUME NEW n \in Lengths, Disassemble(n)
      PROVE  FreshInv'
  BY <1>11 DEF Disassemble, Goto
<1>12. CASE DisassembleFails
  BY <1>12 DEF DisassembleFails, Goto, Return
<1>13. CASE FillResult
  BY <1>13 DEF FillResult, Goto, progress
<1>14. CASE StartAssemble
  BY <1>14 DEF StartAssemble, EmptyResult, Goto, progress
<1>15. ASSUME NEW w \in Words, Assemble(w)
      PROVE  FreshInv'
  BY <1>15 DEF Assemble, Goto, progress
<1>16. CASE AssembleFails
  BY <1>16 DEF AssembleFails, Goto, progress
<1>17. CASE Throw
  BY <1>17 DEF Throw, MayThrow, Goto, progress
<1>18. CASE UNCHANGED vars
  BY <1>18 DEF vars, progress
<1> QED BY <1>1, <1>2, <1>3, <1>4, <1>5, <1>6, <1>7, <1>8, <1>9, <1>10, <1>11,
       <1>12, <1>13, <1>14, <1>15, <1>16, <1>17, <1>18 DEF Next, Compile,
       AssembleIntoSpv, vars

LEMMA NextClean ==
  TypeOK /\ FreshInv /\ CleanInv /\ [Next]_vars => CleanInv'
<1> SUFFICES ASSUME TypeOK, FreshInv, CleanInv, [Next]_vars PROVE CleanInv'
  OBVIOUS
<1> USE DEF TypeOK, FreshInv, CleanInv, Running, NoOutput, EmptyResult,
       Compiled, Done, Counting
<1>1. CASE Start
  BY <1>1 DEF Start, EmptyResult, Goto, progress
<1>2. CASE CheckTarget
  BY <1>2 DEF CheckTarget, GetForcedStage, Goto, Return
<1>3. ASSUME NEW src \in Sources, DeduceStage(src)
      PROVE  CleanInv'
  BY <1>3 DEF DeduceStage, StageFromPragmas, PragmaErrors, GetDefaultStage,
       Goto, Return
<1>4. ASSUME NEW ok \in BOOLEAN, NEW log \in Logs, Preprocess(ok, log)
      PROVE  CleanInv'
  <2>1. /\ pc = "preprocess" /\ pc' \in {"deduce", "returned"}
        /\ pc' = "deduce" => totals'.errors = totals.errors
        /\ UNCHANGED <<request, result>>
    BY PreprocessStep, <1>4 DEF PreprocessEffect
  <2>4. totals.errors = 0
    BY <2>1
  <2>2. CASE UNCHANGED output
    BY <2>1, <2>2, <2>4
  <2>3. CASE pc' = "returned" /\ totals'.errors = totals.errors
    BY <2>1, <2>3, <2>4
  <2> QED BY PreprocessStep, <1>4, <2>2, <2>3 DEF PreprocessEffect
<1>5. ASSUME NEW ok \in BOOLEAN, NEW log \in Logs, Parse(ok, log)
      PROVE  CleanInv'
  <2>1. GlslangPassEffect("parse", "link", log)
    BY GlslangPassStep, <1>5, Zenon DEF Parse
  <2> QED BY <2>1 DEF GlslangPassEffect
<1>6. ASSUME NEW ok \in BOOLEAN, NEW log \in Logs, Link(ok, log)
      PROVE  CleanInv'
  <2>1. GlslangPassEffect("link", "generate", log)
    BY GlslangPassStep, <1>6, Zenon DEF Link
  <2> QED BY <2>1 DEF GlslangPassEffect
<1>7. ASSUME NEW w \in Words, Generate(w)
      PROVE  CleanInv'
  BY <1>7 DEF Generate, Goto
<1>8. ASSUME NEW w \in Words, Optimize(w)
      PROVE  CleanInv'
  BY <1>8 DEF Optimize, Goto
<1>9. CASE OptimizeFails
  BY <1>9 DEF OptimizeFails, Goto, Return
<1>10. CASE EmitBinary
  BY <1>10 DEF EmitBinary, Goto
<1>11. ASSUME NEW n \in Lengths, Disassemble(n)
      PROVE  CleanInv'
  BY <1>11 DEF Disassemble, Goto
<1>12. CASE DisassembleFails
  BY <1>12 DEF DisassembleFails, Goto, Return
<1>13. CASE FillResult
  BY <1>13 DEF FillResult, Goto, progress
<1>14. CASE StartAssemble
  BY <1>14 DEF StartAssemble, EmptyResult, Goto, progress
<1>15. ASSUME NEW w \in Words, Assemble(w)
      PROVE  CleanInv'
  BY <1>15 DEF Assemble, Goto, progress
<1>16. CASE AssembleFails
  BY <1>16 DEF AssembleFails, Goto, progress
<1>17. CASE Throw
  BY <1>17 DEF Throw, MayThrow, Goto, progress
<1>18. CASE UNCHANGED vars
  BY <1>18 DEF vars, progress
<1> QED BY <1>1, <1>2, <1>3, <1>4, <1>5, <1>6, <1>7, <1>8, <1>9, <1>10, <1>11,
       <1>12, <1>13, <1>14, <1>15, <1>16, <1>17, <1>18 DEF Next, Compile,
       AssembleIntoSpv, vars

LEMMA NextOutput ==
  TypeOK /\ FreshInv /\ CleanInv /\ OutputInv /\ [Next]_vars => OutputInv'
<1> SUFFICES ASSUME TypeOK, FreshInv, CleanInv, OutputInv, [Next]_vars PROVE OutputInv'
  OBVIOUS
<1> USE DEF TypeOK, FreshInv, CleanInv, OutputInv, Running, NoOutput, EmptyResult,
       Compiled
<1>1. CASE Start
  BY <1>1 DEF Start, EmptyResult, Goto, progress
<1>2. CASE CheckTarget
  BY <1>2 DEF CheckTarget, Goto, Return
<1>3. ASSUME NEW src \in Sources, DeduceStage(src)
      PROVE  OutputInv'
  BY <1>3 DEF DeduceStage, Goto, Return
<1>4. ASSUME NEW ok \in BOOLEAN, NEW log \in Logs, Preprocess(ok, log)
      PROVE  OutputInv'
  <2>1. /\ pc = "preprocess" /\ pc' \in {"deduce", "returned"}
        /\ UNCHANGED <<request, result>>
    BY PreprocessStep, <1>4 DEF PreprocessEffect
  <2>2. CASE UNCHANGED output
    BY <2>1, <2>2 DEF Call!FormOf
  <2>3. CASE /\ pc' = "returned" /\ request.output_type = "PreprocessedText"
             /\ \E n \in Lengths : output' = Text("preprocessed", n)
    <3>1. PICK n \in Lengths : output' = Text("preprocessed", n)
      BY <2>3
    <3>2. Call!FormOf(request) = "preprocessed"
      BY <2>3 DEF Call!FormOf
    <3>3. /\ output'.succeeded = TRUE /\ output'.data.form = "preprocessed"
          /\ output'.size < 4 * output'.data.words
          /\ 4 * output'.data.words <= output'.size + 4
      BY <3>1, TextIsText
    <3>4. Call!FormOf(request') = "preprocessed"
      BY <2>1, <3>2
    <3> QED BY <2>1, <2>3, <3>3, <3>4
  <2> QED BY PreprocessStep, <1>4, <2>2, <2>3 DEF PreprocessEffect
<1>5. ASSUME NEW ok \in BOOLEAN, NEW log \in Logs, Parse(ok, log)
      PROVE  OutputInv'
  <2>1. GlslangPassEffect("parse", "link", log)
    BY GlslangPassStep, <1>5, Zenon DEF Parse
  <2> QED BY <2>1 DEF GlslangPassEffect
<1>6. ASSUME NEW ok \in BOOLEAN, NEW log \in Logs, Link(ok, log)
      PROVE  OutputInv'
  <2>1. GlslangPassEffect("link", "generate", log)
    BY GlslangPassStep, <1>6, Zenon DEF Link
  <2> QED BY <2>1 DEF GlslangPassEffect
<1>7. ASSUME NEW w \in Words, Generate(w)
      PROVE  OutputInv'
  BY <1>7 DEF Generate, Goto
<1>8. ASSUME NEW w \in Words, Optimize(w)
      PROVE  OutputInv'
  BY <1>8 DEF Optimize, Goto
<1>9. CASE OptimizeFails
  BY <1>9 DEF OptimizeFails, Goto, Return
<1>10. CASE EmitBinary
  BY <1>10 DEF EmitBinary, Goto, Call!FormOf
<1>11. ASSUME NEW n \in Lengths, Disassemble(n)
      PROVE  OutputInv'
  <2>1. Call!FormOf(request) = "assembly" /\ request.output_type = "SpirvAssemblyText"
    BY <1>11 DEF Disassemble, Call!FormOf
  <2>2. /\ output'.succeeded = TRUE /\ output'.data.form = "assembly"
        /\ output'.size < 4 * output'.data.words
        /\ 4 * output'.data.words <= output'.size + 4
    BY <1>11, TextIsText DEF Disassemble
  <2>3. pc = "emit" /\ pc' = "returned" /\ UNCHANGED <<request, result>>
    BY <1>11 DEF Disassemble, Goto
  <2>4. Call!FormOf(request') = "assembly"
    BY <2>1, <2>3
  <2> QED BY <2>1, <2>2, <2>3, <2>4
<1>12. CASE DisassembleFails
  BY <1>12 DEF DisassembleFails, Goto, Return
<1>13. CASE FillResult
  BY <1>13 DEF FillResult, Goto, progress
<1>14. CASE StartAssemble
  BY <1>14 DEF StartAssemble, EmptyResult, Goto, progress
<1>15. ASSUME NEW w \in Words, Assemble(w)
      PROVE  OutputInv'
  BY <1>15 DEF Assemble, Goto, progress
<1>16. CASE AssembleFails
  BY <1>16 DEF AssembleFails, Goto, progress
<1>17. CASE Throw
  BY <1>17 DEF Throw, MayThrow, Goto, progress
<1>18. CASE UNCHANGED vars
  BY <1>18 DEF vars, progress
<1> QED BY <1>1, <1>2, <1>3, <1>4, <1>5, <1>6, <1>7, <1>8, <1>9, <1>10, <1>11,
       <1>12, <1>13, <1>14, <1>15, <1>16, <1>17, <1>18 DEF Next, Compile,
       AssembleIntoSpv, vars

LEMMA NextStage ==
  TypeOK /\ FreshInv /\ CleanInv /\ StageInv /\ [Next]_vars => StageInv'
<1> SUFFICES ASSUME TypeOK, FreshInv, CleanInv, StageInv, [Next]_vars PROVE StageInv'
  OBVIOUS
<1> USE DEF TypeOK, FreshInv, CleanInv, StageInv, StageIsTheRightOne, Running, Staged,
       EmptyResult, NoOutput, Compiled
<1>1. CASE Start
  BY <1>1 DEF Start, EmptyResult, Goto, progress
<1>2. CASE CheckTarget
  BY StagesOfKinds, <1>2 DEF CheckTarget, Goto, Return, Requests
<1>3. ASSUME NEW src \in Sources, DeduceStage(src)
      PROVE  StageInv'
  BY StagesOfKinds, StageOfPragmas, StageAssumption, <1>3
  DEF DeduceStage, Goto, Return, Requests
<1>4. ASSUME NEW ok \in BOOLEAN, NEW log \in Logs, Preprocess(ok, log)
      PROVE  StageInv'
  <2>1. PreprocessEffect(log)
    BY PreprocessStep, <1>4, Zenon
  <2> QED BY <2>1 DEF PreprocessEffect
<1>5. ASSUME NEW ok \in BOOLEAN, NEW log \in Logs, Parse(ok, log)
      PROVE  StageInv'
  <2>1. GlslangPassEffect("parse", "link", log)
    BY GlslangPassStep, <1>5, Zenon DEF Parse
  <2> QED BY <2>1 DEF GlslangPassEffect
<1>6. ASSUME NEW ok \in BOOLEAN, NEW log \in Logs, Link(ok, log)
      PROVE  StageInv'
  <2>1. GlslangPassEffect("link", "generate", log)
    BY GlslangPassStep, <1>6, Zenon DEF Link
  <2> QED BY <2>1 DEF GlslangPassEffect
<1>7. ASSUME NEW w \in Words, Generate(w)
      PROVE  StageInv'
  BY <1>7 DEF Generate, Goto
<1>8. ASSUME NEW w \in Words, Optimize(w)
      PROVE  StageInv'
  BY <1>8 DEF Optimize, Goto
<1>9. CASE OptimizeFails
  BY <1>9 DEF OptimizeFails, Goto, Return
<1>10. CASE EmitBinary
  BY <1>10 DEF EmitBinary, Goto
<1>11. ASSUME NEW n \in Lengths, Disassemble(n)
      PROVE  StageInv'
  BY <1>11 DEF Disassemble, Goto
<1>12. CASE DisassembleFails
  BY <1>12 DEF DisassembleFails, Goto, Return
<1>13. CASE FillResult
  BY <1>13 DEF FillResult, Goto, progress
<1>14. CASE StartAssemble
  BY <1>14 DEF StartAssemble, EmptyResult, Goto, progress
<1>15. ASSUME NEW w \in Words, Assemble(w)
      PROVE  StageInv'
  BY <1>15 DEF Assemble, Goto, progress
<1>16. CASE AssembleFails
  BY <1>16 DEF AssembleFails, Goto, progress
<1>17. CASE Throw
  BY <1>17 DEF Throw, MayThrow, Goto, progress
<1>18. CASE UNCHANGED vars
  BY <1>18 DEF vars, progress
<1> QED BY <1>1, <1>2, <1>3, <1>4, <1>5, <1>6, <1>7, <1>8, <1>9, <1>10, <1>11,
       <1>12, <1>13, <1>14, <1>15, <1>16, <1>17, <1>18 DEF Next, Compile,
       AssembleIntoSpv, vars

(* What the counting of a pass is about, in a state of the right type.     *)
LEMMA CountingTypes ==
  ASSUME TypeOK
  PROVE  /\ request.warnings_as_errors \in BOOLEAN /\ request.suppress_warnings \in BOOLEAN
         /\ logs \in [PassNames -> Logs \cup {<<>>}]
         /\ totals.warnings \in Nat /\ totals.errors \in Nat
BY DEF TypeOK, Requests, PassNames

(* A call under way: nothing counted as an error, the logs of the passes   *)
(* still to come empty.                                                    *)
LEMMA UnderWay ==
  ASSUME TypeOK, FreshInv, pc \in Running
  PROVE  /\ result.class = "vector"
         /\ pc = "preprocess" => logs["preprocess"] = <<>>
         /\ pc = "parse" => logs["parse"] = <<>>
         /\ pc = "link" => logs["link"] = <<>>
<1>1. result = EmptyResult("vector", "invalid_stage")
  BY DEF FreshInv
<1>2. result.class = "vector"
  BY <1>1 DEF EmptyResult
<1> QED BY <1>2 DEF FreshInv, Silent

LEMMA CleanSoFar ==
  ASSUME TypeOK, CleanInv, pc \in Running \ {"returned"}
  PROVE  totals.errors = 0
<1>1. ~(totals.errors > 0)
  BY DEF CleanInv, Running
<1> QED BY <1>1, CountingTypes

(* What a pass adds to the counts is what its log adds to those of the     *)
(* logs.                                                                   *)
CountsAlong(e, w) ==
  LET wae == request.warnings_as_errors
      suppress == request.suppress_warnings
  IN  /\ e \in Nat /\ w \in Nat /\ pc' # "done"
      /\ totals'.errors = totals.errors + e
      /\ totals'.warnings = totals.warnings + w
      /\ ErrorsIn(logs', wae, suppress) = ErrorsIn(logs, wae, suppress) + e
      /\ WarningsIn(logs', wae, suppress) = WarningsIn(logs, wae, suppress) + w
      /\ wae \/ suppress => w = 0
      /\ UNCHANGED <<request, result>>

LEMMA PreprocessCounts ==
  ASSUME TypeOK, FreshInv, NEW ok \in BOOLEAN, NEW log \in Logs, Preprocess(ok, log)
  PROVE  \E e, w : CountsAlong(e, w)
<1> DEFINE wae == request.warnings_as_errors
           suppress == request.suppress_warnings
           e == NewErrors(log, wae, TRUE)
           w == NewWarnings(log, wae, TRUE)
           all == WarningsIn(logs, wae, suppress)
<1>1. /\ pc = "preprocess" /\ pc' \in {"deduce", "returned"}
      /\ logs' = [logs EXCEPT !["preprocess"] = log]
      /\ totals'.errors = totals.errors + e
      /\ totals'.warnings = totals.warnings + w
      /\ UNCHANGED <<request, result>>
  <2>1. PreprocessEffect(log)
    BY PreprocessStep, Zenon
  <2> QED BY <2>1, Zenon DEF PreprocessEffect
<1>2. /\ wae \in BOOLEAN /\ suppress \in BOOLEAN
      /\ logs \in [PassNames -> Logs \cup {<<>>}]
  BY CountingTypes, Zenon
<1>3. pc \in Running
  BY <1>1 DEF Running
<1>4. logs["preprocess"] = <<>>
  BY <1>1, <1>3, UnderWay, Zenon
<1>5. log \in Logs \cup {<<>>}
  OBVIOUS
<1>6. e \in Nat /\ w = 0
  BY <1>2, <1>5, CountsAreNat, WhatIsCounted, Zenon
<1>7. /\ ErrorsIn(logs', wae, suppress) = ErrorsIn(logs, wae, suppress) + e
      /\ WarningsIn(logs', wae, suppress) = all
  BY <1>1, <1>2, <1>4, CountsAfterPreprocess, Zenon
<1>8. all \in Nat
  BY <1>2, WarningsAreNat, Zenon
<1> HIDE DEF all, w
<1>9. WarningsIn(logs', wae, suppress) = all + w /\ w \in Nat
  BY <1>6, <1>7, <1>8
<1>10. pc' # "done"
  BY <1>1
<1> QED BY <1>1, <1>6, <1>7, <1>9, <1>10, Zenon DEF CountsAlong, all

LEMMA PassCounts ==
  ASSUME TypeOK, FreshInv, NEW p \in {"parse", "link"}, NEW next \in MayThrow,
         NEW ok \in BOOLEAN, NEW log \in Logs, GlslangPass(p, ok, log, next)
  PROVE  \E e, w : CountsAlong(e, w)
<1> DEFINE wae == request.warnings_as_errors
           suppress == request.suppress_warnings
           e == NewErrors(log, wae, suppress)
           w == NewWarnings(log, wae, suppress)
<1>1. /\ pc = p /\ pc' \in {next, "returned"}
      /\ logs' = [logs EXCEPT ![p] = log]
      /\ totals'.errors = totals.errors + e
      /\ totals'.warnings = totals.warnings + w
      /\ UNCHANGED <<request, result>>
  <2>1. GlslangPassEffect(p, next, log)
    BY GlslangPassStep, Zenon
  <2> QED BY <2>1, Zenon DEF GlslangPassEffect
<1>2. /\ wae \in BOOLEAN /\ suppress \in BOOLEAN
      /\ logs \in [PassNames -> Logs \cup {<<>>}]
  BY CountingTypes, Zenon
<1>3. pc \in Running
  BY <1>1 DEF Running
<1>4. logs[p] = <<>>
  BY <1>1, <1>3, UnderWay, Zenon
<1>5. log \in Logs \cup {<<>>}
  OBVIOUS
<1>6. e \in Nat /\ w \in Nat
  BY <1>5, CountsAreNat, Zenon
<1>7. /\ ErrorsIn(logs', wae, suppress) = ErrorsIn(logs, wae, suppress) + e
      /\ WarningsIn(logs', wae, suppress) = WarningsIn(logs, wae, suppress) + w
  <2>1. logs' = [logs EXCEPT ![p] = log]
    BY <1>1
  <2> HIDE DEF wae, suppress
  <2> QED BY <2>1, <1>2, <1>4, CountsAfterPass, Zenon
<1>8. wae \/ suppress => w = 0
  BY <1>2, <1>5, NoWarnings, Zenon
<1>9. pc' # "done"
  BY <1>1 DEF MayThrow
<1> QED BY <1>1, <1>6, <1>7, <1>8, <1>9, Zenon DEF CountsAlong

LEMMA NextCount ==
  TypeOK /\ FreshInv /\ CountInv /\ [Next]_vars => CountInv'
<1> SUFFICES ASSUME TypeOK, FreshInv, CountInv, [Next]_vars PROVE CountInv'
  OBVIOUS
<1> USE DEF TypeOK, FreshInv, CountInv, Counting, Running, EmptyResult, Compiled
<1>1. CASE Start
  <2>1. totals = Zero /\ Silent
    BY <1>1 DEF Start
  <2>2. /\ pc' = "done" => ~request.named
        /\ UNCHANGED <<request, totals, logs>>
    BY <1>1 DEF Start, Goto, progress
  <2> QED BY <2>1, <2>2, SilenceCounts DEF Zero
<1>2. CASE CheckTarget
  <2>1. totals = Zero /\ Silent
    BY <1>2 DEF CheckTarget
  <2>2. /\ pc' # "done" /\ totals'.warnings = 0
        /\ request.target = "supported" => UNCHANGED totals
        /\ UNCHANGED <<request, logs, result>>
    BY <1>2 DEF CheckTarget, Goto, Return, Requests, Zero
  <2> QED BY <2>1, <2>2, SilenceCounts DEF Zero
<1>3. ASSUME NEW src \in Sources, DeduceStage(src)
      PROVE  CountInv'
  BY <1>3 DEF DeduceStage, Goto, Return
<1>4. ASSUME NEW ok \in BOOLEAN, NEW log \in Logs, Preprocess(ok, log)
      PROVE  CountInv'
  <2>1. PICK e, w : CountsAlong(e, w)
    <3> HIDE DEF TypeOK, FreshInv, CountInv
    <3> QED BY <1>4, PreprocessCounts, Zenon
  <2>2. totals.warnings \in Nat /\ totals.errors \in Nat
    BY CountingTypes, Zenon
  <2> QED BY <2>1, <2>2 DEF CountsAlong, Requests
<1>5. ASSUME NEW ok \in BOOLEAN, NEW log \in Logs, Parse(ok, log)
      PROVE  CountInv'
  <2>1. PICK e, w : CountsAlong(e, w)
    <3> HIDE DEF TypeOK, FreshInv, CountInv
    <3>1. "link" \in MayThrow
      BY DEF MayThrow
    <3> QED BY <1>5, <3>1, PassCounts, Zenon DEF Parse
  <2>2. totals.warnings \in Nat /\ totals.errors \in Nat
    BY CountingTypes, Zenon
  <2> QED BY <2>1, <2>2 DEF CountsAlong, Requests
<1>6. ASSUME NEW ok \in BOOLEAN, NEW log \in Logs, Link(ok, log)
      PROVE  CountInv'
  <2>1. PICK e, w : CountsAlong(e, w)
    <3> HIDE DEF TypeOK, FreshInv, CountInv
    <3>1. "generate" \in MayThrow
      BY DEF MayThrow
    <3> QED BY <1>6, <3>1, PassCounts, Zenon DEF Link
  <2>2. totals.warnings \in Nat /\ totals.errors \in Nat
    BY CountingTypes, Zenon
  <2> QED BY <2>1, <2>2 DEF CountsAlong, Requests
<1>7. ASSUME NEW w \in Words, Generate(w)
      PROVE  CountInv'
  BY <1>7 DEF Generate, Goto
<1>8. ASSUME NEW w \in Words, Optimize(w)
      PROVE  CountInv'
  BY <1>8 DEF Optimize, Goto
<1>9. CASE OptimizeFails
  BY <1>9 DEF OptimizeFails, Goto, Return
<1>10. CASE EmitBinary
  BY <1>10 DEF EmitBinary, Goto
<1>11. ASSUME NEW n \in Lengths, Disassemble(n)
      PROVE  CountInv'
  BY <1>11 DEF Disassemble, Goto
<1>12. CASE DisassembleFails
  BY <1>12 DEF DisassembleFails, Goto, Return
<1>13. CASE FillResult
  BY <1>13 DEF FillResult, Goto, progress
<1>14. CASE StartAssemble
  BY <1>14 DEF StartAssemble, EmptyResult, Goto, progress
<1>15. ASSUME NEW w \in Words, Assemble(w)
      PROVE  CountInv'
  <2>1. /\ pc = "assemble" /\ result.class = "spv_binary"
        /\ result'.class = result.class
        /\ UNCHANGED <<request, totals, logs>>
    BY <1>15 DEF Assemble, progress
  <2> QED BY <2>1
<1>16. CASE AssembleFails
  <2>1. /\ pc = "assemble" /\ result.class = "spv_binary"
        /\ result'.class = result.class
        /\ UNCHANGED <<request, totals, logs>>
    BY <1>16 DEF AssembleFails, progress
  <2> QED BY <2>1
<1>17. CASE Throw
  BY <1>17 DEF Throw, MayThrow, Goto, progress
<1>18. CASE UNCHANGED vars
  BY <1>18 DEF vars, progress
<1> QED BY <1>1, <1>2, <1>3, <1>4, <1>5, <1>6, <1>7, <1>8, <1>9, <1>10, <1>11,
       <1>12, <1>13, <1>14, <1>15, <1>16, <1>17, <1>18 DEF Next, Compile,
       AssembleIntoSpv, vars

-----------------------------------------------------------------------------
(* The invariant holds, and what follows from it.                          *)

IInv == TypeOK /\ FreshInv /\ CleanInv /\ OutputInv /\ StageInv /\ CountInv

LEMMA InitIInv == Init => IInv
<1> SUFFICES ASSUME Init PROVE IInv
  OBVIOUS
<1>1. TypeOK
  BY InitType
<1>2. pc = "idle" /\ totals = Zero /\ Silent /\ source.pragmas = <<>> /\ ~error_
      /\ output = NoOutput /\ result = NoResult
  BY DEF Init, Zero, Silent, NoLogs, NoOutput
<1>3. result.class = "none" /\ result.num_errors = 0 /\ totals.errors = 0
      /\ totals.warnings = 0 /\ ~output.succeeded /\ output.size = 0
  BY <1>2 DEF NoResult, EmptyResult, Zero, NoOutput
<1>4. FreshInv
  BY <1>2, <1>3 DEF FreshInv, Running
<1>5. CleanInv /\ OutputInv /\ CountInv
  BY <1>2, <1>3 DEF CleanInv, OutputInv, CountInv, Counting, Compiled, Done
<1>6. StageInv
  BY <1>2, <1>3 DEF StageInv, StageIsTheRightOne, Staged, Compiled
<1> QED BY <1>1, <1>4, <1>5, <1>6 DEF IInv

(* Every reachable state of a call satisfies the invariant.                *)
THEOREM Invariance == Spec => []IInv
<1>1. Init => IInv
  BY InitIInv
<1>2. IInv /\ [Next]_vars => IInv'
  BY NextType, NextFresh, NextClean, NextOutput, NextStage, NextCount DEF IInv
<1> QED BY <1>1, <1>2, PTL DEF Spec

(* Compile and CompileToSpecifiedOutputType keep every variable in its type. *)
THEOREM TypeCorrect == Spec => []TypeOK
<1>1. IInv => TypeOK
  BY DEF IInv
<1> QED BY <1>1, Invariance, PTL

(* Compile's success &= PrintFilteredErrors after each pass: nothing runs   *)
(* after an error, and a success has none, whatever glslang logs.          *)
THEOREM SuccessClean == Spec => []SuccessIsClean
<1>1. IInv => SuccessIsClean
  <2> SUFFICES ASSUME IInv PROVE SuccessIsClean
    OBVIOUS
  <2> USE DEF IInv
  <2> DEFINE wae == request.warnings_as_errors
             suppress == request.suppress_warnings
  <2>1. totals.errors > 0 => pc \in {"returned", "done"} /\ ~output.succeeded
    BY DEF CleanInv
  <2>2. ASSUME Done("success")
        PROVE  /\ result.num_errors = 0
               /\ ErrorsIn(logs, wae, suppress) = 0
    <3>1. CASE result.class = "vector"
      <4>1. output.succeeded /\ result.num_errors = totals.errors /\ Counting
        BY <2>2, <3>1 DEF CleanInv, Compiled, Done
      <4>2. totals.errors = 0
        BY <4>1 DEF CleanInv, TypeOK
      <4> QED BY <4>1, <4>2 DEF CountInv
    <3>2. CASE result.class = "spv_binary"
      BY <2>2, <3>2, SilenceCounts DEF CleanInv, FreshInv
    <3>3. result.class # "none"
      BY <2>2 DEF FreshInv, Done
    <3> QED BY <3>1, <3>2, <3>3 DEF TypeOK
  <2>3. /\ wae \in BOOLEAN /\ suppress \in BOOLEAN
        /\ DOMAIN logs = PassNames
        /\ \A p \in PassNames : logs[p] \in Logs \cup {<<>>}
    BY DEF TypeOK, Requests, PassNames
  <2>4. ASSUME Done("success")
        PROVE  /\ \A p \in PassNames : HowMany(logs[p], IsError) = 0
               /\ wae /\ ~suppress => HowMany(logs["parse"], IsWarning)
                                        + HowMany(logs["link"], IsWarning) = 0
    <3> DEFINE E(p) == HowMany(logs[p], IsError)
               W(p) == HowMany(logs[p], IsWarning)
    <3>1. logs \in [PassNames -> Logs \cup {<<>>}]
      BY DEF TypeOK, PassNames
    <3>2. /\ \A p \in PassNames : E(p) \in Nat /\ W(p) \in Nat
          /\ wae /\ ~suppress =>
               ErrorsIn(logs, wae, suppress) = E("preprocess") + (E("parse") + W("parse"))
                                                 + (E("link") + W("link"))
          /\ ~(wae /\ ~suppress) =>
               ErrorsIn(logs, wae, suppress) = E("preprocess") + E("parse") + E("link")
      <4> HIDE DEF wae, suppress
      <4> QED BY <2>3, <3>1, CountsOfLogs
    <3>3. ErrorsIn(logs, wae, suppress) = 0
      BY <2>2, <2>4
    <3> HIDE DEF wae, suppress, E, W
    <3>4. /\ \A p \in PassNames : E(p) = 0
          /\ wae /\ ~suppress => W("parse") + W("link") = 0
      BY <3>2, <3>3 DEF PassNames
    <3> QED BY <3>4 DEF E, W
  <2> QED BY <2>1, <2>2, <2>3, <2>4 DEF SuccessIsClean
<1> QED BY <1>1, Invariance, PTL

(* PrintFilteredErrors after the three passes: each message is counted     *)
(* once, as the options say, for any logs.                                 *)
THEOREM EveryMessageOnce == Spec => []CountedOnce
<1>1. IInv => CountedOnce
  <2> SUFFICES ASSUME IInv,
                      Compiled, result.status # "internal_error",
                      request.named, request.target = "supported"
               PROVE  CountedOnce
    BY DEF CountedOnce
  <2> DEFINE wae == request.warnings_as_errors
             suppress == request.suppress_warnings
             E(p) == HowMany(logs[p], IsError)
             W(p) == HowMany(logs[p], IsWarning)
  <2>1. Counting
    BY DEF Counting, Compiled
  <2>2. /\ result.num_errors = ErrorsIn(logs, wae, suppress)
        /\ result.num_warnings = WarningsIn(logs, wae, suppress)
    BY <2>1 DEF IInv, CountInv
  <2>3. /\ logs \in [PassNames -> Logs \cup {<<>>}] /\ wae \in BOOLEAN /\ suppress \in BOOLEAN
    BY DEF IInv, TypeOK, PassNames, Requests
  <2>4. /\ \A p \in PassNames : E(p) \in Nat /\ W(p) \in Nat
        /\ ErrorsIn(logs, wae, suppress)
             = IF wae /\ ~suppress
               THEN E("preprocess") + (E("parse") + W("parse")) + (E("link") + W("link"))
               ELSE E("preprocess") + E("parse") + E("link")
        /\ WarningsIn(logs, wae, suppress)
             = IF wae \/ suppress THEN 0 ELSE W("parse") + W("link")
    <3> HIDE DEF wae, suppress
    <3> QED BY <2>3, CountsOfLogs
  <2>5. IF suppress
        THEN result.num_errors = E("preprocess") + E("parse") + E("link")
               /\ result.num_warnings = 0
        ELSE IF wae
        THEN result.num_errors = (E("preprocess") + E("parse") + E("link")) + (W("parse") + W("link"))
               /\ result.num_warnings = 0
        ELSE result.num_errors = E("preprocess") + E("parse") + E("link")
               /\ result.num_warnings = W("parse") + W("link")
    <3> HIDE DEF wae, suppress, E, W
    <3> QED BY <2>2, <2>3, <2>4 DEF PassNames
  <2> QED BY <2>5, Zenon DEF CountedOnce
<1> QED BY <1>1, Invariance, PTL

(* CompileToSpecifiedOutputType asks the stage deducer's flag: a result    *)
(* says invalid_stage exactly for a missing stage.                         *)
THEOREM CauseTold == Spec => []StatusTellsCause
<1>1. IInv => StatusTellsCause
  <2> SUFFICES ASSUME IInv, Compiled PROVE StatusTellsCause!2
    BY DEF StatusTellsCause
  <2>1. StageInv /\ pc = "done" /\ result.class = "vector"
    BY DEF IInv, Compiled
  <2>2. error_ => result.status = "invalid_stage"
    BY <2>1 DEF StageInv
  <2>3. result.status = "invalid_stage" => error_ /\ result.num_errors = totals.errors
    BY <2>1 DEF StageInv, Compiled
  <2>4. error_ => /\ stage = NoStage /\ source.pragmas = <<>> /\ totals.errors = 0
                  /\ request.kind.how = "infer" /\ request.output_type # "PreprocessedText"
    BY <2>1 DEF StageInv
  <2> QED BY <2>2, <2>3, <2>4
<1> QED BY <1>1, Invariance, PTL

(* Compile parses for the stage that the kind and the pragmas give.        *)
THEOREM RightStage == Spec => []StageIsTheRightOne
<1>1. IInv => StageIsTheRightOne
  BY DEF IInv, StageInv
<1> QED BY <1>1, Invariance, PTL

(* SetOutputData and output_data_size: the bytes are what was asked for.   *)
THEOREM OutputAsAsked == Spec => []OutputMatchesRequest
<1>1. IInv => OutputMatchesRequest
  <2> SUFFICES ASSUME IInv PROVE OutputMatchesRequest
    OBVIOUS
  <2>1. pc = "done" /\ result.status # "success" => result.size = 0
    BY DEF IInv, OutputInv
  <2>2. ASSUME Compiled, result.status = "success"
        PROVE  /\ result.data.form = Call!FormOf(request)
               /\ IF request.output_type = "SpirvBinary"
                  THEN result.size = 4 * result.data.words
                  ELSE result.size < 4 * result.data.words
                         /\ 4 * result.data.words <= result.size + 4
    BY <2>2 DEF IInv, OutputInv, CleanInv
  <2> QED BY <2>1, <2>2 DEF OutputMatchesRequest, Call!FormOf
<1> QED BY <1>1, Invariance, PTL

-----------------------------------------------------------------------------
(* The abstract call.                                                      *)

(* Before a pass of glslang the result is still the empty vector, and no   *)
(* error has been counted.                                                 *)
LEMMA NothingSaid ==
  ASSUME IInv, pc \in {"preprocess", "parse", "link"}
  PROVE  result.class = "vector" /\ totals.errors = 0
<1>1. pc \in Running \ {"returned"}
  BY DEF Running
<1> QED BY <1>1, UnderWay, CleanSoFar, Zenon DEF IInv

(* A step that the client cannot tell from none.                           *)
LEMMA UnseenStep ==
  ASSUME pc # "done", pc' # "done", UNCHANGED <<request, totals, result>>
  PROVE  UNCHANGED Call!cvars
BY DEF Call!cvars, ClientSees

(* A pass finds something, in a log, and the client sees none of it yet.   *)
LEMMA WarningsGrow ==
  ASSUME TypeOK, NEW log \in Logs, NEW suppress,
         totals' \in [warnings : Nat, errors : Nat],
         totals'.warnings
           = totals.warnings + NewWarnings(log, request.warnings_as_errors, suppress)
  PROVE  totals'.warnings >= totals.warnings
<1> DEFINE w == NewWarnings(log, request.warnings_as_errors, suppress)
<1>1. w \in Nat /\ totals.warnings \in Nat
  BY CountsAreNat, CountingTypes
<1> HIDE DEF w
<1>2. totals'.warnings = totals.warnings + w
  BY DEF w
<1> QED BY <1>1, <1>2

LEMMA DiagnosisStep ==
  ASSUME TypeOK, CountInv', result.class = "vector",
         pc # "done", pc' # "done", totals.errors = 0,
         totals' \in [warnings : Nat, errors : Nat],
         totals'.warnings >= totals.warnings,
         UNCHANGED <<request, result>>
  PROVE  Call!Diagnose
<1>1. ClientSees = Call!Pending /\ UNCHANGED ClientSees
  BY DEF ClientSees, Call!Pending
<1>2. request.warnings_as_errors \/ request.suppress_warnings => totals'.warnings = 0
  BY DEF CountInv
<1>3. totals'.warnings >= totals.warnings
  OBVIOUS
<1> QED BY <1>1, <1>2 DEF Call!Diagnose

LEMMA CallStep ==
  IInv /\ IInv' /\ [Next]_vars => [Call!CNext]_(Call!cvars)
<1> SUFFICES ASSUME IInv, IInv', [Next]_vars PROVE [Call!CNext]_(Call!cvars)
  OBVIOUS
<1> USE DEF IInv
<1>1. CASE Start
  <2>1. /\ pc = "idle" /\ pc' \in {"check_target", "done"} /\ result.class = "none"
        /\ totals = Call!None /\ UNCHANGED <<request, totals>>
        /\ ClientSees = Call!Pending
    BY <1>1 DEF Start, Goto, progress, FreshInv, Zero, Call!None, ClientSees, Call!Pending
  <2>2. CASE request.named
    <3>1. pc' = "check_target" /\ result'.class = "vector" /\ ClientSees' = ClientSees
      BY <1>1, <2>1, <2>2 DEF Start, Goto, EmptyResult, ClientSees
    <3>2. Call!Begin
      BY <2>1, <3>1 DEF Call!Begin
    <3> QED BY <3>2 DEF Call!CNext
  <2>3. CASE ~request.named
    <3>1. /\ pc' = "done" /\ result'.class = "vector"
          /\ result'.status = "compilation_error" /\ result'.num_errors = 1
          /\ result'.num_warnings = 0 /\ result'.size = 0
      BY <1>1, <2>3 DEF Start, Goto, EmptyResult
    <3>2. /\ ClientSees'.status = "compilation_error" /\ ClientSees'.errors = 1
          /\ ClientSees'.warnings = 0 /\ ClientSees'.size = 0
      BY <3>1 DEF ClientSees
    <3>3. Call!Refuse
      BY <2>1, <2>3, <3>1, <3>2 DEF Call!Refuse, Call!Answer, Call!None
    <3> QED BY <3>3 DEF Call!CNext
  <2> QED BY <2>2, <2>3
<1>2. CASE CheckTarget
  <2>1. /\ pc = "check_target" /\ pc' # "done" /\ result.class = "vector"
        /\ totals = Zero /\ UNCHANGED <<request, result>>
    BY <1>2 DEF CheckTarget, Goto, Return, FreshInv, Running, EmptyResult
  <2>2. CASE UNCHANGED totals
    <3>1. UNCHANGED Call!cvars
      BY <2>1, <2>2, UnseenStep
    <3> QED BY <3>1
  <2>3. CASE totals' = [warnings |-> 0, errors |-> 1]
    BY <2>1, <2>3, DiagnosisStep DEF Zero, Call!CNext
  <2> QED BY <1>2, <2>2, <2>3 DEF CheckTarget
<1>3. ASSUME NEW src \in Sources, DeduceStage(src)
      PROVE  [Call!CNext]_(Call!cvars)
  BY <1>3, UnseenStep DEF DeduceStage, Goto, Return
<1>4. ASSUME NEW ok \in BOOLEAN, NEW log \in Logs, Preprocess(ok, log)
      PROVE  [Call!CNext]_(Call!cvars)
  <2>1. PreprocessEffect(log)
    BY PreprocessStep, <1>4, Zenon DEF IInv
  <2>2. pc = "preprocess" /\ pc' \in {"deduce", "returned"} /\ UNCHANGED <<request, result>>
    BY <2>1, Zenon DEF PreprocessEffect
  <2>3. result.class = "vector" /\ totals.errors = 0
    BY <2>2, NothingSaid, Zenon
  <2>4. totals' \in [warnings : Nat, errors : Nat] /\ totals'.warnings >= totals.warnings
    BY <2>1, WarningsGrow, Zenon DEF IInv, PreprocessEffect
  <2> QED BY <2>2, <2>3, <2>4, DiagnosisStep DEF IInv, Call!CNext
<1>5. ASSUME NEW ok \in BOOLEAN, NEW log \in Logs, Parse(ok, log)
      PROVE  [Call!CNext]_(Call!cvars)
  <2>1. GlslangPassEffect("parse", "link", log)
    BY GlslangPassStep, <1>5, Zenon DEF IInv, Parse
  <2>2. pc = "parse" /\ pc' \in {"link", "returned"} /\ UNCHANGED <<request, result>>
    BY <2>1, Zenon DEF GlslangPassEffect
  <2>3. result.class = "vector" /\ totals.errors = 0
    BY <2>2, NothingSaid, Zenon
  <2>4. totals' \in [warnings : Nat, errors : Nat] /\ totals'.warnings >= totals.warnings
    BY <2>1, WarningsGrow, Zenon DEF IInv, GlslangPassEffect
  <2> QED BY <2>2, <2>3, <2>4, DiagnosisStep DEF IInv, Call!CNext
<1>6. ASSUME NEW ok \in BOOLEAN, NEW log \in Logs, Link(ok, log)
      PROVE  [Call!CNext]_(Call!cvars)
  <2>1. GlslangPassEffect("link", "generate", log)
    BY GlslangPassStep, <1>6, Zenon DEF IInv, Link
  <2>2. pc = "link" /\ pc' \in {"generate", "returned"} /\ UNCHANGED <<request, result>>
    BY <2>1, Zenon DEF GlslangPassEffect
  <2>3. result.class = "vector" /\ totals.errors = 0
    BY <2>2, NothingSaid, Zenon
  <2>4. totals' \in [warnings : Nat, errors : Nat] /\ totals'.warnings >= totals.warnings
    BY <2>1, WarningsGrow, Zenon DEF IInv, GlslangPassEffect
  <2> QED BY <2>2, <2>3, <2>4, DiagnosisStep DEF IInv, Call!CNext
<1>7. ASSUME NEW w \in Words, Generate(w)
      PROVE  [Call!CNext]_(Call!cvars)
  BY <1>7, UnseenStep DEF Generate, Goto
<1>8. ASSUME NEW w \in Words, Optimize(w)
      PROVE  [Call!CNext]_(Call!cvars)
  BY <1>8, UnseenStep DEF Optimize, Goto
<1>9. CASE OptimizeFails
  BY <1>9, UnseenStep DEF OptimizeFails, Goto, Return
<1>10. CASE EmitBinary
  BY <1>10, UnseenStep DEF EmitBinary, Goto
<1>11. ASSUME NEW n \in Lengths, Disassemble(n)
      PROVE  [Call!CNext]_(Call!cvars)
  BY <1>11, UnseenStep DEF Disassemble, Goto
<1>12. CASE DisassembleFails
  BY <1>12, UnseenStep DEF DisassembleFails, Goto, Return
<1>13. CASE FillResult
  <2>1. /\ pc = "returned" /\ pc' = "done" /\ result.class = "vector"
        /\ UNCHANGED <<request, totals, error_, output>> /\ ClientSees = Call!Pending
    BY <1>13 DEF FillResult, Goto, progress, FreshInv, Running, EmptyResult, ClientSees, Call!Pending
  <2>2. /\ result'.class = "vector"
        /\ result'.num_errors = totals.errors /\ result'.num_warnings = totals.warnings
        /\ result'.data = output.data
        /\ result'.status = IF output.succeeded THEN "success"
                            ELSE IF error_ THEN "invalid_stage" ELSE "compilation_error"
    BY <1>13, <2>1 DEF FillResult, TypeOK
  <2>3. /\ ClientSees'.status = result'.status
        /\ ClientSees'.errors = totals.errors /\ ClientSees'.warnings = totals.warnings
        /\ ClientSees'.form = output.data.form /\ ClientSees'.size = result'.size
    BY <2>1, <2>2 DEF ClientSees
  <2>4. result'.status # "success" => result'.size = 0
    BY <2>1 DEF OutputInv
  <2>5. Call!Answer(result'.status, totals)
    BY <2>1, <2>3, <2>4 DEF Call!Answer
  <2>6. CASE output.succeeded
    <3>1. totals.errors = 0 /\ output.data.form = Call!FormOf(request)
      BY <2>6 DEF CleanInv, OutputInv, TypeOK
    <3>2. Call!Succeed
      BY <2>1, <2>2, <2>3, <2>5, <2>6, <3>1 DEF Call!Succeed
    <3> QED BY <3>2 DEF Call!CNext
  <2>7. CASE ~output.succeeded /\ error_
    <3>1. /\ totals.errors = 0 /\ request.kind.how = "infer"
          /\ request.output_type # "PreprocessedText"
      BY <2>7 DEF StageInv
    <3>2. Call!FailToFindStage
      BY <2>1, <2>2, <2>5, <2>7, <3>1 DEF Call!FailToFindStage
    <3> QED BY <3>2 DEF Call!CNext
  <2>8. CASE ~output.succeeded /\ ~error_
    <3>1. Call!FailToCompile
      BY <2>1, <2>2, <2>5, <2>8 DEF Call!FailToCompile
    <3> QED BY <3>1 DEF Call!CNext
  <2> QED BY <2>6, <2>7, <2>8
<1>14. CASE StartAssemble
  <2>1. /\ pc = "idle" /\ pc' \in {"assemble", "done"} /\ result.class = "none"
        /\ result' = EmptyResult("spv_binary", "invalid_assembly")
        /\ UNCHANGED <<request, totals>> /\ ClientSees = Call!Pending
    BY <1>14 DEF StartAssemble, Goto, progress, FreshInv, ClientSees, Call!Pending
  <2>2. CASE pc' = "assemble"
    <3>1. result'.class = "spv_binary" /\ ClientSees' = ClientSees
      BY <2>1, <2>2 DEF EmptyResult, ClientSees
    <3>2. Call!Begin
      BY <2>1, <3>1 DEF Call!Begin
    <3> QED BY <3>2 DEF Call!CNext
  <2>3. CASE pc' = "done"
    <3>1. /\ ClientSees'.status = "invalid_assembly" /\ ClientSees'.errors = 0
          /\ ClientSees'.warnings = 0 /\ ClientSees'.size = 0 /\ result'.class = "spv_binary"
      BY <2>1, <2>3 DEF EmptyResult, ClientSees
    <3>2. Call!NothingToAssemble
      BY <2>1, <3>1 DEF Call!NothingToAssemble, Call!Answer, Call!None
    <3> QED BY <3>2 DEF Call!CNext
  <2> QED BY <2>1, <2>2, <2>3
<1>15. ASSUME NEW w \in Words, Assemble(w)
      PROVE  [Call!CNext]_(Call!cvars)
  <2>1. /\ pc = "assemble" /\ pc' = "done" /\ UNCHANGED <<request, totals>>
        /\ result = EmptyResult("spv_binary", "invalid_assembly") /\ ClientSees = Call!Pending
    BY <1>15 DEF Assemble, Goto, progress, FreshInv, ClientSees, Call!Pending
  <2>2. /\ result'.class = "spv_binary" /\ result'.status = "success"
        /\ result'.num_errors = 0 /\ result'.num_warnings = 0 /\ result'.data.form = "spirv"
    BY <1>15, <2>1 DEF Assemble, EmptyResult
  <2>3. /\ ClientSees'.status = "success" /\ ClientSees'.errors = 0
        /\ ClientSees'.warnings = 0 /\ ClientSees'.form = "spirv"
    BY <2>1, <2>2 DEF ClientSees
  <2>4. Call!Assembled
    BY <2>1, <2>2, <2>3 DEF Call!Assembled, Call!Answer, Call!None, EmptyResult
  <2> QED BY <2>4 DEF Call!CNext
<1>16. CASE AssembleFails
  <2>1. /\ pc = "assemble" /\ pc' = "done" /\ UNCHANGED <<request, totals>>
        /\ result = EmptyResult("spv_binary", "invalid_assembly") /\ ClientSees = Call!Pending
    BY <1>16 DEF AssembleFails, Goto, progress, FreshInv, ClientSees, Call!Pending
  <2>2. /\ result'.class = "spv_binary" /\ result'.status = "invalid_assembly"
        /\ result'.num_errors = 1 /\ result'.num_warnings = 0 /\ result'.size = 0
    BY <1>16, <2>1 DEF AssembleFails, EmptyResult
  <2>3. /\ ClientSees'.status = "invalid_assembly" /\ ClientSees'.errors = 1
        /\ ClientSees'.warnings = 0 /\ ClientSees'.size = 0
    BY <2>1, <2>2 DEF ClientSees
  <2>4. Call!NotAssembled
    BY <2>1, <2>2, <2>3 DEF Call!NotAssembled, Call!Answer, Call!None, EmptyResult
  <2> QED BY <2>4 DEF Call!CNext
<1>17. CASE Throw
  <2>1. /\ pc \in MayThrow /\ pc' = "done" /\ UNCHANGED <<request, totals>>
        /\ ClientSees = Call!Pending
        /\ result = EmptyResult(result.class, result.status) /\ result.class # "none"
    BY <1>17 DEF Throw, MayThrow, Goto, progress, FreshInv, Running, EmptyResult, ClientSees,
       Call!Pending
  <2>2. /\ result'.class = result.class /\ result'.status = "internal_error"
        /\ result'.num_errors = 0 /\ result'.num_warnings = 0 /\ result'.size = 0
    BY <1>17, <2>1 DEF Throw, EmptyResult
  <2>3. /\ ClientSees'.status = "internal_error" /\ ClientSees'.errors = 0
        /\ ClientSees'.warnings = 0 /\ ClientSees'.size = 0
    BY <2>1, <2>2 DEF ClientSees
  <2>4. Call!Break
    BY <2>1, <2>2, <2>3 DEF Call!Break, Call!Answer, Call!None
  <2> QED BY <2>4 DEF Call!CNext
<1>18. CASE UNCHANGED vars
  BY <1>18 DEF vars, progress, Call!cvars, ClientSees
<1> QED BY <1>1, <1>2, <1>3, <1>4, <1>5, <1>6, <1>7, <1>8, <1>9, <1>10, <1>11,
       <1>12, <1>13, <1>14, <1>15, <1>16, <1>17, <1>18 DEF Next, Compile,
       AssembleIntoSpv, vars

(* CompileToSpecifiedOutputType and shaderc_assemble_into_spv implement    *)
(* the call of ShaderCall for any logs, stages and sizes.                  *)
THEOREM CallImplemented == Spec => ImplementsCall
<1>1. Init => Call!CInit
  BY DEF Init, NoResult, EmptyResult, ClientSees, Call!CInit, Call!None, Call!Pending
<1>2. IInv /\ IInv' /\ [Next]_vars => [Call!CNext]_(Call!cvars)
  BY CallStep
<1> QED BY <1>1, <1>2, Invariance, PTL DEF Spec, ImplementsCall, Call!CSpec

=============================================================================
