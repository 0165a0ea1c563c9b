--------------------------- MODULE CompilePipeline ---------------------------
(***************************************************************************)
(* One call of shaderc_compile_into_*, from the request to the result      *)
(* object: CompileToSpecifiedOutputType (shaderc.cc) around                *)
(* Compiler::Compile (compiler.cc), with the filter every glslang log goes *)
(* through (message.cc); and shaderc_assemble_into_spv beside it.          *)
(*                                                                         *)
(* glslang and SPIRV-Tools are outside: a pass of theirs succeeds or not,  *)
(* leaves a log, and may throw.  What the module follows is what the code  *)
(* makes of these answers: the counts, the status, the stage, and the      *)
(* bytes it hands to the client.                                           *)
(***************************************************************************)
EXTENDS MessageTypes, SequencesExt

CONSTANTS Stages,      \* shader stages
          NoStage,     \* EShLangCount: the stage is not known (yet)
          Logs,        \* the logs a pass may leave, see AllMessages
          MaxPragmas,  \* bound: #pragma shader_stage lines in a source
          Lengths,     \* text lengths, in bytes, that outputs may have
          Words,       \* SPIR-V module sizes, in words
          Passes       \* whether the options enable optimizer passes

ASSUME StageAssumption == NoStage \notin Stages
ASSUME LogAssumption == Logs \subseteq Seq(AllMessages)
ASSUME SizeAssumption ==
  /\ MaxPragmas \in Nat
  /\ Lengths \subseteq Nat /\ Words \subseteq Nat \ {0}
  /\ Passes \subseteq BOOLEAN

VARIABLES
  pc,       \* where the call is
  request,  \* its arguments and the options that matter here
  source,   \* what the source says about its stage, once that is read
  stage,    \* used_shader_stage
  error_,   \* the stage deducer's flag
  totals,   \* total_warnings and total_errors
  output,   \* Compile's result tuple: succeeded, data, size
  logs,     \* the log of each glslang pass that ran (history)
  result    \* the shaderc_compilation_result

progress == <<stage, error_, totals, output, logs>>
vars == <<pc, request, source, progress, result>>

Forms == {"nothing", "spirv", "optimized", "assembly", "preprocessed"}
(* compilation_output_data: what it holds and how many words.              *)
Nothing == [form |-> "nothing", words |-> 0]

(* shader_kind: forced, or a default to fall back on, or left to #pragma.  *)
Kinds == [how : {"forced", "default"}, stage : Stages]
           \cup [how : {"infer"}, stage : {NoStage}]
OutputTypes == {"SpirvBinary", "SpirvAssemblyText", "PreprocessedText"}
Requests == [kind : Kinds, output_type : OutputTypes, named : BOOLEAN,
             warnings_as_errors : BOOLEAN, suppress_warnings : BOOLEAN,
             passes : Passes, target : {"supported", "refused"}]

(* The #pragma shader_stage lines of a source, "?" for an unknown stage,   *)
(* and whether code comes before the first.                                *)
Sources == [pragmas : SeqOf(Stages \cup {"?"}, MaxPragmas), code_first : BOOLEAN]

(* The result object.  Its size and counts start at zero.                  *)
EmptyResult(class, status) ==
  [class |-> class, status |-> status, num_errors |-> 0, num_warnings |-> 0,
   data |-> Nothing, size |-> 0]
NoResult == EmptyResult("none", "null_result_object")

NoLogs == [preprocess |-> <<>>, parse |-> <<>>, link |-> <<>>]

Init ==
  /\ pc = "idle"
  /\ request \in Requests
  /\ source = [pragmas |-> <<>>, code_first |-> FALSE]
  /\ stage = NoStage
  /\ error_ = FALSE
  /\ totals = [warnings |-> 0, errors |-> 0]
  /\ output = [succeeded |-> FALSE, data |-> Nothing, size |-> 0]
  /\ logs = NoLogs
  /\ result = NoResult

-----------------------------------------------------------------------------
(* The message filter (message.cc; MessageFilter has it in detail).        *)

(* PrintFilteredErrors adds to the totals; it returns true, here NoNewErrors, *)
(* when it added no error.                                                 *)
PrintFilteredErrors(log, wae, suppress) ==
  totals' = [warnings |-> totals.warnings + NewWarnings(log, wae, suppress),
             errors |-> totals.errors + NewErrors(log, wae, suppress)]
NoNewErrors(log, wae, suppress) == NewErrors(log, wae, suppress) = 0

-----------------------------------------------------------------------------
(* The stage of the shader.                                                *)

GetForcedStage(kind) == IF kind.how = "forced" THEN kind.stage ELSE NoStage
GetDefaultStage(kind) == IF kind.how = "default" THEN kind.stage ELSE NoStage

(* Mutant of PragmaErrors: later pragmas are not compared with the first.  *)
PragmaErrorsOfFirst(s) ==
  /\ s.pragmas # <<>>
  /\ s.code_first \/ s.pragmas[1] \notin Stages

(* Mutant of StageFromPragmas: an unknown stage is not an error.           *)
StageFromPragmasUnchecked(s) == IF s.pragmas = <<>> THEN NoStage ELSE s.pragmas[1]

(* GetShaderStageFromSourceCode reports an error, or the first stage.      *)
PragmaErrors(s) ==
  /\ s.pragmas # <<>>
  /\ \/ s.code_first
     \/ s.pragmas[1] \notin Stages
     \/ \E i \in DOMAIN s.pragmas : s.pragmas[i] # s.pragmas[1]
StageFromPragmas(s) ==
  IF s.pragmas = <<>> \/ PragmaErrors(s) THEN NoStage ELSE s.pragmas[1]

-----------------------------------------------------------------------------
(* Compiler::Compile.                                                      *)

Goto(l) == pc' = l
(* glslang says why it fails: with an error, or with a message of another  *)
(* kind ("INTERNAL ERROR: ...") that the filter does not know.             *)
Explained(ok, log) ==
  ok \/ \E i \in DOMAIN log : log[i].prefix = "other" \/ IsError(log[i])
(* An early return: the tuple as it is, not succeeded.                     *)
Return == Goto("returned") /\ UNCHANGED output
Pass(p, log) == logs' = [logs EXCEPT ![p] = log]

(* GlslangInitializer aside (see GlslangInitializer), a call begins here.  *)
Start ==
  /\ pc = "idle"
  /\ IF request.named
     THEN /\ Goto("check_target")
          /\ result' = EmptyResult("vector", "invalid_stage")
     ELSE /\ Goto("done")
          /\ result' = [EmptyResult("vector", "compilation_error") EXCEPT !.num_errors = 1]
  /\ UNCHANGED <<request, source, progress>>

(* GetGlslangClientInfo refuses some targets.                              *)
CheckTarget ==
  /\ pc = "check_target"
  /\ stage' = GetForcedStage(request.kind)
  /\ IF request.target = "refused"
     THEN totals' = [warnings |-> 0, errors |-> 1] /\ Return
     ELSE /\ Goto(IF \/ request.output_type = "PreprocessedText"
                     \/ GetForcedStage(request.kind) = NoStage
                  THEN "preprocess" ELSE "parse")
          /\ UNCHANGED <<totals, output>>
  /\ UNCHANGED <<request, source, error_, logs, result>>

(* ConvertStringToVector: words for the text and a NUL.                    *)
TextWords(n) == (n + 1 + 3) \div 4

(* Mutant of Text: words for the text alone.                               *)
TextUnterminated(form, n) ==
  [succeeded |-> TRUE, data |-> [form |-> form, words |-> (n + 3) \div 4], size |-> n]

Text(form, n) ==
  [succeeded |-> TRUE, data |-> [form |-> form, words |-> TextWords(n)], size |-> n]

(* Mutant of Preprocess: warnings are reported here and again by Parse.    *)
PreprocessLoud(ok, log) ==
  /\ pc = "preprocess"
  /\ Explained(ok, log)
  /\ Pass("preprocess", log)
  /\ PrintFilteredErrors(log, request.warnings_as_errors, request.suppress_warnings)
  /\ IF ~(ok /\ NoNewErrors(log, request.warnings_as_errors, request.suppress_warnings))
     THEN Return
     ELSE IF request.output_type = "PreprocessedText"
     THEN \E n \in Lengths : output' = Text("preprocessed", n) /\ Goto("returned")
     ELSE Goto("deduce") /\ UNCHANGED output
  /\ UNCHANGED <<request, source, stage, error_, result>>

(* PreprocessShader, its log with warnings suppressed, and the end of a    *)
(* preprocess-only call.                                                   *)
Preprocess(ok, log) ==
  /\ pc = "preprocess"
  /\ Explained(ok, log)
  /\ Pass("preprocess", log)
  /\ PrintFilteredErrors(log, request.warnings_as_errors, TRUE)
  /\ IF ~(ok /\ NoNewErrors(log, request.warnings_as_errors, TRUE))
     THEN Return
     ELSE IF request.output_type = "PreprocessedText"
     THEN \E n \in Lengths : output' = Text("preprocessed", n) /\ Goto("returned")
     ELSE Goto("deduce") /\ UNCHANGED output
  /\ UNCHANGED <<request, source, stage, error_, result>>

(* GetShaderStageFromSourceCode: pragma errors end the call, a stage goes  *)
(* on with it; without a pragma the deducer is asked, and keeps a flag.    *)
DeduceStage(src) ==
  /\ pc = "deduce"
  /\ source' = src
  /\ IF src.pragmas # <<>>
     THEN stage' = StageFromPragmas(src) /\ UNCHANGED error_
     ELSE /\ stage' = GetDefaultStage(request.kind)
          /\ error_' = (stage' = NoStage)
  /\ IF stage' = NoStage THEN Return ELSE Goto("parse") /\ UNCHANGED output
  /\ UNCHANGED <<request, totals, logs, result>>

(* Mutant of GlslangPass: glslang's verdict stands, the filter's is lost.  *)
GlslangPassTrusting(p, ok, log, next) ==
  /\ pc = p
  /\ Explained(ok, log)
  /\ Pass(p, log)
  /\ PrintFilteredErrors(log, request.warnings_as_errors, request.suppress_warnings)
  /\ IF ok THEN Goto(next) /\ UNCHANGED output ELSE Return
  /\ UNCHANGED <<request, source, stage, error_, result>>

(* A pass whose log is printed under the options; success &= the filter.   *)
GlslangPass(p, ok, log, next) ==
  /\ pc = p
  /\ Explained(ok, log)
  /\ Pass(p, log)
  /\ PrintFilteredErrors(log, request.warnings_as_errors, request.suppress_warnings)
  /\ IF ok /\ NoNewErrors(log, request.warnings_as_errors, request.suppress_warnings)
     THEN Goto(next) /\ UNCHANGED output
     ELSE Return
  /\ UNCHANGED <<request, source, stage, error_, result>>
Parse(ok, log) == GlslangPass("parse", ok, log, "link")
Link(ok, log) == GlslangPass("link", ok, log, "generate")

(* GlslangToSpv writes straight into the tuple's data.                     *)
Generate(w) ==
  /\ pc = "generate"
  /\ output' = [output EXCEPT !.data = [form |-> "spirv", words |-> w]]
  /\ Goto(IF request.passes THEN "optimize" ELSE "emit")
  /\ UNCHANGED <<request, source, stage, error_, totals, logs, result>>

(* SpirvToolsOptimize works on the same data, in place if it succeeds.     *)
Optimize(w) ==
  /\ pc = "optimize"
  /\ output' = [output EXCEPT !.data = [form |-> "optimized", words |-> w]]
  /\ Goto("emit")
  /\ UNCHANGED <<request, source, stage, error_, totals, logs, result>>
OptimizeFails ==
  /\ pc = "optimize"
  /\ Return
  /\ UNCHANGED <<request, source, stage, error_, totals, logs, result>>

EmitBinary ==
  /\ pc = "emit" /\ request.output_type = "SpirvBinary"
  /\ output' = [output EXCEPT !.succeeded = TRUE, !.size = 4 * output.data.words]
  /\ Goto("returned")
  /\ UNCHANGED <<request, source, stage, error_, totals, logs, result>>

(* SpirvToolsDisassemble, and the data replaced by the text.               *)
Disassemble(n) ==
  /\ pc = "emit" /\ request.output_type = "SpirvAssemblyText"
  /\ output' = Text("assembly", n)
  /\ Goto("returned")
  /\ UNCHANGED <<request, source, stage, error_, totals, logs, result>>
DisassembleFails ==
  /\ pc = "emit" /\ request.output_type = "SpirvAssemblyText"
  /\ Return
  /\ UNCHANGED <<request, source, stage, error_, totals, logs, result>>

-----------------------------------------------------------------------------
(* CompileToSpecifiedOutputType, once Compile has returned.                *)

(* Mutant of FillResult: any failure without an error is a stage problem.  *)
FillResultGuessing ==
  /\ pc = "returned"
  /\ result' = [result EXCEPT
       !.data = output.data, !.size = output.size,
       !.num_warnings = totals.warnings, !.num_errors = totals.errors,
       !.status = IF output.succeeded THEN "success"
                  ELSE IF totals.errors = 0 THEN "invalid_stage" ELSE "compilation_error"]
  /\ Goto("done")
  /\ UNCHANGED <<request, source, progress>>

FillResult ==
  /\ pc = "returned"
  /\ result' = [result EXCEPT
       !.data = output.data, !.size = output.size,
       !.num_warnings = totals.warnings, !.num_errors = totals.errors,
       !.status = IF output.succeeded THEN "success"
                  ELSE IF error_ THEN "invalid_stage" ELSE "compilation_error"]
  /\ Goto("done")
  /\ UNCHANGED <<request, source, progress>>

(* Mutant of Throw: what was counted before the exception is reported.     *)
ThrowCounted ==
  /\ pc \in {"preprocess", "parse", "link", "generate", "optimize", "emit", "assemble"}
  /\ result' = [result EXCEPT !.status = "internal_error",
                  !.num_errors = totals.errors, !.num_warnings = totals.warnings]
  /\ pc' = "done"
  /\ UNCHANGED <<request, source, progress>>

(* The places where code outside runs; catch (...) leaves the fresh result. *)
MayThrow == {"preprocess", "parse", "link", "generate", "optimize", "emit", "assemble"}
Throw ==
  /\ pc \in MayThrow
  /\ result' = [result EXCEPT !.status = "internal_error"]
  /\ Goto("done")
  /\ UNCHANGED <<request, source, progress>>

-----------------------------------------------------------------------------
(* shaderc_assemble_into_spv: its result holds an spv_binary.              *)

StartAssemble ==
  /\ pc = "idle"
  /\ result' = EmptyResult("spv_binary", "invalid_assembly")
  /\ \E l \in {"assemble", "done"} : Goto(l)   \* "done" for a null source
  /\ UNCHANGED <<request, source, progress>>

Assemble(w) ==
  /\ pc = "assemble"
  /\ result' = [result EXCEPT !.status = "success", !.size = 4 * w,
                              !.data = [form |-> "spirv", words |-> w]]
  /\ Goto("done")
  /\ UNCHANGED <<request, source, progress>>

AssembleFails ==
  /\ pc = "assemble"
  /\ result' = [result EXCEPT !.num_errors = 1]
  /\ Goto("done")
  /\ UNCHANGED <<request, source, progress>>

-----------------------------------------------------------------------------
Compile ==
  \/ Start \/ CheckTarget
  \/ \E src \in Sources : DeduceStage(src)
  \/ \E ok \in BOOLEAN, log \in Logs : Preprocess(ok, log) \/ Parse(ok, log) \/ Link(ok, log)
  \/ \E w \in Words : Generate(w) \/ Optimize(w)
  \/ OptimizeFails \/ EmitBinary
  \/ \E n \in Lengths : Disassemble(n)
  \/ DisassembleFails
  \/ FillResult
AssembleIntoSpv == StartAssemble \/ AssembleFails \/ \E w \in Words : Assemble(w)

Next == Compile \/ AssembleIntoSpv \/ Throw
Spec == Init /\ [][Next]_vars

-----------------------------------------------------------------------------
(* Properties.                                                             *)

TypeOK ==
  /\ pc \in MayThrow \cup {"idle", "check_target", "deduce", "returned", "done"}
  /\ request \in Requests
  /\ source \in Sources
  /\ stage \in Stages \cup {NoStage}
  /\ error_ \in BOOLEAN
  /\ totals \in [warnings : Nat, errors : Nat]
  /\ output \in [succeeded : BOOLEAN, data : [form : Forms, words : Nat], size : Nat]
  /\ logs \in [{"preprocess", "parse", "link"} -> Logs \cup {<<>>}]
  /\ result \in [class : {"none", "vector", "spv_binary"},
                 status : {"success", "invalid_stage", "compilation_error",
                           "internal_error", "invalid_assembly", "null_result_object"},
                 num_errors : Nat, num_warnings : Nat,
                 data : [form : Forms, words : Nat], size : Nat]

Done(status) == pc = "done" /\ result.status = status
Compiled == pc = "done" /\ result.class = "vector"

(* Errors stop a compilation: while one goes on nothing has been counted   *)
(* as an error, so a successful result has none, under warnings-as-errors  *)
(* no warning either, and no pass that ran reported one (Compile's         *)
(* success &= PrintFilteredErrors after each pass).                        *)
SuccessIsClean ==
  /\ totals.errors > 0 => pc \in {"returned", "done"} /\ ~output.succeeded
  /\ Done("success") =>
       /\ result.num_errors = 0
       /\ \A p \in DOMAIN logs : HowMany(logs[p], IsError) = 0
       /\ (request.warnings_as_errors /\ ~request.suppress_warnings) =>
            HowMany(logs["parse"], IsWarning) + HowMany(logs["link"], IsWarning) = 0

(* Every message is counted once: an error of any pass as an error, a      *)
(* warning of the parse or the link as what the options make of it.  The   *)
(* preprocessing pass sees the warnings the parse will see again, so its   *)
(* own are not counted (suppress_warnings = true in Compile).              *)
CountedOnce ==
  Compiled /\ result.status # "internal_error"
           /\ request.named /\ request.target = "supported" =>
    LET errors == HowMany(logs["preprocess"], IsError) + HowMany(logs["parse"], IsError)
                    + HowMany(logs["link"], IsError)
        warnings == HowMany(logs["parse"], IsWarning) + HowMany(logs["link"], IsWarning)
    IN  IF request.suppress_warnings
        THEN result.num_errors = errors /\ result.num_warnings = 0
        ELSE IF request.warnings_as_errors
        THEN result.num_errors = errors + warnings /\ result.num_warnings = 0
        ELSE result.num_errors = errors /\ result.num_warnings = warnings

(* The status names the cause: invalid_stage exactly when neither the kind *)
(* nor a pragma gave a stage, in an otherwise clean run; errors in pragmas *)
(* are compilation errors (CompileToSpecifiedOutputType asks the deducer). *)
StatusTellsCause ==
  Compiled =>
    /\ result.status = "invalid_stage" =>
         /\ request.kind.how = "infer" /\ request.output_type # "PreprocessedText"
         /\ source.pragmas = <<>> /\ result.num_errors = 0 /\ stage = NoStage
    /\ error_ => result.status = "invalid_stage"

(* glslang parses for the forced stage, else for the one that all pragmas  *)
(* name before any code, else for the default (shaderc.h, shaderc_shader_  *)
(* kind); it never parses without a stage.                                 *)
StageIsTheRightOne ==
  pc \in {"parse", "link", "generate", "optimize", "emit"} =>
    /\ stage \in Stages
    /\ IF request.kind.how = "forced" THEN stage = request.kind.stage
       ELSE IF source.pragmas # <<>>
       THEN ~source.code_first /\ \A i \in DOMAIN source.pragmas : source.pragmas[i] = stage
       ELSE request.kind.how = "default" /\ stage = request.kind.stage

(* A successful result holds what was asked for, the optimizer's work if   *)
(* passes are enabled, and its size is that of the module, or of the text  *)
(* without the NUL that always follows it; a failed one has size 0.        *)
OutputMatchesRequest ==
  /\ Compiled /\ result.status = "success" =>
       /\ result.data.form = CASE request.output_type = "PreprocessedText" -> "preprocessed"
                               [] request.output_type = "SpirvAssemblyText" -> "assembly"
                               [] request.output_type = "SpirvBinary" ->
                                    IF request.passes THEN "optimized" ELSE "spirv"
       /\ IF request.output_type = "SpirvBinary"
          THEN result.size = 4 * result.data.words
          ELSE result.size < 4 * result.data.words /\ 4 * result.data.words <= result.size + 4
  /\ pc = "done" /\ result.status # "success" => result.size = 0

(* The call is ShaderCall to its client, who sees nothing of it before it  *)
(* returns: no pass runs after one that reported an error, one answer is   *)
(* given, and it says what was found.                                      *)
ClientSees ==
  IF pc # "done" THEN [status |-> "pending", errors |-> 0, warnings |-> 0,
                       form |-> "nothing", size |-> 0]
  ELSE [status |-> result.status, errors |-> result.num_errors,
        warnings |-> result.num_warnings, form |-> result.data.form, size |-> result.size]
Call == INSTANCE ShaderCall WITH call <- result.class, found <- totals, answer <- ClientSees
ImplementsCall == Call!CSpec

-----------------------------------------------------------------------------
(* What comments and headers say, and the code does not do.                *)

(* compiler.h, Compile: total_errors is incremented once for every error   *)
(* encountered; a compilation that fails for an error then counts one.     *)
FailuresAreCounted ==
  Done("compilation_error") => result.num_errors > 0
=============================================================================
