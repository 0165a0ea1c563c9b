----------------------------- MODULE ShaderCall -----------------------------
(***************************************************************************)
(* What a call of shaderc_compile_into_* or shaderc_assemble_into_spv      *)
(* promises its client (shaderc.h, status.h), without the passes behind    *)
(* it: diagnostics are found until one of them is an error; then, or when  *)
(* the work is done, the call is answered, once.  CompilePipeline          *)
(* implements this specification.                                          *)
(***************************************************************************)
EXTENDS Naturals

VARIABLES request, \* the arguments and options
          call,    \* the kind of call: "none", "vector" (compile), "spv_binary"
          found,   \* warnings and errors found so far
          answer   \* what the client gets, Pending before

cvars == <<request, call, found, answer>>

Pending == [status |-> "pending", errors |-> 0, warnings |-> 0, form |-> "nothing", size |-> 0]
None == [warnings |-> 0, errors |-> 0]

CInit == call = "none" /\ found = None /\ answer = Pending

Begin == /\ call = "none"
         /\ call' \in {"vector", "spv_binary"}
         /\ UNCHANGED <<request, found, answer>>

(* Nothing is looked for after an error.  Warnings that the options turn   *)
(* into errors or suppress are not found as warnings.                      *)
Diagnose ==
  /\ call = "vector" /\ answer = Pending /\ found.errors = 0
  /\ found' \in [warnings : Nat, errors : Nat]
  /\ IF request.warnings_as_errors \/ request.suppress_warnings
     THEN found'.warnings = 0
     ELSE found'.warnings >= found.warnings
  /\ UNCHANGED <<request, call, answer>>

Answer(status, counts) ==
  /\ answer = Pending
  /\ answer'.status = status
  /\ answer'.errors = counts.errors /\ answer'.warnings = counts.warnings
  /\ status # "success" => answer'.size = 0
  /\ UNCHANGED <<request, found>>

(* The form that the client asked for.                                     *)
FormOf(r) ==
  CASE r.output_type = "PreprocessedText" -> "preprocessed"
    [] r.output_type = "SpirvAssemblyText" -> "assembly"
    [] r.output_type = "SpirvBinary" -> IF r.passes THEN "optimized" ELSE "spirv"

Succeed ==
  /\ call = "vector" /\ found.errors = 0
  /\ Answer("success", found)
  /\ answer'.form = FormOf(request)
  /\ UNCHANGED call

FailToFindStage ==
  /\ call = "vector" /\ found.errors = 0
  /\ request.kind.how = "infer" /\ request.output_type # "PreprocessedText"
  /\ Answer("invalid_stage", found)
  /\ UNCHANGED call

FailToCompile == call = "vector" /\ Answer("compilation_error", found) /\ UNCHANGED call

(* A call without a file name is answered at once.                         *)
Refuse ==
  /\ call = "none" /\ ~request.named
  /\ call' = "vector"
  /\ Answer("compilation_error", [None EXCEPT !.errors = 1])

(* An exception loses the counts.                                          *)
Break == call # "none" /\ Answer("internal_error", None) /\ UNCHANGED call

Assembled ==
  /\ call = "spv_binary" /\ Answer("success", None)
  /\ answer'.form = "spirv"
  /\ UNCHANGED call
NotAssembled ==
  /\ call = "spv_binary"
  /\ Answer("invalid_assembly", [None EXCEPT !.errors = 1])
  /\ UNCHANGED call
(* Without a text there is nothing to assemble, and no error is counted.   *)
NothingToAssemble ==
  /\ call = "none" /\ call' = "spv_binary"
  /\ Answer("invalid_assembly", None)

CNext == \/ Begin \/ Diagnose
         \/ Succeed \/ FailToFindStage \/ FailToCompile \/ Refuse \/ Break
         \/ Assembled \/ NotAssembled \/ NothingToAssemble
CSpec == CInit /\ [][CNext]_cvars
=============================================================================
