--------------------------- MODULE CompileOptions ---------------------------
(***************************************************************************)
(* The options objects of the C API (shaderc_compile_options in            *)
(* shaderc.cc) and the shaderc_util::Compiler inside each.  Clients set    *)
(* options in any order, again and again, clone the object and release it; *)
(* what a compilation then does is computed from what is left in the       *)
(* fields: the optimizer passes, the SPIR-V version, the environment given *)
(* to glslang and the one given to SPIRV-Tools, the binding base of the    *)
(* stage.  asked is the history the promises are about: the last value the *)
(* client gave for each option of each object.  A client sets some kinds   *)
(* of options; which, is chosen in Init.                                   *)
(***************************************************************************)
EXTENDS Naturals, Selections

CONSTANTS Objects,   \* shaderc_compile_options objects
          NoObject,  \* not allocated
          Envs,      \* shaderc_target_env values that clients use
          Versions,  \* target environment versions that clients use
          Spirvs,    \* SPIR-V versions that clients ask for
          Levels,    \* optimization levels that clients use
          Languages, \* source languages that clients use
          Bases,     \* binding bases that clients use
          Registers, \* <<register, set, binding>> triples that clients use
          MaxRegisters, \* bound: triples kept for one stage
          Clients,   \* for each client, the kinds of options it sets
          Stages,    \* the stages clients name in per-stage calls
          Plain,     \* options whose setters only overwrite their own field
          PlainValues

AllVersions == {"0", "vulkan_1_0", "vulkan_1_1", "vulkan_1_2", "vulkan_1_3",
                "vulkan_1_4", "opengl_4_5", "other"}
AllStages == {"vertex", "tess_control", "tess_evaluation", "geometry", "fragment", "compute"}

KnownSpirvs == {"1.0", "1.1", "1.2", "1.3", "1.4", "1.5", "1.6"}

OptionKinds == {"plain", "language", "target", "spirv", "debug", "level", "base", "registers"}

ASSUME ClientAssumption == Clients \subseteq SUBSET OptionKinds
ASSUME ValueAssumption ==
  /\ Envs \subseteq {"vulkan", "opengl", "opengl_compat", "webgpu"}
  /\ Versions \subseteq AllVersions
  /\ Spirvs \subseteq KnownSpirvs \cup {"other"}
  /\ Levels \subseteq {"zero", "size", "performance"}
  /\ Languages \subseteq {"GLSL", "HLSL"}
  /\ Stages \subseteq AllStages
  /\ Bases \subseteq Nat /\ MaxRegisters \in Nat

Indices == 0 .. 5

(* Pass lists: at most two, in one of three shapes.                        *)
PassLists ==
  {<<>>} \cup {<<x, l>> : x \in {"StripDebugInfo", "NullPass"}, l \in Levels}
         \cup {<<l>> : l \in Levels}

(* The fields of an options object and of its Compiler.                    *)
OptionsRecord ==
  [target_env : Envs \cup {"vulkan"}, target_env_version : AllVersions,
   compiler_env : {"Vulkan", "OpenGL", "OpenGLCompat"},
   compiler_version : (AllVersions \ {"0", "other"}) \cup {"Default"},
   spirv : Spirvs \cup {"1.0"}, spirv_is_forced : BOOLEAN,
   source_language : Languages \cup {"GLSL"},
   generate_debug_info : BOOLEAN,
   enabled_opt_passes : PassLists,
   auto_binding_base : [Indices -> Bases \cup {0}],
   hlsl_explicit_bindings : [Indices -> Seq(Registers)],
   plain : [Plain -> PlainValues \cup {"default"}]]

ASSUME NoObjectAssumption == NoObject \notin OptionsRecord

VARIABLES
  client,  \* the kinds of options the client sets
  options, \* object -> the shaderc_compile_options, or NoObject
  asked    \* object -> the client's last choice of each option (history)

vars == <<client, options, asked>>

(* Positions in Compiler::Stage and in glslang's EShLanguage.              *)
StageIndex == [s \in AllStages |->
  CASE s = "vertex" -> 0 [] s = "tess_evaluation" -> 1 [] s = "tess_control" -> 2
    [] s = "geometry" -> 3 [] s = "fragment" -> 4 [] s = "compute" -> 5]
LanguageIndex == [s \in AllStages |->
  CASE s = "vertex" -> 0 [] s = "tess_control" -> 1 [] s = "tess_evaluation" -> 2
    [] s = "geometry" -> 3 [] s = "fragment" -> 4 [] s = "compute" -> 5]

(* A new object: the defaults of shaderc_compile_options and of Compiler.  *)
Defaults ==
  [target_env |-> "vulkan", target_env_version |-> "0",
   compiler_env |-> "Vulkan", compiler_version |-> "Default",
   spirv |-> "1.0", spirv_is_forced |-> FALSE,
   source_language |-> "GLSL",
   generate_debug_info |-> FALSE, enabled_opt_passes |-> <<>>,
   auto_binding_base |-> [i \in Indices |-> 0],
   hlsl_explicit_bindings |-> [i \in Indices |-> <<>>],
   plain |-> [k \in Plain |-> "default"]]

NothingAsked ==
  [env |-> "vulkan", version |-> "0", spirv |-> "default", language |-> "GLSL",
   debug |-> FALSE, level |-> "zero", base |-> [s \in AllStages |-> 0],
   registers |-> [s \in AllStages |-> <<>>],
   plain |-> [k \in Plain |-> "default"]]

Init ==
  /\ client \in Clients
  /\ options = [o \in Objects |-> NoObject]
  /\ asked = [o \in Objects |-> NothingAsked]

Allocated == {o \in Objects : options[o] # NoObject}

-----------------------------------------------------------------------------
(* The life of an object.                                                  *)

Initialize(o) ==
  /\ o \notin Allocated
  /\ options' = [options EXCEPT ![o] = Defaults]
  /\ asked' = [asked EXCEPT ![o] = NothingAsked]

Clone(o, p) ==
  /\ o \in Allocated /\ p \notin Allocated
  /\ options' = [options EXCEPT ![p] = options[o]]
  /\ asked' = [asked EXCEPT ![p] = asked[o]]

Release(o) ==
  /\ o \in Allocated
  /\ options' = [options EXCEPT ![o] = NoObject]
  /\ asked' = [asked EXCEPT ![o] = NothingAsked]

-----------------------------------------------------------------------------
(* The setters.                                                            *)

Write(o, opts, wish) ==
  /\ o \in Allocated
  /\ options' = [options EXCEPT ![o] = opts]
  /\ asked' = [asked EXCEPT ![o] = wish]

(* Macros, limits, forced version and profile, include callbacks, warning  *)
(* modes, and the switches: each setter overwrites one field.              *)
SetPlain(o, k, v) ==
  Write(o, [options[o] EXCEPT !.plain[k] = v], [asked[o] EXCEPT !.plain[k] = v])

SetSourceLanguage(o, l) ==
  Write(o, [options[o] EXCEPT !.source_language = l], [asked[o] EXCEPT !.language = l])

(* GetCompilerTargetEnv (webgpu: as in a build without assertions) and     *)
(* GetCompilerTargetEnvVersion.                                            *)
GetCompilerTargetEnv(env) ==
  CASE env = "opengl" -> "OpenGL" [] env = "opengl_compat" -> "OpenGLCompat"
    [] OTHER -> "Vulkan"
GetCompilerTargetEnvVersion(v) == IF v \in {"0", "other"} THEN "Default" ELSE v

(* shaderc_compile_options_set_target_env: target_env_version keeps its 0. *)
SetTargetEnv(o, env, v) ==
  Write(o, [options[o] EXCEPT !.target_env = env,
                              !.compiler_env = GetCompilerTargetEnv(env),
                              !.compiler_version = GetCompilerTargetEnvVersion(v)],
           [asked[o] EXCEPT !.env = env, !.version = v])

SetTargetSpirv(o, v) ==
  Write(o, [options[o] EXCEPT !.spirv = v, !.spirv_is_forced = TRUE],
           [asked[o] EXCEPT !.spirv = v])

(* Mutant of SetGenerateDebugInfo: a strip pass already there stays.       *)
SetGenerateDebugInfoOnly(o) ==
  Write(o, [options[o] EXCEPT !.generate_debug_info = TRUE], [asked[o] EXCEPT !.debug = TRUE])

(* A strip pass that is already there becomes a null pass.                 *)
SetGenerateDebugInfo(o) ==
  Write(o, [options[o] EXCEPT
              !.generate_debug_info = TRUE,
              !.enabled_opt_passes = [i \in DOMAIN @ |->
                                        IF @[i] = "StripDebugInfo" THEN "NullPass" ELSE @[i]]],
           [asked[o] EXCEPT !.debug = TRUE])

(* Mutant of SetOptimizationLevel: the passes set before are not cleared.  *)
SetOptimizationLevelAgain(o, level) ==
  Write(o, [options[o] EXCEPT !.enabled_opt_passes =
              @ \o (IF level = "zero" THEN <<>> ELSE <<"StripDebugInfo", level>>)],
           [asked[o] EXCEPT !.level = level])

(* The passes of a level replace those of the one before.                  *)
SetOptimizationLevel(o, level) ==
  Write(o, [options[o] EXCEPT !.enabled_opt_passes =
              IF level = "zero" THEN <<>>
              ELSE (IF options[o].generate_debug_info THEN <<>> ELSE <<"StripDebugInfo">>)
                     \o <<level>>],
           [asked[o] EXCEPT !.level = level])

(* SetAutoBindingBaseForStage, for one kind of uniform.                    *)
SetBindingBaseForStage(o, s, b) ==
  Write(o, [options[o] EXCEPT !.auto_binding_base[StageIndex[s]] = b],
           [asked[o] EXCEPT !.base[s] = b])

(* Mutant of SetBindingBase: the loop over the stages starts at the second. *)
SetBindingBaseLate(o, b) ==
  Write(o, [options[o] EXCEPT !.auto_binding_base =
              [i \in Indices |-> IF i = 0 THEN @[i] ELSE b]],
           [asked[o] EXCEPT !.base = [s \in AllStages |-> b]])

SetBindingBase(o, b) ==
  Write(o, [options[o] EXCEPT !.auto_binding_base = [i \in Indices |-> b]],
           [asked[o] EXCEPT !.base = [s \in AllStages |-> b]])

(* SetHlslRegisterSetAndBindingForStage and SetHlslRegisterSetAndBinding   *)
(* append; a register named again does not replace its older entry.        *)
SetHlslRegisterForStage(o, s, r) ==
  /\ o \in Allocated /\ Len(options[o].hlsl_explicit_bindings[StageIndex[s]]) < MaxRegisters
  /\ Write(o, [options[o] EXCEPT !.hlsl_explicit_bindings[StageIndex[s]] = Append(@, r)],
              [asked[o] EXCEPT !.registers[s] = Append(@, r)])
SetHlslRegister(o, r) ==
  /\ o \in Allocated
  /\ \A i \in Indices : Len(options[o].hlsl_explicit_bindings[i]) < MaxRegisters
  /\ Write(o, [options[o] EXCEPT !.hlsl_explicit_bindings = [i \in Indices |-> Append(@[i], r)]],
              [asked[o] EXCEPT !.registers = [s \in AllStages |-> Append(@[s], r)]])

Set(o) ==
  \/ "plain" \in client /\ \E k \in Plain, v \in PlainValues : SetPlain(o, k, v)
  \/ "language" \in client /\ \E l \in Languages : SetSourceLanguage(o, l)
  \/ "target" \in client /\ \E env \in Envs, v \in Versions : SetTargetEnv(o, env, v)
  \/ "spirv" \in client /\ \E v \in Spirvs : SetTargetSpirv(o, v)
  \/ "debug" \in client /\ SetGenerateDebugInfo(o)
  \/ "level" \in client /\ \E level \in Levels : SetOptimizationLevel(o, level)
  \/ "base" \in client /\ \E b \in Bases :
       SetBindingBase(o, b) \/ \E s \in Stages : SetBindingBaseForStage(o, s, b)
  \/ "registers" \in client /\ \E r \in Registers :
       SetHlslRegister(o, r) \/ \E s \in Stages : SetHlslRegisterForStage(o, s, r)

Next ==
  /\ UNCHANGED client
  /\ \E o \in Objects :
       Initialize(o) \/ Release(o) \/ Set(o) \/ \E p \in Objects : Clone(o, p)

Spec == Init /\ [][Next]_vars

-----------------------------------------------------------------------------
(* What a compilation makes of an object (opts is its record).             *)

(* The SPIR-V version that each target version of Vulkan sets.             *)
VulkanSpirv == [v \in {"Default", "vulkan_1_0", "vulkan_1_1", "vulkan_1_2",
                       "vulkan_1_3", "vulkan_1_4"} |->
  CASE v = "vulkan_1_1" -> "1.3" [] v = "vulkan_1_2" -> "1.5"
    [] v \in {"vulkan_1_3", "vulkan_1_4"} -> "1.6" [] OTHER -> "1.0"]

(* Mutant of GetGlslangClientInfo: the environment's own version wins.     *)
GetGlslangClientInfoUnforced(opts) ==
  LET env == opts.compiler_env  v == opts.compiler_version
      accepted == \/ env = "Vulkan" /\ v \in DOMAIN VulkanSpirv
                  \/ env = "OpenGL" /\ v \in {"Default", "opengl_4_5"}
  IN  [error |-> ~accepted \/ (opts.spirv_is_forced /\ opts.spirv \notin KnownSpirvs),
       client_version |-> IF v # "Default" THEN v
                          ELSE IF env = "Vulkan" THEN "vulkan_1_0" ELSE "opengl_4_5",
       spirv |-> IF accepted /\ env = "Vulkan" /\ v # "Default" THEN VulkanSpirv[v]
                 ELSE IF opts.spirv_is_forced THEN opts.spirv ELSE "1.0"]

(* GetGlslangClientInfo: refused combinations and unknown SPIR-V versions, *)
(* glslang's client version, and the SPIR-V version, which a forced one    *)
(* overrides.                                                              *)
GetGlslangClientInfo(opts) ==
  LET env == opts.compiler_env  v == opts.compiler_version
      accepted == \/ env = "Vulkan" /\ v \in DOMAIN VulkanSpirv
                  \/ env = "OpenGL" /\ v \in {"Default", "opengl_4_5"}
  IN  [error |-> ~accepted \/ (opts.spirv_is_forced /\ opts.spirv \notin KnownSpirvs),
       client_version |-> IF v # "Default" THEN v
                          ELSE IF env = "Vulkan" THEN "vulkan_1_0" ELSE "opengl_4_5",
       spirv |-> IF opts.spirv_is_forced THEN opts.spirv
                 ELSE IF accepted /\ env = "Vulkan" THEN VulkanSpirv[v] ELSE "1.0"]

(* Mutant of GetSpirvToolsTargetEnv: the newest version is forgotten.      *)
GetSpirvToolsTargetEnvOld(env, v) ==
  IF env = "Vulkan"
  THEN CASE v = "Default" -> "vulkan_1_0"
         [] v \in DOMAIN VulkanSpirv \ {"Default", "vulkan_1_4"} -> v
         [] OTHER -> "assertion"
  ELSE "opengl_4_5"

(* GetSpirvToolsTargetEnv; "assertion" stands for its last two lines.      *)
GetSpirvToolsTargetEnv(env, v) ==
  IF env = "Vulkan"
  THEN CASE v = "Default" -> "vulkan_1_0"
         [] v \in DOMAIN VulkanSpirv \ {"Default"} -> v
         [] OTHER -> "assertion"
  ELSE "opengl_4_5"

(* The environments SpirvToolsOptimize and SpirvToolsAssemble are given.   *)
OptimizeEnv(opts) == <<opts.compiler_env, opts.compiler_version>>
AssembleEnv(opts) ==
  <<GetCompilerTargetEnv(opts.target_env), GetCompilerTargetEnvVersion(opts.target_env_version)>>

(* opt_passes in Compile, without the null passes that the optimizer skips. *)
OptPasses(opts) ==
  (IF opts.source_language = "HLSL" THEN <<"Legalization">> ELSE <<>>)
    \o Select(opts.enabled_opt_passes, {"StripDebugInfo"} \cup Levels)

(* What Compile hands to glslang for a shader of stage s.                  *)
UsedBase(opts, s) == opts.auto_binding_base[LanguageIndex[s]]
UsedRegisters(opts, s) == opts.hlsl_explicit_bindings[LanguageIndex[s]]

-----------------------------------------------------------------------------
(* Properties.                                                             *)

(* What a client may have asked for.                                       *)
Wishes ==
  [env : Envs \cup {"vulkan"}, version : Versions \cup {"0"},
   spirv : Spirvs \cup {"default"}, language : Languages \cup {"GLSL"},
   debug : BOOLEAN, level : Levels \cup {"zero"}, base : [AllStages -> Bases \cup {0}],
   registers : [AllStages -> Seq(Registers)],
   plain : [Plain -> PlainValues \cup {"default"}]]

(* The objects are records of the right type, or not allocated; so are the *)
(* wishes.  At most two passes are ever enabled, in one of three shapes.   *)
TypeOK ==
  /\ client \in Clients
  /\ options \in [Objects -> OptionsRecord \cup {NoObject}]
  /\ asked \in [Objects -> Wishes]

(* The passes that run are those of the last level asked for, with debug   *)
(* information stripped exactly when nobody asked for it, and legalization *)
(* first for HLSL: whatever the order of the calls and the clonings        *)
(* (SetGenerateDebugInfo and SetOptimizationLevel each look at the other). *)
PassesAsAsked ==
  \A o \in Allocated :
    OptPasses(options[o]) =
      (IF asked[o].language = "HLSL" THEN <<"Legalization">> ELSE <<>>)
        \o (IF asked[o].level = "zero" THEN <<>>
            ELSE IF asked[o].debug THEN <<asked[o].level>>
            ELSE <<"StripDebugInfo", asked[o].level>>)

(* The SPIR-V version is the last one asked for, else the one the last     *)
(* environment requires (compiler.h, SetTargetSpirv): neither setter wins  *)
(* by being called later.  A version that is asked for and not known is an *)
(* error, and never replaced by another.                                   *)
SpirvAsAsked ==
  \A o \in Allocated :
    LET info == GetGlslangClientInfo(options[o])
        needs == [v \in AllVersions |->
                    IF asked[o].env \in {"vulkan", "webgpu"}
                    THEN CASE v = "vulkan_1_1" -> "1.3" [] v = "vulkan_1_2" -> "1.5"
                           [] v \in {"vulkan_1_3", "vulkan_1_4"} -> "1.6" [] OTHER -> "1.0"
                    ELSE "1.0"]
    IN  /\ ~info.error =>
             info.spirv = IF asked[o].spirv # "default" THEN asked[o].spirv
                          ELSE needs[asked[o].version]
        /\ asked[o].spirv = "other" => info.error

(* glslang and the optimizer work for the same environment: what the one   *)
(* accepts the other knows, without running into its assertion.            *)
ToolsAgree ==
  \A o \in Allocated :
    LET info == GetGlslangClientInfo(options[o])
        e == OptimizeEnv(options[o])
    IN  ~info.error => GetSpirvToolsTargetEnv(e[1], e[2]) = info.client_version

(* Outside tessellation a stage gets what was asked for it, by the calls   *)
(* for the stage and those for all stages together: the base of the last   *)
(* one, and the registers of all, in their order.                          *)
Tessellation == {"tess_control", "tess_evaluation"}
StageGetsItsOwn(o, s) ==
  /\ UsedBase(options[o], s) = asked[o].base[s]
  /\ UsedRegisters(options[o], s) = asked[o].registers[s]
StagesAsAsked ==
  \A o \in Allocated, s \in AllStages \ Tessellation : StageGetsItsOwn(o, s)

-----------------------------------------------------------------------------
(* What headers and comments say, and the code does not do.                *)

(* shaderc.h, set_binding_base_for_stage: it only takes effect when        *)
(* compiling the given stage.                                              *)
EveryStageHasItsBase ==
  \A o \in Allocated, s \in AllStages : UsedBase(options[o], s) = asked[o].base[s]

(* shaderc.h, shaderc_assemble_into_spv: the assembling picks the options  *)
(* suitable for assembling, and the target is the one it looks at.         *)
AssembleTargetAsAsked ==
  \A o \in Allocated :
    AssembleEnv(options[o]) =
      <<GetCompilerTargetEnv(asked[o].env), GetCompilerTargetEnvVersion(asked[o].version)>>
=============================================================================
