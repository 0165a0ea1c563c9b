------------------------ MODULE CompileOptionsProofs ------------------------
(***************************************************************************)
(* Proofs about CompileOptions, for any objects, clients and values of the *)
(* options, any number of registers, and calls in any order.               *)
(***************************************************************************)
EXTENDS CompileOptions, SelectionsProofs

-----------------------------------------------------------------------------
(* What the fields say of the wishes, apart from types.                    *)

(* The passes of the last level; a strip pass is there only if debug       *)
(* information was never asked for, and its place may be taken by a null   *)
(* pass.                                                                   *)
PassesMatch(opts, wish) ==
  /\ opts.source_language = wish.language
  /\ opts.generate_debug_info = wish.debug
  /\ wish.level = "zero" => opts.enabled_opt_passes = <<>>
  /\ wish.level # "zero" /\ ~wish.debug =>
       opts.enabled_opt_passes = <<"StripDebugInfo", wish.level>>
  /\ wish.level # "zero" /\ wish.debug =>
       \/ opts.enabled_opt_passes = <<wish.level>>
       \/ opts.enabled_opt_passes = <<"NullPass", wish.level>>

(* The target as it was translated, and the SPIR-V version if it is forced. *)
TargetMatches(opts, wish) ==
  /\ opts.compiler_env = GetCompilerTargetEnv(wish.env)
  /\ opts.compiler_version = GetCompilerTargetEnvVersion(wish.version)
  /\ opts.spirv_is_forced <=> wish.spirv # "default"
  /\ opts.spirv_is_forced => opts.spirv = wish.spirv

(* Bases and registers, at the index they are written at.                  *)
StagesMatch(opts, wish) ==
  \A s \in AllStages :
    /\ opts.auto_binding_base[StageIndex[s]] = wish.base[s]
    /\ opts.hlsl_explicit_bindings[StageIndex[s]] = wish.registers[s]

Matches(opts, wish) ==
  PassesMatch(opts, wish) /\ TargetMatches(opts, wish) /\ StagesMatch(opts, wish)

IInv == TypeOK /\ \A o \in Allocated : Matches(options[o], asked[o])

-----------------------------------------------------------------------------
(* One object becomes a record that matches, the others stay.              *)
LEMMA OneObject ==
  ASSUME IInv, UNCHANGED client, NEW o \in Objects,
         NEW opts \in OptionsRecord \cup {NoObject}, NEW wish \in Wishes,
         options' = [options EXCEPT ![o] = opts], asked' = [asked EXCEPT ![o] = wish],
         opts # NoObject => Matches(opts, wish)
  PROVE  IInv'
<1>1. options \in [Objects -> OptionsRecord \cup {NoObject}] /\ asked \in [Objects -> Wishes]
  BY DEF IInv, TypeOK
<1>2. TypeOK'
  BY <1>1 DEF IInv, TypeOK
<1>3. ASSUME NEW p \in Objects, options'[p] # NoObject PROVE Matches(options'[p], asked'[p])
  <2>1. CASE p = o
    <3>1. options'[p] = opts /\ asked'[p] = wish
      BY <1>1, <2>1
    <3> QED BY <1>3, <3>1
  <2>2. CASE p # o
    <3>1. options'[p] = options[p] /\ asked'[p] = asked[p]
      BY <1>1, <2>2
    <3>2. p \in Allocated
      BY <1>3, <3>1 DEF Allocated
    <3>3. Matches(options[p], asked[p])
      BY <3>2 DEF IInv
    <3> QED BY <3>1, <3>3
  <2> QED BY <2>1, <2>2
<1> QED BY <1>2, <1>3 DEF IInv, Allocated

(* A setter keeps the invariant if what it writes matches.                 *)
LEMMA WriteKeeps ==
  ASSUME IInv, UNCHANGED client,
         NEW o \in Objects, NEW opts \in OptionsRecord, NEW wish \in Wishes,
         Write(o, opts, wish), Matches(opts, wish)
  PROVE  IInv'
BY OneObject DEF Write

(* What is known of the object that a setter is called on.                 *)
LEMMA WrittenObject ==
  ASSUME IInv, NEW o \in Objects, NEW opts, NEW wish, Write(o, opts, wish)
  PROVE  /\ options[o] \in OptionsRecord /\ asked[o] \in Wishes
         /\ PassesMatch(options[o], asked[o]) /\ TargetMatches(options[o], asked[o])
         /\ StagesMatch(options[o], asked[o])
BY DEF IInv, TypeOK, Write, Allocated, Matches

-----------------------------------------------------------------------------
(* The setters, one by one.                                                *)

LEMMA PlainStep ==
  ASSUME IInv, UNCHANGED client, NEW o \in Objects,
         NEW k \in Plain, NEW v \in PlainValues, SetPlain(o, k, v)
  PROVE  IInv'
<1> DEFINE opts == [options[o] EXCEPT !.plain[k] = v]
           wish == [asked[o] EXCEPT !.plain[k] = v]
<1>1. Write(o, opts, wish)
  BY DEF SetPlain
<1>2. options[o] \in OptionsRecord /\ asked[o] \in Wishes
  BY <1>1, WrittenObject
<1>3. opts \in OptionsRecord /\ wish \in Wishes
  <2>1. opts \in OptionsRecord
    BY <1>2 DEF OptionsRecord
  <2>2. wish \in Wishes
    BY <1>2 DEF Wishes
  <2> QED BY <2>1, <2>2
<1>4. Matches(opts, wish)
  BY <1>1, <1>2, WrittenObject
     DEF OptionsRecord, Wishes, Matches, PassesMatch, TargetMatches, StagesMatch
<1> QED BY <1>1, <1>3, <1>4, WriteKeeps

LEMMA LanguageStep ==
  ASSUME IInv, UNCHANGED client, NEW o \in Objects,
         NEW l \in Languages, SetSourceLanguage(o, l)
  PROVE  IInv'
<1> DEFINE opts == [options[o] EXCEPT !.source_language = l]
           wish == [asked[o] EXCEPT !.language = l]
<1>1. Write(o, opts, wish)
  BY DEF SetSourceLanguage
<1>2. options[o] \in OptionsRecord /\ asked[o] \in Wishes
  BY <1>1, WrittenObject
<1>3. opts \in OptionsRecord /\ wish \in Wishes
  <2>1. opts \in OptionsRecord
    BY <1>2 DEF OptionsRecord
  <2>2. wish \in Wishes
    BY <1>2 DEF Wishes
  <2> QED BY <2>1, <2>2
<1>4. Matches(opts, wish)
  BY <1>1, <1>2, WrittenObject
     DEF OptionsRecord, Wishes, Matches, PassesMatch, TargetMatches, StagesMatch
<1> QED BY <1>1, <1>3, <1>4, WriteKeeps

LEMMA TargetStep ==
  ASSUME IInv, UNCHANGED client, NEW o \in Objects,
         NEW env \in Envs, NEW v \in Versions, SetTargetEnv(o, env, v)
  PROVE  IInv'
<1> DEFINE opts == [options[o] EXCEPT !.target_env = env,
                                      !.compiler_env = GetCompilerTargetEnv(env),
                                      !.compiler_version = GetCompilerTargetEnvVersion(v)]
           wish == [asked[o] EXCEPT !.env = env, !.version = v]
<1>1. Write(o, opts, wish)
  BY DEF SetTargetEnv
<1>2. options[o] \in OptionsRecord /\ asked[o] \in Wishes
  BY <1>1, WrittenObject
<1>3. /\ GetCompilerTargetEnv(env) \in {"Vulkan", "OpenGL", "OpenGLCompat"}
      /\ GetCompilerTargetEnvVersion(v) \in (AllVersions \ {"0", "other"}) \cup {"Default"}
  BY ValueAssumption DEF GetCompilerTargetEnv, GetCompilerTargetEnvVersion
<1>4. opts \in OptionsRecord /\ wish \in Wishes
  <2>1. opts \in OptionsRecord
    BY <1>2, <1>3 DEF OptionsRecord
  <2>2. wish \in Wishes
    BY <1>2, ValueAssumption DEF Wishes
  <2> QED BY <2>1, <2>2
<1>5. Matches(opts, wish)
  BY <1>1, <1>2, WrittenObject
     DEF OptionsRecord, Wishes, Matches, PassesMatch, TargetMatches, StagesMatch
<1> QED BY <1>1, <1>4, <1>5, WriteKeeps

LEMMA SpirvStep ==
  ASSUME IInv, UNCHANGED client, NEW o \in Objects,
         NEW v \in Spirvs, SetTargetSpirv(o, v)
  PROVE  IInv'
<1> DEFINE opts == [options[o] EXCEPT !.spirv = v, !.spirv_is_forced = TRUE]
           wish == [asked[o] EXCEPT !.spirv = v]
<1>1. Write(o, opts, wish)
  BY DEF SetTargetSpirv
<1>2. options[o] \in OptionsRecord /\ asked[o] \in Wishes
  BY <1>1, WrittenObject
<1>3. opts \in OptionsRecord /\ wish \in Wishes
  <2>1. opts \in OptionsRecord
    BY <1>2 DEF OptionsRecord
  <2>2. wish \in Wishes
    BY <1>2 DEF Wishes
  <2> QED BY <2>1, <2>2
<1>4. v # "default"
  BY ValueAssumption DEF KnownSpirvs
<1>5. PassesMatch(opts, wish) /\ StagesMatch(opts, wish)
  BY <1>1, <1>2, WrittenObject DEF OptionsRecord, Wishes, PassesMatch, StagesMatch
<1>6. TargetMatches(opts, wish)
  <2>1. opts.spirv_is_forced = TRUE /\ opts.spirv = v /\ wish.spirv = v
    BY <1>2 DEF OptionsRecord, Wishes
  <2> QED BY <1>1, <1>2, <1>4, <2>1, WrittenObject DEF OptionsRecord, Wishes, TargetMatches
<1> QED BY <1>1, <1>3, <1>5, <1>6, WriteKeeps DEF Matches

LEMMA DebugStep ==
  ASSUME IInv, UNCHANGED client, NEW o \in Objects, SetGenerateDebugInfo(o)
  PROVE  IInv'
<1> DEFINE old == options[o].enabled_opt_passes
           passes == [i \in DOMAIN old |-> IF old[i] = "StripDebugInfo" THEN "NullPass" ELSE old[i]]
           opts == [options[o] EXCEPT !.generate_debug_info = TRUE, !.enabled_opt_passes = passes]
           wish == [asked[o] EXCEPT !.debug = TRUE]
<1>1. Write(o, opts, wish)
  BY DEF SetGenerateDebugInfo
<1>2. options[o] \in OptionsRecord /\ asked[o] \in Wishes
  BY <1>1, WrittenObject
<1>3. /\ asked[o].level \in Levels \cup {"zero"} /\ asked[o].debug \in BOOLEAN
      /\ asked[o].level # "StripDebugInfo"
  BY <1>2, ValueAssumption DEF Wishes
<1>4. PassesMatch(options[o], asked[o])
  BY <1>1, WrittenObject
<1>5. /\ asked[o].level = "zero" => passes = <<>>
      /\ asked[o].level # "zero" =>
           passes \in {<<asked[o].level>>, <<"NullPass", asked[o].level>>}
  <2>1. CASE asked[o].level = "zero"
    BY <1>4, <2>1 DEF PassesMatch
  <2>2. CASE asked[o].level # "zero" /\ old = <<asked[o].level>>
    BY <1>3, <2>2
  <2>3. CASE asked[o].level # "zero" /\ old = <<"NullPass", asked[o].level>>
    BY <1>3, <2>3
  <2>4. CASE asked[o].level # "zero" /\ old = <<"StripDebugInfo", asked[o].level>>
    BY <1>3, <2>4
  <2> QED BY <1>3, <1>4, <2>1, <2>2, <2>3, <2>4 DEF PassesMatch
<1>6. passes \in PassLists
  BY <1>3, <1>5 DEF PassLists
<1> HIDE DEF passes
<1>7. opts \in OptionsRecord
  BY <1>2, <1>6 DEF OptionsRecord
<1>8. wish \in Wishes
  BY <1>2 DEF Wishes
<1>9. PassesMatch(opts, wish)
  BY <1>2, <1>4, <1>5 DEF OptionsRecord, Wishes, PassesMatch
<1>10. TargetMatches(opts, wish) /\ StagesMatch(opts, wish)
  BY <1>1, <1>2, WrittenObject DEF OptionsRecord, Wishes, TargetMatches, StagesMatch
<1> QED BY <1>1, <1>7, <1>8, <1>9, <1>10, WriteKeeps DEF Matches

LEMMA LevelStep ==
  ASSUME IInv, UNCHANGED client, NEW o \in Objects,
         NEW level \in Levels, SetOptimizationLevel(o, level)
  PROVE  IInv'
<1> DEFINE passes == IF level = "zero" THEN <<>>
                     ELSE (IF options[o].generate_debug_info THEN <<>> ELSE <<"StripDebugInfo">>)
                            \o <<level>>
           opts == [options[o] EXCEPT !.enabled_opt_passes = passes]
           wish == [asked[o] EXCEPT !.level = level]
<1>1. Write(o, opts, wish)
  BY DEF SetOptimizationLevel
<1>2. options[o] \in OptionsRecord /\ asked[o] \in Wishes
  BY <1>1, WrittenObject
<1>3. options[o].generate_debug_info \in BOOLEAN
  BY <1>2 DEF OptionsRecord
<1>4. passes = IF level = "zero" THEN <<>>
               ELSE IF options[o].generate_debug_info THEN <<level>>
               ELSE <<"StripDebugInfo", level>>
  <2>1. <<>> \o <<level>> = <<level>>
    OBVIOUS
  <2>2. <<"StripDebugInfo">> \o <<level>> = <<"StripDebugInfo", level>>
    BY Joined
  <2>3. CASE level = "zero"
    BY <2>3
  <2>4. CASE level # "zero" /\ options[o].generate_debug_info
    BY <2>1, <2>4
  <2>5. CASE level # "zero" /\ ~options[o].generate_debug_info
    BY <2>2, <2>5
  <2> QED BY <1>3, <2>3, <2>4, <2>5
<1>5. passes \in PassLists
  BY <1>4 DEF PassLists
<1> HIDE DEF passes
<1>6. opts \in OptionsRecord
  BY <1>2, <1>5 DEF OptionsRecord
<1>7. wish \in Wishes
  BY <1>2 DEF Wishes
<1>8. PassesMatch(opts, wish)
  BY <1>1, <1>2, <1>4, WrittenObject DEF OptionsRecord, Wishes, PassesMatch
<1>9. TargetMatches(opts, wish) /\ StagesMatch(opts, wish)
  BY <1>1, <1>2, WrittenObject DEF OptionsRecord, Wishes, TargetMatches, StagesMatch
<1> QED BY <1>1, <1>6, <1>7, <1>8, <1>9, WriteKeeps DEF Matches

(* Each stage is written at an index of its own.                           *)
LEMMA StageIndices ==
  /\ \A s \in AllStages : StageIndex[s] \in Indices /\ LanguageIndex[s] \in Indices
  /\ \A s, t \in AllStages : StageIndex[s] = StageIndex[t] => s = t
  /\ \A s \in AllStages \ Tessellation : LanguageIndex[s] = StageIndex[s]
BY DEF AllStages, Tessellation, StageIndex, LanguageIndex, Indices

LEMMA BaseStep ==
  ASSUME IInv, UNCHANGED client, NEW o \in Objects, NEW b \in Bases, SetBindingBase(o, b)
  PROVE  IInv'
<1> DEFINE opts == [options[o] EXCEPT !.auto_binding_base = [i \in Indices |-> b]]
           wish == [asked[o] EXCEPT !.base = [s \in AllStages |-> b]]
<1>1. Write(o, opts, wish)
  BY DEF SetBindingBase
<1>2. options[o] \in OptionsRecord /\ asked[o] \in Wishes
  BY <1>1, WrittenObject
<1>3. opts \in OptionsRecord
  BY <1>2 DEF OptionsRecord
<1>4. wish \in Wishes
  BY <1>2 DEF Wishes
<1>5. PassesMatch(opts, wish) /\ TargetMatches(opts, wish)
  BY <1>1, <1>2, WrittenObject DEF OptionsRecord, Wishes, PassesMatch, TargetMatches
<1>6. StagesMatch(opts, wish)
  BY <1>1, <1>2, StageIndices, WrittenObject DEF OptionsRecord, Wishes, StagesMatch
<1> QED BY <1>1, <1>3, <1>4, <1>5, <1>6, WriteKeeps DEF Matches

LEMMA BaseForStageStep ==
  ASSUME IInv, UNCHANGED client, NEW o \in Objects, NEW b \in Bases, NEW s \in Stages,
         SetBindingBaseForStage(o, s, b)
  PROVE  IInv'
<1> DEFINE opts == [options[o] EXCEPT !.auto_binding_base[StageIndex[s]] = b]
           wish == [asked[o] EXCEPT !.base[s] = b]
<1>1. Write(o, opts, wish)
  BY DEF SetBindingBaseForStage
<1>2. options[o] \in OptionsRecord /\ asked[o] \in Wishes
  BY <1>1, WrittenObject
<1>3. s \in AllStages /\ StageIndex[s] \in Indices
  BY ValueAssumption, StageIndices
<1>4. opts \in OptionsRecord
  BY <1>2, <1>3 DEF OptionsRecord
<1>5. wish \in Wishes
  BY <1>2, <1>3 DEF Wishes
<1>6. PassesMatch(opts, wish) /\ TargetMatches(opts, wish)
  BY <1>1, <1>2, WrittenObject DEF OptionsRecord, Wishes, PassesMatch, TargetMatches
<1>7. StagesMatch(opts, wish)
  BY <1>1, <1>2, <1>3, StageIndices, WrittenObject DEF OptionsRecord, Wishes, StagesMatch
<1> QED BY <1>1, <1>4, <1>5, <1>6, <1>7, WriteKeeps DEF Matches

(* Appending to each sequence of a function of sequences.                  *)
LEMMA AppendEverywhere ==
  ASSUME NEW D, NEW R, NEW r \in R, NEW f \in [D -> Seq(R)]
  PROVE  [d \in D |-> Append(f[d], r)] \in [D -> Seq(R)]
OBVIOUS

LEMMA AppendSomewhere ==
  ASSUME NEW D, NEW R, NEW r \in R, NEW f \in [D -> Seq(R)], NEW d \in D
  PROVE  [f EXCEPT ![d] = Append(f[d], r)] \in [D -> Seq(R)]
OBVIOUS

LEMMA RegisterStep ==
  ASSUME IInv, UNCHANGED client, NEW o \in Objects, NEW r \in Registers, SetHlslRegister(o, r)
  PROVE  IInv'
<1> DEFINE regs == [i \in Indices |-> Append(options[o].hlsl_explicit_bindings[i], r)]
           wanted == [s \in AllStages |-> Append(asked[o].registers[s], r)]
           opts == [options[o] EXCEPT !.hlsl_explicit_bindings = regs]
           wish == [asked[o] EXCEPT !.registers = wanted]
<1>1. Write(o, opts, wish)
  BY DEF SetHlslRegister
<1>2. options[o] \in OptionsRecord /\ asked[o] \in Wishes
  BY <1>1, WrittenObject
<1>3. /\ options[o].hlsl_explicit_bindings \in [Indices -> Seq(Registers)]
      /\ asked[o].registers \in [AllStages -> Seq(Registers)]
  BY <1>2 DEF OptionsRecord, Wishes
<1>4. regs \in [Indices -> Seq(Registers)] /\ wanted \in [AllStages -> Seq(Registers)]
  BY <1>3, AppendEverywhere
<1>5. \A s \in AllStages : regs[StageIndex[s]] = wanted[s]
  BY <1>1, StageIndices, WrittenObject DEF StagesMatch
<1> HIDE DEF regs, wanted
<1>6. opts \in OptionsRecord
  BY <1>2, <1>4 DEF OptionsRecord
<1>7. wish \in Wishes
  BY <1>2, <1>4 DEF Wishes
<1>8. PassesMatch(opts, wish) /\ TargetMatches(opts, wish)
  BY <1>1, <1>2, WrittenObject DEF OptionsRecord, Wishes, PassesMatch, TargetMatches
<1>9. StagesMatch(opts, wish)
  BY <1>1, <1>2, <1>5, WrittenObject DEF OptionsRecord, Wishes, StagesMatch
<1> QED BY <1>1, <1>6, <1>7, <1>8, <1>9, WriteKeeps DEF Matches

LEMMA RegisterForStageStep ==
  ASSUME IInv, UNCHANGED client, NEW o \in Objects, NEW r \in Registers, NEW s \in Stages,
         SetHlslRegisterForStage(o, s, r)
  PROVE  IInv'
<1> DEFINE old == options[o].hlsl_explicit_bindings
           meant == asked[o].registers
           regs == [old EXCEPT ![StageIndex[s]] = Append(old[StageIndex[s]], r)]
           wanted == [meant EXCEPT ![s] = Append(meant[s], r)]
           opts == [options[o] EXCEPT !.hlsl_explicit_bindings = regs]
           wish == [asked[o] EXCEPT !.registers = wanted]
<1>1. Write(o, opts, wish)
  BY DEF SetHlslRegisterForStage
<1>2. options[o] \in OptionsRecord /\ asked[o] \in Wishes
  BY <1>1, WrittenObject
<1>3. s \in AllStages /\ StageIndex[s] \in Indices
  BY ValueAssumption, StageIndices
<1>4. old \in [Indices -> Seq(Registers)] /\ meant \in [AllStages -> Seq(Registers)]
  BY <1>2 DEF OptionsRecord, Wishes
<1>5. regs \in [Indices -> Seq(Registers)] /\ wanted \in [AllStages -> Seq(Registers)]
  BY <1>3, <1>4, AppendSomewhere
<1>6. \A t \in AllStages : old[StageIndex[t]] = meant[t]
  BY <1>1, WrittenObject DEF StagesMatch
<1>7. \A t \in AllStages : regs[StageIndex[t]] = wanted[t]
  BY <1>3, <1>4, <1>6, StageIndices
<1> HIDE DEF regs, wanted
<1>8. opts \in OptionsRecord
  BY <1>2, <1>5 DEF OptionsRecord
<1>9. wish \in Wishes
  BY <1>2, <1>5 DEF Wishes
<1>10. PassesMatch(opts, wish) /\ TargetMatches(opts, wish)
  BY <1>1, <1>2, WrittenObject DEF OptionsRecord, Wishes, PassesMatch, TargetMatches
<1>11. StagesMatch(opts, wish)
  BY <1>1, <1>2, <1>7, WrittenObject DEF OptionsRecord, Wishes, StagesMatch
<1> QED BY <1>1, <1>8, <1>9, <1>10, <1>11, WriteKeeps DEF Matches

-----------------------------------------------------------------------------
(* The life of an object, and every step.                                  *)

LEMMA DefaultsMatch ==
  /\ Defaults \in OptionsRecord /\ NothingAsked \in Wishes
  /\ Matches(Defaults, NothingAsked)
<1>1. <<>> \in Seq(Registers) /\ <<>> \in PassLists
  BY DEF PassLists
<1>2. Defaults \in OptionsRecord
  BY <1>1 DEF Defaults, OptionsRecord, AllVersions
<1>3. NothingAsked \in Wishes
  BY <1>1 DEF NothingAsked, Wishes
<1>4. PassesMatch(Defaults, NothingAsked)
  BY DEF Defaults, NothingAsked, PassesMatch
<1>5. TargetMatches(Defaults, NothingAsked)
  BY DEF Defaults, NothingAsked, TargetMatches, GetCompilerTargetEnv, GetCompilerTargetEnvVersion
<1>6. StagesMatch(Defaults, NothingAsked)
  BY StageIndices DEF Defaults, NothingAsked, StagesMatch
<1> QED BY <1>2, <1>3, <1>4, <1>5, <1>6 DEF Matches

LEMMA LifeStep ==
  ASSUME IInv, UNCHANGED client, NEW o \in Objects, NEW p \in Objects,
         Initialize(o) \/ Release(o) \/ Clone(o, p)
  PROVE  IInv'
<1>1. CASE Initialize(o)
  BY <1>1, DefaultsMatch, OneObject DEF Initialize
<1>2. CASE Release(o)
  BY <1>2, DefaultsMatch, OneObject DEF Release
<1>3. CASE Clone(o, p)
  <2>1. options[o] \in OptionsRecord /\ asked[o] \in Wishes /\ Matches(options[o], asked[o])
    BY <1>3 DEF Clone, IInv, TypeOK, Allocated
  <2> QED BY <1>3, <2>1, OneObject DEF Clone
<1> QED BY <1>1, <1>2, <1>3

LEMMA InitIInv == Init => IInv
<1> SUFFICES ASSUME Init PROVE IInv
  OBVIOUS
<1>1. TypeOK
  BY DefaultsMatch DEF Init, TypeOK
<1>2. Allocated = {}
  BY DEF Init, Allocated
<1> QED BY <1>1, <1>2 DEF IInv

LEMMA SetStep ==
  ASSUME IInv, UNCHANGED client, NEW o \in Objects, Set(o)
  PROVE  IInv'
BY PlainStep, LanguageStep, TargetStep, SpirvStep, DebugStep, LevelStep, BaseStep,
   BaseForStageStep, RegisterStep, RegisterForStageStep, Zenon DEF Set

LEMMA NextIInv == IInv /\ [Next]_vars => IInv'
<1> SUFFICES ASSUME IInv, [Next]_vars PROVE IInv'
  OBVIOUS
<1>1. CASE Next
  BY <1>1, SetStep, LifeStep, Zenon DEF Next
<1>2. CASE UNCHANGED vars
  BY <1>2 DEF vars, IInv, TypeOK, Allocated
<1> QED BY <1>1, <1>2

(* IInv holds in every state, through every setter, clone and release.     *)
THEOREM Invariance == Spec => []IInv
BY InitIInv, NextIInv, PTL DEF Spec

-----------------------------------------------------------------------------
(* What a compilation makes of an object that matches.                     *)

LEMMA PassesThatRun ==
  ASSUME NEW opts \in OptionsRecord, NEW wish \in Wishes, PassesMatch(opts, wish)
  PROVE  OptPasses(opts) =
           (IF wish.language = "HLSL" THEN <<"Legalization">> ELSE <<>>)
             \o (IF wish.level = "zero" THEN <<>>
                 ELSE IF wish.debug THEN <<wish.level>>
                 ELSE <<"StripDebugInfo", wish.level>>)
<1> DEFINE K == {"StripDebugInfo"} \cup Levels
           passes == opts.enabled_opt_passes
<1>1. /\ wish.level \in Levels \cup {"zero"} /\ wish.debug \in BOOLEAN
      /\ "StripDebugInfo" \in K /\ "NullPass" \notin K
      /\ wish.level # "zero" => wish.level \in K
  BY ValueAssumption DEF Wishes
<1>2. opts.source_language = wish.language
  BY DEF PassesMatch
<1>3. /\ wish.level = "zero" => passes = <<>>
      /\ wish.level # "zero" /\ ~wish.debug => passes = <<"StripDebugInfo", wish.level>>
      /\ wish.level # "zero" /\ wish.debug =>
           passes = <<wish.level>> \/ passes = <<"NullPass", wish.level>>
  BY DEF PassesMatch
<1> HIDE DEF K, passes
<1>4. CASE wish.level = "zero"
  <2>1. Select(passes, K) = <<>>
    BY <1>3, <1>4, SelectFromNone
  <2> QED BY <1>2, <1>4, <2>1 DEF OptPasses, K, passes
<1>5. CASE wish.level # "zero" /\ ~wish.debug
  <2>1. Len(passes) = 2 /\ passes[1] = "StripDebugInfo" /\ passes[2] = wish.level
    BY <1>3, <1>5
  <2>2. Select(passes, K) = <<"StripDebugInfo", wish.level>>
    BY <1>1, <1>5, <2>1, SelectFromTwo
  <2> QED BY <1>2, <1>5, <2>2 DEF OptPasses, K, passes
<1>6. CASE wish.level # "zero" /\ wish.debug /\ passes = <<wish.level>>
  <2>1. Len(passes) = 1 /\ passes[1] = wish.level
    BY <1>6
  <2>2. Select(passes, K) = <<wish.level>>
    BY <1>1, <1>6, <2>1, SelectFromOne
  <2> QED BY <1>2, <1>6, <2>2 DEF OptPasses, K, passes
<1>7. CASE wish.level # "zero" /\ wish.debug /\ passes = <<"NullPass", wish.level>>
  <2>1. Len(passes) = 2 /\ passes[1] = "NullPass" /\ passes[2] = wish.level
    BY <1>7
  <2>2. Select(passes, K) = <<wish.level>>
    BY <1>1, <1>7, <2>1, SelectFromTwo
  <2> QED BY <1>2, <1>7, <2>2 DEF OptPasses, K, passes
<1> QED BY <1>1, <1>3, <1>4, <1>5, <1>6, <1>7

LEMMA IInvPasses == IInv => PassesAsAsked
<1> SUFFICES ASSUME IInv, NEW o \in Allocated
             PROVE  PassesAsAsked!(o)
  BY DEF PassesAsAsked
<1>1. options[o] \in OptionsRecord /\ asked[o] \in Wishes /\ PassesMatch(options[o], asked[o])
  BY DEF IInv, TypeOK, Allocated, Matches
<1> QED BY <1>1, PassesThatRun

LEMMA IInvSpirv == IInv => SpirvAsAsked
<1> SUFFICES ASSUME IInv, NEW o \in Allocated
             PROVE  SpirvAsAsked!(o)
  BY DEF SpirvAsAsked
<1> DEFINE opts == options[o]
           wish == asked[o]
<1>1. opts \in OptionsRecord /\ wish \in Wishes /\ TargetMatches(opts, wish)
  BY DEF IInv, TypeOK, Allocated, Matches
<1>2. /\ wish.env \in {"vulkan", "opengl", "opengl_compat", "webgpu"}
      /\ wish.version \in AllVersions /\ opts.spirv_is_forced \in BOOLEAN
  BY <1>1, ValueAssumption DEF OptionsRecord, Wishes, AllVersions
<1>3. /\ opts.compiler_env = GetCompilerTargetEnv(wish.env)
      /\ opts.compiler_version = GetCompilerTargetEnvVersion(wish.version)
      /\ opts.spirv_is_forced <=> wish.spirv # "default"
      /\ opts.spirv_is_forced => opts.spirv = wish.spirv
  BY <1>1 DEF TargetMatches
<1> HIDE DEF opts, wish
<1>4. GetGlslangClientInfo(opts).spirv =
        IF wish.spirv # "default" THEN wish.spirv
        ELSE IF ~GetGlslangClientInfo(opts).error /\ opts.compiler_env = "Vulkan"
             THEN VulkanSpirv[opts.compiler_version] ELSE "1.0"
  BY <1>2, <1>3 DEF GetGlslangClientInfo
<1>5. wish.spirv = "other" => GetGlslangClientInfo(opts).error
  BY <1>3 DEF GetGlslangClientInfo, KnownSpirvs
<1>6. CASE wish.env \in {"vulkan", "webgpu"} /\ ~GetGlslangClientInfo(opts).error
  <2>1. opts.compiler_env = "Vulkan"
    BY <1>3, <1>6 DEF GetCompilerTargetEnv
  <2>2. opts.compiler_version \in DOMAIN VulkanSpirv
    BY <1>6, <2>1 DEF GetGlslangClientInfo
  <2>3. VulkanSpirv[opts.compiler_version] =
          CASE wish.version = "vulkan_1_1" -> "1.3" [] wish.version = "vulkan_1_2" -> "1.5"
            [] wish.version \in {"vulkan_1_3", "vulkan_1_4"} -> "1.6" [] OTHER -> "1.0"
    BY <1>2, <1>3, <2>2 DEF GetCompilerTargetEnvVersion, VulkanSpirv, AllVersions
  <2> QED BY <1>2, <1>4, <1>5, <1>6, <2>1, <2>3 DEF opts, wish
<1>7. CASE wish.env \notin {"vulkan", "webgpu"}
  <2>1. opts.compiler_env # "Vulkan"
    BY <1>2, <1>3, <1>7 DEF GetCompilerTargetEnv
  <2> QED BY <1>2, <1>4, <1>5, <1>7, <2>1 DEF opts, wish
<1> QED BY <1>6, <1>7 DEF opts

LEMMA IInvTools == IInv => ToolsAgree
<1> SUFFICES ASSUME IInv, NEW o \in Allocated, ~GetGlslangClientInfo(options[o]).error
             PROVE  GetSpirvToolsTargetEnv(OptimizeEnv(options[o])[1], OptimizeEnv(options[o])[2])
                      = GetGlslangClientInfo(options[o]).client_version
  BY DEF ToolsAgree
<1> DEFINE env == options[o].compiler_env
           v == options[o].compiler_version
<1>1. OptimizeEnv(options[o])[1] = env /\ OptimizeEnv(options[o])[2] = v
  BY DEF OptimizeEnv
<1>2. GetGlslangClientInfo(options[o]).client_version =
        IF v # "Default" THEN v ELSE IF env = "Vulkan" THEN "vulkan_1_0" ELSE "opengl_4_5"
  BY DEF GetGlslangClientInfo
<1>3. \/ env = "Vulkan" /\ v \in DOMAIN VulkanSpirv
      \/ env = "OpenGL" /\ v \in {"Default", "opengl_4_5"}
  BY DEF GetGlslangClientInfo
<1> HIDE DEF env, v
<1>4. GetSpirvToolsTargetEnv(env, v) =
        IF v # "Default" THEN v ELSE IF env = "Vulkan" THEN "vulkan_1_0" ELSE "opengl_4_5"
  <2>1. CASE env = "Vulkan" /\ v \in DOMAIN VulkanSpirv
    BY <2>1 DEF GetSpirvToolsTargetEnv
  <2>2. CASE env = "OpenGL" /\ v \in {"Default", "opengl_4_5"}
    BY <2>2 DEF GetSpirvToolsTargetEnv
  <2> QED BY <1>3, <2>1, <2>2
<1> QED BY <1>1, <1>2, <1>4

LEMMA IInvStages == IInv => StagesAsAsked
<1> SUFFICES ASSUME IInv, NEW o \in Allocated, NEW s \in AllStages \ Tessellation
             PROVE  StageGetsItsOwn(o, s)
  BY DEF StagesAsAsked
<1>1. StagesMatch(options[o], asked[o])
  BY DEF IInv, Matches
<1>2. LanguageIndex[s] = StageIndex[s]
  BY StageIndices
<1> QED BY <1>1, <1>2 DEF StagesMatch, StageGetsItsOwn, UsedBase, UsedRegisters

-----------------------------------------------------------------------------
(* The theorems.                                                           *)

(* Type correctness of the options objects and of the history: whatever    *)
(* is called, the pass list keeps one of its three shapes.                 *)
THEOREM TypeCorrect == Spec => []TypeOK
BY Invariance, PTL DEF IInv

(* SetGenerateDebugInfo and SetOptimizationLevel may be called in any      *)
(* order and any number of times, on originals and clones: the passes are  *)
(* those of the last level and of whether debug information was asked for. *)
THEOREM PassesFollowTheWishes == Spec => []PassesAsAsked
BY Invariance, IInvPasses, PTL

(* The SPIR-V version given to glslang does not depend on which of         *)
(* SetTargetSpirv and SetTargetEnv came last, and one that is not known is *)
(* an error.                                                               *)
THEOREM SpirvFollowsTheWishes == Spec => []SpirvAsAsked
BY Invariance, IInvSpirv, PTL

(* A target accepted by GetGlslangClientInfo is one that                   *)
(* GetSpirvToolsTargetEnv translates, to the same environment.             *)
THEOREM ToolsWorkForTheSame == Spec => []ToolsAgree
BY Invariance, IInvTools, PTL

(* Outside tessellation the binding base and the registers of a stage are  *)
(* those last asked for, for any number of registers.                      *)
THEOREM StagesFollowTheWishes == Spec => []StagesAsAsked
BY Invariance, IInvStages, PTL
=============================================================================
