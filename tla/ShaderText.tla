----------------------------- MODULE ShaderText -----------------------------
(***************************************************************************)
(* What happens to the text of a shader between glslang's preprocessor and *)
(* the stage deduction (compiler.cc): CleanupPreamble takes the injected   *)
(* preamble out and moves #version to the top, and the scan of             *)
(* GetShaderStageFromSourceCode collects the #pragma shader_stage lines    *)
(* with the file and line they are reported at.  Both depend on what #line *)
(* means, which glslang decides by language, version and profile, and the  *)
(* code by the version it deduces from the text.                           *)
(*                                                                         *)
(* A line is a record, see Lines; glslang is outside and hands over the    *)
(* preamble's blank lines, the injected #extension, and the user's lines.  *)
(***************************************************************************)
EXTENDS Integers, SequencesExt, Selections

CONSTANTS Names,     \* file names in #line directives
          Main,      \* error_tag, the name of the main file
          NoName,    \* a #line directive without a name
          Numbers,   \* line numbers in #line directives
          Stages,    \* stage names that MapStageNameToLanguage knows
          BadStage,  \* a stage name it does not know
          Versions,  \* the <<version, profile>> pairs in use, accepted by glslang
          Others,    \* pairs it accepts in a #version line that is overruled only
          MaxLines,  \* bound: user lines
          MaxMacros  \* bound: predefined macros

ASSUME NameAssumption == NoName \notin Names \cup {Main}
ASSUME StageAssumption == BadStage \notin Stages

KnownVersions == {100, 110, 120, 130, 140, 150, 300, 310, 320, 330,
                  400, 410, 420, 430, 440, 450, 460}
Profiles == {"none", "core", "es", "compatibility"}

(* What glslang compiles to SPIR-V: others are refused.                    *)
GlslangVersions ==
  ({310, 320} \X {"es"}) \cup {<<140, "none">>}
    \cup ({n \in KnownVersions : n = 150 \/ n >= 330} \X {"none", "core", "compatibility"})

ASSUME VersionAssumption ==
  /\ Versions \subseteq GlslangVersions
  /\ Others \subseteq (Nat \ {0}) \X Profiles
ASSUME BoundAssumption == Numbers \subseteq Nat /\ MaxLines \in Nat /\ MaxMacros \in Nat

VARIABLES
  pc,       \* "preprocess", "cleanup", "scan", "judge", "done"
  language, \* source_language_
  forced,   \* the forced <<version, profile>>, or NoVersion: not forced
  macros,   \* number of predefined macros
  included, \* num_include_directives > 0
  user,     \* the user's lines, as glslang prints them
  text,     \* preprocessed_shader
  scan,     \* the local variables of the scan
  errors,   \* the errors reported: <<what, file, line>>
  stage     \* the stage that is returned, or BadStage

request == <<language, forced, macros, included>>
vars == <<pc, request, user, text, scan, errors, stage>>

(* (0, ENoProfile).                                                        *)
NoVersion == <<0, "none">>

Line(kind, arg, name) == [kind |-> kind, arg |-> arg, name |-> name]
Blank == Line("blank", 0, NoName)
PoundExtension == Line("extension", 0, NoName)
IsBlank(l) == l.kind = "blank"

(* Lines of the user; #version may stand behind blank lines only.          *)
Lines ==
  {Blank, PoundExtension, Line("code", 0, NoName), Line("directive", 0, NoName)}
    \cup {Line("pragma", s, NoName) : s \in Stages \cup {BadStage}}
    \cup {Line("line", n, f) : n \in Numbers, f \in Names \cup {Main, NoName}}
    \cup {Line("version", v, NoName) : v \in Versions \cup Others}

Init ==
  /\ pc = "preprocess"
  /\ language \in {"glsl", "hlsl"}
  /\ forced \in Versions \cup {NoVersion}
  /\ macros \in 0 .. MaxMacros
  /\ included \in BOOLEAN
  /\ user = <<>> /\ text = <<>>
  /\ scan = [i |-> 0, logical_line_no |-> 1, filename |-> Main, stages |-> <<>>,
             first_pragma |-> 0, first_non_pp |-> 0]
  /\ errors = <<>>
  /\ stage = BadStage

-----------------------------------------------------------------------------
(* Versions.                                                               *)

DefaultVersion == <<110, "none">>

(* The first #version, 0 for none.                                         *)
VersionIndex(t) == SelectInSeq(t, LAMBDA l : l.kind = "version")

ParseVersionProfile(v) ==
  IF v[1] \in KnownVersions /\ v[2] \in Profiles THEN v ELSE NoVersion

GetVersionProfileFromSourceCode(t) ==
  IF VersionIndex(t) = 0 THEN NoVersion ELSE ParseVersionProfile(t[VersionIndex(t)].arg)

DeduceVersionProfile(t) ==
  IF forced # NoVersion THEN forced
  ELSE IF GetVersionProfileFromSourceCode(t) = NoVersion THEN DefaultVersion
  ELSE GetVersionProfileFromSourceCode(t)

LineDirectiveIsForNextLine(v) == v[2] = "es" \/ v[1] >= 330
IsForNextLine(t) == LineDirectiveIsForNextLine(DeduceVersionProfile(t))

(* What glslang makes of the same text: HLSL has one meaning of #line, and *)
(* is read as version 500; GLSL for SPIR-V has no version by default.      *)
VersionInGlslang(t) ==
  IF language = "hlsl" THEN <<500, "core">>
  ELSE IF forced # NoVersion THEN forced
  ELSE t[VersionIndex(t)].arg

LineDirectiveShouldSetNextLine(t) ==
  \/ language = "hlsl"
  \/ VersionInGlslang(t)[2] = "es" \/ VersionInGlslang(t)[1] >= 330

-----------------------------------------------------------------------------
(* The preprocessed text.                                                  *)

(* glslang prints one line after the other; HLSL knows no #version.        *)
PrintLine(l) ==
  /\ pc = "preprocess" /\ Len(user) < MaxLines
  /\ l.kind = "version" => language = "glsl" /\ \A i \in DOMAIN user : IsBlank(user[i])
  /\ user' = Append(user, l)
  /\ UNCHANGED <<pc, request, text, scan, errors, stage>>

(* The texts that glslang does not refuse: the default version is too old  *)
(* for SPIR-V, and #version comes first in an ES shader.                   *)
Accepted ==
  \/ language = "hlsl"
  \/ /\ forced = NoVersion =>
          VersionIndex(user) # 0 /\ user[VersionIndex(user)].arg \in Versions
     /\ VersionInGlslang(user)[2] = "es" => VersionIndex(user) <= 1

(* Each #define of the preamble leaves a blank line.                       *)
Preprocessed ==
  /\ pc = "preprocess" /\ Accepted
  /\ text' = [i \in 1 .. macros |-> Blank] \o <<PoundExtension>> \o user
  /\ pc' = "cleanup"
  /\ UNCHANGED <<request, user, scan, errors, stage>>

GetLineDirective(is_for_next_line, filename) ==
  Line("line", IF is_for_next_line THEN 1 ELSE 0, filename)

(* The injected #extension: the first one.                                 *)
ExtensionIndex(t) == SelectInSeq(t, LAMBDA l : l = PoundExtension)

NonBlank(t) == {l \in ToSet(t) : ~IsBlank(l)}

(* Mutant of Cleaned: the old place of #version is closed up.              *)
CleanedShort(t) ==
  LET extension == ExtensionIndex(t)
      version == VersionIndex(t)
      before == Select(SubSeq(t, 1, extension - 1), NonBlank(t))
      rest == SubSeq(t, extension + 1, Len(t))
  IN  IF included
      THEN (IF version = 0 THEN <<>> ELSE <<t[version]>>)
             \o before \o <<PoundExtension, GetLineDirective(IsForNextLine(t), Main)>>
             \o SelectSeq(rest, LAMBDA l : l.kind # "version")
      ELSE before \o rest

(* CleanupPreamble.  With includes, #version goes to the top, its place    *)
(* stays blank, and a #line starts the main file; without, the injected    *)
(* line is dropped.                                                        *)
Cleaned(t) ==
  LET extension == ExtensionIndex(t)
      version == VersionIndex(t)
      before == Select(SubSeq(t, 1, extension - 1), NonBlank(t))
      rest == SubSeq(t, extension + 1, Len(t))
  IN  IF included
      THEN (IF version = 0 THEN <<>> ELSE <<t[version]>>)
             \o before \o <<PoundExtension, GetLineDirective(IsForNextLine(t), Main)>>
             \o [i \in DOMAIN rest |-> IF extension + i = version THEN Blank ELSE rest[i]]
      ELSE before \o rest

CleanupPreamble ==
  /\ pc = "cleanup"
  /\ text' = Cleaned(text)
  /\ pc' = "scan"
  /\ UNCHANGED <<request, user, scan, errors, stage>>

-----------------------------------------------------------------------------
(* GetShaderStageFromSourceCode.  first_pragma and first_non_pp are        *)
(* physical lines, 0 for none (one past the end in the code).              *)

(* Mutant of NextLogicalLine: #line sets the number of the next line.      *)
NextLogicalLineModern(l) ==
  IF l.kind = "line" THEN l.arg ELSE scan.logical_line_no + 1

(* Mutant of NextLogicalLine: the correction has the wrong sign.           *)
NextLogicalLineBack(l) ==
  IF l.kind = "line"
  THEN l.arg - (IF IsForNextLine(text) THEN 1 ELSE 0)
  ELSE scan.logical_line_no + 1

(* The number of the line after l.                                         *)
NextLogicalLine(l) ==
  IF l.kind = "line"
  THEN l.arg + (IF IsForNextLine(text) THEN 0 ELSE 1)
  ELSE scan.logical_line_no + 1

(* Mutant of ScanLine: the last line of code counts, not the first.        *)
ScanLineLast(i) ==
  /\ pc = "scan" /\ i = scan.i + 1 /\ i <= Len(text)
  /\ scan' = [i |-> i,
              logical_line_no |-> NextLogicalLine(text[i]),
              filename |-> IF text[i].kind = "line" /\ text[i].name # NoName
                           THEN text[i].name ELSE scan.filename,
              stages |-> IF text[i].kind = "pragma"
                         THEN Append(scan.stages, <<scan.filename, scan.logical_line_no, text[i].arg>>)
                         ELSE scan.stages,
              first_pragma |-> IF text[i].kind = "pragma" /\ scan.first_pragma = 0
                               THEN i ELSE scan.first_pragma,
              first_non_pp |-> IF text[i].kind = "code" THEN i ELSE scan.first_non_pp]
  /\ UNCHANGED <<pc, request, user, text, errors, stage>>

ScanLine(i) ==
  /\ pc = "scan" /\ i = scan.i + 1 /\ i <= Len(text)
  /\ scan' = [i |-> i,
              logical_line_no |-> NextLogicalLine(text[i]),
              filename |-> IF text[i].kind = "line" /\ text[i].name # NoName
                           THEN text[i].name ELSE scan.filename,
              stages |-> IF text[i].kind = "pragma"
                         THEN Append(scan.stages, <<scan.filename, scan.logical_line_no, text[i].arg>>)
                         ELSE scan.stages,
              first_pragma |-> IF text[i].kind = "pragma" /\ scan.first_pragma = 0
                               THEN i ELSE scan.first_pragma,
              first_non_pp |-> IF text[i].kind = "code" /\ scan.first_non_pp = 0
                               THEN i ELSE scan.first_non_pp]
  /\ UNCHANGED <<pc, request, user, text, errors, stage>>

EndOfText ==
  /\ pc = "scan" /\ scan.i = Len(text)
  /\ pc' = "judge"
  /\ UNCHANGED <<request, user, text, scan, errors, stage>>

(* The first pragma must stand before any code and name a stage; the       *)
(* others must name the same.                                              *)
StageErrors ==
  LET first == scan.stages[1]
      At(what, p) == <<what, p[1], p[2]>>
      conflicts == Select(scan.stages, {p \in ToSet(scan.stages) : p[3] # first[3]})
  IN  IF scan.stages = <<>> THEN <<>>
      ELSE (IF scan.first_non_pp # 0 /\ scan.first_pragma > scan.first_non_pp
            THEN <<At("late", first)>> ELSE <<>>)
             \o (IF first[3] \notin Stages THEN <<At("invalid", first)>> ELSE <<>>)
             \o [i \in DOMAIN conflicts |-> At("conflict", conflicts[i])]

Judge ==
  /\ pc = "judge"
  /\ errors' = StageErrors
  /\ stage' = IF scan.stages = <<>> \/ StageErrors # <<>> THEN BadStage
              ELSE scan.stages[1][3]
  /\ pc' = "done"
  /\ UNCHANGED <<request, user, text, scan>>

Next ==
  \/ \E l \in Lines : PrintLine(l)
  \/ Preprocessed \/ CleanupPreamble
  \/ \E i \in 1 .. Len(text) : ScanLine(i)
  \/ EndOfText \/ Judge

Spec == Init /\ [][Next]_vars

-----------------------------------------------------------------------------
(* Properties.                                                             *)

Files == Names \cup {Main}
AnyLines == Lines \cup {Line("line", n, Main) : n \in {0, 1}}

TypeOK ==
  /\ pc \in {"preprocess", "cleanup", "scan", "judge", "done"}
  /\ language \in {"glsl", "hlsl"}
  /\ forced \in Versions \cup {NoVersion} /\ macros \in 0 .. MaxMacros /\ included \in BOOLEAN
  /\ user \in Seq(Lines)
  /\ text \in Seq(AnyLines)
  /\ scan.i \in 0 .. Len(text) /\ scan.logical_line_no \in Nat /\ scan.filename \in Files
  /\ scan.stages \in Seq(Files \X Nat \X (Stages \cup {BadStage}))
  /\ scan.first_pragma \in 0 .. scan.i /\ scan.first_non_pp \in 0 .. scan.i
  /\ errors \in Seq({"late", "invalid", "conflict"} \X Files \X Nat)
  /\ stage \in Stages \cup {BadStage}

(* Where glslang takes line i of t to be: the file of the last #line with  *)
(* a name before it, and the line counted from the last #line.             *)
Directives(t, i) == {j \in 1 .. i - 1 : t[j].kind = "line"}
Named(t, i) == {j \in Directives(t, i) : t[j].name # NoName}
FileAt(t, i) == IF Named(t, i) = {} THEN Main ELSE t[Max(Named(t, i))].name
LineAt(t, i, sets_next_line) ==
  IF Directives(t, i) = {} THEN i
  ELSE t[Max(Directives(t, i))].arg + (i - Max(Directives(t, i)))
         - (IF sets_next_line THEN 1 ELSE 0)
Position(t, i) == <<FileAt(t, i), LineAt(t, i, LineDirectiveShouldSetNextLine(t))>>

PositionsKept ==
  LET offset == Len(text) - Len(user)
  IN  \A i \in DOMAIN user : Position(text, offset + i) = Position(user, i)

(* HLSL with a #line of the user's, an included file's, or the injected    *)
(* one: there the code and glslang differ, see ErrorsAreAtPragmas.         *)
HlslWithLines == language = "hlsl" /\ \E i \in DOMAIN text : text[i].kind = "line"

(* The cleanup moves no line of the user: where the preprocessed text is   *)
(* the output, a client that gives it back to a compiler has each line in  *)
(* the file and at the number of the user's own text, in every version,    *)
(* whether or not the preamble is replaced (CleanupPreamble's placeholder  *)
(* and its #line, whose number follows the version deduced).  Compile      *)
(* itself parses the source again, not this text.                          *)
CleanupKeepsPositions ==
  pc = "scan" /\ ~HlslWithLines =>
    /\ PositionsKept
    /\ \A i \in DOMAIN user :
         user[i].kind # "version" => text[Len(text) - Len(user) + i] = user[i]

(* Pragmas are reported where the user wrote them, in order: the running   *)
(* counter, started on the text after the cleanup, agrees with glslang's   *)
(* rule on the text before it.                                             *)
PragmasAreWhereTheyAre ==
  pc = "judge" /\ ~HlslWithLines =>
    scan.stages =
      LET pragmas == Select([i \in DOMAIN user |-> i],
                            {i \in DOMAIN user : user[i].kind = "pragma"})
      IN  [k \in DOMAIN pragmas |->
             LET p == Position(user, pragmas[k]) IN <<p[1], p[2], user[pragmas[k]].arg>>]

(* A stage is returned exactly when there are pragmas, all name it, it is  *)
(* a stage, and no code of the user comes before the first; in every other *)
(* text with a pragma something is reported (Compile fails without a       *)
(* message otherwise).                                                     *)
StageAsWritten ==
  pc = "done" =>
    LET pragmas == {i \in DOMAIN user : user[i].kind = "pragma"}
        named == {user[i].arg : i \in pragmas}
        late == \E i \in DOMAIN user : user[i].kind = "code" /\ \A j \in pragmas : i < j
    IN  /\ \A s \in Stages : (stage = s) <=> (named = {s} /\ ~late)
        /\ (errors = <<>>) <=> (pragmas = {} \/ stage \in Stages)

-----------------------------------------------------------------------------
(* What a comment says, and the code does not do.                          *)

(* compiler.cc, GetShaderStageFromSourceCode: the line number that an      *)
(* error about a pragma shows is the logical one, which follows the #line  *)
(* directives.  So each error stands where glslang has a pragma, in HLSL   *)
(* as in GLSL.                                                             *)
ErrorsAreAtPragmas ==
  pc = "done" =>
    \A k \in DOMAIN errors : \E i \in DOMAIN user :
      user[i].kind = "pragma" /\ Position(user, i) = <<errors[k][2], errors[k][3]>>
=============================================================================
