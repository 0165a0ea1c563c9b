# ShaderCompiler in TLA+

Specifications, model checks and proofs for the library under
`ShaderCompiler/`: the shaderc C API, its C++ wrappers, and libshaderc_util,
which drive the vendored glslang and SPIRV-Tools. Paths below are relative to
`ShaderCompiler/`.

## The system

A client makes a compiler (`shaderc_compiler_initialize`), options, and calls
`shaderc_compile_into_*` or `shaderc_assemble_into_spv`, from as many threads as
it likes. Each call returns a result object.

| Component | State it keeps | Operations | Interacts with |
|---|---|---|---|
| glslang initializer (`compiler.cc`, `shaderc.cc`) | the process-wide `glslang_mutex_` and `initialize_count_`; in glslang the number of clients, the process pool and the builtin symbol tables | constructor and destructor of `GlslangInitializer`; every parse reads the tables | every compiler object, every thread |
| include callbacks (`shaderc.cc`, `counting_includer.h`) | per compilation: a mutex, the directive counter; in glslang's preprocessor the stack of open files | `includeLocal`, `includeSystem`, `releaseInclude` | glslang calls in, the client's resolver and releaser are called out |
| compilation pipeline (`compiler.cc`, `shaderc.cc`) | one call's tuple, counts and stage | `Compile`, `CompileToSpecifiedOutputType`, `shaderc_assemble_into_spv` | all of the others |
| message filter (`message.cc`) | none; adds to the totals | `ParseGlslangOutput`, `PrintFilteredErrors` | called after every glslang pass |
| stage deduction (`shaderc.cc`, `compiler.cc`) | the deducer's `error_` flag | forced stage, default stage, `#pragma shader_stage` | the pipeline and the final status |
| compile options (`shaderc.cc`, `compiler.h`, `compiler.cc`) | target environment (twice), passes, bases, registers, switches | about forty setters, clone, release | read by every compilation |
| SPIRV-Tools wrapper (`spirv_tools_wrapper.cc`) | none | optimize, disassemble, assemble | the pipeline |
| C++ wrappers (`shaderc.hpp`) | owning pointers | copy, move, destroy, `SetIncluder` | the C API |
| result objects (`shaderc_private.h`) | status, counts, bytes | getters, release | the client |

What is hard here: first constructors race to make the mutex they then lock;
finalising glslang frees tables that another thread may read without a lock;
a client's include results must be returned on every path out of the
preprocessor, exceptions included, and the include mutex is locked by hand;
one source passes through glslang up to three times and its diagnostics are
filtered and counted each time; failures come late, with the output half
written; options are set in any order and read back through two enumerations
and two copies of the target; wrappers are copied and moved while callbacks
point into them. `PROJECT.json` lists these hazards with their lines.

## The modules

| Module | Models | Its actions are |
|---|---|---|
| `ProcessService` | abstract: a process-wide service that is up while it has members | join, leave, start, stop, enter, exit |
| `GlslangInitializer` | `GlslangInitializer`'s constructor and destructor, `ShInitialize`, `ShFinalize`, `SetupBuiltinSymbolTable`, and calls of the C API by threads; implements `ProcessService` | the steps between two accesses of shared memory |
| `IncludeCallbacks` | `InternalFileIncluder`, `CountingIncluder`, `CPPinclude` and the input stack, the two passes of a compilation | one per call between glslang, the includer and the client |
| `ShaderCall` | abstract: what a call promises its client | begin, diagnose, and one per answer |
| `CompilePipeline` | one call from its arguments to its result, compile or assemble; implements `ShaderCall` | one per pass or early return |
| `MessageTypes` | the kinds of glslang's messages, the type each should have, and what counts (constant operators, used by the next one and by `CompilePipeline`) | |
| `MessageFilter` | one message on its way through `PrintFilteredErrors` and `ParseGlslangOutput`, character by character | one per test of the filter, and one per pair of colons |
| `ShaderText` | the preprocessed text: `CleanupPreamble`, `ParseVersionProfile`, `DeduceVersionProfile`, the scan of `GetShaderStageFromSourceCode`; and what `#line` means to glslang | one per function, and one per line of the scan |
| `CompileOptions` | options objects: setters, clone, release, and what is computed from them, the errors for a target or a SPIR-V version that is not known included | one per setter (setters that only overwrite their own field share `SetPlain`) |
| `ClientHandles` | `CompileOptions`, `Compiler` and `CompilationResult` of `shaderc.hpp` | one per constructor, assignment, destructor, `SetIncluder` |
| `Selections` | what a loop over a vector keeps, in its order (a constant operator, used by `CompileOptions` and `ShaderText`) | |
| `GlslangInitializerProofs`, `IncludeCallbacksProofs`, `CompilePipelineProofs`, `ClientHandlesProofs`, `CompileOptionsProofs`, `ShaderTextProofs`, `MessageFilterProofs`, `SelectionsProofs` | theorems about the module each is named for | |

`MC*` modules hold the symmetry sets and alphabets of the instances.
Mutants, definitions that say so in their comment, are the code with a
plausible mistake; each property is shown to fail under one of them.

How state corresponds to code: `GlslangInitializer` keeps the C++ names
(`glslang_mutex_`, `initialize_count_`, `NumberOfClients`, `PerProcessGPA`);
`compiler` and `pc` say where each object and thread is. In `IncludeCallbacks`
`ledger` is the client's own list of results it has given out.
`CompilePipeline` has Compile's locals as variables (`stage`, `totals`,
`output`, the deducer's `error_`), and `logs` as a history of what glslang said.
In `MessageFilter` the variables are the arguments, results and cursor of the C++
functions, and `meant` is a history: the message glslang had in mind. Prefixes
are named without the blank they end with, and a blank is the character `"space"`.
In `ShaderText` a line is a record, `scan` holds the locals of the loop, and
`user` is the text as the user has it, which positions are compared with.
In `CompileOptions`, `asked` is a history: what the client asked for last; a
`client` is the set of setters it calls. `ClientHandles` has the private
members, and `transferred` as a history.

The modules meet as follows. A compilation in `GlslangInitializer` is the
whole of `CompilePipeline`; its first two passes are those of
`IncludeCallbacks`. `CompilePipeline` counts with the operators of
`MessageTypes`, and `MessageFilter` shows that the characters of a message are
read as those operators say. The target that `CompilePipeline` calls refused is one for
which `CompileOptions` computes `GetGlslangClientInfo(...).error`, and
`request.passes` is `OptPasses # <<>>`. Its `source` is the outcome of
`ShaderText`: `code_first` stands for a first pragma that comes late, `"?"` for a
stage name that is not known. The includer that `IncludeCallbacks`
calls is the one `ClientHandles` follows. A client sees a call as `ShaderCall`
has it. A module with handles, options and several calls at once is not there:
calls share only what `GlslangInitializer` and `IncludeCallbacks` already share.

## The runs

| Run | Instance | What it shows |
|---|---|---|
| `initializer` | 3 threads, 2 compilers, 2 table keys, fair | one mutex, exclusive critical sections, exact count, glslang up exactly while needed, tables never freed under a reader; once clients stop calling everything is released and glslang is finalised; `ProcessService` is implemented, its fairness included |
| `include_safety` | 2 compilations, 2 directives each, 4 results, all four callback settings | results come back once, in reverse order, on every path; the include mutex is never met locked; the counter is right |
| `pipeline_result` | 2 stages, up to 2 pragmas, 12 logs in each of 3 passes, all warning options, texts of 2, 3, 4 bytes | errors stop the call; every diagnostic is counted once; status, stage and bytes of the result; `ShaderCall` is implemented |
| `message_filter` | names of up to 3 characters, texts of up to 2 after a location and 5 without one, all options | the location, the type and the text found are those glslang meant; nothing is shown empty |
| `shader_text` | texts of up to 3 lines of 18 kinds, 1 macro, versions 150, 330 and 310 es, forced or not, GLSL and HLSL | the cleanup moves no line for whoever compiles its output; pragmas are reported where they are; the stage is the one they name |
| `options_safety` | 2 objects; 3 clients: levels, languages and debug information; all 4 environments, 8 versions and 3 SPIR-V versions, one of them unknown; bases and 2 registers | passes, targets and stages are what was asked, in any order of calls and clones |
| `handles_safety` | 3 options wrappers, 2 compiler wrappers, 2 results holders | each C object has one owner; a wrapper calls its own includer |
| `pipeline_uncounted`, `shader_hlsl_lines`, `options_tessellation`, `options_assemble`, `handles_includers` | small | the five disagreements below |

Bounds. Three threads are enough for a constructor, a destructor and a
compilation to overlap with two compilers; two keys tell a thread's table from
another's, and each pass of a compilation may read another one (`compiler.cc:299-315`). Two files open at once show an order; the include stack has no
other limit in the code that a property depends on. The twelve logs are each
kind of message alone and the pairs that the filter must tell apart within a
log; three passes give every mix between them. A name of three characters is the
shortest that holds two colons with a digit between them, and five without a
location the shortest that looks like one, or like a total with a blank before
it and behind it; there is one digit (`Digits`), since the code only asks whether a
character is one, and a line number has one or two (`MaxLine`). Three lines are enough for a
`#version`, a `#line` and a pragma, or for code, a pragma and a conflicting one. Pragmas are
compared with the first one only, so two give every outcome. Texts of 3 and 4
bytes are on the two sides of a word with their NUL. Options act on one object
at a time, so a second one matters for cloning only; a client sets the options
that the code reads together, and no computation reads options of two clients.
In `handles_safety` two includers tell one's own from another's.
`CHECK_DEADLOCK FALSE` is used for `CompilePipeline`, `MessageFilter` and
`ShaderText`, where one call ends; everywhere else a state without a step is an error.

Fairness, in `GlslangInitializer` only: a thread inside a call continues when
it can (weak fairness per thread: the operating system runs it), and a client
releases its compilers. Nothing stronger is assumed of a mutex, and nobody has
to make a call; `WindsDown` is about what happens once they stop.

### Disagreements between documentation and code

- `options_tessellation`: bases (and HLSL registers) are stored at
  `Compiler::Stage` indices and read at `EShLanguage` indices
  (`compiler.cc:280`); the two tessellation stages are swapped.
- `options_assemble`: `shaderc_compile_options_set_target_env` never stores
  `target_env_version`, so an assembly is always for the default version.
- `handles_includers`: copying or moving a `CompileOptions` leaves the includer
  behind; the new object's callbacks dangle when the old one goes.
- `pipeline_uncounted`: a failure over `#pragma shader_stage`, or of the
  optimizer or the disassembler, has status `compilation_error` and no error
  counted; so has one that glslang explains with a message the filter does not know.
- `shader_hlsl_lines`: the comment at `compiler.cc:612` calls the number shown with
  a pragma logical and sensitive to `#line`. Whether `#line` is about its own or the
  next line is decided by a deduced GLSL version (`compiler.cc:606-608`, `641`), also
  in HLSL, which has no `#version` and where glslang always takes the next line.
  Unless a version from 330 on is forced, an error about a pragma below a `#line`,
  the user's or one that glslang prints around an included file, is reported one
  line too far.

Further observations, visible in the modules and not given a run of their own:
a failing optimizer leaves the unoptimized module in the failed tuple's data
(`compiler.cc:375-382`, against the comment at 184); preprocess-only calls
never turn warnings into errors (`compiler.cc:225`); a releaser without a
resolver is called with a null result (`shaderc.cc:264`; the exception in
`OnlyResolvedAreReleased`); `opengl_compat` does reach the case of
`spirv_tools_wrapper.cc:51` when assembling; the bytes of a failed assembly
are read through a null pointer (`shaderc_private.h:81`). Of the message filter:
a name that itself holds `:digits: ` or starts with a blank is cut there
(the two preconditions of `LocationIsTheOneMeant`); with an empty
`input_file_name` a message without a name fails the assertion of
`message.cc:240` (a build without assertions shows `:1: error:`); and the
example of `message.h:55-56`, `"ERROR: 2 errors found."`, has no `source_name`
`"2"` but the whole text as `rest`. The number of the `#line` that replaces the
preamble is chosen by the same deduced version (`compiler.cc:236`): preprocessed
HLSL with includes starts with `#line 0`, so a client that compiles it again sees
every line one too low (the exception `HlslWithLines`). `Compile` itself is not
concerned: it parses the source again, not the cleaned text.

## The proofs

Eight modules of theorems, each for every value of the constants. Assumptions
are the named `ASSUME`s of the modules, which TLC evaluates on every run. Every
invariant and action property of the passing runs is a theorem.

`GlslangInitializerProofs` proves, for any threads, any compilers (finitely
many) and any keys: type correctness, `OneMutex`, `MutualExclusion`,
`CountMatches`, `UpWhileCompiling`, `TablesStayWhileRead`, `UpIffNeeded`, and
that each step of `Spec` is a step or a stutter of `ProcessService`.
None of the properties is inductive alone, and the argument is layered. The
locks come first: the holder of `first_call_mutex` is the one thread at the
steps under it, so the glslang mutex is allocated once; `held` of that mutex is
the thread whose `pc` is in the critical section, hence mutual exclusion. Then
each compiler object belongs to at most one constructor or destructor at a
time, so that the set `Counted` changes by one element exactly where
`initialize_count_` changes by one. Last, the pc of the thread in the critical
section says how far glslang is up or down, and a compilation keeps its
compiler counted, so the count is not zero while it runs and nobody reaches
`ShFinalize`.

`IncludeCallbacksProofs` proves all seven properties of `include_safety`, for
any threads, results and number of directives. The invariant is per thread:
the client's list is the stack of open files followed by the answer in hand,
and holds nothing twice (`Kept`); there is an answer in hand exactly between the
return of the includer and the end of `CPPinclude`, and it is the client's
exactly if both callbacks are set (`Handled`); the mutex is locked only inside
the resolver, or for good after it threw (`Locked`); the counter follows the
directives of the first pass (`Counted`). That nothing is listed twice is what
makes a release take away the last element and no other: lemma `Released`
gives this for the four places that release.

`CompilePipelineProofs` proves the six invariants of `pipeline_result`, for any
stages, any logs, any number of pragmas and any sizes, and that `ShaderCall` is
implemented (`CallImplemented`). Lemmas on counts come first: what a log
contributes under each warning option, and that the totals of three passes are
sums (they need that logs are finite sequences of messages: `LogAssumption`).
The invariant has five layers: what has not been touched yet at each `pc`
(`FreshInv`), that nothing runs after an error (`CleanInv`), the form and size
of the output on its way to the result (`OutputInv`, which needs that sizes
are natural numbers: `SizeAssumption`), the stage and the deducer's flag (`StageInv`,
`StageAssumption`), and the totals as those of the logs so far (`CountInv`).
`FreshInv` is what makes the others inductive: without it, a step that adds a
pass could add it a second time.

`ClientHandlesProofs` proves the four properties of `handles_safety`, for any
number of wrappers, objects and includers. One predicate, `Owned`, says of an
array of owning pointers that no two variables hold the same object, that every
allocated object is held, and that ended variables hold nothing; four lemmas
say what an allocation, a move, an end and an assignment (to itself included)
do to it, and serve for options, compilers and results alike. That a wrapper
calls its own includer (`IncludersInv`) needs the ownership of options first: a
second wrapper with the same options would change `user_data` under it.

`CompileOptionsProofs` proves the five properties of `options_safety`, for any
objects, clients, values of the options and number of registers. The invariant
says of each allocated object what its fields are, given what was asked of it
last. `PassesMatch` is the delicate part: each of `SetGenerateDebugInfo` and
`SetOptimizationLevel` looks at what the other left, so the vector of passes is
one of four forms, with a null pass in the place of the strip pass if debug
information came after the level. `TargetMatches` has the two copies of the
target, `StagesMatch` the bases and registers at the index they are written at;
the theorem `StagesFollowTheWishes` is then about the index they are read at, with
the two tessellation stages excepted, as in the property. All that is assumed of
the constants is that `NoObject` is not an options record.

`ShaderTextProofs` proves the four properties of `shader_text`, for texts of any
length, any number of macros, and any names, line numbers and stages. Where
glslang sees a line is defined by the last `#line` before it, and the proof turns
that into a step: lemmas `FileStep` and `LineStep` give the position of a line from that of the
line before it, which is what the loop of `GetShaderStageFromSourceCode` computes.
`ScanInv` says that the locals of the loop are the position of the next line, the
first pragma and the first line of code so far, and the pragmas reported so far.
`Layout` gives the lines of the cleaned text one by one, and from it `NoLineMoves`
follows. The invariant also has `Agrees`: the library's guess of what `#line`
means is glslang's, except in HLSL. It rests on `VersionAssumption`: the versions
are among `GlslangVersions`, those that glslang compiles to SPIR-V; any other version
(`Others`) may be written in the source, but only where a forced one overrules it.

`MessageFilterProofs` proves the four properties of `message_filter`, for names,
texts and line numbers of any length, made of any characters and any digits.
`LocatedStripped` says where the two colons around the line number are once the
text is stripped (`Place`, `SecondPlace`): a blank name, or blanks at its start,
move them. The invariant of the search (`Scanned`) is that the cursor is on a
colon and not beyond `Place`: since the pairs tried may share a colon, no
location is passed, and `Plain`, the precondition of the properties, is used
exactly where a pair before `Place` would fit. `AnswerFits` then relates type,
name, line and text to the message meant. `CharAssumption` says that a digit is
neither a colon nor a blank, and that a listed string is never written by
accident. The proof found a mistake that no run could: two guards
of the CASE in `DeduceMessageType` overlapped, which leaves TLA+ the choice
between their values; they are exclusive now, as the code's chain of `if`s is.

`SelectionsProofs` is the library of the last three. A selection is a recursive
function over the positions of a sequence, since a theorem about an operator
declared RECURSIVE cannot be proved, and the induction over the positions is by
the least counterexample (`SetInduction`), stated for a set and not for an
operator. `SelectionUnfolds` is the step of the loop; `SelectionIsSound` says that
what is kept is in the sequence and in the set, and that nothing is kept only if
nothing is there to keep.

Only model-checked: `WindsDown`, and the fairness part of the refinement of
`ProcessService`, as liveness is out of the prover's reach.

## Not modelled

The contents of shaders and modules; the wording of messages; glslang's
front end and SPIRV-Tools (any answer is possible); `new` returning null;
conditionals of glslang's preprocessor (the directives that `IncludeCallbacks`
counts are those it executes);
`io_shaderc.cc`, `args.cc` and `file_finder.cc`, which nothing in the library calls;
Sandbox, build scripts and the vendored libraries. These are by far the most
of the lines of the repository: the library that is modelled has a few
thousand, and drives the rest through the calls above. In `CompileOptions` one kind
of uniform stands for the six, whose arrays are handled alike, and six stages for
the fourteen: the others have the same index in both enumerations.

## Plan

1. Done: the initializer, include callbacks, the pipeline and its abstract
   call, the message filter, the preprocessed text, options, wrappers; proofs of
   every invariant and action property of the runs, and of both refinements, as
   far as they are about safety.
2. Left: lemmas that tie the modules together where now the text above does, such as
   that the `source` of `CompilePipeline` is what `ShaderText` reports.
3. Left: a session module with wrappers, options and concurrent calls, worth
   its states once calls share more than they do now.
