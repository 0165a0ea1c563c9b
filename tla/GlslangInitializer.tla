------------------------- MODULE GlslangInitializer -------------------------
(***************************************************************************)
(* The life of glslang's process-wide state under concurrent use of the    *)
(* shaderc API.  Every shaderc_compiler owns a GlslangInitializer          *)
(* (libshaderc_util/compiler.cc); the initializers keep a static count     *)
(* under a mutex that the first of them allocates, call glslang's          *)
(* InitializeProcess when the count leaves 0 and FinalizeProcess when it   *)
(* comes back.  glslang keeps a second count, the process pool and the     *)
(* built-in symbol tables under its own init_lock (ShaderLang.cpp), and    *)
(* compilations read those tables after they have given init_lock back.    *)
(*                                                                         *)
(* Threads call shaderc_compiler_initialize, shaderc_compiler_release and  *)
(* the compile functions.  One action is one step between two points where *)
(* another thread can interfere.                                           *)
(***************************************************************************)
EXTENDS Integers, FiniteSets

CONSTANTS Threads,   \* the threads of the client program
          Compilers, \* the shaderc_compiler objects (addresses, reused)
          Keys,      \* the (version, SPIR-V, profile, source) table indices
          NoThread   \* the owner of a mutex nobody holds

ASSUME CompilersFinite == IsFiniteSet(Compilers)
ASSUME NoThreadIsNotAThread == NoThread \notin Threads

VARIABLES
  first_call_mutex,  \* owner of the function-local static mutex
  glslang_mutex_,    \* 0 for nullptr, n for the n-th mutex allocated
  held,              \* the *glslang_mutex_ that each thread has locked, or 0
  initialize_count_, \* GlslangInitializer::initialize_count_
  init_lock,         \* owner of glslang's init_lock
  NumberOfClients,   \* glslang's own reference count
  PerProcessGPA,     \* glslang's process pool, "null" or "pool"
  SymbolTables,      \* the keys whose built-in tables exist
  compiler,          \* each shaderc_compiler, see Status
  pc,                \* what each thread is about to do
  arg,               \* the compiler each thread's call is about
  key,               \* the table its compilation needs
  pass               \* 1 preprocessing, 2 parsing

shadercVars == <<first_call_mutex, glslang_mutex_, held, initialize_count_>>
glslangVars == <<init_lock, NumberOfClients, PerProcessGPA, SymbolTables>>
callVars == <<compiler, pc, arg, key, pass>>
vars == <<shadercVars, glslangVars, callVars>>

(* "free": no object.  "new": in its constructor, not counted yet.         *)
(* "counted": counted, not returned yet.  "live": the client has it.       *)
(* "dying": in its destructor, still counted.  "dead": no longer counted.  *)
Status == {"free", "new", "counted", "live", "dying", "dead"}

(* The initializers that initialize_count_ stands for.                     *)
Counted == {c \in Compilers : compiler[c] \in {"counted", "live", "dying"}}

(* glslang is initialised.                                                 *)
Up == PerProcessGPA = "pool"

CtorPC == {"first_call", "first_check", "create", "ctor_lock", "ctor_check",
           "sh_initialize", "count", "ctor_return"}
DtorPC == {"dtor_lock", "uncount", "sh_finalize", "dtor_return"}
CompilePC == {"setup", "build", "parse"}
PC == {"idle"} \cup CtorPC \cup DtorPC \cup CompilePC

(* The steps a thread takes while it holds *glslang_mutex_.                *)
Critical == {"ctor_check", "sh_initialize", "count", "ctor_return",
             "uncount", "sh_finalize", "dtor_return"}

Init ==
  /\ first_call_mutex = NoThread
  /\ glslang_mutex_ = 0
  /\ held = [t \in Threads |-> 0]
  /\ initialize_count_ = 0
  /\ init_lock = NoThread
  /\ NumberOfClients = 0
  /\ PerProcessGPA = "null"
  /\ SymbolTables = {}
  /\ compiler = [c \in Compilers |-> "free"]
  /\ pc = [t \in Threads |-> "idle"]
  /\ arg \in [Threads -> Compilers]
  /\ key \in [Threads -> Keys]
  /\ pass = [t \in Threads |-> 1]

Goto(t, l) == pc' = [pc EXCEPT ![t] = l]
SetStatus(c, s) == compiler' = [compiler EXCEPT ![c] = s]

-----------------------------------------------------------------------------
(* The client's calls.                                                     *)

(* shaderc_compiler_initialize: new shaderc_compiler, then the constructor *)
(* of its initializer.  (A failed allocation returns null and does nothing.)*)
CallInitialize(t, c) ==
  /\ pc[t] = "idle"
  /\ compiler[c] = "free"
  /\ SetStatus(c, "new")
  /\ arg' = [arg EXCEPT ![t] = c]
  /\ Goto(t, "first_call")
  /\ UNCHANGED <<shadercVars, glslangVars, key, pass>>

(* The header's rule for clients: a compiler may be shared by threads that *)
(* compile, and is released when no compilation that uses it is left.      *)
InUse(c) == \E t \in Threads : pc[t] \in CompilePC /\ arg[t] = c

CallRelease(t, c) ==
  /\ pc[t] = "idle"
  /\ compiler[c] = "live"
  /\ ~InUse(c)
  /\ SetStatus(c, "dying")
  /\ arg' = [arg EXCEPT ![t] = c]
  /\ Goto(t, "dtor_lock")
  /\ UNCHANGED <<shadercVars, glslangVars, key, pass>>

CallCompile(t, c, k, p) ==
  /\ pc[t] = "idle"
  /\ compiler[c] = "live"
  /\ arg' = [arg EXCEPT ![t] = c]
  /\ key' = [key EXCEPT ![t] = k]
  /\ pass' = [pass EXCEPT ![t] = p]
  /\ Goto(t, "setup")
  /\ UNCHANGED <<shadercVars, glslangVars, compiler>>

(* Mutant of LockFirstCall: the first-call block without its mutex.        *)
LockFirstCallOpen(t) ==
  /\ pc[t] = "first_call"
  /\ first_call_mutex' = t
  /\ Goto(t, "first_check")
  /\ UNCHANGED <<glslang_mutex_, held, initialize_count_, glslangVars,
                 compiler, arg, key, pass>>

-----------------------------------------------------------------------------
(* GlslangInitializer::GlslangInitializer                                  *)

LockFirstCall(t) ==
  /\ pc[t] = "first_call"
  /\ first_call_mutex = NoThread
  /\ first_call_mutex' = t
  /\ Goto(t, "first_check")
  /\ UNCHANGED <<glslang_mutex_, held, initialize_count_, glslangVars,
                 compiler, arg, key, pass>>

(* glslang_mutex_ exists already: leave the first-call block.              *)
MutexExists(t) ==
  /\ pc[t] = "first_check"
  /\ glslang_mutex_ # 0
  /\ first_call_mutex' = NoThread
  /\ Goto(t, "ctor_lock")
  /\ UNCHANGED <<glslang_mutex_, held, initialize_count_, glslangVars,
                 compiler, arg, key, pass>>

MutexMissing(t) ==
  /\ pc[t] = "first_check"
  /\ glslang_mutex_ = 0
  /\ Goto(t, "create")
  /\ UNCHANGED <<shadercVars, glslangVars, compiler, arg, key, pass>>

CreateMutex(t) ==
  /\ pc[t] = "create"
  /\ glslang_mutex_' = glslang_mutex_ + 1
  /\ first_call_mutex' = NoThread
  /\ Goto(t, "ctor_lock")
  /\ UNCHANGED <<held, initialize_count_, glslangVars, compiler, arg, key, pass>>

(* Mutant of LockGlslang: the lock does not exclude.                       *)
LockGlslangShared(t, from, to) ==
  /\ pc[t] = from
  /\ glslang_mutex_ # 0
  /\ held' = [held EXCEPT ![t] = glslang_mutex_]
  /\ Goto(t, to)
  /\ UNCHANGED <<first_call_mutex, glslang_mutex_, initialize_count_,
                 glslangVars, compiler, arg, key, pass>>

(* lock_guard on the mutex that glslang_mutex_ points to at this moment;   *)
(* through nullptr there is no such step.                                  *)
LockGlslang(t, from, to) ==
  /\ pc[t] = from
  /\ glslang_mutex_ # 0
  /\ \A u \in Threads : held[u] # glslang_mutex_
  /\ held' = [held EXCEPT ![t] = glslang_mutex_]
  /\ Goto(t, to)
  /\ UNCHANGED <<first_call_mutex, glslang_mutex_, initialize_count_,
                 glslangVars, compiler, arg, key, pass>>

(* Mutant of CheckCount: tests for the value after the increment.          *)
CheckCountForOne(t) ==
  /\ pc[t] = "ctor_check"
  /\ Goto(t, IF initialize_count_ = 1 THEN "sh_initialize" ELSE "count")
  /\ UNCHANGED <<shadercVars, glslangVars, compiler, arg, key, pass>>

LockInCtor(t) == LockGlslang(t, "ctor_lock", "ctor_check")

CheckCount(t) ==
  /\ pc[t] = "ctor_check"
  /\ Goto(t, IF initialize_count_ = 0 THEN "sh_initialize" ELSE "count")
  /\ UNCHANGED <<shadercVars, glslangVars, compiler, arg, key, pass>>

(* Mutant of CountUp: the increment moved into an else of the test.        *)
CountUpUnlessFirst(t) ==
  /\ pc[t] = "count"
  /\ initialize_count_' = IF initialize_count_ = 0 THEN 0 ELSE initialize_count_ + 1
  /\ SetStatus(arg[t], "counted")
  /\ Goto(t, "ctor_return")
  /\ UNCHANGED <<first_call_mutex, glslang_mutex_, held, glslangVars,
                 arg, key, pass>>

(* glslang::InitializeProcess, all of it under glslang's init_lock.        *)
ShInitialize(t) ==
  /\ pc[t] = "sh_initialize"
  /\ init_lock = NoThread
  /\ NumberOfClients' = NumberOfClients + 1
  /\ PerProcessGPA' = "pool"
  /\ Goto(t, "count")
  /\ UNCHANGED <<shadercVars, init_lock, SymbolTables, compiler, arg, key, pass>>

CountUp(t) ==
  /\ pc[t] = "count"
  /\ initialize_count_' = initialize_count_ + 1
  /\ SetStatus(arg[t], "counted")
  /\ Goto(t, "ctor_return")
  /\ UNCHANGED <<first_call_mutex, glslang_mutex_, held, glslangVars,
                 arg, key, pass>>

CtorReturn(t) ==
  /\ pc[t] = "ctor_return"
  /\ held' = [held EXCEPT ![t] = 0]
  /\ SetStatus(arg[t], "live")
  /\ Goto(t, "idle")
  /\ UNCHANGED <<first_call_mutex, glslang_mutex_, initialize_count_,
                 glslangVars, arg, key, pass>>

-----------------------------------------------------------------------------
(* GlslangInitializer::~GlslangInitializer                                 *)

(* Mutant of CountDown: finalises when one initializer is left.            *)
CountDownEager(t) ==
  /\ pc[t] = "uncount"
  /\ initialize_count_' = initialize_count_ - 1
  /\ SetStatus(arg[t], "dead")
  /\ Goto(t, IF initialize_count_' <= 1 THEN "sh_finalize" ELSE "dtor_return")
  /\ UNCHANGED <<first_call_mutex, glslang_mutex_, held, glslangVars,
                 arg, key, pass>>

LockInDtor(t) == LockGlslang(t, "dtor_lock", "uncount")

CountDown(t) ==
  /\ pc[t] = "uncount"
  /\ initialize_count_' = initialize_count_ - 1
  /\ SetStatus(arg[t], "dead")
  /\ Goto(t, IF initialize_count_' = 0 THEN "sh_finalize" ELSE "dtor_return")
  /\ UNCHANGED <<first_call_mutex, glslang_mutex_, held, glslangVars,
                 arg, key, pass>>

(* Mutant of ShFinalize: the pool is not deleted.                          *)
ShFinalizeKeepsPool(t) ==
  /\ pc[t] = "sh_finalize"
  /\ init_lock = NoThread
  /\ NumberOfClients' = NumberOfClients - 1
  /\ SymbolTables' = IF NumberOfClients' > 0 THEN SymbolTables ELSE {}
  /\ Goto(t, "dtor_return")
  /\ UNCHANGED <<shadercVars, init_lock, PerProcessGPA, compiler, arg, key, pass>>

(* glslang::FinalizeProcess: tables and pool go with glslang's last client.*)
ShFinalize(t) ==
  /\ pc[t] = "sh_finalize"
  /\ init_lock = NoThread
  /\ NumberOfClients' = NumberOfClients - 1
  /\ PerProcessGPA' = IF NumberOfClients' > 0 THEN PerProcessGPA ELSE "null"
  /\ SymbolTables' = IF NumberOfClients' > 0 THEN SymbolTables ELSE {}
  /\ Goto(t, "dtor_return")
  /\ UNCHANGED <<shadercVars, init_lock, compiler, arg, key, pass>>

(* Mutant of DtorReturn: returns with the mutex locked.                    *)
DtorReturnLocked(t) ==
  /\ pc[t] = "dtor_return"
  /\ SetStatus(arg[t], "free")
  /\ Goto(t, "idle")
  /\ UNCHANGED <<shadercVars, glslangVars, arg, key, pass>>

(* The mutex is unlocked and never deleted; the object goes.               *)
DtorReturn(t) ==
  /\ pc[t] = "dtor_return"
  /\ held' = [held EXCEPT ![t] = 0]
  /\ SetStatus(arg[t], "free")
  /\ Goto(t, "idle")
  /\ UNCHANGED <<first_call_mutex, glslang_mutex_, initialize_count_,
                 glslangVars, arg, key, pass>>

-----------------------------------------------------------------------------
(* A compilation, as far as it touches the process-wide state: each of its *)
(* passes makes sure the built-in tables of its version exist and then     *)
(* reads them without a lock.                                              *)

TablesReady(t) ==
  /\ pc[t] = "setup"
  /\ init_lock = NoThread
  /\ key[t] \in SymbolTables
  /\ Goto(t, "parse")
  /\ UNCHANGED <<shadercVars, glslangVars, compiler, arg, key, pass>>

StartTables(t) ==
  /\ pc[t] = "setup"
  /\ init_lock = NoThread
  /\ key[t] \notin SymbolTables
  /\ init_lock' = t
  /\ Goto(t, "build")
  /\ UNCHANGED <<shadercVars, NumberOfClients, PerProcessGPA, SymbolTables,
                 compiler, arg, key, pass>>

(* The tables are copied into the process pool and published.              *)
PublishTables(t) ==
  /\ pc[t] = "build"
  /\ SymbolTables' = SymbolTables \cup {key[t]}
  /\ init_lock' = NoThread
  /\ Goto(t, "parse")
  /\ UNCHANGED <<shadercVars, NumberOfClients, PerProcessGPA,
                 compiler, arg, key, pass>>

(* The built-ins did not parse: nothing is published, the pass fails.      *)
TablesFail(t) ==
  /\ pc[t] = "build"
  /\ init_lock' = NoThread
  /\ Goto(t, "idle")
  /\ UNCHANGED <<shadercVars, NumberOfClients, PerProcessGPA, SymbolTables,
                 compiler, arg, key, pass>>

(* A preprocessing pass may be followed by the parse of the same shader,   *)
(* whose tables may be others: the two passes are set up apart (compiler.cc:*)
(* 299-315 gives the parse an input environment of its own).               *)
NextPass(t, k) ==
  /\ pc[t] = "parse"
  /\ pass[t] = 1
  /\ pass' = [pass EXCEPT ![t] = 2]
  /\ key' = [key EXCEPT ![t] = k]
  /\ Goto(t, "setup")
  /\ UNCHANGED <<shadercVars, glslangVars, compiler, arg>>

CompileReturn(t) ==
  /\ pc[t] = "parse"
  /\ Goto(t, "idle")
  /\ UNCHANGED <<shadercVars, glslangVars, compiler, arg, key, pass>>

-----------------------------------------------------------------------------
NewCall(t) ==
  \E c \in Compilers :
     \/ CallInitialize(t, c)
     \/ \E k \in Keys, p \in {1, 2} : CallCompile(t, c, k, p)

Release(t) == \E c \in Compilers : CallRelease(t, c)

Ctor(t) == \/ LockFirstCall(t) \/ MutexExists(t) \/ MutexMissing(t)
           \/ CreateMutex(t) \/ LockInCtor(t) \/ CheckCount(t)
           \/ ShInitialize(t) \/ CountUp(t) \/ CtorReturn(t)

Dtor(t) == LockInDtor(t) \/ CountDown(t) \/ ShFinalize(t) \/ DtorReturn(t)

Compile(t) == \/ TablesReady(t) \/ StartTables(t) \/ PublishTables(t)
              \/ TablesFail(t) \/ CompileReturn(t)
              \/ \E k \in Keys : NextPass(t, k)

(* A thread that is inside a call.                                         *)
Proceed(t) == Ctor(t) \/ Dtor(t) \/ Compile(t)

Next == \E t \in Threads : NewCall(t) \/ Release(t) \/ Proceed(t)

Spec == Init /\ [][Next]_vars

(* A thread inside a call keeps running when it can (weak fairness: the    *)
(* mutexes promise nothing to a waiter whose lock is taken again and again),*)
(* and a client releases the compilers it has.  Nobody has to make a call. *)
FairSpec == Spec /\ \A t \in Threads : /\ WF_vars(Proceed(t))
                                       /\ WF_vars(Release(t))

-----------------------------------------------------------------------------
(* Properties.                                                             *)

(* Every variable keeps its type; in particular the unsigned count never   *)
(* passes below 0.                                                         *)
TypeOK ==
  /\ first_call_mutex \in Threads \cup {NoThread}
  /\ glslang_mutex_ \in Nat
  /\ held \in [Threads -> Nat]
  /\ initialize_count_ \in Nat
  /\ init_lock \in Threads \cup {NoThread}
  /\ NumberOfClients \in Nat
  /\ PerProcessGPA \in {"null", "pool"}
  /\ SymbolTables \subseteq Keys
  /\ compiler \in [Compilers -> Status]
  /\ pc \in [Threads -> PC]
  /\ arg \in [Threads -> Compilers]
  /\ key \in [Threads -> Keys]
  /\ pass \in [Threads -> {1, 2}]

(* compiler.cc:118-125 and 143-148: racing first calls allocate one mutex, *)
(* and nobody locks through glslang_mutex_ before it points to one.        *)
OneMutex ==
  /\ glslang_mutex_ <= 1
  /\ \A t \in Threads : pc[t] \in {"ctor_lock", "dtor_lock"} => glslang_mutex_ # 0

(* compiler.cc:127-133 and 137-141: the test of the count, the call into   *)
(* glslang and the update of the count are never interleaved.              *)
MutualExclusion ==
  \A t, u \in Threads : pc[t] \in Critical /\ pc[u] \in Critical => t = u

(* initialize_count_ counts the initializers that exist, however their     *)
(* constructors and destructors overlap.                                   *)
CountMatches == initialize_count_ = Cardinality(Counted)

(* shaderc.h:232-254: a thread compiles with glslang initialised, exactly  *)
(* once, and never finalised under it by another thread's release.         *)
UpWhileCompiling ==
  \A t \in Threads : pc[t] \in CompilePC => Up /\ NumberOfClients = 1

(* ShaderLang.cpp:936-945: the cached table a pass reads after init_lock   *)
(* was given back is still there.                                          *)
TablesStayWhileRead ==
  \A t \in Threads : pc[t] = "parse" => key[t] \in SymbolTables

(* ShaderLang.cpp:1390-1432: outside the critical section glslang is up    *)
(* exactly while an initializer exists, and nothing of it outlives the last.*)
UpIffNeeded ==
  (\A t \in Threads : pc[t] \notin Critical) =>
     /\ Up <=> Counted # {}
     /\ NumberOfClients = IF Counted = {} THEN 0 ELSE 1
     /\ Counted = {} => SymbolTables = {}

(* When the client stops making calls, every call returns, every compiler  *)
(* is released and glslang is finalised: no wait is circular.              *)
Quiet == /\ \A t \in Threads : pc[t] = "idle" /\ held[t] = 0
         /\ \A c \in Compilers : compiler[c] = "free"
         /\ ~Up /\ SymbolTables = {}
WindsDown == <>[][\A t \in Threads : ~NewCall(t)]_vars => <>[]Quiet

(* The locks and counts implement the abstract service: started before a   *)
(* member joins, stopped only with no member and no compilation left.      *)
Service == INSTANCE ProcessService
             WITH Members <- Compilers,
                  Users <- Threads,
                  up <- Up,
                  members <- Counted,
                  users <- {t \in Threads : pc[t] \in {"build", "parse"}}
ImplementsService == Service!SFairSpec
=============================================================================
