---------------------- MODULE GlslangInitializerProofs ----------------------
(***************************************************************************)
(* Proofs about GlslangInitializer, for any set of threads, any finite set *)
(* of compilers and any set of table keys.                                 *)
(***************************************************************************)
EXTENDS GlslangInitializer, FiniteSetTheorems, TLAPS

-----------------------------------------------------------------------------
(* The inductive invariant, in layers: each is inductive relative to those *)
(* before it.                                                              *)

(* Who is where in the first-call block, and who holds glslang's mutex.    *)
FirstCallInv ==
  /\ glslang_mutex_ <= 1
  /\ \A t \in Threads :
       /\ pc[t] \in {"first_check", "create"} => first_call_mutex = t
       /\ pc[t] = "create" => glslang_mutex_ = 0
       /\ pc[t] \in (CtorPC \ {"first_call", "first_check", "create"}) \cup DtorPC
            => glslang_mutex_ = 1
  /\ \A c \in Compilers :
       compiler[c] \in {"counted", "live", "dying", "dead"} => glslang_mutex_ = 1

LockInv ==
  /\ \A t \in Threads : pc[t] \in Critical <=> held[t] = 1
  /\ \A t \in Threads : held[t] <= 1
  /\ \A t, u \in Threads : held[t] = 1 /\ held[u] = 1 => t = u

(* What each call knows about the compiler it works on.                    *)
OwnInv ==
  /\ \A t \in Threads :
       /\ pc[t] \in CtorPC \ {"ctor_return"} => compiler[arg[t]] = "new"
       /\ pc[t] = "ctor_return" => compiler[arg[t]] = "counted"
       /\ pc[t] \in {"dtor_lock", "uncount"} => compiler[arg[t]] = "dying"
       /\ pc[t] \in {"sh_finalize", "dtor_return"} => compiler[arg[t]] = "dead"
       /\ pc[t] \in CompilePC => compiler[arg[t]] = "live"
  /\ \A t, u \in Threads :
       /\ pc[t] \in CtorPC \cup DtorPC
       /\ pc[u] \in CtorPC \cup DtorPC
       /\ arg[t] = arg[u]
       => t = u

(* glslang is up exactly while it is counted on, except inside the one     *)
(* critical section that is changing that.                                 *)
GlslangInv ==
  /\ NumberOfClients = IF Up THEN 1 ELSE 0
  /\ \A t \in Threads :
       /\ pc[t] = "sh_initialize" => ~Up /\ Counted = {}
       /\ pc[t] = "count" => Up
       /\ pc[t] = "sh_finalize" => Up /\ Counted = {}
  /\ Counted # {} => Up
  /\ Up /\ Counted = {} => \E t \in Threads : pc[t] \in {"count", "sh_finalize"}
  /\ SymbolTables # {} => Up

IInv == /\ TypeOK
        /\ FirstCallInv
        /\ LockInv
        /\ OwnInv
        /\ CountMatches
        /\ GlslangInv
        /\ TablesStayWhileRead

USE DEF vars, shadercVars, glslangVars, callVars, Goto, SetStatus

-----------------------------------------------------------------------------
(* The initial state.                                                      *)
LEMMA InitIInv == Init => IInv
<1> SUFFICES ASSUME Init PROVE IInv
  OBVIOUS
<1> USE DEF Init, Counted
<1>1. TypeOK
  BY DEF TypeOK, Status, PC, CtorPC, DtorPC, CompilePC
<1>2. Counted = {}
  OBVIOUS
<1>3. FirstCallInv
  BY DEF FirstCallInv, CtorPC, DtorPC
<1>4. LockInv
  BY DEF LockInv, Critical
<1>5. OwnInv
  BY DEF OwnInv, CtorPC, DtorPC, CompilePC
<1>6. CountMatches
  BY <1>2, FS_EmptySet DEF CountMatches
<1>7. GlslangInv
  BY <1>2 DEF GlslangInv, Up
<1>8. TablesStayWhileRead
  BY DEF TablesStayWhileRead
<1>. QED  BY <1>1, <1>3, <1>4, <1>5, <1>6, <1>7, <1>8 DEF IInv

-----------------------------------------------------------------------------
(* Each layer is preserved.                                                *)

LEMMA CountedFinite == IsFiniteSet(Counted)
  BY CompilersFinite, FS_Subset DEF Counted

LEMMA NextFirstCall ==
  ASSUME IInv, [Next]_vars
  PROVE  FirstCallInv'
<1> USE DEF IInv, TypeOK, FirstCallInv, OwnInv, CtorPC, DtorPC, CompilePC, PC, Status
<1>1. CASE UNCHANGED vars
  BY <1>1
<1>2. ASSUME NEW t \in Threads, NewCall(t) PROVE FirstCallInv'
  BY <1>2 DEF NewCall, CallInitialize, CallCompile
<1>3. ASSUME NEW t \in Threads, Release(t) PROVE FirstCallInv'
  BY <1>3 DEF Release, CallRelease
<1>4. ASSUME NEW t \in Threads, Ctor(t) PROVE FirstCallInv'
  <2>1. CASE LockFirstCall(t)
    BY <2>1, NoThreadIsNotAThread DEF LockFirstCall
  <2>2. CASE MutexExists(t)
    BY <2>2 DEF MutexExists
  <2>3. CASE MutexMissing(t)
    BY <2>3 DEF MutexMissing
  <2>4. CASE CreateMutex(t)
    BY <2>4 DEF CreateMutex
  <2>5. CASE LockInCtor(t)
    BY <2>5 DEF LockInCtor, LockGlslang
  <2>6. CASE CheckCount(t)
    BY <2>6 DEF CheckCount
  <2>7. CASE ShInitialize(t)
    BY <2>7 DEF ShInitialize
  <2>8. CASE CountUp(t)
    BY <2>8 DEF CountUp
  <2>9. CASE CtorReturn(t)
    BY <2>9 DEF CtorReturn
  <2>. QED  BY <1>4, <2>1, <2>2, <2>3, <2>4, <2>5, <2>6, <2>7, <2>8, <2>9 DEF Ctor
<1>5. ASSUME NEW t \in Threads, Dtor(t) PROVE FirstCallInv'
  <2>1. CASE LockInDtor(t)
    BY <2>1 DEF LockInDtor, LockGlslang
  <2>2. CASE CountDown(t)
    BY <2>2 DEF CountDown
  <2>3. CASE ShFinalize(t)
    BY <2>3 DEF ShFinalize
  <2>4. CASE DtorReturn(t)
    BY <2>4 DEF DtorReturn
  <2>. QED  BY <1>5, <2>1, <2>2, <2>3, <2>4 DEF Dtor
<1>6. ASSUME NEW t \in Threads, Compile(t) PROVE FirstCallInv'
  BY <1>6 DEF Compile, TablesReady, StartTables, PublishTables, TablesFail,
              NextPass, CompileReturn
<1>. QED  BY <1>1, <1>2, <1>3, <1>4, <1>5, <1>6 DEF Next, Proceed

LEMMA NextOwn ==
  ASSUME IInv, [Next]_vars
  PROVE  OwnInv'
<1> USE DEF IInv, TypeOK, OwnInv, CtorPC, DtorPC, CompilePC, PC, Status
<1>1. CASE UNCHANGED vars
  BY <1>1
<1>2. ASSUME NEW t \in Threads, NewCall(t) PROVE OwnInv'
  BY <1>2 DEF NewCall, CallInitialize, CallCompile
<1>3. ASSUME NEW t \in Threads, Release(t) PROVE OwnInv'
  BY <1>3 DEF Release, CallRelease, InUse
<1>4. ASSUME NEW t \in Threads, Ctor(t) PROVE OwnInv'
  <2>1. CASE LockFirstCall(t)
    BY <2>1 DEF LockFirstCall
  <2>2. CASE MutexExists(t)
    BY <2>2 DEF MutexExists
  <2>3. CASE MutexMissing(t)
    BY <2>3 DEF MutexMissing
  <2>4. CASE CreateMutex(t)
    BY <2>4 DEF CreateMutex
  <2>5. CASE LockInCtor(t)
    BY <2>5 DEF LockInCtor, LockGlslang
  <2>6. CASE CheckCount(t)
    BY <2>6 DEF CheckCount
  <2>7. CASE ShInitialize(t)
    BY <2>7 DEF ShInitialize
  <2>8. CASE CountUp(t)
    BY <2>8 DEF CountUp
  <2>9. CASE CtorReturn(t)
    BY <2>9 DEF CtorReturn
  <2>. QED  BY <1>4, <2>1, <2>2, <2>3, <2>4, <2>5, <2>6, <2>7, <2>8, <2>9 DEF Ctor
<1>5. ASSUME NEW t \in Threads, Dtor(t) PROVE OwnInv'
  <2>1. CASE LockInDtor(t)
    BY <2>1 DEF LockInDtor, LockGlslang
  <2>2. CASE CountDown(t)
    BY <2>2 DEF CountDown
  <2>3. CASE ShFinalize(t)
    BY <2>3 DEF ShFinalize
  <2>4. CASE DtorReturn(t)
    BY <2>4 DEF DtorReturn
  <2>. QED  BY <1>5, <2>1, <2>2, <2>3, <2>4 DEF Dtor
<1>6. ASSUME NEW t \in Threads, Compile(t) PROVE OwnInv'
  BY <1>6 DEF Compile, TablesReady, StartTables, PublishTables, TablesFail,
              NextPass, CompileReturn
<1>. QED  BY <1>1, <1>2, <1>3, <1>4, <1>5, <1>6 DEF Next, Proceed

LEMMA NextLock ==
  ASSUME IInv, [Next]_vars
  PROVE  LockInv'
<1> USE DEF IInv, TypeOK, FirstCallInv, LockInv, Critical, CtorPC, DtorPC, CompilePC, PC, Status
<1>1. CASE UNCHANGED vars
  BY <1>1
<1>2. ASSUME NEW t \in Threads, NewCall(t) PROVE LockInv'
  BY <1>2 DEF NewCall, CallInitialize, CallCompile
<1>3. ASSUME NEW t \in Threads, Release(t) PROVE LockInv'
  BY <1>3 DEF Release, CallRelease, InUse
<1>4. ASSUME NEW t \in Threads, Ctor(t) PROVE LockInv'
  <2>1. CASE LockFirstCall(t)
    BY <2>1 DEF LockFirstCall
  <2>2. CASE MutexExists(t)
    BY <2>2 DEF MutexExists
  <2>3. CASE MutexMissing(t)
    BY <2>3 DEF MutexMissing
  <2>4. CASE CreateMutex(t)
    BY <2>4 DEF CreateMutex
  <2>5. CASE LockInCtor(t)
    BY <2>5 DEF LockInCtor, LockGlslang
  <2>6. CASE CheckCount(t)
    BY <2>6 DEF CheckCount
  <2>7. CASE ShInitialize(t)
    BY <2>7 DEF ShInitialize
  <2>8. CASE CountUp(t)
    BY <2>8 DEF CountUp
  <2>9. CASE CtorReturn(t)
    BY <2>9 DEF CtorReturn
  <2>. QED  BY <1>4, <2>1, <2>2, <2>3, <2>4, <2>5, <2>6, <2>7, <2>8, <2>9 DEF Ctor
<1>5. ASSUME NEW t \in Threads, Dtor(t) PROVE LockInv'
  <2>1. CASE LockInDtor(t)
    BY <2>1 DEF LockInDtor, LockGlslang
  <2>2. CASE CountDown(t)
    BY <2>2 DEF CountDown
  <2>3. CASE ShFinalize(t)
    BY <2>3 DEF ShFinalize
  <2>4. CASE DtorReturn(t)
    BY <2>4 DEF DtorReturn
  <2>. QED  BY <1>5, <2>1, <2>2, <2>3, <2>4 DEF Dtor
<1>6. ASSUME NEW t \in Threads, Compile(t) PROVE LockInv'
  BY <1>6 DEF Compile, TablesReady, StartTables, PublishTables, TablesFail,
              NextPass, CompileReturn
<1>. QED  BY <1>1, <1>2, <1>3, <1>4, <1>5, <1>6 DEF Next, Proceed

LEMMA NextType ==
  ASSUME IInv, [Next]_vars
  PROVE  TypeOK'
<1> USE DEF IInv, TypeOK, OwnInv, CtorPC, DtorPC, CompilePC, PC, Status
<1>1. CASE UNCHANGED vars
  BY <1>1
<1>2. ASSUME NEW t \in Threads, NewCall(t) PROVE TypeOK'
  BY <1>2 DEF NewCall, CallInitialize, CallCompile
<1>3. ASSUME NEW t \in Threads, Release(t) PROVE TypeOK'
  BY <1>3 DEF Release, CallRelease, InUse
<1>4. ASSUME NEW t \in Threads, Ctor(t) PROVE TypeOK'
  <2>1. CASE LockFirstCall(t)
    BY <2>1 DEF LockFirstCall
  <2>2. CASE MutexExists(t)
    BY <2>2 DEF MutexExists
  <2>3. CASE MutexMissing(t)
    BY <2>3 DEF MutexMissing
  <2>4. CASE CreateMutex(t)
    BY <2>4 DEF CreateMutex
  <2>5. CASE LockInCtor(t)
    BY <2>5 DEF LockInCtor, LockGlslang
  <2>6. CASE CheckCount(t)
    BY <2>6 DEF CheckCount
  <2>7. CASE ShInitialize(t)
    BY <2>7 DEF ShInitialize
  <2>8. CASE CountUp(t)
    BY <2>8 DEF CountUp
  <2>9. CASE CtorReturn(t)
    BY <2>9 DEF CtorReturn
  <2>. QED  BY <1>4, <2>1, <2>2, <2>3, <2>4, <2>5, <2>6, <2>7, <2>8, <2>9 DEF Ctor
<1>5. ASSUME NEW t \in Threads, Dtor(t) PROVE TypeOK'
  <2>1. CASE LockInDtor(t)
    BY <2>1 DEF LockInDtor, LockGlslang
  <2>2. CASE CountDown(t)
    <3>1. arg[t] \in Counted
      BY <2>2 DEF CountDown, Counted
    <3>2. initialize_count_ > 0
      BY <3>1, CountedFinite, FS_EmptySet, FS_CardinalityType DEF CountMatches
    <3>. QED  BY <2>2, <3>2 DEF CountDown
  <2>3. CASE ShFinalize(t)
    BY <2>3 DEF ShFinalize, GlslangInv, Up
  <2>4. CASE DtorReturn(t)
    BY <2>4 DEF DtorReturn
  <2>. QED  BY <1>5, <2>1, <2>2, <2>3, <2>4 DEF Dtor
<1>6. ASSUME NEW t \in Threads, Compile(t) PROVE TypeOK'
  BY <1>6 DEF Compile, TablesReady, StartTables, PublishTables, TablesFail,
              NextPass, CompileReturn
<1>. QED  BY <1>1, <1>2, <1>3, <1>4, <1>5, <1>6 DEF Next, Proceed

LEMMA NextTables ==
  ASSUME IInv, [Next]_vars
  PROVE  TablesStayWhileRead'
<1> USE DEF IInv, TypeOK, OwnInv, TablesStayWhileRead, CtorPC, DtorPC, CompilePC, PC, Status
<1>1. CASE UNCHANGED vars
  BY <1>1
<1>2. ASSUME NEW t \in Threads, NewCall(t) PROVE TablesStayWhileRead'
  BY <1>2 DEF NewCall, CallInitialize, CallCompile
<1>3. ASSUME NEW t \in Threads, Release(t) PROVE TablesStayWhileRead'
  BY <1>3 DEF Release, CallRelease, InUse
<1>4. ASSUME NEW t \in Threads, Ctor(t) PROVE TablesStayWhileRead'
  <2>1. CASE LockFirstCall(t)
    BY <2>1 DEF LockFirstCall
  <2>2. CASE MutexExists(t)
    BY <2>2 DEF MutexExists
  <2>3. CASE MutexMissing(t)
    BY <2>3 DEF MutexMissing
  <2>4. CASE CreateMutex(t)
    BY <2>4 DEF CreateMutex
  <2>5. CASE LockInCtor(t)
    BY <2>5 DEF LockInCtor, LockGlslang
  <2>6. CASE CheckCount(t)
    BY <2>6 DEF CheckCount
  <2>7. CASE ShInitialize(t)
    BY <2>7 DEF ShInitialize
  <2>8. CASE CountUp(t)
    BY <2>8 DEF CountUp
  <2>9. CASE CtorReturn(t)
    BY <2>9 DEF CtorReturn
  <2>. QED  BY <1>4, <2>1, <2>2, <2>3, <2>4, <2>5, <2>6, <2>7, <2>8, <2>9 DEF Ctor
<1>5. ASSUME NEW t \in Threads, Dtor(t) PROVE TablesStayWhileRead'
  <2>1. CASE LockInDtor(t)
    BY <2>1 DEF LockInDtor, LockGlslang
  <2>2. CASE CountDown(t)
    BY <2>2 DEF CountDown
  <2>3. CASE ShFinalize(t)
    <3>1. \A u \in Threads : pc[u] # "parse"
      BY <2>3 DEF ShFinalize, GlslangInv, Counted
    <3>. QED  BY <2>3, <3>1 DEF ShFinalize
  <2>4. CASE DtorReturn(t)
    BY <2>4 DEF DtorReturn
  <2>. QED  BY <1>5, <2>1, <2>2, <2>3, <2>4 DEF Dtor
<1>6. ASSUME NEW t \in Threads, Compile(t) PROVE TablesStayWhileRead'
  <2>1. CASE TablesReady(t)
    BY <2>1 DEF TablesReady
  <2>2. CASE StartTables(t)
    BY <2>2 DEF StartTables
  <2>3. CASE PublishTables(t)
    BY <2>3 DEF PublishTables
  <2>4. CASE TablesFail(t)
    BY <2>4 DEF TablesFail
  <2>5. CASE \E k \in Keys : NextPass(t, k)
    BY <2>5 DEF NextPass
  <2>6. CASE CompileReturn(t)
    BY <2>6 DEF CompileReturn
  <2>. QED  BY <1>6, <2>1, <2>2, <2>3, <2>4, <2>5, <2>6 DEF Compile
<1>. QED  BY <1>1, <1>2, <1>3, <1>4, <1>5, <1>6 DEF Next, Proceed

(* Which steps change the set of counted initializers.                     *)
LEMMA CountedSteps ==
  ASSUME IInv, [Next]_vars
  PROVE  \/ Counted' = Counted /\ initialize_count_' = initialize_count_
         \/ \E c \in Compilers \ Counted :
               /\ Counted' = Counted \cup {c}
               /\ initialize_count_' = initialize_count_ + 1
         \/ \E c \in Counted :
               /\ Counted' = Counted \ {c}
               /\ initialize_count_' = initialize_count_ - 1
<1> USE DEF IInv, TypeOK, OwnInv, Counted, CtorPC, DtorPC, CompilePC, PC, Status
<1> DEFINE Same == Counted' = Counted /\ initialize_count_' = initialize_count_
<1>1. CASE UNCHANGED vars
  BY <1>1
<1>2. ASSUME NEW t \in Threads, NewCall(t) PROVE Same
  BY <1>2 DEF NewCall, CallInitialize, CallCompile
<1>3. ASSUME NEW t \in Threads, Release(t) PROVE Same
  BY <1>3 DEF Release, CallRelease
<1>4. ASSUME NEW t \in Threads, Ctor(t), ~CountUp(t) PROVE Same
  <2>1. CASE CtorReturn(t)
    BY <2>1 DEF CtorReturn
  <2>2. CASE ~CtorReturn(t)
    BY <1>4, <2>2 DEF Ctor, LockFirstCall, MutexExists, MutexMissing, CreateMutex,
       LockInCtor, LockGlslang, CheckCount, ShInitialize
  <2>. QED  BY <2>1, <2>2
<1>5. ASSUME NEW t \in Threads, CountUp(t)
      PROVE  /\ arg[t] \in Compilers \ Counted
             /\ Counted' = Counted \cup {arg[t]}
             /\ initialize_count_' = initialize_count_ + 1
  BY <1>5 DEF CountUp
<1>6. ASSUME NEW t \in Threads, Dtor(t), ~CountDown(t) PROVE Same
  BY <1>6 DEF Dtor, LockInDtor, LockGlslang, ShFinalize, DtorReturn
<1>7. ASSUME NEW t \in Threads, CountDown(t)
      PROVE  /\ arg[t] \in Counted
             /\ Counted' = Counted \ {arg[t]}
             /\ initialize_count_' = initialize_count_ - 1
  BY <1>7 DEF CountDown
<1>8. ASSUME NEW t \in Threads, Compile(t) PROVE Same
  BY <1>8 DEF Compile, TablesReady, StartTables, PublishTables, TablesFail,
              NextPass, CompileReturn
<1>. QED  BY <1>1, <1>2, <1>3, <1>4, <1>5, <1>6, <1>7, <1>8 DEF Next, Proceed

LEMMA NextCount ==
  ASSUME IInv, [Next]_vars
  PROVE  CountMatches'
<1>1. IsFiniteSet(Counted) /\ Cardinality(Counted) \in Nat
  BY CountedFinite, FS_CardinalityType
<1>2. CASE Counted' = Counted /\ initialize_count_' = initialize_count_
  BY <1>2 DEF IInv, CountMatches
<1>3. ASSUME NEW c \in Compilers \ Counted,
             Counted' = Counted \cup {c}, initialize_count_' = initialize_count_ + 1
      PROVE  CountMatches'
  BY <1>1, <1>3, FS_AddElement DEF IInv, CountMatches
<1>4. ASSUME NEW c \in Counted,
             Counted' = Counted \ {c}, initialize_count_' = initialize_count_ - 1
      PROVE  CountMatches'
  BY <1>1, <1>4, FS_RemoveElement DEF IInv, CountMatches
<1>. QED  BY <1>2, <1>3, <1>4, CountedSteps

(* The test of the count is the test of emptiness.                         *)
LEMMA CountIsZero ==
  ASSUME TypeOK, CountMatches
  PROVE  initialize_count_ = 0 <=> Counted = {}
  BY CountedFinite, FS_EmptySet DEF CountMatches

LEMMA NextGlslang ==
  ASSUME IInv, [Next]_vars
  PROVE  GlslangInv'
<1> USE DEF IInv, TypeOK, FirstCallInv, LockInv, OwnInv, GlslangInv, Counted,
             Up, Critical, CtorPC, DtorPC, CompilePC, PC, Status
<1>1. CASE UNCHANGED vars
  BY <1>1
<1>2. ASSUME NEW t \in Threads, NewCall(t) PROVE GlslangInv'
  BY <1>2 DEF NewCall, CallInitialize, CallCompile
<1>3. ASSUME NEW t \in Threads, Release(t) PROVE GlslangInv'
  BY <1>3 DEF Release, CallRelease, InUse
<1>4. ASSUME NEW t \in Threads, Ctor(t) PROVE GlslangInv'
  <2>1. CASE LockFirstCall(t)
    BY <2>1 DEF LockFirstCall
  <2>2. CASE MutexExists(t)
    BY <2>2 DEF MutexExists
  <2>3. CASE MutexMissing(t)
    BY <2>3 DEF MutexMissing
  <2>4. CASE CreateMutex(t)
    BY <2>4 DEF CreateMutex
  <2>5. CASE LockInCtor(t)
    BY <2>5 DEF LockInCtor, LockGlslang
  <2>6. CASE CheckCount(t)
    BY <2>6, CountIsZero DEF CheckCount
  <2>7. CASE ShInitialize(t)
    BY <2>7 DEF ShInitialize
  <2>8. CASE CountUp(t)
    BY <2>8 DEF CountUp
  <2>9. CASE CtorReturn(t)
    BY <2>9 DEF CtorReturn
  <2>. QED  BY <1>4, <2>1, <2>2, <2>3, <2>4, <2>5, <2>6, <2>7, <2>8, <2>9 DEF Ctor
<1>5. ASSUME NEW t \in Threads, Dtor(t) PROVE GlslangInv'
  <2>1. CASE LockInDtor(t)
    BY <2>1 DEF LockInDtor, LockGlslang
  <2>2. CASE CountDown(t)
    <3>1. initialize_count_' = 0 <=> Counted' = {}
      <4>1. IsFiniteSet(Counted')
        BY CompilersFinite, FS_Subset
      <4>. QED  BY <4>1, NextCount, FS_EmptySet DEF CountMatches
    <3>2. arg[t] \in Counted
      BY <2>2 DEF CountDown
    <3>3. \A u \in Threads : pc[u] \in Critical => u = t
      BY <2>2 DEF CountDown
    <3>4. pc'[t] = IF Counted' = {} THEN "sh_finalize" ELSE "dtor_return"
      BY <2>2, <3>1 DEF CountDown
    <3>. QED  BY <2>2, <3>2, <3>3, <3>4 DEF CountDown
  <2>3. CASE ShFinalize(t)
    BY <2>3 DEF ShFinalize
  <2>4. CASE DtorReturn(t)
    BY <2>4 DEF DtorReturn
  <2>. QED  BY <1>5, <2>1, <2>2, <2>3, <2>4 DEF Dtor
<1>6. ASSUME NEW t \in Threads, Compile(t) PROVE GlslangInv'
  <2>1. CASE TablesReady(t)
    BY <2>1 DEF TablesReady
  <2>2. CASE StartTables(t)
    BY <2>2 DEF StartTables
  <2>3. CASE PublishTables(t)
    BY <2>3 DEF PublishTables
  <2>4. CASE TablesFail(t)
    BY <2>4 DEF TablesFail
  <2>5. CASE \E k \in Keys : NextPass(t, k)
    BY <2>5 DEF NextPass
  <2>6. CASE CompileReturn(t)
    BY <2>6 DEF CompileReturn
  <2>. QED  BY <1>6, <2>1, <2>2, <2>3, <2>4, <2>5, <2>6 DEF Compile
<1>. QED  BY <1>1, <1>2, <1>3, <1>4, <1>5, <1>6 DEF Next, Proceed

LEMMA NextIInv == IInv /\ [Next]_vars => IInv'
  BY NextFirstCall, NextLock, NextOwn, NextType, NextCount, NextGlslang,
     NextTables DEF IInv

-----------------------------------------------------------------------------
(* The theorems.                                                           *)

(* The inductive invariant holds in every reachable state.                 *)
THEOREM Invariance == Spec => []IInv
  BY InitIInv, NextIInv, PTL DEF Spec

(* Every variable keeps its type; the unsigned count never passes below 0. *)
THEOREM TypeCorrect == Spec => []TypeOK
<1>1. IInv => TypeOK
  BY DEF IInv
<1>. QED  BY <1>1, Invariance, PTL

(* One mutex is ever allocated and nobody locks through a null pointer.    *)
THEOREM MutexAllocatedOnce == Spec => []OneMutex
<1>1. IInv => OneMutex
  BY DEF IInv, FirstCallInv, OneMutex, TypeOK, CtorPC, DtorPC
<1>. QED  BY <1>1, Invariance, PTL

(* Constructors and destructors of initializers exclude each other.        *)
THEOREM Exclusion == Spec => []MutualExclusion
<1>1. IInv => MutualExclusion
  BY DEF IInv, LockInv, MutualExclusion
<1>. QED  BY <1>1, Invariance, PTL

(* initialize_count_ is the number of initializers that are counted in.    *)
THEOREM CountCorrect == Spec => []CountMatches
<1>1. IInv => CountMatches
  BY DEF IInv
<1>. QED  BY <1>1, Invariance, PTL

(* glslang is up, once, for as long as any thread compiles.                *)
THEOREM GlslangUpWhileCompiling == Spec => []UpWhileCompiling
<1>1. IInv => UpWhileCompiling
  BY DEF IInv, TypeOK, OwnInv, GlslangInv, Counted, UpWhileCompiling, Up, CompilePC
<1>. QED  BY <1>1, Invariance, PTL

(* The built-in tables that a pass reads without a lock are not freed.     *)
THEOREM TablesAreStable == Spec => []TablesStayWhileRead
<1>1. IInv => TablesStayWhileRead
  BY DEF IInv
<1>. QED  BY <1>1, Invariance, PTL

(* Between critical sections glslang is up iff some initializer exists.    *)
THEOREM ReclaimedWithLast == Spec => []UpIffNeeded
<1>1. IInv => UpIffNeeded
  BY DEF IInv, GlslangInv, UpIffNeeded, Up, Critical
<1>. QED  BY <1>1, Invariance, PTL

-----------------------------------------------------------------------------
(* The refinement.                                                         *)

(* The initial states are initial states of the abstract service.          *)
LEMMA InitImplements == Init => Service!SInit
  BY DEF Init, Service!SInit, Counted, Up

(* The step of the service that a step of the locks amounts to.            *)
LEMMA NextImplements == IInv /\ [Next]_vars => [Service!SNext]_(Service!svars)
<1> SUFFICES ASSUME IInv, [Next]_vars
             PROVE  Service!SNext \/ UNCHANGED Service!svars
  OBVIOUS
<1> USE DEF IInv, TypeOK, OwnInv, Counted, Up, CtorPC, DtorPC, CompilePC, PC, Status
<1> DEFINE Users == {t \in Threads : pc[t] \in {"build", "parse"}}
<1> DEFINE Same == Up' = Up /\ Counted' = Counted /\ Users' = Users
<1>0. Same => UNCHANGED Service!svars
  BY DEF Service!svars
<1>1. CASE UNCHANGED vars
  <2>. Same
    BY <1>1
  <2>. QED  BY <1>0
<1>2. ASSUME NEW t \in Threads, NewCall(t) PROVE Same
  BY <1>2 DEF NewCall, CallInitialize, CallCompile
<1>3. ASSUME NEW t \in Threads, Release(t) PROVE Same
  BY <1>3 DEF Release, CallRelease
<1>4. ASSUME NEW t \in Threads, Ctor(t) PROVE Service!SNext \/ UNCHANGED Service!svars
  <2>1. CASE ShInitialize(t)
    <3>. Service!Start
      BY <2>1 DEF ShInitialize, Service!Start, GlslangInv
    <3>. QED  BY DEF Service!SNext
  <2>2. CASE CountUp(t)
    <3>1. PICK c \in Compilers : c = arg[t]
      OBVIOUS
    <3>2. Service!Join(c)
      BY <2>2, <3>1 DEF CountUp, Service!Join, GlslangInv
    <3>. QED  BY <3>2 DEF Service!SNext
  <2>3. CASE CtorReturn(t)
    <3>. Same
      BY <2>3 DEF CtorReturn
    <3>. QED  BY <1>0
  <2>4. CASE ~ShInitialize(t) /\ ~CountUp(t) /\ ~CtorReturn(t)
    <3>. Same
      BY <1>4, <2>4 DEF Ctor, LockFirstCall, MutexExists, MutexMissing,
         CreateMutex, LockInCtor, LockGlslang, CheckCount
    <3>. QED  BY <1>0
  <2>. QED  BY <2>1, <2>2, <2>3, <2>4
<1>5. ASSUME NEW t \in Threads, Dtor(t) PROVE Service!SNext \/ UNCHANGED Service!svars
  <2>1. CASE LockInDtor(t)
    <3>. Same
      BY <2>1 DEF LockInDtor, LockGlslang
    <3>. QED  BY <1>0
  <2>2. CASE CountDown(t)
    <3>1. PICK c \in Compilers : c = arg[t]
      OBVIOUS
    <3>2. Service!Leave(c)
      BY <2>2, <3>1 DEF CountDown, Service!Leave
    <3>. QED  BY <3>2 DEF Service!SNext
  <2>3. CASE ShFinalize(t)
    <3>. Service!Stop
      BY <2>3 DEF ShFinalize, Service!Stop, GlslangInv
    <3>. QED  BY DEF Service!SNext
  <2>4. CASE DtorReturn(t)
    <3>. Same
      BY <2>4 DEF DtorReturn
    <3>. QED  BY <1>0
  <2>. QED  BY <1>5, <2>1, <2>2, <2>3, <2>4 DEF Dtor
<1>6. ASSUME NEW t \in Threads, Compile(t) PROVE Service!SNext \/ UNCHANGED Service!svars
  <2>1. CASE TablesReady(t) \/ StartTables(t)
    <3>. Service!Enter(t)
      BY <2>1 DEF TablesReady, StartTables, Service!Enter, GlslangInv
    <3>. QED  BY DEF Service!SNext
  <2>2. CASE PublishTables(t)
    <3>. Same
      BY <2>2 DEF PublishTables
    <3>. QED  BY <1>0
  <2>3. CASE TablesFail(t) \/ CompileReturn(t) \/ \E k \in Keys : NextPass(t, k)
    <3>. Service!Exit(t)
      BY <2>3 DEF TablesFail, NextPass, CompileReturn, Service!Exit
    <3>. QED  BY DEF Service!SNext
  <2>. QED  BY <1>6, <2>1, <2>2, <2>3 DEF Compile
<1>. QED  BY <1>0, <1>1, <1>2, <1>3, <1>4, <1>5, <1>6 DEF Next, Proceed

(* The initializers, with their locks, counts and glslang's own lifetime,  *)
(* implement the abstract service: started before anyone joins, stopped    *)
(* only with no member and nobody inside a compilation.                    *)
THEOREM ServiceImplemented == Spec => Service!SSpec
  BY InitImplements, Invariance, NextImplements, PTL DEF Spec, Service!SSpec
=============================================================================
