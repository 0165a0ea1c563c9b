-------------------------- MODULE IncludeCallbacks --------------------------
(***************************************************************************)
(* #include processing.  A compilation makes an InternalFileIncluder       *)
(* (shaderc.cc) out of the callbacks in its options; glslang's             *)
(* preprocessor asks it for a file, keeps the answer while it scans the    *)
(* file and gives it back.  The client's callbacks own the results: each   *)
(* one that the resolver returns must come back to the releaser once, when *)
(* nothing reads it any more, on every path: a search that fails, an empty *)
(* file, a parse that gives up inside an include, a resolver that throws.  *)
(*                                                                         *)
(* Several threads compile with the same options; each has its own         *)
(* includer, and all of them call the same callbacks.                      *)
(***************************************************************************)
EXTENDS Naturals, SequencesExt

CONSTANTS Threads,     \* threads that compile
          Results,     \* the client's shaderc_include_result objects
          Null,        \* no result (a null userData)
          Callbacks,   \* the callback pairs the options may hold, see AllCallbacks
          MaxDirectives, \* bound: #include directives a source executes in a pass
          Throws       \* whether the client's resolver may throw

AllCallbacks == {"none", "both", "resolver", "releaser"}

ASSUME CallbacksAssumption == Callbacks \subseteq AllCallbacks
ASSUME NullAssumption == Null \notin Results
ASSUME BoundAssumption == MaxDirectives \in Nat /\ Throws \in BOOLEAN

VARIABLES
  callbacks,               \* which of the two function pointers are set
  pc,                      \* what each compilation is doing
  include_mutex_,          \* its includer's mutex is locked
  num_include_directives_, \* its includer's counter
  res,                     \* the IncludeResult CPPinclude has in hand
  includeStack,            \* the files it is inside of, innermost last
  pass,                    \* 1 preprocessing, 2 parsing
  directives,              \* directives executed so far (the bound)
  ledger,                  \* client: results out to this compilation, oldest first
  bogus                    \* client: the releaser got something it had not given

includer == <<include_mutex_, num_include_directives_>>
preprocessor == <<res, includeStack, pass, directives>>
client == <<ledger, bogus>>
vars == <<callbacks, pc, includer, preprocessor, client>>

(* An IncludeResult: the client's object behind it, and what it holds.     *)
(* "failed" has an empty header name, "empty" a name and no text.          *)
NoInclude == [result |-> Null, holds |-> "nothing"]
IncludeResult == [result : Results \cup {Null},
                  holds : {"nothing", "failed", "empty", "text"}]

PC == {"idle", "scan", "local", "system", "resolve_local", "resolve_system",
       "got_local", "got_system", "between", "unwind"}

Init ==
  /\ callbacks \in Callbacks
  /\ pc = [t \in Threads |-> "idle"]
  /\ include_mutex_ = [t \in Threads |-> FALSE]
  /\ num_include_directives_ = [t \in Threads |-> 0]
  /\ res = [t \in Threads |-> NoInclude]
  /\ includeStack = [t \in Threads |-> <<>>]
  /\ pass = [t \in Threads |-> 1]
  /\ directives = [t \in Threads |-> 0]
  /\ ledger = [t \in Threads |-> <<>>]
  /\ bogus = FALSE

Goto(t, l) == pc' = [pc EXCEPT ![t] = l]

Outstanding == UNION {ToSet(ledger[t]) : t \in Threads}

AreValidCallbacks == callbacks = "both"
ReleaserSet == callbacks \in {"both", "releaser"}

-----------------------------------------------------------------------------
(* The client's side of the two callbacks.                                 *)

Gives(t, r) == ledger' = [ledger EXCEPT ![t] = Append(@, r)] /\ UNCHANGED bogus

GetsBack(t, r) ==
  \/ /\ \E i \in DOMAIN ledger[t] :
          ledger[t][i] = r /\ ledger' = [ledger EXCEPT ![t] = RemoveAt(@, i)]
     /\ UNCHANGED bogus
  \/ /\ ~Contains(ledger[t], r)
     /\ bogus' = TRUE
     /\ UNCHANGED ledger

(* Mutant of ReleaseInclude: the releaser is called without looking.       *)
ReleaseUnchecked(t, r) == GetsBack(t, r)

(* InternalFileIncluder::release_delegate: a releaser is called with       *)
(* whatever stands behind the IncludeResult.  It takes no mutex.           *)
ReleaseInclude(t, r) ==
  IF ReleaserSet THEN GetsBack(t, r) ELSE UNCHANGED client

-----------------------------------------------------------------------------
(* A compilation starts: a fresh includer; a known stage skips pass 1.     *)
Start(t) ==
  /\ pc[t] = "idle"
  /\ Goto(t, "scan")
  /\ \E p \in {1, 2} : pass' = [pass EXCEPT ![t] = p]
  /\ include_mutex_' = [include_mutex_ EXCEPT ![t] = FALSE]
  /\ num_include_directives_' = [num_include_directives_ EXCEPT ![t] = 0]
  /\ directives' = [directives EXCEPT ![t] = 0]
  /\ UNCHANGED <<callbacks, res, includeStack, client>>

(* TPpContext::CPPinclude: "name" looks locally first, <name> does not.    *)
Directive(t, style) ==
  /\ pc[t] = "scan"
  /\ directives[t] < MaxDirectives
  /\ directives' = [directives EXCEPT ![t] = @ + 1]
  /\ Goto(t, style)
  /\ UNCHANGED <<callbacks, includer, res, includeStack, pass, client>>

(* Mutant of CallIncluder: only the system search is counted.              *)
CallIncluderMiscounts(t, style, resolve) ==
  /\ pc[t] = style
  /\ ~include_mutex_[t]
  /\ include_mutex_' = [include_mutex_ EXCEPT ![t] = TRUE]
  /\ num_include_directives_' =
       [num_include_directives_ EXCEPT ![t] = IF style = "system" THEN @ + 1 ELSE @]
  /\ Goto(t, resolve)
  /\ UNCHANGED <<callbacks, preprocessor, client>>

(* CountingIncluder::includeLocal and includeSystem: count, lock, resolve. *)
CallIncluder(t, style, resolve) ==
  /\ pc[t] = style
  /\ ~include_mutex_[t]
  /\ include_mutex_' = [include_mutex_ EXCEPT ![t] = TRUE]
  /\ num_include_directives_' = [num_include_directives_ EXCEPT ![t] = @ + 1]
  /\ Goto(t, resolve)
  /\ UNCHANGED <<callbacks, preprocessor, client>>

(* Mutant of Return: the mutex stays locked.                               *)
ReturnLocked(t, ir) ==
  /\ res' = [res EXCEPT ![t] = ir]
  /\ Goto(t, IF pc[t] = "resolve_local" THEN "got_local" ELSE "got_system")
  /\ UNCHANGED <<callbacks, includer, includeStack, pass, directives>>

IncludeLocal(t) == CallIncluder(t, "local", "resolve_local")
IncludeSystem(t) == CallIncluder(t, "system", "resolve_system")

Return(t, ir) ==
  /\ res' = [res EXCEPT ![t] = ir]
  /\ include_mutex_' = [include_mutex_ EXCEPT ![t] = FALSE]
  /\ Goto(t, IF pc[t] = "resolve_local" THEN "got_local" ELSE "got_system")
  /\ UNCHANGED <<callbacks, num_include_directives_, includeStack, pass, directives>>

(* InternalFileIncluder::include_delegate without a pair of callbacks: an  *)
(* error of its own, with nothing of the client's behind it.               *)
UnexpectedInclude(t) ==
  /\ pc[t] \in {"resolve_local", "resolve_system"}
  /\ ~AreValidCallbacks
  /\ Return(t, [result |-> Null, holds |-> "failed"])
  /\ UNCHANGED client

(* The client's resolver answers, with an object it is not already using.  *)
Resolved(t, r, what) ==
  /\ pc[t] \in {"resolve_local", "resolve_system"}
  /\ AreValidCallbacks
  /\ r \notin Outstanding
  /\ Return(t, [result |-> r, holds |-> what])
  /\ Gives(t, r)

(* The client's resolver throws: unlock() is skipped, the preprocessor is  *)
(* unwound.                                                                *)
ResolverThrows(t) ==
  /\ Throws
  /\ pc[t] \in {"resolve_local", "resolve_system"}
  /\ AreValidCallbacks
  /\ Goto(t, "unwind")
  /\ UNCHANGED <<callbacks, includer, preprocessor, client>>

(* Mutant of LocalFailed: the failed local result is not released.         *)
LocalFailedLeaks(t) ==
  /\ pc[t] = "got_local"
  /\ res[t].holds = "failed"
  /\ res' = [res EXCEPT ![t] = NoInclude]
  /\ Goto(t, "system")
  /\ UNCHANGED <<callbacks, includer, includeStack, pass, directives, client>>

(* A failed local search is released before the system search.             *)
LocalFailed(t) ==
  /\ pc[t] = "got_local"
  /\ res[t].holds = "failed"
  /\ ReleaseInclude(t, res[t].result)
  /\ res' = [res EXCEPT ![t] = NoInclude]
  /\ Goto(t, "system")
  /\ UNCHANGED <<callbacks, includer, includeStack, pass, directives>>

(* Mutant of Enter: the header name is not tested.                         *)
EnterUnchecked(t) ==
  /\ pc[t] \in {"got_local", "got_system"}
  /\ includeStack' = [includeStack EXCEPT ![t] = Append(@, res[t].result)]
  /\ res' = [res EXCEPT ![t] = NoInclude]
  /\ Goto(t, "scan")
  /\ UNCHANGED <<callbacks, includer, pass, directives, client>>

(* A file with text: its IncludeResult goes with the input that scans it.  *)
Enter(t) ==
  /\ pc[t] \in {"got_local", "got_system"}
  /\ res[t].holds = "text"
  /\ includeStack' = [includeStack EXCEPT ![t] = Append(@, res[t].result)]
  /\ res' = [res EXCEPT ![t] = NoInclude]
  /\ Goto(t, "scan")
  /\ UNCHANGED <<callbacks, includer, pass, directives, client>>

(* An empty file, or an error after the last search: released on the spot. *)
NothingToScan(t) ==
  /\ \/ pc[t] \in {"got_local", "got_system"} /\ res[t].holds = "empty"
     \/ pc[t] = "got_system" /\ res[t].holds = "failed"
  /\ ReleaseInclude(t, res[t].result)
  /\ res' = [res EXCEPT ![t] = NoInclude]
  /\ Goto(t, "scan")
  /\ UNCHANGED <<callbacks, includer, includeStack, pass, directives>>

(* Mutant of PopInclude: takes the outermost file.                         *)
PopOutermost(t) ==
  /\ includeStack[t] # <<>>
  /\ ReleaseInclude(t, Head(includeStack[t]))
  /\ includeStack' = [includeStack EXCEPT ![t] = Tail(@)]

(* TPpContext::pop_include.                                                *)
PopInclude(t) ==
  /\ includeStack[t] # <<>>
  /\ ReleaseInclude(t, Last(includeStack[t]))
  /\ includeStack' = [includeStack EXCEPT ![t] = Front(@)]

EndOfFile(t) ==
  /\ pc[t] = "scan"
  /\ PopInclude(t)
  /\ UNCHANGED <<callbacks, pc, includer, res, pass, directives>>

(* The root source is through; the preprocessing pass may be the only one. *)
EndOfPass(t) ==
  /\ pc[t] = "scan"
  /\ includeStack[t] = <<>>
  /\ \E l \in IF pass[t] = 1 THEN {"between", "idle"} ELSE {"idle"} : Goto(t, l)
  /\ UNCHANGED <<callbacks, includer, preprocessor, client>>

(* Compiler::Compile goes on to parse, with the same includer.             *)
ParsePass(t) ==
  /\ pc[t] = "between"
  /\ pass' = [pass EXCEPT ![t] = 2]
  /\ directives' = [directives EXCEPT ![t] = 0]
  /\ Goto(t, "scan")
  /\ UNCHANGED <<callbacks, includer, res, includeStack, client>>

(* The parser gives up wherever it is.                                     *)
GiveUp(t) ==
  /\ pc[t] = "scan"
  /\ includeStack[t] # <<>>
  /\ Goto(t, "unwind")
  /\ UNCHANGED <<callbacks, includer, preprocessor, client>>

(* Mutant of UnwindDone: the inputs that are left are not popped.          *)
UnwindNothing(t) ==
  /\ pc[t] = "unwind"
  /\ Goto(t, "idle")
  /\ UNCHANGED <<callbacks, includer, preprocessor, client>>

(* TPpContext::~TPpContext pops the inputs that are left; then the includer*)
(* goes, locked or not, and the exception (if any) ends in shaderc's catch.*)
UnwindOne(t) ==
  /\ pc[t] = "unwind"
  /\ PopInclude(t)
  /\ UNCHANGED <<callbacks, pc, includer, res, pass, directives>>

UnwindDone(t) ==
  /\ pc[t] = "unwind"
  /\ includeStack[t] = <<>>
  /\ Goto(t, "idle")
  /\ UNCHANGED <<callbacks, includer, preprocessor, client>>

-----------------------------------------------------------------------------
ResolverReturns(t) ==
  \/ UnexpectedInclude(t)
  \/ ResolverThrows(t)
  \/ \E r \in Results, what \in {"failed", "empty", "text"} : Resolved(t, r, what)

Proceed(t) ==
  \/ IncludeLocal(t) \/ IncludeSystem(t) \/ ResolverReturns(t)
  \/ LocalFailed(t) \/ Enter(t) \/ NothingToScan(t)
  \/ EndOfFile(t) \/ EndOfPass(t) \/ ParsePass(t)
  \/ UnwindOne(t) \/ UnwindDone(t)

Next == \E t \in Threads :
          \/ Start(t) \/ GiveUp(t) \/ Proceed(t)
          \/ \E style \in {"local", "system"} : Directive(t, style)

Spec == Init /\ [][Next]_vars

-----------------------------------------------------------------------------
(* Properties.                                                             *)

(* Every variable keeps its type.                                          *)
TypeOK ==
  /\ callbacks \in Callbacks
  /\ pc \in [Threads -> PC]
  /\ include_mutex_ \in [Threads -> BOOLEAN]
  /\ num_include_directives_ \in [Threads -> Nat]
  /\ res \in [Threads -> IncludeResult]
  /\ includeStack \in [Threads -> Seq(Results)]
  /\ pass \in [Threads -> {1, 2}]
  /\ directives \in [Threads -> 0 .. MaxDirectives]
  /\ ledger \in [Threads -> Seq(Results)]
  /\ bogus \in BOOLEAN

(* shaderc.h:335-341: what the client has out is exactly what glslang      *)
(* still reads: the files it is inside of, and the answer in hand.  A file *)
(* is never read after its release, and no answer is forgotten.            *)
LedgerMatches ==
  callbacks = "both" =>
    \A t \in Threads :
      ledger[t] = includeStack[t] \o
                  IF res[t].result = Null THEN <<>> ELSE <<res[t].result>>

(* When a compile call is over, by whatever path, the client has every     *)
(* result back.                                                            *)
NothingLeaks == \A t \in Threads : pc[t] = "idle" => ledger[t] = <<>>

(* The releaser is called with results of the resolver only, each once     *)
(* (shaderc.h:335-341) - except when the options have a releaser and no    *)
(* resolver: then it is given the library's own error result, without a    *)
(* look at its userData (release_delegate).                                *)
OnlyResolvedAreReleased == callbacks # "releaser" => ~bogus

(* counting_includer.h:50-54 and 62-66: unlock() is skipped when the       *)
(* resolver throws; that includer is never asked to include again.         *)
MutexIsFree ==
  \A t \in Threads : pc[t] \in {"local", "system"} => ~include_mutex_[t]

(* compiler.cc:559-590: after the preprocessing pass the counter is nonzero*)
(* iff the source executed an #include, whichever way the search went.     *)
CounterTellsIncludes ==
  \A t \in Threads :
    pc[t] = "between" => (num_include_directives_[t] > 0 <=> directives[t] > 0)

(* Results come back in the reverse of the order they were given, so that  *)
(* a client may keep them on a stack.                                      *)
LastInFirstOut ==
  [][\A t \in Threads :
       Len(ledger'[t]) < Len(ledger[t]) => ledger'[t] = Front(ledger[t])]_vars
=============================================================================
