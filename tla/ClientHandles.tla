---------------------------- MODULE ClientHandles ----------------------------
(***************************************************************************)
(* The C++ wrappers of shaderc.hpp: who owns which C object.  A            *)
(* CompileOptions owns an options object and the includer its callbacks    *)
(* were set up for; the options object points back to that includer        *)
(* (user_data).  Copies clone the options object, moves take it over, and  *)
(* the includer stays where it is.  A Compiler and a CompilationResult own *)
(* a compiler and a result, and hand it on when they are moved; results    *)
(* are also assigned, even onto themselves.                                *)
(***************************************************************************)
EXTENDS FiniteSets

CONSTANTS Wrappers,  \* CompileOptions variables of the client
          Objects,   \* shaderc_compile_options objects
          Includers, \* includers the client makes, each once
          Drivers,   \* Compiler variables of the client
          Compilers, \* shaderc_compiler objects
          Holders,   \* CompilationResult variables of the client
          Results,   \* shaderc_compilation_result objects
          Null

ASSUME NullAssumption == Null \notin Objects \cup Includers \cup Compilers \cup Results

VARIABLES
  wrappers,    \* CompileOptions objects between constructor and destructor
  options_,    \* wrapper -> its C object
  includer_,   \* wrapper -> the includer it owns
  user_data,   \* allocated C object -> the includer its callbacks will use
  made,        \* includers made so far
  transferred, \* wrappers copied or moved into since their last SetIncluder, or
               \* moved from (history)
  drivers,     \* Compiler objects between constructor and destructor
  compiler_,   \* driver -> its C object
  compilers,   \* allocated compilers
  holders,     \* CompilationResult objects between constructor and destructor
  result_,     \* holder -> its C object
  results,     \* allocated results
  released_twice \* a compiler or a result was released that was not allocated (history)

optionVars == <<wrappers, options_, includer_, user_data, made, transferred>>
compilerVars == <<drivers, compiler_, compilers>>
holderVars == <<holders, result_, results>>
resultVars == <<compilerVars, holderVars, released_twice>>
vars == <<optionVars, resultVars>>

Allocated == DOMAIN user_data

Init ==
  /\ wrappers = {}
  /\ options_ = [w \in Wrappers |-> Null]
  /\ includer_ = [w \in Wrappers |-> Null]
  /\ user_data = [o \in {} |-> Null]
  /\ made = {}
  /\ transferred = {}
  /\ drivers = {}
  /\ compiler_ = [c \in Drivers |-> Null]
  /\ compilers = {}
  /\ holders = {}
  /\ result_ = [h \in Holders |-> Null]
  /\ results = {}
  /\ released_twice = FALSE

-----------------------------------------------------------------------------
(* CompileOptions.                                                         *)

With(o, i) == [x \in Allocated \cup {o} |-> IF x = o THEN i ELSE user_data[x]]
Without(o) == [x \in Allocated \ {o} |-> user_data[x]]

Construct(w, o) ==
  /\ w \notin wrappers /\ o \in Objects \ Allocated
  /\ wrappers' = wrappers \cup {w}
  /\ options_' = [options_ EXCEPT ![w] = o]
  /\ user_data' = With(o, Null)
  /\ UNCHANGED <<includer_, made, transferred, resultVars>>

(* Cloning no object makes a new one (shaderc_compile_options_clone).      *)
CopyConstruct(w, v, o) ==
  /\ w \notin wrappers /\ v \in wrappers /\ o \in Objects \ Allocated
  /\ wrappers' = wrappers \cup {w}
  /\ options_' = [options_ EXCEPT ![w] = o]
  /\ user_data' = With(o, IF options_[v] = Null THEN Null ELSE user_data[options_[v]])
  /\ transferred' = transferred \cup {w}
  /\ UNCHANGED <<includer_, made, resultVars>>

(* Mutant of MoveConstruct: the source keeps its pointer.                  *)
MoveConstructShared(w, v) ==
  /\ w \notin wrappers /\ v \in wrappers
  /\ wrappers' = wrappers \cup {w}
  /\ options_' = [options_ EXCEPT ![w] = options_[v]]
  /\ transferred' = transferred \cup {w, v}
  /\ UNCHANGED <<includer_, user_data, made, resultVars>>

MoveConstruct(w, v) ==
  /\ w \notin wrappers /\ v \in wrappers
  /\ wrappers' = wrappers \cup {w}
  /\ options_' = [options_ EXCEPT ![w] = options_[v], ![v] = Null]
  /\ transferred' = transferred \cup {w, v}
  /\ UNCHANGED <<includer_, user_data, made, resultVars>>

(* Mutant of SetIncluder: the pointer is read after the move.              *)
SetIncluderMoved(w, i) ==
  /\ w \in wrappers /\ options_[w] # Null /\ i \notin made
  /\ made' = made \cup {i}
  /\ includer_' = [includer_ EXCEPT ![w] = i]
  /\ user_data' = With(options_[w], Null)
  /\ transferred' = transferred \ {w}
  /\ UNCHANGED <<wrappers, options_, resultVars>>

(* The includer owned so far is destroyed; the new one is made known to    *)
(* the C object.  Clients do not use a wrapper that was moved from.        *)
SetIncluder(w, i) ==
  /\ w \in wrappers /\ options_[w] # Null /\ i \notin made
  /\ made' = made \cup {i}
  /\ includer_' = [includer_ EXCEPT ![w] = i]
  /\ user_data' = With(options_[w], i)
  /\ transferred' = transferred \ {w}
  /\ UNCHANGED <<wrappers, options_, resultVars>>

(* The C object is released, then the includer goes with its owner.        *)
Destroy(w) ==
  /\ w \in wrappers
  /\ wrappers' = wrappers \ {w}
  /\ user_data' = Without(options_[w])
  /\ options_' = [options_ EXCEPT ![w] = Null]
  /\ includer_' = [includer_ EXCEPT ![w] = Null]
  /\ transferred' = transferred \ {w}
  /\ UNCHANGED <<made, resultVars>>

-----------------------------------------------------------------------------
(* Compiler.  It cannot be copied or assigned.                             *)

(* shaderc_compiler_initialize.                                            *)
Start(c, k) ==
  /\ c \notin drivers /\ k \in Compilers \ compilers
  /\ drivers' = drivers \cup {c}
  /\ compiler_' = [compiler_ EXCEPT ![c] = k]
  /\ compilers' = compilers \cup {k}
  /\ UNCHANGED <<holderVars, released_twice, optionVars>>

MoveStart(c, d) ==
  /\ c \notin drivers /\ d \in drivers
  /\ drivers' = drivers \cup {c}
  /\ compiler_' = [compiler_ EXCEPT ![c] = compiler_[d], ![d] = Null]
  /\ UNCHANGED <<compilers, holderVars, released_twice, optionVars>>

(* shaderc_compiler_release; releasing null does nothing.                  *)
Stop(c) ==
  /\ c \in drivers
  /\ drivers' = drivers \ {c}
  /\ compilers' = compilers \ {compiler_[c]}
  /\ released_twice' = (released_twice \/ compiler_[c] \notin compilers \cup {Null})
  /\ compiler_' = [compiler_ EXCEPT ![c] = Null]
  /\ UNCHANGED <<holderVars, optionVars>>

-----------------------------------------------------------------------------
(* CompilationResult.                                                      *)

(* shaderc_result_release; releasing null does nothing.                    *)
ReleaseResult(r) ==
  /\ results' = results \ {r}
  /\ released_twice' = (released_twice \/ r \notin results \cup {Null})

(* The default constructor.                                                *)
Hold(h) ==
  /\ h \notin holders
  /\ holders' = holders \cup {h}
  /\ UNCHANGED <<result_, results, compilerVars, released_twice, optionVars>>

(* A valid Compiler returns the result of a call in a new holder.          *)
Receive(c, h, r) ==
  /\ c \in drivers /\ compiler_[c] # Null
  /\ h \notin holders /\ r \in Results \ results
  /\ holders' = holders \cup {h}
  /\ result_' = [result_ EXCEPT ![h] = r]
  /\ results' = results \cup {r}
  /\ UNCHANGED <<compilerVars, released_twice, optionVars>>

(* Mutant of MoveAssign: what the target held is not released.             *)
MoveAssignOver(h, g) ==
  /\ h \in holders /\ g \in holders
  /\ result_' = [[result_ EXCEPT ![h] = result_[g]] EXCEPT ![g] = Null]
  /\ UNCHANGED <<holders, results, compilerVars, released_twice, optionVars>>

(* operator=: release, take over, clear the source, in this order, also    *)
(* when both are the same object.                                          *)
MoveAssign(h, g) ==
  /\ h \in holders /\ g \in holders
  /\ ReleaseResult(result_[h])
  /\ result_' = [[result_ EXCEPT ![h] = result_[g]] EXCEPT ![g] = Null]
  /\ UNCHANGED <<holders, compilerVars, optionVars>>

(* Mutant of MoveInto: the new object takes the pointer, the source keeps it. *)
MoveIntoShared(h, g) ==
  /\ h \notin holders /\ g \in holders
  /\ holders' = holders \cup {h}
  /\ result_' = [result_ EXCEPT ![h] = result_[g]]
  /\ UNCHANGED <<results, compilerVars, released_twice, optionVars>>

(* The move constructor: null, then operator=.                             *)
MoveInto(h, g) ==
  /\ h \notin holders /\ g \in holders
  /\ holders' = holders \cup {h}
  /\ result_' = [result_ EXCEPT ![h] = result_[g], ![g] = Null]
  /\ UNCHANGED <<results, compilerVars, released_twice, optionVars>>

Drop(h) ==
  /\ h \in holders
  /\ holders' = holders \ {h}
  /\ ReleaseResult(result_[h])
  /\ result_' = [result_ EXCEPT ![h] = Null]
  /\ UNCHANGED <<compilerVars, optionVars>>

Next ==
  \/ \E w \in Wrappers :
       \/ Destroy(w)
       \/ \E o \in Objects : Construct(w, o)
       \/ \E v \in Wrappers, o \in Objects : CopyConstruct(w, v, o)
       \/ \E v \in Wrappers : MoveConstruct(w, v)
       \/ \E i \in Includers : SetIncluder(w, i)
  \/ \E c \in Drivers :
       \/ Stop(c)
       \/ \E k \in Compilers : Start(c, k)
       \/ \E d \in Drivers : MoveStart(c, d)
  \/ \E h \in Holders :
       \/ Drop(h) \/ Hold(h)
       \/ \E c \in Drivers, r \in Results : Receive(c, h, r)
       \/ \E g \in Holders : MoveAssign(h, g) \/ MoveInto(h, g)

Spec == Init /\ [][Next]_vars

-----------------------------------------------------------------------------
(* Properties.                                                             *)

(* Pointers are null or valid, and user_data is null or an includer that   *)
(* was made (the private members of shaderc.hpp's classes).                *)
TypeOK ==
  /\ wrappers \subseteq Wrappers /\ transferred \subseteq wrappers
  /\ options_ \in [Wrappers -> Allocated \cup {Null}]
  /\ includer_ \in [Wrappers -> Includers \cup {Null}]
  /\ Allocated \subseteq Objects
  /\ \A o \in Allocated : user_data[o] \in made \cup {Null}
  /\ made \subseteq Includers
  /\ drivers \subseteq Drivers
  /\ compiler_ \in [Drivers -> compilers \cup {Null}]
  /\ compilers \subseteq Compilers
  /\ holders \subseteq Holders
  /\ result_ \in [Holders -> results \cup {Null}]
  /\ results \subseteq Results
  /\ released_twice \in BOOLEAN

(* Through any copies and moves each options object has one wrapper: none  *)
(* leaks and none is released twice (CompileOptions' constructors and      *)
(* destructor).                                                            *)
OptionsHaveOneOwner ==
  \A o \in Allocated : Cardinality({w \in Wrappers : options_[w] = o}) = 1

(* The same for compilers and results, whose holders may be moved from and *)
(* still be in use, and results' holders be assigned to each other and to  *)
(* themselves (Compiler's and CompilationResult's special members).        *)
HandlesHaveOneOwner ==
  /\ \A k \in compilers : Cardinality({c \in Drivers : compiler_[c] = k}) = 1
  /\ \A r \in results : Cardinality({h \in Holders : result_[h] = r}) = 1
  /\ ~released_twice

(* A wrapper that was not made from another one, or was given an includer  *)
(* of its own since, and was not moved away, calls the includer it owns,   *)
(* also after others were copied from it (SetIncluder).                    *)
OwnIncluderIsCalled ==
  \A w \in wrappers \ transferred : user_data[options_[w]] = includer_[w]

-----------------------------------------------------------------------------
(* What a comment says, and the code does not do.                          *)

(* shaderc.hpp, SetIncluder: callbacks are routed to this includer's       *)
(* methods: an options object never points to an includer that is gone.    *)
IncludersAlive == {includer_[w] : w \in wrappers} \ {Null}
CallbacksReachAnIncluder ==
  \A w \in wrappers :
    options_[w] # Null /\ user_data[options_[w]] # Null =>
      user_data[options_[w]] \in IncludersAlive
=============================================================================
