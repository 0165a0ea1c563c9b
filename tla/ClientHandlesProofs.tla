------------------------- MODULE ClientHandlesProofs -------------------------
(***************************************************************************)
(* Proofs about ClientHandles, for any variables of the client, any C      *)
(* objects and any includers: who owns what, through every sequence of     *)
(* copies, moves and ends.                                                 *)
(***************************************************************************)
EXTENDS ClientHandles, FiniteSetTheorems, TLAPS

(* No two variables hold the same object, every allocated one is held, and *)
(* only living variables hold one.                                         *)
Owned(pointer, Variables, living, allocated) ==
  /\ living \subseteq Variables
  /\ pointer \in [Variables -> allocated \cup {Null}]
  /\ \A v, w \in Variables : pointer[v] = pointer[w] /\ pointer[v] # Null => v = w
  /\ \A o \in allocated : \E w \in Variables : pointer[w] = o
  /\ \A w \in Variables \ living : pointer[w] = Null

OptionsInv ==
  /\ Allocated \subseteq Objects
  /\ Owned(options_, Wrappers, wrappers, Allocated)

CompilersInv ==
  /\ compilers \subseteq Compilers
  /\ Owned(compiler_, Drivers, drivers, compilers)

ResultsInv ==
  /\ results \subseteq Results
  /\ Owned(result_, Holders, holders, results)

(* The includer that the callbacks use is the one owned by the wrapper,    *)
(* where nothing was copied or moved.                                      *)
IncludersInv ==
  /\ made \subseteq Includers
  /\ \A o \in Allocated : user_data[o] \in made \cup {Null}
  /\ transferred \subseteq wrappers
  /\ includer_ \in [Wrappers -> Includers \cup {Null}]
  /\ \A w \in Wrappers \ wrappers : includer_[w] = Null
  /\ \A w \in wrappers \ transferred :
       options_[w] # Null /\ user_data[options_[w]] = includer_[w]

IInv == OptionsInv /\ CompilersInv /\ ResultsInv /\ IncludersInv /\ released_twice = FALSE

-----------------------------------------------------------------------------
(* What moves do to ownership.                                             *)

LEMMA OneOwner ==
  ASSUME NEW pointer, NEW Variables, NEW living, NEW allocated,
         Owned(pointer, Variables, living, allocated), Null \notin allocated,
         NEW o \in allocated
  PROVE  Cardinality({w \in Variables : pointer[w] = o}) = 1
<1>1. PICK w \in Variables : pointer[w] = o
  BY DEF Owned
<1>2. {v \in Variables : pointer[v] = o} = {w}
  BY <1>1 DEF Owned
<1> QED BY <1>2, FS_Singleton

(* A new object in a new variable.                                         *)
LEMMA OwnNew ==
  ASSUME NEW pointer, NEW Variables, NEW living, NEW allocated,
         Owned(pointer, Variables, living, allocated), Null \notin allocated,
         NEW w \in Variables \ living, NEW o, o \notin allocated, o # Null
  PROVE  Owned([pointer EXCEPT ![w] = o], Variables, living \cup {w}, allocated \cup {o})
<1> DEFINE q == [pointer EXCEPT ![w] = o]
<1>1. q \in [Variables -> allocated \cup {o} \cup {Null}]
  BY DEF Owned
<1>2. q[w] = o /\ \A u \in Variables \ {w} : q[u] = pointer[u]
  BY DEF Owned
<1>3. \A u \in Variables : pointer[u] # o
  BY DEF Owned
<1>4. pointer[w] = Null
  BY DEF Owned
<1> HIDE DEF q
<1>5. \A t, u \in Variables : q[t] = q[u] /\ q[t] # Null => t = u
  BY <1>2, <1>3 DEF Owned
<1>6. \A p \in allocated \cup {o} : \E u \in Variables : q[u] = p
  BY <1>2, <1>4 DEF Owned
<1>7. \A u \in Variables \ (living \cup {w}) : q[u] = Null
  BY <1>2 DEF Owned
<1> QED BY <1>1, <1>5, <1>6, <1>7 DEF Owned, q

(* From a living variable into a new one.                                  *)
LEMMA OwnMoved ==
  ASSUME NEW pointer, NEW Variables, NEW living, NEW allocated,
         Owned(pointer, Variables, living, allocated), Null \notin allocated,
         NEW w \in Variables \ living, NEW v \in living
  PROVE  Owned([pointer EXCEPT ![w] = pointer[v], ![v] = Null], Variables,
               living \cup {w}, allocated)
<1> DEFINE q == [pointer EXCEPT ![w] = pointer[v], ![v] = Null]
<1>1. v # w /\ v \in Variables /\ q \in [Variables -> allocated \cup {Null}]
  BY DEF Owned
<1>2. q[v] = Null /\ q[w] = pointer[v] /\ \A u \in Variables \ {v, w} : q[u] = pointer[u]
  BY <1>1 DEF Owned
<1>3. pointer[w] = Null
  BY DEF Owned
<1> HIDE DEF q
<1>4. \A t, u \in Variables : q[t] = q[u] /\ q[t] # Null => t = u
  BY <1>1, <1>2 DEF Owned
<1>5. ASSUME NEW o \in allocated PROVE \E u \in Variables : q[u] = o
  <2>1. PICK u \in Variables : pointer[u] = o
    BY DEF Owned
  <2>2. CASE u = v
    BY <2>1, <2>2, <1>2
  <2>3. CASE u # v
    BY <2>1, <2>3, <1>2, <1>3
  <2> QED BY <2>2, <2>3
<1>6. \A u \in Variables \ (living \cup {w}) : q[u] = Null
  BY <1>1, <1>2 DEF Owned
<1> QED BY <1>1, <1>4, <1>5, <1>6 DEF Owned, q

(* The end of a variable releases what it holds.                           *)
LEMMA OwnEnded ==
  ASSUME NEW pointer, NEW Variables, NEW living, NEW allocated,
         Owned(pointer, Variables, living, allocated), NEW w \in living
  PROVE  Owned([pointer EXCEPT ![w] = Null], Variables, living \ {w},
               allocated \ {pointer[w]})
BY DEF Owned

(* A living variable takes over from another, or from itself, after it     *)
(* released what it held.                                                  *)
LEMMA OwnAssigned ==
  ASSUME NEW pointer, NEW Variables, NEW living, NEW allocated,
         Owned(pointer, Variables, living, allocated), Null \notin allocated,
         NEW h \in living, NEW g \in living
  PROVE  Owned([[pointer EXCEPT ![h] = pointer[g]] EXCEPT ![g] = Null], Variables,
               living, allocated \ {pointer[h]})
<1> DEFINE q == [[pointer EXCEPT ![h] = pointer[g]] EXCEPT ![g] = Null]
           left == allocated \ {pointer[h]}
<1>1. h \in Variables /\ g \in Variables
  BY DEF Owned
<1>2. q[g] = Null /\ (h # g => q[h] = pointer[g])
        /\ \A u \in Variables \ {g, h} : q[u] = pointer[u]
  BY <1>1 DEF Owned
<1>3. \A u \in Variables : u # h /\ pointer[u] # Null => pointer[u] \in left
  BY <1>1 DEF Owned
<1>4. q \in [Variables -> left \cup {Null}]
  <2>1. \A u \in Variables : q[u] \in left \cup {Null}
    BY <1>1, <1>2, <1>3
  <2>2. q \in [Variables -> allocated \cup {Null}]
    BY <1>1 DEF Owned
  <2> QED BY <2>1, <2>2
<1> HIDE DEF q
<1>5. \A t, u \in Variables : q[t] = q[u] /\ q[t] # Null => t = u
  BY <1>1, <1>2 DEF Owned
<1>6. ASSUME NEW o \in left PROVE \E u \in Variables : q[u] = o
  <2>1. PICK u \in Variables : pointer[u] = o
    BY DEF Owned
  <2>2. u # h
    BY <2>1
  <2>3. CASE u = g
    BY <2>1, <2>2, <2>3, <1>1, <1>2
  <2>4. CASE u # g
    BY <2>1, <2>2, <2>4, <1>2
  <2> QED BY <2>3, <2>4
<1>7. \A u \in Variables \ living : q[u] = Null
  BY <1>1, <1>2 DEF Owned
<1> HIDE DEF left
<1>8. living \subseteq Variables
  BY DEF Owned
<1>9. Owned(q, Variables, living, left)
  BY <1>4, <1>5, <1>6, <1>7, <1>8 DEF Owned
<1> QED BY <1>9 DEF q, left

-----------------------------------------------------------------------------
(* The invariant.                                                          *)

LEMMA InitIInv == Init => IInv
<1> SUFFICES ASSUME Init PROVE IInv
  OBVIOUS
<1>1. OptionsInv
  BY DEF Init, OptionsInv, Owned, Allocated
<1>2. CompilersInv
  BY DEF Init, CompilersInv, Owned
<1>3. ResultsInv
  BY DEF Init, ResultsInv, Owned
<1>4. IncludersInv
  BY DEF Init, IncludersInv, Allocated
<1> QED BY <1>1, <1>2, <1>3, <1>4 DEF Init, IInv

(* The steps of CompileOptions leave the other handles alone, and the      *)
(* other way round.                                                        *)
LEMMA OthersKept ==
  ASSUME IInv
  PROVE  /\ UNCHANGED resultVars => CompilersInv' /\ ResultsInv' /\ released_twice' = FALSE
         /\ UNCHANGED optionVars => OptionsInv' /\ IncludersInv'
<1>1. ASSUME UNCHANGED resultVars
      PROVE  CompilersInv' /\ ResultsInv' /\ released_twice' = FALSE
  BY <1>1 DEF IInv, CompilersInv, ResultsInv, Owned, resultVars, compilerVars, holderVars
<1>2. ASSUME UNCHANGED optionVars
      PROVE  OptionsInv' /\ IncludersInv'
  BY <1>2 DEF IInv, OptionsInv, IncludersInv, Owned, Allocated, optionVars
<1> QED BY <1>1, <1>2

LEMMA OptionsStep ==
  ASSUME IInv, NEW w \in Wrappers,
         \/ Destroy(w)
         \/ \E o \in Objects : Construct(w, o)
         \/ \E v \in Wrappers, o \in Objects : CopyConstruct(w, v, o)
         \/ \E v \in Wrappers : MoveConstruct(w, v)
         \/ \E i \in Includers : SetIncluder(w, i)
  PROVE  OptionsInv' /\ IncludersInv'
<1> USE NullAssumption DEF IInv
<1>1. CASE Destroy(w)
  <2>1. Allocated' = Allocated \ {options_[w]} /\ \A x \in Allocated' : user_data'[x] = user_data[x]
    BY <1>1 DEF Destroy, Without, Allocated
  <2>2. OptionsInv'
    BY <1>1, <2>1, OwnEnded DEF OptionsInv, Destroy
  <2>3. ASSUME NEW v \in wrappers' \ transferred'
        PROVE  options_'[v] # Null /\ user_data'[options_'[v]] = includer_'[v]
    <3>1. v # w /\ v \in wrappers \ transferred /\ v \in Wrappers
      BY <1>1 DEF Destroy, OptionsInv, Owned
    <3>2. options_'[v] = options_[v] /\ includer_'[v] = includer_[v]
      BY <1>1, <3>1 DEF Destroy, OptionsInv, Owned, IncludersInv
    <3>3. options_[v] \in Allocated'
      BY <2>1, <3>1 DEF OptionsInv, Owned, IncludersInv
    <3> QED BY <2>1, <3>1, <3>2, <3>3 DEF IncludersInv
  <2>4. IncludersInv'
    BY <1>1, <2>1, <2>3 DEF Destroy, IncludersInv
  <2> QED BY <2>2, <2>4
<1>2. ASSUME NEW o \in Objects, Construct(w, o) PROVE OptionsInv' /\ IncludersInv'
  <2>1. /\ Allocated' = Allocated \cup {o} /\ user_data'[o] = Null
        /\ \A x \in Allocated : user_data'[x] = user_data[x]
    BY <1>2 DEF Construct, With, Allocated
  <2>2. OptionsInv'
    BY <1>2, <2>1, OwnNew DEF OptionsInv, Construct
  <2>3. ASSUME NEW v \in wrappers' \ transferred'
        PROVE  options_'[v] # Null /\ user_data'[options_'[v]] = includer_'[v]
    <3>1. CASE v = w
      BY <1>2, <2>1, <3>1 DEF Construct, OptionsInv, Owned, IncludersInv
    <3>2. CASE v # w
      <4>1. v \in wrappers \ transferred /\ v \in Wrappers
        BY <1>2, <3>2 DEF Construct, OptionsInv, Owned
      <4>2. options_'[v] = options_[v] /\ options_[v] \in Allocated
        BY <1>2, <3>2, <4>1 DEF Construct, OptionsInv, Owned, IncludersInv
      <4> QED BY <1>2, <2>1, <4>1, <4>2 DEF Construct, IncludersInv
    <3> QED BY <3>1, <3>2
  <2>4. IncludersInv'
    BY <1>2, <2>1, <2>3 DEF Construct, IncludersInv
  <2> QED BY <2>2, <2>4
<1>3. ASSUME NEW v \in Wrappers, NEW o \in Objects, CopyConstruct(w, v, o)
      PROVE  OptionsInv' /\ IncludersInv'
  <2>1. /\ Allocated' = Allocated \cup {o}
        /\ user_data'[o] = IF options_[v] = Null THEN Null ELSE user_data[options_[v]]
        /\ \A x \in Allocated : user_data'[x] = user_data[x]
    BY <1>3 DEF CopyConstruct, With, Allocated
  <2>2. OptionsInv'
    BY <1>3, <2>1, OwnNew DEF OptionsInv, CopyConstruct
  <2>3. user_data'[o] \in made \cup {Null}
    BY <1>3, <2>1 DEF OptionsInv, Owned, IncludersInv
  <2>4. ASSUME NEW u \in wrappers' \ transferred'
        PROVE  options_'[u] # Null /\ user_data'[options_'[u]] = includer_'[u]
    <3>1. u # w /\ u \in wrappers \ transferred /\ u \in Wrappers
      BY <1>3 DEF CopyConstruct, OptionsInv, Owned
    <3>2. options_'[u] = options_[u] /\ options_[u] \in Allocated
      BY <1>3, <3>1 DEF CopyConstruct, OptionsInv, Owned, IncludersInv
    <3> QED BY <1>3, <2>1, <3>1, <3>2 DEF CopyConstruct, IncludersInv
  <2>5. IncludersInv'
    BY <1>3, <2>1, <2>3, <2>4 DEF CopyConstruct, IncludersInv
  <2> QED BY <2>2, <2>5
<1>4. ASSUME NEW v \in Wrappers, MoveConstruct(w, v) PROVE OptionsInv' /\ IncludersInv'
  <2>1. Allocated' = Allocated
    BY <1>4 DEF MoveConstruct, Allocated
  <2>2. OptionsInv'
    BY <1>4, <2>1, OwnMoved DEF OptionsInv, MoveConstruct
  <2>3. ASSUME NEW u \in wrappers' \ transferred'
        PROVE  options_'[u] = options_[u] /\ u \in wrappers \ transferred
    BY <1>4 DEF MoveConstruct, OptionsInv, Owned
  <2>4. IncludersInv'
    BY <1>4, <2>1, <2>3 DEF MoveConstruct, IncludersInv
  <2> QED BY <2>2, <2>4
<1>5. ASSUME NEW i \in Includers, SetIncluder(w, i) PROVE OptionsInv' /\ IncludersInv'
  <2>1. options_[w] \in Allocated
    BY <1>5 DEF SetIncluder, OptionsInv, Owned
  <2>2. /\ Allocated' = Allocated /\ user_data'[options_[w]] = i
        /\ \A x \in Allocated \ {options_[w]} : user_data'[x] = user_data[x]
    BY <1>5, <2>1 DEF SetIncluder, With, Allocated
  <2>3. OptionsInv'
    BY <1>5, <2>2 DEF OptionsInv, Owned, SetIncluder
  <2>4. ASSUME NEW v \in wrappers' \ transferred'
        PROVE  options_'[v] # Null /\ user_data'[options_'[v]] = includer_'[v]
    <3>1. CASE v = w
      BY <1>5, <2>2, <3>1 DEF SetIncluder, OptionsInv, Owned, IncludersInv
    <3>2. CASE v # w
      <4>1. v \in wrappers \ transferred /\ v \in Wrappers
        BY <1>5, <3>2 DEF SetIncluder, OptionsInv, Owned
      <4>2. options_[v] # options_[w] /\ options_[v] \in Allocated
        BY <3>2, <4>1, <2>1 DEF OptionsInv, Owned, IncludersInv
      <4> QED BY <1>5, <2>2, <3>2, <4>1, <4>2 DEF SetIncluder, IncludersInv
    <3> QED BY <3>1, <3>2
  <2>5. IncludersInv'
    BY <1>5, <2>1, <2>2, <2>4 DEF SetIncluder, IncludersInv
  <2> QED BY <2>3, <2>5
<1> QED BY <1>1, <1>2, <1>3, <1>4, <1>5

LEMMA CompilersStep ==
  ASSUME IInv, NEW c \in Drivers,
         \/ Stop(c)
         \/ \E k \in Compilers : Start(c, k)
         \/ \E d \in Drivers : MoveStart(c, d)
  PROVE  CompilersInv' /\ ResultsInv' /\ released_twice' = FALSE
<1> USE NullAssumption DEF IInv
<1>1. ResultsInv'
  <2>1. UNCHANGED holderVars
    BY DEF Stop, Start, MoveStart
  <2> QED BY <2>1 DEF ResultsInv, Owned, holderVars
<1>2. CASE Stop(c)
  <2>1. compiler_[c] \in compilers \cup {Null}
    BY DEF CompilersInv, Owned
  <2>2. released_twice' = FALSE
    BY <1>2, <2>1 DEF Stop
  <2>3. CompilersInv'
    BY <1>2, OwnEnded DEF Stop, CompilersInv
  <2> QED BY <1>1, <2>2, <2>3
<1>3. ASSUME NEW k \in Compilers, Start(c, k) PROVE CompilersInv' /\ released_twice' = FALSE
  BY <1>3, OwnNew DEF Start, CompilersInv
<1>4. ASSUME NEW d \in Drivers, MoveStart(c, d) PROVE CompilersInv' /\ released_twice' = FALSE
  BY <1>4, OwnMoved DEF MoveStart, CompilersInv
<1> QED BY <1>1, <1>2, <1>3, <1>4

LEMMA ResultsStep ==
  ASSUME IInv, NEW h \in Holders,
         \/ Drop(h) \/ Hold(h)
         \/ \E c \in Drivers, r \in Results : Receive(c, h, r)
         \/ \E g \in Holders : MoveAssign(h, g) \/ MoveInto(h, g)
  PROVE  CompilersInv' /\ ResultsInv' /\ released_twice' = FALSE
<1> USE NullAssumption DEF IInv
<1>1. CompilersInv'
  <2>1. UNCHANGED compilerVars
    BY DEF Drop, Hold, Receive, MoveAssign, MoveInto
  <2> QED BY <2>1 DEF CompilersInv, Owned, compilerVars
<1>2. result_[h] \in results \cup {Null}
  BY DEF ResultsInv, Owned
<1>3. CASE Drop(h)
  BY <1>1, <1>2, <1>3, OwnEnded DEF Drop, ReleaseResult, ResultsInv
<1>4. CASE Hold(h)
  BY <1>1, <1>4 DEF Hold, ResultsInv, Owned
<1>5. ASSUME NEW c \in Drivers, NEW r \in Results, Receive(c, h, r)
      PROVE  ResultsInv' /\ released_twice' = FALSE
  BY <1>5, OwnNew DEF Receive, ResultsInv
<1>6. ASSUME NEW g \in Holders, MoveAssign(h, g)
      PROVE  ResultsInv' /\ released_twice' = FALSE
  BY <1>2, <1>6, OwnAssigned DEF MoveAssign, ReleaseResult, ResultsInv
<1>7. ASSUME NEW g \in Holders, MoveInto(h, g)
      PROVE  ResultsInv' /\ released_twice' = FALSE
  BY <1>7, OwnMoved DEF MoveInto, ResultsInv
<1> QED BY <1>1, <1>3, <1>4, <1>5, <1>6, <1>7

LEMMA NextIInv == IInv /\ [Next]_vars => IInv'
<1> SUFFICES ASSUME IInv, [Next]_vars PROVE IInv'
  OBVIOUS
<1>1. ASSUME NEW w \in Wrappers,
             \/ Destroy(w)
             \/ \E o \in Objects : Construct(w, o)
             \/ \E v \in Wrappers, o \in Objects : CopyConstruct(w, v, o)
             \/ \E v \in Wrappers : MoveConstruct(w, v)
             \/ \E i \in Includers : SetIncluder(w, i)
      PROVE  IInv'
  <2>1. OptionsInv' /\ IncludersInv'
    BY <1>1, OptionsStep
  <2>2. UNCHANGED resultVars
    BY <1>1 DEF Destroy, Construct, CopyConstruct, MoveConstruct, SetIncluder
  <2> QED BY <2>1, <2>2, OthersKept DEF IInv
<1>2. ASSUME NEW c \in Drivers,
             \/ Stop(c)
             \/ \E k \in Compilers : Start(c, k)
             \/ \E d \in Drivers : MoveStart(c, d)
      PROVE  IInv'
  <2>1. CompilersInv' /\ ResultsInv' /\ released_twice' = FALSE
    BY <1>2, CompilersStep
  <2>2. UNCHANGED optionVars
    BY <1>2 DEF Stop, Start, MoveStart
  <2> QED BY <2>1, <2>2, OthersKept DEF IInv
<1>3. ASSUME NEW h \in Holders,
             \/ Drop(h) \/ Hold(h)
             \/ \E c \in Drivers, r \in Results : Receive(c, h, r)
             \/ \E g \in Holders : MoveAssign(h, g) \/ MoveInto(h, g)
      PROVE  IInv'
  <2>1. CompilersInv' /\ ResultsInv' /\ released_twice' = FALSE
    BY <1>3, ResultsStep
  <2>2. UNCHANGED optionVars
    BY <1>3 DEF Drop, Hold, Receive, MoveAssign, MoveInto
  <2> QED BY <2>1, <2>2, OthersKept DEF IInv
<1>4. CASE UNCHANGED vars
  BY <1>4, OthersKept DEF IInv, vars
<1> QED BY <1>1, <1>2, <1>3, <1>4 DEF Next

LEMMA Invariance == Spec => []IInv
BY InitIInv, NextIInv, PTL DEF Spec

-----------------------------------------------------------------------------
(* The theorems.                                                           *)

(* Pointers are null or valid.                                             *)
THEOREM TypeCorrect == Spec => []TypeOK
<1>1. IInv => TypeOK
  BY DEF IInv, OptionsInv, CompilersInv, ResultsInv, IncludersInv, Owned, TypeOK
<1> QED BY <1>1, Invariance, PTL

(* Each options object has one wrapper, which will release it              *)
(* (CompileOptions' constructors and destructor).                          *)
THEOREM OneOwnerOfOptions == Spec => []OptionsHaveOneOwner
<1>1. IInv => OptionsHaveOneOwner
  BY OneOwner, NullAssumption DEF IInv, OptionsInv, OptionsHaveOneOwner
<1> QED BY <1>1, Invariance, PTL

(* Each compiler and each result has one owner, and none is released twice *)
(* (Compiler's and CompilationResult's special members).                   *)
THEOREM OneOwnerOfHandles == Spec => []HandlesHaveOneOwner
<1>1. IInv => HandlesHaveOneOwner
  BY OneOwner, NullAssumption DEF IInv, CompilersInv, ResultsInv, HandlesHaveOneOwner
<1> QED BY <1>1, Invariance, PTL

(* A wrapper that was not copied or moved calls the includer it owns       *)
(* (SetIncluder).                                                          *)
THEOREM OwnIncluderCalled == Spec => []OwnIncluderIsCalled
<1>1. IInv => OwnIncluderIsCalled
  BY DEF IInv, IncludersInv, OwnIncluderIsCalled
<1> QED BY <1>1, Invariance, PTL

=============================================================================
