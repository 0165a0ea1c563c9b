----------------------- MODULE IncludeCallbacksProofs -----------------------
(***************************************************************************)
(* Proofs about IncludeCallbacks, for any threads, any results and any     *)
(* number of #include directives.                                          *)
(***************************************************************************)
EXTENDS IncludeCallbacks, SequenceTheorems, TLAPS

(* The answer in hand, as the client would list it.                        *)
InHand(t) == IF res[t].result = Null THEN <<>> ELSE <<res[t].result>>

(* What is out is what is read, in the order it was given, without         *)
(* repetition.                                                             *)
Kept(t) ==
  /\ ledger[t] = includeStack[t] \o InHand(t)
  /\ \A i, j \in DOMAIN ledger[t] : ledger[t][i] = ledger[t][j] => i = j

(* An answer is in hand between the return of the includer and the end of  *)
(* CPPinclude, and is the client's unless the callbacks are not a pair.    *)
Handled(t) ==
  /\ pc[t] \notin {"got_local", "got_system"} => res[t] = NoInclude
  /\ pc[t] \in {"got_local", "got_system"} =>
       /\ res[t].holds \in {"failed", "empty", "text"}
       /\ (res[t].result # Null) <=> (callbacks = "both")
  /\ callbacks # "both" => res[t].holds \in {"nothing", "failed"} /\ includeStack[t] = <<>>
  /\ pc[t] \in {"idle", "between"} => includeStack[t] = <<>>

(* The mutex is held while the resolver runs, and is left locked by one    *)
(* that throws.                                                            *)
Locked(t) ==
  include_mutex_[t] => pc[t] \in {"resolve_local", "resolve_system", "unwind", "idle"}

Searching == {"local", "system", "resolve_local", "resolve_system",
              "got_local", "got_system"}

(* In the first pass, directives are counted as soon as they are searched. *)
Counted(t) ==
  /\ pc[t] = "between" => pass[t] = 1
  /\ pc[t] \in Searching => directives[t] > 0
  /\ pass[t] = 1 /\ num_include_directives_[t] > 0 => directives[t] > 0
  /\ pass[t] = 1 /\ directives[t] > 0 /\ pc[t] \notin {"local", "system"} =>
       num_include_directives_[t] > 0

ThreadInv(t) == Kept(t) /\ Handled(t) /\ Locked(t) /\ Counted(t)

IInv ==
  /\ TypeOK
  /\ callbacks # "releaser" => ~bogus
  /\ \A t \in Threads : ThreadInv(t)

-----------------------------------------------------------------------------
(* Lists of results.                                                       *)

(* Giving back the last of a list without repetition removes it alone.     *)
LEMMA RemoveLast ==
  ASSUME NEW u \in Seq(Results), NEW r \in Results,
         NEW s, s = u \o <<r>>,
         \A i, j \in DOMAIN s : s[i] = s[j] => i = j,
         NEW k \in DOMAIN s, s[k] = r
  PROVE  RemoveAt(s, k) = u /\ Front(s) = u
<1>1. s \in Seq(Results) /\ Len(s) = Len(u) + 1 /\ s[Len(u) + 1] = r
        /\ \A i \in 1 .. Len(u) : s[i] = u[i]
  OBVIOUS
<1>2. k = Len(s)
  BY <1>1
<1>3. SubSeq(s, 1, Len(u)) = u
  BY <1>1
<1>4. SubSeq(s, Len(s) + 1, Len(s)) = <<>>
  BY <1>1
<1>5. Len(s) - 1 = Len(u)
  BY <1>1
<1> QED BY <1>2, <1>3, <1>4, <1>5 DEF RemoveAt, Front

(* A list is its front and its last.                                       *)
LEMMA FrontAndLast ==
  ASSUME NEW s \in Seq(Results), s # <<>>
  PROVE  Front(s) \in Seq(Results) /\ Last(s) \in Results /\ s = Front(s) \o <<Last(s)>>
<1>1. Len(s) \in Nat /\ Len(s) > 0
  OBVIOUS
<1>2. Front(s) \in Seq(Results) /\ Len(Front(s)) = Len(s) - 1
        /\ \A i \in 1 .. Len(s) - 1 : Front(s)[i] = s[i]
  <2>1. \A i \in 1 .. Len(s) - 1 : s[i] \in Results
    BY <1>1
  <2>2. /\ SubSeq(s, 1, Len(s) - 1) \in Seq(Results)
        /\ Len(SubSeq(s, 1, Len(s) - 1))
             = IF 1 <= Len(s) - 1 THEN (Len(s) - 1) - 1 + 1 ELSE 0
        /\ \A i \in 1 .. (Len(s) - 1) - 1 + 1 : SubSeq(s, 1, Len(s) - 1)[i] = s[1 + i - 1]
    BY <1>1, <2>1, SubSeqProperties
  <2>3. (Len(s) - 1) - 1 + 1 = Len(s) - 1 /\ \A i \in 1 .. Len(s) - 1 : 1 + i - 1 = i
    BY <1>1
  <2> QED BY <1>1, <2>2, <2>3 DEF Front
<1>3. Last(s) \in Results
  BY <1>1 DEF Last
<1> QED BY <1>1, <1>2, <1>3 DEF Last

(* A new element keeps a list without repetition.                          *)
LEMMA AppendNew ==
  ASSUME NEW s \in Seq(Results), NEW r \in Results, r \notin ToSet(s),
         \A i, j \in DOMAIN s : s[i] = s[j] => i = j
  PROVE  /\ Append(s, r) \in Seq(Results)
         /\ \A i, j \in DOMAIN Append(s, r) : Append(s, r)[i] = Append(s, r)[j] => i = j
BY DEF ToSet

(* So does taking its end away.                                            *)
LEMMA PrefixIsDistinct ==
  ASSUME NEW u \in Seq(Results), NEW r \in Results, NEW s, s = u \o <<r>>,
         \A i, j \in DOMAIN s : s[i] = s[j] => i = j
  PROVE  \A i, j \in DOMAIN u : u[i] = u[j] => i = j
<1>1. DOMAIN u = 1 .. Len(u) /\ DOMAIN s = 1 .. Len(u) + 1 /\ Len(u) \in Nat
        /\ \A i \in 1 .. Len(u) : s[i] = u[i]
  OBVIOUS
<1> QED BY <1>1

-----------------------------------------------------------------------------
(* What the release of a result does to the client's list.                 *)

LEMMA Released ==
  ASSUME IInv, NEW t \in Threads, NEW u \in Seq(Results), NEW r \in Results \cup {Null},
         callbacks = "both" => r \in Results /\ ledger[t] = u \o <<r>>,
         callbacks # "both" => ledger[t] = <<>> /\ u = <<>>,
         ReleaseInclude(t, r)
  PROVE  /\ ledger' = [ledger EXCEPT ![t] = u]
         /\ bogus' \in BOOLEAN /\ (callbacks # "releaser" => ~bogus')
         /\ callbacks = "both" => u = Front(ledger[t])
         /\ \A i, j \in DOMAIN u : u[i] = u[j] => i = j
<1>1. \A i, j \in DOMAIN ledger[t] : ledger[t][i] = ledger[t][j] => i = j
  BY DEF IInv, ThreadInv, Kept
<1>2. ledger \in [Threads -> Seq(Results)] /\ bogus \in BOOLEAN /\ (callbacks # "releaser" => ~bogus)
  BY DEF IInv, TypeOK
<1>3. CASE callbacks = "both"
  <2>1. r \in Results /\ ledger[t] = u \o <<r>>
    BY <1>3
  <2>2. Len(u) + 1 \in DOMAIN ledger[t] /\ ledger[t][Len(u) + 1] = r /\ Len(ledger[t]) = Len(u) + 1
    BY <2>1
  <2>3. Contains(ledger[t], r)
    BY <2>2 DEF Contains
  <2>4. PICK k \in DOMAIN ledger[t] :
          /\ ledger[t][k] = r
          /\ ledger' = [ledger EXCEPT ![t] = RemoveAt(@, k)]
          /\ bogus' = bogus
    BY <1>3, <2>3 DEF ReleaseInclude, ReleaserSet, GetsBack
  <2>5. RemoveAt(ledger[t], k) = u /\ Front(ledger[t]) = u
    BY <2>1, <2>4, <1>1, RemoveLast
  <2>6. \A i, j \in DOMAIN u : u[i] = u[j] => i = j
    BY <2>1, <1>1, PrefixIsDistinct
  <2> QED BY <1>2, <2>4, <2>5, <2>6
<1>4. CASE callbacks # "both"
  <2>1. ledger[t] = <<>> /\ u = <<>>
    BY <1>4
  <2>2. ledger' = ledger
    BY <2>1, <1>4 DEF ReleaseInclude, GetsBack, client
  <2>3. bogus' \in BOOLEAN
    BY <1>2 DEF ReleaseInclude, GetsBack, client
  <2>4. callbacks # "releaser" => bogus' = bogus
    BY <1>4 DEF ReleaseInclude, ReleaserSet, client
  <2>5. ledger = [ledger EXCEPT ![t] = u]
    BY <1>2, <2>1
  <2> QED BY <1>2, <1>4, <2>1, <2>2, <2>3, <2>4, <2>5
<1> QED BY <1>3, <1>4

-----------------------------------------------------------------------------
(* Threads that do not step.                                               *)

Others(t) ==
  \A u \in Threads \ {t} :
    /\ pc'[u] = pc[u] /\ include_mutex_'[u] = include_mutex_[u]
    /\ num_include_directives_'[u] = num_include_directives_[u]
    /\ res'[u] = res[u] /\ includeStack'[u] = includeStack[u]
    /\ pass'[u] = pass[u] /\ directives'[u] = directives[u]
    /\ ledger'[u] = ledger[u]

LEMMA OthersKeep ==
  ASSUME IInv, NEW t \in Threads, TypeOK', callbacks' = callbacks, Others(t),
         callbacks # "releaser" => ~bogus', ThreadInv(t)'
  PROVE  IInv'
<1>1. ASSUME NEW u \in Threads, u # t PROVE ThreadInv(u)'
  <2>1. ThreadInv(u)
    BY DEF IInv
  <2>2. /\ pc'[u] = pc[u] /\ include_mutex_'[u] = include_mutex_[u]
        /\ num_include_directives_'[u] = num_include_directives_[u]
        /\ res'[u] = res[u] /\ includeStack'[u] = includeStack[u]
        /\ pass'[u] = pass[u] /\ directives'[u] = directives[u]
        /\ ledger'[u] = ledger[u]
    BY <1>1, Zenon DEF Others
  <2>3. InHand(u)' = InHand(u) /\ Kept(u)' = Kept(u)
    BY <2>2, Zenon DEF InHand, Kept
  <2> QED BY <2>1, <2>2, <2>3 DEF ThreadInv, Handled, Locked, Counted
<1>2. ThreadInv(t)'
  OBVIOUS
<1>3. \A u \in Threads : ThreadInv(u)'
  BY <1>1, <1>2
<1> QED BY <1>3 DEF IInv

-----------------------------------------------------------------------------
(* Steps that neither take an answer nor open or close a file.             *)

Quiet(t) ==
  \/ Start(t) \/ GiveUp(t) \/ IncludeLocal(t) \/ IncludeSystem(t) \/ ResolverThrows(t)
  \/ EndOfPass(t) \/ ParsePass(t) \/ UnwindDone(t)
  \/ \E style \in {"local", "system"} : Directive(t, style)

LEMMA QuietKeeps ==
  ASSUME IInv, NEW t \in Threads, Quiet(t)
  PROVE  IInv'
<1> USE DEF PC, Goto, includer, preprocessor, client
<1>1. TypeOK /\ Kept(t) /\ Handled(t) /\ Locked(t) /\ Counted(t)
  BY DEF IInv, ThreadInv
<1>2. callbacks' = callbacks /\ res' = res /\ includeStack' = includeStack
        /\ ledger' = ledger /\ bogus' = bogus
  BY DEF Quiet, Start, GiveUp, IncludeLocal, IncludeSystem, CallIncluder, ResolverThrows,
         EndOfPass, ParsePass, UnwindDone, Directive
<1>3. Kept(t)'
  BY <1>1, <1>2 DEF Kept, InHand
<1>4. callbacks # "releaser" => ~bogus'
  BY <1>2 DEF IInv
<1>5. CASE Start(t)
  <2>1. TypeOK' /\ Others(t)
    BY <1>1, <1>5, BoundAssumption DEF TypeOK, Others, Start
  <2>2. Handled(t)' /\ Locked(t)' /\ Counted(t)'
    BY <1>1, <1>2, <1>5 DEF TypeOK, Start, Handled, Locked, Counted, Searching
  <2> QED BY <1>2, <1>3, <1>4, <2>1, <2>2, OthersKeep DEF ThreadInv
<1>6. CASE GiveUp(t) \/ ResolverThrows(t) \/ UnwindDone(t)
  <2>1. TypeOK' /\ Others(t)
    BY <1>1, <1>6 DEF TypeOK, Others, GiveUp, ResolverThrows, UnwindDone
  <2>2. Handled(t)' /\ Locked(t)' /\ Counted(t)'
    BY <1>1, <1>2, <1>6
       DEF TypeOK, GiveUp, ResolverThrows, UnwindDone, Handled, Locked, Counted, Searching
  <2> QED BY <1>2, <1>3, <1>4, <2>1, <2>2, OthersKeep DEF ThreadInv
<1>7. CASE EndOfPass(t) \/ ParsePass(t)
  <2>0. pc[t] \in {"scan", "between"} /\ includeStack[t] = <<>>
    BY <1>1, <1>7 DEF EndOfPass, ParsePass, Handled
  <2>1. TypeOK' /\ Others(t)
    <3>1. CASE EndOfPass(t)
      BY <1>1, <3>1 DEF TypeOK, Others, EndOfPass
    <3>2. CASE ParsePass(t)
      BY <1>1, <3>2, BoundAssumption DEF TypeOK, Others, ParsePass
    <3> QED BY <1>7, <3>1, <3>2
  <2>2. Handled(t)' /\ Locked(t)' /\ Counted(t)'
    BY <1>1, <1>2, <1>7, <2>0
       DEF TypeOK, EndOfPass, ParsePass, Handled, Locked, Counted, Searching
  <2> QED BY <1>2, <1>3, <1>4, <2>1, <2>2, OthersKeep DEF ThreadInv
<1>8. ASSUME NEW style \in {"local", "system"}, Directive(t, style) PROVE IInv'
  <2>1. TypeOK' /\ Others(t)
    BY <1>1, <1>8, BoundAssumption DEF TypeOK, Others, Directive
  <2>2. Handled(t)' /\ Locked(t)' /\ Counted(t)'
    BY <1>1, <1>2, <1>8 DEF TypeOK, Directive, Handled, Locked, Counted, Searching
  <2> QED BY <1>2, <1>3, <1>4, <2>1, <2>2, OthersKeep DEF ThreadInv
<1>9. CASE IncludeLocal(t) \/ IncludeSystem(t)
  <2>0. PICK resolve \in {"resolve_local", "resolve_system"} :
          /\ include_mutex_' = [include_mutex_ EXCEPT ![t] = TRUE]
          /\ num_include_directives_' = [num_include_directives_ EXCEPT ![t] = @ + 1]
          /\ pc' = [pc EXCEPT ![t] = resolve]
          /\ pass' = pass /\ directives' = directives
    BY <1>9 DEF IncludeLocal, IncludeSystem, CallIncluder
  <2>1. TypeOK'
    BY <1>1, <1>2, <2>0 DEF TypeOK
  <2>3. Others(t)
    BY <1>1, <1>2, <2>0 DEF TypeOK, Others
  <2>2. Handled(t)' /\ Locked(t)' /\ Counted(t)'
    BY <1>1, <1>2, <1>9
       DEF TypeOK, IncludeLocal, IncludeSystem, CallIncluder, Handled, Locked, Counted, Searching
  <2> QED BY <1>2, <1>3, <1>4, <2>1, <2>2, <2>3, OthersKeep DEF ThreadInv
<1> QED BY <1>5, <1>6, <1>7, <1>8, <1>9 DEF Quiet

-----------------------------------------------------------------------------
(* Answers: the client's list grows by the result in hand.                 *)

LEMMA UnexpectedIncludeKeeps ==
  ASSUME IInv, NEW t \in Threads, UnexpectedInclude(t)
  PROVE  IInv'
<1> USE DEF PC, Goto, client
<1>1. TypeOK /\ Kept(t) /\ Handled(t) /\ Locked(t) /\ Counted(t)
  BY DEF IInv, ThreadInv
<1>2. callbacks' = callbacks /\ callbacks # "both" /\ includeStack' = includeStack
        /\ ledger' = ledger /\ bogus' = bogus
        /\ pass' = pass /\ directives' = directives
        /\ num_include_directives_' = num_include_directives_
  BY DEF UnexpectedInclude, Return, AreValidCallbacks
<1>3. PICK l \in {"got_local", "got_system"} : pc' = [pc EXCEPT ![t] = l]
  BY DEF UnexpectedInclude, Return
<1>4. res' = [res EXCEPT ![t] = [result |-> Null, holds |-> "failed"]]
        /\ include_mutex_' = [include_mutex_ EXCEPT ![t] = FALSE]
        /\ pc[t] \in {"resolve_local", "resolve_system"}
  BY DEF UnexpectedInclude, Return
<1>5. TypeOK'
  BY <1>1, <1>2, <1>3, <1>4 DEF TypeOK, IncludeResult
<1>6. Others(t)
  BY <1>1, <1>2, <1>3, <1>4 DEF TypeOK, Others
<1>7. Kept(t)'
  BY <1>1, <1>2, <1>4, NullAssumption DEF TypeOK, Kept, InHand, Handled, NoInclude
<1>8. Handled(t)' /\ Locked(t)' /\ Counted(t)'
  BY <1>1, <1>2, <1>3, <1>4 DEF TypeOK, Handled, Locked, Counted, Searching
<1> QED BY <1>2, <1>5, <1>6, <1>7, <1>8, OthersKeep DEF ThreadInv, IInv

LEMMA ResolvedKeeps ==
  ASSUME IInv, NEW t \in Threads, NEW r \in Results,
         NEW what \in {"failed", "empty", "text"}, Resolved(t, r, what)
  PROVE  IInv'
<1> USE DEF PC, Goto
<1>1. TypeOK /\ Kept(t) /\ Handled(t) /\ Locked(t) /\ Counted(t)
  BY DEF IInv, ThreadInv
<1>2. callbacks' = callbacks /\ callbacks = "both" /\ includeStack' = includeStack
        /\ bogus' = bogus /\ pass' = pass /\ directives' = directives
        /\ num_include_directives_' = num_include_directives_
  BY DEF Resolved, Return, Gives, AreValidCallbacks
<1>3. PICK l \in {"got_local", "got_system"} : pc' = [pc EXCEPT ![t] = l]
  BY DEF Resolved, Return
<1>4. res' = [res EXCEPT ![t] = [result |-> r, holds |-> what]]
        /\ include_mutex_' = [include_mutex_ EXCEPT ![t] = FALSE]
        /\ ledger' = [ledger EXCEPT ![t] = Append(@, r)]
        /\ pc[t] \in {"resolve_local", "resolve_system"}
  BY DEF Resolved, Return, Gives
<1>5. r \notin ToSet(ledger[t]) /\ ledger[t] \in Seq(Results)
  BY <1>1 DEF Resolved, Outstanding, TypeOK
<1>6. Append(ledger[t], r) \in Seq(Results)
        /\ \A i, j \in DOMAIN Append(ledger[t], r) :
             Append(ledger[t], r)[i] = Append(ledger[t], r)[j] => i = j
  BY <1>1, <1>5, AppendNew DEF Kept
<1>7. TypeOK'
  BY <1>1, <1>2, <1>3, <1>4, <1>6 DEF TypeOK, IncludeResult
<1>8. Others(t)
  BY <1>1, <1>2, <1>3, <1>4 DEF TypeOK, Others
<1>9. Kept(t)'
  <2>1. res[t].result = Null /\ res'[t].result = r /\ r # Null
    BY <1>1, <1>4, NullAssumption DEF TypeOK, Handled, NoInclude
  <2>2. ledger[t] = includeStack[t] /\ includeStack[t] \in Seq(Results)
    BY <1>1, <2>1 DEF Kept, InHand, TypeOK
  <2>3. ledger'[t] = Append(ledger[t], r)
    BY <1>1, <1>4 DEF TypeOK
  <2>4. ledger'[t] = includeStack[t] \o <<r>>
    BY <2>2, <2>3
  <2>5. InHand(t)' = <<r>>
    BY <2>1 DEF InHand
  <2> QED BY <1>2, <1>6, <2>3, <2>4, <2>5 DEF Kept
<1>10. Handled(t)' /\ Locked(t)' /\ Counted(t)'
  BY <1>1, <1>2, <1>3, <1>4, NullAssumption DEF TypeOK, Handled, Locked, Counted, Searching
<1>11. callbacks # "releaser" => ~bogus'
  BY <1>2 DEF IInv
<1> QED BY <1>2, <1>7, <1>8, <1>9, <1>10, <1>11, OthersKeep DEF ThreadInv

-----------------------------------------------------------------------------
(* An answer becomes an open file.                                         *)

LEMMA EnterKeeps ==
  ASSUME IInv, NEW t \in Threads, Enter(t)
  PROVE  IInv' /\ ledger' = ledger
<1> USE DEF PC, Goto, client, includer
<1>1. TypeOK /\ Kept(t) /\ Handled(t) /\ Locked(t) /\ Counted(t)
  BY DEF IInv, ThreadInv
<1>2. callbacks' = callbacks /\ ledger' = ledger /\ bogus' = bogus /\ pass' = pass
        /\ directives' = directives /\ num_include_directives_' = num_include_directives_
        /\ include_mutex_' = include_mutex_
        /\ pc' = [pc EXCEPT ![t] = "scan"] /\ res' = [res EXCEPT ![t] = NoInclude]
        /\ includeStack' = [includeStack EXCEPT ![t] = Append(@, res[t].result)]
        /\ pc[t] \in {"got_local", "got_system"} /\ res[t].holds = "text"
  BY DEF Enter
<1>3. callbacks = "both" /\ res[t].result \in Results
  BY <1>1, <1>2 DEF Handled, TypeOK, IncludeResult
<1>4. TypeOK'
  BY <1>1, <1>2, <1>3 DEF TypeOK, IncludeResult, NoInclude
<1>5. Others(t)
  BY <1>1, <1>2 DEF TypeOK, Others
<1>6. Kept(t)'
  <2>1. includeStack[t] \in Seq(Results) /\ includeStack'[t] = Append(includeStack[t], res[t].result)
          /\ res'[t] = NoInclude
    BY <1>1, <1>2 DEF TypeOK
  <2>2. ledger[t] = includeStack[t] \o <<res[t].result>>
    BY <1>1, <1>3, NullAssumption DEF Kept, InHand
  <2>3. InHand(t)' = <<>>
    BY <2>1 DEF InHand, NoInclude
  <2>4. ledger[t] = includeStack'[t] \o <<>>
    BY <1>3, <2>1, <2>2
  <2> QED BY <1>1, <1>2, <2>3, <2>4 DEF Kept
<1>7. Handled(t)' /\ Locked(t)' /\ Counted(t)'
  BY <1>1, <1>2, <1>3 DEF TypeOK, Handled, Locked, Counted, Searching, NoInclude
<1>8. callbacks # "releaser" => ~bogus'
  BY <1>2 DEF IInv
<1> QED BY <1>2, <1>4, <1>5, <1>6, <1>7, <1>8, OthersKeep DEF ThreadInv

-----------------------------------------------------------------------------
(* The answer in hand is given back.                                       *)

LEMMA AnswerReleased ==
  ASSUME IInv, NEW t \in Threads, LocalFailed(t) \/ NothingToScan(t)
  PROVE  /\ IInv'
         /\ ledger' = [ledger EXCEPT ![t] = includeStack[t]]
         /\ callbacks = "both" => includeStack[t] = Front(ledger[t])
<1> USE DEF PC, Goto, includer
<1>1. TypeOK /\ Kept(t) /\ Handled(t) /\ Locked(t) /\ Counted(t)
  BY DEF IInv, ThreadInv
<1>2. callbacks' = callbacks /\ pass' = pass /\ includeStack' = includeStack
        /\ directives' = directives /\ num_include_directives_' = num_include_directives_
        /\ include_mutex_' = include_mutex_ /\ res' = [res EXCEPT ![t] = NoInclude]
        /\ pc[t] \in {"got_local", "got_system"}
        /\ ReleaseInclude(t, res[t].result)
  BY DEF LocalFailed, NothingToScan
<1>3. PICK l \in {"system", "scan"} : pc' = [pc EXCEPT ![t] = l]
  BY DEF LocalFailed, NothingToScan
<1>4. includeStack[t] \in Seq(Results) /\ res[t].result \in Results \cup {Null}
  BY <1>1 DEF TypeOK, IncludeResult
<1>5. callbacks = "both" =>
        res[t].result \in Results /\ ledger[t] = includeStack[t] \o <<res[t].result>>
  BY <1>1, <1>2, <1>4 DEF Handled, Kept, InHand
<1>6. callbacks # "both" => ledger[t] = <<>> /\ includeStack[t] = <<>>
  BY <1>1, <1>2 DEF Handled, Kept, InHand
<1>7. /\ ledger' = [ledger EXCEPT ![t] = includeStack[t]]
      /\ bogus' \in BOOLEAN /\ (callbacks # "releaser" => ~bogus')
      /\ callbacks = "both" => includeStack[t] = Front(ledger[t])
      /\ \A i, j \in DOMAIN includeStack[t] : includeStack[t][i] = includeStack[t][j] => i = j
  BY <1>2, <1>4, <1>5, <1>6, Released
<1>8. TypeOK'
  BY <1>1, <1>2, <1>3, <1>4, <1>7 DEF TypeOK, IncludeResult, NoInclude
<1>9. Others(t)
  BY <1>1, <1>2, <1>3, <1>7 DEF TypeOK, Others
<1>10. Kept(t)'
  <2>1. InHand(t)' = <<>>
    BY <1>1, <1>2 DEF InHand, NoInclude, TypeOK
  <2>2. ledger'[t] = includeStack[t] /\ includeStack[t] = includeStack[t] \o <<>>
    BY <1>1, <1>4, <1>7 DEF TypeOK
  <2> QED BY <1>2, <1>7, <2>1, <2>2 DEF Kept
<1>11. Handled(t)' /\ Locked(t)' /\ Counted(t)'
  <2>1. Handled(t)'
    BY <1>1, <1>2, <1>3 DEF TypeOK, Handled, NoInclude
  <2>2. Locked(t)'
    BY <1>1, <1>2, <1>3 DEF TypeOK, Locked
  <2>3. Counted(t)'
    BY <1>1, <1>2, <1>3 DEF TypeOK, Counted, Searching
  <2> QED BY <2>1, <2>2, <2>3
<1> QED BY <1>2, <1>7, <1>8, <1>9, <1>10, <1>11, OthersKeep DEF ThreadInv

-----------------------------------------------------------------------------
(* The innermost file is closed.                                           *)

LEMMA FileClosed ==
  ASSUME IInv, NEW t \in Threads, EndOfFile(t) \/ UnwindOne(t)
  PROVE  /\ IInv'
         /\ ledger' = [ledger EXCEPT ![t] = Front(includeStack[t])]
         /\ callbacks = "both" => Front(includeStack[t]) = Front(ledger[t])
<1> USE DEF PC, includer
<1>1. TypeOK /\ Kept(t) /\ Handled(t) /\ Locked(t) /\ Counted(t)
  BY DEF IInv, ThreadInv
<1> DEFINE u == Front(includeStack[t])
           r == Last(includeStack[t])
<1>2. callbacks' = callbacks /\ pass' = pass /\ pc' = pc /\ res' = res
        /\ directives' = directives /\ num_include_directives_' = num_include_directives_
        /\ include_mutex_' = include_mutex_ /\ includeStack[t] # <<>>
        /\ includeStack' = [includeStack EXCEPT ![t] = u]
        /\ pc[t] \in {"scan", "unwind"}
        /\ ReleaseInclude(t, r)
  BY DEF EndOfFile, UnwindOne, PopInclude
<1>3. u \in Seq(Results) /\ r \in Results /\ includeStack[t] = u \o <<r>>
  BY <1>1, <1>2, FrontAndLast DEF TypeOK
<1>4. callbacks = "both" /\ res[t] = NoInclude
  BY <1>1, <1>2 DEF Handled
<1>5. ledger[t] = u \o <<r>>
  <2>1. InHand(t) = <<>>
    BY <1>4 DEF InHand, NoInclude
  <2>2. ledger[t] = includeStack[t] \o <<>> /\ includeStack[t] \in Seq(Results)
    BY <1>1, <2>1 DEF Kept, TypeOK
  <2> QED BY <1>3, <2>2
<1> HIDE DEF u, r
<1>6. /\ ledger' = [ledger EXCEPT ![t] = u]
      /\ bogus' \in BOOLEAN /\ (callbacks # "releaser" => ~bogus')
      /\ callbacks = "both" => u = Front(ledger[t])
      /\ \A i, j \in DOMAIN u : u[i] = u[j] => i = j
  BY <1>2, <1>3, <1>4, <1>5, Released
<1>7. TypeOK'
  BY <1>1, <1>2, <1>3, <1>6 DEF TypeOK
<1>8. Others(t)
  BY <1>1, <1>2, <1>6 DEF TypeOK, Others
<1>9. Kept(t)'
  <2>1. InHand(t)' = <<>>
    BY <1>2, <1>4 DEF InHand, NoInclude
  <2>2. ledger'[t] = u /\ includeStack'[t] = u /\ u = u \o <<>>
    BY <1>1, <1>2, <1>3, <1>6 DEF TypeOK
  <2> QED BY <1>6, <2>1, <2>2 DEF Kept
<1>10. Handled(t)' /\ Locked(t)' /\ Counted(t)'
  BY <1>1, <1>2, <1>4 DEF TypeOK, Handled, Locked, Counted, Searching
<1>11. IInv'
  BY <1>2, <1>6, <1>7, <1>8, <1>9, <1>10, OthersKeep DEF ThreadInv
<1> QED BY <1>6, <1>11 DEF u

-----------------------------------------------------------------------------
(* The invariant and the theorems.                                         *)

LEMMA InitIInv == Init => IInv
<1> SUFFICES ASSUME Init PROVE IInv
  OBVIOUS
<1>1. TypeOK
  <2>1. <<>> \in Seq(Results)
    OBVIOUS
  <2>2. includeStack \in [Threads -> Seq(Results)] /\ ledger \in [Threads -> Seq(Results)]
    BY <2>1 DEF Init
  <2>3. NoInclude \in IncludeResult
    BY DEF NoInclude, IncludeResult
  <2>4. pc \in [Threads -> PC] /\ res \in [Threads -> IncludeResult]
    BY <2>3 DEF Init, PC
  <2>5. directives \in [Threads -> 0 .. MaxDirectives]
    BY BoundAssumption DEF Init
  <2>6. /\ include_mutex_ \in [Threads -> BOOLEAN] /\ bogus \in BOOLEAN
        /\ num_include_directives_ \in [Threads -> Nat]
        /\ pass \in [Threads -> {1, 2}]
        /\ callbacks \in Callbacks
    BY DEF Init
  <2> QED BY <2>2, <2>4, <2>5, <2>6 DEF TypeOK
<1>2. ASSUME NEW t \in Threads PROVE ThreadInv(t)
  BY DEF Init, ThreadInv, Kept, InHand, Handled, Locked, Counted, Searching, NoInclude
<1>3. ~bogus
  BY DEF Init
<1> QED BY <1>1, <1>2, <1>3 DEF IInv

(* Every step is one of the kinds above.                                   *)
LEMMA StepIsOneOf ==
  ASSUME Next
  PROVE  \E t \in Threads :
           \/ Quiet(t) \/ UnexpectedInclude(t) \/ Enter(t)
           \/ \E r \in Results, what \in {"failed", "empty", "text"} : Resolved(t, r, what)
           \/ LocalFailed(t) \/ NothingToScan(t)
           \/ EndOfFile(t) \/ UnwindOne(t)
BY DEF Next, Proceed, ResolverReturns, Quiet

LEMMA StutterKeeps ==
  ASSUME IInv, UNCHANGED vars
  PROVE  IInv'
<1>1. ASSUME NEW t \in Threads PROVE ThreadInv(t)'
  <2>1. ThreadInv(t)
    BY DEF IInv
  <2> QED BY <2>1 DEF ThreadInv, Kept, InHand, Handled, Locked, Counted,
                      vars, includer, preprocessor, client
<1>2. TypeOK' /\ (callbacks' # "releaser" => ~bogus')
  BY DEF IInv, TypeOK, vars, includer, preprocessor, client
<1> QED BY <1>1, <1>2 DEF IInv

LEMMA NextIInv ==
  ASSUME IInv, [Next]_vars
  PROVE  IInv'
<1>1. CASE UNCHANGED vars
  BY <1>1, StutterKeeps
<1>2. CASE Next
  <2>1. PICK t \in Threads :
           \/ Quiet(t) \/ UnexpectedInclude(t) \/ Enter(t)
           \/ \E r \in Results, what \in {"failed", "empty", "text"} : Resolved(t, r, what)
           \/ LocalFailed(t) \/ NothingToScan(t)
           \/ EndOfFile(t) \/ UnwindOne(t)
    BY <1>2, StepIsOneOf
  <2> QED BY <2>1, QuietKeeps, UnexpectedIncludeKeeps, EnterKeeps, ResolvedKeeps,
             AnswerReleased, FileClosed
<1> QED BY <1>1, <1>2

LEMMA Invariance == Spec => []IInv
<1>1. IInv /\ [Next]_vars => IInv'
  BY NextIInv
<1> QED BY InitIInv, <1>1, PTL DEF Spec

(* Every variable keeps its type, however many includes are open at once.  *)
THEOREM TypeCorrect == Spec => []TypeOK
<1>1. IInv => TypeOK
  BY DEF IInv
<1> QED BY <1>1, Invariance, PTL

(* With a pair of callbacks, what the client has out is what glslang reads *)
(* (shaderc.h:335-341): no file is read after its release, and no answer   *)
(* is forgotten, whatever the resolver answers and wherever the parser     *)
(* gives up.                                                               *)
THEOREM LedgerIsExact == Spec => []LedgerMatches
<1>1. IInv => LedgerMatches
  BY DEF IInv, ThreadInv, Kept, InHand, LedgerMatches
<1> QED BY <1>1, Invariance, PTL

(* A call that is over has given every result back: the destructor of the  *)
(* preprocessor closes what an error or an exception left open.            *)
THEOREM AllComesBack == Spec => []NothingLeaks
<1>1. IInv => NothingLeaks
  <2> SUFFICES ASSUME IInv, NEW t \in Threads, pc[t] = "idle" PROVE ledger[t] = <<>>
    BY DEF NothingLeaks
  <2>1. res[t] = NoInclude /\ includeStack[t] = <<>>
    BY DEF IInv, ThreadInv, Handled
  <2>2. Kept(t) /\ InHand(t) = <<>>
    BY <2>1 DEF IInv, ThreadInv, InHand, NoInclude
  <2>3. ledger[t] = <<>> \o <<>>
    BY <2>1, <2>2 DEF Kept
  <2> QED BY <2>3
<1> QED BY <1>1, Invariance, PTL

(* The releaser is called with results of the resolver only, and once for  *)
(* each, unless the options have a releaser and no resolver.               *)
THEOREM NothingElseIsReleased == Spec => []OnlyResolvedAreReleased
<1>1. IInv => OnlyResolvedAreReleased
  BY DEF IInv, OnlyResolvedAreReleased
<1> QED BY <1>1, Invariance, PTL

(* No compilation meets its include mutex locked, though a resolver that   *)
(* throws leaves it locked (counting_includer.h:50-54).                    *)
THEOREM NeverWaitsForItself == Spec => []MutexIsFree
<1>1. IInv => MutexIsFree
  BY DEF IInv, ThreadInv, Locked, MutexIsFree
<1> QED BY <1>1, Invariance, PTL

(* After the preprocessing pass the counter is nonzero iff the source      *)
(* executed an #include (compiler.cc:559-590).                             *)
THEOREM CounterIsRight == Spec => []CounterTellsIncludes
<1>1. IInv => CounterTellsIncludes
  BY DEF IInv, TypeOK, ThreadInv, Counted, Searching, CounterTellsIncludes
<1> QED BY <1>1, Invariance, PTL

(* A list only gets shorter by its last element.                           *)
LEMMA StepIsLastInFirstOut ==
  ASSUME IInv, [Next]_vars, NEW v \in Threads, Len(ledger'[v]) < Len(ledger[v])
  PROVE  ledger'[v] = Front(ledger[v])
<1>1. ledger \in [Threads -> Seq(Results)] /\ \A t \in Threads : Kept(t) /\ Handled(t)
  BY DEF IInv, TypeOK, ThreadInv
<1>2. ledger' # ledger
  BY <1>1
<1>3. ~UNCHANGED vars
  BY <1>2 DEF vars, client
<1>4. PICK t \in Threads :
         \/ Quiet(t) \/ UnexpectedInclude(t) \/ Enter(t)
         \/ \E r \in Results, what \in {"failed", "empty", "text"} : Resolved(t, r, what)
         \/ LocalFailed(t) \/ NothingToScan(t)
         \/ EndOfFile(t) \/ UnwindOne(t)
  BY <1>3, StepIsOneOf
<1>5. ~Quiet(t) /\ ~UnexpectedInclude(t) /\ ~Enter(t)
  BY <1>2 DEF Quiet, Start, GiveUp, IncludeLocal, IncludeSystem, CallIncluder, ResolverThrows,
              EndOfPass, ParsePass, UnwindDone, Directive, UnexpectedInclude, Enter, client
<1>6. ASSUME NEW r \in Results, NEW what \in {"failed", "empty", "text"}, Resolved(t, r, what)
      PROVE  FALSE
  <2>1. ledger' = [ledger EXCEPT ![t] = Append(@, r)]
    BY <1>6 DEF Resolved, Gives
  <2>2. v # t => ledger'[v] = ledger[v]
    BY <1>1, <2>1
  <2>3. v = t => ledger'[v] = Append(ledger[v], r)
    BY <1>1, <2>1
  <2>4. Len(Append(ledger[v], r)) = Len(ledger[v]) + 1 /\ Len(ledger[v]) \in Nat
    BY <1>1
  <2> QED BY <2>2, <2>3, <2>4
<1>7. PICK w : /\ ledger' = [ledger EXCEPT ![t] = w]
               /\ callbacks = "both" => w = Front(ledger[t])
  BY <1>4, <1>5, <1>6, AnswerReleased, FileClosed
<1>8. v = t /\ ledger'[v] = w
  BY <1>1, <1>7
<1>9. callbacks = "both"
  <2>1. SUFFICES ASSUME callbacks # "both" PROVE FALSE
    OBVIOUS
  <2>2. Kept(v) /\ includeStack[v] = <<>> /\ res[v].holds \in {"nothing", "failed"}
    BY <1>1, <2>1 DEF Handled
  <2>3. res[v].result = Null
    BY <1>1, <2>1 DEF Handled, NoInclude
  <2>4. ledger[v] = <<>> \o <<>>
    BY <2>2, <2>3 DEF Kept, InHand
  <2>5. ledger[v] = <<>> /\ ledger'[v] \in Seq(Results)
    BY <2>4, NextIInv DEF IInv, TypeOK
  <2> QED BY <2>5
<1> QED BY <1>7, <1>8, <1>9

(* Results come back in the reverse of the order they were given.          *)
THEOREM ReverseOrder == Spec => LastInFirstOut
<1>1. IInv /\ [Next]_vars =>
        [\A t \in Threads :
           Len(ledger'[t]) < Len(ledger[t]) => ledger'[t] = Front(ledger[t])]_vars
  BY StepIsLastInFirstOut
<1> QED BY Invariance, <1>1, PTL DEF Spec, LastInFirstOut
=============================================================================
