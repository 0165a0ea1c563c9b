-------------------------- MODULE SelectionsProofs --------------------------
(***************************************************************************)
(* Selections, minima and induction, for every sequence and every set.     *)
(* The provers know no induction scheme; here it is a fact about sets of   *)
(* numbers, and comes from the order of the naturals being well-founded.   *)
(***************************************************************************)
EXTENDS Selections, FiniteSetsExt, SequenceTheorems, WellFoundedInduction, TLAPS

-----------------------------------------------------------------------------
(* Induction.                                                              *)

LEMMA LeastOne ==
  ASSUME NEW S \in SUBSET Nat, S # {}
  PROVE  \E x \in S : \A y \in S : x <= y
<1>1. PICK x \in S : \A y \in S : ~ (<<y, x>> \in OpToRel(<, Nat))
  BY WFMin, NatLessThanWellFounded, Zenon
<1>2. \A y \in S : ~(y < x)
  BY <1>1, Zenon DEF OpToRel
<1> QED BY <1>2

(* Min and Max choose the least and the greatest element.                  *)
LEMMA Least ==
  ASSUME NEW S \in SUBSET Nat, S # {}
  PROVE  Min(S) \in S /\ \A k \in S : Min(S) <= k
BY LeastOne DEF Min

LEMMA LeastIs ==
  ASSUME NEW S \in SUBSET Nat, NEW m \in S, \A k \in S : m <= k
  PROVE  Min(S) = m
<1> DEFINE least == Min(S)
<1>1. least \in S /\ least <= m /\ m <= least
  BY Least
<1> HIDE DEF least
<1>2. least \in Nat /\ m \in Nat
  BY <1>1
<1>3. least = m
  BY <1>1, <1>2
<1> QED BY <1>3 DEF least

LEMMA Greatest ==
  ASSUME NEW n \in Nat, NEW S \in SUBSET (1 .. n), S # {}
  PROVE  Max(S) \in S /\ \A k \in S : k <= Max(S)
<1> DEFINE T == {n - k : k \in S}
<1>1. T \in SUBSET Nat /\ T # {}
  <2>1. \A k \in S : k \in 1 .. n
    OBVIOUS
  <2>2. \A k \in 1 .. n : n - k \in Nat
    OBVIOUS
  <2> QED BY <2>1, <2>2
<1>2. PICK x \in T : \A y \in T : x <= y
  BY <1>1, LeastOne
<1>3. PICK m \in S : x = n - m
  BY <1>2
<1>4. \A k \in S : m >= k
  BY <1>2, <1>3
<1>5. \E a \in S : \A k \in S : a >= k
  BY <1>4
<1> QED BY <1>5 DEF Max

LEMMA GreatestIs ==
  ASSUME NEW n \in Nat, NEW S \in SUBSET (1 .. n), NEW m \in S, \A k \in S : k <= m
  PROVE  Max(S) = m
<1> DEFINE last == Max(S)
<1>1. last \in S /\ last <= m /\ m <= last
  BY Greatest
<1> HIDE DEF last
<1>2. last \in Nat /\ m \in Nat
  BY <1>1
<1>3. last = m
  BY <1>1, <1>2
<1> QED BY <1>3 DEF last

(* A set that has 0 and, with a number, the next, has all of them.         *)
LEMMA SetInduction ==
  ASSUME NEW S, 0 \in S, \A n \in Nat : n \in S => n + 1 \in S
  PROVE  \A n \in Nat : n \in S
<1> SUFFICES ASSUME Nat \ S # {} PROVE FALSE
  OBVIOUS
<1>1. PICK n \in Nat \ S : \A m \in Nat \ S : n <= m
  BY LeastOne
<1>2. n # 0 /\ n - 1 \in Nat
  BY <1>1
<1>3. n - 1 \in S
  BY <1>1, <1>2
<1> QED BY <1>1, <1>2, <1>3

(* The same for the numbers up to a bound.                                 *)
LEMMA BoundedInduction ==
  ASSUME NEW N \in Nat, NEW S, 0 \in S, \A n \in 0 .. N - 1 : n \in S => n + 1 \in S
  PROVE  \A n \in 0 .. N : n \in S
<1> DEFINE T == S \cup {n \in Nat : n > N}
<1>1. 0 \in T /\ \A n \in Nat : n \in T => n + 1 \in T
  OBVIOUS
<1>2. \A n \in Nat : n \in T
  <2> HIDE DEF T
  <2> QED BY <1>1, SetInduction
<1> QED BY <1>2

-----------------------------------------------------------------------------
(* The function that Selection chooses exists.                             *)

Kept(s, K, f, n) ==
  IF n = 0 THEN <<>>
  ELSE IF s[n] \in K THEN Append(f[n - 1], s[n]) ELSE f[n - 1]

Keeping(s, K, f, n) == f = [i \in 0 .. n |-> Kept(s, K, f, i)]

LEMMA KeepOneMore ==
  ASSUME NEW s, NEW K, NEW n \in Nat, NEW f, Keeping(s, K, f, n)
  PROVE  \E g : Keeping(s, K, g, n + 1)
<1> USE DEF Keeping
<1> DEFINE g == [i \in 0 .. n + 1 |-> IF i = n + 1 THEN Kept(s, K, f, n + 1) ELSE f[i]]
<1>1. g[n + 1] = Kept(s, K, f, n + 1) /\ \A j \in 0 .. n : g[j] = f[j]
  OBVIOUS
<1>2. \A j \in 0 .. n : f[j] = Kept(s, K, f, j)
  OBVIOUS
<1>3. g = [i \in 0 .. n + 1 |-> g[i]]
  OBVIOUS
<1> HIDE DEF g
<1>4. ASSUME NEW i \in 0 .. n + 1 PROVE g[i] = Kept(s, K, g, i)
  <2>1. g[i] = Kept(s, K, f, i)
    BY <1>1, <1>2
  <2>2. i # 0 => g[i - 1] = f[i - 1]
    BY <1>1
  <2> QED BY <2>1, <2>2 DEF Kept
<1>5. g = [i \in 0 .. n + 1 |-> Kept(s, K, g, i)]
  BY <1>3, <1>4
<1> QED BY <1>5

LEMMA KeepingExists ==
  ASSUME NEW s, NEW K
  PROVE  \A n \in Nat : \E f : Keeping(s, K, f, n)
<1> DEFINE S == {n \in Nat : \E f : Keeping(s, K, f, n)}
<1>1. \E f : Keeping(s, K, f, 0)
  <2>1. [i \in 0 .. 0 |-> <<>>] = [i \in 0 .. 0 |-> Kept(s, K, [j \in 0 .. 0 |-> <<>>], i)]
    BY DEF Kept
  <2> QED BY <2>1 DEF Keeping
<1>2. \A n \in Nat : (\E f : Keeping(s, K, f, n)) => \E f : Keeping(s, K, f, n + 1)
  BY KeepOneMore
<1>3. 0 \in S /\ \A n \in Nat : n \in S => n + 1 \in S
  BY <1>1, <1>2
<1> HIDE DEF S
<1>4. \A n \in Nat : n \in S
  BY <1>3, SetInduction
<1> QED BY <1>4 DEF S

-----------------------------------------------------------------------------
(* The theorems about selections.                                          *)

(* The selection of a longer prefix: the next element is kept if it is in  *)
(* the set.                                                                *)
THEOREM SelectionUnfolds ==
  ASSUME NEW s, NEW K, Len(s) \in Nat
  PROVE  /\ Selection(s, K)[0] = <<>>
         /\ \A n \in 1 .. Len(s) :
              Selection(s, K)[n] = IF s[n] \in K THEN Append(Selection(s, K)[n - 1], s[n])
                                                 ELSE Selection(s, K)[n - 1]
<1> DEFINE f == Selection(s, K)
<1>1. \E g : g = [i \in 0 .. Len(s) |-> Kept(s, K, g, i)]
  BY KeepingExists DEF Keeping
<1>2. f = CHOOSE g : g = [i \in 0 .. Len(s) |-> Kept(s, K, g, i)]
  BY DEF Selection, Kept
<1>3. f = [i \in 0 .. Len(s) |-> Kept(s, K, f, i)]
  BY <1>1, <1>2
<1> HIDE DEF f
<1>4. \A n \in 0 .. Len(s) : f[n] = Kept(s, K, f, n)
  BY <1>3
<1>5. f[0] = <<>> /\ \A n \in 1 .. Len(s) :
        f[n] = IF s[n] \in K THEN Append(f[n - 1], s[n]) ELSE f[n - 1]
  BY <1>4 DEF Kept
<1> QED BY <1>5 DEF f

(* A selection has elements of the sequence only, all of them in the set,  *)
(* and has one if the sequence has.                                        *)
THEOREM SelectionIsSound ==
  ASSUME NEW S, NEW s \in Seq(S), NEW K
  PROVE  \A n \in 0 .. Len(s) :
           /\ Selection(s, K)[n] \in Seq(S \cap K)
           /\ Selection(s, K)[n] = <<>> <=> \A i \in 1 .. n : s[i] \notin K
<1> DEFINE f == Selection(s, K)
           Good(n) == f[n] \in Seq(S \cap K) /\ (f[n] = <<>> <=> \A i \in 1 .. n : s[i] \notin K)
           T == {n \in 0 .. Len(s) : Good(n)}
<1>1. f[0] = <<>> /\ \A n \in 1 .. Len(s) :
        f[n] = IF s[n] \in K THEN Append(f[n - 1], s[n]) ELSE f[n - 1]
  BY SelectionUnfolds
<1> HIDE DEF f
<1>2. Good(0)
  BY <1>1
<1>3. ASSUME NEW n \in 0 .. Len(s) - 1, Good(n) PROVE Good(n + 1)
  <2>1. f[n + 1] = IF s[n + 1] \in K THEN Append(f[n], s[n + 1]) ELSE f[n]
    BY <1>1
  <2>2. s[n + 1] \in S
    OBVIOUS
  <2>3. CASE s[n + 1] \in K
    <3>1. f[n + 1] = Append(f[n], s[n + 1]) /\ f[n] \in Seq(S \cap K)
      BY <1>3, <2>1, <2>3
    <3>2. s[n + 1] \in S \cap K
      BY <2>2, <2>3
    <3>3. \A U : \A q \in Seq(U), x \in U : Append(q, x) \in Seq(U) /\ Append(q, x) # <<>>
      OBVIOUS
    <3>4. f[n + 1] \in Seq(S \cap K) /\ f[n + 1] # <<>>
      BY <3>1, <3>2, <3>3, Zenon
    <3> QED BY <2>3, <3>4
  <2>4. CASE s[n + 1] \notin K
    BY <1>3, <2>1, <2>4
  <2> QED BY <2>3, <2>4
<1> HIDE DEF Good
<1>4. 0 \in T /\ \A n \in 0 .. Len(s) - 1 : n \in T => n + 1 \in T
  BY <1>2, <1>3
<1> HIDE DEF T
<1>5. \A n \in 0 .. Len(s) : n \in T
  BY <1>4, BoundedInduction
<1> QED BY <1>5 DEF T, Good, f

-----------------------------------------------------------------------------
(* Short sequences.                                                        *)

LEMMA Joined ==
  ASSUME NEW x, NEW y
  PROVE  <<x>> \o <<y>> = <<x, y>> /\ Append(<<x>>, y) = <<x, y>>
<1> DEFINE U == {x, y}
           s == <<x>> \o <<y>>
<1>1. <<x>> \in Seq(U) /\ <<y>> \in Seq(U) /\ <<x, y>> \in Seq(U)
  OBVIOUS
<1>2. Len(<<x>>) = 1 /\ Len(<<y>>) = 1 /\ Len(<<x, y>>) = 2
  OBVIOUS
<1>3. s \in Seq(U) /\ Len(s) = 2 /\ s[1] = x /\ s[2] = y
  BY <1>1, <1>2, ConcatProperties
<1>4. Append(<<x>>, y) = s
  BY <1>1
<1> HIDE DEF s, U
<1>5. \A i \in 1 .. Len(s) : s[i] = <<x, y>>[i]
  BY <1>3
<1>6. s = <<x, y>>
  BY <1>1, <1>2, <1>3, <1>5, SeqEqual
<1> QED BY <1>4, <1>6 DEF s

(* The first element.                                                      *)
LEMMA SelectFirst ==
  ASSUME NEW s, NEW K, Len(s) \in Nat, Len(s) > 0
  PROVE  /\ s[1] \in K => Selection(s, K)[1] = <<s[1]>>
         /\ s[1] \notin K => Selection(s, K)[1] = <<>>
<1> DEFINE f == Selection(s, K)
<1>1. f[0] = <<>> /\ \A n \in 1 .. Len(s) :
        f[n] = IF s[n] \in K THEN Append(f[n - 1], s[n]) ELSE f[n - 1]
  BY SelectionUnfolds
<1>2. 1 \in 1 .. Len(s) /\ 1 - 1 = 0
  OBVIOUS
<1> HIDE DEF f
<1>3. f[1] = IF s[1] \in K THEN Append(f[0], s[1]) ELSE f[0]
  BY <1>1, <1>2
<1>4. Append(<<>>, s[1]) = <<s[1]>>
  OBVIOUS
<1> QED BY <1>1, <1>3, <1>4 DEF f

LEMMA SelectFromNone ==
  ASSUME NEW s, NEW K, Len(s) = 0
  PROVE  Select(s, K) = <<>>
BY SelectionUnfolds DEF Select

LEMMA SelectFromOne ==
  ASSUME NEW s, NEW K, Len(s) = 1, s[1] \in K
  PROVE  Select(s, K) = <<s[1]>>
<1>1. Len(s) \in Nat /\ Len(s) > 0
  OBVIOUS
<1>2. Selection(s, K)[1] = <<s[1]>>
  BY <1>1, SelectFirst, Zenon
<1> QED BY <1>2, Zenon DEF Select

LEMMA SelectFromTwo ==
  ASSUME NEW s, NEW K, Len(s) = 2, s[2] \in K
  PROVE  /\ s[1] \in K => Select(s, K) = <<s[1], s[2]>>
         /\ s[1] \notin K => Select(s, K) = <<s[2]>>
<1> DEFINE f == Selection(s, K)
<1>0. Len(s) \in Nat /\ Len(s) > 0
  OBVIOUS
<1>1. \A n \in 1 .. Len(s) : f[n] = IF s[n] \in K THEN Append(f[n - 1], s[n]) ELSE f[n - 1]
  BY <1>0, SelectionUnfolds, Zenon
<1>2. /\ s[1] \in K => f[1] = <<s[1]>>
      /\ s[1] \notin K => f[1] = <<>>
  BY <1>0, SelectFirst, Zenon
<1> HIDE DEF f
<1>3. f[2] = Append(f[1], s[2])
  <2>1. 2 \in 1 .. Len(s) /\ 2 - 1 = 1
    OBVIOUS
  <2> QED BY <1>1, <2>1
<1>4. s[1] \in K => f[2] = <<s[1], s[2]>>
  BY <1>2, <1>3, Joined
<1>5. s[1] \notin K => f[2] = <<s[2]>>
  <2>1. Append(<<>>, s[2]) = <<s[2]>>
    OBVIOUS
  <2> QED BY <1>2, <1>3, <2>1
<1> QED BY <1>4, <1>5 DEF Select, f
=============================================================================
