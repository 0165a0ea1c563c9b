-------------------------- MODULE ShaderTextProofs --------------------------
(***************************************************************************)
(* Proofs about ShaderText, for texts of any length, any number of macros, *)
(* any names, line numbers and stages, and every version that glslang      *)
(* compiles.                                                               *)
(***************************************************************************)
EXTENDS ShaderText, SelectionsProofs

-----------------------------------------------------------------------------
(* Lines.                                                                  *)

LEMMA LineTypes ==
  ASSUME NEW l \in AnyLines
  PROVE  /\ l.kind \in {"blank", "extension", "code", "directive", "pragma", "line", "version"}
         /\ l.kind = "line" => l.arg \in Nat /\ l.name \in Names \cup {Main, NoName}
         /\ l.kind = "pragma" => l.arg \in Stages \cup {BadStage}
         /\ l.kind = "version" => l.arg \in Versions \cup Others
<1>1. CASE l \in {Blank, PoundExtension, Line("code", 0, NoName), Line("directive", 0, NoName)}
  BY <1>1 DEF Blank, PoundExtension, Line
<1>2. CASE \E s \in Stages \cup {BadStage} : l = Line("pragma", s, NoName)
  BY <1>2 DEF Line
<1>3. CASE \E n \in Numbers \cup {0, 1}, f \in Names \cup {Main, NoName} : l = Line("line", n, f)
  BY <1>3, BoundAssumption DEF Line
<1>4. CASE \E v \in Versions \cup Others : l = Line("version", v, NoName)
  BY <1>4 DEF Line
<1> QED BY <1>1, <1>2, <1>3, <1>4 DEF AnyLines, Lines

-----------------------------------------------------------------------------
(* Positions, line after line.                                             *)

LEMMA DirectivesStep ==
  ASSUME NEW t \in Seq(AnyLines), NEW i \in 1 .. Len(t)
  PROVE  /\ Directives(t, i) \in SUBSET (1 .. i) /\ Directives(t, i + 1) \in SUBSET (1 .. i)
         /\ t[i].kind = "line" => /\ Directives(t, i + 1) = Directives(t, i) \cup {i}
                                  /\ Max(Directives(t, i + 1)) = i
         /\ t[i].kind # "line" => Directives(t, i + 1) = Directives(t, i)
<1>1. Directives(t, i) \in SUBSET (1 .. i) /\ Directives(t, i + 1) \in SUBSET (1 .. i)
  BY DEF Directives
<1>2. CASE t[i].kind = "line"
  <2>1. Directives(t, i + 1) = Directives(t, i) \cup {i}
    BY <1>2 DEF Directives
  <2>2. i \in Nat /\ \A k \in Directives(t, i + 1) : k <= i
    BY <1>1
  <2>3. Max(Directives(t, i + 1)) = i
    BY <1>1, <2>1, <2>2, GreatestIs
  <2> QED BY <1>1, <1>2, <2>1, <2>3
<1>3. CASE t[i].kind # "line"
  BY <1>1, <1>3 DEF Directives
<1> QED BY <1>2, <1>3

LEMMA FileStep ==
  ASSUME NEW t \in Seq(AnyLines), NEW i \in 1 .. Len(t)
  PROVE  FileAt(t, i + 1) = IF t[i].kind = "line" /\ t[i].name # NoName
                            THEN t[i].name ELSE FileAt(t, i)
<1>1. CASE t[i].kind = "line" /\ t[i].name # NoName
  <2>1. i \in Named(t, i + 1) /\ Named(t, i + 1) \in SUBSET (1 .. i)
    BY <1>1, DirectivesStep DEF Named
  <2>2. i \in Nat /\ \A k \in Named(t, i + 1) : k <= i
    BY <2>1
  <2>3. Max(Named(t, i + 1)) = i
    BY <2>1, <2>2, GreatestIs
  <2> QED BY <1>1, <2>1, <2>3 DEF FileAt
<1>2. CASE ~(t[i].kind = "line" /\ t[i].name # NoName)
  <2>1. Named(t, i + 1) = Named(t, i)
    BY <1>2, DirectivesStep DEF Named
  <2> QED BY <1>2, <2>1 DEF FileAt
<1> QED BY <1>1, <1>2

LEMMA LineStep ==
  ASSUME NEW t \in Seq(AnyLines), NEW i \in 1 .. Len(t), NEW next \in BOOLEAN
  PROVE  /\ LineAt(t, i, next) \in Int
         /\ LineAt(t, i + 1, next) = IF t[i].kind = "line"
                                     THEN t[i].arg + (IF next THEN 0 ELSE 1)
                                     ELSE LineAt(t, i, next) + 1
<1> DEFINE D == Directives(t, i)
           E == Directives(t, i + 1)
<1>1. \A j \in D \cup E : j \in 1 .. Len(t) /\ t[j] \in AnyLines /\ t[j].kind = "line"
  BY DEF Directives
<1>2. \A j \in D \cup E : j \in Int /\ t[j].arg \in Int
  BY <1>1, LineTypes
<1>3. D # {} => Max(D) \in D
  <2>1. i \in Nat /\ D \in SUBSET (1 .. i)
    BY DirectivesStep
  <2> QED BY <2>1, Greatest
<1>4. LineAt(t, i, next) \in Int
  BY <1>2, <1>3 DEF LineAt
<1>5. /\ LineAt(t, i, next) = IF D = {} THEN i
                               ELSE t[Max(D)].arg + (i - Max(D)) - (IF next THEN 1 ELSE 0)
      /\ LineAt(t, i + 1, next) = IF E = {} THEN i + 1
                               ELSE t[Max(E)].arg + ((i + 1) - Max(E)) - (IF next THEN 1 ELSE 0)
  BY Zenon DEF LineAt
<1>6. /\ t[i].kind = "line" => E # {} /\ Max(E) = i /\ i \in E
      /\ t[i].kind # "line" => E = D
  BY DirectivesStep
<1>7. i \in Nat
  OBVIOUS
<1> HIDE DEF D, E
<1>8. CASE t[i].kind = "line"
  <2>1. t[i].arg \in Int
    BY <1>2, <1>6, <1>8
  <2> QED BY <1>4, <1>5, <1>6, <1>7, <1>8, <2>1
<1>9. CASE t[i].kind # "line"
  <2>1. CASE D = {}
    BY <1>4, <1>5, <1>6, <1>7, <1>9, <2>1
  <2>2. CASE D # {}
    <3> DEFINE m == Max(D)
               a == t[m].arg
               b == IF next THEN 1 ELSE 0
    <3>1. m \in Int /\ a \in Int /\ b \in Int
      BY <1>2, <1>3, <2>2
    <3>2. LineAt(t, i, next) = a + (i - m) - b /\ LineAt(t, i + 1, next) = a + ((i + 1) - m) - b
      BY <1>5, <1>6, <1>9, <2>2, Zenon
    <3> HIDE DEF a, b, m
    <3>3. LineAt(t, i + 1, next) = LineAt(t, i, next) + 1
      BY <1>7, <3>1, <3>2
    <3> QED BY <1>4, <1>9, <3>3
  <2> QED BY <2>1, <2>2
<1> QED BY <1>8, <1>9

LEMMA FirstPosition ==
  ASSUME NEW t, NEW next
  PROVE  FileAt(t, 1) = Main /\ LineAt(t, 1, next) = 1 /\ Directives(t, 1) = {}
BY DEF FileAt, Named, LineAt, Directives

(* A text u behind a head whose last line, if there is one, is a #line for *)
(* the first line of the main file: nothing in u moves.                    *)
LEMMA BehindHead ==
  ASSUME NEW t \in Seq(AnyLines), NEW u \in Seq(AnyLines), NEW head \in Nat,
         NEW next \in BOOLEAN,
         Len(t) = head + Len(u),
         head > 0 => t[head] = GetLineDirective(next, Main),
         \A j \in 1 .. Len(u) :
           t[head + j].kind = "line" \/ u[j].kind = "line" => t[head + j] = u[j]
  PROVE  \A j \in 0 .. Len(u) :
           /\ FileAt(t, head + (j + 1)) = FileAt(u, j + 1)
           /\ LineAt(t, head + (j + 1), next) = LineAt(u, j + 1, next)
<1> DEFINE Same(j) == /\ FileAt(t, head + (j + 1)) = FileAt(u, j + 1)
                      /\ LineAt(t, head + (j + 1), next) = LineAt(u, j + 1, next)
           S == {j \in 0 .. Len(u) : Same(j)}
<1>1. Same(0)
  <2>1. FileAt(u, 1) = Main /\ LineAt(u, 1, next) = 1
    BY FirstPosition
  <2>2. CASE head = 0
    <3>1. FileAt(t, 1) = Main /\ LineAt(t, 1, next) = 1
      BY FirstPosition
    <3>2. head + (0 + 1) = 1 /\ 0 + 1 = 1
      BY <2>2
    <3> QED BY <2>1, <3>1, <3>2, Zenon
  <2>3. CASE head > 0
    <3>1. /\ t[head].kind = "line" /\ t[head].name = Main
          /\ t[head].arg = IF next THEN 1 ELSE 0
      BY <2>3 DEF GetLineDirective, Line
    <3>2. head \in 1 .. Len(t) /\ Main # NoName
      BY <2>3, NameAssumption
    <3>3. FileAt(t, head + 1) = Main
      BY <3>1, <3>2, FileStep
    <3>4. LineAt(t, head + 1, next) = t[head].arg + (IF next THEN 0 ELSE 1)
      BY <3>1, <3>2, LineStep
    <3>5. LineAt(t, head + 1, next) = 1
      BY <3>1, <3>4
    <3>6. 0 + 1 = 1
      OBVIOUS
    <3> QED BY <2>1, <3>3, <3>5, <3>6, Zenon
  <2> QED BY <2>2, <2>3
<1>2. ASSUME NEW j \in 0 .. Len(u) - 1, Same(j) PROVE Same(j + 1)
  <2> DEFINE k == j + 1
             n == head + k
  <2>1. k \in 1 .. Len(u) /\ n \in 1 .. Len(t) /\ head + (k + 1) = n + 1
    OBVIOUS
  <2>2. FileAt(t, n) = FileAt(u, k) /\ LineAt(t, n, next) = LineAt(u, k, next)
    BY <1>2
  <2>3. t[n].kind = "line" \/ u[k].kind = "line" => t[n] = u[k]
    BY <2>1
  <2> HIDE DEF k, n
  <2>4. FileAt(t, n + 1) = FileAt(u, k + 1)
    <3>1. FileAt(t, n + 1) = IF t[n].kind = "line" /\ t[n].name # NoName
                             THEN t[n].name ELSE FileAt(t, n)
      BY <2>1, FileStep
    <3>2. FileAt(u, k + 1) = IF u[k].kind = "line" /\ u[k].name # NoName
                             THEN u[k].name ELSE FileAt(u, k)
      BY <2>1, FileStep
    <3> QED BY <2>2, <2>3, <3>1, <3>2
  <2>5. LineAt(t, n + 1, next) = LineAt(u, k + 1, next)
    <3>1. LineAt(t, n + 1, next) = IF t[n].kind = "line" THEN t[n].arg + (IF next THEN 0 ELSE 1)
                                   ELSE LineAt(t, n, next) + 1
      BY <2>1, LineStep
    <3>2. LineAt(u, k + 1, next) = IF u[k].kind = "line" THEN u[k].arg + (IF next THEN 0 ELSE 1)
                                   ELSE LineAt(u, k, next) + 1
      BY <2>1, LineStep
    <3>3. t[n].kind = "line" <=> u[k].kind = "line"
      BY <2>3
    <3> QED BY <2>2, <2>3, <3>1, <3>2, <3>3, Zenon
  <2> QED BY <2>1, <2>4, <2>5 DEF k
<1> HIDE DEF Same
<1>3. 0 \in S /\ \A j \in 0 .. Len(u) - 1 : j \in S => j + 1 \in S
  <2>1. /\ 0 \in 0 .. Len(u)
        /\ \A j \in 0 .. Len(u) - 1 : j \in 0 .. Len(u) /\ j + 1 \in 0 .. Len(u)
    OBVIOUS
  <2> QED BY <1>1, <1>2, <2>1
<1>4. Len(u) \in Nat
  OBVIOUS
<1> HIDE DEF S
<1>5. \A j \in 0 .. Len(u) : j \in S
  BY <1>3, <1>4, BoundedInduction, Zenon
<1> QED BY <1>5 DEF S, Same

-----------------------------------------------------------------------------
(* The cleanup.                                                            *)

(* What glslang hands over: see Preprocessed.                              *)
Preamble == [i \in 1 .. macros |-> Blank] \o <<PoundExtension>>

LEMMA PreambleLines ==
  ASSUME macros \in Nat
  PROVE  /\ Preamble \in Seq(Lines) /\ Len(Preamble) = macros + 1
         /\ \A i \in 1 .. macros : Preamble[i] = Blank
         /\ Preamble[macros + 1] = PoundExtension
<1> DEFINE blanks == [i \in 1 .. macros |-> Blank]
<1>1. Blank \in Lines /\ PoundExtension \in Lines
  BY DEF Lines
<1>2. blanks \in Seq(Lines) /\ Len(blanks) = macros /\ \A i \in 1 .. macros : blanks[i] = Blank
  BY <1>1
<1> DEFINE e == <<PoundExtension>>
<1>3. e \in Seq(Lines) /\ Len(e) = 1 /\ e[1] = PoundExtension
  BY <1>1
<1> DEFINE p == blanks \o e
<1> HIDE DEF blanks, e
<1>4. /\ p \in Seq(Lines) /\ Len(p) = macros + 1
      /\ \A i \in 1 .. macros + 1 : p[i] = IF i <= macros THEN blanks[i] ELSE e[i - macros]
  BY <1>2, <1>3, ConcatProperties
<1> HIDE DEF p
<1>5. \A i \in 1 .. macros : p[i] = Blank
  BY <1>2, <1>4
<1>6. p[macros + 1] = PoundExtension
  <2>1. macros + 1 \in 1 .. macros + 1 /\ ~(macros + 1 <= macros) /\ (macros + 1) - macros = 1
    OBVIOUS
  <2> QED BY <1>3, <1>4, <2>1
<1> QED BY <1>4, <1>5, <1>6 DEF Preamble, blanks, e, p

LEMMA HandedOver ==
  ASSUME macros \in Nat, NEW u \in Seq(Lines)
  PROVE  /\ Preamble \o u \in Seq(Lines) /\ Len(Preamble \o u) = macros + 1 + Len(u)
         /\ \A i \in 1 .. macros : (Preamble \o u)[i] = Blank
         /\ (Preamble \o u)[macros + 1] = PoundExtension
         /\ \A i \in 1 .. Len(u) : (Preamble \o u)[macros + 1 + i] = u[i]
<1> DEFINE p == Preamble
           t == p \o u
<1>1. /\ p \in Seq(Lines) /\ Len(p) = macros + 1
      /\ \A i \in 1 .. macros : p[i] = Blank
      /\ p[macros + 1] = PoundExtension
  BY PreambleLines
<1>2. /\ t \in Seq(Lines) /\ Len(t) = Len(p) + Len(u)
      /\ \A i \in 1 .. Len(p) + Len(u) : t[i] = IF i <= Len(p) THEN p[i] ELSE u[i - Len(p)]
  BY <1>1, ConcatProperties
<1> HIDE DEF t, p
<1>3. Len(u) \in Nat
  OBVIOUS
<1>4. \A i \in 1 .. Len(u) : t[macros + 1 + i] = u[i]
  BY <1>1, <1>2, <1>3
<1>5. \A i \in 1 .. macros + 1 : t[i] = p[i]
  BY <1>1, <1>2, <1>3
<1> QED BY <1>1, <1>2, <1>4, <1>5 DEF t, p

(* The first #version.                                                     *)
LEMMA VersionIndexIs ==
  ASSUME NEW S, NEW t \in Seq(S)
  PROVE  /\ VersionIndex(t) \in 0 .. Len(t)
         /\ VersionIndex(t) # 0 => t[VersionIndex(t)].kind = "version"
         /\ \A i \in 1 .. Len(t) : t[i].kind = "version" =>
              VersionIndex(t) # 0 /\ VersionIndex(t) <= i
<1> DEFINE I == {i \in 1 .. Len(t) : t[i].kind = "version"}
<1>1. VersionIndex(t) = IF I # {} THEN Min(I) ELSE 0
  BY DEF VersionIndex, SelectInSeq
<1>2. I # {} => Min(I) \in I /\ \A k \in I : Min(I) <= k
  <2>1. I \in SUBSET Nat
    OBVIOUS
  <2> QED BY <2>1, Least
<1>3. CASE I = {}
  BY <1>1, <1>3
<1>4. CASE I # {}
  <2>1. VersionIndex(t) \in I /\ \A k \in I : VersionIndex(t) <= k
    BY <1>1, <1>2, <1>4
  <2> QED BY <2>1
<1> QED BY <1>3, <1>4

(* The injected #extension is the first one, and there is nothing else     *)
(* but blank lines before it.                                              *)
LEMMA InjectedFirst ==
  ASSUME macros \in Nat, NEW u \in Seq(Lines)
  PROVE  ExtensionIndex(Preamble \o u) = macros + 1
<1> DEFINE t == Preamble \o u
           I == {i \in 1 .. Len(t) : t[i] = PoundExtension}
<1>1. Blank # PoundExtension
  BY DEF Blank, PoundExtension, Line
<1>2. /\ Len(t) = macros + 1 + Len(u) /\ Len(u) \in Nat /\ t[macros + 1] = PoundExtension
      /\ \A i \in 1 .. macros : t[i] = Blank
  BY HandedOver
<1> HIDE DEF t
<1>3. macros + 1 \in I /\ I \in SUBSET Nat /\ \A i \in I : macros + 1 <= i
  BY <1>1, <1>2
<1>4. Min(I) = macros + 1
  BY <1>3, LeastIs
<1>5. ExtensionIndex(t) = IF I # {} THEN Min(I) ELSE 0
  BY DEF ExtensionIndex, SelectInSeq
<1> QED BY <1>3, <1>4, <1>5 DEF t

LEMMA VersionBehind ==
  ASSUME macros \in Nat, NEW u \in Seq(Lines)
  PROVE  VersionIndex(Preamble \o u)
           = IF VersionIndex(u) = 0 THEN 0 ELSE macros + 1 + VersionIndex(u)
<1> DEFINE t == Preamble \o u
           v == VersionIndex(u)
           w == VersionIndex(t)
<1>1. /\ t \in Seq(Lines) /\ Len(t) = macros + 1 + Len(u) /\ Len(u) \in Nat
      /\ \A i \in 1 .. macros : t[i] = Blank
      /\ t[macros + 1] = PoundExtension
      /\ \A i \in 1 .. Len(u) : t[macros + 1 + i] = u[i]
  BY HandedOver
<1> HIDE DEF t
<1>2. /\ v \in 0 .. Len(u)
      /\ v # 0 => u[v].kind = "version"
      /\ \A i \in 1 .. Len(u) : u[i].kind = "version" => v # 0 /\ v <= i
  BY VersionIndexIs
<1>3. /\ w \in 0 .. Len(t)
      /\ w # 0 => t[w].kind = "version"
      /\ \A i \in 1 .. Len(t) : t[i].kind = "version" => w # 0 /\ w <= i
  BY <1>1, VersionIndexIs
<1> HIDE DEF v, w
<1>4. \A i \in 1 .. macros + 1 : t[i].kind # "version"
  BY <1>1 DEF Blank, PoundExtension, Line
<1>5. w # 0 => w - (macros + 1) \in 1 .. Len(u)
  BY <1>1, <1>3, <1>4
<1>6. w # 0 => u[w - (macros + 1)].kind = "version"
  <2> SUFFICES ASSUME w # 0 PROVE u[w - (macros + 1)].kind = "version"
    OBVIOUS
  <2> DEFINE i == w - (macros + 1)
  <2>1. i \in 1 .. Len(u) /\ macros + 1 + i = w
    BY <1>3, <1>5
  <2> HIDE DEF i
  <2>2. t[w] = u[i]
    BY <1>1, <2>1
  <2> QED BY <1>3, <2>2 DEF i
<1>7. v # 0 => t[macros + 1 + v].kind = "version" /\ macros + 1 + v \in 1 .. Len(t)
  BY <1>1, <1>2
<1>8. CASE v = 0
  BY <1>2, <1>5, <1>6, <1>8 DEF t, v, w
<1>9. CASE v # 0
  <2>1. w # 0 /\ w <= macros + 1 + v
    BY <1>3, <1>7, <1>9
  <2>2. v <= w - (macros + 1)
    BY <1>2, <1>5, <1>6, <2>1
  <2>3. w = macros + 1 + v
    BY <1>2, <1>3, <2>1, <2>2
  <2> QED BY <1>9, <2>3 DEF t, v, w
<1> QED BY <1>8, <1>9

LEMMA NothingInPreamble ==
  ASSUME macros \in Nat, NEW u \in Seq(Lines)
  PROVE  Select(SubSeq(Preamble \o u, 1, macros), NonBlank(Preamble \o u)) = <<>>
<1> DEFINE t == Preamble \o u
           K == NonBlank(t)
           s == SubSeq(t, 1, macros)
<1>1. \A i \in 1 .. macros : t[i] = Blank
  BY HandedOver
<1>2. \A i \in 1 .. macros : t[i] \in {Blank}
  BY <1>1
<1> HIDE DEF t
<1>3. s \in Seq({Blank}) /\ Len(s) = macros /\ \A i \in 1 .. macros : s[i] = t[i]
  <2>1. /\ SubSeq(t, 1, macros) \in Seq({Blank})
        /\ Len(SubSeq(t, 1, macros)) = IF 1 <= macros THEN macros - 1 + 1 ELSE 0
        /\ \A i \in 1 .. macros - 1 + 1 : SubSeq(t, 1, macros)[i] = t[1 + i - 1]
    BY <1>2, SubSeqProperties
  <2> HIDE DEF s
  <2>2. /\ s \in Seq({Blank})
        /\ Len(s) = IF 1 <= macros THEN macros - 1 + 1 ELSE 0
        /\ \A i \in 1 .. macros - 1 + 1 : s[i] = t[1 + i - 1]
    BY <2>1 DEF s
  <2> QED BY <2>2
<1>4. \A i \in 1 .. macros : s[i] \notin K
  <2>1. Blank \notin K
    BY DEF NonBlank, IsBlank, Blank, Line
  <2> QED BY <1>1, <1>3, <2>1
<1> HIDE DEF s, K
<1>5. Selection(s, K)[macros] = <<>>
  <2>1. \A m \in 0 .. Len(s) :
          /\ Selection(s, K)[m] \in Seq({Blank} \cap K)
          /\ Selection(s, K)[m] = <<>> <=> \A i \in 1 .. m : s[i] \notin K
    BY <1>3, SelectionIsSound
  <2>2. macros \in 0 .. Len(s)
    BY <1>3
  <2> QED BY <1>4, <2>1, <2>2, Zenon
<1> QED BY <1>3, <1>5 DEF Select, s, K, t

LEMMA UserLines ==
  ASSUME macros \in Nat, NEW u \in Seq(Lines)
  PROVE  SubSeq(Preamble \o u, macros + 2, Len(Preamble \o u)) = u
<1> DEFINE t == Preamble \o u
           n == Len(t)
           s == SubSeq(t, macros + 2, n)
<1>1. /\ t \in Seq(Lines) /\ n = macros + 1 + Len(u) /\ Len(u) \in Nat
      /\ \A i \in 1 .. Len(u) : t[macros + 1 + i] = u[i]
  BY HandedOver
<1> HIDE DEF t
<1>2. /\ s \in Seq(Lines)
      /\ Len(s) = IF macros + 2 <= n THEN n - (macros + 2) + 1 ELSE 0
      /\ \A i \in 1 .. n - (macros + 2) + 1 : s[i] = t[(macros + 2) + i - 1]
  <2>1. \A i \in macros + 2 .. n : t[i] \in Lines
    BY <1>1
  <2>2. n \in Int /\ macros + 2 \in Int
    BY <1>1
  <2> QED BY <2>1, <2>2, SubSeqProperties
<1> HIDE DEF s, n
<1>3. Len(s) = Len(u)
  BY <1>1, <1>2
<1>4. \A i \in 1 .. Len(s) : s[i] = u[i]
  <2> SUFFICES ASSUME NEW i \in 1 .. Len(u) PROVE s[i] = u[i]
    BY <1>3
  <2>1. i \in 1 .. n - (macros + 2) + 1 /\ (macros + 2) + i - 1 = macros + 1 + i
    BY <1>1
  <2> QED BY <1>1, <1>2, <2>1
<1>5. s = u
  BY <1>2, <1>3, <1>4, SeqEqual
<1> QED BY <1>5 DEF s, n, t

(* A text has the same versions as another, for the code and for glslang,  *)
(* if it has the same first #version.                                      *)
LEMMA SameVersion ==
  ASSUME NEW t, NEW u,
         (VersionIndex(t) = 0) <=> (VersionIndex(u) = 0),
         VersionIndex(t) # 0 => t[VersionIndex(t)] = u[VersionIndex(u)]
  PROVE  /\ IsForNextLine(t) = IsForNextLine(u)
         /\ forced # NoVersion \/ language = "hlsl" \/ VersionIndex(u) # 0 =>
              LineDirectiveShouldSetNextLine(t) = LineDirectiveShouldSetNextLine(u)
<1>1. GetVersionProfileFromSourceCode(t) = GetVersionProfileFromSourceCode(u)
  BY DEF GetVersionProfileFromSourceCode
<1>2. IsForNextLine(t) = IsForNextLine(u)
  BY <1>1 DEF IsForNextLine, DeduceVersionProfile
<1>3. forced # NoVersion \/ language = "hlsl" \/ VersionIndex(u) # 0 =>
        VersionInGlslang(t) = VersionInGlslang(u)
  BY DEF VersionInGlslang
<1> QED BY <1>2, <1>3 DEF LineDirectiveShouldSetNextLine

(* The user's lines after the cleanup, and what is before them.            *)
Body(u) == [i \in 1 .. Len(u) |-> IF i = VersionIndex(u) THEN Blank ELSE u[i]]
Top(u) ==
  (IF VersionIndex(u) = 0 THEN <<>> ELSE <<u[VersionIndex(u)]>>)
    \o <<PoundExtension, GetLineDirective(IsForNextLine(u), Main)>>

LEMMA CleanedIs ==
  ASSUME macros \in Nat, included \in BOOLEAN, NEW u \in Seq(Lines)
  PROVE  Cleaned(Preamble \o u) = IF included THEN Top(u) \o Body(u) ELSE u
<1> DEFINE t == Preamble \o u
           v == VersionIndex(u)
           ext == ExtensionIndex(t)
           before == Select(SubSeq(t, 1, ext - 1), NonBlank(t))
           rest == SubSeq(t, ext + 1, Len(t))
           first == IF VersionIndex(t) = 0 THEN <<>> ELSE <<t[VersionIndex(t)]>>
           mid == <<PoundExtension, GetLineDirective(IsForNextLine(t), Main)>>
           tail == [i \in DOMAIN rest |-> IF ext + i = VersionIndex(t) THEN Blank ELSE rest[i]]
<1>1. Cleaned(t) = IF included THEN first \o before \o mid \o tail ELSE before \o rest
  BY Zenon DEF Cleaned
<1>2. ext = macros + 1
  BY InjectedFirst
<1>3. v \in Nat /\ VersionIndex(t) = IF v = 0 THEN 0 ELSE macros + 1 + v
  BY VersionIndexIs, VersionBehind
<1>4. v # 0 => t[VersionIndex(t)] = u[v] /\ v \in 1 .. Len(u)
  BY <1>3, HandedOver, VersionIndexIs
<1>5. (VersionIndex(t) = 0) <=> (v = 0)
  BY <1>3
<1>6. IsForNextLine(t) = IsForNextLine(u)
  BY <1>4, <1>5, SameVersion
<1>7. before = <<>>
  <2>1. ext - 1 = macros
    BY <1>2
  <2> QED BY <2>1, NothingInPreamble
<1>8. rest = u
  <2>1. ext + 1 = macros + 2
    BY <1>2
  <2> QED BY <2>1, UserLines
<1>9. first = IF v = 0 THEN <<>> ELSE <<u[v]>>
  BY <1>4, <1>5, Zenon
<1>10. tail = Body(u)
  <2>1. \A i \in 1 .. Len(u) : (ext + i = VersionIndex(t)) <=> (i = v)
    BY <1>2, <1>3
  <2>2. DOMAIN rest = 1 .. Len(u)
    <3>1. DOMAIN u = 1 .. Len(u)
      OBVIOUS
    <3> QED BY <1>8, <3>1, Zenon
  <2> QED BY <1>8, <2>1, <2>2 DEF Body
<1>11. first \o <<>> = first
  BY <1>9
<1>12. <<>> \o u = u
  OBVIOUS
<1> HIDE DEF first, before, mid, tail, rest, ext, t
<1>13. CASE included
  <2>1. Cleaned(t) = first \o mid \o tail
    BY <1>1, <1>7, <1>11, <1>13, Zenon
  <2>2. first \o mid = Top(u)
    BY <1>6, <1>9 DEF Top, mid
  <2> QED BY <1>10, <1>13, <2>1, <2>2 DEF t
<1>14. CASE ~included
  BY <1>1, <1>7, <1>8, <1>12, <1>14 DEF t
<1> QED BY <1>13, <1>14

(* The layout of the text after the cleanup.                               *)
Offset(u) == IF ~included THEN 0 ELSE IF VersionIndex(u) = 0 THEN 2 ELSE 3

LEMMA BodyLines ==
  ASSUME NEW u \in Seq(Lines)
  PROVE  /\ Body(u) \in Seq(Lines) /\ Len(Body(u)) = Len(u)
         /\ \A j \in 1 .. Len(u) :
              Body(u)[j] = IF j = VersionIndex(u) THEN Blank ELSE u[j]
<1>1. Blank \in Lines
  BY DEF Lines
<1>2. \A j \in 1 .. Len(u) : (IF j = VersionIndex(u) THEN Blank ELSE u[j]) \in Lines
  BY <1>1
<1> QED BY <1>2 DEF Body

LEMMA TopLines ==
  ASSUME NEW u \in Seq(Lines), included
  PROVE  /\ Top(u) \in Seq(AnyLines) /\ Len(Top(u)) = Offset(u)
         /\ Top(u)[Offset(u)] = GetLineDirective(IsForNextLine(u), Main)
         /\ Top(u)[Offset(u) - 1] = PoundExtension
         /\ VersionIndex(u) # 0 => Top(u)[1] = u[VersionIndex(u)]
<1> DEFINE v == VersionIndex(u)
           d == GetLineDirective(IsForNextLine(u), Main)
           mid == <<PoundExtension, d>>
<1>1. d \in AnyLines /\ PoundExtension \in AnyLines
  BY DEF GetLineDirective, AnyLines, Lines
<1>2. v # 0 => v \in 1 .. Len(u) /\ u[v] \in AnyLines
  BY VersionIndexIs DEF AnyLines
<1> HIDE DEF d, v
<1>3. /\ mid \in Seq(AnyLines) /\ Len(mid) = 2 /\ mid[1] = PoundExtension /\ mid[2] = d
  BY <1>1
<1> HIDE DEF mid
<1>4. CASE v = 0
  <2>1. Top(u) = mid
    <3>1. Top(u) = <<>> \o mid
      BY <1>4, Zenon DEF Top, mid, v, d
    <3> QED BY <1>3, <3>1
  <2>2. Offset(u) = 2
    BY <1>4 DEF Offset, v
  <2> QED BY <1>3, <1>4, <2>1, <2>2 DEF d, v
<1>5. CASE v # 0
  <2> DEFINE one == <<u[v]>>
             top == one \o mid
  <2>1. Top(u) = top
    BY <1>5, Zenon DEF Top, mid, v, d
  <2>2. one \in Seq(AnyLines) /\ Len(one) = 1 /\ one[1] = u[v]
    BY <1>2, <1>5
  <2> HIDE DEF one
  <2>3. /\ top \in Seq(AnyLines) /\ Len(top) = Len(one) + Len(mid)
        /\ \A i \in 1 .. Len(one) + Len(mid) :
             top[i] = IF i <= Len(one) THEN one[i] ELSE mid[i - Len(one)]
    BY <1>3, <2>2, ConcatProperties
  <2> HIDE DEF top
  <2>4. top[1] = u[v] /\ top[2] = PoundExtension /\ top[3] = d
    BY <1>3, <2>2, <2>3
  <2>5. Offset(u) = 3 /\ 3 - 1 = 2
    BY <1>5 DEF Offset, v
  <2>6. Len(top) = 3
    BY <1>3, <2>2, <2>3
  <2> QED BY <2>1, <2>3, <2>4, <2>5, <2>6, Zenon DEF d, v
<1> QED BY <1>4, <1>5

LEMMA Layout ==
  ASSUME macros \in Nat, included \in BOOLEAN, NEW u \in Seq(Lines),
         NEW t, t = Cleaned(Preamble \o u)
  PROVE  /\ t \in Seq(AnyLines) /\ Offset(u) \in Nat /\ Len(t) = Offset(u) + Len(u)
         /\ \A j \in 1 .. Len(u) :
              t[Offset(u) + j] = IF included /\ j = VersionIndex(u) THEN Blank ELSE u[j]
         /\ included =>
              /\ Offset(u) > 0 /\ t[Offset(u)] = GetLineDirective(IsForNextLine(u), Main)
              /\ \A i \in 1 .. Offset(u) - 1 :
                   t[i] = PoundExtension \/ (VersionIndex(u) # 0 /\ i = 1 /\ t[i] = u[VersionIndex(u)])
              /\ VersionIndex(u) # 0 => t[1] = u[VersionIndex(u)]
         /\ ~included => t = u
<1> DEFINE p == Top(u)
           b == Body(u)
           n == Offset(u)
<1>1. Lines \subseteq AnyLines
  BY DEF AnyLines
<1>2. u \in Seq(AnyLines) /\ Len(u) \in Nat
  BY <1>1
<1>3. CASE ~included
  <2>1. t = u /\ Offset(u) = 0
    BY <1>3, CleanedIs DEF Offset
  <2> QED BY <1>2, <1>3, <2>1
<1>4. CASE included
  <2>1. t = p \o b
    BY <1>4, CleanedIs
  <2>2. /\ p \in Seq(AnyLines) /\ Len(p) = n /\ n \in {2, 3}
        /\ p[n] = GetLineDirective(IsForNextLine(u), Main) /\ p[n - 1] = PoundExtension
        /\ VersionIndex(u) # 0 => p[1] = u[VersionIndex(u)] /\ n = 3
        /\ VersionIndex(u) = 0 => n = 2
    BY <1>4, TopLines DEF Offset
  <2>3. /\ b \in Seq(AnyLines) /\ Len(b) = Len(u)
        /\ \A j \in 1 .. Len(u) : b[j] = IF j = VersionIndex(u) THEN Blank ELSE u[j]
    BY <1>1, BodyLines
  <2> HIDE DEF p, b, n
  <2>4. /\ t \in Seq(AnyLines) /\ Len(t) = n + Len(u)
        /\ \A i \in 1 .. n + Len(u) : t[i] = IF i <= n THEN p[i] ELSE b[i - n]
    BY <2>1, <2>2, <2>3, ConcatProperties
  <2>5. \A j \in 1 .. Len(u) : t[n + j] = b[j]
    BY <1>2, <2>2, <2>4
  <2>6. \A i \in 1 .. n : t[i] = p[i]
    BY <1>2, <2>2, <2>4
  <2>7. n > 0 /\ t[n] = p[n] /\ t[1] = p[1] /\ t[n - 1] = p[n - 1]
    BY <2>2, <2>6
  <2>8. \A i \in 1 .. n - 1 :
          t[i] = PoundExtension \/ (VersionIndex(u) # 0 /\ i = 1 /\ t[i] = u[VersionIndex(u)])
    <3> SUFFICES ASSUME NEW i \in 1 .. n - 1
                 PROVE  t[i] = PoundExtension
                          \/ (VersionIndex(u) # 0 /\ i = 1 /\ t[i] = u[VersionIndex(u)])
      OBVIOUS
    <3>1. CASE i = n - 1
      <4>1. t[n - 1] = PoundExtension
        BY <2>2, <2>7, Zenon
      <4> QED BY <3>1, <4>1, Zenon
    <3>2. CASE i # n - 1
      <4>1. n = 3 /\ i = 1
        BY <2>2, <3>2
      <4> QED BY <2>2, <2>7, <4>1
    <3> QED BY <3>1, <3>2
  <2> QED BY <1>4, <2>2, <2>3, <2>4, <2>5, <2>7, <2>8 DEF n
<1> QED BY <1>3, <1>4

-----------------------------------------------------------------------------
(* The inductive invariant.                                                *)

(* The code and glslang read the version of a GLSL text alike.             *)
Agrees ==
  language = "glsl" =>
    /\ IsForNextLine(user) = LineDirectiveShouldSetNextLine(user)
    /\ forced # NoVersion \/ VersionIndex(user) # 0

(* x is the first line of this kind among the first n of t, 0 for none.    *)
FirstOf(t, n, x, kind) ==
  \/ x = 0 /\ \A i \in 1 .. n : t[i].kind # kind
  \/ /\ x \in 1 .. n /\ t[x].kind = kind
     /\ \A i \in 1 .. x - 1 : t[i].kind # kind

PragmasUpTo(t, n) == {i \in 1 .. n : t[i].kind = "pragma"}
NamedBy(stages) == {stages[k][3] : k \in DOMAIN stages}

(* The pragmas of the user's that have been scanned, and what is reported  *)
(* of each.                                                                *)
Order(u) == [i \in 1 .. Len(u) |-> i]
Found(u) == Selection(Order(u), PragmasUpTo(u, Len(u)))
Seen == IF scan.i <= Offset(user) THEN 0 ELSE scan.i - Offset(user)
Report(i) ==
  <<FileAt(text, Offset(user) + i), LineAt(text, Offset(user) + i, IsForNextLine(text)),
    user[i].arg>>
Reports(s) == [k \in DOMAIN s |-> Report(s[k])]

(* The local variables of the scan say where it is, and what it has met.   *)
ScanInv ==
  /\ scan.filename = FileAt(text, scan.i + 1)
  /\ scan.logical_line_no = LineAt(text, scan.i + 1, IsForNextLine(text))
  /\ FirstOf(text, scan.i, scan.first_pragma, "pragma")
  /\ FirstOf(text, scan.i, scan.first_non_pp, "code")
  /\ NamedBy(scan.stages) = {text[i].arg : i \in PragmasUpTo(text, scan.i)}
  /\ scan.stages = Reports(Found(user)[Seen])

StartOfScan ==
  [i |-> 0, logical_line_no |-> 1, filename |-> Main, stages |-> <<>>,
   first_pragma |-> 0, first_non_pp |-> 0]

Judged ==
  /\ errors = StageErrors
  /\ stage = IF scan.stages = <<>> \/ StageErrors # <<>> THEN BadStage ELSE scan.stages[1][3]

IInv ==
  /\ TypeOK
  /\ pc \in {"preprocess", "cleanup"} => scan = StartOfScan
  /\ pc # "preprocess" => Agrees
  /\ pc = "cleanup" => text = Preamble \o user
  /\ pc \in {"scan", "judge", "done"} => text = Cleaned(Preamble \o user) /\ ScanInv
  /\ pc \in {"judge", "done"} => scan.i = Len(text)
  /\ pc = "done" => Judged

-----------------------------------------------------------------------------
(* Facts for the steps.                                                    *)

(* A text that glslang accepts has a version that the code knows too.      *)
LEMMA AcceptedAgrees ==
  ASSUME TypeOK, Accepted
  PROVE  Agrees
<1> SUFFICES ASSUME language = "glsl" PROVE Agrees
  BY DEF Agrees
<1>1. \A v \in Versions : v \in KnownVersions \X Profiles /\ v # NoVersion /\ ParseVersionProfile(v) = v
  <2> SUFFICES ASSUME NEW v \in Versions
               PROVE  v \in KnownVersions \X Profiles /\ v # NoVersion /\ ParseVersionProfile(v) = v
    OBVIOUS
  <2>1. v \in GlslangVersions
    BY VersionAssumption
  <2>2. v[1] \in KnownVersions /\ v[2] \in Profiles /\ v \in KnownVersions \X Profiles
    BY <2>1 DEF GlslangVersions, KnownVersions, Profiles
  <2>3. v # NoVersion
    BY <2>2 DEF NoVersion, KnownVersions
  <2> QED BY <2>2, <2>3 DEF ParseVersionProfile
<1>2. CASE forced # NoVersion
  <2>1. DeduceVersionProfile(user) = forced /\ VersionInGlslang(user) = forced
    BY <1>2 DEF DeduceVersionProfile, VersionInGlslang
  <2> QED BY <1>2, <2>1 DEF Agrees, IsForNextLine, LineDirectiveIsForNextLine, LineDirectiveShouldSetNextLine
<1>3. CASE forced = NoVersion
  <2> DEFINE v == user[VersionIndex(user)].arg
  <2>1. VersionIndex(user) # 0 /\ v \in Versions
    BY <1>3 DEF Accepted
  <2>2. GetVersionProfileFromSourceCode(user) = v /\ v # NoVersion
    BY <1>1, <2>1 DEF GetVersionProfileFromSourceCode
  <2>3. DeduceVersionProfile(user) = v /\ VersionInGlslang(user) = v
    BY <1>3, <2>2 DEF DeduceVersionProfile, VersionInGlslang
  <2> HIDE DEF v
  <2> QED BY <2>1, <2>3 DEF Agrees, IsForNextLine, LineDirectiveIsForNextLine, LineDirectiveShouldSetNextLine
<1> QED BY <1>2, <1>3

(* The first of a kind, one line later.                                    *)
LEMMA FirstOfStep ==
  ASSUME NEW t, NEW n \in Nat, NEW x, NEW kind, FirstOf(t, n, x, kind)
  PROVE  FirstOf(t, n + 1, IF t[n + 1].kind = kind /\ x = 0 THEN n + 1 ELSE x, kind)
<1>1. CASE x = 0 /\ t[n + 1].kind = kind
  BY <1>1 DEF FirstOf
<1>2. CASE x = 0 /\ t[n + 1].kind # kind
  BY <1>2 DEF FirstOf
<1>3. CASE x # 0
  BY <1>3 DEF FirstOf
<1> QED BY <1>1, <1>2, <1>3

LEMMA NamedByAppend ==
  ASSUME NEW S, NEW stages \in Seq(S), NEW s \in S
  PROVE  NamedBy(Append(stages, s)) = NamedBy(stages) \cup {s[3]}
<1>1. DOMAIN Append(stages, s) = DOMAIN stages \cup {Len(stages) + 1}
  OBVIOUS
<1>2. /\ Append(stages, s)[Len(stages) + 1] = s
      /\ \A k \in DOMAIN stages : Append(stages, s)[k] = stages[k]
  OBVIOUS
<1> QED BY <1>1, <1>2 DEF NamedBy

LEMMA ReportsAppend ==
  ASSUME NEW q \in Seq(Nat), NEW j \in Nat
  PROVE  Reports(Append(q, j)) = Append(Reports(q), Report(j))
<1> DEFINE S == {Report(i) : i \in Nat}
           a == Append(q, j)
<1>1. /\ a \in Seq(Nat) /\ Len(a) = Len(q) + 1 /\ a[Len(q) + 1] = j
      /\ \A k \in 1 .. Len(q) : a[k] = q[k]
  OBVIOUS
<1> HIDE DEF a
<1>2. Reports(q) \in Seq(S) /\ Len(Reports(q)) = Len(q) /\ \A k \in 1 .. Len(q) : Reports(q)[k] = Report(q[k])
  BY DEF Reports
<1>3. Reports(a) \in Seq(S) /\ Len(Reports(a)) = Len(a) /\ \A k \in 1 .. Len(a) : Reports(a)[k] = Report(a[k])
  <2>1. \A k \in 1 .. Len(a) : a[k] \in Nat
    BY <1>1
  <2> QED BY <1>1, <2>1 DEF Reports
<1> DEFINE b == Append(Reports(q), Report(j))
<1>4. /\ b \in Seq(S) /\ Len(b) = Len(q) + 1 /\ b[Len(q) + 1] = Report(j)
      /\ \A k \in 1 .. Len(q) : b[k] = Report(q[k])
  BY <1>2
<1> HIDE DEF b
<1>5. \A k \in 1 .. Len(a) : Reports(a)[k] = b[k]
  <2> SUFFICES ASSUME NEW k \in 1 .. Len(a) PROVE Report(a[k]) = b[k]
    BY <1>3
  <2>1. CASE k \in 1 .. Len(q)
    BY <1>1, <1>4, <2>1
  <2>2. CASE k = Len(q) + 1
    <3>1. a[k] = j /\ b[k] = Report(j)
      BY <1>1, <1>4, <2>2, Zenon
    <3> QED BY <3>1, Zenon
  <2> QED BY <1>1, <2>1, <2>2
<1>6. Reports(a) = b
  BY <1>1, <1>3, <1>4, <1>5, SeqEqual
<1> QED BY <1>6 DEF a, b

LEMMA FoundUnfolds ==
  ASSUME NEW u \in Seq(Lines)
  PROVE  /\ Found(u)[0] = <<>>
         /\ \A n \in 0 .. Len(u) : Found(u)[n] \in Seq(Nat)
         /\ \A n \in 1 .. Len(u) :
              Found(u)[n] = IF u[n].kind = "pragma" THEN Append(Found(u)[n - 1], n)
                                                    ELSE Found(u)[n - 1]
<1> DEFINE s == Order(u)
           K == PragmasUpTo(u, Len(u))
<1>1. s \in Seq(Nat) /\ Len(s) = Len(u) /\ Len(u) \in Nat /\ \A n \in 1 .. Len(u) : s[n] = n
  BY DEF Order
<1>2. \A n \in 1 .. Len(u) : n \in K <=> u[n].kind = "pragma"
  BY DEF PragmasUpTo
<1> HIDE DEF s, K
<1>3. Selection(s, K)[0] = <<>>
  BY <1>1, SelectionUnfolds
<1>4. \A n \in 1 .. Len(u) : Selection(s, K)[n] = IF s[n] \in K THEN Append(Selection(s, K)[n - 1], s[n])
                                                    ELSE Selection(s, K)[n - 1]
  BY <1>1, SelectionUnfolds
<1>5. \A n \in 0 .. Len(u) : Selection(s, K)[n] \in Seq(Nat \cap K)
  BY <1>1, SelectionIsSound
<1>6. Seq(Nat \cap K) \subseteq Seq(Nat)
  OBVIOUS
<1>7. \A n \in 1 .. Len(u) : Selection(s, K)[n] = IF u[n].kind = "pragma" THEN Append(Selection(s, K)[n - 1], n)
                                                    ELSE Selection(s, K)[n - 1]
  BY <1>1, <1>2, <1>4
<1> QED BY <1>3, <1>5, <1>6, <1>7 DEF Found, s, K

-----------------------------------------------------------------------------
(* The steps, one by one.                                                  *)

LEMMA InitIInv == Init => IInv
<1> SUFFICES ASSUME Init PROVE IInv
  OBVIOUS
<1>1. scan = StartOfScan /\ pc = "preprocess"
  BY DEF Init, StartOfScan
<1>2. TypeOK
  <2>1. user \in Seq(Lines) /\ text \in Seq(AnyLines) /\ Len(text) = 0
    BY DEF Init
  <2>2. errors \in Seq({"late", "invalid", "conflict"} \X Files \X Nat)
    BY DEF Init
  <2>3. scan.stages \in Seq(Files \X Nat \X (Stages \cup {BadStage}))
    BY <1>1 DEF StartOfScan
  <2>4. /\ scan.i \in 0 .. Len(text) /\ scan.logical_line_no \in Nat /\ scan.filename \in Files
        /\ scan.first_pragma \in 0 .. scan.i /\ scan.first_non_pp \in 0 .. scan.i
    BY <1>1, <2>1 DEF StartOfScan, Files
  <2> QED BY <2>1, <2>2, <2>3, <2>4 DEF Init, TypeOK
<1> QED BY <1>1, <1>2 DEF IInv

LEMMA PrintLineStep ==
  ASSUME IInv, NEW l \in Lines, PrintLine(l)
  PROVE  IInv'
<1>1. user' \in Seq(Lines)
  BY DEF IInv, TypeOK, PrintLine
<1>2. TypeOK'
  BY <1>1 DEF IInv, TypeOK, PrintLine, request
<1>3. pc' = "preprocess" /\ pc = "preprocess" /\ scan' = scan
  BY DEF PrintLine
<1> QED BY <1>2, <1>3 DEF IInv, StartOfScan

LEMMA PreprocessedStep ==
  ASSUME IInv, Preprocessed
  PROVE  IInv'
<1>1. /\ TypeOK /\ scan = StartOfScan /\ macros \in Nat /\ user \in Seq(Lines)
      /\ pc' = "cleanup" /\ UNCHANGED <<request, user, scan, errors, stage>>
  BY BoundAssumption DEF IInv, TypeOK, Preprocessed
<1>2. text' = Preamble \o user
  BY DEF Preprocessed, Preamble
<1>3. text' \in Seq(Lines) /\ Len(text') \in Nat
  BY <1>1, <1>2, HandedOver
<1>4. text' \in Seq(AnyLines)
  BY <1>3 DEF AnyLines
<1>5. scan.i \in 0 .. Len(text')
  BY <1>1, <1>3 DEF StartOfScan
<1>6. TypeOK'
  BY <1>1, <1>4, <1>5 DEF TypeOK, request
<1>7. Agrees
  BY AcceptedAgrees DEF IInv, Preprocessed
<1>8. Agrees'
  <2>1. IsForNextLine(user)' = IsForNextLine(user)
    BY <1>1, Zenon DEF request, IsForNextLine, DeduceVersionProfile
  <2>2. LineDirectiveShouldSetNextLine(user)' = LineDirectiveShouldSetNextLine(user)
    BY <1>1, Zenon DEF request, LineDirectiveShouldSetNextLine, VersionInGlslang
  <2> QED BY <1>1, <1>7, <2>1, <2>2, Zenon DEF Agrees, request
<1>9. Preamble' = Preamble
  BY <1>1, Zenon DEF Preamble, request
<1> QED BY <1>1, <1>2, <1>6, <1>8, <1>9, Zenon DEF IInv, StartOfScan

(* What a step that leaves the request and the user's lines alone keeps.   *)
LEMMA SameRequest ==
  ASSUME UNCHANGED <<request, user>>
  PROVE  /\ Agrees' <=> Agrees
         /\ Preamble' = Preamble /\ Offset(user)' = Offset(user)
         /\ Cleaned(Preamble \o user)' = Cleaned(Preamble \o user)
         /\ \A t : IsForNextLine(t)' = IsForNextLine(t)
<1>1. UNCHANGED <<language, forced, macros, included, user>>
  BY DEF request
<1>2. \A t : IsForNextLine(t)' = IsForNextLine(t)
  BY <1>1, Zenon DEF IsForNextLine, DeduceVersionProfile
<1>3. LineDirectiveShouldSetNextLine(user)' = LineDirectiveShouldSetNextLine(user)
  BY <1>1, Zenon DEF LineDirectiveShouldSetNextLine, VersionInGlslang
<1>4. IsForNextLine(user)' = IsForNextLine(user)
  BY <1>1, Zenon DEF IsForNextLine, DeduceVersionProfile
<1>5. Agrees' <=> Agrees
  BY <1>1, <1>3, <1>4 DEF Agrees
<1>6. Preamble' = Preamble
  BY <1>1, Zenon DEF Preamble
<1>7. Offset(user)' = Offset(user)
  BY <1>1, Zenon DEF Offset
<1>8. Cleaned(Preamble \o user)' = Cleaned(Preamble \o user)
  BY <1>1, <1>6, Zenon DEF Cleaned, IsForNextLine, DeduceVersionProfile
<1> QED BY <1>2, <1>5, <1>6, <1>7, <1>8

LEMMA CleanupPreambleStep ==
  ASSUME IInv, CleanupPreamble
  PROVE  IInv'
<1>1. /\ TypeOK /\ scan = StartOfScan /\ text = Preamble \o user /\ Agrees
      /\ pc' = "scan" /\ UNCHANGED <<request, user, scan, errors, stage>>
      /\ macros \in Nat /\ included \in BOOLEAN /\ user \in Seq(Lines)
  BY BoundAssumption DEF IInv, TypeOK, CleanupPreamble
<1>2. text' = Cleaned(Preamble \o user)
  BY <1>1, Zenon DEF CleanupPreamble
<1>3. text' \in Seq(AnyLines) /\ Offset(user) \in Nat /\ Len(text') \in Nat
  BY <1>1, <1>2, Layout
<1>4. scan.i = 0 /\ scan'.i = 0
  BY <1>1 DEF StartOfScan
<1>5. TypeOK'
  BY <1>1, <1>3, <1>4 DEF TypeOK, request
<1>6. /\ Agrees' /\ Offset(user)' = Offset(user)
      /\ Cleaned(Preamble \o user)' = Cleaned(Preamble \o user)
  BY <1>1, SameRequest
<1>7. ScanInv'
  <2>1. scan' = StartOfScan /\ scan'.i + 1 = 1
    BY <1>1, <1>4
  <2>2. FileAt(text', 1) = Main /\ LineAt(text', 1, IsForNextLine(text)') = 1
    BY FirstPosition
  <2>3. /\ scan'.filename = FileAt(text', scan'.i + 1)
        /\ scan'.logical_line_no = LineAt(text', scan'.i + 1, IsForNextLine(text)')
    BY <2>1, <2>2 DEF StartOfScan
  <2>4. /\ FirstOf(text', scan'.i, scan'.first_pragma, "pragma")
        /\ FirstOf(text', scan'.i, scan'.first_non_pp, "code")
    BY <2>1 DEF StartOfScan, FirstOf
  <2>5. scan'.stages = <<>>
    BY <2>1 DEF StartOfScan
  <2>6. NamedBy(scan'.stages) = {text'[i].arg : i \in PragmasUpTo(text', scan'.i)}
    BY <1>4, <2>5 DEF NamedBy, PragmasUpTo
  <2>7. Seen' = 0
    BY <1>3, <1>4, <1>6 DEF Seen
  <2>8. Found(user') = Found(user) /\ Found(user)[0] = <<>>
    BY <1>1, FoundUnfolds
  <2>9. (Found(user)[Seen])' = <<>>
    BY <2>7, <2>8, Zenon
  <2>10. Reports(Found(user)[Seen])' = <<>>
    BY <2>9 DEF Reports
  <2> QED BY <2>3, <2>4, <2>5, <2>6, <2>10, Zenon DEF ScanInv
<1> QED BY <1>1, <1>2, <1>5, <1>6, <1>7, Zenon DEF IInv

LEMMA ForNextLine == \A t : IsForNextLine(t) \in BOOLEAN
BY Zenon DEF IsForNextLine, LineDirectiveIsForNextLine

(* No line above the user's is a pragma, or code, and each of the user's   *)
(* is one where it was.                                                    *)
LEMMA SamePragmas ==
  ASSUME macros \in Nat, included \in BOOLEAN, NEW u \in Seq(Lines),
         NEW t, t = Cleaned(Preamble \o u)
  PROVE  /\ \A i \in 1 .. Offset(u) : t[i].kind \notin {"pragma", "code"}
         /\ \A j \in 1 .. Len(u) :
              /\ t[Offset(u) + j].kind = "pragma" <=> u[j].kind = "pragma"
              /\ t[Offset(u) + j].kind = "code" <=> u[j].kind = "code"
              /\ u[j].kind # "version" => t[Offset(u) + j] = u[j]
<1> DEFINE v == VersionIndex(u)
           n == Offset(u)
<1>1. /\ n \in Nat
      /\ \A j \in 1 .. Len(u) : t[n + j] = IF included /\ j = v THEN Blank ELSE u[j]
      /\ included =>
           /\ n > 0 /\ t[n] = GetLineDirective(IsForNextLine(u), Main)
           /\ \A i \in 1 .. n - 1 : t[i] = PoundExtension \/ (v # 0 /\ i = 1 /\ t[i] = u[v])
  BY Layout
<1>2. v # 0 => u[v].kind = "version"
  BY VersionIndexIs
<1>3. ~included => n = 0
  BY DEF Offset
<1>4. v \in Nat /\ \A j \in 1 .. Len(u) : j # 0
  BY VersionIndexIs
<1> HIDE DEF v, n
<1>5. ASSUME NEW i \in 1 .. n PROVE t[i].kind \notin {"pragma", "code"}
  <2>1. included /\ n > 0
    BY <1>1, <1>3
  <2>2. CASE i = n
    BY <1>1, <2>1, <2>2 DEF GetLineDirective, Line
  <2>3. CASE i # n
    <3>1. i \in 1 .. n - 1
      BY <1>1, <2>3
    <3> QED BY <1>1, <1>2, <2>1, <3>1 DEF PoundExtension, Line
  <2> QED BY <2>2, <2>3
<1>6. ASSUME NEW j \in 1 .. Len(u)
      PROVE  /\ t[n + j].kind = "pragma" <=> u[j].kind = "pragma"
             /\ t[n + j].kind = "code" <=> u[j].kind = "code"
             /\ u[j].kind # "version" => t[n + j] = u[j]
  <2>1. Blank.kind = "blank"
    BY DEF Blank, Line
  <2>2. CASE included /\ j = v
    <3>1. t[n + j] = Blank /\ u[j].kind = "version"
      BY <1>1, <1>2, <1>4, <2>2
    <3> QED BY <2>1, <3>1
  <2>3. CASE ~(included /\ j = v)
    BY <1>1, <2>3
  <2> QED BY <2>2, <2>3
<1> QED BY <1>5, <1>6 DEF n

(* What one more line of the text adds to the reports.                     *)
LEMMA ReportsStep ==
  ASSUME TypeOK, ScanInv, text = Cleaned(Preamble \o user),
         NEW i, i = scan.i + 1, i <= Len(text)
  PROVE  LET q == Found(user)[IF i <= Offset(user) THEN 0 ELSE i - Offset(user)]
         IN  Reports(q) = IF text[i].kind = "pragma"
                          THEN Append(scan.stages,
                                      <<scan.filename, scan.logical_line_no, text[i].arg>>)
                          ELSE scan.stages
<1> DEFINE n == Offset(user)
           f == Found(user)
           q == f[IF i <= n THEN 0 ELSE i - n]
           entry == <<scan.filename, scan.logical_line_no, text[i].arg>>
<1>1. /\ macros \in Nat /\ included \in BOOLEAN /\ user \in Seq(Lines)
      /\ i \in 1 .. Len(text) /\ scan.i \in Nat
  BY BoundAssumption DEF TypeOK
<1>2. n \in Nat /\ Len(text) = n + Len(user) /\ Len(user) \in Nat
  BY <1>1, Layout
<1>3. scan.stages = Reports(f[Seen])
  BY DEF ScanInv
<1>4. CASE i <= n
  <2>1. text[i].kind # "pragma"
    BY <1>1, <1>4, SamePragmas
  <2>2. Seen = 0
    BY <1>1, <1>2, <1>4 DEF Seen
  <2> QED BY <1>3, <1>4, <2>1, <2>2, Zenon
<1>5. CASE ~(i <= n)
  <2> DEFINE j == i - n
  <2>1. j \in 1 .. Len(user) /\ i = n + j /\ Seen = j - 1 /\ j \in Nat /\ j - 1 \in 0 .. Len(user)
    BY <1>1, <1>2, <1>5 DEF Seen
  <2> HIDE DEF j
  <2>2. /\ text[i].kind = "pragma" <=> user[j].kind = "pragma"
        /\ user[j].kind # "version" => text[i] = user[j]
    BY <1>1, <2>1, SamePragmas
  <2>3. /\ f[j - 1] \in Seq(Nat)
        /\ f[j] = IF user[j].kind = "pragma" THEN Append(f[j - 1], j) ELSE f[j - 1]
    BY <1>1, <2>1, FoundUnfolds
  <2>4. q = f[j]
    BY <1>5 DEF j
  <2> HIDE DEF f, q
  <2>5. CASE text[i].kind = "pragma"
    <3>1. text[i] = user[j]
      BY <2>2, <2>5
    <3>2. entry = Report(j)
      BY <2>1, <3>1, Zenon DEF Report, ScanInv, n
    <3>3. Reports(f[j]) = Append(Reports(f[j - 1]), Report(j))
      BY <2>1, <2>2, <2>3, <2>5, ReportsAppend
    <3> QED BY <1>3, <2>1, <2>4, <2>5, <3>2, <3>3, Zenon DEF f, q, n
  <2>6. CASE text[i].kind # "pragma"
    <3>1. f[j] = f[j - 1]
      BY <2>2, <2>3, <2>6
    <3> QED BY <1>3, <2>1, <2>4, <2>6, <3>1, Zenon DEF f, q, n
  <2> QED BY <2>5, <2>6
<1> QED BY <1>4, <1>5

LEMMA ScanLineStep ==
  ASSUME IInv, NEW i, ScanLine(i)
  PROVE  IInv'
<1> DEFINE l == text[i]
           next == IsForNextLine(text)
           entry == <<scan.filename, scan.logical_line_no, l.arg>>
<1>1. /\ TypeOK /\ Agrees /\ ScanInv /\ text = Cleaned(Preamble \o user)
      /\ pc = "scan" /\ pc' = "scan" /\ UNCHANGED <<request, user, text, errors, stage>>
      /\ i = scan.i + 1 /\ i <= Len(text)
  BY DEF IInv, ScanLine
<1>2. /\ macros \in Nat /\ included \in BOOLEAN /\ user \in Seq(Lines) /\ text \in Seq(AnyLines)
      /\ scan.i \in Nat /\ i \in 1 .. Len(text) /\ i \in Nat
  BY <1>1, BoundAssumption DEF TypeOK
<1>3. l \in AnyLines
  BY <1>2
<1>4. /\ scan'.i = i /\ scan'.logical_line_no = NextLogicalLine(l)
      /\ scan'.filename = IF l.kind = "line" /\ l.name # NoName THEN l.name ELSE scan.filename
      /\ scan'.stages = IF l.kind = "pragma" THEN Append(scan.stages, entry) ELSE scan.stages
      /\ scan'.first_pragma = IF l.kind = "pragma" /\ scan.first_pragma = 0
                              THEN i ELSE scan.first_pragma
      /\ scan'.first_non_pp = IF l.kind = "code" /\ scan.first_non_pp = 0
                              THEN i ELSE scan.first_non_pp
  BY DEF ScanLine
<1>5. /\ Agrees' /\ Offset(user)' = Offset(user)
      /\ Cleaned(Preamble \o user)' = Cleaned(Preamble \o user)
  BY <1>1, SameRequest
<1>6. IsForNextLine(text)' = next /\ next \in BOOLEAN
  <2>1. UNCHANGED <<forced, text>>
    BY <1>1 DEF request
  <2>2. IsForNextLine(text)' = IsForNextLine(text)
    BY <2>1, Zenon DEF IsForNextLine, DeduceVersionProfile
  <2> QED BY <2>2, ForNextLine
<1> HIDE DEF l, next, entry
<1>7. scan'.filename = FileAt(text, i + 1)
  <2>1. FileAt(text, i + 1) = IF l.kind = "line" /\ l.name # NoName THEN l.name ELSE FileAt(text, i)
    BY <1>2, FileStep DEF l
  <2>2. scan.filename = FileAt(text, i)
    BY <1>1 DEF ScanInv
  <2> QED BY <1>4, <2>1, <2>2
<1>8. scan'.logical_line_no = LineAt(text, i + 1, next)
  <2>1. LineAt(text, i + 1, next) = IF l.kind = "line" THEN l.arg + (IF next THEN 0 ELSE 1)
                                    ELSE LineAt(text, i, next) + 1
    BY <1>2, <1>6, LineStep DEF l
  <2>2. scan.logical_line_no = LineAt(text, i, next)
    BY <1>1, Zenon DEF ScanInv, next
  <2>3. NextLogicalLine(l) = IF l.kind = "line" THEN l.arg + (IF next THEN 0 ELSE 1)
                             ELSE scan.logical_line_no + 1
    BY Zenon DEF NextLogicalLine, next
  <2> QED BY <1>4, <2>1, <2>2, <2>3, Zenon
<1>9. /\ FirstOf(text, i, scan'.first_pragma, "pragma")
      /\ FirstOf(text, i, scan'.first_non_pp, "code")
  <2>1. /\ FirstOf(text, scan.i, scan.first_pragma, "pragma")
        /\ FirstOf(text, scan.i, scan.first_non_pp, "code")
    BY <1>1 DEF ScanInv
  <2>2. /\ FirstOf(text, scan.i + 1, IF text[scan.i + 1].kind = "pragma" /\ scan.first_pragma = 0
                                     THEN scan.i + 1 ELSE scan.first_pragma, "pragma")
        /\ FirstOf(text, scan.i + 1, IF text[scan.i + 1].kind = "code" /\ scan.first_non_pp = 0
                                     THEN scan.i + 1 ELSE scan.first_non_pp, "code")
    BY <1>2, <2>1, FirstOfStep, Zenon
  <2> QED BY <1>1, <1>4, <2>2, Zenon DEF l
<1>10. /\ scan.stages \in Seq(Files \X Nat \X (Stages \cup {BadStage}))
       /\ l.kind = "pragma" => /\ entry \in Files \X Nat \X (Stages \cup {BadStage})
                               /\ entry[3] = l.arg
  BY <1>1, <1>3, LineTypes DEF TypeOK, entry
<1>11. NamedBy(scan'.stages) = {text[j].arg : j \in PragmasUpTo(text, i)}
  <2>1. NamedBy(scan.stages) = {text[j].arg : j \in PragmasUpTo(text, scan.i)}
    BY <1>1 DEF ScanInv
  <2>2. PragmasUpTo(text, i) = PragmasUpTo(text, scan.i) \cup (IF l.kind = "pragma" THEN {i} ELSE {})
    BY <1>1, <1>2 DEF PragmasUpTo, l
  <2>3. CASE l.kind = "pragma"
    <3>1. NamedBy(scan'.stages) = NamedBy(scan.stages) \cup {l.arg}
      BY <1>4, <1>10, <2>3, NamedByAppend
    <3> QED BY <2>1, <2>2, <2>3, <3>1 DEF l
  <2>4. CASE l.kind # "pragma"
    BY <1>4, <2>1, <2>2, <2>4
  <2> QED BY <2>3, <2>4
<1>12. scan'.stages = Reports(Found(user)[Seen])'
  <2>1. scan'.stages = Reports(Found(user)[IF i <= Offset(user) THEN 0 ELSE i - Offset(user)])
    BY <1>1, <1>4, ReportsStep, Zenon DEF l, entry
  <2>2. Seen' = IF i <= Offset(user) THEN 0 ELSE i - Offset(user)
    BY <1>4, <1>5, Zenon DEF Seen
  <2>3. Reports(Found(user)[Seen])' = Reports(Found(user)[IF i <= Offset(user) THEN 0 ELSE i - Offset(user)])
    BY <1>1, <1>5, <1>6, <2>2, Zenon DEF Reports, Report, next
  <2> QED BY <2>1, <2>3
<1>13. ScanInv'
  BY <1>1, <1>4, <1>6, <1>7, <1>8, <1>9, <1>11, <1>12, Zenon DEF ScanInv
<1>14. TypeOK'
  <2>1. scan'.i \in 0 .. Len(text) /\ scan'.first_pragma \in 0 .. i /\ scan'.first_non_pp \in 0 .. i
    <3>1. scan.first_pragma \in 0 .. scan.i /\ scan.first_non_pp \in 0 .. scan.i
      BY <1>1 DEF TypeOK
    <3> QED BY <1>1, <1>2, <1>4, <3>1
  <2>2. scan'.filename \in Files
    BY <1>1, <1>3, <1>4, LineTypes DEF TypeOK, Files
  <2>3. scan'.logical_line_no \in Nat
    <3>1. l.kind = "line" => l.arg \in Nat
      BY <1>3, LineTypes
    <3>2. scan.logical_line_no \in Nat
      BY <1>1 DEF TypeOK
    <3> QED BY <1>4, <3>1, <3>2 DEF NextLogicalLine
  <2>4. scan'.stages \in Seq(Files \X Nat \X (Stages \cup {BadStage}))
    BY <1>4, <1>10
  <2> QED BY <1>1, <1>4, <2>1, <2>2, <2>3, <2>4 DEF TypeOK, request
<1> QED BY <1>1, <1>5, <1>13, <1>14, Zenon DEF IInv

(* What a step that leaves the scan alone too keeps.                       *)
LEMMA SameScan ==
  ASSUME UNCHANGED <<request, user, text, scan>>, ScanInv
  PROVE  ScanInv'
<1>1. UNCHANGED <<language, forced, macros, included, user, text, scan>>
  BY DEF request
<1>2. IsForNextLine(text)' = IsForNextLine(text)
  BY <1>1, Zenon DEF IsForNextLine, DeduceVersionProfile
<1>3. Offset(user)' = Offset(user)
  BY <1>1, SameRequest
<1>4. Seen' = Seen
  BY <1>1, <1>3, Zenon DEF Seen
<1>5. Reports(Found(user)[Seen])' = Reports(Found(user)[Seen])
  BY <1>1, <1>2, <1>3, <1>4, Zenon DEF Reports, Report
<1> QED BY <1>1, <1>2, <1>5, Zenon DEF ScanInv

LEMMA EndOfTextStep ==
  ASSUME IInv, EndOfText
  PROVE  IInv'
<1>1. /\ TypeOK /\ Agrees /\ ScanInv /\ text = Cleaned(Preamble \o user) /\ scan.i = Len(text)
      /\ pc' = "judge" /\ UNCHANGED <<request, user, text, scan, errors, stage>>
  BY DEF IInv, EndOfText
<1>2. TypeOK'
  BY <1>1 DEF TypeOK, request
<1>3. Agrees' /\ Cleaned(Preamble \o user)' = Cleaned(Preamble \o user)
  BY <1>1, SameRequest
<1>4. ScanInv'
  BY <1>1, SameScan
<1> QED BY <1>1, <1>2, <1>3, <1>4, Zenon DEF IInv

(* The errors, and when there are none.                                    *)
Conflicting(stages) == {p \in ToSet(stages) : p[3] # stages[1][3]}
Late == scan.first_non_pp # 0 /\ scan.first_pragma > scan.first_non_pp

LEMMA ErrorsAre ==
  ASSUME TypeOK
  PROVE  /\ StageErrors \in Seq({"late", "invalid", "conflict"} \X Files \X Nat)
         /\ scan.stages = <<>> => StageErrors = <<>>
         /\ scan.stages # <<>> =>
              (StageErrors = <<>> <=>
                 /\ ~Late /\ scan.stages[1][3] \in Stages
                 /\ \A k \in DOMAIN scan.stages : scan.stages[k][3] = scan.stages[1][3])
<1> DEFINE P == Files \X Nat \X (Stages \cup {BadStage})
           E == {"late", "invalid", "conflict"} \X Files \X Nat
           s == scan.stages
           first == s[1]
           At(what, p) == <<what, p[1], p[2]>>
           a == IF Late THEN <<At("late", first)>> ELSE <<>>
           b == IF first[3] \notin Stages THEN <<At("invalid", first)>> ELSE <<>>
           q == Select(s, Conflicting(s))
           c == [i \in DOMAIN q |-> At("conflict", q[i])]
<1>1. StageErrors = IF s = <<>> THEN <<>> ELSE a \o b \o c
  BY Zenon DEF StageErrors, Late, Conflicting
<1>2. s \in Seq(P) /\ Len(s) \in Nat
  BY DEF TypeOK
<1>3. \A p \in P, what \in {"late", "invalid", "conflict"} : At(what, p) \in E
  OBVIOUS
<1>4. <<>> \in Seq(E)
  OBVIOUS
<1> HIDE DEF At, P, E, s
<1>5. CASE s = <<>>
  BY <1>1, <1>4, <1>5 DEF E, s
<1>6. CASE s # <<>>
  <2>1. first \in P
    BY <1>2, <1>6
  <2>2. a \in Seq(E) /\ (a = <<>> <=> ~Late)
    BY <1>3, <2>1
  <2>3. b \in Seq(E) /\ (b = <<>> <=> first[3] \in Stages)
    BY <1>3, <2>1
  <2>4. /\ q \in Seq(P)
        /\ q = <<>> <=> \A k \in 1 .. Len(s) : s[k] \notin Conflicting(s)
    <3>1. /\ q \in Seq(P \cap Conflicting(s))
          /\ q = <<>> <=> \A k \in 1 .. Len(s) : s[k] \notin Conflicting(s)
      <4>1. \A n \in 0 .. Len(s) :
              /\ Selection(s, Conflicting(s))[n] \in Seq(P \cap Conflicting(s))
              /\ Selection(s, Conflicting(s))[n] = <<>> <=>
                   \A k \in 1 .. n : s[k] \notin Conflicting(s)
        BY <1>2, SelectionIsSound
      <4>2. Len(s) \in 0 .. Len(s) /\ q = Selection(s, Conflicting(s))[Len(s)]
        BY <1>2 DEF Select
      <4> HIDE DEF q
      <4> QED BY <4>1, <4>2, Zenon
    <3>2. Seq(P \cap Conflicting(s)) \subseteq Seq(P)
      OBVIOUS
    <3> QED BY <3>1, <3>2, Zenon
  <2>5. q = <<>> <=> \A k \in DOMAIN s : s[k][3] = s[1][3]
    <3>1. DOMAIN s = 1 .. Len(s) /\ \A k \in 1 .. Len(s) : s[k] \in ToSet(s)
      BY <1>2 DEF ToSet
    <3>2. \A k \in 1 .. Len(s) : s[k] \notin Conflicting(s) <=> s[k][3] = s[1][3]
      BY <3>1, Zenon DEF Conflicting
    <3> QED BY <2>4, <3>1, <3>2
  <2> HIDE DEF q
  <2>6. c \in Seq(E) /\ Len(c) = Len(q)
    BY <1>3, <2>4
  <2>7. c = <<>> <=> q = <<>>
    BY <2>4, <2>6
  <2> HIDE DEF a, b, c
  <2>8. a \o b \o c \in Seq(E) /\ Len(a \o b \o c) = Len(a) + Len(b) + Len(c)
    BY <2>2, <2>3, <2>6
  <2>9. a \o b \o c = <<>> <=> a = <<>> /\ b = <<>> /\ c = <<>>
    BY <2>2, <2>3, <2>6, <2>8
  <2> QED BY <1>1, <1>6, <2>2, <2>3, <2>5, <2>7, <2>8, <2>9 DEF E, s
<1> QED BY <1>5, <1>6

LEMMA JudgeStep ==
  ASSUME IInv, Judge
  PROVE  IInv'
<1>1. /\ TypeOK /\ Agrees /\ ScanInv /\ text = Cleaned(Preamble \o user) /\ scan.i = Len(text)
      /\ pc' = "done" /\ UNCHANGED <<request, user, text, scan>>
      /\ errors' = StageErrors
      /\ stage' = IF scan.stages = <<>> \/ StageErrors # <<>> THEN BadStage
                  ELSE scan.stages[1][3]
  BY DEF IInv, Judge
<1>2. stage' \in Stages \cup {BadStage}
  <2>1. scan.stages # <<>> /\ StageErrors = <<>> => scan.stages[1][3] \in Stages
    BY <1>1, ErrorsAre
  <2> QED BY <1>1, <2>1
<1>3. errors' \in Seq({"late", "invalid", "conflict"} \X Files \X Nat)
  BY <1>1, ErrorsAre
<1>4. TypeOK'
  BY <1>1, <1>2, <1>3 DEF TypeOK, request
<1>5. Agrees' /\ Cleaned(Preamble \o user)' = Cleaned(Preamble \o user)
  BY <1>1, SameRequest
<1>6. ScanInv'
  BY <1>1, SameScan
<1>7. Judged'
  BY <1>1, Zenon DEF Judged, StageErrors
<1> QED BY <1>1, <1>4, <1>5, <1>6, <1>7, Zenon DEF IInv

LEMMA NextIInv == IInv /\ [Next]_vars => IInv'
<1> SUFFICES ASSUME IInv, [Next]_vars PROVE IInv'
  OBVIOUS
<1>1. ASSUME NEW l \in Lines, PrintLine(l) PROVE IInv'
  BY <1>1, PrintLineStep
<1>2. CASE Preprocessed
  BY <1>2, PreprocessedStep
<1>3. CASE CleanupPreamble
  BY <1>3, CleanupPreambleStep
<1>4. ASSUME NEW i \in 1 .. Len(text), ScanLine(i) PROVE IInv'
  BY <1>4, ScanLineStep
<1>5. CASE EndOfText
  BY <1>5, EndOfTextStep
<1>6. CASE Judge
  BY <1>6, JudgeStep
<1>7. CASE UNCHANGED vars
  <2>1. UNCHANGED <<request, user, text, scan>> /\ UNCHANGED <<pc, errors, stage>>
    BY <1>7 DEF vars
  <2>2. TypeOK'
    BY <2>1 DEF IInv, TypeOK, request
  <2>3. /\ Agrees' <=> Agrees
        /\ Preamble' = Preamble
        /\ Cleaned(Preamble \o user)' = Cleaned(Preamble \o user)
    BY <2>1, SameRequest
  <2>4. ScanInv => ScanInv'
    BY <2>1, SameScan
  <2>5. Judged => Judged'
    BY <2>1, Zenon DEF Judged, StageErrors
  <2> QED BY <2>1, <2>2, <2>3, <2>4, <2>5, Zenon DEF IInv, StartOfScan
<1> QED BY <1>1, <1>2, <1>3, <1>4, <1>5, <1>6, <1>7 DEF Next

(* IInv holds in every state: the scan of the code knows its place, and    *)
(* what the cleanup made of the text.                                      *)
THEOREM Invariance == Spec => []IInv
BY InitIInv, NextIInv, PTL DEF Spec

(* Every variable has its type: in particular the scan stays in the text,  *)
(* and its line numbers do not fall below 0 where #line is corrected.      *)
THEOREM TypeCorrect == Spec => []TypeOK
<1>1. IInv => TypeOK
  BY DEF IInv
<1> QED BY <1>1, Invariance, PTL

-----------------------------------------------------------------------------
(* The positions.                                                          *)

(* The cleaned text has the version of the user's.                         *)
LEMMA CleanedVersion ==
  ASSUME macros \in Nat, included \in BOOLEAN, NEW u \in Seq(Lines),
         NEW t, t = Cleaned(Preamble \o u)
  PROVE  /\ (VersionIndex(t) = 0) <=> (VersionIndex(u) = 0)
         /\ VersionIndex(t) # 0 => t[VersionIndex(t)] = u[VersionIndex(u)]
<1> DEFINE v == VersionIndex(u)
           w == VersionIndex(t)
           n == Offset(u)
<1>1. CASE ~included
  <2>1. t = u
    BY <1>1, Layout
  <2> QED BY <2>1
<1>2. CASE included
  <2>1. /\ t \in Seq(AnyLines) /\ n \in Nat /\ Len(t) = n + Len(u) /\ Len(u) \in Nat
        /\ \A j \in 1 .. Len(u) : t[n + j] = IF included /\ j = v THEN Blank ELSE u[j]
        /\ n > 0 /\ t[n] = GetLineDirective(IsForNextLine(u), Main)
        /\ \A i \in 1 .. n - 1 : t[i] = PoundExtension \/ (v # 0 /\ i = 1 /\ t[i] = u[v])
        /\ v # 0 => t[1] = u[v]
    <3>1. t \in Seq(AnyLines) /\ n \in Nat /\ Len(t) = n + Len(u)
      BY Layout
    <3>2. \A j \in 1 .. Len(u) : t[n + j] = IF included /\ j = v THEN Blank ELSE u[j]
      BY Layout
    <3>3. /\ n > 0 /\ t[n] = GetLineDirective(IsForNextLine(u), Main)
          /\ \A i \in 1 .. n - 1 : t[i] = PoundExtension \/ (v # 0 /\ i = 1 /\ t[i] = u[v])
      BY <1>2, Layout
    <3>4. v # 0 => t[1] = u[v]
      BY <1>2, Layout
    <3>5. Len(u) \in Nat
      OBVIOUS
    <3> QED BY <3>1, <3>2, <3>3, <3>4, <3>5, Zenon
  <2>2. /\ v \in 0 .. Len(u)
        /\ v # 0 => u[v].kind = "version"
        /\ \A i \in 1 .. Len(u) : u[i].kind = "version" => v # 0 /\ v <= i
    BY VersionIndexIs
  <2>3. /\ w \in 0 .. Len(t)
        /\ w # 0 => t[w].kind = "version"
        /\ \A i \in 1 .. Len(t) : t[i].kind = "version" => w # 0 /\ w <= i
    BY <2>1, VersionIndexIs
  <2> HIDE DEF v, w, n
  <2>4. CASE v # 0
    <3>1. 1 \in 1 .. Len(t) /\ t[1].kind = "version"
      BY <2>1, <2>2, <2>4
    <3>2. w = 1
      BY <2>3, <3>1
    <3> QED BY <2>1, <2>4, <3>2 DEF v, w
  <2>5. CASE v = 0
    <3>1. \A i \in 1 .. n : t[i].kind # "version"
      <4> SUFFICES ASSUME NEW i \in 1 .. n PROVE t[i].kind # "version"
        OBVIOUS
      <4>1. CASE i = n
        BY <2>1, <4>1 DEF GetLineDirective, Line
      <4>2. CASE i # n
        <5>1. t[i] = PoundExtension
          BY <2>1, <2>5, <4>2
        <5> QED BY <5>1 DEF PoundExtension, Line
      <4> QED BY <4>1, <4>2
    <3>2. \A j \in 1 .. Len(u) : t[n + j].kind # "version"
      BY <2>1, <2>2, <2>5
    <3>3. \A i \in 1 .. Len(t) : t[i].kind # "version"
      <4> SUFFICES ASSUME NEW i \in 1 .. Len(t) PROVE t[i].kind # "version"
        OBVIOUS
      <4>1. CASE i > n
        <5>1. i - n \in 1 .. Len(u) /\ n + (i - n) = i
          BY <2>1, <4>1
        <5> QED BY <3>2, <5>1
      <4>2. CASE ~(i > n)
        BY <2>1, <3>1, <4>2
      <4> QED BY <4>1, <4>2
    <3>4. w = 0
      BY <2>3, <3>3
    <3> QED BY <2>5, <3>4 DEF v, w
  <2> QED BY <2>4, <2>5
<1> QED BY <1>1, <1>2

(* Where the scan is on a line of the user's, glslang is, on the text      *)
(* before the cleanup and on the text after it.                            *)
LEMMA PositionsAre ==
  ASSUME IInv, pc # "preprocess", pc # "cleanup", ~HlslWithLines, NEW j \in 1 .. Len(user)
  PROVE  /\ FileAt(text, Offset(user) + j) = FileAt(user, j)
         /\ LineAt(text, Offset(user) + j, IsForNextLine(text))
              = LineAt(user, j, LineDirectiveShouldSetNextLine(user))
         /\ Position(text, Offset(user) + j) = Position(user, j)
<1> DEFINE n == Offset(user)
           mine == LineDirectiveShouldSetNextLine(user)
           next == IsForNextLine(text)
<1>1. /\ macros \in Nat /\ included \in BOOLEAN /\ user \in Seq(Lines) /\ Agrees
      /\ text = Cleaned(Preamble \o user) /\ language \in {"glsl", "hlsl"}
  BY BoundAssumption DEF IInv, TypeOK
<1>2. next = IsForNextLine(user)
  BY <1>1, CleanedVersion, SameVersion
<1>3. CASE language = "glsl"
  <2>1. next = mine /\ next \in BOOLEAN
    BY <1>1, <1>2, <1>3, ForNextLine DEF Agrees
  <2>2. LineDirectiveShouldSetNextLine(text) = mine
    BY <1>1, <1>3, CleanedVersion, SameVersion DEF Agrees
  <2>3. /\ text \in Seq(AnyLines) /\ n \in Nat /\ Len(text) = n + Len(user)
        /\ n > 0 => text[n] = GetLineDirective(next, Main)
        /\ \A i \in 1 .. Len(user) :
             text[n + i] = IF included /\ i = VersionIndex(user) THEN Blank ELSE user[i]
    <3>1. n > 0 => included
      BY DEF Offset
    <3> QED BY <1>1, <1>2, <3>1, Layout
  <2>4. user \in Seq(AnyLines) /\ Len(user) \in Nat
    BY <1>1 DEF AnyLines
  <2>5. \A i \in 1 .. Len(user) :
          text[n + i].kind = "line" \/ user[i].kind = "line" => text[n + i] = user[i]
    <3> SUFFICES ASSUME NEW i \in 1 .. Len(user), text[n + i] # user[i]
                 PROVE  text[n + i].kind # "line" /\ user[i].kind # "line"
      OBVIOUS
    <3>1. i = VersionIndex(user) /\ text[n + i] = Blank /\ i # 0
      BY <2>3
    <3>2. user[i].kind = "version"
      BY <1>1, <3>1, VersionIndexIs
    <3> QED BY <3>1, <3>2 DEF Blank, Line
  <2> HIDE DEF n, next, mine
  <2>6. \A i \in 0 .. Len(user) :
          /\ FileAt(text, n + (i + 1)) = FileAt(user, i + 1)
          /\ LineAt(text, n + (i + 1), next) = LineAt(user, i + 1, next)
    BY <2>1, <2>3, <2>4, <2>5, BehindHead
  <2>7. j - 1 \in 0 .. Len(user) /\ (j - 1) + 1 = j
    BY <2>4
  <2>8. FileAt(text, n + j) = FileAt(user, j) /\ LineAt(text, n + j, next) = LineAt(user, j, next)
    BY <2>6, <2>7
  <2> QED BY <2>1, <2>2, <2>8, Zenon DEF Position, n, next, mine
<1>4. CASE language = "hlsl"
  <2>1. \A i \in DOMAIN text : text[i].kind # "line"
    BY <1>4 DEF HlslWithLines
  <2>2. ~included
    <3> SUFFICES ASSUME included PROVE FALSE
      BY <1>1
    <3>1. /\ text \in Seq(AnyLines) /\ n \in Nat /\ n > 0 /\ Len(text) = n + Len(user)
          /\ text[n] = GetLineDirective(IsForNextLine(user), Main) /\ Len(user) \in Nat
      BY <1>1, Layout
    <3>2. n \in DOMAIN text
      BY <3>1
    <3> QED BY <2>1, <3>1, <3>2 DEF GetLineDirective, Line
  <2>3. text = user /\ n = 0
    BY <1>1, <2>2, Layout DEF Offset
  <2>4. n + j = j
    BY <2>3
  <2>5. Directives(user, j) = {}
    <3>1. \A i \in 1 .. j - 1 : i \in DOMAIN user
      BY <1>1
    <3> QED BY <2>1, <2>3, <3>1 DEF Directives
  <2>6. \A x : LineAt(user, j, x) = j
    BY <2>5, Zenon DEF LineAt
  <2> QED BY <2>3, <2>4, <2>6, Zenon DEF Position
<1> QED BY <1>1, <1>3, <1>4

(* The cleanup, as glslang sees it: every line of the user stays where it  *)
(* was, and is the same line unless it is the #version.                    *)
THEOREM NoLineMoves == Spec => []CleanupKeepsPositions
<1>1. IInv => CleanupKeepsPositions
  <2> SUFFICES ASSUME IInv, pc = "scan", ~HlslWithLines
               PROVE  /\ PositionsKept
                      /\ \A i \in DOMAIN user :
                           user[i].kind # "version" => text[Len(text) - Len(user) + i] = user[i]
    BY DEF CleanupKeepsPositions
  <2>1. /\ macros \in Nat /\ included \in BOOLEAN /\ user \in Seq(Lines)
        /\ text = Cleaned(Preamble \o user) /\ DOMAIN user = 1 .. Len(user)
    BY BoundAssumption DEF IInv, TypeOK
  <2>2. Len(text) - Len(user) = Offset(user)
    <3>1. Offset(user) \in Nat /\ Len(user) \in Nat /\ Len(text) = Offset(user) + Len(user)
      BY <2>1, Layout
    <3> QED BY <3>1
  <2>3. \A i \in 1 .. Len(user) : Position(text, Offset(user) + i) = Position(user, i)
    BY PositionsAre
  <2>4. \A i \in 1 .. Len(user) : user[i].kind # "version" => text[Offset(user) + i] = user[i]
    BY <2>1, SamePragmas
  <2> QED BY <2>1, <2>2, <2>3, <2>4, Zenon DEF PositionsKept
<1> QED BY <1>1, Invariance, PTL

-----------------------------------------------------------------------------
(* The pragmas.                                                            *)

(* When the scan has ended, all of the user's pragmas have been found.     *)
LEMMA AllFound ==
  ASSUME IInv, pc \in {"judge", "done"}
  PROVE  /\ scan.stages = Reports(Found(user)[Len(user)])
         /\ NamedBy(scan.stages)
              = {user[j].arg : j \in {i \in DOMAIN user : user[i].kind = "pragma"}}
<1> DEFINE n == Offset(user)
           K == {i \in DOMAIN user : user[i].kind = "pragma"}
<1>1. /\ macros \in Nat /\ included \in BOOLEAN /\ user \in Seq(Lines)
      /\ text = Cleaned(Preamble \o user) /\ scan.i = Len(text) /\ ScanInv
  BY BoundAssumption DEF IInv, TypeOK
<1>2. n \in Nat /\ Len(text) = n + Len(user) /\ Len(user) \in Nat
  BY <1>1, Layout
<1>3. Seen = Len(user)
  BY <1>1, <1>2 DEF Seen
<1>4. scan.stages = Reports(Found(user)[Len(user)])
  BY <1>1, <1>3, Zenon DEF ScanInv
<1>5. NamedBy(scan.stages) = {text[i].arg : i \in PragmasUpTo(text, n + Len(user))}
  BY <1>1, <1>2, Zenon DEF ScanInv
<1>6. /\ \A i \in 1 .. n : text[i].kind # "pragma"
      /\ \A j \in 1 .. Len(user) :
           /\ text[n + j].kind = "pragma" <=> user[j].kind = "pragma"
           /\ user[j].kind = "pragma" => text[n + j] = user[j]
  BY <1>1, SamePragmas
<1>7. \A j : j \in K <=> j \in 1 .. Len(user) /\ user[j].kind = "pragma"
  BY <1>1
<1> HIDE DEF n, K
<1>8. \A j \in K : n + j \in PragmasUpTo(text, n + Len(user)) /\ text[n + j].arg = user[j].arg
  <2> SUFFICES ASSUME NEW j \in K
               PROVE  n + j \in PragmasUpTo(text, n + Len(user)) /\ text[n + j].arg = user[j].arg
    OBVIOUS
  <2>1. n + j \in 1 .. n + Len(user) /\ text[n + j] = user[j] /\ user[j].kind = "pragma"
    BY <1>2, <1>6, <1>7
  <2> QED BY <2>1 DEF PragmasUpTo
<1>9. \A i \in PragmasUpTo(text, n + Len(user)) : i - n \in K /\ text[i].arg = user[i - n].arg
  <2> SUFFICES ASSUME NEW i \in 1 .. n + Len(user), text[i].kind = "pragma"
               PROVE  i - n \in K /\ text[i].arg = user[i - n].arg
    BY DEF PragmasUpTo
  <2> DEFINE j == i - n
  <2>1. ~(i <= n)
    BY <1>2, <1>6
  <2>2. j \in 1 .. Len(user) /\ n + j = i
    BY <1>2, <2>1
  <2> HIDE DEF j
  <2>3. user[j].kind = "pragma" /\ text[i] = user[j]
    BY <1>6, <2>2
  <2>4. j \in K
    BY <1>7, <2>2, <2>3
  <2> QED BY <2>3, <2>4 DEF j
<1>10. {text[i].arg : i \in PragmasUpTo(text, n + Len(user))} = {user[j].arg : j \in K}
  BY <1>8, <1>9
<1> QED BY <1>4, <1>5, <1>10 DEF K

(* Every pragma is reported at the file and line that glslang gives it in  *)
(* the user's own text, in the order in which they were written.           *)
THEOREM PragmasAreFound == Spec => []PragmasAreWhereTheyAre
<1>1. IInv => PragmasAreWhereTheyAre
  <2> DEFINE all == [i \in DOMAIN user |-> i]
             K == {i \in DOMAIN user : user[i].kind = "pragma"}
             pragmas == Select(all, K)
  <2> SUFFICES ASSUME IInv, pc = "judge", ~HlslWithLines
               PROVE  scan.stages =
                        [k \in DOMAIN pragmas |->
                           LET p == Position(user, pragmas[k])
                           IN  <<p[1], p[2], user[pragmas[k]].arg>>]
    BY Zenon DEF PragmasAreWhereTheyAre
  <2>1. user \in Seq(Lines) /\ DOMAIN user = 1 .. Len(user) /\ Len(user) \in Nat
    BY DEF IInv, TypeOK
  <2>2. all = Order(user) /\ K = PragmasUpTo(user, Len(user))
    BY <2>1 DEF Order, PragmasUpTo
  <2>3. Len(all) = Len(user) /\ all \in Seq(Nat)
    BY <2>1
  <2>4. pragmas = Found(user)[Len(user)]
    BY <2>2, <2>3, Zenon DEF Select, Found
  <2>5. pragmas \in Seq(Nat \cap K)
    <3>1. \A m \in 0 .. Len(all) : Selection(all, K)[m] \in Seq(Nat \cap K)
      BY <2>3, SelectionIsSound
    <3>2. Len(all) \in 0 .. Len(all)
      BY <2>1, <2>3
    <3> QED BY <3>1, <3>2, Zenon DEF Select
  <2> HIDE DEF pragmas
  <2>6. \A k \in DOMAIN pragmas : pragmas[k] \in 1 .. Len(user)
    BY <2>1, <2>5
  <2>7. \A j \in 1 .. Len(user) :
          Report(j) = <<Position(user, j)[1], Position(user, j)[2], user[j].arg>>
    <3> SUFFICES ASSUME NEW j \in 1 .. Len(user)
                 PROVE  Report(j) = <<Position(user, j)[1], Position(user, j)[2], user[j].arg>>
      OBVIOUS
    <3>1. /\ FileAt(text, Offset(user) + j) = FileAt(user, j)
          /\ LineAt(text, Offset(user) + j, IsForNextLine(text))
               = LineAt(user, j, LineDirectiveShouldSetNextLine(user))
      BY PositionsAre
    <3>2. /\ Position(user, j)[1] = FileAt(user, j)
          /\ Position(user, j)[2] = LineAt(user, j, LineDirectiveShouldSetNextLine(user))
      BY DEF Position
    <3> QED BY <3>1, <3>2, Zenon DEF Report
  <2>8. scan.stages = [k \in DOMAIN pragmas |-> Report(pragmas[k])]
    BY <2>4, AllFound, Zenon DEF Reports
  <2> QED BY <2>6, <2>7, <2>8, Zenon
<1> QED BY <1>1, Invariance, PTL

(* The stage, and whether there is an error, follow from the user's lines. *)
THEOREM StageIsAsWritten == Spec => []StageAsWritten
<1>1. IInv => StageAsWritten
  <2> DEFINE pragmas == {i \in DOMAIN user : user[i].kind = "pragma"}
             named == {user[i].arg : i \in pragmas}
             late == \E i \in DOMAIN user : user[i].kind = "code" /\ \A j \in pragmas : i < j
             s == scan.stages
             n == Offset(user)
  <2> SUFFICES ASSUME IInv, pc = "done"
               PROVE  /\ \A x \in Stages : (stage = x) <=> (named = {x} /\ ~late)
                      /\ (errors = <<>>) <=> (pragmas = {} \/ stage \in Stages)
    BY Zenon DEF StageAsWritten
  <2>1. /\ TypeOK /\ ScanInv /\ Judged /\ scan.i = Len(text)
        /\ macros \in Nat /\ included \in BOOLEAN /\ user \in Seq(Lines)
        /\ DOMAIN user = 1 .. Len(user) /\ Len(user) \in Nat
        /\ text = Cleaned(Preamble \o user)
    BY BoundAssumption DEF IInv, TypeOK
  <2>2. NamedBy(s) = named
    BY AllFound
  <2>3. s \in Seq(Files \X Nat \X (Stages \cup {BadStage}))
    BY <2>1 DEF TypeOK
  <2>4. errors = StageErrors /\ stage = IF s = <<>> \/ StageErrors # <<>> THEN BadStage ELSE s[1][3]
    BY <2>1 DEF Judged
  <2>5. /\ s = <<>> => StageErrors = <<>>
        /\ s # <<>> =>
             (StageErrors = <<>> <=>
                /\ ~Late /\ s[1][3] \in Stages
                /\ \A k \in DOMAIN s : s[k][3] = s[1][3])
    BY <2>1, ErrorsAre
  <2>6. n \in Nat /\ Len(text) = n + Len(user)
    BY <2>1, Layout
  <2>7. /\ \A i \in 1 .. n : text[i].kind # "pragma" /\ text[i].kind # "code"
        /\ \A j \in 1 .. Len(user) : /\ text[n + j].kind = "pragma" <=> user[j].kind = "pragma"
                                     /\ text[n + j].kind = "code" <=> user[j].kind = "code"
    BY <2>1, SamePragmas
  <2>8. (s = <<>>) <=> (pragmas = {})
    <3>1. s = <<>> <=> DOMAIN s = {}
      <4>1. DOMAIN s = 1 .. Len(s) /\ Len(s) \in Nat
        BY <2>3
      <4>2. Len(s) = 0 <=> s = <<>>
        BY <2>3
      <4> HIDE DEF s
      <4>3. Len(s) # 0 => 1 \in 1 .. Len(s)
        BY <4>1
      <4> QED BY <4>1, <4>2, <4>3
    <3>2. NamedBy(s) = {} <=> DOMAIN s = {}
      BY Zenon DEF NamedBy
    <3>3. named = {} <=> pragmas = {}
      OBVIOUS
    <3> QED BY <2>2, <3>1, <3>2, <3>3
  <2>9. pragmas # {} => (Late <=> late)
    <3> DEFINE x == scan.first_pragma
               y == scan.first_non_pp
    <3>1. FirstOf(text, n + Len(user), x, "pragma") /\ FirstOf(text, n + Len(user), y, "code")
      BY <2>1, <2>6 DEF ScanInv
    <3>2. \A i \in 1 .. n + Len(user) :
            text[i].kind = "pragma" \/ text[i].kind = "code" =>
              /\ i - n \in 1 .. Len(user) /\ n + (i - n) = i
              /\ user[i - n].kind = text[i].kind
      <4> SUFFICES ASSUME NEW i \in 1 .. n + Len(user),
                          text[i].kind = "pragma" \/ text[i].kind = "code"
                   PROVE  /\ i - n \in 1 .. Len(user) /\ n + (i - n) = i
                          /\ user[i - n].kind = text[i].kind
        OBVIOUS
      <4>1. ~(i <= n)
        BY <2>6, <2>7
      <4>2. i - n \in 1 .. Len(user) /\ n + (i - n) = i
        BY <2>1, <2>6, <4>1
      <4> QED BY <2>7, <4>2
    <3>3. \A j \in 1 .. Len(user) : n + j \in 1 .. n + Len(user)
      BY <2>1, <2>6
    <3>4. \A j : j \in pragmas <=> j \in 1 .. Len(user) /\ user[j].kind = "pragma"
      BY <2>1
    <3>5. late <=> \E i \in 1 .. Len(user) : user[i].kind = "code" /\ \A j \in pragmas : i < j
      BY <2>1
    <3> HIDE DEF n, pragmas, late, x, y
    <3> SUFFICES ASSUME pragmas # {} PROVE Late <=> late
      OBVIOUS
    <3>6. PICK p \in pragmas : TRUE
      OBVIOUS
    <3>7. /\ x \in 1 .. n + Len(user) /\ text[x].kind = "pragma"
          /\ \A i \in 1 .. x - 1 : text[i].kind # "pragma"
      BY <2>7, <3>1, <3>3, <3>4, <3>6 DEF FirstOf
    <3>8. x - n \in pragmas
      BY <3>2, <3>4, <3>7
    <3>9. \A j \in pragmas : x <= n + j
      <4> SUFFICES ASSUME NEW j \in pragmas, n + j < x PROVE FALSE
        BY <2>6, <3>4, <3>7
      <4>1. j \in 1 .. Len(user) /\ text[n + j].kind = "pragma"
        BY <2>7, <3>4
      <4>2. n + j \in 1 .. x - 1
        BY <2>1, <2>6, <3>7, <4>1
      <4> QED BY <3>7, <4>1, <4>2
    <3>10. ASSUME Late PROVE late
      <4>1. y # 0 /\ x > y
        BY <3>10 DEF Late, x, y
      <4>2. y \in 1 .. n + Len(user) /\ text[y].kind = "code"
        BY <3>1, <4>1 DEF FirstOf
      <4>3. y - n \in 1 .. Len(user) /\ user[y - n].kind = "code"
        BY <3>2, <4>2
      <4>4. \A j \in pragmas : y - n < j
        BY <2>6, <3>4, <3>7, <3>9, <4>1, <4>2
      <4> QED BY <3>5, <4>3, <4>4
    <3>11. ASSUME late PROVE Late
      <4>1. PICK i \in 1 .. Len(user) : user[i].kind = "code" /\ \A j \in pragmas : i < j
        BY <3>5, <3>11
      <4>2. n + i \in 1 .. n + Len(user) /\ text[n + i].kind = "code" /\ n + i < x
        BY <2>6, <2>7, <3>3, <3>7, <3>8, <4>1
      <4>3. y \in 1 .. n + Len(user) /\ y <= n + i
        BY <2>1, <2>6, <3>1, <4>2 DEF FirstOf
      <4> QED BY <2>6, <3>7, <4>2, <4>3 DEF Late, x, y
    <3> QED BY <3>10, <3>11
  <2>10. \A x : s # <<>> => (named = {x} <=> \A k \in DOMAIN s : s[k][3] = x)
    <3>1. s # <<>> => 1 \in DOMAIN s
      BY <2>3
    <3> QED BY <2>2, <3>1 DEF NamedBy
  <2>11. s # <<>> => 1 \in DOMAIN s /\ s[1][3] \in Stages \cup {BadStage}
    BY <2>3
  <2> HIDE DEF s, pragmas, named, late
  <2>12. BadStage \notin Stages
    BY StageAssumption
  <2>13. CASE s = <<>>
    <3>1. pragmas = {} /\ stage = BadStage /\ errors = <<>>
      BY <2>4, <2>5, <2>8, <2>13
    <3>2. named = {}
      BY <3>1 DEF named
    <3> QED BY <2>12, <3>1, <3>2
  <2>14. CASE s # <<>>
    <3>1. pragmas # {} /\ (Late <=> late)
      BY <2>8, <2>9, <2>14
    <3>2. StageErrors = <<>> <=> ~late /\ s[1][3] \in Stages /\ named = {s[1][3]}
      BY <2>5, <2>10, <2>14, <3>1
    <3>3. \A x : named = {x} => x = s[1][3]
      BY <2>10, <2>11, <2>14
    <3> QED BY <2>4, <2>11, <2>12, <2>14, <3>1, <3>2, <3>3
  <2> QED BY <2>13, <2>14
<1> QED BY <1>1, Invariance, PTL
=============================================================================
