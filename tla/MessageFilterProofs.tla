------------------------ MODULE MessageFilterProofs ------------------------
(***************************************************************************)
(* Proofs about MessageFilter, for names and texts of any length made of   *)
(* any characters, and line numbers of any digits.                         *)
(***************************************************************************)
EXTENDS MessageFilter, SelectionsProofs, FiniteSetTheorems

-----------------------------------------------------------------------------
(* Texts.                                                                  *)

LEMMA SeqOfIs ==
  ASSUME NEW S, NEW n \in Nat, NEW t \in SeqOf(S, n)
  PROVE  t \in Seq(S)
<1>1. PICK m \in 0 .. n : t \in [1 .. m -> S]
  BY DEF SeqOf
<1> QED BY <1>1

LEMMA InkEnds ==
  ASSUME NEW S, NEW t \in Seq(S), ~Blank(t)
  PROVE  /\ Min(Ink(t)) \in 1 .. Len(t) /\ Max(Ink(t)) \in 1 .. Len(t)
         /\ Min(Ink(t)) <= Max(Ink(t))
         /\ t[Min(Ink(t))] # "space" /\ t[Max(Ink(t))] # "space"
         /\ \A i \in 1 .. Len(t) : t[i] # "space" => Min(Ink(t)) <= i /\ i <= Max(Ink(t))
<1> DEFINE I == Ink(t)
<1>1. Len(t) \in Nat /\ I \in SUBSET (1 .. Len(t)) /\ I \in SUBSET Nat
  BY DEF Ink
<1>2. I # {}
  BY DEF Ink, Blank
<1>3. \A i \in 1 .. Len(t) : t[i] # "space" <=> i \in I
  BY DEF Ink
<1> HIDE DEF I
<1>4. Min(I) \in I /\ \A k \in I : Min(I) <= k
  BY <1>1, <1>2, Least
<1>5. Max(I) \in I /\ \A k \in I : k <= Max(I)
  BY <1>1, <1>2, Greatest
<1> QED BY <1>1, <1>3, <1>4, <1>5 DEF I

(* A text that begins and ends with ink has its ends there.                *)
LEMMA InkEndsAre ==
  ASSUME NEW S, NEW t \in Seq(S), NEW a \in 1 .. Len(t), NEW b \in 1 .. Len(t),
         t[a] # "space", t[b] # "space",
         \A i \in 1 .. Len(t) : t[i] # "space" => a <= i /\ i <= b
  PROVE  Min(Ink(t)) = a /\ Max(Ink(t)) = b /\ ~Blank(t)
<1>1. Len(t) \in Nat /\ Ink(t) \in SUBSET (1 .. Len(t)) /\ Ink(t) \in SUBSET Nat
  BY DEF Ink
<1>2. a \in Ink(t) /\ b \in Ink(t) /\ \A i \in Ink(t) : a <= i /\ i <= b
  BY DEF Ink
<1>3. ~Blank(t)
  BY DEF Blank
<1> QED BY <1>1, <1>2, <1>3, LeastIs, GreatestIs

LEMMA StrippedIs ==
  ASSUME NEW S, NEW t \in Seq(S), ~Blank(t)
  PROVE  /\ StripWhitespace(t) \in Seq(S)
         /\ Len(StripWhitespace(t)) = Max(Ink(t)) - Min(Ink(t)) + 1
         /\ Len(StripWhitespace(t)) \in 1 .. Len(t)
         /\ \A i \in 1 .. Len(StripWhitespace(t)) :
              StripWhitespace(t)[i] = t[i + (Min(Ink(t)) - 1)]
         /\ StripWhitespace(t)[1] # "space"
         /\ StripWhitespace(t)[Len(StripWhitespace(t))] # "space"
<1> DEFINE s == StripWhitespace(t)
           a == Min(Ink(t))
           b == Max(Ink(t))
<1>1. /\ a \in 1 .. Len(t) /\ b \in 1 .. Len(t) /\ a <= b /\ t[a] # "space" /\ t[b] # "space"
      /\ Len(t) \in Nat
  BY InkEnds
<1>2. s = SubSeq(t, a, b)
  BY DEF StripWhitespace
<1> HIDE DEF s, a, b
<1>3. \A i \in a .. b : t[i] \in S
  BY <1>1
<1>4. /\ s \in Seq(S) /\ Len(s) = IF a <= b THEN b - a + 1 ELSE 0
      /\ \A i \in 1 .. b - a + 1 : s[i] = t[a + i - 1]
  BY <1>1, <1>2, <1>3, SubSeqProperties
<1>5. Len(s) = b - a + 1 /\ Len(s) \in 1 .. Len(t)
  BY <1>1, <1>4
<1>6. \A i \in 1 .. Len(s) : s[i] = t[i + (a - 1)]
  <2> SUFFICES ASSUME NEW i \in 1 .. Len(s) PROVE s[i] = t[i + (a - 1)]
    OBVIOUS
  <2>1. a + i - 1 = i + (a - 1) /\ i \in 1 .. b - a + 1
    BY <1>1, <1>5
  <2> QED BY <1>4, <2>1
<1>7. s[1] = t[a] /\ s[Len(s)] = t[b]
  <2>1. 1 \in 1 .. Len(s) /\ Len(s) \in 1 .. Len(s) /\ 1 + (a - 1) = a /\ Len(s) + (a - 1) = b
    BY <1>1, <1>5
  <2> QED BY <1>6, <2>1
<1> QED BY <1>1, <1>4, <1>5, <1>6, <1>7 DEF s, a, b

(* Nothing is left to strip.                                               *)
LEMMA NothingToStrip ==
  ASSUME NEW S, NEW t \in Seq(S), Len(t) > 0, t[1] # "space", t[Len(t)] # "space"
  PROVE  StripWhitespace(t) = t /\ ~Blank(t)
<1>1. Len(t) \in Nat /\ 1 \in 1 .. Len(t) /\ Len(t) \in 1 .. Len(t)
  OBVIOUS
<1>2. Min(Ink(t)) = 1 /\ Max(Ink(t)) = Len(t) /\ ~Blank(t)
  <2>1. \A i \in 1 .. Len(t) : t[i] # "space" => 1 <= i /\ i <= Len(t)
    OBVIOUS
  <2> QED BY <1>1, <2>1, InkEndsAre
<1> DEFINE s == StripWhitespace(t)
<1>3. /\ s \in Seq(S) /\ Len(s) = Max(Ink(t)) - Min(Ink(t)) + 1
      /\ \A i \in 1 .. Len(s) : s[i] = t[i + (Min(Ink(t)) - 1)]
  BY <1>2, StrippedIs
<1> HIDE DEF s
<1>4. Len(s) = Len(t) /\ \A i \in 1 .. Len(s) : s[i] = t[i]
  <2>1. Len(s) = Len(t)
    BY <1>1, <1>2, <1>3
  <2>2. \A i \in 1 .. Len(s) : i + (1 - 1) = i
    BY <1>1, <2>1
  <2> QED BY <1>2, <1>3, <2>1, <2>2
<1>5. s = t
  BY <1>3, <1>4, SeqEqual
<1> QED BY <1>2, <1>5 DEF s

LEMMA ColonFound ==
  ASSUME NEW S, NEW t \in Seq(S), NEW pos \in Nat \ {0}
  PROVE  LET c == FindColon(t, pos)
         IN  /\ c \in 0 .. Len(t)
             /\ c = 0 => \A i \in pos .. Len(t) : t[i] # ":"
             /\ c # 0 => /\ pos <= c /\ t[c] = ":"
                         /\ \A i \in pos .. Len(t) : t[i] = ":" => c <= i
<1> DEFINE I == {i \in pos .. Len(t) : t[i] = ":"}
<1>1. FindColon(t, pos) = IF I = {} THEN 0 ELSE Min(I)
  BY Zenon DEF FindColon
<1>2. I \in SUBSET Nat /\ Len(t) \in Nat
  OBVIOUS
<1>3. I # {} => Min(I) \in I /\ \A k \in I : Min(I) <= k
  BY <1>2, Least
<1>4. CASE I = {}
  BY <1>1, <1>2, <1>4
<1>5. CASE I # {}
  <2>1. FindColon(t, pos) \in I /\ \A k \in I : FindColon(t, pos) <= k
    BY <1>1, <1>3, <1>5
  <2> QED BY <1>2, <2>1
<1> QED BY <1>4, <1>5

-----------------------------------------------------------------------------
(* A message with a location.                                              *)

(* A text of two parts.                                                    *)
Joins(S, u, v, t) ==
  /\ t \in Seq(S) /\ Len(t) = Len(u) + Len(v)
  /\ \A i \in 1 .. Len(u) : t[i] = u[i]
  /\ \A i \in 1 .. Len(v) : t[Len(u) + i] = v[i]

LEMMA Joining ==
  ASSUME NEW S, NEW u \in Seq(S), NEW v \in Seq(S), NEW t, t = u \o v
  PROVE  Joins(S, u, v, t)
<1>1. /\ t \in Seq(S) /\ Len(t) = Len(u) + Len(v)
      /\ \A i \in 1 .. Len(u) + Len(v) : t[i] = IF i <= Len(u) THEN u[i] ELSE v[i - Len(u)]
  BY ConcatProperties
<1>2. Len(u) \in Nat /\ Len(v) \in Nat
  OBVIOUS
<1>3. ASSUME NEW i \in 1 .. Len(u) PROVE t[i] = u[i]
  <2>1. i \in 1 .. Len(u) + Len(v) /\ i <= Len(u)
    BY <1>2
  <2> QED BY <1>1, <2>1
<1>4. ASSUME NEW i \in 1 .. Len(v) PROVE t[Len(u) + i] = v[i]
  <2>1. Len(u) + i \in 1 .. Len(u) + Len(v) /\ ~(Len(u) + i <= Len(u)) /\ Len(u) + i - Len(u) = i
    BY <1>2
  <2> QED BY <1>1, <2>1
<1> QED BY <1>1, <1>3, <1>4 DEF Joins

(* A text of five parts, two of them of a known length.                    *)
FiveParts(S, u, c, v, d, w, t) ==
  /\ t \in Seq(S) /\ Len(t) = Len(u) + Len(v) + Len(w) + 3
  /\ \A i \in 1 .. Len(u) : t[i] = u[i]
  /\ t[Len(u) + 1] = c[1]
  /\ \A i \in 1 .. Len(v) : t[Len(u) + 1 + i] = v[i]
  /\ t[Len(u) + Len(v) + 2] = d[1] /\ t[Len(u) + Len(v) + 3] = d[2]
  /\ \A i \in 1 .. Len(w) : t[Len(u) + Len(v) + 3 + i] = w[i]

LEMMA JoinedParts ==
  ASSUME NEW S, NEW u \in Seq(S), NEW c \in Seq(S), Len(c) = 1, NEW v \in Seq(S),
         NEW d \in Seq(S), Len(d) = 2, NEW w \in Seq(S), NEW p, NEW q, NEW r, NEW t,
         Joins(S, u, c, p), Joins(S, p, v, q), Joins(S, q, d, r), Joins(S, r, w, t)
  PROVE  FiveParts(S, u, c, v, d, w, t)
<1>1. /\ Len(p) = Len(u) + 1 /\ Len(q) = Len(u) + 1 + Len(v) /\ Len(r) = Len(u) + Len(v) + 3
      /\ Len(u) \in Nat /\ Len(v) \in Nat /\ Len(w) \in Nat
  BY DEF Joins
<1>2. /\ \A i \in 1 .. Len(u) : p[i] = u[i]
      /\ p[Len(u) + 1] = c[1]
      /\ \A i \in 1 .. Len(p) : q[i] = p[i]
      /\ \A i \in 1 .. Len(v) : q[Len(p) + i] = v[i]
      /\ \A i \in 1 .. Len(q) : r[i] = q[i]
      /\ r[Len(q) + 1] = d[1] /\ r[Len(q) + 2] = d[2]
      /\ \A i \in 1 .. Len(r) : t[i] = r[i]
      /\ \A i \in 1 .. Len(w) : t[Len(r) + i] = w[i]
  BY DEF Joins
<1>3. t \in Seq(S) /\ Len(t) = Len(u) + Len(v) + Len(w) + 3
  BY <1>1 DEF Joins
<1>4. \A i \in 1 .. Len(q) : t[i] = q[i]
  BY <1>1, <1>2
<1>5. \A i \in 1 .. Len(p) : t[i] = p[i]
  BY <1>1, <1>2, <1>4
<1>6. (\A i \in 1 .. Len(u) : t[i] = u[i]) /\ t[Len(u) + 1] = c[1]
  BY <1>1, <1>2, <1>5
<1>7. ASSUME NEW i \in 1 .. Len(v) PROVE t[Len(u) + 1 + i] = v[i]
  <2>1. Len(p) + i = Len(u) + 1 + i /\ Len(p) + i \in 1 .. Len(q)
    BY <1>1
  <2> QED BY <1>2, <1>4, <2>1
<1>8. t[Len(u) + Len(v) + 2] = d[1] /\ t[Len(u) + Len(v) + 3] = d[2]
  <2>1. /\ Len(q) + 1 = Len(u) + Len(v) + 2 /\ Len(q) + 2 = Len(u) + Len(v) + 3
        /\ Len(q) + 1 \in 1 .. Len(r) /\ Len(q) + 2 \in 1 .. Len(r)
    BY <1>1
  <2> QED BY <1>2, <2>1
<1>9. \A i \in 1 .. Len(w) : t[Len(u) + Len(v) + 3 + i] = w[i]
  BY <1>1, <1>2
<1> QED BY <1>3, <1>6, <1>7, <1>8, <1>9 DEF FiveParts

LEMMA JoinedOfFive ==
  ASSUME NEW S, NEW u \in Seq(S), NEW c \in Seq(S), Len(c) = 1, NEW v \in Seq(S),
         NEW d \in Seq(S), Len(d) = 2, NEW w \in Seq(S),
         NEW t, t = u \o c \o v \o d \o w
  PROVE  FiveParts(S, u, c, v, d, w, t)
<1> DEFINE p == u \o c
           q == p \o v
           r == q \o d
<1> HIDE DEF p, q, r
<1>1. Joins(S, u, c, p)
  BY Joining, Zenon DEF p
<1>2. Joins(S, p, v, q)
  <2>1. p \in Seq(S)
    BY <1>1 DEF Joins
  <2> QED BY <2>1, Joining, Zenon DEF q
<1>3. Joins(S, q, d, r)
  <2>1. q \in Seq(S)
    BY <1>2 DEF Joins
  <2> QED BY <2>1, Joining, Zenon DEF r
<1>4. Joins(S, r, w, t)
  <2>1. r \in Seq(S)
    BY <1>3 DEF Joins
  <2>2. t = r \o w
    BY DEF p, q, r
  <2> QED BY <2>1, <2>2, Joining, Zenon
<1> QED BY <1>1, <1>2, <1>3, <1>4, JoinedParts, Zenon

(* name, colon, line, colon, blank, body.                                  *)
LocatedMessage(m) ==
  /\ m.rest = "located" /\ m.name \in Texts /\ m.line \in Seq(Digits) /\ m.body \in Texts
  /\ Len(m.line) > 0 /\ Len(m.body) > 0 /\ m.body[1] # "space"

LEMMA LocatedText ==
  ASSUME NEW m, LocatedMessage(m)
  PROVE  LET n == Len(m.name)
             l == Len(m.line)
         IN  /\ Text(m) \in Texts /\ Len(Text(m)) = n + l + Len(m.body) + 3
             /\ \A i \in 1 .. n : Text(m)[i] = m.name[i]
             /\ Text(m)[n + 1] = ":"
             /\ \A i \in 1 .. l : Text(m)[n + 1 + i] \in Digits /\ Text(m)[n + 1 + i] = m.line[i]
             /\ Text(m)[n + l + 2] = ":" /\ Text(m)[n + l + 3] = "space"
             /\ \A i \in 1 .. Len(m.body) : Text(m)[n + l + 3 + i] = m.body[i]
<1> DEFINE t == Text(m)
           c == <<":">>
           d == <<":", "space">>
<1>1. /\ m.name \in Seq(Characters) /\ m.line \in Seq(Characters) /\ m.body \in Seq(Characters)
      /\ c \in Seq(Characters) /\ d \in Seq(Characters)
  BY DEF LocatedMessage, Texts, Characters
<1>2. Len(c) = 1 /\ Len(d) = 2 /\ c[1] = ":" /\ d[1] = ":" /\ d[2] = "space"
  OBVIOUS
<1>3. t = m.name \o c \o m.line \o d \o m.body
  BY DEF Text, LocatedMessage
<1>4. \A i \in 1 .. Len(m.line) : m.line[i] \in Digits
  BY DEF LocatedMessage
<1> HIDE DEF t, c, d
<1>5. FiveParts(Characters, m.name, c, m.line, d, m.body, t)
  BY <1>1, <1>2, <1>3, JoinedOfFive, Zenon
<1> QED BY <1>2, <1>4, <1>5 DEF t, Texts, FiveParts

(* Where the colons around the line number are once the text is stripped.  *)
Place(m) == Len(m.name) + 2 - Min(Ink(Text(m)))
SecondPlace(m) == Place(m) + Len(m.line) + 1

Shows(m, r) ==
  /\ Place(m) \in Nat /\ Place(m) >= 1 /\ SecondPlace(m) \in Nat
  /\ SecondPlace(m) <= Len(r) - 2 /\ SecondPlace(m) >= Place(m) + 2
  /\ r[Place(m)] = ":" /\ r[SecondPlace(m)] = ":" /\ r[SecondPlace(m) + 1] = "space"
  /\ \A i \in Place(m) + 1 .. SecondPlace(m) - 1 :
       i - Place(m) \in 1 .. Len(m.line) /\ r[i] = m.line[i - Place(m)] /\ r[i] \in Digits
  /\ \A i \in 1 .. Place(m) - 1 :
       LET j == i + Len(m.name) + 1 - Place(m)
       IN  j \in 1 .. Len(m.name) /\ r[i] = m.name[j]
  /\ \A i \in SecondPlace(m) + 2 .. Len(r) :
       LET j == i - SecondPlace(m) - 1
       IN  j \in 1 .. Len(m.body) /\ r[i] = m.body[j]
  /\ \A i \in 1 .. Len(m.body) : i > Len(r) - SecondPlace(m) - 1 => m.body[i] = "space"

LEMMA LocatedStripped ==
  ASSUME NEW m, LocatedMessage(m)
  PROVE  /\ ~Blank(Text(m))
         /\ Shows(m, StripWhitespace(Text(m)))
<1> DEFINE t == Text(m)
           n == Len(m.name)
           l == Len(m.line)
           k == Len(m.body)
           r == StripWhitespace(t)
           a == Min(Ink(t))
           z == Max(Ink(t))
<1>1. n \in Nat /\ l \in Nat /\ l > 0 /\ k \in Nat /\ k > 0 /\ m.body[1] # "space"
  BY DEF LocatedMessage, Texts
<1>2. /\ t \in Seq(Characters) /\ Len(t) = n + l + k + 3
      /\ t[n + 1] = ":" /\ t[n + l + 2] = ":" /\ t[n + l + 3] = "space"
  BY LocatedText DEF Texts
<1>3. /\ \A i \in 1 .. n : t[i] = m.name[i]
      /\ \A i \in 1 .. l : t[n + 1 + i] \in Digits /\ t[n + 1 + i] = m.line[i]
      /\ \A i \in 1 .. k : t[n + l + 3 + i] = m.body[i]
  BY LocatedText
<1> HIDE DEF t, n, l, k
<1>4. n + 1 \in 1 .. Len(t) /\ n + l + 4 \in 1 .. Len(t)
  BY <1>1, <1>2
<1>5. t[n + 1] # "space" /\ t[n + l + 4] # "space"
  <2>1. t[n + l + 3 + 1] = m.body[1] /\ n + l + 3 + 1 = n + l + 4
    BY <1>1, <1>3
  <2> QED BY <1>1, <1>2, <2>1
<1>6. ~Blank(t)
  BY <1>2, <1>4, <1>5 DEF Blank
<1>7. /\ a \in 1 .. Len(t) /\ z \in 1 .. Len(t) /\ a <= z
      /\ a <= n + 1 /\ n + l + 4 <= z
      /\ \A i \in 1 .. Len(t) : t[i] # "space" => i <= z
  BY <1>2, <1>4, <1>5, <1>6, InkEnds
<1>8. r \in Seq(Characters) /\ Len(r) = z - a + 1 /\ \A i \in 1 .. Len(r) : r[i] = t[i + (a - 1)]
  BY <1>2, <1>6, StrippedIs
<1> DEFINE p == Place(m)
           q == SecondPlace(m)
<1>9. p = n + 2 - a /\ q = p + l + 1
  BY DEF Place, SecondPlace, t, n, l, a
<1> HIDE DEF r, a, z, p, q
<1>10. /\ a \in Nat /\ p \in Nat /\ q \in Nat /\ Len(r) \in Nat /\ p >= 1 /\ q <= Len(r) - 2 /\ q >= p + 2
       /\ q = n + l + 3 - a
  BY <1>1, <1>2, <1>7, <1>8, <1>9
<1>11. r[p] = ":" /\ r[q] = ":" /\ r[q + 1] = "space"
  <2>1. /\ p + (a - 1) = n + 1 /\ q + (a - 1) = n + l + 2 /\ q + 1 + (a - 1) = n + l + 3
        /\ p \in 1 .. Len(r) /\ q \in 1 .. Len(r) /\ q + 1 \in 1 .. Len(r)
    BY <1>1, <1>7, <1>9, <1>10
  <2> QED BY <1>2, <1>8, <2>1
<1>12. ASSUME NEW i \in p + 1 .. q - 1
       PROVE  i - p \in 1 .. l /\ r[i] = m.line[i - p] /\ r[i] \in Digits
  <2>1. /\ i \in 1 .. Len(r) /\ i - p \in 1 .. l /\ i + (a - 1) = n + 1 + (i - p)
    BY <1>1, <1>9, <1>10
  <2>2. r[i] = t[n + 1 + (i - p)]
    BY <1>8, <2>1
  <2> QED BY <1>3, <2>1, <2>2
<1>13. ASSUME NEW i \in 1 .. p - 1
       PROVE  i + n + 1 - p \in 1 .. n /\ r[i] = m.name[i + n + 1 - p]
  <2>1. i \in 1 .. Len(r) /\ i + n + 1 - p \in 1 .. n /\ i + (a - 1) = i + n + 1 - p
    BY <1>1, <1>7, <1>9, <1>10
  <2>2. r[i] = t[i + n + 1 - p]
    BY <1>8, <2>1
  <2> QED BY <1>3, <2>1, <2>2
<1>14. ASSUME NEW i \in q + 2 .. Len(r)
       PROVE  i - q - 1 \in 1 .. k /\ r[i] = m.body[i - q - 1]
  <2>1. i \in 1 .. Len(r) /\ i - q - 1 \in 1 .. k /\ i + (a - 1) = n + l + 3 + (i - q - 1)
    BY <1>1, <1>2, <1>7, <1>8, <1>9, <1>10
  <2>2. r[i] = t[n + l + 3 + (i - q - 1)]
    BY <1>8, <2>1
  <2> QED BY <1>3, <2>1, <2>2
<1>15. ASSUME NEW i \in 1 .. k, i > Len(r) - q - 1 PROVE m.body[i] = "space"
  <2>1. n + l + 3 + i \in 1 .. Len(t) /\ n + l + 3 + i > z
    BY <1>1, <1>2, <1>7, <1>8, <1>10, <1>15
  <2>2. ~(n + l + 3 + i <= z)
    BY <1>1, <1>7, <2>1
  <2> QED BY <1>3, <1>7, <2>1, <2>2
<1>16. Shows(m, r)
  BY <1>10, <1>11, <1>12, <1>13, <1>14, <1>15 DEF Shows, p, q, n, l, k
<1> QED BY <1>6, <1>16 DEF t, r

-----------------------------------------------------------------------------
(* The search for a location.                                              *)

LEMMA LocationHeld ==
  ASSUME NEW t, NEW i \in DOMAIN t, NEW j \in DOMAIN t, t[i] = ":", t[j] = ":", i + 1 < j,
         \A k \in i + 1 .. j - 1 : t[k] \in Digits, j < Len(t), t[j + 1] = "space"
  PROVE  HoldsLocation(t)
BY Zenon DEF HoldsLocation

LEMMA NextColonIs ==
  ASSUME rest \in Texts, first_colon \in Nat
  PROVE  /\ NextColon \in 0 .. Len(rest)
         /\ NextColon = 0 => \A i \in first_colon + 1 .. Len(rest) : rest[i] # ":"
         /\ NextColon # 0 => /\ first_colon + 1 <= NextColon /\ rest[NextColon] = ":"
                             /\ \A i \in first_colon + 1 .. Len(rest) :
                                  rest[i] = ":" => NextColon <= i
<1>1. first_colon + 1 \in Nat \ {0} /\ rest \in Seq(Characters)
  BY DEF Texts
<1> QED BY <1>1, ColonFound DEF NextColon

(* In a located message with a plain name the search stops at the colons   *)
(* around the line number and nowhere before.                              *)
LEMMA ScanLocated ==
  ASSUME LocatedMessage(meant), ~HoldsLocation(meant.name), rest \in Texts,
         Shows(meant, rest), first_colon \in 1 .. Place(meant), rest[first_colon] = ":"
  PROVE  /\ InReach(first_colon, NextColon)
         /\ IsLocation(first_colon, NextColon) =>
              first_colon = Place(meant) /\ NextColon = SecondPlace(meant)
         /\ ~IsLocation(first_colon, NextColon) => NextColon \in 1 .. Place(meant)
<1> DEFINE f == first_colon
           c == NextColon
           p == Place(meant)
           q == SecondPlace(meant)
           n == Len(meant.name)
<1>1. /\ p \in Nat /\ p >= 1 /\ q \in Nat /\ q <= Len(rest) - 2 /\ q >= p + 2
      /\ rest[p] = ":" /\ rest[q] = ":" /\ rest[q + 1] = "space"
      /\ \A i \in p + 1 .. q - 1 : rest[i] \in Digits
      /\ \A i \in 1 .. p - 1 : i + n + 1 - p \in 1 .. n /\ rest[i] = meant.name[i + n + 1 - p]
  BY DEF Shows
<1>2. /\ c \in 0 .. Len(rest)
      /\ c = 0 => \A i \in f + 1 .. Len(rest) : rest[i] # ":"
      /\ c # 0 => /\ f + 1 <= c /\ rest[c] = ":"
                  /\ \A i \in f + 1 .. Len(rest) : rest[i] = ":" => c <= i
  BY NextColonIs, <1>1
<1>3. Len(rest) \in Nat /\ n \in Nat /\ f \in 1 .. p
  BY DEF Texts, LocatedMessage
<1>4. IsLocation(f, c) <=> /\ f + 1 # c /\ rest[c + 1] = "space"
                           /\ \A i \in f + 1 .. c - 1 : rest[i] \in Digits
  BY DEF IsLocation
<1>5. InReach(f, c) <=> f # 0 /\ f <= Len(rest) - 3 /\ c # 0 /\ c <= Len(rest) - 1
  BY DEF InReach, first_colon_cutoff, next_colon_cutoff
<1>6. ":" \notin Digits /\ "space" \notin Digits
  BY CharAssumption
<1> HIDE DEF f, c, p, q, n
<1>7. CASE f < p
  <2>1. c # 0 /\ c <= p /\ f + 1 <= c /\ rest[c] = ":"
    <3>1. p \in f + 1 .. Len(rest)
      BY <1>1, <1>3, <1>7
    <3> QED BY <1>1, <1>2, <3>1
  <2>2. InReach(f, c)
    BY <1>1, <1>2, <1>3, <1>5, <1>7, <2>1
  <2>3. ASSUME IsLocation(f, c) PROVE FALSE
    <3>1. c # p
      <4>1. p + 1 \in p + 1 .. q - 1
        BY <1>1
      <4> QED BY <1>1, <1>4, <1>6, <2>3, <4>1
    <3>2. c + 1 # p
      BY <1>1, <1>4, <2>3
    <3>3. c + 1 < p /\ f \in 1 .. p - 1 /\ c \in 1 .. p - 1 /\ c + 1 \in 1 .. p - 1
      BY <1>1, <1>2, <1>3, <1>7, <2>1, <3>1, <3>2
    <3> DEFINE i == f + n + 1 - p
               j == c + n + 1 - p
    <3>4. /\ i \in 1 .. n /\ j \in 1 .. n /\ j + 1 \in 1 .. n /\ i + 1 < j
      <4>1. i \in 1 .. n /\ j \in 1 .. n /\ c + 1 + n + 1 - p \in 1 .. n
        BY <1>1, <3>3
      <4>2. c + 1 + n + 1 - p = j + 1 /\ i + 1 < j
        BY <1>1, <1>2, <1>3, <1>4, <2>1, <2>3, <3>3
      <4> QED BY <4>1, <4>2
    <3>5. meant.name[i] = ":" /\ meant.name[j] = ":" /\ meant.name[j + 1] = "space"
      <4>1. meant.name[i] = rest[f] /\ meant.name[j] = rest[c]
        BY <1>1, <3>3
      <4>2. c + 1 + n + 1 - p = j + 1
        BY <1>1, <1>3, <3>3
      <4>3. meant.name[j + 1] = rest[c + 1]
        BY <1>1, <3>3, <4>2
      <4> QED BY <1>4, <2>1, <2>3, <4>1, <4>3 DEF f
    <3>6. ASSUME NEW k \in i + 1 .. j - 1 PROVE meant.name[k] \in Digits
      <4> DEFINE h == k - (n + 1 - p)
      <4>1. h \in f + 1 .. c - 1 /\ h \in 1 .. p - 1 /\ h + n + 1 - p = k
        <5>1. /\ f \in Nat /\ c \in Nat /\ p \in Nat /\ n \in Nat /\ c <= p - 1
              /\ k \in f + n + 1 - p + 1 .. c + n + 1 - p - 1
          BY <1>1, <1>3, <3>3
        <5> QED BY <5>1
      <4> HIDE DEF h
      <4>2. meant.name[k] = rest[h]
        BY <1>1, <4>1
      <4> QED BY <1>4, <2>3, <4>1, <4>2
    <3>7. DOMAIN meant.name = 1 .. n
      BY DEF LocatedMessage, Texts, n
    <3>8. HoldsLocation(meant.name)
      <4>1. j < Len(meant.name) /\ i \in DOMAIN meant.name /\ j \in DOMAIN meant.name
        BY <1>3, <3>4, <3>7 DEF n
      <4> HIDE DEF i, j
      <4> QED BY <3>4, <3>5, <3>6, <4>1, LocationHeld
    <3> QED BY <3>8
  <2>4. c \in 1 .. p
    BY <1>1, <1>2, <1>3, <2>1
  <2> QED BY <2>2, <2>3, <2>4 DEF f, c, p, q
<1>8. CASE f = p
  <2>1. c # 0 /\ c <= q /\ p + 1 <= c /\ rest[c] = ":"
    <3>1. q \in f + 1 .. Len(rest)
      BY <1>1, <1>3, <1>8
    <3> QED BY <1>1, <1>2, <1>8, <3>1
  <2>2. c = q
    <3>1. c \notin p + 1 .. q - 1
      BY <1>1, <1>6, <2>1
    <3> QED BY <1>1, <1>2, <2>1, <3>1
  <2>3. InReach(f, c)
    BY <1>1, <1>3, <1>5, <1>8, <2>2
  <2>4. IsLocation(f, c)
    BY <1>1, <1>4, <1>8, <2>2
  <2> QED BY <1>8, <2>2, <2>3, <2>4 DEF f, c, p, q
<1> QED BY <1>1, <1>3, <1>7, <1>8

(* Where the search stops there is what looks like a location.             *)
LEMMA FoundIsHeld ==
  ASSUME rest \in Texts, first_colon # 0 => first_colon \in 1 .. Len(rest) /\ rest[first_colon] = ":",
         first_colon \in Nat, InReach(first_colon, NextColon), IsLocation(first_colon, NextColon)
  PROVE  HoldsLocation(rest)
<1> DEFINE f == first_colon
           c == NextColon
<1>1. Len(rest) \in Nat /\ DOMAIN rest = 1 .. Len(rest)
  BY DEF Texts
<1>2. c # 0 => c \in 1 .. Len(rest) /\ f + 1 <= c /\ rest[c] = ":"
  BY NextColonIs, <1>1
<1>3. f # 0 /\ c # 0 /\ c <= Len(rest) - 1
  BY DEF InReach, next_colon_cutoff
<1>4. f + 1 # c /\ rest[c + 1] = "space" /\ \A i \in f + 1 .. c - 1 : rest[i] \in Digits
  BY DEF IsLocation
<1>5. f \in 1 .. Len(rest) /\ rest[f] = ":"
  BY <1>3
<1> HIDE DEF f, c
<1>6. /\ f \in DOMAIN rest /\ c \in DOMAIN rest /\ f + 1 < c /\ c < Len(rest)
  BY <1>1, <1>2, <1>3, <1>4, <1>5
<1> QED BY <1>2, <1>3, <1>4, <1>5, <1>6, LocationHeld

LEMMA HeldBeforeStripping ==
  ASSUME NEW t \in Texts, ~Blank(t), HoldsLocation(StripWhitespace(t))
  PROVE  HoldsLocation(t)
<1> DEFINE s == StripWhitespace(t)
           d == Min(Ink(t)) - 1
<1>1. t \in Seq(Characters) /\ Len(t) \in Nat /\ DOMAIN t = 1 .. Len(t)
  BY DEF Texts
<1>2. /\ s \in Seq(Characters) /\ Len(s) \in Nat
      /\ d \in Nat /\ d + Len(s) <= Len(t)
      /\ \A i \in 1 .. Len(s) : s[i] = t[i + d]
  <2>1. /\ s \in Seq(Characters) /\ Len(s) = Max(Ink(t)) - Min(Ink(t)) + 1
        /\ \A i \in 1 .. Len(s) : s[i] = t[i + d]
    BY <1>1, StrippedIs
  <2>2. Min(Ink(t)) \in 1 .. Len(t) /\ Max(Ink(t)) \in 1 .. Len(t)
    BY <1>1, InkEnds
  <2> HIDE DEF s
  <2>3. Len(s) \in Nat
    BY <2>1
  <2> QED BY <1>1, <2>1, <2>2, <2>3
<1> HIDE DEF s, d
<1>3. PICK i, j \in DOMAIN s :
        /\ s[i] = ":" /\ s[j] = ":" /\ i + 1 < j
        /\ \A k \in i + 1 .. j - 1 : s[k] \in Digits
        /\ j < Len(s) /\ s[j + 1] = "space"
  BY DEF HoldsLocation, s
<1>4. i \in 1 .. Len(s) /\ j \in 1 .. Len(s) /\ j + 1 \in 1 .. Len(s)
  BY <1>2, <1>3
<1>5. /\ t[i + d] = ":" /\ t[j + d] = ":" /\ t[j + d + 1] = "space"
      /\ i + d \in 1 .. Len(t) /\ j + d \in 1 .. Len(t) /\ j + d < Len(t)
      /\ (i + d) + 1 < j + d
  <2>1. j + 1 + d = j + d + 1
    BY <1>2, <1>4
  <2>2. t[i + d] = s[i] /\ t[j + d] = s[j] /\ t[j + 1 + d] = s[j + 1]
    BY <1>2, <1>4
  <2>3. /\ i \in Nat /\ j \in Nat /\ d \in Nat /\ Len(s) \in Nat /\ i >= 1 /\ j >= 1
        /\ j < Len(s) /\ i + 1 < j /\ d + Len(s) <= Len(t)
    BY <1>2, <1>3, <1>4
  <2>4. /\ i + d \in 1 .. Len(t) /\ j + d \in 1 .. Len(t) /\ j + d < Len(t)
        /\ (i + d) + 1 < j + d
    BY <1>1, <2>3
  <2> QED BY <1>3, <2>1, <2>2, <2>4
<1>6. ASSUME NEW k \in (i + d) + 1 .. (j + d) - 1 PROVE t[k] \in Digits
  <2> DEFINE h == k - d
  <2>1. h \in i + 1 .. j - 1 /\ h \in 1 .. Len(s) /\ h + d = k
    <3>1. d \in Nat /\ Len(s) \in Nat /\ i \in 1 .. Len(s) /\ j \in 1 .. Len(s)
      BY <1>2, <1>4, Zenon
    <3> HIDE DEF s, d
    <3>2. i \in Nat /\ j \in Nat /\ i >= 1 /\ j <= Len(s)
      BY <3>1
    <3> QED BY <3>1, <3>2
  <2> HIDE DEF h
  <2> QED BY <1>2, <1>3, <2>1
<1> QED BY <1>1, <1>5, <1>6, LocationHeld

(* What the search cuts out.                                               *)
NameFound == SubSeq(rest, 1, first_colon - 1)
LineFound == SubSeq(rest, first_colon + 1, NextColon - 1)
TextFound == SubSeq(rest, NextColon + 2, Len(rest))

LEMMA Cut ==
  ASSUME NEW S, NEW t \in Seq(S), NEW a \in Nat, NEW b \in Nat, a >= 1, b <= Len(t), a <= b + 1
  PROVE  /\ SubSeq(t, a, b) \in Seq(S) /\ Len(SubSeq(t, a, b)) = b - a + 1
         /\ \A i \in 1 .. b - a + 1 : SubSeq(t, a, b)[i] = t[a + i - 1]
<1>1. \A i \in a .. b : t[i] \in S
  OBVIOUS
<1>2. /\ SubSeq(t, a, b) \in Seq(S)
      /\ Len(SubSeq(t, a, b)) = IF a <= b THEN b - a + 1 ELSE 0
      /\ \A i \in 1 .. b - a + 1 : SubSeq(t, a, b)[i] = t[a + i - 1]
  BY <1>1, SubSeqProperties
<1> QED BY <1>2

LEMMA FoundIs ==
  ASSUME rest \in Texts, first_colon \in 1 .. Len(rest), rest[first_colon] = ":",
         rest[Len(rest)] # "space",
         InReach(first_colon, NextColon), IsLocation(first_colon, NextColon)
  PROVE  /\ NameFound \in Texts /\ Len(NameFound) = first_colon - 1
         /\ \A i \in 1 .. Len(NameFound) : NameFound[i] = rest[i]
         /\ LineFound \in Seq(Digits) /\ Len(LineFound) = NextColon - first_colon - 1
         /\ Len(LineFound) > 0
         /\ \A i \in 1 .. Len(LineFound) : LineFound[i] = rest[first_colon + i]
         /\ TextFound \in Texts /\ Len(TextFound) = Len(rest) - NextColon - 1
         /\ Len(TextFound) > 0 /\ ~Blank(TextFound)
         /\ \A i \in 1 .. Len(TextFound) : TextFound[i] = rest[NextColon + 1 + i]
<1> DEFINE f == first_colon
           c == NextColon
           u == NameFound
           v == LineFound
           w == TextFound
           z == Len(rest)
<1>1. rest \in Seq(Characters) /\ z \in Nat /\ f \in 1 .. z
  BY DEF Texts
<1>2. c # 0 /\ c <= z - 1 /\ f + 1 # c /\ rest[c + 1] = "space"
      /\ \A i \in f + 1 .. c - 1 : rest[i] \in Digits
  BY DEF InReach, IsLocation, next_colon_cutoff
<1>3. c \in Nat /\ f + 1 < c
  BY <1>1, <1>2, NextColonIs
<1>4. c + 1 # z /\ c + 2 <= z
  BY <1>1, <1>2, <1>3
<1>5. u = SubSeq(rest, 1, f - 1) /\ v = SubSeq(rest, f + 1, c - 1) /\ w = SubSeq(rest, c + 2, z)
  BY DEF NameFound, LineFound, TextFound
<1> HIDE DEF f, c, u, v, w, z
<1>6. u \in Seq(Characters) /\ Len(u) = f - 1 /\ \A i \in 1 .. Len(u) : u[i] = rest[i]
  <2>1. f - 1 \in Nat /\ f - 1 <= Len(rest) /\ 1 <= f - 1 + 1 /\ f - 1 - 1 + 1 = f - 1
    BY <1>1 DEF z
  <2>2. \A i \in 1 .. f - 1 : 1 + i - 1 = i
    BY <1>1
  <2> QED BY <1>1, <1>5, <2>1, <2>2, Cut
<1>7. Len(v) = c - f - 1 /\ Len(v) > 0 /\ \A i \in 1 .. Len(v) : v[i] = rest[f + i]
  <2>1. /\ f + 1 \in Nat /\ c - 1 \in Nat /\ f + 1 >= 1 /\ c - 1 <= Len(rest)
        /\ f + 1 <= c - 1 + 1 /\ c - 1 - (f + 1) + 1 = c - f - 1 /\ c - f - 1 > 0
    BY <1>1, <1>2, <1>3 DEF z
  <2>2. \A i \in 1 .. c - f - 1 : f + 1 + i - 1 = f + i
    BY <1>1, <1>3
  <2> QED BY <1>1, <1>5, <2>1, <2>2, Cut
<1>8. v \in Seq(Digits)
  <2>1. v \in Seq(Characters)
    <3>1. f + 1 \in Nat /\ c - 1 \in Nat /\ f + 1 >= 1 /\ c - 1 <= Len(rest) /\ f + 1 <= c - 1 + 1
      BY <1>1, <1>2, <1>3 DEF z
    <3> QED BY <1>1, <1>5, <3>1, Cut
  <2>2. ASSUME NEW i \in 1 .. Len(v) PROVE v[i] \in Digits
    <3>1. f + i \in f + 1 .. c - 1
      BY <1>1, <1>3, <1>7
    <3> QED BY <1>2, <1>7, <3>1
  <2> QED BY <2>1, <2>2
<1>9. /\ w \in Seq(Characters) /\ Len(w) = z - c - 1 /\ Len(w) > 0
      /\ \A i \in 1 .. Len(w) : w[i] = rest[c + 1 + i]
  <2>1. /\ c + 2 \in Nat /\ c + 2 >= 1 /\ z <= Len(rest) /\ z \in Nat
        /\ c + 2 <= z + 1 /\ z - (c + 2) + 1 = z - c - 1 /\ z - c - 1 > 0
    BY <1>1, <1>3, <1>4 DEF z
  <2>2. \A i \in 1 .. z - c - 1 : c + 2 + i - 1 = c + 1 + i
    BY <1>1, <1>3
  <2> QED BY <1>1, <1>5, <2>1, <2>2, Cut
<1>10. ~Blank(w)
  <2>1. Len(w) \in 1 .. Len(w) /\ c + 1 + Len(w) = z
    BY <1>1, <1>3, <1>9
  <2>2. w[Len(w)] # "space"
    BY <1>9, <2>1 DEF z
  <2> QED BY <1>9, <2>1, <2>2 DEF Blank
<1> QED BY <1>6, <1>7, <1>8, <1>9, <1>10 DEF f, c, u, v, w, z, Texts

(* A located message is cut where glslang put it together.                 *)
LEMMA FoundLocated ==
  ASSUME LocatedMessage(meant), meant.name = <<>> \/ meant.name[1] # "space",
         rest \in Texts, Shows(meant, rest), rest[Len(rest)] # "space",
         InReach(first_colon, NextColon), IsLocation(first_colon, NextColon),
         first_colon = Place(meant), NextColon = SecondPlace(meant)
  PROVE  /\ NameFound = meant.name /\ LineFound = meant.line
         /\ StripWhitespace(TextFound) = StripWhitespace(meant.body)
<1> DEFINE t == Text(meant)
           n == Len(meant.name)
           l == Len(meant.line)
           b == meant.body
           p == Place(meant)
           q == SecondPlace(meant)
           u == NameFound
           v == LineFound
           w == TextFound
<1>1. /\ meant.name \in Seq(Characters) /\ meant.line \in Seq(Digits) /\ b \in Seq(Characters)
      /\ n \in Nat /\ l \in Nat /\ Len(b) > 0 /\ b[1] # "space" /\ Len(b) \in Nat
  BY DEF LocatedMessage, Texts
<1>2. p = n + 1
  <2>1. t \in Seq(Characters) /\ Len(t) \in Nat /\ n + 1 <= Len(t)
    <3>1. t \in Texts /\ Len(t) = n + l + Len(b) + 3
      BY LocatedText
    <3>2. n \in Nat /\ l \in Nat /\ Len(b) \in Nat
      BY <1>1
    <3> HIDE DEF n, l, b, t
    <3> QED BY <3>1, <3>2 DEF Texts
  <2>2. t[1] # "space"
    <3>1. CASE meant.name = <<>>
      <4>1. t[n + 1] = ":" /\ n = 0
        BY LocatedText, <3>1
      <4> QED BY <4>1
    <3>2. CASE meant.name # <<>>
      <4>1. 1 \in 1 .. n
        BY <1>1, <3>2
      <4>2. t[1] = meant.name[1]
        BY LocatedText, <4>1
      <4> QED BY <3>2, <4>2
    <3> QED BY <3>1, <3>2
  <2>3. 1 \in 1 .. Len(t) /\ ~Blank(t)
    BY <1>1, <2>1, <2>2 DEF Blank
  <2>4. Min(Ink(t)) \in 1 .. Len(t) /\ Min(Ink(t)) <= 1
    BY <2>1, <2>2, <2>3, InkEnds
  <2>5. Min(Ink(t)) = 1
    BY <2>1, <2>4
  <2> QED BY <1>1, <2>5 DEF Place
<1>3. /\ q = p + l + 1 /\ q <= Len(rest) - 2 /\ Len(rest) \in Nat
      /\ \A i \in p + 1 .. q - 1 : rest[i] = meant.line[i - p]
      /\ \A i \in 1 .. p - 1 : rest[i] = meant.name[i + n + 1 - p]
      /\ \A i \in q + 2 .. Len(rest) : i - q - 1 \in 1 .. Len(b) /\ rest[i] = b[i - q - 1]
      /\ \A i \in 1 .. Len(b) : i > Len(rest) - q - 1 => b[i] = "space"
  BY DEF Shows, SecondPlace, Texts
<1> HIDE DEF t, n, l, b, p, q, u, v, w
<1>4. /\ n \in Nat /\ l \in Nat /\ p \in Nat /\ q \in Nat /\ Len(rest) \in Nat
      /\ p = n + 1 /\ q = n + l + 2 /\ q <= Len(rest) - 2
  BY <1>1, <1>2, <1>3
<1>5. p \in 1 .. Len(rest) /\ rest[p] = ":"
  <2>1. rest[p] = ":"
    BY DEF Shows, p
  <2> QED BY <1>4, <2>1
<1>6. /\ u \in Seq(Characters) /\ Len(u) = p - 1 /\ \A i \in 1 .. Len(u) : u[i] = rest[i]
      /\ v \in Seq(Digits) /\ Len(v) = q - p - 1 /\ \A i \in 1 .. Len(v) : v[i] = rest[p + i]
      /\ w \in Seq(Characters) /\ Len(w) = Len(rest) - q - 1 /\ Len(w) > 0
      /\ \A i \in 1 .. Len(w) : w[i] = rest[q + 1 + i]
  BY FoundIs, <1>5 DEF Texts, p, q, u, v, w
<1>7. Len(u) = p - 1 /\ Len(v) = q - p - 1 /\ Len(w) = Len(rest) - q - 1
  BY <1>6
<1>8. u = meant.name
  <2>1. Len(u) = Len(meant.name)
    BY <1>4, <1>7 DEF n
  <2>2. ASSUME NEW i \in 1 .. Len(u) PROVE u[i] = meant.name[i]
    <3>1. i \in 1 .. p - 1 /\ i + n + 1 - p = i
      BY <1>4, <1>7
    <3> QED BY <1>3, <1>6, <3>1
  <2> QED BY <1>1, <1>6, <2>1, <2>2, SeqEqual
<1>9. v = meant.line
  <2>1. Len(v) = Len(meant.line)
    BY <1>4, <1>7 DEF l
  <2>2. ASSUME NEW i \in 1 .. Len(v) PROVE v[i] = meant.line[i]
    <3> DEFINE h == p + i
    <3>1. h \in p + 1 .. q - 1 /\ h - p = i
      BY <1>4, <1>7
    <3>2. v[i] = rest[h]
      BY <1>6
    <3> HIDE DEF h
    <3>3. rest[h] = meant.line[h - p]
      BY <1>3, <3>1
    <3> QED BY <3>1, <3>2, <3>3
  <2> QED BY <1>1, <1>6, <2>1, <2>2, SeqEqual
<1>10. ASSUME NEW i \in 1 .. Len(w) PROVE i \in 1 .. Len(b) /\ w[i] = b[i]
  <2> DEFINE h == q + 1 + i
  <2>1. h \in q + 2 .. Len(rest) /\ h - q - 1 = i
    BY <1>4, <1>7
  <2>2. w[i] = rest[h]
    BY <1>6
  <2> HIDE DEF h
  <2>3. h - q - 1 \in 1 .. Len(b) /\ rest[h] = b[h - q - 1]
    BY <1>3, <2>1
  <2> QED BY <2>1, <2>2, <2>3
<1>11. Len(w) \in Nat /\ 1 \in 1 .. Len(w) /\ Len(w) \in 1 .. Len(w)
  BY <1>6
<1>12. w[1] # "space" /\ w[Len(w)] # "space"
  <2>1. w[1] = b[1]
    BY <1>10, <1>11
  <2>2. q + 1 + Len(w) = Len(rest)
    BY <1>4, <1>7
  <2>3. w[Len(w)] = rest[Len(rest)]
    BY <1>6, <1>11, <2>2
  <2> QED BY <1>1, <2>1, <2>3
<1>13. StripWhitespace(w) = w
  BY <1>6, <1>12, NothingToStrip
<1>14. Min(Ink(b)) = 1 /\ Max(Ink(b)) = Len(w) /\ ~Blank(b)
  <2>1. 1 \in 1 .. Len(b) /\ Len(w) \in 1 .. Len(b) /\ b[1] # "space" /\ b[Len(w)] # "space"
    BY <1>1, <1>10, <1>11, <1>12
  <2>2. \A i \in 1 .. Len(b) : b[i] # "space" => 1 <= i /\ i <= Len(w)
    BY <1>1, <1>3, <1>6, <1>11
  <2> QED BY <1>1, <2>1, <2>2, InkEndsAre
<1> DEFINE x == StripWhitespace(b)
<1>15. /\ x \in Seq(Characters) /\ Len(x) = Max(Ink(b)) - Min(Ink(b)) + 1
       /\ \A i \in 1 .. Len(x) : x[i] = b[i + (Min(Ink(b)) - 1)]
  BY <1>1, <1>14, StrippedIs
<1> HIDE DEF x
<1>16. x = w
  <2>1. Len(x) = Len(w)
    BY <1>11, <1>14, <1>15
  <2>2. \A i \in 1 .. Len(x) : i + (1 - 1) = i
    BY <1>11, <2>1
  <2>3. \A i \in 1 .. Len(x) : x[i] = w[i]
    BY <1>10, <1>14, <1>15, <2>1, <2>2
  <2> QED BY <1>6, <1>15, <2>1, <2>3, SeqEqual
<1> QED BY <1>8, <1>9, <1>13, <1>16 DEF u, v, w, x, b

-----------------------------------------------------------------------------
(* The messages.                                                           *)

Messages == [prefix : {"ERROR:", "WARNING:", "Warning,", "other"},
             rest : {"located", "global", "summary", "ignorable"},
             name : Texts, line : Seq(Digits), body : Texts]

LEMMA CharactersOf ==
  ASSUME NEW S, S \subseteq Characters, NEW n \in Nat, NEW t \in SeqOf(S, n)
  PROVE  t \in Texts
<1>1. t \in Seq(S)
  BY SeqOfIs
<1> QED BY <1>1 DEF Texts

LEMMA LocatedIs ==
  ASSUME NEW m \in Located
  PROVE  m \in Messages /\ LocatedMessage(m) /\ m.prefix \in {"ERROR:", "WARNING:"}
<1> DEFINE Names == SeqOf(NameChars, MaxName)
           Lines == SeqOf(Digits, MaxLine) \ {<<>>}
           Bodies == {b \in SeqOf(BodyChars, MaxBody) : b # <<>> /\ b[1] # "space"}
<1>1. \A x \in Names : x \in Texts
  BY CharactersOf, BoundAssumption DEF Characters
<1>2. \A x \in Lines : x \in Seq(Digits) /\ Len(x) > 0
  <2>1. \A x \in Lines : x \in Seq(Digits) /\ x # <<>>
    BY SeqOfIs, BoundAssumption
  <2> QED BY <2>1
<1>3. \A x \in Bodies : x \in Texts /\ Len(x) > 0 /\ x[1] # "space"
  <2>1. \A x \in Bodies : x \in Texts /\ x # <<>> /\ x[1] # "space"
    BY CharactersOf, BoundAssumption DEF Characters
  <2> QED BY <2>1 DEF Texts
<1>4. m \in [prefix : {"ERROR:", "WARNING:"}, rest : {"located"},
             name : Names, line : Lines, body : Bodies]
  BY DEF Located
<1> HIDE DEF Names, Lines, Bodies
<1>5. /\ m.prefix \in {"ERROR:", "WARNING:"} /\ m.rest = "located"
      /\ m.name \in Names /\ m.line \in Lines /\ m.body \in Bodies
      /\ m = [prefix |-> m.prefix, rest |-> m.rest, name |-> m.name, line |-> m.line, body |-> m.body]
  BY <1>4
<1>6. m \in Messages
  BY <1>1, <1>2, <1>3, <1>5 DEF Messages
<1> QED BY <1>1, <1>2, <1>3, <1>5, <1>6 DEF LocatedMessage

LEMMA UnlocatedIs ==
  ASSUME NEW m \in Unlocated
  PROVE  /\ m \in Messages /\ m.rest \in {"global", "summary"} /\ m.body \notin {<<>>, <<"V">>}
         /\ m.prefix = "Warning," => m.rest = "global" /\ ~Blank(m.body)
         /\ m.prefix \in {"ERROR:", "WARNING:"} =>
              m.rest = IF IsTotal(StripWhitespace(m.body)) THEN "summary" ELSE "global"
<1> DEFINE Bodies == SeqOf(BodyChars, MaxGlobal) \ {<<>>}
<1>1. ASSUME NEW t \in Bodies PROVE t \in Texts /\ t \notin {<<>>, <<"V">>}
  <2>1. t \in Seq(BodyChars) /\ t # <<>>
    BY SeqOfIs, BoundAssumption
  <2>2. t # <<"V">>
    BY <2>1, CharAssumption
  <2> QED BY <2>1, <2>2 DEF Texts, Characters
<1>2. <<>> \in Texts /\ <<>> \in Seq(Digits)
  BY DEF Texts
<1>3. /\ m \in [prefix : {"ERROR:", "WARNING:", "Warning,", "other"}, rest : {"global", "summary"},
                 name : {<<>>}, line : {<<>>}, body : Bodies]
      /\ IF m.prefix = "Warning," THEN m.rest = "global" /\ ~Blank(m.body)
         ELSE (m.rest = "summary") <=> IsTotal(StripWhitespace(m.body))
  BY DEF Unlocated
<1> HIDE DEF Bodies
<1>4. m \in Messages
  BY <1>1, <1>2, <1>3 DEF Messages
<1>5. m.rest \in {"global", "summary"} /\ m.body \notin {<<>>, <<"V">>}
  BY <1>1, <1>3
<1> QED BY <1>3, <1>4, <1>5

LEMMA IgnoredIs ==
  ASSUME NEW p, NEW t
  PROVE  <<p, t>> \in IgnoredErrorStrings <=>
           \/ p = "Warning," /\ t = <<"V">>
           \/ p = "other" /\ t \in {<<"V">>, <<>>}
BY DEF IgnoredErrorStrings

LEMMA ListedIs ==
  ASSUME NEW m \in Listed
  PROVE  m \in Messages /\ m.rest = "ignorable" /\ <<m.prefix, Text(m)>> \in IgnoredErrorStrings
<1>1. PICK s \in IgnoredErrorStrings :
        m = [prefix |-> s[1], rest |-> "ignorable", name |-> <<>>, line |-> <<>>, body |-> s[2]]
  BY DEF Listed
<1>2. PICK p, t : s = <<p, t>>
  BY DEF IgnoredErrorStrings
<1>3. m.prefix = p /\ m.rest = "ignorable" /\ m.body = t /\ Text(m) = t
  BY <1>1, <1>2 DEF Text
<1>4. <<p, t>> \in IgnoredErrorStrings
  BY <1>2
<1>5. p \in {"Warning,", "other"} /\ t \in {<<"V">>, <<>>}
  BY <1>4, IgnoredIs
<1>6. <<"V">> \in Texts /\ <<>> \in Texts /\ <<>> \in Seq(Digits)
  BY DEF Texts, Characters
<1>7. m \in Messages
  BY <1>1, <1>2, <1>5, <1>6 DEF Messages
<1> QED BY <1>3, <1>4, <1>7

(* All that the proofs use of what glslang writes.                         *)
Meant == Located \cup Unlocated \cup Listed

LEMMA MeantIs ==
  ASSUME NEW m \in Meant
  PROVE  /\ m \in Messages /\ Text(m) \in Texts
         /\ m.rest = "located" => LocatedMessage(m) /\ m.prefix \in {"ERROR:", "WARNING:"}
         /\ m.rest # "located" => Text(m) = m.body
         /\ m.rest = "ignorable" <=> <<m.prefix, Text(m)>> \in IgnoredErrorStrings
         /\ m.prefix = "Warning," /\ m.rest # "ignorable" => m.rest = "global" /\ ~Blank(Text(m))
         /\ m.prefix \in {"ERROR:", "WARNING:"} /\ m.rest # "located" =>
              m.rest = IF IsTotal(StripWhitespace(m.body)) THEN "summary" ELSE "global"
<1>1. CASE m \in Located
  <2>1. m \in Messages /\ LocatedMessage(m) /\ m.prefix \in {"ERROR:", "WARNING:"}
    BY <1>1, LocatedIs
  <2>2. m.rest = "located" /\ Text(m) \in Texts
    BY <2>1, LocatedText DEF LocatedMessage
  <2>3. <<m.prefix, Text(m)>> \notin IgnoredErrorStrings
    BY <2>1, IgnoredIs
  <2> QED BY <2>1, <2>2, <2>3
<1>2. CASE m \in Unlocated
  <2>1. /\ m \in Messages /\ m.rest \in {"global", "summary"} /\ m.body \notin {<<>>, <<"V">>}
        /\ m.prefix = "Warning," => m.rest = "global" /\ ~Blank(m.body)
        /\ m.prefix \in {"ERROR:", "WARNING:"} =>
             m.rest = IF IsTotal(StripWhitespace(m.body)) THEN "summary" ELSE "global"
    BY <1>2, UnlocatedIs
  <2>2. Text(m) = m.body /\ m.body \in Texts
    BY <2>1 DEF Text, Messages
  <2>3. <<m.prefix, Text(m)>> \notin IgnoredErrorStrings
    BY <2>1, <2>2, IgnoredIs
  <2> QED BY <2>1, <2>2, <2>3
<1>3. CASE m \in Listed
  <2>1. m \in Messages /\ m.rest = "ignorable" /\ <<m.prefix, Text(m)>> \in IgnoredErrorStrings
    BY <1>3, ListedIs
  <2>2. Text(m) = m.body /\ m.body \in Texts
    BY <2>1 DEF Text, Messages
  <2>3. m.prefix \notin {"ERROR:", "WARNING:"}
    BY <2>1, IgnoredIs
  <2> QED BY <2>1, <2>2, <2>3
<1> QED BY <1>1, <1>2, <1>3 DEF Meant

(* The total that ends a failed parse is recognized as such.               *)
LEMMA SummaryIsTotal ==
  ASSUME NEW t \in Texts, Len(t) > 0, t[1] # "space"
  PROVE  IsSummaryMessage(t) <=> IsTotal(t)
<1>1. Len(t) \in Nat /\ DOMAIN t = 1 .. Len(t)
  BY DEF Texts
<1>2. ASSUME IsSummaryMessage(t) PROVE IsTotal(t)
  <2>1. PICK s \in 1 .. Len(t) : /\ t[s] = "space" /\ \A i \in 1 .. s - 1 : t[i] \in Digits
                                  /\ s < Len(t) /\ t[s + 1] = "C"
    BY <1>1, <1>2 DEF IsSummaryMessage
  <2>2. s - 1 \in 1 .. Len(t) - 2 /\ s - 1 + 1 = s /\ s - 1 + 2 = s + 1
    BY <1>1, <2>1
  <2> QED BY <2>1, <2>2 DEF IsTotal
<1>3. ASSUME IsTotal(t) PROVE IsSummaryMessage(t)
  <2>1. PICK n \in 1 .. Len(t) - 2 : /\ \A i \in 1 .. n : t[i] \in Digits
                                      /\ t[n + 1] = "space" /\ t[n + 2] = "C"
    BY <1>3 DEF IsTotal
  <2>2. n + 1 \in DOMAIN t /\ n + 1 - 1 = n /\ n + 1 < Len(t) /\ n + 1 + 1 = n + 2
    BY <1>1
  <2> QED BY <2>1, <2>2 DEF IsSummaryMessage
<1> QED BY <1>2, <1>3

-----------------------------------------------------------------------------
(* The inductive invariant.                                                *)

PlainLocated == meant.rest = "located" /\ Plain

(* Before the type is known nothing of the result is; before the message   *)
(* is printed nothing is counted.                                          *)
NothingYet ==
  /\ pc \notin {"print", "done"} => type = "none" /\ source_name = <<>> /\ line_number = <<>>
  /\ pc # "done" => totals = [warnings |-> 0, errors |-> 0] /\ printed.what = "nothing"

(* Only errors and warnings that are wanted are searched, never a string   *)
(* that is skipped, and what is searched is the stripped text.             *)
Searched ==
  /\ pc \notin {"list", "done"} => meant.rest # "ignorable"
  /\ pc \in {"strip", "scan", "global"} =>
       /\ meant.prefix \in {"ERROR:", "WARNING:"}
       /\ meant.prefix = "ERROR:" \/ ~suppress_warnings
  /\ pc = "strip" => rest = Text(meant)
  /\ pc \in {"scan", "global"} => rest = StripWhitespace(Text(meant)) /\ ~Blank(Text(meant))

(* The search looks at one colon after the other and, if the name and the  *)
(* text do not mislead it, passes no location that was meant.              *)
Scanned ==
  /\ pc = "scan" =>
       /\ Len(rest) > 4
       /\ first_colon # 0 => first_colon \in 1 .. Len(rest) /\ rest[first_colon] = ":"
       /\ PlainLocated => first_colon \in 1 .. Place(meant)
  /\ pc = "global" => ~PlainLocated

(* What is known when the message is printed.                              *)
AnswerFits ==
  /\ type # "none"
  /\ ~Blank(Text(meant)) /\ Plain => type = MessageType(meant, warnings_as_errors, suppress_warnings)
  /\ type \in {"Error", "Warning"} => line_number # <<>> /\ ~Blank(rest)
  /\ type \in {"GlobalError", "GlobalWarning"} => line_number = <<>> /\ ~Blank(rest)
  /\ /\ PlainLocated /\ (meant.name = <<>> \/ meant.name[1] # "space")
     /\ type \in {"Error", "Warning"}
     => /\ source_name = meant.name /\ line_number = meant.line
        /\ StripWhitespace(rest) = StripWhitespace(meant.body)

IInv ==
  /\ TypeOK /\ meant \in Meant
  /\ NothingYet /\ Searched /\ Scanned
  /\ pc = "print" => AnswerFits
  /\ LocationIsTheOneMeant /\ ClassifiedAsMeant /\ NothingIsLost

LEMMA TextsHaveNone == <<>> \in Texts /\ <<>> \in Seq(Digits)
BY DEF Texts

LEMMA InitIInv == Init => IInv
<1> SUFFICES ASSUME Init PROVE IInv
  OBVIOUS
<1> USE DEF Init
<1>1. meant \in Meant /\ meant \in Messages /\ Text(meant) \in Texts
  <2>1. meant \in Meant
    BY DEF Meant
  <2> QED BY <2>1, MeantIs
<1>2. TypeOK
  <2>1. Len(Text(meant)) \in Nat
    BY <1>1 DEF Texts
  <2>2. printed \in [name : Texts \cup {CommandLine}, line : Seq(Digits), rest : Texts,
                     what : {"nothing", "error", "warning", "message"}]
    BY TextsHaveNone
  <2>3. totals \in [warnings : 0 .. 1, errors : 0 .. 1] /\ first_colon \in 0 .. Len(Text(meant))
    BY <2>1
  <2>4. /\ pc = "list" /\ type = "none" /\ source_name \in Texts /\ line_number \in Seq(Digits)
        /\ rest \in Texts
    BY TextsHaveNone
  <2> QED BY <1>1, <2>2, <2>3, <2>4 DEF TypeOK, Messages
<1>3. NothingYet /\ Searched /\ Scanned
  BY DEF NothingYet, Searched, Scanned
<1>4. pc # "done" /\ pc # "print"
  OBVIOUS
<1> QED BY <1>1, <1>2, <1>3, <1>4 DEF IInv, LocationIsTheOneMeant, ClassifiedAsMeant, NothingIsLost

-----------------------------------------------------------------------------
(* Each step.                                                              *)

LEMMA CountOfOne ==
  ASSUME NEW log, Len(log) = 1, DOMAIN log = {1}, NEW T, NEW w, NEW s
  PROVE  /\ log[1].rest # "ignorable" /\ MessageType(log[1], w, s) \in T => CountTypes(log, T, w, s) = 1
         /\ log[1].rest = "ignorable" \/ MessageType(log[1], w, s) \notin T => CountTypes(log, T, w, s) = 0
<1> DEFINE C == {i \in DOMAIN log : log[i].rest # "ignorable" /\ MessageType(log[i], w, s) \in T}
<1>1. CountTypes(log, T, w, s) = Cardinality(C)
  BY DEF CountTypes
<1>2. log[1].rest # "ignorable" /\ MessageType(log[1], w, s) \in T => C = {1}
  OBVIOUS
<1>3. log[1].rest = "ignorable" \/ MessageType(log[1], w, s) \notin T => C = {}
  OBVIOUS
<1> HIDE DEF C
<1>4. Cardinality({1}) = 1 /\ Cardinality({}) = 0
  BY FS_Singleton, FS_EmptySet
<1> QED BY <1>1, <1>2, <1>3, <1>4

(* What CompilePipeline counts for one message.                            *)
Errors1 == NewErrors(<<meant>>, warnings_as_errors, suppress_warnings)
Warnings1 == NewWarnings(<<meant>>, warnings_as_errors, suppress_warnings)

LEMMA CountedAsMeant ==
  LET T == MessageType(meant, warnings_as_errors, suppress_warnings)
  IN  /\ meant.rest = "ignorable" => Errors1 = 0 /\ Warnings1 = 0
      /\ meant.rest # "ignorable" =>
           /\ T \in {"Error", "GlobalError"} => Errors1 = 1
           /\ T \notin {"Error", "GlobalError"} => Errors1 = 0
           /\ T \in {"Warning", "GlobalWarning"} => Warnings1 = 1
           /\ T \notin {"Warning", "GlobalWarning"} => Warnings1 = 0
<1> DEFINE log == <<meant>>
           E == {"Error", "GlobalError"}
           W == {"Warning", "GlobalWarning"}
           T == MessageType(meant, warnings_as_errors, suppress_warnings)
<1>1. Len(log) = 1 /\ DOMAIN log = {1} /\ log[1] = meant
  OBVIOUS
<1>2. /\ Errors1 = CountTypes(log, E, warnings_as_errors, suppress_warnings)
      /\ Warnings1 = CountTypes(log, W, warnings_as_errors, suppress_warnings)
  BY Zenon DEF Errors1, Warnings1, NewErrors, NewWarnings
<1> HIDE DEF log, E, W, T
<1>3. /\ meant.rest # "ignorable" /\ T \in E => Errors1 = 1
      /\ meant.rest = "ignorable" \/ T \notin E => Errors1 = 0
  BY <1>1, <1>2, CountOfOne DEF T
<1>4. /\ meant.rest # "ignorable" /\ T \in W => Warnings1 = 1
      /\ meant.rest = "ignorable" \/ T \notin W => Warnings1 = 0
  BY <1>1, <1>2, CountOfOne DEF T
<1> QED BY <1>3, <1>4 DEF E, W, T

(* Before the end the properties say nothing.                              *)
LEMMA NotDoneYet ==
  ASSUME (TypeOK /\ meant \in Meant /\ NothingYet /\ Searched /\ Scanned)',
         pc' = "print" => AnswerFits', pc' # "done"
  PROVE  IInv'
BY DEF IInv, LocationIsTheOneMeant, ClassifiedAsMeant, NothingIsLost

Points == {"list", "type", "strip", "scan", "global", "print", "done"}
Types == {"none", "Warning", "Error", "ErrorSummary", "WarningSummary",
          "GlobalWarning", "GlobalError", "Unknown", "Ignored"}

(* The part of TypeOK that the steps before the last disturb.              *)
Typed == /\ pc \in Points /\ type \in Types
         /\ source_name \in Texts /\ line_number \in Seq(Digits) /\ rest \in Texts
         /\ first_colon \in 0 .. Len(Text(meant))

LEMMA TypedNow == TypeOK => Typed
BY DEF TypeOK, Typed, Points, Types

LEMMA TypesStay ==
  ASSUME TypeOK, meant' = meant, file_name' = file_name, warnings_as_errors' = warnings_as_errors,
         suppress_warnings' = suppress_warnings, totals' = totals, printed' = printed, Typed'
  PROVE  TypeOK'
<1>1. /\ meant' \in Messages /\ file_name' \in FileNames
      /\ warnings_as_errors' \in BOOLEAN /\ suppress_warnings' \in BOOLEAN
  BY DEF TypeOK, Messages
<1>2. /\ totals' \in [warnings : 0 .. 1, errors : 0 .. 1]
      /\ printed' \in [name : Texts \cup {CommandLine}, line : Seq(Digits), rest : Texts,
                       what : {"nothing", "error", "warning", "message"}]
  BY DEF TypeOK
<1> QED BY <1>1, <1>2, Zenon DEF TypeOK, Typed, Points, Types, Messages

LEMMA SkipListedKeeps == IInv /\ SkipListed => IInv'
<1> SUFFICES ASSUME IInv, SkipListed PROVE IInv'
  OBVIOUS
<1>1. TypeOK /\ meant \in Meant /\ NothingYet /\ Searched /\ Scanned
  BY DEF IInv
<1>2. /\ pc = "list" /\ pc' = IF <<meant.prefix, Text(meant)>> \in IgnoredErrorStrings THEN "done" ELSE "type"
      /\ UNCHANGED <<meant, file_name, warnings_as_errors, suppress_warnings, source_name,
                     line_number, rest, first_colon, type, totals, printed>>
  BY Zenon DEF SkipListed, Goto, arguments, parsed
<1>3. pc' = IF meant.rest = "ignorable" THEN "done" ELSE "type"
  <2>1. meant.rest = "ignorable" <=> <<meant.prefix, Text(meant)>> \in IgnoredErrorStrings
    BY <1>1, MeantIs
  <2> QED BY <1>2, <2>1, Zenon
<1>4. TypeOK'
  <2>1. Typed'
    BY <1>1, <1>2, <1>3, TypedNow DEF Typed, Points
  <2> QED BY <1>1, <1>2, <2>1, TypesStay
<1>5. meant' \in Meant /\ NothingYet' /\ Searched' /\ Scanned'
  BY <1>1, <1>2, <1>3 DEF NothingYet, Searched, Scanned
<1>6. CASE pc' = "type"
  BY <1>4, <1>5, <1>6, NotDoneYet
<1>7. CASE pc' = "done"
  <2>1. meant.rest = "ignorable" /\ totals = [warnings |-> 0, errors |-> 0] /\ printed.what = "nothing"
    BY <1>1, <1>2, <1>3, <1>7 DEF NothingYet
  <2>2. Errors1 = 0 /\ Warnings1 = 0
    BY <2>1, CountedAsMeant
  <2>3. ClassifiedAsMeant'
    BY <1>2, <2>1, <2>2 DEF ClassifiedAsMeant, Errors1, Warnings1
  <2>4. LocationIsTheOneMeant' /\ NothingIsLost'
    BY <1>2, <2>1 DEF LocationIsTheOneMeant, NothingIsLost
  <2> QED BY <1>4, <1>5, <1>7, <2>3, <2>4 DEF IInv
<1> QED BY <1>3, <1>6, <1>7

LEMMA DeduceMessageTypeKeeps == IInv /\ DeduceMessageType => IInv'
<1> SUFFICES ASSUME IInv, DeduceMessageType PROVE IInv'
  OBVIOUS
<1> DEFINE T == MessageType(meant, warnings_as_errors, suppress_warnings)
<1>1. TypeOK /\ meant \in Meant /\ NothingYet /\ Searched /\ Scanned
  BY DEF IInv
<1>2. /\ pc = "type" /\ rest' = Text(meant)
      /\ UNCHANGED <<meant, file_name, warnings_as_errors, suppress_warnings, source_name,
                     line_number, first_colon, totals, printed>>
  BY DEF DeduceMessageType, arguments
<1>3. /\ Text(meant) \in Texts /\ meant.rest # "ignorable"
      /\ meant.rest \in {"located", "global", "summary"}
      /\ meant.prefix \in {"ERROR:", "WARNING:", "Warning,", "other"}
      /\ meant.prefix = "Warning," => meant.rest = "global" /\ ~Blank(Text(meant))
      /\ meant.rest = "located" => meant.prefix \in {"ERROR:", "WARNING:"}
  <2>1. meant.rest # "ignorable"
    BY <1>1, <1>2 DEF Searched
  <2> QED BY <1>1, <2>1, MeantIs DEF Messages
<1>4. \/ pc' = "print" /\ meant.prefix = "other" /\ type' = "Unknown"
      \/ pc' = "print" /\ meant.prefix \in {"WARNING:", "Warning,"} /\ suppress_warnings /\ type' = "Ignored"
      \/ /\ pc' = "print" /\ meant.prefix = "Warning," /\ ~suppress_warnings
         /\ type' = IF warnings_as_errors THEN "GlobalError" ELSE "GlobalWarning"
      \/ /\ pc' = "strip" /\ meant.prefix \in {"ERROR:", "WARNING:"} /\ type' = type
         /\ meant.prefix = "ERROR:" \/ ~suppress_warnings
  <2>1. CASE meant.prefix = "other"
    BY <2>1 DEF DeduceMessageType, Is, Goto
  <2>2. CASE meant.prefix \in {"WARNING:", "Warning,"} /\ suppress_warnings
    BY <2>2 DEF DeduceMessageType, Is, Goto
  <2>3. CASE meant.prefix = "Warning," /\ ~suppress_warnings
    BY <2>3 DEF DeduceMessageType, Either, Is, Goto
  <2>4. CASE meant.prefix = "ERROR:" \/ (meant.prefix = "WARNING:" /\ ~suppress_warnings)
    BY <2>4 DEF DeduceMessageType, Goto
  <2>5. \/ meant.prefix = "other"
        \/ meant.prefix \in {"WARNING:", "Warning,"} /\ suppress_warnings
        \/ meant.prefix = "Warning," /\ ~suppress_warnings
        \/ meant.prefix = "ERROR:" \/ (meant.prefix = "WARNING:" /\ ~suppress_warnings)
    <3>1. \/ meant.prefix = "other" \/ meant.prefix = "ERROR:"
          \/ meant.prefix = "WARNING:" \/ meant.prefix = "Warning,"
      BY <1>3
    <3>2. meant.prefix \in {"WARNING:", "Warning,"} <=>
            meant.prefix = "WARNING:" \/ meant.prefix = "Warning,"
      OBVIOUS
    <3> QED BY <3>1, <3>2, Zenon
  <2> QED BY <2>1, <2>2, <2>3, <2>4, <2>5, Zenon
<1>5. TypeOK'
  <2>1. pc' \in Points /\ type' \in Types
    BY <1>1, <1>4, TypedNow DEF Typed, Points, Types
  <2>2. Typed'
    BY <1>1, <1>2, <1>3, <2>1, TypedNow DEF Typed
  <2> QED BY <1>1, <1>2, <2>2, TypesStay
<1>6. meant' \in Meant /\ NothingYet' /\ Searched' /\ Scanned'
  BY <1>1, <1>2, <1>3, <1>4 DEF NothingYet, Searched, Scanned
<1>7. pc' = "print" => type' = T /\ type' \notin {"none", "Error", "Warning"}
  BY <1>3, <1>4 DEF MessageType
<1>8. type' \in {"GlobalError", "GlobalWarning"} => line_number = <<>> /\ ~Blank(Text(meant))
  BY <1>1, <1>2, <1>3, <1>4 DEF NothingYet
<1>9. pc' = "print" => AnswerFits'
  BY <1>2, <1>7, <1>8 DEF AnswerFits, PlainLocated, Plain
<1> QED BY <1>4, <1>5, <1>6, <1>9, NotDoneYet

(* What the search looks at.                                               *)
LEMMA SearchedText ==
  ASSUME TypeOK, meant \in Meant, Searched, pc \in {"scan", "global"}
  PROVE  /\ rest \in Texts /\ Len(rest) \in Nat /\ Len(rest) > 0 /\ first_colon \in Nat
         /\ Len(rest) <= Len(Text(meant))
         /\ rest[1] # "space" /\ rest[Len(rest)] # "space"
<1>1. Text(meant) \in Seq(Characters) /\ Len(Text(meant)) \in Nat
  <2>1. Text(meant) \in Texts
    BY MeantIs
  <2> QED BY <2>1 DEF Texts
<1>2. rest = StripWhitespace(Text(meant)) /\ ~Blank(Text(meant))
  BY DEF Searched
<1>3. /\ rest \in Seq(Characters) /\ Len(rest) \in 1 .. Len(Text(meant))
      /\ rest[1] # "space" /\ rest[Len(rest)] # "space"
  BY <1>1, <1>2, StrippedIs
<1>4. first_colon \in 0 .. Len(Text(meant))
  BY DEF TypeOK
<1> QED BY <1>1, <1>3, <1>4 DEF Texts

LEMMA PlainScan ==
  ASSUME TypeOK, meant \in Meant, Searched, Scanned, pc = "scan", PlainLocated
  PROVE  /\ LocatedMessage(meant) /\ Shows(meant, rest)
         /\ InReach(first_colon, NextColon)
         /\ IsLocation(first_colon, NextColon) =>
              first_colon = Place(meant) /\ NextColon = SecondPlace(meant)
         /\ ~IsLocation(first_colon, NextColon) => NextColon \in 1 .. Place(meant)
<1>1. LocatedMessage(meant) /\ ~HoldsLocation(meant.name)
  BY MeantIs DEF PlainLocated, Plain
<1>2. rest \in Texts
  BY SearchedText
<1>3. Shows(meant, rest)
  BY <1>1, LocatedStripped DEF Searched
<1>4. first_colon \in 1 .. Place(meant) /\ rest[first_colon] = ":"
  <2>1. first_colon \in 1 .. Place(meant) /\ first_colon # 0
    BY DEF Scanned
  <2> QED BY <2>1 DEF Scanned
<1> QED BY <1>1, <1>2, <1>3, <1>4, ScanLocated

LEMMA TryNextPairKeeps == IInv /\ TryNextPair => IInv'
<1> SUFFICES ASSUME IInv, TryNextPair PROVE IInv'
  OBVIOUS
<1>1. TypeOK /\ meant \in Meant /\ NothingYet /\ Searched /\ Scanned
  BY DEF IInv
<1>2. /\ pc = "scan" /\ InReach(first_colon, NextColon) /\ ~IsLocation(first_colon, NextColon)
      /\ first_colon' = NextColon
      /\ UNCHANGED <<pc, meant, file_name, warnings_as_errors, suppress_warnings, source_name,
                     line_number, rest, type, totals, printed>>
  BY DEF TryNextPair, arguments, parsed
<1>3. rest \in Texts /\ Len(rest) \in Nat /\ first_colon \in Nat /\ Len(rest) <= Len(Text(meant))
  BY <1>1, <1>2, SearchedText
<1>4. NextColon \in 1 .. Len(rest) /\ rest[NextColon] = ":"
  <2>1. NextColon # 0
    BY <1>2 DEF InReach
  <2> QED BY <1>3, <2>1, NextColonIs
<1>5. PlainLocated => NextColon \in 1 .. Place(meant)
  BY <1>1, <1>2, PlainScan
<1>6. TypeOK'
  <2>1. NextColon \in 0 .. Len(Text(meant))
    <3>1. Text(meant) \in Texts
      BY <1>1, MeantIs
    <3> QED BY <1>3, <1>4, <3>1 DEF Texts
  <2>2. Typed'
    BY <1>1, <1>2, <2>1, TypedNow DEF Typed
  <2> QED BY <1>1, <1>2, <2>2, TypesStay
<1>7. meant' \in Meant /\ NothingYet' /\ Searched'
  BY <1>1, <1>2 DEF NothingYet, Searched
<1>8. Scanned'
  BY <1>1, <1>2, <1>4, <1>5 DEF Scanned, PlainLocated, Plain
<1> QED BY <1>2, <1>6, <1>7, <1>8, NotDoneYet

LEMMA NoLocationKeeps == IInv /\ NoLocation => IInv'
<1> SUFFICES ASSUME IInv, NoLocation PROVE IInv'
  OBVIOUS
<1>1. TypeOK /\ meant \in Meant /\ NothingYet /\ Searched /\ Scanned
  BY DEF IInv
<1>2. /\ pc = "scan" /\ ~InReach(first_colon, NextColon) /\ pc' = "global"
      /\ UNCHANGED <<meant, file_name, warnings_as_errors, suppress_warnings, source_name,
                     line_number, rest, first_colon, type, totals, printed>>
  BY DEF NoLocation, Goto, arguments, parsed
<1>3. ~PlainLocated
  BY <1>1, <1>2, PlainScan
<1>4. TypeOK'
  <2>1. Typed'
    BY <1>1, <1>2, TypedNow DEF Typed, Points
  <2> QED BY <1>1, <1>2, <2>1, TypesStay
<1>5. meant' \in Meant /\ NothingYet' /\ Searched'
  BY <1>1, <1>2 DEF NothingYet, Searched
<1>6. Scanned'
  BY <1>2, <1>3 DEF Scanned, PlainLocated, Plain
<1> QED BY <1>2, <1>4, <1>5, <1>6, NotDoneYet

LEMMA StrippedText ==
  ASSUME NEW t \in Texts
  PROVE  /\ StripWhitespace(t) \in Texts
         /\ Blank(t) => StripWhitespace(t) = <<>>
         /\ ~Blank(t) => StripWhitespace(t) # <<>> /\ ~Blank(StripWhitespace(t))
<1>1. t \in Seq(Characters)
  BY DEF Texts
<1>2. CASE Blank(t)
  BY <1>2, TextsHaveNone DEF StripWhitespace
<1>3. CASE ~Blank(t)
  <2>1. /\ StripWhitespace(t) \in Seq(Characters) /\ Len(StripWhitespace(t)) \in 1 .. Len(t)
        /\ StripWhitespace(t)[1] # "space"
    BY <1>1, <1>3, StrippedIs
  <2> DEFINE s == StripWhitespace(t)
  <2> HIDE DEF s
  <2>2. s \in Seq(Characters) /\ Len(s) >= 1 /\ s[1] # "space" /\ Len(s) \in Nat
    BY <1>1, <2>1 DEF s
  <2>3. 1 \in DOMAIN s /\ s # <<>>
    BY <2>2
  <2>4. ~Blank(s)
    BY <2>2, <2>3 DEF Blank
  <2> QED BY <1>3, <2>2, <2>3, <2>4 DEF s, Texts
<1> QED BY <1>2, <1>3

LEMMA StripKeeps == IInv /\ Strip => IInv'
<1> SUFFICES ASSUME IInv, Strip PROVE IInv'
  OBVIOUS
<1>1. TypeOK /\ meant \in Meant /\ NothingYet /\ Searched /\ Scanned
  BY DEF IInv
<1>2. /\ pc = "strip" /\ rest' = StripWhitespace(Text(meant))
      /\ UNCHANGED <<meant, file_name, warnings_as_errors, suppress_warnings, source_name,
                     line_number, totals, printed>>
      /\ \/ rest' = <<>> /\ type' = "Unknown" /\ pc' = "print" /\ first_colon' = first_colon
         \/ /\ rest' # <<>> /\ Len(rest') <= 4 /\ pc' = "global"
            /\ first_colon' = first_colon /\ type' = type
         \/ /\ rest' # <<>> /\ ~(Len(rest') <= 4) /\ pc' = "scan"
            /\ first_colon' = FindColon(rest', 1) /\ type' = type
  BY <1>1 DEF Strip, Searched, Is, Goto, arguments
<1>3. Text(meant) \in Texts /\ rest' \in Texts /\ Len(rest') \in Nat
  <2>1. Text(meant) \in Texts
    BY <1>1, MeantIs
  <2>2. StripWhitespace(Text(meant)) \in Texts
    BY <2>1, StrippedText
  <2> QED BY <1>2, <2>1, <2>2 DEF Texts
<1>4. rest' = <<>> <=> Blank(Text(meant))
  BY <1>2, <1>3, StrippedText
<1>5. PlainLocated => Shows(meant, rest') /\ rest' # <<>> /\ Len(rest') > 4
  <2> SUFFICES ASSUME PlainLocated PROVE Shows(meant, rest') /\ rest' # <<>> /\ Len(rest') > 4
    OBVIOUS
  <2>1. LocatedMessage(meant)
    BY <1>1, MeantIs DEF PlainLocated
  <2>2. Shows(meant, rest') /\ ~Blank(Text(meant))
    BY <1>2, <2>1, LocatedStripped
  <2>3. Len(rest') > 4
    BY <1>3, <2>2 DEF Shows
  <2> QED BY <1>4, <2>2, <2>3
<1>6. NothingYet' /\ Searched' /\ meant' \in Meant
  BY <1>1, <1>2, <1>4 DEF NothingYet, Searched
<1>7. CASE pc' = "print"
  <2>1. Typed'
    BY <1>1, <1>2, <1>3, <1>7, TypedNow DEF Typed, Points, Types
  <2>2. TypeOK'
    BY <1>1, <1>2, <2>1, TypesStay
  <2>3. Scanned'
    BY <1>7 DEF Scanned
  <2>4. AnswerFits'
    BY <1>2, <1>4, <1>7 DEF AnswerFits
  <2> QED BY <1>6, <1>7, <2>2, <2>3, <2>4, NotDoneYet
<1>8. CASE pc' = "global"
  <2>1. TypeOK'
    <3>1. Typed'
      BY <1>1, <1>2, <1>3, <1>8, TypedNow DEF Typed, Points
    <3> QED BY <1>1, <1>2, <3>1, TypesStay
  <2>2. ~PlainLocated
    BY <1>2, <1>3, <1>5, <1>8
  <2>3. Scanned'
    BY <1>2, <1>8, <2>2 DEF Scanned, PlainLocated, Plain
  <2> QED BY <1>6, <1>8, <2>1, <2>3, NotDoneYet
<1>9. CASE pc' = "scan"
  <2> DEFINE r == rest'
             c == first_colon'
  <2>1. c = FindColon(r, 1) /\ r \in Seq(Characters) /\ Len(r) \in Nat /\ Len(r) > 4
    BY <1>2, <1>3, <1>9 DEF Texts
  <2> HIDE DEF r, c
  <2>2. /\ c \in 0 .. Len(r)
        /\ c = 0 => \A i \in 1 .. Len(r) : r[i] # ":"
        /\ c # 0 => r[c] = ":" /\ \A i \in 1 .. Len(r) : r[i] = ":" => c <= i
    BY <2>1, ColonFound
  <2>3. PlainLocated => c \in 1 .. Place(meant)
    <3>1. PlainLocated => /\ r[Place(meant)] = ":" /\ Place(meant) \in 1 .. Len(r)
      <4>1. PlainLocated => Shows(meant, r)
        BY <1>5 DEF r
      <4> QED BY <2>1, <4>1 DEF Shows
    <3> QED BY <2>2, <3>1
  <2>4. c \in 0 .. Len(Text(meant))
    <3>1. Len(r) <= Len(Text(meant)) /\ Len(Text(meant)) \in Nat
      <4>1. ~Blank(Text(meant)) /\ Text(meant) \in Seq(Characters)
        BY <1>2, <1>3, <1>4, <1>9 DEF Texts
      <4>2. Len(r) \in 1 .. Len(Text(meant))
        BY <1>2, <4>1, StrippedIs DEF r
      <4> QED BY <4>1, <4>2
    <3> QED BY <2>1, <2>2, <3>1
  <2>5. TypeOK'
    <3>1. Typed'
      BY <1>1, <1>2, <1>3, <1>9, <2>4, TypedNow DEF Typed, Points, c
    <3> QED BY <1>1, <1>2, <3>1, TypesStay
  <2>6. Scanned'
    BY <1>2, <1>9, <2>1, <2>2, <2>3 DEF Scanned, PlainLocated, Plain, r, c
  <2> QED BY <1>6, <1>9, <2>5, <2>6, NotDoneYet
<1> QED BY <1>2, <1>7, <1>8, <1>9

LEMMA GlobalKeeps == IInv /\ Global => IInv'
<1> SUFFICES ASSUME IInv, Global PROVE IInv'
  OBVIOUS
<1> DEFINE error == meant.prefix = "ERROR:" \/ warnings_as_errors
<1>1. TypeOK /\ meant \in Meant /\ NothingYet /\ Searched /\ Scanned
  BY DEF IInv
<1>2. /\ pc = "global" /\ pc' = "print"
      /\ type' = IF IsSummaryMessage(rest) THEN IF error THEN "ErrorSummary" ELSE "WarningSummary"
                                           ELSE IF error THEN "GlobalError" ELSE "GlobalWarning"
      /\ UNCHANGED <<meant, file_name, warnings_as_errors, suppress_warnings, source_name,
                     line_number, rest, first_colon, totals, printed>>
  BY DEF Global, Either, Is, Goto, arguments, parsed
<1>3. /\ rest \in Texts /\ Len(rest) \in Nat /\ Len(rest) > 0 /\ rest[1] # "space"
      /\ rest = StripWhitespace(Text(meant)) /\ line_number = <<>>
      /\ meant.prefix \in {"ERROR:", "WARNING:"} /\ (meant.prefix = "ERROR:" \/ ~suppress_warnings)
  BY <1>1, <1>2, SearchedText DEF Searched, NothingYet
<1>4. ~Blank(rest)
  BY <1>3 DEF Blank, Texts
<1>5. type' \notin {"none", "Error", "Warning", "Unknown"}
  BY <1>2
<1>6. Plain => type' = MessageType(meant, warnings_as_errors, suppress_warnings)
  <2> SUFFICES ASSUME Plain PROVE type' = MessageType(meant, warnings_as_errors, suppress_warnings)
    OBVIOUS
  <2>1. meant.rest # "located"
    BY <1>1, <1>2 DEF Scanned, PlainLocated
  <2>2. /\ Text(meant) = meant.body
        /\ meant.rest = IF IsTotal(StripWhitespace(meant.body)) THEN "summary" ELSE "global"
    BY <1>1, <1>3, <2>1, MeantIs
  <2>3. IsSummaryMessage(rest) <=> meant.rest = "summary"
    BY <1>3, <2>2, SummaryIsTotal
  <2> QED BY <1>2, <1>3, <2>2, <2>3 DEF MessageType
<1>7. TypeOK'
  <2>1. pc' \in Points /\ type' \in Types
    BY <1>2 DEF Points, Types
  <2>2. Typed'
    BY <1>1, <1>2, <2>1, TypedNow DEF Typed
  <2> QED BY <1>1, <1>2, <2>2, TypesStay
<1>8. meant' \in Meant /\ NothingYet' /\ Searched' /\ Scanned'
  BY <1>1, <1>2 DEF NothingYet, Searched, Scanned
<1>9. AnswerFits'
  BY <1>2, <1>3, <1>4, <1>5, <1>6 DEF AnswerFits, Plain
<1> QED BY <1>2, <1>7, <1>8, <1>9, NotDoneYet

LEMMA FoundLocationKeeps == IInv /\ FoundLocation => IInv'
<1> SUFFICES ASSUME IInv, FoundLocation PROVE IInv'
  OBVIOUS
<1>1. TypeOK /\ meant \in Meant /\ NothingYet /\ Searched /\ Scanned
  BY DEF IInv
<1>2. /\ pc = "scan" /\ InReach(first_colon, NextColon) /\ IsLocation(first_colon, NextColon)
      /\ source_name' = NameFound /\ line_number' = LineFound /\ rest' = TextFound
      /\ pc' = "print"
      /\ type' = IF meant.prefix = "ERROR:" \/ warnings_as_errors THEN "Error" ELSE "Warning"
      /\ UNCHANGED <<meant, file_name, warnings_as_errors, suppress_warnings, first_colon, totals, printed>>
  BY DEF FoundLocation, NameFound, LineFound, TextFound, Either, Is, Goto, arguments
<1>3. /\ rest \in Texts /\ Len(rest) \in Nat /\ first_colon \in Nat /\ rest[Len(rest)] # "space"
      /\ rest = StripWhitespace(Text(meant)) /\ ~Blank(Text(meant))
      /\ meant.prefix \in {"ERROR:", "WARNING:"} /\ (meant.prefix = "ERROR:" \/ ~suppress_warnings)
  BY <1>1, <1>2, SearchedText DEF Searched
<1>4. first_colon \in 1 .. Len(rest) /\ rest[first_colon] = ":"
  <2>1. first_colon # 0
    BY <1>2 DEF InReach
  <2> QED BY <1>1, <1>2, <2>1 DEF Scanned
<1>5. /\ NameFound \in Texts /\ LineFound \in Seq(Digits) /\ Len(LineFound) > 0
      /\ TextFound \in Texts /\ ~Blank(TextFound)
  BY <1>2, <1>3, <1>4, FoundIs
<1>6. Plain => meant.rest = "located"
  <2> SUFFICES ASSUME Plain, meant.rest # "located" PROVE FALSE
    OBVIOUS
  <2>1. HoldsLocation(StripWhitespace(Text(meant)))
    BY <1>2, <1>3, <1>4, FoundIsHeld
  <2>2. Text(meant) \in Texts /\ Text(meant) = meant.body
    BY <1>1, MeantIs
  <2>3. HoldsLocation(meant.body)
    BY <1>3, <2>1, <2>2, HeldBeforeStripping
  <2> QED BY <2>3 DEF Plain
<1>7. Plain => type' = MessageType(meant, warnings_as_errors, suppress_warnings)
  BY <1>2, <1>3, <1>6 DEF MessageType
<1>8. ASSUME PlainLocated, meant.name = <<>> \/ meant.name[1] # "space"
      PROVE  /\ NameFound = meant.name /\ LineFound = meant.line
             /\ StripWhitespace(TextFound) = StripWhitespace(meant.body)
  <2>1. /\ LocatedMessage(meant) /\ Shows(meant, rest)
        /\ first_colon = Place(meant) /\ NextColon = SecondPlace(meant)
    BY <1>1, <1>2, <1>8, PlainScan
  <2> QED BY <1>2, <1>3, <1>8, <2>1, FoundLocated
<1>9. TypeOK'
  <2>1. pc' \in Points /\ type' \in Types
    BY <1>2 DEF Points, Types
  <2>2. Typed'
    BY <1>1, <1>2, <1>5, <2>1, TypedNow DEF Typed
  <2> QED BY <1>1, <1>2, <2>2, TypesStay
<1>10. meant' \in Meant /\ NothingYet' /\ Searched' /\ Scanned'
  BY <1>1, <1>2 DEF NothingYet, Searched, Scanned
<1>11. AnswerFits'
  <2>1. type' \in {"Error", "Warning"} /\ LineFound # <<>>
    BY <1>2, <1>5
  <2> QED BY <1>2, <1>5, <1>7, <1>8, <2>1 DEF AnswerFits, PlainLocated, Plain
<1> QED BY <1>2, <1>9, <1>10, <1>11, NotDoneYet

LEMMA PrintMessageKeeps == IInv /\ PrintMessage => IInv'
<1> SUFFICES ASSUME IInv, PrintMessage PROVE IInv'
  OBVIOUS
<1> DEFINE T == MessageType(meant, warnings_as_errors, suppress_warnings)
<1>1. TypeOK /\ meant \in Meant /\ NothingYet /\ Searched /\ Scanned /\ AnswerFits /\ pc = "print"
  BY DEF IInv, PrintMessage
<1>2. /\ pc' = "done"
      /\ totals' = [errors |-> IF type \in {"Error", "GlobalError"} THEN 1 ELSE 0,
                    warnings |-> IF type \in {"Warning", "GlobalWarning"} THEN 1 ELSE 0]
      /\ UNCHANGED <<meant, file_name, warnings_as_errors, suppress_warnings, source_name,
                     line_number, rest, first_colon, type>>
  BY DEF PrintMessage, Count, Goto, arguments, parsed
<1>3. \/ /\ type \in {"Error", "GlobalError"}
         /\ printed' = [name |-> ShownName, line |-> line_number, what |-> "error", rest |-> StripWhitespace(rest)]
      \/ /\ type \in {"Warning", "GlobalWarning"}
         /\ printed' = [name |-> ShownName, line |-> line_number, what |-> "warning", rest |-> StripWhitespace(rest)]
      \/ /\ type = "Unknown"
         /\ printed' = [name |-> ShownName, line |-> <<>>, what |-> "message", rest |-> Text(meant)]
      \/ type \notin {"Error", "GlobalError", "Warning", "GlobalWarning", "Unknown"} /\ printed' = printed
  <2>1. CASE type \in {"Error", "GlobalError"}
    BY <2>1 DEF PrintMessage, Line
  <2>2. CASE type \in {"Warning", "GlobalWarning"}
    BY <2>2 DEF PrintMessage, Line
  <2>3. CASE type = "Unknown"
    BY <2>3 DEF PrintMessage, Line
  <2>4. CASE type \notin {"Error", "GlobalError", "Warning", "GlobalWarning", "Unknown"}
    BY <2>4 DEF PrintMessage
  <2> QED BY <2>1, <2>2, <2>3, <2>4
<1>4. /\ ShownName \in Texts \cup {CommandLine} /\ Text(meant) \in Texts /\ rest \in Texts
      /\ line_number \in Seq(Digits) /\ StripWhitespace(rest) \in Texts
  <2>1. file_name \in Texts
    <3>1. file_name \in SeqOf(NameChars, MaxName)
      BY <1>1, FileNameAssumption DEF TypeOK
    <3> QED BY <3>1, CharactersOf, BoundAssumption DEF Characters
  <2>2. source_name \in Texts /\ rest \in Texts /\ line_number \in Seq(Digits)
    BY <1>1 DEF TypeOK
  <2>3. ShownName \in Texts \cup {CommandLine}
    BY <2>1, <2>2 DEF ShownName
  <2> QED BY <1>1, <2>2, <2>3, MeantIs, StrippedText
<1>5. printed'.what = "nothing" \/ ~(type \notin {"Error", "GlobalError", "Warning", "GlobalWarning", "Unknown"})
  BY <1>1, <1>3 DEF NothingYet
<1> HIDE DEF ShownName
<1>6. TypeOK'
  <2>1. printed' \in [name : Texts \cup {CommandLine}, line : Seq(Digits), rest : Texts,
                      what : {"nothing", "error", "warning", "message"}]
    <3>1. printed \in [name : Texts \cup {CommandLine}, line : Seq(Digits), rest : Texts,
                       what : {"nothing", "error", "warning", "message"}]
      BY <1>1 DEF TypeOK
    <3>2. \A n \in Texts \cup {CommandLine}, l \in Seq(Digits), r \in Texts,
             w \in {"nothing", "error", "warning", "message"} :
            [name |-> n, line |-> l, what |-> w, rest |-> r] \in
              [name : Texts \cup {CommandLine}, line : Seq(Digits), rest : Texts,
               what : {"nothing", "error", "warning", "message"}]
      OBVIOUS
    <3>3. CASE type \in {"Error", "GlobalError"}
      BY <1>3, <1>4, <3>2, <3>3
    <3>4. CASE type \in {"Warning", "GlobalWarning"}
      BY <1>3, <1>4, <3>2, <3>4
    <3>5. CASE type = "Unknown"
      <4>1. printed' = [name |-> ShownName, line |-> <<>>, what |-> "message", rest |-> Text(meant)]
        BY <1>3, <3>5
      <4> QED BY <1>4, <3>2, <4>1, TextsHaveNone
    <3>6. CASE type \notin {"Error", "GlobalError", "Warning", "GlobalWarning", "Unknown"}
      BY <1>3, <3>1, <3>6
    <3> QED BY <3>3, <3>4, <3>5, <3>6
  <2>2. totals' \in [warnings : 0 .. 1, errors : 0 .. 1]
    BY <1>2
  <2> QED BY <1>1, <1>2, <2>1, <2>2 DEF TypeOK
<1>7. meant' \in Meant /\ NothingYet' /\ Searched' /\ Scanned'
  BY <1>1, <1>2 DEF NothingYet, Searched, Scanned
<1>8. ClassifiedAsMeant'
  <2>1. meant.rest # "ignorable"
    BY <1>1 DEF Searched
  <2>2. ASSUME Plain, ~Blank(Text(meant))
        PROVE  type = T /\ totals'.errors = Errors1 /\ totals'.warnings = Warnings1
    <3>1. type = T
      BY <1>1, <2>2 DEF AnswerFits
    <3>2. /\ T \in {"Error", "GlobalError"} => Errors1 = 1
          /\ T \notin {"Error", "GlobalError"} => Errors1 = 0
          /\ T \in {"Warning", "GlobalWarning"} => Warnings1 = 1
          /\ T \notin {"Warning", "GlobalWarning"} => Warnings1 = 0
      BY <2>1, CountedAsMeant
    <3> QED BY <1>2, <3>1, <3>2
  <2> QED BY <1>2, <2>2 DEF ClassifiedAsMeant, Plain, Errors1, Warnings1
<1>9. LocationIsTheOneMeant'
  <2>1. ASSUME printed'.what # "nothing", PlainLocated, meant.name # <<>> => meant.name[1] # "space"
        PROVE  /\ printed'.name = ShownName /\ printed'.line = meant.line
               /\ printed'.rest = StripWhitespace(meant.body) /\ source_name = meant.name
    <3>1. ~Blank(Text(meant))
      BY <1>1, <2>1, MeantIs, LocatedStripped DEF PlainLocated
    <3>2. type = T /\ meant.prefix \in {"ERROR:", "WARNING:"}
      BY <1>1, <2>1, <3>1, MeantIs DEF AnswerFits, PlainLocated
    <3>3. type \in {"Error", "Warning", "Ignored"}
      BY <2>1, <3>2 DEF MessageType, PlainLocated
    <3>4. type \in {"Error", "Warning"}
      BY <1>5, <2>1, <3>3
    <3>5. /\ source_name = meant.name /\ line_number = meant.line
          /\ StripWhitespace(rest) = StripWhitespace(meant.body)
      BY <1>1, <2>1, <3>4 DEF AnswerFits
    <3> QED BY <1>3, <3>4, <3>5
  <2>2. source_name = meant.name =>
          ShownName = (CASE meant.name = <<>> -> file_name
                         [] meant.name = InjectedName -> CommandLine
                         [] OTHER -> meant.name)
    BY DEF ShownName, InjectedName
  <2> QED BY <1>2, <2>1, <2>2 DEF LocationIsTheOneMeant, PlainLocated, Plain
<1>10. NothingIsLost'
  <2>1. ASSUME printed'.what \in {"error", "warning"}
        PROVE  /\ ~Blank(printed'.rest)
               /\ (type \in {"Error", "Warning"}) <=> (printed'.line # <<>>)
    <3>1. type \in {"Error", "GlobalError", "Warning", "GlobalWarning"}
      BY <1>1, <1>3, <2>1 DEF NothingYet
    <3>2. printed'.line = line_number /\ printed'.rest = StripWhitespace(rest)
      BY <1>3, <3>1
    <3>3. ~Blank(rest) /\ (type \in {"Error", "Warning"} <=> line_number # <<>>)
      BY <1>1, <3>1 DEF AnswerFits
    <3> QED BY <1>4, <3>2, <3>3, StrippedText
  <2> QED BY <1>2, <2>1 DEF NothingIsLost
<1> QED BY <1>2, <1>6, <1>7, <1>8, <1>9, <1>10 DEF IInv

-----------------------------------------------------------------------------
(* The theorems.                                                           *)

LEMMA NextIInv == IInv /\ [Next]_vars => IInv'
<1> SUFFICES ASSUME IInv, [Next]_vars PROVE IInv'
  OBVIOUS
<1>1. CASE SkipListed
  BY <1>1, SkipListedKeeps
<1>2. CASE DeduceMessageType
  BY <1>2, DeduceMessageTypeKeeps
<1>3. CASE Strip
  BY <1>3, StripKeeps
<1>4. CASE FoundLocation
  BY <1>4, FoundLocationKeeps
<1>5. CASE TryNextPair
  BY <1>5, TryNextPairKeeps
<1>6. CASE NoLocation
  BY <1>6, NoLocationKeeps
<1>7. CASE Global
  BY <1>7, GlobalKeeps
<1>8. CASE PrintMessage
  BY <1>8, PrintMessageKeeps
<1>9. CASE UNCHANGED vars
  <2>1. UNCHANGED <<pc, meant, file_name, warnings_as_errors, suppress_warnings, source_name,
                    line_number, rest, first_colon, type, totals, printed>>
    BY <1>9 DEF vars, arguments, parsed
  <2>2. TypeOK'
    <3>1. TypeOK
      BY DEF IInv
    <3>2. Typed'
      BY <2>1, <3>1, TypedNow DEF Typed
    <3> QED BY <2>1, <3>1, <3>2, TypesStay
  <2>3. meant' \in Meant /\ NothingYet' /\ Searched' /\ Scanned'
    BY <2>1 DEF IInv, NothingYet, Searched, Scanned, PlainLocated, Plain
  <2>4. pc' = "print" => AnswerFits'
    BY <2>1 DEF IInv, AnswerFits, PlainLocated, Plain
  <2>5. LocationIsTheOneMeant'
    <3>1. LocationIsTheOneMeant
      BY DEF IInv
    <3> QED BY <2>1, <3>1 DEF LocationIsTheOneMeant, Plain
  <2>6. ClassifiedAsMeant' /\ NothingIsLost'
    BY <2>1 DEF IInv, ClassifiedAsMeant, NothingIsLost, Plain
  <2> QED BY <2>2, <2>3, <2>4, <2>5, <2>6 DEF IInv
<1> QED BY <1>1, <1>2, <1>3, <1>4, <1>5, <1>6, <1>7, <1>8, <1>9 DEF Next

(* The filter keeps the inductive invariant, whatever the message.         *)
THEOREM Invariance == Spec => []IInv
<1>1. Init => IInv
  BY InitIInv
<1>2. IInv /\ [Next]_vars => IInv'
  BY NextIInv
<1> QED BY <1>1, <1>2, PTL DEF Spec

(* Texts stay texts, the line number is made of digits, each total is at   *)
(* most one.                                                               *)
THEOREM TypeCorrect == Spec => []TypeOK
<1>1. IInv => TypeOK
  BY DEF IInv
<1> QED BY <1>1, Invariance, PTL

(* DeduceLocationSpec: a located message whose name and text hold nothing  *)
(* that looks like a location is shown with its own name, line and text,   *)
(* however many colons they hold.                                          *)
THEOREM LocationsAreKept == Spec => []LocationIsTheOneMeant
<1>1. IInv => LocationIsTheOneMeant
  BY DEF IInv
<1> QED BY <1>1, Invariance, PTL

(* ParseGlslangOutput and PrintFilteredErrors: the characters give each    *)
(* message the type it was meant to have, and it is counted accordingly,   *)
(* as CompilePipeline counts it.                                           *)
THEOREM TypesAreKept == Spec => []ClassifiedAsMeant
<1>1. IInv => ClassifiedAsMeant
  BY DEF IInv
<1> QED BY <1>1, Invariance, PTL

(* PrintFilteredErrors: its assertions hold for every message, misleading  *)
(* ones included.                                                          *)
THEOREM SomethingIsShown == Spec => []NothingIsLost
<1>1. IInv => NothingIsLost
  BY DEF IInv
<1> QED BY <1>1, Invariance, PTL
=============================================================================
