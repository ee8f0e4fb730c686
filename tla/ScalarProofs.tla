----------------------------- MODULE ScalarProofs -----------------------------
(***************************************************************************)
(* Strings, for every content and every chunk width of the validators, and *)
(* numbers, for every token and every width of the integers: what is       *)
(* validated is what has a meaning, and decodes to it.                     *)
(***************************************************************************)
EXTENDS ScanProofs, ScalarGrammar

-----------------------------------------------------------------------------
(* Escapes, by the bytes they are made of.                                  *)

LEMMA LetterFacts == DOMAIN Short = {Quote, Backslash, "n"} /\ DOMAIN Plane0 = {"00e9"}
BY DEF Short, Plane0

\* Bytes from..from + k - 1 of s are those of t.
LEMMA SubIs ==
    ASSUME NEW s \in Seq(Bytes), NEW from \in Nat, NEW k \in Nat, k >= 1, NEW t \in Seq(Bytes), Len(t) = k
    PROVE  Sub(s, from, from + k) = t <=> from + k <= Len(s) /\ \A j \in 1..k : s[from + j] = t[j]
<1> DEFINE N == Len(s)
           upto == Min({from + k, N})
           r == SubSeq(s, from + 1, upto)
<1>0. N \in Nat /\ \A j \in 1..N : s[j] \in Bytes
  OBVIOUS
<1>a. Sub(s, from, from + k) = r
  BY DEF Sub
<1>1. upto = IF from + k <= N THEN from + k ELSE N
  <2> DEFINE S == {from + k, N}
             low == IF from + k <= N THEN from + k ELSE N
  <2>1. low \in S /\ \A y \in S : low <= y
    BY <1>0
  <2>2. \A z \in S : (\A y \in S : z <= y) => z = low
    BY <1>0
  <2>3. Min(S) = CHOOSE z \in S : \A y \in S : z <= y
    BY DEF Min
  <2> HIDE DEF S, low
  <2>4. Min(S) = low
    BY <2>1, <2>2, <2>3, Zenon
  <2>5. QED
    BY <2>4 DEF S, low
<1> HIDE DEF upto, N
<1>2. upto \in Int /\ upto <= N /\ from + 1 \in Int /\ upto <= from + k
  BY <1>0, <1>1
<1>3. /\ Len(r) = IF from + 1 <= upto THEN upto - (from + 1) + 1 ELSE 0
      /\ \A j \in 1..upto - (from + 1) + 1 : r[j] = s[(from + 1) + j - 1]
      /\ r \in Seq(Bytes)
  <2>1. \A j \in from + 1..upto : s[j] \in Bytes
    BY <1>0, <1>2
  <2>2. QED
    BY <1>2, <2>1, SubSeqProperties
<1> HIDE DEF r
<1>4. CASE from + k <= N
  <2>1. Len(r) = k /\ \A j \in 1..k : r[j] = s[from + j]
    <3>1. upto - (from + 1) + 1 = k /\ from + 1 <= upto /\ \A j \in 1..k : (from + 1) + j - 1 = from + j
      BY <1>1, <1>4
    <3>2. QED
      BY <1>3, <3>1
  <2>2. r = t <=> \A j \in 1..k : r[j] = t[j]
    <3>1. (\A j \in 1..k : r[j] = t[j]) => r = t
      BY <2>1, <1>3, SeqEqual
    <3>2. QED
      BY <3>1
  <2>3. QED
    BY <2>1, <2>2, <1>a, <1>4 DEF N
<1>5. CASE ~(from + k <= N)
  <2>1. Len(r) < k
    BY <1>0, <1>1, <1>3, <1>5
  <2>2. QED
    BY <2>1, <1>a, <1>5 DEF N
<1>6. QED
  BY <1>4, <1>5

LEMMA ByteIs ==
    ASSUME None \notin Bytes, NEW s \in Seq(Bytes), NEW p \in Nat
    PROVE  /\ p < Len(s) => ByteAt(s, p) = s[p + 1] /\ s[p + 1] \in Bytes
           /\ p >= Len(s) => ByteAt(s, p) = None
           /\ \A b \in Bytes : ByteAt(s, p) = b <=> p + 1 <= Len(s) /\ s[p + 1] = b
<1>1. Len(s) \in Nat /\ \A j \in 1..Len(s) : s[j] \in Bytes
  OBVIOUS
<1>2. p < Len(s) => p + 1 \in 1..Len(s) /\ p + 1 <= Len(s)
  BY <1>1
<1>3. p >= Len(s) => ~(p < Len(s)) /\ ~(p + 1 <= Len(s))
  BY <1>1
<1>4. p < Len(s) \/ p >= Len(s)
  BY <1>1
<1>5. QED
  BY <1>1, <1>2, <1>3, <1>4 DEF ByteAt

\* A short escape, one of a quad, and one of a surrogate pair.
ShortAt(s, p) == p + 2 <= Len(s) /\ s[p + 2] \in {Quote, Backslash, "n"}
QuadAt(s, p) == p + 3 <= Len(s) /\ s[p + 2] = "u" /\ s[p + 3] = "00e9"
PairAt(s, p) ==
    /\ p + 6 <= Len(s) /\ s[p + 2] = "u" /\ s[p + 3] = High
    /\ s[p + 4] = Backslash /\ s[p + 5] = "u" /\ s[p + 6] = Low

Item(c, e) == [char |-> c, end |-> e]
NoItem == [char |-> None, end |-> None]

LEMMA EscapeForms ==
    ASSUME None \notin Bytes, NEW s \in Seq(Bytes), NEW p \in Nat, p < Len(s)
    PROVE  /\ EscapeEnd(s, p + 1) = IF ShortAt(s, p) THEN p + 2
                                    ELSE IF QuadAt(s, p) THEN p + 3
                                    ELSE IF PairAt(s, p) THEN p + 6 ELSE None
           /\ Escaped(s, p) = IF ShortAt(s, p) THEN Item(Short[s[p + 2]], p + 2)
                              ELSE IF QuadAt(s, p) THEN Item("eacute", p + 3)
                              ELSE IF PairAt(s, p) THEN Item(Astral, p + 6) ELSE NoItem
<1> DEFINE N == Len(s)
           letter == ByteAt(s, p + 1)
           quad == ByteAt(s, p + 2)
<1>0. N \in Nat /\ p + 1 \in Nat /\ p + 2 \in Nat /\ p + 3 \in Nat /\ p + 5 \in Nat
  OBVIOUS
<1>1. /\ Quote \in Bytes /\ Backslash \in Bytes /\ "n" \in Bytes /\ "u" \in Bytes
      /\ "00e9" \in Bytes /\ High \in Bytes /\ Low \in Bytes /\ High # "00e9"
      /\ "u" \notin {Quote, Backslash, "n"}
  BY DEF Bytes, Chars, Quote, Backslash, High, Low
<1>2. /\ (p + 1) + 1 = p + 2 /\ (p + 2) + 1 = p + 3 /\ (p + 5) + 1 = p + 6
      /\ (p + 1) + 2 = p + 3 /\ (p + 1) + 5 = p + 6
  BY <1>0
<1>3. /\ letter \in {Quote, Backslash, "n"} <=> ShortAt(s, p)
      /\ letter = "u" <=> p + 2 <= N /\ s[p + 2] = "u"
  <2>1. \A b \in Bytes : letter = b <=> p + 2 <= N /\ s[p + 2] = b
    BY <1>0, <1>2, ByteIs
  <2>2. QED
    BY <1>1, <2>1 DEF ShortAt
<1>4. \A b \in Bytes : quad = b <=> p + 3 <= N /\ s[p + 3] = b
  BY <1>0, <1>2, ByteIs
<1>5. Sub(s, p + 3, p + 6) = <<Backslash, "u", Low>>
        <=> p + 6 <= N /\ s[p + 4] = Backslash /\ s[p + 5] = "u" /\ s[p + 6] = Low
  <2> DEFINE t == <<Backslash, "u", Low>>
  <2>1. t \in Seq(Bytes) /\ Len(t) = 3 /\ t[1] = Backslash /\ t[2] = "u" /\ t[3] = Low
    BY <1>1
  <2> HIDE DEF t
  <2>2. 3 \in Nat /\ 3 >= 1 /\ (p + 3) + 3 = p + 6
    BY <1>0
  <2>3. Sub(s, p + 3, p + 6) = t <=> p + 6 <= N /\ \A j \in 1..3 : s[(p + 3) + j] = t[j]
    <3> DEFINE from == p + 3
    <3>1. from \in Nat /\ from + 3 = p + 6
      BY <1>0, <2>2
    <3> HIDE DEF from
    <3>2. Sub(s, from, from + 3) = t <=> from + 3 <= N /\ \A j \in 1..3 : s[from + j] = t[j]
      BY <2>1, <2>2, <3>1, SubIs, ZenonT(60)
    <3>3. QED
      BY <3>1, <3>2 DEF from
  <2>4. (\A j \in 1..3 : s[(p + 3) + j] = t[j]) <=> s[p + 4] = t[1] /\ s[p + 5] = t[2] /\ s[p + 6] = t[3]
    <3>1. (p + 3) + 1 = p + 4 /\ (p + 3) + 2 = p + 5 /\ (p + 3) + 3 = p + 6
      BY <1>0
    <3>2. 1..3 = {1, 2, 3}
      OBVIOUS
    <3>3. QED
      BY <3>1, <3>2
  <2>5. QED
    BY <2>1, <2>3, <2>4 DEF t
<1>6. (Sub(s, p + 3, p + 5) = <<Backslash, "u">> /\ ByteAt(s, p + 5) = Low)
        <=> p + 6 <= N /\ s[p + 4] = Backslash /\ s[p + 5] = "u" /\ s[p + 6] = Low
  <2> DEFINE t == <<Backslash, "u">>
  <2>1. t \in Seq(Bytes) /\ Len(t) = 2 /\ t[1] = Backslash /\ t[2] = "u"
    BY <1>1
  <2> HIDE DEF t
  <2>2. 2 \in Nat /\ 2 >= 1 /\ (p + 3) + 2 = p + 5
    BY <1>0
  <2>3. Sub(s, p + 3, p + 5) = t <=> p + 5 <= N /\ \A j \in 1..2 : s[(p + 3) + j] = t[j]
    <3> DEFINE from == p + 3
    <3>1. from \in Nat /\ from + 2 = p + 5
      BY <1>0, <2>2
    <3> HIDE DEF from
    <3>2. Sub(s, from, from + 2) = t <=> from + 2 <= N /\ \A j \in 1..2 : s[from + j] = t[j]
      BY <2>1, <2>2, <3>1, SubIs, ZenonT(60)
    <3>3. QED
      BY <3>1, <3>2 DEF from
  <2>4. (\A j \in 1..2 : s[(p + 3) + j] = t[j]) <=> s[p + 4] = t[1] /\ s[p + 5] = t[2]
    <3>1. (p + 3) + 1 = p + 4 /\ (p + 3) + 2 = p + 5
      BY <1>0
    <3>2. 1..2 = {1, 2}
      OBVIOUS
    <3>3. QED
      BY <3>1, <3>2
  <2>5. ByteAt(s, p + 5) = Low <=> p + 6 <= N /\ s[p + 6] = Low
    BY <1>0, <1>1, <1>2, ByteIs
  <2>6. p + 6 <= N => p + 5 <= N
    BY <1>0
  <2>7. QED
    BY <2>1, <2>3, <2>4, <2>5, <2>6 DEF t
<1> DEFINE pair == p + 6 <= N /\ s[p + 4] = Backslash /\ s[p + 5] = "u" /\ s[p + 6] = Low
<1>7. /\ letter = "u" /\ quad = "00e9" <=> QuadAt(s, p)
      /\ letter = "u" /\ quad = High /\ pair <=> PairAt(s, p)
  <2>1. (p + 3 <= N => p + 2 <= N) /\ (p + 6 <= N => p + 3 <= N)
    BY <1>0
  <2>2. QED
    BY <1>1, <1>3, <1>4, <2>1 DEF QuadAt, PairAt
<1>8. EscapeEnd(s, p + 1) =
        CASE letter \in DOMAIN Short -> p + 2
          [] letter = "u" /\ quad \in DOMAIN Plane0 -> p + 3
          [] letter = "u" /\ quad = High /\ pair -> p + 6
          [] OTHER -> None
  BY <1>2, <1>5 DEF EscapeEnd
<1>9. Escaped(s, p) =
        CASE letter \in DOMAIN Short -> Item(Short[letter], p + 2)
          [] letter = "u" /\ quad = High /\ pair -> Item(Astral, p + 6)
          [] letter = "u" /\ quad \in DOMAIN Plane0 -> Item(Plane0[quad], p + 3)
          [] OTHER -> NoItem
  BY <1>6 DEF Escaped, Item, NoItem
<1>10. letter \in DOMAIN Short <=> ShortAt(s, p)
  BY <1>3, LetterFacts
<1>11. letter = "u" /\ quad \in DOMAIN Plane0 <=> QuadAt(s, p)
  BY <1>7, LetterFacts
<1>12. (ShortAt(s, p) => letter = s[p + 2]) /\ (QuadAt(s, p) => quad = "00e9")
  BY <1>3, <1>4, <1>1, <1>0, <1>2, ByteIs DEF ShortAt, QuadAt
<1>13. ~(ShortAt(s, p) /\ (letter = "u")) /\ ~(QuadAt(s, p) /\ PairAt(s, p))
       /\ (QuadAt(s, p) \/ PairAt(s, p) => letter = "u")
  BY <1>1, <1>3, <1>7 DEF QuadAt, PairAt
<1>14. Plane0["00e9"] = "eacute"
  BY DEF Plane0
<1> HIDE DEF letter, quad, pair, N
<1>15. QED
  BY <1>7, <1>8, <1>9, <1>10, <1>11, <1>12, <1>13, <1>14

\* What Readings makes of the place p: the units that stand there.
UnitAt(s, p, u) == Sub(s, p, p + Len(u.raw)) = u.raw /\ p + Len(u.raw) <= Len(s)
Items(s, p) == {Item(u.char, p + Len(u.raw)) : u \in {v \in Units : UnitAt(s, p, v)}}

LEMMA FitsIs ==
    ASSUME NEW s \in Seq(Bytes), NEW p \in Nat, NEW t \in Seq(Bytes), Len(t) >= 1, NEW c
    PROVE  UnitAt(s, p, Unit(t, c)) <=> p + Len(t) <= Len(s) /\ \A j \in 1..Len(t) : s[p + j] = t[j]
<1>1. Unit(t, c).raw = t /\ Len(t) \in Nat
  BY DEF Unit
<1>2. Sub(s, p, p + Len(t)) = t <=> p + Len(t) <= Len(s) /\ \A j \in 1..Len(t) : s[p + j] = t[j]
  <2> DEFINE k == Len(t)
  <2>1. k \in Nat /\ k >= 1 /\ Len(t) = k
    BY <1>1
  <2> HIDE DEF k
  <2>2. Sub(s, p, p + k) = t <=> p + k <= Len(s) /\ \A j \in 1..k : s[p + j] = t[j]
    BY <2>1, SubIs
  <2>3. QED
    BY <2>2 DEF k
<1>3. QED
  BY <1>1, <1>2 DEF UnitAt

LEMMA UnitsFit ==
    ASSUME NEW s \in Seq(Bytes), NEW p \in Nat
    PROVE  /\ \A c \in Chars : UnitAt(s, p, Unit(<<c>>, c)) <=> p + 1 <= Len(s) /\ s[p + 1] = c
           /\ \A l \in DOMAIN Short : UnitAt(s, p, Unit(<<Backslash, l>>, Short[l])) <=>
                  p + 2 <= Len(s) /\ s[p + 1] = Backslash /\ s[p + 2] = l
           /\ UnitAt(s, p, Unit(<<Backslash, "u", "00e9">>, Plane0["00e9"])) <=> s[p + 1] = Backslash /\ QuadAt(s, p)
           /\ UnitAt(s, p, Unit(<<Backslash, "u", High, Backslash, "u", Low>>, Astral)) <=>
                  s[p + 1] = Backslash /\ PairAt(s, p)
<1>0. Len(s) \in Nat
  OBVIOUS
<1>1. ASSUME NEW c \in Chars PROVE UnitAt(s, p, Unit(<<c>>, c)) <=> p + 1 <= Len(s) /\ s[p + 1] = c
  <2> DEFINE t == <<c>>
  <2>1. t \in Seq(Bytes) /\ Len(t) = 1 /\ t[1] = c
    BY DEF Bytes
  <2> HIDE DEF t
  <2>2. UnitAt(s, p, Unit(t, c)) <=> p + Len(t) <= Len(s) /\ \A j \in 1..Len(t) : s[p + j] = t[j]
    <3>1. t \in Seq(Bytes) /\ Len(t) >= 1
      BY <2>1
    <3>2. QED
      BY <3>1, FitsIs, ZenonT(60)
  <2>3. 1..1 = {1}
    OBVIOUS
  <2>4. QED
    BY <2>1, <2>2, <2>3 DEF t
<1>2. ASSUME NEW l \in DOMAIN Short
      PROVE  UnitAt(s, p, Unit(<<Backslash, l>>, Short[l])) <=> p + 2 <= Len(s) /\ s[p + 1] = Backslash /\ s[p + 2] = l
  <2> DEFINE t == <<Backslash, l>>
             c == Short[l]
  <2>1. t \in Seq(Bytes) /\ Len(t) = 2 /\ t[1] = Backslash /\ t[2] = l
    <3>1. l \in Bytes /\ Backslash \in Bytes
      BY LetterFacts DEF Bytes, Chars
    <3>2. QED
      BY <3>1
  <2> HIDE DEF t, c
  <2>2. UnitAt(s, p, Unit(t, c)) <=> p + Len(t) <= Len(s) /\ \A j \in 1..Len(t) : s[p + j] = t[j]
    <3>1. t \in Seq(Bytes) /\ Len(t) >= 1
      BY <2>1
    <3>2. QED
      BY <3>1, FitsIs, ZenonT(60)
  <2>3. 1..2 = {1, 2}
    OBVIOUS
  <2>4. QED
    BY <2>1, <2>2, <2>3 DEF t, c
<1>3. UnitAt(s, p, Unit(<<Backslash, "u", "00e9">>, Plane0["00e9"])) <=> s[p + 1] = Backslash /\ QuadAt(s, p)
  <2> DEFINE t == <<Backslash, "u", "00e9">>
             c == Plane0["00e9"]
  <2>1. t \in Seq(Bytes) /\ Len(t) = 3 /\ t[1] = Backslash /\ t[2] = "u" /\ t[3] = "00e9"
    <3>1. "u" \in Bytes /\ "00e9" \in Bytes /\ Backslash \in Bytes
      BY DEF Bytes, Chars
    <3>2. QED
      BY <3>1
  <2> HIDE DEF t, c
  <2>2. UnitAt(s, p, Unit(t, c)) <=> p + Len(t) <= Len(s) /\ \A j \in 1..Len(t) : s[p + j] = t[j]
    <3>1. t \in Seq(Bytes) /\ Len(t) >= 1
      BY <2>1
    <3>2. QED
      BY <3>1, FitsIs, ZenonT(60)
  <2>3. 1..3 = {1, 2, 3}
    OBVIOUS
  <2>4. QED
    BY <2>1, <2>2, <2>3 DEF t, c, QuadAt
<1>4. UnitAt(s, p, Unit(<<Backslash, "u", High, Backslash, "u", Low>>, Astral)) <=> s[p + 1] = Backslash /\ PairAt(s, p)
  <2> DEFINE t == <<Backslash, "u", High, Backslash, "u", Low>>
  <2>1. t \in Seq(Bytes) /\ Len(t) = 6 /\ t[1] = Backslash /\ t[2] = "u" /\ t[3] = High
        /\ t[4] = Backslash /\ t[5] = "u" /\ t[6] = Low
    <3>1. "u" \in Bytes /\ High \in Bytes /\ Low \in Bytes /\ Backslash \in Bytes
      BY DEF Bytes, Chars
    <3>2. QED
      BY <3>1
  <2> HIDE DEF t
  <2>2. UnitAt(s, p, Unit(t, Astral)) <=> p + Len(t) <= Len(s) /\ \A j \in 1..Len(t) : s[p + j] = t[j]
    <3>1. t \in Seq(Bytes) /\ Len(t) >= 1
      BY <2>1
    <3>2. QED
      BY <3>1, FitsIs, ZenonT(60)
  <2>3. 1..6 = {1, 2, 3, 4, 5, 6}
    OBVIOUS
  <2>4. QED
    BY <2>1, <2>2, <2>3 DEF t, PairAt
<1>5. QED
  BY <1>1, <1>2, <1>3, <1>4

LEMMA ItemForms ==
    ASSUME None \notin Bytes, NEW s \in Seq(Bytes), NEW p \in Nat, p < Len(s)
    PROVE  Items(s, p) = CASE s[p + 1] \in Chars -> {Item(s[p + 1], p + 1)}
                           [] s[p + 1] = Backslash -> IF Escaped(s, p) = NoItem THEN {} ELSE {Escaped(s, p)}
                           [] OTHER -> {}
<1> DEFINE x == s[p + 1]
           One(c) == Unit(<<c>>, c)
           Two(l) == Unit(<<Backslash, l>>, Short[l])
           Q == Unit(<<Backslash, "u", "00e9">>, Plane0["00e9"])
           P == Unit(<<Backslash, "u", High, Backslash, "u", Low>>, Astral)
           Yields(u, y) == UnitAt(s, p, u) /\ y = Item(u.char, p + Len(u.raw))
           esc == Escaped(s, p)
<1>0. Len(s) \in Nat /\ p + 1 <= Len(s) /\ Backslash \notin Chars
  BY DEF Backslash, Chars, High, Low, Wide
<1>1. \A u : u \in Units <=> (\E c \in Chars : u = One(c)) \/ (\E l \in DOMAIN Short : u = Two(l)) \/ u = Q \/ u = P
  BY DEF Units
<1>2. /\ \A c \in Chars : UnitAt(s, p, One(c)) <=> x = c
      /\ \A l \in DOMAIN Short : UnitAt(s, p, Two(l)) <=> x = Backslash /\ ShortAt(s, p) /\ s[p + 2] = l
      /\ UnitAt(s, p, Q) <=> x = Backslash /\ QuadAt(s, p)
      /\ UnitAt(s, p, P) <=> x = Backslash /\ PairAt(s, p)
  <2>1. /\ \A c \in Chars : UnitAt(s, p, One(c)) <=> p + 1 <= Len(s) /\ x = c
        /\ \A l \in DOMAIN Short : UnitAt(s, p, Two(l)) <=> p + 2 <= Len(s) /\ x = Backslash /\ s[p + 2] = l
        /\ UnitAt(s, p, Q) <=> x = Backslash /\ QuadAt(s, p)
        /\ UnitAt(s, p, P) <=> x = Backslash /\ PairAt(s, p)
    BY UnitsFit
  <2> HIDE DEF One, Two, Q, P, x
  <2>2. \A l \in DOMAIN Short : s[p + 2] = l => (ShortAt(s, p) <=> p + 2 <= Len(s))
    BY LetterFacts DEF ShortAt
  <2>3. QED
    BY <1>0, <2>1, <2>2
<1>a. ASSUME NEW t, NEW c, NEW k, Len(t) = k PROVE Item(Unit(t, c).char, p + Len(Unit(t, c).raw)) = Item(c, p + k)
  BY <1>a DEF Unit
<1>3. /\ \A c \in Chars : \A y : Yields(One(c), y) <=> UnitAt(s, p, One(c)) /\ y = Item(c, p + 1)
      /\ \A l \in DOMAIN Short : \A y : Yields(Two(l), y) <=> UnitAt(s, p, Two(l)) /\ y = Item(Short[l], p + 2)
      /\ \A y : Yields(Q, y) <=> UnitAt(s, p, Q) /\ y = Item("eacute", p + 3)
      /\ \A y : Yields(P, y) <=> UnitAt(s, p, P) /\ y = Item(Astral, p + 6)
  <2>1. ASSUME NEW c PROVE Item(One(c).char, p + Len(One(c).raw)) = Item(c, p + 1)
    <3> DEFINE t == <<c>>
    <3>1. Len(t) = 1
      OBVIOUS
    <3> HIDE DEF t
    <3>2. Item(Unit(t, c).char, p + Len(Unit(t, c).raw)) = Item(c, p + 1)
      BY <3>1, <1>a, ZenonT(60)
    <3>3. QED
      BY <3>2 DEF t
  <2>2. ASSUME NEW l PROVE Item(Two(l).char, p + Len(Two(l).raw)) = Item(Short[l], p + 2)
    <3> DEFINE t == <<Backslash, l>>
               c == Short[l]
    <3>1. Len(t) = 2
      OBVIOUS
    <3> HIDE DEF t, c
    <3>2. Item(Unit(t, c).char, p + Len(Unit(t, c).raw)) = Item(c, p + 2)
      BY <3>1, <1>a, ZenonT(60)
    <3>3. QED
      BY <3>2 DEF t, c
  <2>3. Item(Q.char, p + Len(Q.raw)) = Item("eacute", p + 3)
    <3> DEFINE t == <<Backslash, "u", "00e9">>
               c == Plane0["00e9"]
    <3>0. c = "eacute"
      BY DEF Plane0
    <3>1. Len(t) = 3
      OBVIOUS
    <3> HIDE DEF t, c
    <3>2. Item(Unit(t, c).char, p + Len(Unit(t, c).raw)) = Item(c, p + 3)
      BY <3>1, <1>a, ZenonT(60)
    <3>3. Item(Unit(t, c).char, p + Len(Unit(t, c).raw)) = Item("eacute", p + 3)
      BY <3>0, <3>2
    <3>4. QED
      BY <3>3 DEF t, c
  <2>4. Item(P.char, p + Len(P.raw)) = Item(Astral, p + 6)
    <3> DEFINE t == <<Backslash, "u", High, Backslash, "u", Low>>
               c == Astral
    <3>1. Len(t) = 6
      OBVIOUS
    <3> HIDE DEF t, c
    <3>2. Item(Unit(t, c).char, p + Len(Unit(t, c).raw)) = Item(c, p + 6)
      BY <3>1, <1>a, ZenonT(60)
    <3>3. QED
      BY <3>2 DEF t, c
  <2> HIDE DEF One, Two, Q, P
  <2>5. QED
    BY <2>1, <2>2, <2>3, <2>4, Zenon
<1>4. \A y : y \in Items(s, p) <=> \E u \in Units : Yields(u, y)
  BY DEF Items
<1> HIDE DEF x, One, Two, Q, P, Yields, esc
<1>b. \A y : y \in Items(s, p) <=> \/ \E c \in Chars : Yields(One(c), y)
                                   \/ \E l \in DOMAIN Short : Yields(Two(l), y)
                                   \/ Yields(Q, y) \/ Yields(P, y)
  BY <1>1, <1>4, Zenon
<1>5. \A y : y \in Items(s, p) <=> \/ x \in Chars /\ y = Item(x, p + 1)
                                   \/ x = Backslash /\ ShortAt(s, p) /\ s[p + 2] \in DOMAIN Short
                                        /\ y = Item(Short[s[p + 2]], p + 2)
                                   \/ x = Backslash /\ QuadAt(s, p) /\ y = Item("eacute", p + 3)
                                   \/ x = Backslash /\ PairAt(s, p) /\ y = Item(Astral, p + 6)
  <2> TAKE y
  <2>1. (\E c \in Chars : Yields(One(c), y)) <=> x \in Chars /\ y = Item(x, p + 1)
    BY <1>2, <1>3
  <2>2. (\E l \in DOMAIN Short : Yields(Two(l), y))
           <=> x = Backslash /\ ShortAt(s, p) /\ s[p + 2] \in DOMAIN Short /\ y = Item(Short[s[p + 2]], p + 2)
    BY <1>2, <1>3
  <2>3. QED
    BY <2>1, <2>2, <1>b, <1>2, <1>3
<1>6. esc = IF ShortAt(s, p) THEN Item(Short[s[p + 2]], p + 2)
            ELSE IF QuadAt(s, p) THEN Item("eacute", p + 3)
            ELSE IF PairAt(s, p) THEN Item(Astral, p + 6) ELSE NoItem
  BY EscapeForms DEF esc
<1>7. /\ \A c, e : e \in Nat => Item(c, e) # NoItem
      /\ p + 2 \in Nat /\ p + 3 \in Nat /\ p + 6 \in Nat
  <2>1. \A c, e : Item(c, e).end = e /\ NoItem.end = None
    BY DEF Item, NoItem
  <2>2. \A c, e : e \in Nat => e # None
    BY ScanAssumption DEF ScanAssumption
  <2>3. QED
    BY <2>1, <2>2
<1>8. ShortAt(s, p) => s[p + 2] \in DOMAIN Short /\ ~QuadAt(s, p) /\ ~PairAt(s, p)
  <2>1. "u" \notin {Quote, Backslash, "n"}
    BY DEF Quote, Backslash
  <2>2. QED
    BY <2>1, LetterFacts DEF ShortAt, QuadAt, PairAt
<1>9. ~(QuadAt(s, p) /\ PairAt(s, p))
  BY DEF QuadAt, PairAt, High
<1>10. CASE x \in Chars
  <2>1. \A y : y \in Items(s, p) <=> y = Item(x, p + 1)
    BY <1>0, <1>5, <1>10
  <2>2. Items(s, p) = {Item(x, p + 1)}
    BY <2>1
  <2>3. QED
    BY <2>2, <1>0, <1>10 DEF x
<1>11. CASE x \notin Chars /\ x = Backslash
  <2>1. \A y : y \in Items(s, p) <=> esc # NoItem /\ y = esc
    BY <1>5, <1>6, <1>7, <1>8, <1>9, <1>11
  <2>2. Items(s, p) = IF esc = NoItem THEN {} ELSE {esc}
    BY <2>1
  <2>3. QED
    BY <2>2, <1>11 DEF x, esc
<1>12. CASE x \notin Chars /\ x # Backslash
  <2>1. \A y : y \notin Items(s, p)
    BY <1>5, <1>12
  <2>2. QED
    BY <2>1, <1>12 DEF x
<1>13. QED
  BY <1>10, <1>11, <1>12

-----------------------------------------------------------------------------
(* The functions behind validation, decoding and meaning: at each place they *)
(* look at places further on only.                                           *)

NextItem(s, p) == IF ByteAt(s, p) = Backslash THEN Escaped(s, p) ELSE Item(ByteAt(s, p), p + 1)

ValidAt(s, f, p) ==
    LET end == EscapeEnd(s, p + 1)
    IN  CASE p = Len(s) -> "ok"
          [] ByteAt(s, p) = Control -> "invalid_string"
          [] ByteAt(s, p) = BadUtf8 -> "invalid_utf8"
          [] ByteAt(s, p) = Backslash -> IF end = None THEN "invalid_string" ELSE f[end]
          [] OTHER -> f[p + 1]
DecodeAt(s, f, p) ==
    LET esc == Escaped(s, p)
        next == IF ByteAt(s, p) = Backslash THEN esc ELSE [char |-> ByteAt(s, p), end |-> p + 1]
    IN  IF p = Len(s) THEN [out |-> <<>>, failed |-> FALSE]
        ELSE IF next.end = None THEN [out |-> <<>>, failed |-> TRUE]
        ELSE [f[next.end] EXCEPT !.out = <<next.char>> \o @]
ReadAt(s, f, p) ==
    IF p = Len(s) THEN {<<>>}
    ELSE UNION {{<<u.char>> \o r : r \in f[p + Len(u.raw)]} :
                u \in {v \in Units : Sub(s, p, p + Len(v.raw)) = v.raw /\ p + Len(v.raw) <= Len(s)}}

LEMMA EndsAhead ==
    ASSUME None \notin Bytes, NEW s \in Seq(Bytes), NEW p \in Nat, p < Len(s)
    PROVE  /\ EscapeEnd(s, p + 1) \in {None} \cup p + 1..Len(s)
           /\ Escaped(s, p).end = EscapeEnd(s, p + 1)
           /\ Escaped(s, p) = NoItem <=> EscapeEnd(s, p + 1) = None
           /\ NextItem(s, p).end \in {None} \cup p + 1..Len(s)
           /\ \A u \in Units : UnitAt(s, p, u) => p + Len(u.raw) \in p + 1..Len(s)
<1>0. Len(s) \in Nat /\ p + 1 \in p + 1..Len(s)
  OBVIOUS
<1>1. /\ ShortAt(s, p) => p + 2 \in p + 1..Len(s)
      /\ QuadAt(s, p) => p + 3 \in p + 1..Len(s)
      /\ PairAt(s, p) => p + 6 \in p + 1..Len(s)
  BY <1>0 DEF ShortAt, QuadAt, PairAt
<1>2. EscapeEnd(s, p + 1) \in {None} \cup p + 1..Len(s)
  BY <1>1, EscapeForms
<1>3. \A c, e : Item(c, e).end = e /\ NoItem.end = None
  BY DEF Item, NoItem
<1>4. Escaped(s, p).end = EscapeEnd(s, p + 1)
  BY <1>3, EscapeForms
<1>5. Escaped(s, p) = NoItem <=> EscapeEnd(s, p + 1) = None
  <2>1. None \notin p + 1..Len(s)
    BY <1>0, ScanAssumption DEF ScanAssumption
  <2>2. \/ Escaped(s, p) = NoItem /\ EscapeEnd(s, p + 1) = None
        \/ EscapeEnd(s, p + 1) \in p + 1..Len(s)
    BY <1>1, EscapeForms
  <2>3. QED
    BY <2>1, <2>2, <1>3, <1>4
<1>6. NextItem(s, p).end \in {None} \cup p + 1..Len(s)
  BY <1>0, <1>2, <1>3, <1>4 DEF NextItem
<1>7. ASSUME NEW u \in Units, UnitAt(s, p, u)
      PROVE  p + Len(u.raw) \in p + 1..Len(s)
  <2>1. Item(u.char, p + Len(u.raw)) \in Items(s, p)
    BY <1>7 DEF Items
  <2>2. \/ Item(u.char, p + Len(u.raw)) = Item(s[p + 1], p + 1)
        \/ Item(u.char, p + Len(u.raw)) = Escaped(s, p) /\ Escaped(s, p) # NoItem
    BY <2>1, ItemForms
  <2>3. p + Len(u.raw) = p + 1 \/ (p + Len(u.raw) = Escaped(s, p).end /\ Escaped(s, p).end # None)
    BY <2>2, <1>3, <1>4, <1>5
  <2>4. QED
    BY <2>3, <1>0, <1>2, <1>4
<1>8. QED
  BY <1>2, <1>4, <1>5, <1>6, <1>7

LEMMA LooksAhead ==
    ASSUME None \notin Bytes, NEW s \in Seq(Bytes), NEW p \in 0..Len(s), NEW f, NEW g,
           \A q \in p + 1..Len(s) : f[q] = g[q]
    PROVE  ValidAt(s, f, p) = ValidAt(s, g, p) /\ DecodeAt(s, f, p) = DecodeAt(s, g, p) /\ ReadAt(s, f, p) = ReadAt(s, g, p)
<1>0. Len(s) \in Nat /\ p \in Nat
  OBVIOUS
<1>1. CASE p = Len(s)
  <2>1. ReadAt(s, f, p) = ReadAt(s, g, p)
    BY <1>1 DEF ReadAt
  <2>2. DecodeAt(s, f, p) = DecodeAt(s, g, p)
    BY <1>1 DEF DecodeAt
  <2>3. ByteAt(s, p) = None
    BY <1>0, <1>1, ByteIs
  <2>4. Control \in Bytes /\ BadUtf8 \in Bytes /\ Backslash \in Bytes
    BY DEF Bytes
  <2>5. ByteAt(s, p) # Control /\ ByteAt(s, p) # BadUtf8 /\ ByteAt(s, p) # Backslash
    BY <2>3, <2>4
  <2>6. ValidAt(s, f, p) = "ok" /\ ValidAt(s, g, p) = "ok"
    BY <1>1, <2>5 DEF ValidAt
  <2>7. QED
    BY <2>1, <2>2, <2>6
<1>2. CASE p # Len(s)
  <2>0. p < Len(s) /\ p + 1 \in p + 1..Len(s)
    BY <1>0, <1>2
  <2>1. /\ EscapeEnd(s, p + 1) # None => f[EscapeEnd(s, p + 1)] = g[EscapeEnd(s, p + 1)]
        /\ NextItem(s, p).end # None => f[NextItem(s, p).end] = g[NextItem(s, p).end]
        /\ \A u \in Units : UnitAt(s, p, u) => f[p + Len(u.raw)] = g[p + Len(u.raw)]
    BY <1>0, <2>0, EndsAhead
  <2>2. ValidAt(s, f, p) = ValidAt(s, g, p)
    BY <1>2, <2>0, <2>1 DEF ValidAt
  <2>3. DecodeAt(s, f, p) = DecodeAt(s, g, p)
    BY <1>2, <2>1 DEF DecodeAt, NextItem, Item
  <2>4. ReadAt(s, f, p) = ReadAt(s, g, p)
    <3> DEFINE U == {v \in Units : Sub(s, p, p + Len(v.raw)) = v.raw /\ p + Len(v.raw) <= Len(s)}
    <3>1. \A u \in U : f[p + Len(u.raw)] = g[p + Len(u.raw)]
      BY <2>1 DEF UnitAt
    <3> HIDE DEF U
    <3>2. {{<<u.char>> \o r : r \in f[p + Len(u.raw)]} : u \in U} = {{<<u.char>> \o r : r \in g[p + Len(u.raw)]} : u \in U}
      BY <3>1
    <3>3. QED
      BY <3>2, <1>2 DEF ReadAt, U
  <2>5. QED
    BY <2>2, <2>3, <2>4
<1>3. QED
  BY <1>1, <1>2

\* The three of them as one, told apart by k.
StepOf(k, s, f, p) ==
    IF k = "valid" THEN ValidAt(s, f, p) ELSE IF k = "decode" THEN DecodeAt(s, f, p) ELSE ReadAt(s, f, p)
Solves(k, f, s, from) == f = [p \in from..Len(s) |-> StepOf(k, s, f, p)]

LEMMA StepLooksAhead ==
    ASSUME None \notin Bytes, NEW s \in Seq(Bytes), NEW p \in 0..Len(s), NEW f, NEW g, NEW k,
           \A q \in p + 1..Len(s) : f[q] = g[q]
    PROVE  StepOf(k, s, f, p) = StepOf(k, s, g, p)
<1>1. ValidAt(s, f, p) = ValidAt(s, g, p) /\ DecodeAt(s, f, p) = DecodeAt(s, g, p) /\ ReadAt(s, f, p) = ReadAt(s, g, p)
  BY LooksAhead, ZenonT(60)
<1>2. QED
  BY <1>1, Zenon DEF StepOf

LEMMA SolutionExists ==
    ASSUME None \notin Bytes, NEW s \in Seq(Bytes), NEW from \in 0..Len(s), NEW k
    PROVE  \E f : Solves(k, f, s, from)
<1> DEFINE N == Len(s)
           S == {m \in 0..N : \E f : Solves(k, f, s, N - m)}
<1>0. N \in Nat /\ N - from \in 0..N /\ N - (N - from) = from
  OBVIOUS
<1>1. 0 \in S
  <2> DEFINE g == [p \in {} |-> 0]
             h == [p \in N - 0..N |-> StepOf(k, s, g, p)]
  <2>1. \A p \in N - 0..N : h[p] = StepOf(k, s, g, p) /\ p = N
    BY <1>0
  <2>2. h = [p \in N - 0..N |-> h[p]]
    OBVIOUS
  <2> HIDE DEF h, g
  <2>3. ASSUME NEW p \in N - 0..N PROVE h[p] = StepOf(k, s, h, p)
    <3>1. p \in 0..Len(s) /\ \A q \in p + 1..Len(s) : g[q] = h[q]
      BY <1>0, <2>1
    <3> HIDE DEF N
    <3>2. StepOf(k, s, g, p) = StepOf(k, s, h, p)
      BY <3>1, StepLooksAhead, ZenonT(60)
    <3>3. QED
      BY <3>2, <2>1
  <2>4. Solves(k, h, s, N - 0)
    BY <2>2, <2>3 DEF Solves
  <2>5. 0 \in 0..N
    BY <1>0
  <2>6. QED
    BY <2>4, <2>5
<1>2. ASSUME NEW m \in S, m < N
      PROVE  m + 1 \in S
  <2>1. PICK g : Solves(k, g, s, N - m)
    BY <1>2
  <2> DEFINE a == N - m
             b == N - (m + 1)
  <2>0. m \in Nat /\ m + 1 \in 0..N /\ a \in Nat /\ b \in Nat /\ b + 1 = a /\ a <= N
    BY <1>0, <1>2
  <2> DEFINE h == [p \in b..N |-> IF p >= a THEN g[p] ELSE StepOf(k, s, g, p)]
  <2>2. \A p \in a..N : g[p] = StepOf(k, s, g, p)
    BY <2>1 DEF Solves
  <2> HIDE DEF a, b
  <2>3. \A p \in b..N : h[p] = StepOf(k, s, g, p)
    BY <2>0, <2>2, <1>0
  <2>4. \A p \in a..N : h[p] = g[p]
    BY <2>0, <2>2, <1>0
  <2>5. h = [p \in b..N |-> h[p]]
    OBVIOUS
  <2> HIDE DEF h
  <2>6. ASSUME NEW p \in b..N PROVE h[p] = StepOf(k, s, h, p)
    <3>1. p \in 0..Len(s) /\ \A q \in p + 1..Len(s) : q \in a..N
      BY <1>0, <2>0
    <3>2. \A q \in p + 1..Len(s) : g[q] = h[q]
      BY <3>1, <2>4
    <3> HIDE DEF N
    <3>3. StepOf(k, s, g, p) = StepOf(k, s, h, p)
      BY <3>1, <3>2, StepLooksAhead, ZenonT(60)
    <3>4. QED
      BY <3>3, <2>3
  <2>7. Solves(k, h, s, b)
    BY <2>5, <2>6 DEF Solves
  <2>8. QED
    BY <2>7, <2>0 DEF b
<1>3. S = 0..N
  <2>1. S \subseteq 0..N
    OBVIOUS
  <2> HIDE DEF S, N
  <2>2. QED
    BY <1>0, <2>1, <1>1, <1>2, Climb
<1>4. N - from \in S
  <2> HIDE DEF S, N
  <2> QED
    BY <1>0, <1>3
<1>5. QED
  BY <1>0, <1>4

LEMMA SolutionUnique ==
    ASSUME None \notin Bytes, NEW s \in Seq(Bytes), NEW a \in 0..Len(s), NEW b \in 0..Len(s), a <= b, NEW k,
           NEW f, NEW g, Solves(k, f, s, a), Solves(k, g, s, b)
    PROVE  \A p \in b..Len(s) : f[p] = g[p]
<1> DEFINE N == Len(s)
           D == N - b
           S == {m \in 0..D : \A q \in N - m..N : f[q] = g[q]}
<1>0. N \in Nat /\ D \in Nat /\ N - D = b /\ a \in Nat /\ b \in Nat /\ b <= N
  OBVIOUS
<1>1. /\ \A p \in b..N : f[p] = StepOf(k, s, f, p)
      /\ \A p \in b..N : g[p] = StepOf(k, s, g, p)
  <2>1. \A p \in b..N : p \in a..N
    BY <1>0
  <2>2. \A p \in a..N : f[p] = StepOf(k, s, f, p)
    BY DEF Solves
  <2>3. \A p \in b..N : g[p] = StepOf(k, s, g, p)
    BY DEF Solves
  <2>4. QED
    BY <2>1, <2>2, <2>3
<1>a. ASSUME NEW p \in b..N, \A q \in p + 1..N : f[q] = g[q] PROVE f[p] = g[p]
  <2>1. p \in 0..Len(s) /\ \A q \in p + 1..Len(s) : f[q] = g[q]
    BY <1>0, <1>a
  <2> HIDE DEF N
  <2>2. StepOf(k, s, f, p) = StepOf(k, s, g, p)
    BY <2>1, StepLooksAhead, ZenonT(60)
  <2>3. QED
    BY <2>2, <1>1
<1>2. 0 \in S
  <2>1. N \in b..N /\ \A q \in N + 1..N : f[q] = g[q]
    BY <1>0
  <2>2. f[N] = g[N]
    BY <2>1, <1>a
  <2>3. \A q \in N - 0..N : q = N
    BY <1>0
  <2>4. 0 \in 0..D
    BY <1>0
  <2>5. QED
    BY <2>2, <2>3, <2>4
<1>3. ASSUME NEW m \in S, m < D
      PROVE  m + 1 \in S
  <2> DEFINE p == N - (m + 1)
  <2>1. /\ m \in Nat /\ m + 1 \in 0..D /\ p \in b..N /\ p + 1 = N - m
        /\ \A q \in p..N : q = p \/ q \in p + 1..N
    BY <1>0, <1>3
  <2>2. \A q \in N - m..N : f[q] = g[q]
    OBVIOUS
  <2> HIDE DEF p
  <2>3. f[p] = g[p]
    BY <2>1, <2>2, <1>a
  <2>4. \A q \in p..N : f[q] = g[q]
    BY <2>1, <2>2, <2>3
  <2>5. QED
    BY <2>1, <2>4 DEF p
<1>4. S = 0..D
  <2>1. S \subseteq 0..D
    OBVIOUS
  <2> HIDE DEF S, D
  <2>2. QED
    BY <1>0, <2>1, <1>2, <1>3, Climb
<1>5. D \in S
  <2> HIDE DEF S, D
  <2> QED
    BY <1>0, <1>4
<1>6. QED
  BY <1>0, <1>5

ValidFcn(s, from) == CHOOSE f : f = [p \in from..Len(s) |-> ValidAt(s, f, p)]
DecodeFcn(s) == CHOOSE f : f = [p \in 0..Len(s) |-> DecodeAt(s, f, p)]
ReadFcn(s) == CHOOSE f : f = [p \in 0..Len(s) |-> ReadAt(s, f, p)]

LEMMA Solved ==
    ASSUME None \notin Bytes, NEW s \in Seq(Bytes)
    PROVE  /\ \A from \in 0..Len(s) : Solves("valid", ValidFcn(s, from), s, from)
           /\ \A p \in 0..Len(s) : DecodeFcn(s)[p] = DecodeAt(s, DecodeFcn(s), p)
           /\ \A p \in 0..Len(s) : ReadFcn(s)[p] = ReadAt(s, ReadFcn(s), p)
<1>0. 0 \in 0..Len(s)
  OBVIOUS
<1>1. ASSUME NEW from \in 0..Len(s) PROVE Solves("valid", ValidFcn(s, from), s, from)
  <2>1. \A f : Solves("valid", f, s, from) <=> f = [p \in from..Len(s) |-> ValidAt(s, f, p)]
    BY DEF Solves, StepOf
  <2>2. \E f : Solves("valid", f, s, from)
    BY SolutionExists, ZenonT(60)
  <2>3. \E f : f = [p \in from..Len(s) |-> ValidAt(s, f, p)]
    BY <2>1, <2>2, Zenon
  <2>4. ValidFcn(s, from) = [p \in from..Len(s) |-> ValidAt(s, ValidFcn(s, from), p)]
    BY <2>3, Zenon DEF ValidFcn
  <2>5. QED
    BY <2>1, <2>4, Zenon
<1>2. DecodeFcn(s) = [p \in 0..Len(s) |-> DecodeAt(s, DecodeFcn(s), p)]
  <2>1. \A f : Solves("decode", f, s, 0) <=> f = [p \in 0..Len(s) |-> DecodeAt(s, f, p)]
    BY DEF Solves, StepOf
  <2>2. \E f : Solves("decode", f, s, 0)
    BY <1>0, SolutionExists, ZenonT(60)
  <2>3. \E f : f = [p \in 0..Len(s) |-> DecodeAt(s, f, p)]
    BY <2>1, <2>2, Zenon
  <2>4. QED
    BY <2>3, Zenon DEF DecodeFcn
<1>3. ReadFcn(s) = [p \in 0..Len(s) |-> ReadAt(s, ReadFcn(s), p)]
  <2>1. \A f : Solves("read", f, s, 0) <=> f = [p \in 0..Len(s) |-> ReadAt(s, f, p)]
    BY DEF Solves, StepOf
  <2>2. \E f : Solves("read", f, s, 0)
    BY <1>0, SolutionExists, ZenonT(60)
  <2>3. \E f : f = [p \in 0..Len(s) |-> ReadAt(s, f, p)]
    BY <2>1, <2>2, Zenon
  <2>4. QED
    BY <2>3, Zenon DEF ReadFcn
<1> DEFINE D == DecodeFcn(s)
           R == ReadFcn(s)
<1>4. D = [p \in 0..Len(s) |-> DecodeAt(s, D, p)] /\ R = [p \in 0..Len(s) |-> ReadAt(s, R, p)]
  BY <1>2, <1>3
<1> HIDE DEF D, R
<1>5. /\ \A p \in 0..Len(s) : D[p] = DecodeAt(s, D, p)
      /\ \A p \in 0..Len(s) : R[p] = ReadAt(s, R, p)
  BY <1>4
<1>6. QED
  BY <1>1, <1>5 DEF D, R

\* Validation from a place on does not depend on where it began.
LEMMA ValidEquation ==
    ASSUME None \notin Bytes, NEW s \in Seq(Bytes), NEW p \in 0..Len(s)
    PROVE  /\ p = Len(s) => ValidateFrom(s, p) = "ok"
           /\ p < Len(s) /\ s[p + 1] \in {Control, BadUtf8} => ValidateFrom(s, p) # "ok"
           /\ p < Len(s) /\ s[p + 1] = Backslash =>
                IF EscapeEnd(s, p + 1) = None THEN ValidateFrom(s, p) # "ok"
                ELSE ValidateFrom(s, p) = ValidateFrom(s, EscapeEnd(s, p + 1))
           /\ p < Len(s) /\ s[p + 1] \notin {Control, BadUtf8, Backslash} => ValidateFrom(s, p) = ValidateFrom(s, p + 1)
<1> DEFINE N == Len(s)
           f == ValidFcn(s, p)
<1>0. N \in Nat /\ p \in Nat /\ p \in p..N
  OBVIOUS
<1>1. \A q \in 0..N : ValidateFrom(s, q) = ValidFcn(s, q)[q]
  BY DEF ValidateFrom, ValidFcn, ValidAt
<1>2. ASSUME NEW q \in p..N PROVE ValidateFrom(s, q) = f[q]
  <2>1. q \in 0..Len(s) /\ p <= q /\ q \in q..Len(s)
    BY <1>0
  <2> DEFINE g == ValidFcn(s, q)
  <2>2. Solves("valid", f, s, p) /\ Solves("valid", g, s, q)
    BY <2>1, Solved
  <2>3. ValidateFrom(s, q) = g[q]
    BY <1>1, <2>1
  <2> HIDE DEF f, g, N
  <2>4. \A z \in q..Len(s) : f[z] = g[z]
    BY <2>1, <2>2, SolutionUnique
  <2>5. QED
    BY <2>1, <2>3, <2>4
<1>3. f[p] = ValidAt(s, f, p)
  <2>1. Solves("valid", f, s, p)
    BY Solved
  <2> HIDE DEF f
  <2>2. f = [q \in p..Len(s) |-> StepOf("valid", s, f, q)]
    BY <2>1 DEF Solves
  <2>3. f[p] = StepOf("valid", s, f, p)
    BY <1>0, <2>2
  <2>4. QED
    BY <2>3 DEF StepOf
<1>4. ValidateFrom(s, p) = ValidAt(s, f, p)
  BY <1>0, <1>2, <1>3
<1> HIDE DEF f
<1>5. p < N => ByteAt(s, p) = s[p + 1] /\ p + 1 \in p..N /\ p # N
  BY <1>0, ByteIs
<1>6. p < N /\ EscapeEnd(s, p + 1) # None => EscapeEnd(s, p + 1) \in p..N
  <2>1. ASSUME p < N PROVE EscapeEnd(s, p + 1) \in {None} \cup p + 1..N
    BY <1>0, <2>1, EndsAhead
  <2>2. \A q \in p + 1..N : q \in p..N
    BY <1>0
  <2>3. QED
    BY <2>1, <2>2
<1>7. p = N => ValidateFrom(s, p) = "ok"
  <2>1. p = N => ByteAt(s, p) = None
    BY <1>0, ByteIs
  <2>2. None \notin {Control, BadUtf8, Backslash}
    BY DEF Bytes
  <2>3. QED
    BY <2>1, <2>2, <1>4 DEF ValidAt
<1>8. Control # BadUtf8 /\ Control # Backslash /\ BadUtf8 # Backslash
  BY DEF Control, BadUtf8, Backslash
<1>9. p < N /\ s[p + 1] \in {Control, BadUtf8} => ValidateFrom(s, p) # "ok"
  BY <1>4, <1>5, <1>8 DEF ValidAt
<1>10. p < N /\ s[p + 1] = Backslash =>
         ValidateFrom(s, p) = IF EscapeEnd(s, p + 1) = None THEN "invalid_string" ELSE f[EscapeEnd(s, p + 1)]
  BY <1>4, <1>5, <1>8 DEF ValidAt
<1>11. p < N /\ s[p + 1] \notin {Control, BadUtf8, Backslash} => ValidateFrom(s, p) = f[p + 1]
  BY <1>4, <1>5 DEF ValidAt
<1>12. QED
  BY <1>2, <1>5, <1>6, <1>7, <1>9, <1>10, <1>11

\* What is at p begins with c, and goes on at e.
GoesOn(s, p, c, e) ==
    /\ DecodeFcn(s)[p] = [DecodeFcn(s)[e] EXCEPT !.out = <<c>> \o @]
    /\ ReadFcn(s)[p] = {<<c>> \o r : r \in ReadFcn(s)[e]}
    /\ ValidateFrom(s, p) = ValidateFrom(s, e)

LEMMA ReadItems ==
    ASSUME None \notin Bytes, NEW s \in Seq(Bytes), NEW p \in Nat, p < Len(s)
    PROVE  ReadFcn(s)[p] = UNION {{<<x.char>> \o r : r \in ReadFcn(s)[x.end]} : x \in Items(s, p)}
<1> DEFINE R == ReadFcn(s)
           U == {v \in Units : Sub(s, p, p + Len(v.raw)) = v.raw /\ p + Len(v.raw) <= Len(s)}
           X == {Item(u.char, p + Len(u.raw)) : u \in U}
<1>1. p \in 0..Len(s) /\ p # Len(s)
  OBVIOUS
<1>2. R[p] = ReadAt(s, R, p)
  BY <1>1, Solved
<1>3. X = Items(s, p)
  BY DEF Items, UnitAt
<1> HIDE DEF R
<1>4. R[p] = UNION {{<<u.char>> \o r : r \in R[p + Len(u.raw)]} : u \in U}
  BY <1>1, <1>2 DEF ReadAt
<1> HIDE DEF U
<1>5. \A u \in U : Item(u.char, p + Len(u.raw)).char = u.char /\ Item(u.char, p + Len(u.raw)).end = p + Len(u.raw)
  BY DEF Item
<1> DEFINE Adds(c, e) == {<<c>> \o r : r \in R[e]}
<1>6. R[p] = UNION {Adds(u.char, p + Len(u.raw)) : u \in U}
  BY <1>4
<1> HIDE DEF Adds
<1>7. UNION {Adds(u.char, p + Len(u.raw)) : u \in U} = UNION {Adds(x.char, x.end) : x \in X}
  <2>1. \A y : y \in UNION {Adds(u.char, p + Len(u.raw)) : u \in U} <=> \E u \in U : y \in Adds(u.char, p + Len(u.raw))
    OBVIOUS
  <2>2. \A y : y \in UNION {Adds(x.char, x.end) : x \in X} <=> \E x \in X : y \in Adds(x.char, x.end)
    OBVIOUS
  <2>3. \A y : (\E x \in X : y \in Adds(x.char, x.end)) <=> \E u \in U : y \in Adds(u.char, p + Len(u.raw))
    BY <1>5
  <2>4. QED
    BY <2>1, <2>2, <2>3
<1>8. QED
  BY <1>3, <1>6, <1>7 DEF Adds, R

LEMMA Places ==
    ASSUME None \notin Bytes, NEW s \in Seq(Bytes), NEW p \in 0..Len(s)
    PROVE  /\ p = Len(s) => /\ ValidateFrom(s, p) = "ok"
                            /\ DecodeFcn(s)[p] = [out |-> <<>>, failed |-> FALSE]
                            /\ ReadFcn(s)[p] = {<<>>}
           /\ p < Len(s) /\ s[p + 1] \in Chars => GoesOn(s, p, s[p + 1], p + 1)
           /\ p < Len(s) /\ s[p + 1] = Backslash /\ Escaped(s, p) # NoItem =>
                GoesOn(s, p, Escaped(s, p).char, Escaped(s, p).end)
           /\ p < Len(s) /\ ((s[p + 1] = Backslash /\ Escaped(s, p) = NoItem) \/ s[p + 1] \in {Control, BadUtf8}) =>
                ValidateFrom(s, p) # "ok" /\ ReadFcn(s)[p] = {}
<1> DEFINE N == Len(s)
           D == DecodeFcn(s)
           R == ReadFcn(s)
           esc == Escaped(s, p)
<1>0. N \in Nat /\ p \in Nat /\ (p < N => p # N)
  OBVIOUS
<1>1. D[p] = DecodeAt(s, D, p) /\ R[p] = ReadAt(s, R, p)
  BY Solved
<1> HIDE DEF D, R, esc
<1>2. ASSUME p = N
      PROVE  ValidateFrom(s, p) = "ok" /\ D[p] = [out |-> <<>>, failed |-> FALSE] /\ R[p] = {<<>>}
  <2>1. D[p] = [out |-> <<>>, failed |-> FALSE]
    BY <1>1, <1>2 DEF DecodeAt
  <2>2. R[p] = {<<>>}
    BY <1>1, <1>2 DEF ReadAt
  <2>3. ValidateFrom(s, p) = "ok"
    BY <1>2, ValidEquation
  <2>4. QED
    BY <2>1, <2>2, <2>3
<1>3. /\ {Control, BadUtf8, Backslash} \cap Chars = {}
      /\ Control # Backslash /\ BadUtf8 # Backslash
  BY DEF Chars, Control, BadUtf8, Backslash, High, Low, Wide
<1>4. p < N => R[p] = UNION {{<<x.char>> \o r : r \in R[x.end]} : x \in Items(s, p)}
  BY <1>0, ReadItems DEF R
<1>5. p < N => D[p] = LET next == IF s[p + 1] = Backslash THEN esc ELSE Item(s[p + 1], p + 1)
                      IN  IF next.end = None THEN [out |-> <<>>, failed |-> TRUE]
                          ELSE [D[next.end] EXCEPT !.out = <<next.char>> \o @]
  <2>1. p < N => ByteAt(s, p) = s[p + 1]
    BY <1>0, ByteIs
  <2>2. QED
    BY <2>1, <1>0, <1>1 DEF DecodeAt, Item, esc
<1>6. ASSUME NEW c, NEW e PROVE UNION {{<<x.char>> \o r : r \in R[x.end]} : x \in {Item(c, e)}} = {<<c>> \o r : r \in R[e]}
  <2>1. Item(c, e).char = c /\ Item(c, e).end = e
    BY DEF Item
  <2> DEFINE Adds(x) == {<<x.char>> \o r : r \in R[x.end]}
  <2>2. Adds(Item(c, e)) = {<<c>> \o r : r \in R[e]}
    BY <2>1
  <2> HIDE DEF Adds
  <2>3. UNION {Adds(x) : x \in {Item(c, e)}} = Adds(Item(c, e))
    OBVIOUS
  <2>4. QED
    BY <2>2, <2>3 DEF Adds
<1>7. p < N => Items(s, p) = CASE s[p + 1] \in Chars -> {Item(s[p + 1], p + 1)}
                               [] s[p + 1] = Backslash -> IF esc = NoItem THEN {} ELSE {esc}
                               [] OTHER -> {}
  BY <1>0, ItemForms DEF esc
<1>8. ASSUME p < N, s[p + 1] \in Chars PROVE GoesOn(s, p, s[p + 1], p + 1)
  <2> DEFINE c == s[p + 1]
             e == p + 1
  <2>0. c # Backslash /\ c \notin {Control, BadUtf8, Backslash} /\ e # None
    BY <1>0, <1>3, <1>8, ScanAssumption DEF ScanAssumption
  <2>1. R[p] = {<<c>> \o r : r \in R[e]}
    <3>1. Items(s, p) = {Item(c, e)}
      BY <1>7, <1>8, <2>0
    <3> HIDE DEF c, e
    <3>2. UNION {{<<x.char>> \o r : r \in R[x.end]} : x \in {Item(c, e)}} = {<<c>> \o r : r \in R[e]}
      BY <1>6
    <3>3. QED
      BY <1>4, <1>8, <3>1, <3>2
  <2>2. ValidateFrom(s, p) = ValidateFrom(s, e)
    BY <1>8, <2>0, ValidEquation
  <2>3. D[p] = [D[e] EXCEPT !.out = <<c>> \o @]
    <3>1. Item(c, e).char = c /\ Item(c, e).end = e
      BY DEF Item
    <3> HIDE DEF e
    <3>2. D[p] = LET next == Item(c, e)
                 IN  IF next.end = None THEN [out |-> <<>>, failed |-> TRUE]
                     ELSE [D[next.end] EXCEPT !.out = <<next.char>> \o @]
      BY <1>5, <1>8, <2>0 DEF e
    <3> HIDE DEF c
    <3>3. QED
      BY <2>0, <3>1, <3>2
  <2>4. QED
    BY <2>1, <2>2, <2>3 DEF GoesOn, R, D
<1>9. ASSUME p < N PROVE esc.end = EscapeEnd(s, p + 1) /\ (esc = NoItem <=> EscapeEnd(s, p + 1) = None)
  BY <1>0, <1>9, EndsAhead DEF esc
<1>10. ASSUME p < N, s[p + 1] = Backslash, esc # NoItem PROVE GoesOn(s, p, esc.char, esc.end)
  <2>0. esc.end # None /\ EscapeEnd(s, p + 1) # None
    BY <1>9, <1>10
  <2>1. R[p] = {<<esc.char>> \o r : r \in R[esc.end]}
    <3>1. Items(s, p) = {esc}
      BY <1>3, <1>7, <1>10
    <3> DEFINE Adds(x) == {<<x.char>> \o r : r \in R[x.end]}
    <3>2. R[p] = UNION {Adds(x) : x \in {esc}}
      BY <1>4, <1>10, <3>1
    <3> HIDE DEF Adds
    <3>3. R[p] = Adds(esc)
      BY <3>2
    <3>4. QED
      BY <3>3 DEF Adds
  <2>2. ValidateFrom(s, p) = ValidateFrom(s, esc.end)
    BY <1>9, <1>10, <2>0, ValidEquation
  <2>3. D[p] = [D[esc.end] EXCEPT !.out = <<esc.char>> \o @]
    BY <1>5, <1>10, <2>0
  <2>4. QED
    BY <2>1, <2>2, <2>3 DEF GoesOn, R, D
<1>11. ASSUME p < N, (s[p + 1] = Backslash /\ esc = NoItem) \/ s[p + 1] \in {Control, BadUtf8}
       PROVE  ValidateFrom(s, p) # "ok" /\ R[p] = {}
  <2>1. ValidateFrom(s, p) # "ok"
    BY <1>9, <1>11, ValidEquation
  <2>2. Items(s, p) = {}
    BY <1>3, <1>7, <1>11
  <2>3. R[p] = {}
    BY <1>4, <1>11, <2>2
  <2>4. QED
    BY <2>1, <2>3
<1>12. QED
  BY <1>2, <1>8, <1>10, <1>11 DEF D, R, esc

-----------------------------------------------------------------------------
(* Inside a string: where the lexer does not escape, no quote stands.       *)

InSpan(s, p) == Lex(s, Lexer(TRUE, FALSE), 0, p)

LEMMA SpanType ==
    ASSUME NEW s, NEW N \in Nat
    PROVE  /\ InSpan(s, 0) = Lexer(TRUE, FALSE)
           /\ \A p \in 0..N : IsLexed(InSpan(s, p))
           /\ \A p \in 0..N : InSpan(s, p + 1) = LexByte(InSpan(s, p), s[p + 1], p)
<1> DEFINE S == {p \in 0..N : IsLexed(InSpan(s, p))}
           s0 == Lexer(TRUE, FALSE)
<1>1. InSpan(s, 0) = Lexer(TRUE, FALSE)
  <2>1. 0 \in Nat
    OBVIOUS
  <2>2. QED
    BY <2>1, LexStarts DEF InSpan
<1>2. ASSUME NEW p \in 0..N PROVE InSpan(s, p + 1) = LexByte(InSpan(s, p), s[p + 1], p)
  <2>1. 0 \in Nat /\ p \in Nat /\ 0 <= p
    OBVIOUS
  <2> HIDE DEF s0
  <2>2. Lex(s, s0, 0, p + 1) = LexByte(Lex(s, s0, 0, p), s[p + 1], p)
    BY <2>1, LexNext
  <2>3. QED
    BY <2>2 DEF InSpan, s0
<1>3. 0 \in S
  <2>1. IsLexed(Lexer(TRUE, FALSE))
    BY DEF IsLexed, LexState, Lexer
  <2>2. IsLexed(InSpan(s, 0))
    BY <1>1, <2>1, Zenon
  <2>3. 0 \in 0..N
    OBVIOUS
  <2>4. QED
    BY <2>2, <2>3
<1>4. ASSUME NEW p \in S, p < N PROVE p + 1 \in S
  <2>1. p \in Nat /\ p \in 0..N /\ p + 1 \in 0..N /\ IsLexed(InSpan(s, p))
    BY <1>4
  <2>2. IsLexed(InSpan(s, p + 1))
    BY <2>1, <1>2, LexByteType
  <2>3. QED
    BY <2>1, <2>2
<1>5. S = 0..N
  <2>1. S \subseteq 0..N
    OBVIOUS
  <2> HIDE DEF S
  <2>2. QED
    BY <2>1, <1>3, <1>4, Climb
<1>6. \A p \in 0..N : IsLexed(InSpan(s, p))
  BY <1>5
<1> HIDE DEF S
<1>7. QED
  BY <1>1, <1>2, <1>6

LEMMA BeforeOpen ==
    ASSUME NEW s, IsLexed(s), NEW b, NEW p \in Nat, LexByte(s, b, p).open, LexByte(s, b, p).out = <<>>
    PROVE  /\ s.open /\ s.out = <<>>
           /\ LexByte(s, b, p).escaped <=> (b = Backslash /\ ~s.escaped)
           /\ ~s.escaped => b # Quote
<1>1. s \in LexState /\ (s.escaped => s.open)
  BY DEF IsLexed
<1>2. Append(s.out, p) # <<>>
  BY <1>1 DEF LexState
<1>3. CASE s.escaped
  <2>1. LexByte(s, b, p) = [s EXCEPT !.escaped = FALSE]
    BY <1>3 DEF LexByte
  <2>2. QED
    BY <1>1, <1>3, <2>1 DEF LexState
<1>4. CASE ~s.escaped /\ b = Backslash
  <2>0. Backslash # Quote /\ Backslash \notin Structurals
    BY DEF Quote, Backslash, Structurals, Brackets, Openers
  <2>1. CASE s.open
    <3>1. LexByte(s, b, p) = [s EXCEPT !.escaped = TRUE]
      BY <1>4, <2>0, <2>1 DEF LexByte
    <3>2. QED
      BY <1>1, <1>4, <2>0, <3>1 DEF LexState
  <2>2. CASE ~s.open
    <3>1. LexByte(s, b, p) = s
      BY <1>4, <2>0, <2>2 DEF LexByte
    <3>2. QED
      BY <2>2, <3>1
  <2>3. QED
    BY <2>1, <2>2, <1>1 DEF LexState
<1>5. CASE ~s.escaped /\ b # Backslash /\ b = Quote
  <2>1. LexByte(s, b, p) = [s EXCEPT !.open = ~s.open, !.out = Append(s.out, p)]
    BY <1>5 DEF LexByte
  <2>2. LexByte(s, b, p).out = Append(s.out, p)
    BY <1>1, <2>1 DEF LexState
  <2>3. QED
    BY <1>2, <2>2
<1>6. CASE ~s.escaped /\ b # Backslash /\ b # Quote
  <2>1. LexByte(s, b, p) = IF ~s.open /\ b \in Structurals THEN [s EXCEPT !.out = Append(s.out, p)] ELSE s
    BY <1>6 DEF LexByte
  <2>2. [s EXCEPT !.out = Append(s.out, p)].out = Append(s.out, p)
    BY <1>1 DEF LexState
  <2>3. LexByte(s, b, p) = s
    BY <1>2, <2>1, <2>2
  <2>4. QED
    BY <1>6, <2>3
<1>7. QED
  BY <1>3, <1>4, <1>5, <1>6

Escapes(s, p) == InSpan(s, p).escaped

LEMMA SpanLexes ==
    ASSUME NEW s \in Seq(Bytes), InSpan(s, Len(s)) = Lexer(TRUE, FALSE)
    PROVE  /\ ~Escapes(s, 0)
           /\ \A p \in 0..Len(s) - 1 : /\ Escapes(s, p + 1) <=> (s[p + 1] = Backslash /\ ~Escapes(s, p))
                                       /\ ~Escapes(s, p) => s[p + 1] # Quote
<1> DEFINE N == Len(s)
           Good(p) == InSpan(s, p).open /\ InSpan(s, p).out = <<>>
           S == {m \in 0..N : Good(N - m)}
<1>0. N \in Nat
  OBVIOUS
<1>1. /\ InSpan(s, 0) = Lexer(TRUE, FALSE)
      /\ \A p \in 0..N : IsLexed(InSpan(s, p))
      /\ \A p \in 0..N : InSpan(s, p + 1) = LexByte(InSpan(s, p), s[p + 1], p)
  BY <1>0, SpanType
<1>2. ASSUME NEW p \in 0..N - 1, Good(p + 1)
      PROVE  /\ Good(p)
             /\ Escapes(s, p + 1) <=> (s[p + 1] = Backslash /\ ~Escapes(s, p))
             /\ ~Escapes(s, p) => s[p + 1] # Quote
  <2> DEFINE a == InSpan(s, p)
             b == s[p + 1]
  <2>1. p \in 0..N /\ p \in Nat
    BY <1>0
  <2>2. IsLexed(a) /\ InSpan(s, p + 1) = LexByte(a, b, p)
    BY <1>1, <2>1
  <2>3. LexByte(a, b, p).open /\ LexByte(a, b, p).out = <<>>
    BY <1>2, <2>2
  <2> HIDE DEF a, b
  <2>4. /\ a.open /\ a.out = <<>>
        /\ LexByte(a, b, p).escaped <=> (b = Backslash /\ ~a.escaped)
        /\ ~a.escaped => b # Quote
    BY <2>1, <2>2, <2>3, BeforeOpen
  <2>5. QED
    BY <2>2, <2>4 DEF a, b, Escapes
<1>3. 0 \in S
  <2>1. N - 0 = N /\ 0 \in 0..N
    BY <1>0
  <2>2. Good(N)
    BY DEF Lexer
  <2>3. QED
    BY <2>1, <2>2
<1>4. ASSUME NEW m \in S, m < N PROVE m + 1 \in S
  <2> DEFINE p == N - (m + 1)
  <2>1. m + 1 \in 0..N /\ p \in 0..N - 1 /\ p + 1 = N - m
    BY <1>0, <1>4
  <2>2. Good(N - m)
    OBVIOUS
  <2> HIDE DEF Good, p
  <2>3. Good(p)
    BY <1>2, <2>1, <2>2
  <2>4. QED
    BY <2>1, <2>3 DEF p
<1>5. S = 0..N
  <2>1. S \subseteq 0..N
    OBVIOUS
  <2> HIDE DEF S, N
  <2>2. QED
    BY <1>0, <2>1, <1>3, <1>4, Climb
<1>6. ASSUME NEW p \in 0..N PROVE Good(p)
  <2>1. N - p \in 0..N /\ N - (N - p) = p
    BY <1>0
  <2>2. N - p \in S
    BY <1>5, <2>1
  <2>3. Good(N - (N - p))
    BY <2>2
  <2> HIDE DEF Good
  <2>4. QED
    BY <2>1, <2>3
<1>7. \A p \in 0..N - 1 : Good(p + 1)
  <2>1. \A p \in 0..N - 1 : p + 1 \in 0..N
    BY <1>0
  <2> HIDE DEF Good
  <2>2. QED
    BY <2>1, <1>6
<1>8. ~Escapes(s, 0)
  BY <1>1 DEF Escapes, Lexer
<1> HIDE DEF Good
<1>9. QED
  BY <1>2, <1>7, <1>8

LEMMA EscapeEndsOpen ==
    ASSUME None \notin Bytes, NEW s \in Seq(Bytes), InSpan(s, Len(s)) = Lexer(TRUE, FALSE),
           NEW p \in Nat, p < Len(s), ~Escapes(s, p), s[p + 1] = Backslash, Escaped(s, p) # NoItem
    PROVE  Escaped(s, p).end \in p + 1..Len(s) /\ ~Escapes(s, Escaped(s, p).end)
<1> DEFINE N == Len(s)
           e == Escaped(s, p).end
<1>0. N \in Nat /\ N - 1 \in Int
  OBVIOUS
<1>1. \A q \in 0..N - 1 : Escapes(s, q + 1) <=> (s[q + 1] = Backslash /\ ~Escapes(s, q))
  BY SpanLexes
<1>2. /\ High # Backslash /\ Low # Backslash /\ "00e9" # Backslash /\ "u" # Backslash
  BY DEF High, Low, Backslash
<1>3. Escapes(s, p + 1)
  <2>1. p \in 0..N - 1
    BY <1>0
  <2>2. QED
    BY <1>1, <2>1
<1>4. ASSUME p + 2 <= N PROVE ~Escapes(s, p + 2)
  <2>1. p + 1 \in 0..N - 1 /\ (p + 1) + 1 = p + 2
    BY <1>0, <1>4
  <2>2. QED
    BY <1>1, <1>3, <2>1
<1>5. ASSUME p + 3 <= N, s[p + 3] # Backslash PROVE ~Escapes(s, p + 3)
  <2>1. p + 2 \in 0..N - 1 /\ (p + 2) + 1 = p + 3
    BY <1>0, <1>5
  <2>2. QED
    BY <1>1, <1>5, <2>1
<1>6. ASSUME p + 6 <= N, s[p + 6] # Backslash PROVE ~Escapes(s, p + 6)
  <2>1. p + 5 \in 0..N - 1 /\ (p + 5) + 1 = p + 6
    BY <1>0, <1>6
  <2>2. QED
    BY <1>1, <1>6, <2>1
<1>7. \/ ShortAt(s, p) /\ e = p + 2
      \/ QuadAt(s, p) /\ e = p + 3
      \/ PairAt(s, p) /\ e = p + 6
  <2>1. \A c, z : Item(c, z).end = z
    BY DEF Item
  <2>2. QED
    BY <2>1, EscapeForms
<1>8. e \in p + 1..N
  <2>1. /\ p + 2 <= N => p + 2 \in p + 1..N
        /\ p + 3 <= N => p + 3 \in p + 1..N
        /\ p + 6 <= N => p + 6 \in p + 1..N
    BY <1>0
  <2> HIDE DEF e
  <2>2. QED
    BY <1>7, <2>1 DEF ShortAt, QuadAt, PairAt
<1> HIDE DEF e
<1>9. ~Escapes(s, e)
  BY <1>2, <1>4, <1>5, <1>6, <1>7 DEF ShortAt, QuadAt, PairAt
<1>10. QED
  BY <1>8, <1>9 DEF e

\* What is wanted of the rest of s from p on.
Unescaped(s, p) == \A j \in p + 1..Len(s) : s[j] # Backslash
Means(s, p) ==
    /\ ValidateFrom(s, p) = "ok" <=> ReadFcn(s)[p] # {}
    /\ ValidateFrom(s, p) = "ok" =>
         \E x : /\ DecodeFcn(s)[p] = [out |-> x, failed |-> FALSE]
                /\ ReadFcn(s)[p] = {x}
                /\ Unescaped(s, p) => x = SubSeq(s, p + 1, Len(s))

LEMMA SubSeqGrows ==
    ASSUME NEW s \in Seq(Bytes), NEW p \in Nat, p < Len(s)
    PROVE  <<s[p + 1]>> \o SubSeq(s, (p + 1) + 1, Len(s)) = SubSeq(s, p + 1, Len(s))
<1> DEFINE m == p + 1
           n == Len(s)
<1>1. m \in 1..Len(s) /\ n \in m..Len(s)
  OBVIOUS
<1> HIDE DEF m, n
<1>2. SubSeq(s, m, n) = <<s[m]>> \o SubSeq(s, m + 1, n)
  BY <1>1, SubSeqRecursiveFirst
<1>3. QED
  BY <1>2 DEF m, n

LEMMA MeansNext ==
    ASSUME NEW s \in Seq(Bytes), NEW p \in Nat, p < Len(s), NEW c, NEW e, GoesOn(s, p, c, e), Means(s, e),
           (c = s[p + 1] /\ e = p + 1) \/ s[p + 1] = Backslash
    PROVE  Means(s, p)
<1> DEFINE D == DecodeFcn(s)
           R == ReadFcn(s)
           ok == ValidateFrom(s, p) = "ok"
<1>0. Len(s) \in Nat
  OBVIOUS
<1>1. /\ D[p] = [D[e] EXCEPT !.out = <<c>> \o @]
      /\ R[p] = {<<c>> \o r : r \in R[e]}
      /\ ok <=> ValidateFrom(s, e) = "ok"
  BY DEF GoesOn
<1>2. /\ ok <=> R[e] # {}
      /\ ok => \E x : /\ D[e] = [out |-> x, failed |-> FALSE]
                      /\ R[e] = {x}
                      /\ Unescaped(s, e) => x = SubSeq(s, e + 1, Len(s))
  BY <1>1 DEF Means
<1> HIDE DEF D, R, ok
<1>3. ok <=> R[p] # {}
  <2> DEFINE F(z) == <<c>> \o z
  <2>1. R[p] = {F(z) : z \in R[e]}
    BY <1>1
  <2> HIDE DEF F
  <2>2. R[p] # {} <=> R[e] # {}
    BY <2>1
  <2>3. QED
    BY <1>2, <2>2
<1>4. ASSUME ok PROVE \E x : /\ D[p] = [out |-> x, failed |-> FALSE]
                             /\ R[p] = {x}
                             /\ Unescaped(s, p) => x = SubSeq(s, p + 1, Len(s))
  <2>1. PICK x : /\ D[e] = [out |-> x, failed |-> FALSE]
                 /\ R[e] = {x}
                 /\ Unescaped(s, e) => x = SubSeq(s, e + 1, Len(s))
    BY <1>2, <1>4
  <2> DEFINE y == <<c>> \o x
  <2>2. D[p] = [out |-> y, failed |-> FALSE]
    <3> DEFINE z == [out |-> x, failed |-> FALSE]
    <3>1. D[p] = [z EXCEPT !.out = <<c>> \o z.out]
      BY <1>1, <2>1, Zenon
    <3>2. z.out = x
      OBVIOUS
    <3>3. D[p] = [z EXCEPT !.out = y]
      BY <3>1, <3>2
    <3> HIDE DEF y
    <3>4. [z EXCEPT !.out = y] = [out |-> y, failed |-> FALSE]
      <4> DEFINE w == [z EXCEPT !.out = y]
      <4>1. w \in [out : {x, y}, failed : {FALSE}] /\ w.out = y /\ w.failed = FALSE
        OBVIOUS
      <4> HIDE DEF z, w
      <4>2. w = [out |-> w.out, failed |-> w.failed]
        BY <4>1
      <4>3. QED
        BY <4>1, <4>2 DEF w
    <3>5. QED
      BY <3>3, <3>4
  <2>3. R[p] = {y}
    <3> DEFINE F(z) == <<c>> \o z
    <3>1. R[p] = {F(z) : z \in {x}}
      BY <1>1, <2>1
    <3> HIDE DEF F
    <3>2. R[p] = {F(x)}
      BY <3>1
    <3>3. QED
      BY <3>2 DEF F
  <2>4. Unescaped(s, p) => y = SubSeq(s, p + 1, Len(s))
    <3>1. ASSUME Unescaped(s, p) PROVE c = s[p + 1] /\ e = p + 1 /\ Unescaped(s, e)
      <4>1. p + 1 \in p + 1..Len(s) /\ \A j \in (p + 1) + 1..Len(s) : j \in p + 1..Len(s)
        BY <1>0
      <4>2. QED
        BY <3>1, <4>1 DEF Unescaped
    <3>2. <<s[p + 1]>> \o SubSeq(s, (p + 1) + 1, Len(s)) = SubSeq(s, p + 1, Len(s))
      BY SubSeqGrows
    <3>3. QED
      BY <2>1, <3>1, <3>2
  <2> HIDE DEF y
  <2>5. QED
    BY <2>2, <2>3, <2>4
<1>5. QED
  BY <1>3, <1>4 DEF Means, D, R, ok

LEMMA MeansAll ==
    ASSUME None \notin Bytes, NEW s \in Seq(Bytes), InSpan(s, Len(s)) = Lexer(TRUE, FALSE)
    PROVE  \A p \in 0..Len(s) : ~Escapes(s, p) => Means(s, p)
<1> DEFINE N == Len(s)
           Claim(p) == ~Escapes(s, p) => Means(s, p)
           S == {m \in 0..N : \A q \in N - m..N : Claim(q)}
<1>0. N \in Nat
  OBVIOUS
<1>1. Claim(N)
  <2>1. N \in 0..Len(s) /\ N = Len(s)
    BY <1>0
  <2>2. ValidateFrom(s, N) = "ok" /\ DecodeFcn(s)[N] = [out |-> <<>>, failed |-> FALSE] /\ ReadFcn(s)[N] = {<<>>}
    BY <2>1, Places
  <2>3. SubSeq(s, N + 1, N) = <<>>
    <3>1. N + 1 \in Int /\ N \in Int /\ (\A j \in N + 1..N : s[j] \in Bytes) /\ ~(N + 1 <= N)
      BY <1>0
    <3>2. SubSeq(s, N + 1, N) \in Seq(Bytes) /\ Len(SubSeq(s, N + 1, N)) = 0
      BY <3>1, SubSeqProperties
    <3>3. QED
      BY <3>2, EmptySeq
  <2> HIDE DEF N
  <2>4. Means(s, N)
    BY <2>1, <2>2, <2>3 DEF Means
  <2>5. QED
    BY <2>4
<1>2. ASSUME NEW p \in 0..N - 1, \A q \in p + 1..N : Claim(q), ~Escapes(s, p)
      PROVE  Means(s, p)
  <2> DEFINE c == s[p + 1]
             esc == Escaped(s, p)
  <2>0. p \in Nat /\ p < N /\ p \in 0..N /\ p + 1 \in p + 1..N /\ p # N /\ p + 1 \in 1..N
    BY <1>0
  <2>1. /\ Escapes(s, p + 1) <=> c = Backslash
        /\ c # Quote
    BY <1>2, SpanLexes
  <2>2. c \in Chars \/ c \in {Backslash, Control, BadUtf8}
    BY <2>0, <2>1 DEF Bytes
  <2>3. Backslash \notin Chars
    BY DEF Chars, Backslash, High, Low, Wide
  <2>4. CASE c \in Chars
    <3>1. GoesOn(s, p, c, p + 1)
      BY <2>0, <2>4, Places
    <3>2. Means(s, p + 1)
      BY <1>2, <2>0, <2>1, <2>3, <2>4
    <3> HIDE DEF N
    <3>3. QED
      BY <2>0, <3>1, <3>2, MeansNext DEF N
  <2>5. CASE c = Backslash /\ esc # NoItem
    <3>1. GoesOn(s, p, esc.char, esc.end)
      BY <2>0, <2>5, Places
    <3>2. esc.end \in p + 1..N /\ ~Escapes(s, esc.end)
      BY <1>2, <2>0, <2>5, EscapeEndsOpen
    <3> HIDE DEF esc
    <3>3. Means(s, esc.end)
      BY <1>2, <3>2
    <3> DEFINE e == esc.end
               x == esc.char
    <3>4. GoesOn(s, p, x, e) /\ Means(s, e) /\ p < Len(s) /\ s[p + 1] = Backslash
      BY <2>0, <2>5, <3>1, <3>3
    <3> HIDE DEF e, x
    <3>5. QED
      BY <2>0, <3>4, MeansNext
  <2>6. CASE (c = Backslash /\ esc = NoItem) \/ c \in {Control, BadUtf8}
    <3>1. ValidateFrom(s, p) # "ok" /\ ReadFcn(s)[p] = {}
      BY <2>0, <2>6, Places
    <3>2. QED
      BY <3>1 DEF Means
  <2>7. QED
    BY <2>2, <2>4, <2>5, <2>6
<1> HIDE DEF Claim
<1>3. 0 \in S
  <2>1. 0 \in 0..N /\ \A q \in N - 0..N : q = N
    BY <1>0
  <2>2. QED
    BY <1>1, <2>1
<1>4. ASSUME NEW m \in S, m < N PROVE m + 1 \in S
  <2> DEFINE p == N - (m + 1)
  <2>1. m + 1 \in 0..N /\ p \in 0..N - 1 /\ p + 1 = N - m /\ \A q \in p..N : q = p \/ q \in p + 1..N
    BY <1>0, <1>4
  <2>2. \A q \in N - m..N : Claim(q)
    OBVIOUS
  <2> HIDE DEF p
  <2>3. Claim(p)
    BY <1>2, <2>1, <2>2 DEF Claim
  <2>4. \A q \in p..N : Claim(q)
    BY <2>1, <2>2, <2>3
  <2>5. QED
    BY <2>1, <2>4 DEF p
<1>5. S = 0..N
  <2>1. S \subseteq 0..N
    OBVIOUS
  <2> HIDE DEF S, N
  <2>2. QED
    BY <1>0, <2>1, <1>3, <1>4, Climb
<1>6. N \in S /\ N - N = 0
  <2> HIDE DEF S
  <2> QED
    BY <1>0, <1>5
<1>7. \A q \in N - N..N : Claim(q)
  BY <1>6
<1>8. QED
  BY <1>6, <1>7 DEF Claim

-----------------------------------------------------------------------------
(* The vector validators hand over without having missed anything.          *)

LEMMA UnwatchedPrefix ==
    ASSUME None \notin Bytes, NEW s \in Seq(Bytes), NEW q \in 0..Len(s), \A p \in 0..q - 1 : ByteAt(s, p) \notin Watched
    PROVE  ValidateFrom(s, q) = ValidateFrom(s, 0)
<1> DEFINE S == {m \in 0..q : ValidateFrom(s, m) = ValidateFrom(s, 0)}
<1>0. Len(s) \in Nat /\ q \in Nat
  OBVIOUS
<1>1. 0 \in S
  BY <1>0
<1>2. ASSUME NEW m \in S, m < q PROVE m + 1 \in S
  <2>1. m \in Nat /\ m \in 0..Len(s) /\ m < Len(s) /\ m \in 0..q - 1 /\ m + 1 \in 0..q
    BY <1>0, <1>2
  <2>2. ByteAt(s, m) = s[m + 1]
    BY <2>1, ByteIs
  <2>3. s[m + 1] \notin {Control, BadUtf8, Backslash}
    BY <2>1, <2>2 DEF Watched
  <2>4. ValidateFrom(s, m) = ValidateFrom(s, m + 1)
    BY <2>1, <2>3, ValidEquation
  <2>5. QED
    BY <2>1, <2>4
<1>3. S = 0..q
  <2>1. S \subseteq 0..q
    OBVIOUS
  <2> HIDE DEF S
  <2>2. QED
    BY <1>0, <2>1, <1>1, <1>2, Climb
<1>4. q \in S
  <2> HIDE DEF S
  <2> QED
    BY <1>0, <1>3
<1>5. QED
  BY <1>4

LEMMA HandOver ==
    ASSUME None \notin Bytes, NEW s \in Seq(Bytes)
    PROVE  ValidateSpan(s) = ValidateFrom(s, 0)
<1> DEFINE N == Len(s)
           last == N - (N % W)
           hits == {p \in 0..last - 1 : ByteAt(s, p) \in Watched}
           from == IF hits = {} THEN last ELSE Min(hits)
<1>0. N \in Nat /\ W \in Nat \ {0} /\ last \in 0..N
  <2>1. N \in Nat /\ W \in Nat \ {0}
    BY ScanAssumption DEF ScanAssumption
  <2> HIDE DEF N
  <2>2. N % W \in 0..N
    <3> DEFINE r == N % W
    <3>1. r \in Nat /\ r <= N
      BY <2>1, RemainderFacts
    <3> HIDE DEF r
    <3>2. r \in 0..N
      BY <2>1, <3>1
    <3>3. QED
      BY <3>2 DEF r
  <2>3. QED
    BY <2>1, <2>2
<1>1. ValidateSpan(s) = ValidateFrom(s, from)
  BY DEF ValidateSpan
<1> HIDE DEF last
<1>2. from \in 0..N /\ \A p \in 0..from - 1 : p \notin hits /\ p \in 0..last - 1
  <2>1. CASE hits = {}
    BY <1>0, <2>1
  <2>2. CASE hits # {}
    <3>1. hits \in SUBSET Nat /\ IsFiniteSet(hits) /\ hits \subseteq 0..last - 1
      <4>1. IsFiniteSet(0..last - 1) /\ hits \in SUBSET (0..last - 1) /\ 0..last - 1 \subseteq Nat
        <5>1. 0 \in Int /\ last - 1 \in Int
          BY <1>0
        <5>2. IsFiniteSet(0..last - 1)
          BY <5>1, FS_Interval
        <5>3. QED
          BY <5>2
      <4> HIDE DEF hits
      <4>2. QED
        BY <4>1, FS_Subset
    <3> HIDE DEF hits
    <3>2. \E z \in hits : \A y \in hits : z <= y
      BY <2>2, <3>1, EndsExist
    <3>3. Min(hits) \in hits /\ \A y \in hits : Min(hits) <= y
      BY <3>2 DEF Min
    <3>4. from = Min(hits)
      BY <2>2
    <3> HIDE DEF from
    <3>5. from \in 0..last - 1 /\ \A y \in hits : from <= y
      BY <3>1, <3>3, <3>4
    <3>6. QED
      BY <1>0, <3>1, <3>5
  <2>3. QED
    BY <2>1, <2>2
<1>3. \A p \in 0..from - 1 : ByteAt(s, p) \notin Watched
  BY <1>2
<1> HIDE DEF from, hits
<1>4. ValidateFrom(s, from) = ValidateFrom(s, 0)
  BY <1>2, <1>3, UnwatchedPrefix
<1>5. QED
  BY <1>1, <1>4

\* decode_string and validate_span: whatever the content of a string is, it is
\* accepted just when it has a meaning, has one meaning then, and decodes to
\* it, copied out of the buffer or into scratch, validated now or before.
THEOREM StringsDecode == Spec => []StringsMeanThat
<1>1. StringsMeanThat
  <2> SUFFICES ASSUME NEW s \in Spans
               PROVE  LET checked == DecodeString(s, FALSE, <<>>)
                      IN  /\ (checked.rc = "ok") = (Readings(s) # {})
                          /\ checked.rc = "ok" => Readings(s) = {checked.val} /\ DecodeString(s, TRUE, <<>>) = checked
    BY DEF StringsMeanThat
  <2> DEFINE v == ValidateSpan(s)
             d == DecodeEscapes(s)
             a == DecodeString(s, FALSE, <<>>)
             b == DecodeString(s, TRUE, <<>>)
             R == Readings(s)
  <2> SUFFICES (a.rc = "ok") = (R # {}) /\ (a.rc = "ok" => R = {a.val} /\ b = a)
    OBVIOUS
  <2>1. None \notin Bytes /\ s \in Seq(Bytes) /\ InSpan(s, Len(s)) = Lexer(TRUE, FALSE)
    BY SpanAssumption DEF SpanAssumption, InSpan
  <2>2. 0 \in 0..Len(s) /\ Len(s) \in Nat
    BY <2>1
  <2>3. Means(s, 0)
    <3>1. ~Escapes(s, 0)
      BY <2>1, SpanLexes
    <3>2. QED
      BY <2>1, <2>2, <3>1, MeansAll
  <2>4. v = ValidateFrom(s, 0) /\ d = DecodeFcn(s)[0] /\ R = ReadFcn(s)[0]
    <3>1. v = ValidateFrom(s, 0)
      BY <2>1, HandOver
    <3>2. d = DecodeFcn(s)[0]
      BY DEF DecodeEscapes, DecodeFcn, DecodeAt
    <3>3. R = ReadFcn(s)[0]
      BY DEF Readings, ReadFcn, ReadAt
    <3>4. QED
      BY <3>1, <3>2, <3>3
  <2>5. /\ a = IF v # "ok" THEN Decoded(v, <<>>, None, <<>>)
              ELSE IF Backslash \notin Range(s) THEN Decoded("ok", s, "buf", <<>>)
              ELSE IF d.failed THEN Decoded("decode_failed", <<>>, None, d.out)
              ELSE Decoded("ok", d.out, "scratch", d.out)
        /\ b = IF Backslash \notin Range(s) THEN Decoded("ok", s, "buf", <<>>)
              ELSE IF d.failed THEN Decoded("decode_failed", <<>>, None, d.out)
              ELSE Decoded("ok", d.out, "scratch", d.out)
    BY DEF DecodeString
  <2>6. Backslash \notin Range(s) => Unescaped(s, 0) /\ SubSeq(s, 0 + 1, Len(s)) = s
    <3>1. \A j \in 0 + 1..Len(s) : s[j] \in Range(s)
      BY <2>1 DEF Range
    <3>2. SubSeq(s, 1, Len(s)) = s
      BY <2>1, SubSeqFull
    <3>3. QED
      BY <3>1, <3>2 DEF Unescaped
  <2> HIDE DEF v, d, a, b, R
  <2>7. /\ v = "ok" <=> R # {}
        /\ v = "ok" => \E x : /\ d = [out |-> x, failed |-> FALSE]
                              /\ R = {x}
                              /\ Backslash \notin Range(s) => x = s
    BY <2>3, <2>4, <2>6 DEF Means
  <2>8. \A rc, chars, place, scr : Decoded(rc, chars, place, scr).rc = rc /\ Decoded(rc, chars, place, scr).val = chars
    BY DEF Decoded
  <2>9. CASE v # "ok"
    BY <2>5, <2>7, <2>8, <2>9
  <2>10. CASE v = "ok" /\ Backslash \notin Range(s)
    <3>1. R = {s}
      BY <2>7, <2>10
    <3>2. a = Decoded("ok", s, "buf", <<>>) /\ b = a
      BY <2>5, <2>10
    <3>3. a.rc = "ok" /\ a.val = s
      BY <2>8, <3>2
    <3>4. QED
      BY <3>1, <3>2, <3>3
  <2>11. CASE v = "ok" /\ Backslash \in Range(s)
    <3>1. PICK x : d = [out |-> x, failed |-> FALSE] /\ R = {x}
      BY <2>7, <2>11
    <3>2. d.out = x /\ ~d.failed
      BY <3>1
    <3>3. a = Decoded("ok", x, "scratch", x) /\ b = a
      BY <2>5, <2>11, <3>2
    <3>4. a.rc = "ok" /\ a.val = x
      BY <2>8, <3>3
    <3>5. QED
      BY <3>1, <3>3, <3>4
  <2>12. QED
    BY <2>9, <2>10, <2>11
<1>2. QED
  BY <1>1, PTL DEF Spec

-----------------------------------------------------------------------------
(* Numbers: the validator is greedy, the grammar is not.                    *)

LEMMA DigitFacts ==
    /\ DOMAIN Digit = {"0", "1", "2", "3", "4", "5", "6", "7", "8", "9"}
    /\ \A d \in DOMAIN Digit : Digit[d] \in Nat /\ Digit[d] <= 9
    /\ NumberBytes = DOMAIN Digit \cup {"-", "+", ".", "e", "E"}
    /\ {"-", "+", ".", "e", "E"} \cap DOMAIN Digit = {}
<1>1. DOMAIN Digit = {"0", "1", "2", "3", "4", "5", "6", "7", "8", "9"}
  BY DEF Digit
<1>2. ASSUME NEW d \in DOMAIN Digit PROVE Digit[d] \in Nat /\ Digit[d] <= 9
  <2>0. CASE d = "0"
    BY <2>0 DEF Digit
  <2>1. CASE d = "1"
    BY <2>1 DEF Digit
  <2>2. CASE d = "2"
    BY <2>2 DEF Digit
  <2>3. CASE d = "3"
    BY <2>3 DEF Digit
  <2>4. CASE d = "4"
    BY <2>4 DEF Digit
  <2>5. CASE d = "5"
    BY <2>5 DEF Digit
  <2>6. CASE d = "6"
    BY <2>6 DEF Digit
  <2>7. CASE d = "7"
    BY <2>7 DEF Digit
  <2>8. CASE d = "8"
    BY <2>8 DEF Digit
  <2>9. CASE d = "9"
    BY <2>9 DEF Digit
  <2>10. QED
    BY <1>1, <2>0, <2>1, <2>2, <2>3, <2>4, <2>5, <2>6, <2>7, <2>8, <2>9
<1>3. {"-", "+", ".", "e", "E"} \cap DOMAIN Digit = {}
  BY <1>1
<1>4. QED
  BY <1>1, <1>2, <1>3 DEF NumberBytes

\* A byte of a token, where there is one.
LEMMA TokenByte ==
    ASSUME NEW U, NEW s \in Seq(U), NEW p \in Nat
    PROVE  /\ IsDigit(ByteAt(s, p)) <=> p + 1 <= Len(s) /\ IsDigit(s[p + 1])
           /\ \A b \in NumberBytes : ByteAt(s, p) = b <=> p + 1 <= Len(s) /\ s[p + 1] = b
<1>1. Len(s) \in Nat
  OBVIOUS
<1>2. (p < Len(s)) = (p + 1 <= Len(s))
  BY <1>1
<1>3. None \notin NumberBytes /\ DOMAIN Digit \subseteq NumberBytes
  BY TokenAssumption, DigitFacts DEF TokenAssumption
<1>4. ByteAt(s, p) = IF p + 1 <= Len(s) THEN s[p + 1] ELSE None
  BY <1>2 DEF ByteAt
<1>5. QED
  BY <1>3, <1>4 DEF IsDigit

LEMMA DigitsEndIs ==
    ASSUME NEW U, NEW s \in Seq(U), NEW p \in 0..Len(s)
    PROVE  /\ DigitsEnd(s, p) \in p..Len(s)
           /\ \A k \in p..DigitsEnd(s, p) - 1 : IsDigit(ByteAt(s, k))
           /\ ~IsDigit(ByteAt(s, DigitsEnd(s, p)))
<1> DEFINE N == Len(s)
           S == {k \in p..N : ~IsDigit(ByteAt(s, k))}
           e == DigitsEnd(s, p)
<1>0. N \in Nat /\ p \in Nat /\ p <= N
  OBVIOUS
<1>1. N \in S
  <2>1. ~(N + 1 <= N)
    BY <1>0
  <2>2. ~IsDigit(ByteAt(s, N))
    BY <1>0, <2>1, TokenByte
  <2>3. QED
    BY <1>0, <2>2
<1>2. S \in SUBSET Nat /\ IsFiniteSet(S)
  <2>1. IsFiniteSet(p..N)
    BY <1>0, FS_Interval
  <2>2. S \in SUBSET (p..N) /\ p..N \subseteq Nat
    BY <1>0
  <2> HIDE DEF S
  <2>3. QED
    BY <2>1, <2>2, FS_Subset
<1>3. e = Min(S)
  BY DEF DigitsEnd
<1>4. e \in S /\ \A y \in S : e <= y
  <2> HIDE DEF S, e
  <2>1. \E z \in S : \A y \in S : z <= y
    BY <1>1, <1>2, EndsExist
  <2>2. QED
    BY <1>3, <2>1 DEF Min
<1> HIDE DEF e
<1>5. e \in p..N /\ ~IsDigit(ByteAt(s, e))
  BY <1>4
<1>6. ASSUME NEW k \in p..e - 1 PROVE IsDigit(ByteAt(s, k))
  <2>1. k \in p..N /\ ~(e <= k)
    BY <1>0, <1>5
  <2>2. QED
    BY <2>1, <1>4
<1>7. QED
  BY <1>5, <1>6 DEF e

\* The digits at p that no digit follows are those the validator takes.
LEMMA DigitsAre ==
    ASSUME NEW U, NEW s \in Seq(U), NEW p \in 0..Len(s)
    PROVE  /\ IsDigit(ByteAt(s, p)) => Digits(s, p, DigitsEnd(s, p))
           /\ \A q \in 0..Len(s) : Digits(s, p, q) =>
                /\ IsDigit(ByteAt(s, p))
                /\ ~IsDigit(ByteAt(s, q)) => q = DigitsEnd(s, p)
<1> DEFINE N == Len(s)
           e == DigitsEnd(s, p)
<1>0. N \in Nat /\ p \in Nat /\ p <= N
  OBVIOUS
<1>1. e \in p..N /\ (\A k \in p..e - 1 : IsDigit(ByteAt(s, k))) /\ ~IsDigit(ByteAt(s, e))
  BY DigitsEndIs
<1>2. \A k \in 1..N : IsDigit(ByteAt(s, k - 1)) <=> IsDigit(s[k])
  <2> SUFFICES ASSUME NEW k \in 1..N PROVE IsDigit(ByteAt(s, k - 1)) <=> IsDigit(s[k])
    OBVIOUS
  <2>1. k - 1 \in Nat /\ (k - 1) + 1 = k /\ k <= N
    BY <1>0
  <2>2. QED
    BY <2>1, TokenByte
<1> HIDE DEF e
<1>3. ASSUME IsDigit(ByteAt(s, p)) PROVE Digits(s, p, e)
  <2>1. p < e
    <3>1. p # e
      BY <1>1, <1>3
    <3>2. QED
      BY <3>1, <1>0, <1>1
  <2>2. ASSUME NEW k \in p + 1..e PROVE IsDigit(s[k])
    <3>1. k \in 1..N /\ k - 1 \in p..e - 1
      BY <1>0, <1>1
    <3>2. QED
      BY <3>1, <1>1, <1>2
  <2>3. QED
    BY <2>1, <2>2 DEF Digits
<1>4. ASSUME NEW q \in 0..N, Digits(s, p, q)
      PROVE  IsDigit(ByteAt(s, p)) /\ (~IsDigit(ByteAt(s, q)) => q = e)
  <2>1. p < q /\ \A k \in p + 1..q : IsDigit(s[k])
    BY <1>4 DEF Digits
  <2>2. ASSUME NEW k \in p..q - 1 PROVE IsDigit(ByteAt(s, k))
    <3>1. k + 1 \in p + 1..q /\ k + 1 \in 1..N /\ (k + 1) - 1 = k
      BY <1>0, <2>1
    <3>2. QED
      BY <3>1, <2>1, <1>2
  <2>3. p \in p..q - 1
    BY <1>0, <2>1
  <2>4. ~(e \in p..q - 1)
    BY <2>2, <1>1
  <2>5. ASSUME ~IsDigit(ByteAt(s, q)) PROVE q = e
    <3>1. ~(q \in p..e - 1)
      BY <1>1, <2>5
    <3>2. QED
      BY <1>0, <1>1, <2>1, <2>4, <3>1
  <2>6. QED
    BY <2>2, <2>3, <2>5
<1>5. QED
  BY <1>3, <1>4 DEF e

\* The integer part that no digit follows is the one IntegerEnd finds.
LEMMA IntegerPart ==
    ASSUME NEW U, NEW s \in Seq(U), NEW p \in 0..Len(s)
    PROVE  /\ IntegerEnd(s, p) # None => IntegerEnd(s, p) \in 0..Len(s) /\ Whole(s, p, IntegerEnd(s, p))
           /\ \A q \in 0..Len(s) : Whole(s, p, q) /\ ~IsDigit(ByteAt(s, q)) => IntegerEnd(s, p) = q
<1> DEFINE N == Len(s)
           e == IntegerEnd(s, p)
           d == DigitsEnd(s, p)
<1>0. N \in Nat /\ p \in Nat /\ p <= N /\ p + 1 \in Nat
  OBVIOUS
<1>1. /\ d \in p..N
      /\ IsDigit(ByteAt(s, p)) => Digits(s, p, d)
      /\ \A q \in 0..N : Digits(s, p, q) => IsDigit(ByteAt(s, p)) /\ (~IsDigit(ByteAt(s, q)) => q = d)
  BY DigitsEndIs, DigitsAre
<1>2. /\ ByteAt(s, p) = "0" <=> p + 1 <= N /\ s[p + 1] = "0"
      /\ IsDigit(ByteAt(s, p)) <=> p + 1 <= N /\ IsDigit(s[p + 1])
  BY <1>0, TokenByte, DigitFacts
<1>3. IsDigit(ByteAt(s, p)) <=> ByteAt(s, p) \in DOMAIN Digit
  BY DEF IsDigit
<1>4. "0" \in DOMAIN Digit
  BY DigitFacts
<1>5. e = IF ByteAt(s, p) = "0" THEN p + 1 ELSE IF ByteAt(s, p) \in DOMAIN Digit THEN d ELSE None
  BY DEF IntegerEnd
<1> HIDE DEF e, d
<1>6. CASE ByteAt(s, p) = "0"
  <2>1. e = p + 1 /\ s[p + 1] = "0" /\ p + 1 <= N
    BY <1>2, <1>5, <1>6
  <2>2. Whole(s, p, e)
    <3>1. IsDigit(s[p + 1])
      BY <2>1, <1>4 DEF IsDigit
    <3>2. p < p + 1 /\ \A k \in p + 1..p + 1 : k = p + 1
      BY <1>0
    <3>3. QED
      BY <2>1, <3>1, <3>2 DEF Whole, Digits
  <2>3. \A q \in 0..N : Whole(s, p, q) => q = p + 1
    BY <2>1 DEF Whole
  <2>4. e \in 0..N
    BY <1>0, <2>1
  <2>5. QED
    BY <2>1, <2>2, <2>3, <2>4 DEF e
<1>7. CASE ByteAt(s, p) # "0" /\ IsDigit(ByteAt(s, p))
  <2>1. e = d /\ Digits(s, p, d) /\ s[p + 1] # "0" /\ d \in 0..N
    BY <1>0, <1>1, <1>2, <1>3, <1>5, <1>7
  <2>2. Whole(s, p, e)
    BY <2>1 DEF Whole
  <2>3. \A q \in 0..N : Whole(s, p, q) /\ ~IsDigit(ByteAt(s, q)) => q = d
    BY <1>1 DEF Whole
  <2>4. QED
    BY <2>1, <2>2, <2>3 DEF e
<1>8. CASE ~IsDigit(ByteAt(s, p))
  <2>1. e = None
    BY <1>3, <1>4, <1>5, <1>8
  <2>2. \A q \in 0..N : ~Whole(s, p, q)
    BY <1>1, <1>8 DEF Whole
  <2>3. QED
    BY <2>1, <2>2 DEF e
<1>9. QED
  BY <1>6, <1>7, <1>8

LEMMA FractionPart ==
    ASSUME NEW U, NEW s \in Seq(U), NEW p \in 0..Len(s)
    PROVE  LET e == PartEnd(s, p, {"."}, {})
           IN  /\ e # None => e \in p..Len(s) /\ (e = p \/ Fraction(s, p, e))
               /\ \A q \in p..Len(s) :
                    (q = p \/ Fraction(s, p, q)) /\ ~IsDigit(ByteAt(s, q)) /\ ByteAt(s, q) # "." => e = q
<1> DEFINE N == Len(s)
           e == PartEnd(s, p, {"."}, {})
           d == DigitsEnd(s, p + 1)
<1>0. N \in Nat /\ p \in Nat /\ p <= N /\ p + 1 \in Nat
  OBVIOUS
<1>1. p # None
  BY <1>0, ScanAssumption DEF ScanAssumption
<1>2. ByteAt(s, p) = "." <=> p + 1 <= N /\ s[p + 1] = "."
  BY <1>0, TokenByte, DigitFacts
<1>3. e = IF ByteAt(s, p) # "." THEN p ELSE IF IsDigit(ByteAt(s, p + 1)) THEN d ELSE None
  BY <1>1 DEF PartEnd
<1>4. CASE ByteAt(s, p) # "."
  <2>1. e = p /\ p \in p..N
    BY <1>0, <1>3, <1>4
  <2>2. \A q \in p..N : ~Fraction(s, p, q)
    <3> SUFFICES ASSUME NEW q \in p..N, Fraction(s, p, q) PROVE FALSE
      OBVIOUS
    <3>1. p < q /\ s[p + 1] = "."
      BY DEF Fraction
    <3>2. p + 1 <= N
      BY <3>1, <1>0
    <3>3. QED
      BY <3>1, <3>2, <1>2, <1>4
  <2> HIDE DEF e
  <2>3. QED
    BY <2>1, <2>2 DEF e
<1>5. CASE ByteAt(s, p) = "."
  <2>0. p + 1 <= N /\ s[p + 1] = "." /\ p + 1 \in 0..N
    BY <1>0, <1>2, <1>5
  <2>1. /\ d \in p + 1..N
        /\ IsDigit(ByteAt(s, p + 1)) => Digits(s, p + 1, d)
        /\ \A q \in 0..N : Digits(s, p + 1, q) => IsDigit(ByteAt(s, p + 1)) /\ (~IsDigit(ByteAt(s, q)) => q = d)
    BY <2>0, DigitsEndIs, DigitsAre
  <2>2. e = IF IsDigit(ByteAt(s, p + 1)) THEN d ELSE None
    BY <1>3, <1>5
  <2> HIDE DEF e, d
  <2>3. e # None => e \in p..N /\ Fraction(s, p, e)
    <3> SUFFICES ASSUME e # None PROVE e \in p..N /\ Fraction(s, p, e)
      OBVIOUS
    <3>1. e = d /\ Digits(s, p + 1, d)
      BY <2>1, <2>2
    <3>2. d \in p..N /\ p < d
      BY <1>0, <2>1
    <3>3. QED
      BY <2>0, <3>1, <3>2 DEF Fraction
  <2>4. ASSUME NEW q \in p..N, q = p \/ Fraction(s, p, q), ~IsDigit(ByteAt(s, q)), ByteAt(s, q) # "."
        PROVE  e = q
    <3>1. q # p /\ q \in 0..N
      BY <1>0, <1>5, <2>4
    <3>2. Digits(s, p + 1, q)
      BY <3>1, <2>4 DEF Fraction
    <3>3. QED
      BY <3>1, <3>2, <2>1, <2>2, <2>4
  <2>5. QED
    BY <2>3, <2>4 DEF e
<1>6. QED
  BY <1>4, <1>5

LEMMA ExponentPart ==
    ASSUME NEW U, NEW s \in Seq(U), NEW p \in 0..Len(s)
    PROVE  PartEnd(s, p, {"e", "E"}, {"+", "-"}) = Len(s) <=> p = Len(s) \/ Exponent(s, p, Len(s))
<1> DEFINE N == Len(s)
           e == PartEnd(s, p, {"e", "E"}, {"+", "-"})
           signed == ByteAt(s, p + 1) \in {"+", "-"}
           first == IF signed THEN p + 2 ELSE p + 1
           d == DigitsEnd(s, first)
<1>0. N \in Nat /\ p \in Nat /\ p <= N /\ p + 1 \in Nat /\ (p + 1) + 1 = p + 2 /\ first \in Nat
  OBVIOUS
<1>1. p # None /\ N # None
  BY <1>0, ScanAssumption DEF ScanAssumption
<1>2. /\ ByteAt(s, p) \in {"e", "E"} <=> p + 1 <= N /\ s[p + 1] \in {"e", "E"}
      /\ signed <=> p + 2 <= N /\ s[p + 2] \in {"+", "-"}
  <2>a. {"e", "E"} \subseteq NumberBytes /\ {"+", "-"} \subseteq NumberBytes
    BY DEF NumberBytes
  <2>b. \A r \in Nat : \A b \in NumberBytes : ByteAt(s, r) = b <=> r + 1 <= N /\ s[r + 1] = b
    BY TokenByte
  <2>1. \A b \in {"e", "E"} : ByteAt(s, p) = b <=> p + 1 <= N /\ s[p + 1] = b
    BY <1>0, <2>a, <2>b
  <2>2. \A b \in {"+", "-"} : ByteAt(s, p + 1) = b <=> (p + 1) + 1 <= N /\ s[(p + 1) + 1] = b
    BY <1>0, <2>a, <2>b
  <2>3. \A b \in {"+", "-"} : ByteAt(s, p + 1) = b <=> p + 2 <= N /\ s[p + 2] = b
    BY <2>2, <1>0
  <2>4. QED
    BY <2>1, <2>3
<1>3. e = IF ByteAt(s, p) \notin {"e", "E"} THEN p ELSE IF IsDigit(ByteAt(s, first)) THEN d ELSE None
  BY <1>1 DEF PartEnd
<1>4. CASE ByteAt(s, p) \notin {"e", "E"}
  <2>1. e = p
    BY <1>3, <1>4
  <2>2. ~Exponent(s, p, N)
    <3> SUFFICES ASSUME Exponent(s, p, N) PROVE FALSE
      OBVIOUS
    <3>1. p < N /\ s[p + 1] \in {"e", "E"}
      BY DEF Exponent
    <3>2. p + 1 <= N
      BY <3>1, <1>0
    <3>3. QED
      BY <3>1, <3>2, <1>2, <1>4
  <2>3. QED
    BY <2>1, <2>2
<1>5. CASE ByteAt(s, p) \in {"e", "E"}
  <2>0. p + 1 <= N /\ s[p + 1] \in {"e", "E"} /\ p < N /\ p # N
    BY <1>0, <1>2, <1>5
  <2>1. first \in 0..N
    BY <1>0, <1>2, <2>0
  <2> HIDE DEF first, signed
  <2>2. Exponent(s, p, N) <=> Digits(s, first, N)
    <3>1. CASE signed
      <4>1. first = p + 2 /\ p + 2 <= N /\ s[p + 2] \in {"+", "-"}
        BY <3>1, <1>2 DEF first
      <4>2. ~Digits(s, p + 1, N)
        <5> SUFFICES ASSUME Digits(s, p + 1, N) PROVE FALSE
          OBVIOUS
        <5>1. p + 2 \in (p + 1) + 1..N
          BY <1>0, <4>1
        <5>2. IsDigit(s[p + 2])
          BY <5>1 DEF Digits
        <5>3. QED
          BY <5>2, <4>1, DigitFacts DEF IsDigit
      <4>3. p + 1 < N
        BY <1>0, <4>1
      <4>4. QED
        BY <2>0, <4>1, <4>2, <4>3 DEF Exponent
    <3>2. CASE ~signed
      <4>1. first = p + 1
        BY <3>2 DEF first
      <4>2. ~(p + 1 < N /\ s[p + 2] \in {"+", "-"})
        <5>1. p + 1 < N => p + 2 <= N
          BY <1>0
        <5>2. QED
          BY <5>1, <3>2, <1>2
      <4>3. QED
        BY <2>0, <4>1, <4>2 DEF Exponent
    <3>3. QED
      BY <3>1, <3>2
  <2>3. e = IF IsDigit(ByteAt(s, first)) THEN d ELSE None
    BY <1>3, <1>5
  <2> HIDE DEF e
  <2>4. /\ IsDigit(ByteAt(s, first)) => Digits(s, first, d)
        /\ Digits(s, first, N) => IsDigit(ByteAt(s, first)) /\ (~IsDigit(ByteAt(s, N)) => N = d)
    <3>1. N \in 0..N
      BY <1>0
    <3> HIDE DEF N
    <3>2. QED
      BY <2>1, <3>1, DigitsAre DEF N
  <2>5. ~IsDigit(ByteAt(s, N))
    <3>1. ~(N + 1 <= N)
      BY <1>0
    <3>2. QED
      BY <1>0, <3>1, TokenByte
  <2>6. e = N <=> Digits(s, first, N)
    BY <2>3, <2>4, <2>5, <1>1
  <2>7. QED
    BY <2>0, <2>2, <2>6 DEF e
<1>6. QED
  BY <1>4, <1>5

\* A sign is no digit: where the integer part of a number begins.
SignEnd(s) == IF ByteAt(s, 0) = "-" THEN 1 ELSE 0

LEMMA IntegralIs ==
    ASSUME NEW U, NEW s \in Seq(U)
    PROVE  /\ SignEnd(s) \in 0..Len(s)
           /\ \A q \in 0..Len(s) : Integral(s, q) <=> Whole(s, SignEnd(s), q)
<1>0. Len(s) \in Nat
  OBVIOUS
<1>1. ByteAt(s, 0) = "-" <=> 1 <= Len(s) /\ s[1] = "-"
  <2>1. ByteAt(s, 0) = "-" <=> 0 + 1 <= Len(s) /\ s[0 + 1] = "-"
    <3>1. 0 \in Nat /\ "-" \in NumberBytes
      BY DigitFacts
    <3>2. QED
      BY <3>1, TokenByte
  <2>2. 0 + 1 = 1
    OBVIOUS
  <2>3. QED
    BY <2>1, <2>2
<1>2. SignEnd(s) \in 0..Len(s)
  BY <1>0, <1>1 DEF SignEnd
<1>3. ASSUME NEW q \in 0..Len(s) PROVE Integral(s, q) <=> Whole(s, SignEnd(s), q)
  <2>1. Whole(s, 0, q) => q > 0 /\ s[1] # "-"
    <3> SUFFICES ASSUME Whole(s, 0, q) PROVE q > 0 /\ s[1] # "-"
      OBVIOUS
    <3>1. 0 < q /\ \A k \in 0 + 1..q : IsDigit(s[k])
      BY DEF Whole, Digits
    <3>2. 1 \in 0 + 1..q /\ q > 0
      BY <3>1, <1>0
    <3>3. IsDigit(s[1])
      BY <3>1, <3>2
    <3>4. QED
      BY <3>2, <3>3, DigitFacts DEF IsDigit
  <2>2. Whole(s, 1, q) => q > 0 /\ 1 <= Len(s)
    <3>1. Whole(s, 1, q) => 1 < q
      BY DEF Whole, Digits
    <3>2. QED
      BY <3>1, <1>0
  <2>3. q > 0 => 1 <= Len(s)
    BY <1>0
  <2>4. CASE ByteAt(s, 0) = "-"
    BY <2>1, <2>2, <2>4, <1>1 DEF Integral, SignEnd
  <2>5. CASE ByteAt(s, 0) # "-"
    BY <2>1, <2>2, <2>3, <2>5, <1>1 DEF Integral, SignEnd
  <2>6. QED
    BY <2>4, <2>5
<1>4. QED
  BY <1>2, <1>3

\* validate_number takes just the numbers of the grammar.
LEMMA ValidIsNumeral ==
    ASSUME NEW U, NEW s \in Seq(U)
    PROVE  ValidNumber(s) <=> IsNumeral(s)
<1> DEFINE N == Len(s)
           p == SignEnd(s)
           w == IntegerEnd(s, p)
           f == IF w = None THEN None ELSE PartEnd(s, w, {"."}, {})
           Splits(a, b) == /\ Integral(s, a)
                           /\ b = a \/ Fraction(s, a, b)
                           /\ b = N \/ Exponent(s, b, N)
<1>0. N \in Nat
  OBVIOUS
<1>1. ValidNumber(s) <=> f # None /\ PartEnd(s, f, {"e", "E"}, {"+", "-"}) = N
  BY DEF ValidNumber, SignEnd
<1>2. IsNumeral(s) <=> \E a \in 0..N : \E b \in a..N : Splits(a, b)
  BY DEF IsNumeral
<1>3. p \in 0..N /\ \A q \in 0..N : Integral(s, q) <=> Whole(s, p, q)
  BY IntegralIs
<1> HIDE DEF p
<1>4. /\ w # None => w \in 0..N /\ Whole(s, p, w)
      /\ \A q \in 0..N : Whole(s, p, q) /\ ~IsDigit(ByteAt(s, q)) => w = q
  BY <1>3, IntegerPart
<1> HIDE DEF w
<1>5. ASSUME w # None
      PROVE  /\ f # None => f \in w..N /\ (f = w \/ Fraction(s, w, f))
             /\ \A q \in w..N : (q = w \/ Fraction(s, w, q)) /\ ~IsDigit(ByteAt(s, q)) /\ ByteAt(s, q) # "." => f = q
  <2>1. w \in 0..N
    BY <1>4, <1>5
  <2>2. f = PartEnd(s, w, {"."}, {})
    BY <1>5
  <2> HIDE DEF f
  <2>3. QED
    BY <2>1, <2>2, FractionPart
<1>a. w = None => f = None
  OBVIOUS
<1> HIDE DEF f
<1>6. \A b \in 0..N : PartEnd(s, b, {"e", "E"}, {"+", "-"}) = N <=> b = N \/ Exponent(s, b, N)
  BY ExponentPart
<1>7. ASSUME ValidNumber(s) PROVE IsNumeral(s)
  <2>1. f # None /\ w # None
    BY <1>1, <1>7, <1>a
  <2>2. w \in 0..N /\ Whole(s, p, w) /\ f \in w..N /\ (f = w \/ Fraction(s, w, f))
    BY <2>1, <1>4, <1>5
  <2>3. f \in 0..N
    BY <2>2, <1>0
  <2>4. f = N \/ Exponent(s, f, N)
    BY <2>3, <1>1, <1>6, <1>7
  <2>5. Splits(w, f)
    BY <2>2, <2>4, <1>3
  <2> HIDE DEF Splits
  <2>6. QED
    BY <2>2, <2>5, <1>2
<1>8. ASSUME IsNumeral(s) PROVE ValidNumber(s)
  <2>1. PICK a \in 0..N : \E b \in a..N : Splits(a, b)
    BY <1>2, <1>8
  <2>2. PICK b \in a..N : Splits(a, b)
    BY <2>1
  <2>0. a \in Nat /\ b \in Nat /\ a <= b /\ b <= N /\ b \in 0..N
    BY <1>0
  <2>3. ~IsDigit(ByteAt(s, b)) /\ ByteAt(s, b) # "."
    <3>1. /\ IsDigit(ByteAt(s, b)) <=> b + 1 <= N /\ IsDigit(s[b + 1])
          /\ ByteAt(s, b) = "." <=> b + 1 <= N /\ s[b + 1] = "."
      BY <2>0, TokenByte, DigitFacts
    <3>2. CASE b = N
      BY <3>1, <3>2, <2>0
    <3>3. CASE Exponent(s, b, N)
      <4>1. s[b + 1] \in {"e", "E"}
        BY <3>3 DEF Exponent
      <4>2. QED
        BY <3>1, <4>1, DigitFacts DEF IsDigit
    <3>4. QED
      BY <3>2, <3>3, <2>2
  <2>4. ~IsDigit(ByteAt(s, a))
    <3>1. CASE b = a
      BY <3>1, <2>3
    <3>2. CASE Fraction(s, a, b)
      <4>1. s[a + 1] = "."
        BY <3>2 DEF Fraction
      <4>2. IsDigit(ByteAt(s, a)) => IsDigit(s[a + 1])
        BY <2>0, TokenByte
      <4>3. QED
        BY <4>1, <4>2, DigitFacts DEF IsDigit
    <3>3. QED
      BY <3>1, <3>2, <2>2
  <2>5. w = a /\ w # None
    <3>1. Whole(s, p, a)
      BY <2>2, <1>3
    <3>2. w = a
      BY <3>1, <2>4, <1>4
    <3>3. a # None
      BY <2>0, ScanAssumption DEF ScanAssumption
    <3>4. QED
      BY <3>2, <3>3
  <2>6. f = b /\ f # None
    <3>1. b = w \/ Fraction(s, w, b)
      BY <2>2, <2>5
    <3>2. b \in w..N
      BY <2>5
    <3>3. f = b
      BY <3>1, <3>2, <2>3, <2>5, <1>5
    <3>4. b # None
      BY <2>0, ScanAssumption DEF ScanAssumption
    <3>5. QED
      BY <3>3, <3>4
  <2>7. PartEnd(s, b, {"e", "E"}, {"+", "-"}) = N
    BY <2>0, <2>2, <1>6
  <2>8. QED
    BY <2>6, <2>7, <1>1
<1>9. QED
  BY <1>7, <1>8

\* The first byte of a number, and what tells an integer from another number.
LEMMA NumeralBytes ==
    ASSUME NEW U, NEW s \in Seq(U), IsNumeral(s)
    PROVE  /\ Len(s) >= 1 /\ ByteAt(s, 0) = s[1]
           /\ ByteAt(s, 0) \in DOMAIN Digit \cup {"-"}
           /\ {".", "e", "E"} \cap Range(s) = {} <=> IsInteger(s)
<1> DEFINE N == Len(s)
           Marks == {".", "e", "E"}
<1>0. N \in Nat /\ Range(s) = {s[k] : k \in 1..N}
  BY DEF Range
<1>1. PICK a \in 0..N : \E b \in a..N :
        Integral(s, a) /\ (b = a \/ Fraction(s, a, b)) /\ (b = N \/ Exponent(s, b, N))
  BY DEF IsNumeral
<1>2. PICK b \in a..N : Integral(s, a) /\ (b = a \/ Fraction(s, a, b)) /\ (b = N \/ Exponent(s, b, N))
  BY <1>1
<1>3. a \in Nat /\ b \in Nat /\ a <= b /\ b <= N
  BY <1>0
<1>4. ASSUME NEW q \in 0..N, Integral(s, q)
      PROVE  1 <= q /\ s[1] \in DOMAIN Digit \cup {"-"} /\ \A k \in 1..q : s[k] \in DOMAIN Digit \cup {"-"}
  <2>1. CASE Whole(s, 0, q)
    <3>1. 0 < q /\ \A k \in 0 + 1..q : IsDigit(s[k])
      BY <2>1 DEF Whole, Digits
    <3>2. 0 + 1 = 1 /\ 1 \in 1..q
      BY <3>1, <1>0
    <3>3. QED
      BY <3>1, <3>2 DEF IsDigit
  <2>2. CASE s[1] = "-" /\ Whole(s, 1, q)
    <3>1. 1 < q /\ \A k \in 1 + 1..q : IsDigit(s[k])
      BY <2>2 DEF Whole, Digits
    <3>2. \A k \in 1..q : k = 1 \/ k \in 1 + 1..q
      BY <3>1, <1>0
    <3>3. \A k \in 1..q : s[k] \in DOMAIN Digit \cup {"-"}
      BY <3>1, <3>2, <2>2 DEF IsDigit
    <3>4. 1 <= q
      BY <3>1, <1>0
    <3>5. QED
      BY <3>3, <3>4, <2>2
  <2>3. QED
    BY <2>1, <2>2, <1>4 DEF Integral
<1>5. 1 <= a /\ 1 <= N /\ s[1] \in DOMAIN Digit \cup {"-"}
  <2>1. 1 <= a /\ s[1] \in DOMAIN Digit \cup {"-"}
    BY <1>2, <1>4
  <2>2. QED
    BY <2>1, <1>3, <1>0
<1>6. ByteAt(s, 0) = s[1]
  <2>1. 0 < Len(s) /\ 0 + 1 = 1
    BY <1>0, <1>5
  <2>2. QED
    BY <2>1 DEF ByteAt
<1>7. ASSUME Marks \cap Range(s) = {} PROVE IsInteger(s)
  <2>1. \A k \in 1..N : s[k] \notin Marks
    BY <1>7, <1>0
  <2>2. ~Fraction(s, a, b)
    <3>1. Fraction(s, a, b) => a + 1 \in 1..N /\ s[a + 1] = "."
      <4>1. Fraction(s, a, b) => a < b /\ s[a + 1] = "."
        BY DEF Fraction
      <4>2. QED
        BY <4>1, <1>3, <1>0
    <3>2. QED
      BY <3>1, <2>1
  <2>3. ~Exponent(s, b, N)
    <3>1. Exponent(s, b, N) => b + 1 \in 1..N /\ s[b + 1] \in {"e", "E"}
      <4>1. Exponent(s, b, N) => b < N /\ s[b + 1] \in {"e", "E"}
        BY DEF Exponent
      <4>2. QED
        BY <4>1, <1>3, <1>0
    <3>2. QED
      BY <3>1, <2>1
  <2>4. QED
    BY <1>2, <2>2, <2>3 DEF IsInteger
<1>8. ASSUME IsInteger(s) PROVE Marks \cap Range(s) = {}
  <2>1. N \in 0..N /\ Integral(s, N)
    BY <1>0, <1>8 DEF IsInteger
  <2>2. \A k \in 1..N : s[k] \in DOMAIN Digit \cup {"-"}
    BY <2>1, <1>4
  <2>3. \A b1 \in Marks : b1 \notin DOMAIN Digit \cup {"-"}
    BY DigitFacts
  <2>4. QED
    BY <2>2, <2>3, <1>0
<1>9. QED
  BY <1>5, <1>6, <1>7, <1>8

\* The digits of an integer, behind its sign.
LEMMA IntegerDigits ==
    ASSUME NEW U, NEW s \in Seq(U), IsInteger(s)
    PROVE  LET from == IF s[1] = "-" THEN 1 ELSE 0
           IN  from < Len(s) /\ \A k \in from + 1..Len(s) : s[k] \in DOMAIN Digit
<1>1. Len(s) \in Nat /\ Len(s) \in 0..Len(s)
  OBVIOUS
<1>2. CASE Whole(s, 0, Len(s))
  <2>1. 0 < Len(s) /\ \A k \in 0 + 1..Len(s) : s[k] \in DOMAIN Digit
    BY <1>2 DEF Whole, Digits, IsDigit
  <2>2. 1 \in 0 + 1..Len(s)
    BY <1>1, <2>1
  <2>3. s[1] # "-"
    BY <2>1, <2>2, DigitFacts
  <2>4. QED
    BY <2>1, <2>3
<1>3. CASE s[1] = "-" /\ Whole(s, 1, Len(s))
  BY <1>3 DEF Whole, Digits, IsDigit
<1>4. QED
  BY <1>2, <1>3 DEF IsInteger, Integral

-----------------------------------------------------------------------------
(* What an integer amounts to.                                              *)

\* Step by step from v0: G has each value made from the one before.
Stepwise(f, n, V, v0, G) == f \in [0..n -> V] /\ f[0] = v0 /\ \A k \in 1..n : f[k] = G[k][f[k - 1]]

LEMMA StepsExist ==
    ASSUME NEW n \in Nat, NEW V, NEW v0 \in V, NEW G \in [1..n -> [V -> V]]
    PROVE  \E f : Stepwise(f, n, V, v0, G)
<1> DEFINE Runs(m, f) == f \in [0..m -> V] /\ f[0] = v0 /\ \A k \in 1..m : f[k] = G[k][f[k - 1]]
           S == {m \in 0..n : \E f : Runs(m, f)}
<1>1. 0 \in S
  <2> DEFINE f == [k \in 0..0 |-> v0]
  <2>1. f \in [0..0 -> V] /\ f[0] = v0 /\ 1..0 = {}
    OBVIOUS
  <2> HIDE DEF f
  <2>2. Runs(0, f)
    BY <2>1
  <2>3. QED
    BY <2>2
<1>2. ASSUME NEW m \in S, m < n PROVE m + 1 \in S
  <2>1. PICK f : Runs(m, f)
    BY <1>2
  <2>0. m \in Nat /\ m + 1 \in 0..n /\ m + 1 \in 1..n
    BY <1>2
  <2>2. f \in [0..m -> V] /\ f[0] = v0 /\ \A k \in 1..m : f[k] = G[k][f[k - 1]]
    BY <2>1
  <2> DEFINE g == [k \in 0..m + 1 |-> IF k <= m THEN f[k] ELSE G[m + 1][f[m]]]
  <2>3. G[m + 1][f[m]] \in V
    <3>1. f[m] \in V
      BY <2>0, <2>2
    <3>2. G[m + 1] \in [V -> V]
      BY <2>0
    <3>3. QED
      BY <3>1, <3>2
  <2>4. \A k \in 0..m : g[k] = f[k] /\ g[k] \in V
    BY <2>0, <2>2
  <2>5. g[m + 1] = G[m + 1][f[m]]
    BY <2>0
  <2>6. g \in [0..m + 1 -> V]
    <3>1. \A k \in 0..m + 1 : k \in 0..m \/ k = m + 1
      BY <2>0
    <3>2. \A k \in 0..m + 1 : g[k] \in V
      BY <3>1, <2>3, <2>4, <2>5
    <3>3. g = [k \in 0..m + 1 |-> g[k]]
      OBVIOUS
    <3> HIDE DEF g
    <3>4. QED
      BY <3>2, <3>3
  <2> HIDE DEF g
  <2>7. g[0] = v0
    <3>1. 0 \in 0..m
      BY <2>0
    <3>2. QED
      BY <3>1, <2>2, <2>4
  <2>8. ASSUME NEW k \in 1..m + 1 PROVE g[k] = G[k][g[k - 1]]
    <3>1. k - 1 \in 0..m
      BY <2>0
    <3>2. g[k - 1] = f[k - 1]
      BY <3>1, <2>4
    <3>3. CASE k \in 1..m
      <4>1. k \in 0..m
        BY <3>3
      <4>2. g[k] = f[k]
        BY <4>1, <2>4
      <4>3. QED
        BY <4>2, <3>2, <3>3, <2>2
    <3>4. CASE k = m + 1
      <4>1. k - 1 = m
        BY <2>0, <3>4
      <4>2. QED
        BY <4>1, <3>2, <3>4, <2>5
    <3>5. QED
      BY <2>0, <3>3, <3>4
  <2>9. Runs(m + 1, g)
    BY <2>6, <2>7, <2>8
  <2> HIDE DEF Runs
  <2>10. QED
    BY <2>0, <2>9
<1>3. S = 0..n
  <2>1. S \subseteq 0..n
    OBVIOUS
  <2> HIDE DEF S
  <2>2. QED
    BY <1>1, <1>2, <2>1, Climb
<1>4. n \in S
  <2> HIDE DEF S
  <2> QED
    BY <1>3
<1>5. PICK f : Runs(n, f)
  BY <1>4
<1>6. QED
  BY <1>5 DEF Stepwise

\* u has the value of each prefix of the digits c, as an unbounded number.
PrefixValues(u, c, n) == u \in [0..n -> Nat] /\ u[0] = 0 /\ \A k \in 1..n : u[k] = u[k - 1] * 10 + c[k]

LEMMA PrefixValuesExist ==
    ASSUME NEW n \in Nat, NEW c \in [1..n -> Nat]
    PROVE  \E u : PrefixValues(u, c, n)
<1> DEFINE G == [k \in 1..n |-> [v \in Nat |-> v * 10 + c[k]]]
<1>1. ASSUME NEW k \in 1..n, NEW v \in Nat PROVE G[k][v] = v * 10 + c[k] /\ v * 10 + c[k] \in Nat
  <2>1. c[k] \in Nat
    OBVIOUS
  <2>2. v * 10 + c[k] \in Nat
    BY <2>1
  <2>3. QED
    BY <2>2
<1>2. G \in [1..n -> [Nat -> Nat]]
  <2>1. ASSUME NEW k \in 1..n PROVE [v \in Nat |-> v * 10 + c[k]] \in [Nat -> Nat]
    <3>1. c[k] \in Nat
      OBVIOUS
    <3>2. \A v \in Nat : v * 10 + c[k] \in Nat
      BY <3>1
    <3>3. QED
      BY <3>2
  <2>2. QED
    BY <2>1
<1> HIDE DEF G
<1>3. PICK u \in [0..n -> Nat] : u[0] = 0 /\ \A k \in 1..n : u[k] = G[k][u[k - 1]]
  <2> DEFINE V == Nat
             zero == 0
  <2>1. zero \in V /\ G \in [1..n -> [V -> V]]
    BY <1>2
  <2> HIDE DEF V, zero
  <2>2. \E u : Stepwise(u, n, V, zero, G)
    BY <2>1, StepsExist, ZenonT(60)
  <2>3. QED
    BY <2>2 DEF V, zero, Stepwise
<1>4. ASSUME NEW k \in 1..n PROVE u[k] = u[k - 1] * 10 + c[k]
  <2>1. k - 1 \in 0..n
    OBVIOUS
  <2>2. u[k - 1] \in Nat
    BY <2>1
  <2>3. QED
    BY <2>2, <1>1, <1>3
<1>5. QED
  BY <1>3, <1>4 DEF PrefixValues

\* The same downwards, from the value at the upper end.
StepsDown(f, a, n, V, v0, G) == f \in [a..n -> V] /\ f[n] = v0 /\ \A k \in a..n - 1 : f[k] = G[k][f[k + 1]]

LEMMA StepsDownExist ==
    ASSUME NEW n \in Nat, NEW a \in 0..n, NEW V, NEW v0 \in V, NEW G \in [a..n - 1 -> [V -> V]]
    PROVE  \E f : StepsDown(f, a, n, V, v0, G)
<1> DEFINE m == n - a
           H == [j \in 1..m |-> G[n - j]]
<1>0. m \in Nat /\ a \in Nat /\ n - m = a /\ n - 0 = n
  OBVIOUS
<1>1. \A k \in a..n : n - k \in 0..m /\ n - (n - k) = k
  BY <1>0
<1>2. \A k \in a..n - 1 : n - k \in 1..m /\ (n - k) - 1 = n - (k + 1) /\ k + 1 \in a..n /\ k \in a..n
  BY <1>0
<1>3. H \in [1..m -> [V -> V]]
  <2>1. \A j \in 1..m : n - j \in a..n - 1
    BY <1>0
  <2>2. \A j \in 1..m : G[n - j] \in [V -> V]
    BY <2>1
  <2> HIDE DEF m
  <2>3. QED
    BY <2>2
<1>4. \A j \in 1..m : H[j] = G[n - j]
  OBVIOUS
<1> HIDE DEF m, H
<1>5. PICK g : Stepwise(g, m, V, v0, H)
  BY <1>0, <1>3, StepsExist, ZenonT(60)
<1>6. g \in [0..m -> V] /\ g[0] = v0 /\ \A j \in 1..m : g[j] = H[j][g[j - 1]]
  BY <1>5 DEF Stepwise
<1> DEFINE f == [k \in a..n |-> g[n - k]]
<1>7. \A k \in a..n : f[k] = g[n - k] /\ f[k] \in V
  BY <1>1, <1>6
<1>8. f \in [a..n -> V]
  BY <1>1, <1>6
<1> HIDE DEF f
<1>9. f[n] = v0
  <2>1. n \in a..n /\ n - n = 0
    BY <1>0
  <2>2. QED
    BY <2>1, <1>6, <1>7
<1>10. ASSUME NEW k \in a..n - 1 PROVE f[k] = G[k][f[k + 1]]
  <2>1. n - k \in 1..m /\ (n - k) - 1 = n - (k + 1) /\ k + 1 \in a..n /\ k \in a..n /\ n - (n - k) = k
    BY <1>1, <1>2
  <2>2. g[n - k] = H[n - k][g[(n - k) - 1]]
    BY <2>1, <1>6
  <2>3. H[n - k] = G[k]
    BY <2>1, <1>4
  <2>4. f[k] = g[n - k] /\ f[k + 1] = g[n - (k + 1)]
    BY <2>1, <1>7
  <2>5. QED
    BY <2>1, <2>2, <2>3, <2>4
<1>11. QED
  BY <1>8, <1>9, <1>10 DEF StepsDown

\* What holds at the upper end and is kept holds all the way down.
LEMMA StepsDownType ==
    ASSUME NEW n \in Nat, NEW a \in 0..n, NEW V, NEW f, f[n] \in V, \A k \in a..n - 1 : f[k + 1] \in V => f[k] \in V
    PROVE  \A k \in a..n : f[k] \in V
<1> DEFINE m == n - a
           S == {j \in 0..m : f[n - j] \in V}
<1>0. m \in Nat /\ a \in Nat /\ n - 0 = n
  OBVIOUS
<1>1. 0 \in S
  BY <1>0
<1>2. ASSUME NEW j \in S, j < m PROVE j + 1 \in S
  <2>1. j + 1 \in 0..m /\ n - (j + 1) \in a..n - 1 /\ (n - (j + 1)) + 1 = n - j
    BY <1>0, <1>2
  <2>2. QED
    BY <2>1
<1>3. S = 0..m
  <2>1. S \subseteq 0..m
    OBVIOUS
  <2> HIDE DEF S, m
  <2>2. QED
    BY <1>0, <1>1, <1>2, <2>1, Climb
<1>4. ASSUME NEW k \in a..n PROVE f[k] \in V
  <2>1. n - k \in 0..m /\ n - (n - k) = k
    BY <1>0
  <2>2. n - k \in S
    BY <2>1, <1>3
  <2>3. QED
    BY <2>1, <2>2
<1>5. QED
  BY <1>4

\* The digits behind from bytes, as numbers.
Codes(s, from, n) == [k \in 1..n |-> Digit[s[from + k]]]

AccAt(d, sign, lo, hi, f, k) ==
    IF k = 0 THEN 0
    ELSE IF f[k - 1] = None \/ f[k - 1] * 10 + sign * Digit[d[k]] \notin lo..hi THEN None
         ELSE f[k - 1] * 10 + sign * Digit[d[k]]
AccFcn(d, sign, lo, hi) == CHOOSE f : f = [k \in 0..Len(d) |-> AccAt(d, sign, lo, hi, f, k)]

LEMMA AccSolved ==
    ASSUME NEW U, NEW d \in Seq(U), NEW sign \in {1, -1}, NEW lo \in Int, NEW hi \in Int,
           \A k \in 1..Len(d) : d[k] \in DOMAIN Digit
    PROVE  \A k \in 0..Len(d) : AccFcn(d, sign, lo, hi)[k] = AccAt(d, sign, lo, hi, AccFcn(d, sign, lo, hi), k)
<1> DEFINE n == Len(d)
           V == Int \cup {None}
           zero == 0
           After(k, v) == IF v = None \/ v * 10 + sign * Digit[d[k]] \notin lo..hi THEN None
                          ELSE v * 10 + sign * Digit[d[k]]
           G == [k \in 1..n |-> [v \in V |-> After(k, v)]]
           A == AccFcn(d, sign, lo, hi)
<1>0. n \in Nat /\ zero \in V
  OBVIOUS
<1>1. ASSUME NEW k \in 1..n, NEW v \in V PROVE After(k, v) \in V
  <2>1. CASE After(k, v) = None
    BY <2>1
  <2>2. CASE v # None /\ v * 10 + sign * Digit[d[k]] \in lo..hi
    <3>1. After(k, v) \in lo..hi
      BY <2>2
    <3>2. lo..hi \subseteq V
      OBVIOUS
    <3> HIDE DEF After, V
    <3>3. QED
      BY <3>1, <3>2
  <2>3. QED
    BY <2>1, <2>2
<1>2. \A k \in 1..n, v \in V : G[k][v] = After(k, v)
  <2> HIDE DEF V, After
  <2> QED
    OBVIOUS
<1>3. G \in [1..n -> [V -> V]]
  <2> HIDE DEF V, After, n
  <2>1. \A k \in 1..n : [v \in V |-> After(k, v)] \in [V -> V]
    BY <1>1
  <2>2. QED
    BY <2>1
<1> HIDE DEF G, V, zero
<1>4. PICK f : Stepwise(f, n, V, zero, G)
  <2> HIDE DEF n
  <2> QED
    BY <1>0, <1>3, StepsExist, ZenonT(60)
<1>5. f \in [0..n -> V] /\ f[0] = zero /\ \A k \in 1..n : f[k] = G[k][f[k - 1]]
  BY <1>4 DEF Stepwise
<1>6. ASSUME NEW k \in 0..n PROVE f[k] = AccAt(d, sign, lo, hi, f, k)
  <2>1. CASE k = 0
    BY <2>1, <1>5 DEF AccAt, zero
  <2>2. CASE k # 0
    <3>1. k \in 1..n /\ k - 1 \in 0..n
      BY <1>0, <2>2
    <3>2. f[k] = After(k, f[k - 1])
      BY <3>1, <1>2, <1>5
    <3>3. AccAt(d, sign, lo, hi, f, k) = After(k, f[k - 1])
      BY <2>2 DEF AccAt
    <3>4. QED
      BY <3>2, <3>3
  <2>3. QED
    BY <2>1, <2>2
<1>7. f = [k \in 0..n |-> AccAt(d, sign, lo, hi, f, k)]
  BY <1>5, <1>6
<1>8. A = [k \in 0..n |-> AccAt(d, sign, lo, hi, A, k)]
  <2>1. \E g : g = [k \in 0..n |-> AccAt(d, sign, lo, hi, g, k)]
    BY <1>7
  <2>2. QED
    BY <2>1, Zenon DEF AccFcn
<1> HIDE DEF A
<1>9. \A k \in 0..n : A[k] = AccAt(d, sign, lo, hi, A, k)
  BY <1>8
<1>10. QED
  BY <1>9 DEF A

\* The checked sum is the whole one where that fits: what overflows on the way
\* would not come back.
LEMMA AccumulateIs ==
    ASSUME NEW U, NEW d \in Seq(U), NEW sign \in {1, -1}, NEW lo \in Int, NEW hi \in Int, lo <= 0, 0 <= hi,
           \A k \in 1..Len(d) : d[k] \in DOMAIN Digit,
           NEW u, PrefixValues(u, Codes(d, 0, Len(d)), Len(d))
    PROVE  Accumulate(d, sign, lo, hi) = IF sign * u[Len(d)] \in lo..hi THEN sign * u[Len(d)] ELSE None
<1> DEFINE n == Len(d)
           A == AccFcn(d, sign, lo, hi)
           Fit(x) == IF sign * x \in lo..hi THEN sign * x ELSE None
           S == {k \in 0..n : A[k] = Fit(u[k])}
<1>0. n \in Nat
  OBVIOUS
<1>a. None \notin Int
  BY ScalarAssumption DEF ScalarAssumption
<1>1. \A k \in 0..n : A[k] = AccAt(d, sign, lo, hi, A, k)
  BY AccSolved
<1>2. Accumulate(d, sign, lo, hi) = A[n]
  BY DEF Accumulate, AccFcn, AccAt
<1>3. u \in [0..n -> Nat] /\ u[0] = 0 /\ \A k \in 1..n : u[k] = u[k - 1] * 10 + Codes(d, 0, n)[k]
  BY DEF PrefixValues
<1> HIDE DEF A
<1>4. \A k \in 1..n : Codes(d, 0, n)[k] = Digit[d[k]] /\ Digit[d[k]] \in Nat
  <2>1. \A k \in 1..n : 0 + k = k
    BY <1>0
  <2>2. QED
    BY <2>1, DigitFacts DEF Codes
<1>5. 0 \in S
  <2>1. 0 \in 0..n /\ A[0] = 0
    BY <1>0, <1>1 DEF AccAt
  <2>2. sign * 0 = 0 /\ 0 \in lo..hi
    OBVIOUS
  <2>3. QED
    BY <2>1, <2>2, <1>3
<1>6. ASSUME NEW m \in S, m < n PROVE m + 1 \in S
  <2>1. m \in Nat /\ m \in 0..n /\ m + 1 \in 0..n /\ m + 1 \in 1..n /\ (m + 1) - 1 = m /\ m + 1 # 0
    BY <1>0, <1>6
  <2> DEFINE c == Digit[d[m + 1]]
             w == u[m]
             x == u[m + 1]
             prev == A[m]
  <2>2. c \in Nat /\ w \in Nat /\ x = w * 10 + c
    BY <2>1, <1>3, <1>4
  <2>3. prev = Fit(w)
    OBVIOUS
  <2>4. A[m + 1] = IF prev = None \/ prev * 10 + sign * c \notin lo..hi THEN None ELSE prev * 10 + sign * c
    BY <2>1, <1>1 DEF AccAt
  <2> HIDE DEF c, w, x, prev
  <2>5. A[m + 1] = Fit(x)
    <3>1. CASE prev = None
      <4>1. sign * w \notin lo..hi
        <5>1. sign * w \in Int
          BY <2>2
        <5>2. QED
          BY <5>1, <3>1, <2>3, <1>a
      <4>2. sign * x \notin lo..hi
        <5>1. CASE sign = 1
          <6>1. sign * w = w /\ sign * x = x
            BY <5>1, <2>2
          <6>2. w <= x /\ x \in Int
            BY <2>2
          <6>3. QED
            BY <6>1, <6>2, <4>1, <2>2
        <5>2. CASE sign = -1
          <6>1. sign * w = -w /\ sign * x = -x
            BY <5>2, <2>2
          <6>2. w <= x /\ x \in Int
            BY <2>2
          <6>3. QED
            BY <6>1, <6>2, <4>1, <2>2
        <5>3. QED
          BY <5>1, <5>2
      <4>3. QED
        BY <4>2, <3>1, <2>4
    <3>2. CASE prev # None
      <4>1. prev = sign * w
        BY <3>2, <2>3
      <4>2. prev * 10 + sign * c = sign * x
        BY <4>1, <2>2
      <4>3. QED
        BY <4>2, <3>2, <2>4
    <3>3. QED
      BY <3>1, <3>2
  <2>6. QED
    BY <2>1, <2>5 DEF x
<1>7. S = 0..n
  <2>1. S \subseteq 0..n
    OBVIOUS
  <2> HIDE DEF S, n
  <2>2. QED
    BY <1>0, <1>5, <1>6, <2>1, Climb
<1>8. n \in S
  <2> HIDE DEF S, n
  <2> QED
    BY <1>0, <1>7
<1>9. QED
  BY <1>2, <1>8

PowerFcn(s, from) == CHOOSE f : f = [k \in from..Len(s) |-> IF k = Len(s) THEN 1 ELSE 10 * f[k + 1]]
SumFcn(s, from) ==
    CHOOSE f : f = [k \in from..Len(s) |-> IF k = Len(s) THEN 0 ELSE Digit[s[k + 1]] * PowerFcn(s, from)[k + 1] + f[k + 1]]

LEMMA PowersSolved ==
    ASSUME NEW U, NEW s \in Seq(U), NEW from \in 0..Len(s)
    PROVE  /\ PowerFcn(s, from)[Len(s)] = 1
           /\ \A k \in from..Len(s) : PowerFcn(s, from)[k] \in Nat
           /\ \A k \in from..Len(s) - 1 : PowerFcn(s, from)[k] = 10 * PowerFcn(s, from)[k + 1]
<1> DEFINE n == Len(s)
           V == Nat
           one == 1
           G == [k \in from..n - 1 |-> [v \in V |-> 10 * v]]
           At(f, k) == IF k = n THEN one ELSE 10 * f[k + 1]
           P == PowerFcn(s, from)
<1>0. n \in Nat /\ from \in Nat /\ from \in 0..n /\ one \in V /\ n \in from..n
  OBVIOUS
<1>1. \A v \in V : 10 * v \in V
  OBVIOUS
<1>2. G \in [from..n - 1 -> [V -> V]] /\ \A k \in from..n - 1, v \in V : G[k][v] = 10 * v
  <2> HIDE DEF V, n
  <2> QED
    BY <1>1
<1>3. \A k \in from..n : k # n => k \in from..n - 1 /\ k + 1 \in from..n
  BY <1>0
<1> HIDE DEF G, V, n, one
<1>4. PICK f : StepsDown(f, from, n, V, one, G)
  BY <1>0, <1>2, StepsDownExist, ZenonT(60)
<1>5. f \in [from..n -> V] /\ f[n] = one /\ \A k \in from..n - 1 : f[k] = G[k][f[k + 1]]
  BY <1>4 DEF StepsDown
<1>6. ASSUME NEW k \in from..n PROVE f[k] = At(f, k)
  <2>1. CASE k = n
    BY <2>1, <1>5
  <2>2. CASE k # n
    <3>1. k \in from..n - 1 /\ f[k + 1] \in V
      BY <2>2, <1>3, <1>5
    <3>2. QED
      BY <3>1, <2>2, <1>2, <1>5
  <2>3. QED
    BY <2>1, <2>2
<1>7. f = [k \in from..n |-> At(f, k)]
  BY <1>5, <1>6
<1>8. P = [k \in from..n |-> At(P, k)]
  <2>1. \E g : g = [k \in from..n |-> At(g, k)]
    BY <1>7
  <2>2. QED
    BY <2>1, Zenon DEF PowerFcn, n, one
<1> HIDE DEF P
<1>9. P[n] = one /\ \A k \in from..n - 1 : P[k] = 10 * P[k + 1]
  <2>1. \A k \in from..n - 1 : k \in from..n /\ k # n
    BY <1>0
  <2>2. \A k \in from..n : P[k] = At(P, k)
    BY <1>8
  <2>3. QED
    BY <2>1, <2>2, <1>0
<1>10. \A k \in from..n : P[k] \in V
  <2>1. P[n] \in V /\ \A k \in from..n - 1 : P[k + 1] \in V => P[k] \in V
    BY <1>0, <1>1, <1>9
  <2>2. QED
    BY <2>1, <1>0, StepsDownType, ZenonT(60)
<1>11. QED
  BY <1>9, <1>10 DEF V, one, n, P

LEMMA SumsSolved ==
    ASSUME NEW U, NEW s \in Seq(U), NEW from \in 0..Len(s), \A k \in from + 1..Len(s) : s[k] \in DOMAIN Digit
    PROVE  /\ SumFcn(s, from)[Len(s)] = 0
           /\ \A k \in from..Len(s) : SumFcn(s, from)[k] \in Nat
           /\ \A k \in from..Len(s) - 1 :
                SumFcn(s, from)[k] = Digit[s[k + 1]] * PowerFcn(s, from)[k + 1] + SumFcn(s, from)[k + 1]
<1> DEFINE n == Len(s)
           V == Nat
           zero == 0
           P == PowerFcn(s, from)
           Term(k) == Digit[s[k + 1]] * P[k + 1]
           G == [k \in from..n - 1 |-> [v \in V |-> Term(k) + v]]
           At(f, k) == IF k = n THEN zero ELSE Term(k) + f[k + 1]
           Q == SumFcn(s, from)
<1>0. n \in Nat /\ from \in Nat /\ from \in 0..n /\ zero \in V /\ n \in from..n
  OBVIOUS
<1>a. ASSUME NEW k \in from..n - 1 PROVE Term(k) \in Nat
  <2>1. k + 1 \in from + 1..n /\ k + 1 \in from..n
    BY <1>0
  <2>2. Digit[s[k + 1]] \in Nat
    BY <2>1, DigitFacts
  <2>3. P[k + 1] \in Nat
    BY <2>1, PowersSolved
  <2> HIDE DEF P
  <2>4. QED
    BY <2>2, <2>3
<1> HIDE DEF P, Term
<1>1. \A k \in from..n - 1, v \in V : Term(k) + v \in V
  BY <1>a
<1>2. G \in [from..n - 1 -> [V -> V]] /\ \A k \in from..n - 1, v \in V : G[k][v] = Term(k) + v
  <2> HIDE DEF V, n
  <2> QED
    BY <1>1
<1>3. \A k \in from..n : k # n => k \in from..n - 1 /\ k + 1 \in from..n
  BY <1>0
<1> HIDE DEF G, V, n, zero
<1>4. PICK f : StepsDown(f, from, n, V, zero, G)
  BY <1>0, <1>2, StepsDownExist, ZenonT(60)
<1>5. f \in [from..n -> V] /\ f[n] = zero /\ \A k \in from..n - 1 : f[k] = G[k][f[k + 1]]
  BY <1>4 DEF StepsDown
<1>6. ASSUME NEW k \in from..n PROVE f[k] = At(f, k)
  <2>1. CASE k = n
    BY <2>1, <1>5
  <2>2. CASE k # n
    <3>1. k \in from..n - 1 /\ f[k + 1] \in V
      BY <2>2, <1>3, <1>5
    <3>2. QED
      BY <3>1, <2>2, <1>2, <1>5
  <2>3. QED
    BY <2>1, <2>2
<1>7. f = [k \in from..n |-> At(f, k)]
  BY <1>5, <1>6
<1>8. Q = [k \in from..n |-> At(Q, k)]
  <2>1. \E g : g = [k \in from..n |-> At(g, k)]
    BY <1>7
  <2>2. QED
    BY <2>1, Zenon DEF SumFcn, n, zero, Term, P
<1> HIDE DEF Q
<1>9. Q[n] = zero /\ \A k \in from..n - 1 : Q[k] = Term(k) + Q[k + 1]
  <2>1. \A k \in from..n - 1 : k \in from..n /\ k # n
    BY <1>0
  <2>2. \A k \in from..n : Q[k] = At(Q, k)
    BY <1>8
  <2>3. QED
    BY <2>1, <2>2, <1>0
<1>10. \A k \in from..n : Q[k] \in V
  <2>1. Q[n] \in V /\ \A k \in from..n - 1 : Q[k + 1] \in V => Q[k] \in V
    BY <1>0, <1>1, <1>9
  <2>2. QED
    BY <2>1, <1>0, StepsDownType, ZenonT(60)
<1>11. QED
  BY <1>9, <1>10 DEF V, zero, n, Q, Term, P

\* The weighted sum of the digits is what adding one digit after another gives.
LEMMA MagnitudeIs ==
    ASSUME NEW U, NEW s \in Seq(U), NEW from \in 0..Len(s), \A k \in from + 1..Len(s) : s[k] \in DOMAIN Digit,
           NEW u, PrefixValues(u, Codes(s, from, Len(s) - from), Len(s) - from)
    PROVE  Magnitude(s, from) = u[Len(s) - from]
<1> DEFINE n == Len(s) - from
           P == PowerFcn(s, from)
           Q == SumFcn(s, from)
           S == {k \in 0..n : u[k] * P[from + k] + Q[from + k] = Q[from]}
<1>0. n \in Nat /\ from \in Nat /\ Len(s) \in Nat /\ from + n = Len(s)
  OBVIOUS
<1>1. Magnitude(s, from) = Q[from]
  BY DEF Magnitude, SumFcn, PowerFcn
<1>2. /\ P[Len(s)] = 1
      /\ \A k \in from..Len(s) : P[k] \in Nat
      /\ \A k \in from..Len(s) - 1 : P[k] = 10 * P[k + 1]
  BY PowersSolved
<1>3. /\ Q[Len(s)] = 0
      /\ \A k \in from..Len(s) : Q[k] \in Nat
      /\ \A k \in from..Len(s) - 1 : Q[k] = Digit[s[k + 1]] * P[k + 1] + Q[k + 1]
  BY SumsSolved
<1>4. u \in [0..n -> Nat] /\ u[0] = 0 /\ \A k \in 1..n : u[k] = u[k - 1] * 10 + Codes(s, from, n)[k]
  BY DEF PrefixValues
<1> HIDE DEF P, Q
<1>5. \A k \in 1..n : Codes(s, from, n)[k] = Digit[s[from + k]] /\ Digit[s[from + k]] \in Nat
  <2>1. \A k \in 1..n : from + k \in from + 1..Len(s)
    BY <1>0
  <2>2. QED
    BY <2>1, DigitFacts DEF Codes
<1>6. 0 \in S
  <2>1. from + 0 = from /\ from \in from..Len(s) /\ 0 \in 0..n
    BY <1>0
  <2>2. P[from] \in Nat /\ Q[from] \in Nat
    BY <2>1, <1>2, <1>3
  <2>3. 0 * P[from] + Q[from] = Q[from]
    BY <2>2
  <2>4. QED
    BY <2>1, <2>3, <1>4
<1>7. ASSUME NEW m \in S, m < n PROVE m + 1 \in S
  <2>1. /\ m \in Nat /\ m \in 0..n /\ m + 1 \in 0..n /\ m + 1 \in 1..n /\ (m + 1) - 1 = m
        /\ from + m \in from..Len(s) - 1 /\ (from + m) + 1 = from + (m + 1) /\ from + (m + 1) \in from..Len(s)
    BY <1>0, <1>7
  <2> DEFINE c == Digit[s[from + (m + 1)]]
             w == u[m]
             x == u[m + 1]
             p == P[from + (m + 1)]
             q == Q[from + (m + 1)]
             p0 == P[from + m]
             q0 == Q[from + m]
             all == Q[from]
  <2>2. c \in Nat /\ w \in Nat /\ x = w * 10 + c /\ p \in Nat /\ q \in Nat
    <3>1. p \in Nat /\ q \in Nat
      BY <2>1, <1>2, <1>3
    <3>2. c \in Nat /\ Codes(s, from, n)[m + 1] = c
      BY <2>1, <1>5
    <3>3. w \in Nat
      BY <2>1, <1>4
    <3>4. u[m + 1] = u[(m + 1) - 1] * 10 + Codes(s, from, n)[m + 1]
      BY <2>1, <1>4
    <3>5. QED
      BY <3>1, <3>2, <3>3, <3>4, <2>1
  <2>3. p0 = 10 * p /\ q0 = c * p + q
    BY <2>1, <1>2, <1>3
  <2>4. w * p0 + q0 = all
    OBVIOUS
  <2> HIDE DEF c, w, x, p, q, p0, q0, all
  <2>5. x * p + q = all
    <3>1. x * p = w * (10 * p) + c * p
      BY <2>2
    <3>2. w * (10 * p) \in Nat /\ c * p \in Nat
      BY <2>2
    <3>3. QED
      BY <3>1, <3>2, <2>2, <2>3, <2>4
  <2>6. QED
    BY <2>1, <2>5 DEF x, p, q, all
<1>8. S = 0..n
  <2>1. S \subseteq 0..n
    OBVIOUS
  <2> HIDE DEF S, n
  <2>2. QED
    BY <1>0, <1>6, <1>7, <2>1, Climb
<1>9. n \in S
  <2> HIDE DEF S, n
  <2> QED
    BY <1>0, <1>8
<1>10. u[n] * 1 + 0 = Q[from] /\ u[n] \in Nat
  BY <1>0, <1>2, <1>3, <1>4, <1>9
<1>11. QED
  BY <1>1, <1>10

\* An integer token adds up to its amount, where the limits let it.
LEMMA IntegerExact ==
    ASSUME NEW U, NEW s \in Seq(U), IsInteger(s)
    PROVE  LET neg == s[1] = "-"
           IN  /\ Amount(s) \in Int
               /\ \A lo \in Int, hi \in Int : lo <= 0 /\ 0 <= hi =>
                    Accumulate(IF neg THEN Tail(s) ELSE s, IF neg THEN -1 ELSE 1, lo, hi)
                      = IF Amount(s) \in lo..hi THEN Amount(s) ELSE None
<1> DEFINE neg == s[1] = "-"
           from == IF neg THEN 1 ELSE 0
           sign == IF neg THEN -1 ELSE 1
           d == IF neg THEN Tail(s) ELSE s
           n == Len(s) - from
<1>1. Len(s) \in Nat /\ from \in Nat /\ from < Len(s) /\ \A k \in from + 1..Len(s) : s[k] \in DOMAIN Digit
  BY IntegerDigits
<1>2. from \in 0..Len(s) /\ n \in Nat /\ n >= 1 /\ from + n = Len(s) /\ sign \in {1, -1}
  BY <1>1
<1>3. d \in Seq(U) /\ Len(d) = n /\ \A k \in 1..n : d[k] = s[from + k]
  <2>1. CASE neg
    <3>1. s # <<>>
      BY <1>1
    <3>2. Tail(s) \in Seq(U) /\ Len(Tail(s)) = Len(s) - 1 /\ \A k \in 1..Len(Tail(s)) : Tail(s)[k] = s[k + 1]
      BY <3>1, HeadTailProperties
    <3>3. \A k \in 1..n : k + 1 = 1 + k
      BY <1>2
    <3>4. from = 1 /\ d = Tail(s) /\ n = Len(s) - 1
      BY <2>1
    <3> HIDE DEF from, d, n, neg
    <3>5. QED
      BY <3>2, <3>3, <3>4
  <2>2. CASE ~neg
    <3>1. from = 0 /\ d = s /\ n = Len(s)
      BY <2>2, <1>1
    <3>2. \A k \in 1..n : 0 + k = k
      BY <1>2
    <3> HIDE DEF from, d, n, neg
    <3>3. QED
      BY <3>1, <3>2
  <2>3. QED
    BY <2>1, <2>2
<1> DEFINE c == Codes(s, from, n)
<1> HIDE DEF d, n, from
<1>4. \A k \in 1..n : d[k] \in DOMAIN Digit
  <2>1. \A k \in 1..n : from + k \in from + 1..Len(s)
    BY <1>1, <1>2
  <2>2. QED
    BY <2>1, <1>1, <1>3
<1>5. c \in [1..n -> Nat]
  BY <1>3, <1>4, DigitFacts DEF Codes
<1>6. Codes(d, 0, n) = c
  <2>1. \A k \in 1..n : 0 + k = k
    BY <1>2
  <2>2. QED
    BY <2>1, <1>3 DEF Codes
<1>7. PICK u : PrefixValues(u, c, n)
  BY <1>2, <1>5, PrefixValuesExist
<1>8. u[n] \in Nat
  BY <1>2, <1>7 DEF PrefixValues
<1>9. Magnitude(s, from) = u[n]
  BY <1>1, <1>2, <1>7, MagnitudeIs DEF n
<1>10. Amount(s) = sign * u[n]
  <2>1. CASE neg
    <3>1. from = 1 /\ sign = -1 /\ Amount(s) = -Magnitude(s, 1)
      BY <2>1 DEF from, Amount
    <3>2. QED
      BY <3>1, <1>8, <1>9
  <2>2. CASE ~neg
    <3>1. from = 0 /\ sign = 1 /\ Amount(s) = Magnitude(s, 0)
      BY <2>2 DEF from, Amount
    <3>2. QED
      BY <3>1, <1>8, <1>9
  <2>3. QED
    BY <2>1, <2>2
<1>11. Amount(s) \in Int
  BY <1>2, <1>8, <1>10
<1>12. ASSUME NEW lo \in Int, NEW hi \in Int, lo <= 0, 0 <= hi
       PROVE  Accumulate(d, sign, lo, hi) = IF Amount(s) \in lo..hi THEN Amount(s) ELSE None
  <2>1. PrefixValues(u, Codes(d, 0, Len(d)), Len(d)) /\ \A k \in 1..Len(d) : d[k] \in DOMAIN Digit
    BY <1>3, <1>4, <1>6, <1>7
  <2> HIDE DEF sign
  <2>2. Accumulate(d, sign, lo, hi) = IF sign * u[Len(d)] \in lo..hi THEN sign * u[Len(d)] ELSE None
    BY <2>1, <1>2, <1>3, <1>12, AccumulateIs
  <2>3. QED
    BY <2>2, <1>3, <1>10
<1>13. QED
  BY <1>11, <1>12 DEF d

\* What the getters make of a token, once it is known to be a number or not.
LEMMA NotNumberIs ==
    ASSUME NEW U, NEW s \in Seq(U), NEW skip \in BOOLEAN, skip => IsNumeral(s), NEW F, DOMAIN Digit \cup {"-"} \subseteq F
    PROVE  NotNumber(s, skip, F) <=> ~IsNumeral(s)
<1>1. ValidNumber(s) <=> IsNumeral(s)
  BY ValidIsNumeral
<1>2. IsNumeral(s) => ByteAt(s, 0) \in F
  BY NumeralBytes
<1>3. QED
  BY <1>1, <1>2 DEF NotNumber

\* parse_i64, parse_u64, parse_f64 and validate_number: for every token and any
\* width of the integers, the getters take the numbers of RFC 8259 and no other,
\* and an integer getter returns the amount of an integer in its range.
THEOREM NumbersExact == Spec => []NumbersAreExact
<1>1. NumbersAreExact
  <2> SUFFICES ASSUME NEW s \in Tokens, NEW skip \in BOOLEAN, skip => IsNumeral(s)
               PROVE  /\ Exactly(ParseI64(s, skip), s, -IMax - 1, IMax)
                      /\ Exactly(ParseU64(s, skip), s, 0, 2 * IMax + 1)
                      /\ (ParseF64(s, skip).rc = "invalid_number") = ~IsNumeral(s)
    BY DEF NumbersAreExact
  <2> DEFINE U == NumberBytes \cup Bytes
             F == DOMAIN Digit \cup {"-"}
             FF == DOMAIN Digit \cup {"-", "."}
             Dotted == {".", "e", "E"} \cap Range(s) # {}
             neg == s[1] = "-"
             a == Amount(s)
             lo == -IMax - 1
             hi == IMax
             top == 2 * IMax + 1
  <2>1. s \in Seq(U) /\ None \notin NumberBytes
    BY TokenAssumption DEF TokenAssumption
  <2>2. lo \in Int /\ hi \in Int /\ top \in Int /\ 0 \in Int /\ lo <= 0 /\ 0 <= hi /\ 0 <= top /\ lo # 0
    BY ScalarAssumption DEF ScalarAssumption
  <2>3. None \notin Int
    BY ScalarAssumption DEF ScalarAssumption
  <2> HIDE DEF U
  <2>4. (NotNumber(s, skip, F) <=> ~IsNumeral(s)) /\ (NotNumber(s, skip, FF) <=> ~IsNumeral(s))
    <3>1. DOMAIN Digit \cup {"-"} \subseteq F /\ DOMAIN Digit \cup {"-"} \subseteq FF
      OBVIOUS
    <3> HIDE DEF F, FF
    <3>2. QED
      BY <2>1, <3>1, NotNumberIs
  <2>5. IsNumeral(s) => (Dotted <=> ~IsInteger(s)) /\ (ByteAt(s, 0) = "-" <=> neg)
    BY <2>1, NumeralBytes
  <2>6. \A rc : Fails(rc).rc = rc
    BY DEF Fails
  <2>7. ParseF64(s, skip).rc = "invalid_number" <=> ~IsNumeral(s)
    <3>1. CASE ~IsNumeral(s)
      BY <3>1, <2>4, <2>6 DEF ParseF64
    <3>2. CASE IsNumeral(s)
      <4>1. ParseF64(s, skip) \in {Fails("number_out_of_range"), Value(s)}
        BY <3>2, <2>4 DEF ParseF64
      <4>2. Value(s).rc = "ok"
        BY DEF Value
      <4>3. QED
        BY <4>1, <4>2, <2>6, <3>2
    <3>3. QED
      BY <3>1, <3>2
  <2> HIDE DEF F, FF, Dotted
  <2>8. CASE ~IsNumeral(s)
    <3>1. ParseI64(s, skip) = Fails("invalid_number") /\ ParseU64(s, skip) = Fails("invalid_number")
      BY <2>4, <2>8 DEF ParseI64, ParseU64, F
    <3>2. QED
      BY <3>1, <2>6, <2>7, <2>8 DEF Exactly
  <2>9. CASE IsNumeral(s) /\ ~IsInteger(s)
    <3>1. ParseI64(s, skip) = Fails("type_mismatch") /\ ParseU64(s, skip) = Fails("type_mismatch")
      BY <2>4, <2>5, <2>9 DEF ParseI64, ParseU64, F, Dotted
    <3>2. QED
      BY <3>1, <2>6, <2>7, <2>9 DEF Exactly
  <2>10. CASE IsNumeral(s) /\ IsInteger(s)
    <3> DEFINE Sum(low, high) ==
                 Accumulate(IF neg THEN Tail(s) ELSE s, IF neg THEN -1 ELSE 1, low, high)
    <3>1. /\ a \in Int
          /\ Sum(lo, hi) = IF a \in lo..hi THEN a ELSE None
          /\ Sum(0, top) = IF a \in 0..top THEN a ELSE None
      <4> HIDE DEF lo, hi, top
      <4>1. 0 <= 0
        OBVIOUS
      <4>2. QED
        BY <2>1, <2>2, <2>10, <4>1, IntegerExact
    <3>2. ~NotNumber(s, skip, F) /\ ~Dotted /\ (ByteAt(s, 0) = "-" <=> neg)
      BY <2>4, <2>5, <2>10
    <3>3. ParseI64(s, skip) = IF Sum(lo, hi) = None THEN Fails("out_of_range") ELSE Value(Sum(lo, hi))
      BY <3>2 DEF ParseI64, F, Dotted
    <3>4. ParseU64(s, skip) = IF neg \/ Sum(0, top) = None THEN Fails("out_of_range") ELSE Value(Sum(0, top))
      BY <3>2 DEF ParseU64, F, Dotted
    <3>5. \A low, high, answer : Exactly(answer, s, low, high) <=>
            answer = IF a \in low..high /\ (low = 0 => ~neg) THEN Value(a) ELSE Fails("out_of_range")
      BY <2>10 DEF Exactly
    <3> HIDE DEF Sum, a, lo, hi, top, neg
    <3>6. a # None
      BY <3>1, <2>3
    <3>7. Exactly(ParseI64(s, skip), s, lo, hi)
      BY <2>2, <3>1, <3>3, <3>5, <3>6
    <3>8. Exactly(ParseU64(s, skip), s, 0, top)
      BY <3>1, <3>4, <3>5, <3>6
    <3>9. QED
      BY <3>7, <3>8, <2>7 DEF lo, hi, top
  <2>11. QED
    BY <2>8, <2>9, <2>10
<1>2. QED
  BY <1>1, PTL

=============================================================================
