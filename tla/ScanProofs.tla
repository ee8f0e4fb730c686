------------------------------ MODULE ScanProofs ------------------------------
(***************************************************************************)
(* The chunked scan, for every even chunk width and every text: at each    *)
(* chunk boundary it stands where a byte by byte scan does.                *)
(***************************************************************************)
EXTENDS CInterface, NumberSets, SequenceTheorems

-----------------------------------------------------------------------------
(* The lexer as a definition: it takes one byte after another.              *)

LexAt(t, s, from, f, p) == IF p = from THEN s ELSE LexByte(f[p - 1], t[p], p - 1)
LexFcn(t, s, from, upto) ==
    CHOOSE at : at = [p \in from..upto |-> LexAt(t, s, from, at, p)]

Built(g, t, s, from, upto) == g = [p \in from..upto |-> LexAt(t, s, from, g, p)]

LEMMA LexExists ==
    ASSUME NEW t, NEW s, NEW from \in Nat, NEW N \in Nat
    PROVE  \E g : Built(g, t, s, from, from + N)
<1> DEFINE S == {m \in 0..N : \E g : Built(g, t, s, from, from + m)}
<1>1. 0 \in S
  <2> DEFINE h == [p \in from..from + 0 |-> s]
  <2>1. \A p \in from..from + 0 : h[p] = LexAt(t, s, from, h, p)
    BY DEF LexAt
  <2>2. h = [p \in from..from + 0 |-> h[p]]
    OBVIOUS
  <2> HIDE DEF h
  <2>3. Built(h, t, s, from, from + 0)
    BY <2>1, <2>2 DEF Built
  <2>4. 0 \in 0..N
    OBVIOUS
  <2>5. QED
    BY <2>3, <2>4
<1>2. ASSUME NEW m \in S, m < N
      PROVE  m + 1 \in S
  <2>1. PICK g : Built(g, t, s, from, from + m)
    BY <1>2
  <2>0. m \in Nat /\ m + 1 \in 0..N
    BY <1>2
  <2> DEFINE h == [p \in from..from + (m + 1) |-> IF p <= from + m THEN g[p] ELSE LexAt(t, s, from, g, p)]
  <2>2. \A p \in from..from + m : g[p] = LexAt(t, s, from, g, p)
    BY <2>1 DEF Built
  <2>3. \A p \in from..from + (m + 1) : h[p] = LexAt(t, s, from, g, p)
    BY <2>0, <2>2
  <2>4. \A p \in from..from + m : h[p] = g[p]
    BY <2>0, <2>2
  <2>5. h = [p \in from..from + (m + 1) |-> h[p]]
    OBVIOUS
  <2> HIDE DEF h
  <2>6. \A p \in from..from + (m + 1) : h[p] = LexAt(t, s, from, h, p)
    <3> SUFFICES ASSUME NEW p \in from..from + (m + 1) PROVE h[p] = LexAt(t, s, from, h, p)
      OBVIOUS
    <3>1. p # from => p - 1 \in from..from + m
      BY <2>0
    <3>2. p # from => h[p - 1] = g[p - 1]
      BY <3>1, <2>4
    <3>3. LexAt(t, s, from, h, p) = LexAt(t, s, from, g, p)
      BY <3>2, Zenon DEF LexAt
    <3>4. QED
      BY <3>3, <2>3
  <2>7. Built(h, t, s, from, from + (m + 1))
    BY <2>5, <2>6 DEF Built
  <2>8. QED
    BY <2>7, <2>0
<1>3. S = 0..N
  <2>1. S \subseteq 0..N
    OBVIOUS
  <2> HIDE DEF S
  <2>2. QED
    BY <2>1, <1>1, <1>2, Climb
<1>4. N \in S
  <2> HIDE DEF S
  <2> QED
    BY <1>3
<1>5. QED
  BY <1>4

Lexes(f, t, s, from, n) == \A p \in from..n : f[p] = LexAt(t, s, from, f, p)

LEMMA LexUnique ==
    ASSUME NEW t, NEW s, NEW from \in Nat, NEW m \in Nat, NEW n \in Nat, from <= m, m <= n, NEW f, NEW g,
           Lexes(f, t, s, from, m), Lexes(g, t, s, from, n)
    PROVE  f[m] = g[m]
<1> DEFINE S == {k \in 0..m - from : f[from + k] = g[from + k]}
<1>0. m - from \in Nat /\ from + (m - from) = m
  OBVIOUS
<1>1. 0 \in S
  <2>1. from \in from..m /\ from \in from..n /\ from + 0 = from
    OBVIOUS
  <2>2. f[from] = s /\ g[from] = s
    BY <2>1 DEF Lexes, LexAt
  <2>3. QED
    BY <2>1, <2>2
<1>2. ASSUME NEW k \in S, k < m - from
      PROVE  k + 1 \in S
  <2> DEFINE p == from + (k + 1)
  <2>1. k \in Nat /\ k + 1 \in 0..m - from /\ p \in from..m /\ p \in from..n /\ p # from /\ p - 1 = from + k
    BY <1>2
  <2>2. f[from + k] = g[from + k]
    OBVIOUS
  <2> HIDE DEF p
  <2>3. f[p] = LexByte(f[from + k], t[p], from + k) /\ g[p] = LexByte(g[from + k], t[p], from + k)
    BY <2>1 DEF Lexes, LexAt
  <2>4. f[p] = g[p]
    BY <2>2, <2>3
  <2>5. QED
    BY <2>1, <2>4 DEF p
<1>3. S = 0..m - from
  <2>1. S \subseteq 0..m - from
    OBVIOUS
  <2> HIDE DEF S
  <2>2. QED
    BY <1>0, <2>1, <1>1, <1>2, Climb
<1>4. m - from \in S
  <2> HIDE DEF S
  <2> QED
    BY <1>0, <1>3
<1>5. QED
  BY <1>0, <1>4

LEMMA LexFcnFacts ==
    ASSUME NEW t, NEW s, NEW from \in Nat, NEW upto \in Nat, from <= upto
    PROVE  /\ Lex(t, s, from, upto) = LexFcn(t, s, from, upto)[upto]
           /\ Lexes(LexFcn(t, s, from, upto), t, s, from, upto)
<1>1. \E g : Built(g, t, s, from, upto)
  <2>1. upto - from \in Nat /\ from + (upto - from) = upto
    OBVIOUS
  <2>2. \E g : Built(g, t, s, from, from + (upto - from))
    BY <2>1, LexExists
  <2>3. QED
    BY <2>1, <2>2
<1> DEFINE f == LexFcn(t, s, from, upto)
<1>2. f = [p \in from..upto |-> LexAt(t, s, from, f, p)]
  BY <1>1 DEF LexFcn, Built
<1>3. Lex(t, s, from, upto) = f[upto]
  BY DEF Lex, LexFcn, LexAt
<1> HIDE DEF f
<1>4. Lexes(f, t, s, from, upto)
  BY <1>2 DEF Lexes
<1>5. QED
  BY <1>3, <1>4 DEF f

\* The lexer starts in s, and goes on from where it was one byte earlier.
LEMMA LexStarts ==
    ASSUME NEW t, NEW s, NEW from \in Nat
    PROVE  Lex(t, s, from, from) = s
<1>1. from <= from /\ from \in from..from
  OBVIOUS
<1>2. Lex(t, s, from, from) = LexAt(t, s, from, LexFcn(t, s, from, from), from)
  BY <1>1, LexFcnFacts DEF Lexes
<1>3. QED
  BY <1>2 DEF LexAt

LEMMA LexNext ==
    ASSUME NEW t, NEW s, NEW from \in Nat, NEW p \in Nat, from <= p
    PROVE  Lex(t, s, from, p + 1) = LexByte(Lex(t, s, from, p), t[p + 1], p)
<1> DEFINE f == LexFcn(t, s, from, p)
           g == LexFcn(t, s, from, p + 1)
<1>1. /\ Lex(t, s, from, p) = f[p]
      /\ Lexes(f, t, s, from, p)
  BY LexFcnFacts
<1>2. p + 1 \in Nat /\ from <= p + 1 /\ p + 1 \in from..p + 1 /\ p + 1 # from /\ (p + 1) - 1 = p /\ p <= p + 1
  OBVIOUS
<1>3. /\ Lex(t, s, from, p + 1) = g[p + 1]
      /\ Lexes(g, t, s, from, p + 1)
  BY <1>2, LexFcnFacts
<1> HIDE DEF f, g
<1>4. f[p] = g[p]
  BY <1>1, <1>2, <1>3, LexUnique
<1>5. g[p + 1] = LexByte(g[p], t[p + 1], p)
  BY <1>2, <1>3 DEF Lexes, LexAt
<1>6. QED
  BY <1>1, <1>3, <1>4, <1>5

-----------------------------------------------------------------------------
(* Byte by byte, where no backslash stands outside a string.                *)

LexState == [open : BOOLEAN, escaped : BOOLEAN, out : Seq(Nat)]
IsLexed(s) == s \in LexState /\ (s.escaped => s.open)

LEMMA LexByteType ==
    ASSUME NEW s, IsLexed(s), NEW b, NEW p \in Nat
    PROVE  IsLexed(LexByte(s, b, p))
<1>1. s \in LexState /\ (s.escaped => s.open) /\ Append(s.out, p) \in Seq(Nat)
  BY DEF IsLexed, LexState
<1>2. CASE s.escaped
  <2>1. LexByte(s, b, p) = [s EXCEPT !.escaped = FALSE]
    BY <1>2 DEF LexByte
  <2>2. QED
    BY <1>1, <2>1 DEF IsLexed, LexState
<1>3. CASE ~s.escaped /\ s.open /\ b = Backslash
  <2>1. LexByte(s, b, p) = [s EXCEPT !.escaped = TRUE]
    BY <1>3 DEF LexByte, Quote, Backslash
  <2>2. QED
    BY <1>1, <1>3, <2>1 DEF IsLexed, LexState
<1>4. CASE ~s.escaped /\ ~(s.open /\ b = Backslash) /\ b = Quote
  <2>1. LexByte(s, b, p) = [s EXCEPT !.open = ~s.open, !.out = Append(s.out, p)]
    BY <1>4 DEF LexByte, Quote, Backslash
  <2>2. QED
    BY <1>1, <1>4, <2>1 DEF IsLexed, LexState
<1>5. CASE ~s.escaped /\ ~(s.open /\ b = Backslash) /\ b # Quote
  <2>1. LexByte(s, b, p) = s \/ LexByte(s, b, p) = [s EXCEPT !.out = Append(s.out, p)]
    BY <1>5 DEF LexByte
  <2>2. [s EXCEPT !.out = Append(s.out, p)] \in LexState /\ [s EXCEPT !.out = Append(s.out, p)].escaped = s.escaped
    BY <1>1 DEF LexState
  <2>3. QED
    BY <1>1, <1>5, <2>1, <2>2 DEF IsLexed
<1>6. QED
  BY <1>2, <1>3, <1>4, <1>5

LEMMA LexedType ==
    ASSUME NEW p \in Nat
    PROVE  IsLexed(LexedTo(p))
<1> DEFINE S == {k \in 0..p : IsLexed(LexedTo(k))}
<1>0. /\ LexedTo(0) = Lexer(FALSE, FALSE)
      /\ \A k \in Nat : LexedTo(k + 1) = LexByte(LexedTo(k), text[k + 1], k)
  <2>1. 0 \in Nat /\ \A k \in Nat : 0 <= k
    OBVIOUS
  <2>2. LexedTo(0) = Lexer(FALSE, FALSE)
    BY <2>1, LexStarts DEF LexedTo
  <2>3. ASSUME NEW k \in Nat PROVE LexedTo(k + 1) = LexByte(LexedTo(k), text[k + 1], k)
    <3> DEFINE s == Lexer(FALSE, FALSE)
    <3>1. 0 \in Nat /\ 0 <= k
      OBVIOUS
    <3> HIDE DEF s
    <3>2. Lex(text, s, 0, k + 1) = LexByte(Lex(text, s, 0, k), text[k + 1], k)
      BY <3>1, LexNext
    <3>3. QED
      BY <3>2 DEF LexedTo, s
  <2>4. QED
    BY <2>2, <2>3
<1>1. 0 \in S
  <2>1. IsLexed(Lexer(FALSE, FALSE))
    BY DEF IsLexed, LexState, Lexer
  <2>2. IsLexed(LexedTo(0))
    BY <2>1, <1>0, Zenon
  <2>3. 0 \in 0..p
    OBVIOUS
  <2>4. QED
    BY <2>2, <2>3
<1>2. ASSUME NEW k \in S, k < p
      PROVE  k + 1 \in S
  <2>1. k \in Nat /\ k + 1 \in 0..p /\ IsLexed(LexedTo(k))
    BY <1>2
  <2>2. IsLexed(LexedTo(k + 1))
    BY <2>1, <1>0, LexByteType
  <2>3. QED
    BY <2>1, <2>2
<1>3. S = 0..p
  <2>1. S \subseteq 0..p
    OBVIOUS
  <2> HIDE DEF S
  <2>2. QED
    BY <2>1, <1>1, <1>2, Climb
<1>4. p \in S
  <2> HIDE DEF S
  <2> QED
    BY <1>3
<1>5. QED
  BY <1>4

\* The quotes that open and close strings, and what is emitted.
Escaping(p) == LexedTo(p).escaped
Inside(p) == LexedTo(p).open
RealQuote(p) == text[p + 1] = Quote /\ ~Escaping(p)
Keeps(p) == RealQuote(p) \/ (text[p + 1] \in Structurals /\ ~Inside(p + 1))

LEMMA LexedByte ==
    ASSUME EscapesInStrings, NEW p \in Nat, p + 1 \in 1..Len(text)
    PROVE  /\ Escaping(p + 1) <=> (text[p + 1] = Backslash /\ ~Escaping(p))
           /\ Inside(p + 1) <=> (IF RealQuote(p) THEN ~Inside(p) ELSE Inside(p))
           /\ LexedTo(p + 1).out = IF Keeps(p) THEN Append(LexedTo(p).out, p) ELSE LexedTo(p).out
<1> DEFINE s == LexedTo(p)
           b == text[p + 1]
           r == LexedTo(p + 1)
<1>1. r = LexByte(s, b, p)
  <2>1. 0 \in Nat /\ 0 <= p
    OBVIOUS
  <2>2. QED
    BY <2>1, LexNext DEF LexedTo
<1>2. IsLexed(s)
  BY LexedType
<1>3. b = Backslash => s.open
  <2>1. (p + 1) - 1 = p
    OBVIOUS
  <2>2. QED
    BY <2>1 DEF EscapesInStrings
<1>4. Quote # Backslash /\ Backslash \notin Structurals /\ Quote \in Structurals
  BY DEF Quote, Backslash, Structurals, Brackets, Openers
<1> SUFFICES
      /\ r.escaped <=> (b = Backslash /\ ~s.escaped)
      /\ r.open <=> (IF b = Quote /\ ~s.escaped THEN ~s.open ELSE s.open)
      /\ r.out = IF (b = Quote /\ ~s.escaped) \/ (b \in Structurals /\ ~r.open) THEN Append(s.out, p) ELSE s.out
  BY DEF Escaping, Inside, RealQuote, Keeps
<1> HIDE DEF s, b, r
<1>5. s \in LexState /\ (s.escaped => s.open)
  BY <1>2 DEF IsLexed
<1>6. CASE s.escaped
  <2>1. r = [s EXCEPT !.escaped = FALSE]
    BY <1>1, <1>6 DEF LexByte
  <2>2. QED
    BY <1>5, <1>6, <2>1 DEF LexState
<1>7. CASE ~s.escaped /\ b = Backslash
  <2>1. r = [s EXCEPT !.escaped = TRUE]
    BY <1>1, <1>3, <1>4, <1>7 DEF LexByte
  <2>2. QED
    BY <1>3, <1>4, <1>5, <1>7, <2>1 DEF LexState
<1>8. CASE ~s.escaped /\ b # Backslash /\ b = Quote
  <2>1. r = [s EXCEPT !.open = ~s.open, !.out = Append(s.out, p)]
    BY <1>1, <1>4, <1>8 DEF LexByte
  <2>2. QED
    BY <1>5, <1>8, <2>1 DEF LexState
<1>9. CASE ~s.escaped /\ b # Backslash /\ b # Quote
  <2>1. r = IF ~s.open /\ b \in Structurals THEN [s EXCEPT !.out = Append(s.out, p)] ELSE s
    BY <1>1, <1>9 DEF LexByte
  <2>2. QED
    BY <1>5, <1>9, <2>1 DEF LexState
<1>10. QED
  BY <1>6, <1>7, <1>8, <1>9

-----------------------------------------------------------------------------
(* The escape mask.  E says of each lane, and of the byte after the chunk,  *)
(* whether a backslash escapes it: a run of backslashes takes turns.        *)

TakesTurns(bs, pc, E) ==
    /\ E \in [0..W -> BOOLEAN]
    /\ E[0] <=> pc # {}
    /\ \A k \in Lanes : E[k + 1] <=> (k \in bs /\ ~E[k])

LEMMA RunParity ==
    ASSUME ScanAssumption, NEW bs, NEW pc, NEW E, TakesTurns(bs, pc, E),
           NEW j \in 0..W, NEW m \in 0..W, j <= m, j..m - 1 \subseteq bs
    PROVE  E[m] <=> (E[j] <=> (m - j) % 2 = 0)
<1> DEFINE S == {d \in 0..m - j : E[j + d] <=> (E[j] <=> d % 2 = 0)}
<1>0. W \in Nat /\ m - j \in Nat /\ j + (m - j) = m
  BY DEF ScanAssumption
<1>1. 0 \in S
  <2>1. j + 0 = j /\ 0 % 2 = 0 /\ 0 \in 0..m - j
    BY <1>0
  <2>2. QED
    BY <2>1
<1>2. ASSUME NEW d \in S, d < m - j
      PROVE  d + 1 \in S
  <2>1. /\ d \in Nat /\ d + 1 \in 0..m - j /\ j + d \in Lanes /\ j + d \in j..m - 1
        /\ (j + d) + 1 = j + (d + 1)
    BY <1>0, <1>2 DEF Lanes
  <2>2. E[j + d] <=> (E[j] <=> d % 2 = 0)
    OBVIOUS
  <2>3. E[(j + d) + 1] <=> (j + d \in bs /\ ~E[j + d])
    BY <2>1 DEF TakesTurns
  <2>4. j + d \in bs
    BY <2>1
  <2>5. (d + 1) % 2 = 0 <=> ~(d % 2 = 0)
    BY <2>1
  <2>6. E[j + (d + 1)] <=> (E[j] <=> (d + 1) % 2 = 0)
    BY <2>1, <2>2, <2>3, <2>4, <2>5
  <2>7. QED
    BY <2>1, <2>6
<1>3. S = 0..m - j
  <2>1. S \subseteq 0..m - j
    OBVIOUS
  <2> HIDE DEF S
  <2>2. QED
    BY <1>0, <2>1, <1>1, <1>2, Climb
<1>4. m - j \in S
  <2> HIDE DEF S
  <2> QED
    BY <1>0, <1>3
<1>5. QED
  BY <1>0, <1>4

\* The run of backslashes that ends before lane k, perhaps an empty one, has a start.
LEMMA RunStart ==
    ASSUME NEW bs, NEW k \in Nat
    PROVE  \E j \in 0..k : j..k - 1 \subseteq bs /\ (j > 0 => j - 1 \notin bs)
<1> DEFINE S == {j \in 0..k : j..k - 1 \subseteq bs}
<1>1. S \in SUBSET Nat /\ IsFiniteSet(S) /\ S # {}
  <2>1. k \in S
    OBVIOUS
  <2>2. IsFiniteSet(0..k) /\ S \in SUBSET (0..k) /\ 0..k \subseteq Nat
    BY FS_Interval
  <2> HIDE DEF S
  <2>3. QED
    BY <2>1, <2>2, FS_Subset
<1>2. PICK j \in S : \A l \in S : j <= l
  <2> HIDE DEF S
  <2> QED
    BY <1>1, EndsExist
<1>3. j \in 0..k /\ j..k - 1 \subseteq bs
  OBVIOUS
<1>4. ASSUME j > 0, j - 1 \in bs PROVE FALSE
  <2>1. j - 1 \in 0..k /\ j - 1..k - 1 \subseteq bs
    BY <1>3, <1>4
  <2>2. j - 1 \in S
    BY <2>1
  <2>3. j <= j - 1
    BY <2>2, <1>2
  <2>4. QED
    BY <2>3, <1>3
<1>5. QED
  BY <1>3, <1>4

\* Adding some starts of runs carries out behind those runs.
LEMMA AddEnds ==
    ASSUME ScanAssumption, NEW bs \in SUBSET Lanes, NEW pc \in {{}, {0}}, NEW par, NEW k \in Lanes, k \notin bs,
           NEW j \in 0..k, j..k - 1 \subseteq bs, j > 0 => j - 1 \notin bs
    PROVE  k \in WrappingAdd(bs, (bs \ (Shifted(bs) \cup pc)) \cap par) <=> j < k /\ j \in par /\ j \notin pc
<1> DEFINE S == (bs \ (Shifted(bs) \cup pc)) \cap par
<1>0. W \in Nat /\ k \in Nat /\ j \in Nat /\ \A h \in bs : h \in Nat /\ h + 1 \in Nat
  BY DEF ScanAssumption, Lanes
<1>1. bs \cap S = S /\ bs \cup S = bs /\ k \notin S
  OBVIOUS
<1>2. k \in WrappingAdd(bs, S) <=> \E h \in 0..k - 1 : h \in S /\ h + 1..k - 1 \subseteq bs
  <2>1. k \in WrappingAdd(bs, S) <=> Carried(bs, S, k)
    <3> HIDE DEF S
    <3>1. Carried(bs, S, k) \in BOOLEAN
      BY DEF Carried
    <3>2. k \in WrappingAdd(bs, S) <=> ((k \in bs) # (k \in S)) # Carried(bs, S, k)
      BY DEF WrappingAdd
    <3>3. QED
      BY <1>1, <3>1, <3>2
  <2>2. Carried(bs, S, k) <=> \E h \in 0..k - 1 : h \in S /\ h + 1..k - 1 \subseteq bs
    <3> HIDE DEF S
    <3> QED
      BY <1>1, Zenon DEF Carried
  <2>3. QED
    BY <2>1, <2>2
<1>3. \A h \in Lanes : h \in Shifted(bs) <=> h - 1 \in bs
  <2>1. \A h \in Lanes : (\E l \in bs : h = l + 1) <=> h - 1 \in bs
    BY <1>0 DEF Lanes
  <2>2. \A h \in Lanes : h \in Shifted(bs) <=> \E l \in bs : h = l + 1
    BY DEF Shifted
  <2>3. QED
    BY <2>1, <2>2
<1>4. ASSUME NEW h \in 0..k - 1, h \in S, h + 1..k - 1 \subseteq bs
      PROVE  h = j
  <2>1. h \in bs /\ h \in Lanes /\ h - 1 \notin bs /\ h \in Nat
    BY <1>0, <1>3, <1>4 DEF Lanes
  <2>2. ~(h < j)
    <3> SUFFICES ASSUME h < j PROVE FALSE
      OBVIOUS
    <3>1. j - 1 \in h + 1..k - 1 \/ j - 1 = h
      BY <2>1, <1>0
    <3>2. j > 0
      BY <2>1, <1>0
    <3>3. QED
      BY <3>1, <3>2, <2>1, <1>4
  <2>3. ~(j < h)
    <3> SUFFICES ASSUME j < h PROVE FALSE
      OBVIOUS
    <3>1. h - 1 \in j..k - 1
      BY <2>1, <1>0
    <3>2. QED
      BY <3>1, <2>1
  <2>4. QED
    BY <2>1, <2>2, <2>3, <1>0
<1>5. ASSUME j < k PROVE j \in bs \ Shifted(bs) /\ j + 1..k - 1 \subseteq bs /\ j \in 0..k - 1
  <2>1. j \in j..k - 1 /\ j \in Lanes /\ j + 1..k - 1 \subseteq j..k - 1 /\ j \in 0..k - 1
    BY <1>0, <1>5 DEF Lanes
  <2>2. j - 1 \notin bs
    BY <1>0 DEF Lanes
  <2>3. QED
    BY <2>1, <2>2, <1>3
<1>6. (\E h \in 0..k - 1 : h \in S /\ h + 1..k - 1 \subseteq bs) <=> j < k /\ j \in par /\ j \notin pc
  <2>1. ASSUME NEW h \in 0..k - 1, h \in S, h + 1..k - 1 \subseteq bs
        PROVE  j < k /\ j \in par /\ j \notin pc
    <3>1. h = j
      BY <2>1, <1>4
    <3>2. QED
      BY <3>1, <2>1, <1>0
  <2>2. ASSUME j < k, j \in par, j \notin pc
        PROVE  \E h \in 0..k - 1 : h \in S /\ h + 1..k - 1 \subseteq bs
    BY <2>2, <1>5
  <2> HIDE DEF S
  <2>3. QED
    BY <2>1, <2>2
<1>7. QED
  BY <1>2, <1>6

\* The run a chunk begins with ends at the first lane without a backslash.
LEMMA TrailingOnesIs ==
    ASSUME ScanAssumption, NEW bs \in SUBSET Lanes, NEW k \in Lanes, k \notin bs
    PROVE  TrailingOnes(bs) = k <=> 0..k - 1 \subseteq bs
<1> DEFINE S == (0..W) \ bs
           T == TrailingOnes(bs)
<1>0. W \in Nat /\ k \in Nat /\ k \in S /\ k \in 0..W
  BY DEF ScanAssumption, Lanes
<1>1. S \in SUBSET Nat /\ IsFiniteSet(S) /\ S # {}
  <2>1. IsFiniteSet(0..W) /\ S \in SUBSET (0..W) /\ 0..W \subseteq Nat
    BY <1>0, FS_Interval
  <2> HIDE DEF S
  <2>2. QED
    BY <2>1, <1>0, FS_Subset
<1>2. T \in S /\ \A y \in S : T <= y
  <2>1. \E x \in S : \A y \in S : x <= y
    <3> HIDE DEF S
    <3> QED
      BY <1>1, EndsExist
  <2>2. T = CHOOSE x \in S : \A y \in S : x <= y
    BY DEF TrailingOnes, Min
  <2> HIDE DEF S, T
  <2>3. QED
    BY <2>1, <2>2, Zenon
<1> HIDE DEF T
<1>3. T \in 0..W /\ T \notin bs /\ T <= k
  BY <1>0, <1>2
<1>4. ASSUME T = k PROVE 0..k - 1 \subseteq bs
  <2> SUFFICES ASSUME NEW l \in 0..k - 1, l \notin bs PROVE FALSE
    OBVIOUS
  <2>1. l \in S /\ l < k /\ l \in Nat
    BY <1>0
  <2>2. QED
    BY <2>1, <1>2, <1>4, <1>0
<1>5. ASSUME 0..k - 1 \subseteq bs PROVE T = k
  <2>1. ~(T < k)
    <3> SUFFICES ASSUME T < k PROVE FALSE
      OBVIOUS
    <3>1. T \in 0..k - 1
      BY <1>0, <1>3
    <3>2. QED
      BY <3>1, <1>3, <1>5
  <2>2. QED
    BY <2>1, <1>0, <1>3
<1>6. QED
  BY <1>4, <1>5 DEF T

\* The mask has the lanes that are escaped, of those a quote can stand in.
LEMMA MaskMeaning ==
    ASSUME ScanAssumption, NEW bs \in SUBSET Lanes, NEW pc \in {{}, {0}}, NEW E, TakesTurns(bs, pc, E),
           NEW k \in Lanes, k \notin bs
    PROVE  k \in EscapeMask(bs, pc) <=> E[k]
<1> DEFINE starts == bs \ (Shifted(bs) \cup pc)
           ends(par) == WrappingAdd(bs, starts \cap par) \ bs
           led == IF pc # {} /\ 0 \in bs THEN {TrailingOnes(bs)} \cap Lanes \cap Even ELSE {}
<1>0. W \in Nat /\ k \in Nat /\ k \in 0..W
  BY DEF ScanAssumption, Lanes
<1>1. PICK j \in 0..k : j..k - 1 \subseteq bs /\ (j > 0 => j - 1 \notin bs)
  BY <1>0, RunStart
<1>2. j \in Nat /\ j <= k /\ j \in 0..W /\ j \in Lanes
  BY <1>0 DEF Lanes
<1>3. k \in EscapeMask(bs, pc) <=>
         (k \in ends(Even) /\ k \in Odd) \/ (k \in ends(Odd) /\ k \in Even) \/ k \in pc \/ k \in led
  BY DEF EscapeMask
<1>4. (k \in ends(Even) <=> j < k /\ j \in Even /\ j \notin pc) /\ (k \in ends(Odd) <=> j < k /\ j \in Odd /\ j \notin pc)
  <2>0. ASSUME NEW par PROVE k \in WrappingAdd(bs, starts \cap par) <=> j < k /\ j \in par /\ j \notin pc
    <3>1. k \in WrappingAdd(bs, (bs \ (Shifted(bs) \cup pc)) \cap par) <=> j < k /\ j \in par /\ j \notin pc
      <4> HIDE DEF starts, ends, led
      <4> QED
        BY <1>1, AddEnds, ZenonT(60)
    <3>2. QED
      BY <3>1
  <2>1. k \in WrappingAdd(bs, starts \cap Even) <=> j < k /\ j \in Even /\ j \notin pc
    BY <2>0
  <2>2. k \in WrappingAdd(bs, starts \cap Odd) <=> j < k /\ j \in Odd /\ j \notin pc
    BY <2>0
  <2> HIDE DEF starts
  <2>3. QED
    BY <2>1, <2>2
<1>5. k \in led <=> pc # {} /\ j = 0 /\ j < k /\ k % 2 = 0
  <2>1. k \in led <=> pc # {} /\ 0 \in bs /\ TrailingOnes(bs) = k /\ k % 2 = 0
    BY DEF Even
  <2>2. TrailingOnes(bs) = k <=> 0..k - 1 \subseteq bs
    BY TrailingOnesIs
  <2>3. 0 \in bs /\ 0..k - 1 \subseteq bs <=> j = 0 /\ j < k
    <3>1. ASSUME 0 \in bs, 0..k - 1 \subseteq bs PROVE j = 0 /\ j < k
      <4>1. j > 0 => j - 1 \in 0..k - 1
        BY <1>2, <1>0
      <4>2. j = 0
        BY <4>1, <1>1, <1>2, <3>1
      <4>3. QED
        BY <4>2, <3>1, <1>0
    <3>2. ASSUME j = 0, j < k PROVE 0 \in bs /\ 0..k - 1 \subseteq bs
      <4>1. 0 \in j..k - 1
        BY <3>2, <1>0
      <4>2. QED
        BY <4>1, <1>1, <3>2
    <3>3. QED
      BY <3>1, <3>2
  <2> HIDE DEF led
  <2>4. QED
    BY <2>1, <2>2, <2>3
<1>6. E[k] <=> (E[j] <=> (k - j) % 2 = 0)
  BY <1>0, <1>1, <1>2, RunParity
<1>7. j > 0 => ~E[j]
  <2> SUFFICES ASSUME j > 0 PROVE ~E[j]
    OBVIOUS
  <2>1. j - 1 \in Lanes /\ (j - 1) + 1 = j
    BY <1>2 DEF Lanes
  <2>2. E[(j - 1) + 1] <=> (j - 1 \in bs /\ ~E[j - 1])
    BY <2>1 DEF TakesTurns
  <2>3. QED
    BY <2>1, <2>2, <1>1
<1>8. E[0] <=> pc # {}
  BY DEF TakesTurns
<1>9. (k \in Even <=> k % 2 = 0) /\ (j \in Even <=> j % 2 = 0) /\ (k \in Odd <=> k % 2 # 0) /\ (j \in Odd <=> j % 2 # 0)
  BY <1>2 DEF Odd, Even
<1> HIDE DEF led, ends, starts
<1>10. (k \in pc <=> pc # {} /\ k = 0) /\ (j \in pc <=> pc # {} /\ j = 0)
  OBVIOUS
<1>11. (k - j) % 2 = 0 <=> (k % 2 = 0 <=> j % 2 = 0)
  BY <1>0, <1>2
<1>12. CASE j = 0 /\ pc # {}
  <2>1. E[k] <=> k % 2 = 0
    <3>1. j % 2 = 0
      BY <1>12
    <3>2. QED
      BY <3>1, <1>6, <1>8, <1>11, <1>12
  <2>2. CASE k = 0
    <3>1. k % 2 = 0 /\ k \in pc
      BY <2>2, <1>10, <1>12
    <3>2. QED
      BY <3>1, <2>1, <1>3
  <2>3. CASE k # 0
    <3>1. j < k /\ k \notin pc /\ j \in pc
      BY <2>3, <1>0, <1>10, <1>12
    <3>2. QED
      BY <3>1, <2>1, <1>3, <1>4, <1>5, <1>12
  <2>4. QED
    BY <2>2, <2>3
<1>13. CASE ~(j = 0 /\ pc # {})
  <2>1. ~E[j] /\ j \notin pc /\ k \notin led
    BY <1>2, <1>5, <1>7, <1>8, <1>10, <1>13
  <2>2. E[k] <=> ~(k % 2 = 0 <=> j % 2 = 0)
    BY <2>1, <1>6, <1>11
  <2>3. k \notin pc
    BY <1>2, <1>0, <1>10, <1>13
  <2>4. CASE j = k
    BY <2>1, <2>2, <2>3, <2>4, <1>3, <1>4, <1>2
  <2>5. CASE j < k
    BY <2>1, <2>2, <2>3, <2>5, <1>3, <1>4, <1>9
  <2>6. QED
    BY <2>4, <2>5, <1>0, <1>2
<1>14. QED
  BY <1>12, <1>13

\* The carry says whether the byte after the chunk is escaped.
LEMMA CarryMeaning ==
    ASSUME ScanAssumption, NEW bs \in SUBSET Lanes, NEW pc \in {{}, {0}}, NEW E, TakesTurns(bs, pc, E)
    PROVE  EscapeCarry(bs, pc) # {} <=> E[W]
<1>0. W \in Nat /\ W >= 1 /\ W % 2 = 0 /\ W - 0 = W
  BY DEF ScanAssumption
<1>1. CASE bs = Lanes
  <2>1. 0 \in 0..W /\ W \in 0..W /\ 0 <= W /\ 0..W - 1 \subseteq bs
    BY <1>0, <1>1 DEF Lanes
  <2>2. E[W] <=> (E[0] <=> (W - 0) % 2 = 0)
    BY <2>1, RunParity
  <2>3. E[W] <=> E[0]
    BY <2>2, <1>0
  <2>4. QED
    BY <2>3, <1>1 DEF TakesTurns, EscapeCarry
<1>2. CASE bs # Lanes
  <2> DEFINE S == {-1} \cup (Lanes \ bs)
             M == Max(S)
  <2>1. PICK x \in Lanes \ bs : \A y \in Lanes \ bs : y <= x
    <3>1. Lanes \in SUBSET Nat /\ IsFiniteSet(Lanes)
      BY <1>0, FS_Interval DEF Lanes
    <3>2. Lanes \ bs \in SUBSET Nat /\ IsFiniteSet(Lanes \ bs) /\ Lanes \ bs # {}
      BY <3>1, <1>2, FS_Subset
    <3>3. QED
      BY <3>2, EndsExist
  <2>2. x \in 0..W - 1
    BY DEF Lanes
  <2>3. M = x
    <3>1. x \in S /\ \A y \in S : x >= y
      BY <2>1, <2>2 DEF Lanes
    <3>2. \A z \in S : (\A y \in S : z >= y) => z = x
      BY <3>1, <2>2, <1>0 DEF Lanes
    <3>3. M = CHOOSE z \in S : \A y \in S : z >= y
      BY DEF Max
    <3> HIDE DEF S, M
    <3>4. QED
      BY <3>1, <3>2, <3>3, Zenon
  <2>4. TrailingRun(bs) = W - 1 - x
    BY <2>3 DEF TrailingRun
  <2> HIDE DEF S, M
  <2>5. x + 1 \in 0..W /\ W \in 0..W /\ x + 1 <= W /\ W - (x + 1) = W - 1 - x
    BY <1>0, <2>2
  <2>6. x + 1..W - 1 \subseteq bs
    <3> SUFFICES ASSUME NEW l \in x + 1..W - 1, l \notin bs PROVE FALSE
      OBVIOUS
    <3>1. l \in Lanes \ bs /\ l > x
      BY <1>0, <2>2 DEF Lanes
    <3>2. QED
      BY <3>1, <2>1, <2>2, <1>0
  <2>7. E[W] <=> (E[x + 1] <=> (W - (x + 1)) % 2 = 0)
    <3> DEFINE y == x + 1
    <3>1. y \in 0..W /\ W \in 0..W /\ y <= W /\ y..W - 1 \subseteq bs
      BY <2>5, <2>6
    <3> HIDE DEF y
    <3>2. E[W] <=> (E[y] <=> (W - y) % 2 = 0)
      BY <3>1, RunParity, ZenonT(60)
    <3>3. QED
      BY <3>2 DEF y
  <2>8. ~E[x + 1]
    BY <2>1 DEF TakesTurns
  <2>9. E[W] <=> (W - 1 - x) % 2 = 1
    <3>1. W - 1 - x \in Nat
      BY <1>0, <2>2
    <3>2. (W - 1 - x) % 2 = 1 <=> ~((W - 1 - x) % 2 = 0)
      BY <3>1
    <3>3. QED
      BY <3>2, <2>5, <2>7, <2>8
  <2>10. QED
    BY <2>4, <2>9, <1>2 DEF EscapeCarry
<1>3. QED
  BY <1>1, <1>2

-----------------------------------------------------------------------------
(* The lanes inside strings, and the offsets emitted.  O says of each lane, *)
(* and of the byte after the chunk, whether a string is open before it.     *)

LEMMA InsideMeaning ==
    ASSUME ScanAssumption, NEW quotes \in SUBSET Lanes, NEW O \in [0..W -> BOOLEAN],
           \A k \in Lanes : O[k + 1] <=> IF k \in quotes THEN ~O[k] ELSE O[k]
    PROVE  \A k \in Lanes : k \in InsideMask(quotes, O[0]) <=> O[k + 1]
<1> DEFINE C(m) == Cardinality({q \in quotes : q <= m - 1})
           S == {m \in 0..W : (C(m) % 2 = 1) # O[0] <=> O[m]}
<1>0. W \in Nat /\ W >= 1 /\ quotes \in SUBSET Nat /\ IsFiniteSet(quotes)
  <2>1. W \in Nat /\ W >= 1
    BY DEF ScanAssumption
  <2>2. Lanes \in SUBSET Nat /\ IsFiniteSet(Lanes)
    BY <2>1, FS_Interval DEF Lanes
  <2>3. QED
    BY <2>1, <2>2, FS_Subset
<1>1. 0 \in S
  <2>1. {q \in quotes : q <= 0 - 1} = {}
    <3>1. \A q \in quotes : ~(q <= 0 - 1)
      BY <1>0
    <3>2. QED
      BY <3>1, Zenon
  <2>2. C(0) = 0
    BY <2>1, FS_EmptySet
  <2>3. 0 % 2 # 1 /\ O[0] \in BOOLEAN /\ 0 \in 0..W
    BY <1>0
  <2>4. (C(0) % 2 = 1) # O[0] <=> O[0]
    BY <2>2, <2>3
  <2>5. QED
    BY <2>3, <2>4
<1>2. ASSUME NEW m \in S, m < W
      PROVE  m + 1 \in S
  <2>1. m \in Nat /\ m \in Lanes /\ m + 1 \in 0..W /\ m \in 0..W
    BY <1>0, <1>2 DEF Lanes
  <2>2. (C(m) % 2 = 1) # O[0] <=> O[m]
    OBVIOUS
  <2>3. O[m + 1] <=> IF m \in quotes THEN ~O[m] ELSE O[m]
    BY <2>1
  <2>4. {q \in quotes : q <= m - 1} \in SUBSET quotes /\ IsFiniteSet({q \in quotes : q <= m - 1})
    BY <1>0, FS_Subset
  <2>5. C(m) \in Nat
    BY <2>4, FS_CardinalityType
  <2>6. m \in quotes => C(m + 1) = C(m) + 1
    <3> SUFFICES ASSUME m \in quotes PROVE C(m + 1) = C(m) + 1
      OBVIOUS
    <3> DEFINE A == {q \in quotes : q <= m - 1}
    <3>1. \A q \in quotes : q <= (m + 1) - 1 <=> q <= m - 1 \/ q = m
      BY <1>0, <2>1
    <3>2. {q \in quotes : q <= (m + 1) - 1} = A \cup {m} /\ m \notin A
      <4>1. ~(m <= m - 1)
        BY <2>1
      <4>2. {q \in quotes : q <= (m + 1) - 1} = A \cup {m}
        BY <3>1, Zenon
      <4>3. QED
        BY <4>1, <4>2
    <3> HIDE DEF A
    <3>3. Cardinality(A \cup {m}) = Cardinality(A) + 1
      BY <3>2, <2>4, FS_AddElement DEF A
    <3>4. QED
      BY <3>2, <3>3 DEF A
  <2>7. m \notin quotes => C(m + 1) = C(m)
    <3> SUFFICES ASSUME m \notin quotes PROVE C(m + 1) = C(m)
      OBVIOUS
    <3>1. \A q \in quotes : q <= (m + 1) - 1 <=> q <= m - 1
      BY <1>0, <2>1
    <3>2. {q \in quotes : q <= (m + 1) - 1} = {q \in quotes : q <= m - 1}
      BY <3>1
    <3>3. QED
      BY <3>2
  <2> HIDE DEF C
  <2>8. (C(m) + 1) % 2 = 1 <=> ~(C(m) % 2 = 1)
    BY <2>5
  <2>9. O[0] \in BOOLEAN /\ O[m] \in BOOLEAN /\ O[m + 1] \in BOOLEAN
    BY <1>0, <2>1
  <2>10. (C(m + 1) % 2 = 1) # O[0] <=> O[m + 1]
    <3>1. CASE m \in quotes
      <4>1. C(m + 1) % 2 = 1 <=> ~(C(m) % 2 = 1)
        BY <3>1, <2>6, <2>8
      <4>2. O[m + 1] <=> ~O[m]
        BY <3>1, <2>3
      <4>3. QED
        BY <4>1, <4>2, <2>2, <2>9
    <3>2. CASE m \notin quotes
      BY <3>2, <2>2, <2>3, <2>7, <2>9
    <3>3. QED
      BY <3>1, <3>2
  <2>11. QED
    BY <2>1, <2>10
<1>3. S = 0..W
  <2>1. S \subseteq 0..W
    OBVIOUS
  <2> HIDE DEF S
  <2>2. QED
    BY <1>0, <2>1, <1>1, <1>2, Climb
<1>4. ASSUME NEW k \in Lanes PROVE k \in InsideMask(quotes, O[0]) <=> O[k + 1]
  <2>1. k + 1 \in S /\ (k + 1) - 1 = k
    <3>1. k + 1 \in 0..W /\ (k + 1) - 1 = k
      BY <1>0 DEF Lanes
    <3> HIDE DEF S
    <3>2. QED
      BY <3>1, <1>3
  <2>2. (C(k + 1) % 2 = 1) # O[0] <=> O[k + 1]
    BY <2>1
  <2>3. C(k + 1) = Cardinality({q \in quotes : q <= k})
    BY <2>1
  <2> HIDE DEF C
  <2>4. QED
    BY <2>2, <2>3 DEF InsideMask
<1>5. QED
  BY <1>4

\* A later lane is emitted behind the others.
LEMMA EmitAppend ==
    ASSUME NEW m \in SUBSET Nat, IsFiniteSet(m), NEW k \in Nat, \A h \in m : h < k, NEW base \in Nat
    PROVE  /\ Emit(m, base) \in Seq(Nat)
           /\ Emit(m \cup {k}, base) = Append(Emit(m, base), base + k)
<1> DEFINE M == m \cup {k}
           c == Cardinality(m)
<1>0. M \in SUBSET Nat /\ IsFiniteSet(M) /\ k \notin m /\ k \in M
  BY FS_AddElement
<1>1. Cardinality(M) = c + 1
  BY <1>0, FS_AddElement
<1>2. c \in Nat
  BY FS_CardinalityType
<1>3. \A n \in 1..c : ByRank(m)[n] \in m /\ Cardinality(UpTo(m, ByRank(m)[n])) = n
  BY ByRankFacts
<1>4. \A x \in M : ByRank(M)[Cardinality(UpTo(M, x))] = x
  <2> HIDE DEF M
  <2> QED
    BY <1>0, ByRankFacts
<1>5. ASSUME NEW x \in m PROVE UpTo(M, x) = UpTo(m, x)
  <2>1. ~(k <= x)
    OBVIOUS
  <2>2. QED
    BY <2>1 DEF UpTo
<1>6. UpTo(M, k) = M
  <2>1. \A h \in M : h <= k
    OBVIOUS
  <2> HIDE DEF M
  <2>2. QED
    BY <2>1, Zenon DEF UpTo
<1>7. ASSUME NEW n \in 1..c PROVE ByRank(M)[n] = ByRank(m)[n]
  <2> DEFINE x == ByRank(m)[n]
  <2>1. x \in m /\ Cardinality(UpTo(m, x)) = n
    BY <1>3
  <2> HIDE DEF x
  <2>2. Cardinality(UpTo(M, x)) = n /\ x \in M
    BY <2>1, <1>5
  <2> HIDE DEF M
  <2>3. ByRank(M)[n] = x
    BY <2>2, <1>4
  <2>4. QED
    BY <2>3 DEF x
<1>8. ByRank(M)[c + 1] = k
  <2> HIDE DEF M, c
  <2> QED
    BY <1>0, <1>1, <1>4, <1>6
<1>9. \A S : Emit(S, base) = [n \in 1..Cardinality(S) |-> base + ByRank(S)[n]]
  BY DEF Emit, ByRank, UpTo
<1> DEFINE e == Emit(m, base)
           E == Emit(M, base)
<1>10. e = [n \in 1..c |-> base + ByRank(m)[n]] /\ E = [n \in 1..c + 1 |-> base + ByRank(M)[n]]
  BY <1>1, <1>9
<1> HIDE DEF e, E, M, c
<1>11. e \in Seq(Nat) /\ Len(e) = c
  <2>1. \A n \in 1..c : base + ByRank(m)[n] \in Nat
    <3>1. \A h \in m : h \in Nat
      OBVIOUS
    <3>2. \A n \in 1..c : ByRank(m)[n] \in Nat
      BY <1>3, <3>1
    <3>3. QED
      BY <3>2
  <2>2. QED
    BY <1>2, <1>10, <2>1
<1>12. Append(e, base + k) = [n \in 1..c + 1 |-> IF n <= c THEN e[n] ELSE base + k]
  BY <1>2, <1>11
<1>13. \A n \in 1..c + 1 : base + ByRank(M)[n] = IF n <= c THEN e[n] ELSE base + k
  <2> SUFFICES ASSUME NEW n \in 1..c + 1 PROVE base + ByRank(M)[n] = IF n <= c THEN e[n] ELSE base + k
    OBVIOUS
  <2>1. CASE n <= c
    <3>1. n \in 1..c
      BY <2>1, <1>2
    <3>2. e[n] = base + ByRank(m)[n]
      BY <3>1, <1>10
    <3>3. QED
      BY <3>1, <3>2, <2>1, <1>7
  <2>2. CASE ~(n <= c)
    <3>1. n = c + 1
      BY <2>2, <1>2
    <3>2. QED
      BY <3>1, <2>2, <1>8
  <2>3. QED
    BY <2>1, <2>2
<1>14. E = Append(e, base + k)
  BY <1>10, <1>12, <1>13
<1>15. QED
  BY <1>11, <1>14 DEF E, e, M

LEMMA JoinAppend ==
    ASSUME NEW a \in Seq(Nat), NEW b \in Seq(Nat), NEW x \in Nat
    PROVE  a \o Append(b, x) = Append(a \o b, x)
<1>1. a \o b \in Seq(Nat) /\ <<x>> \in Seq(Nat)
  BY ConcatProperties
<1>2. Append(b, x) = b \o <<x>> /\ Append(a \o b, x) = (a \o b) \o <<x>>
  BY <1>1, AppendIsConcat
<1>3. QED
  BY <1>1, <1>2, ConcatAssociative

LEMMA EmitNone ==
    ASSUME NEW base PROVE Emit({}, base) = <<>>
<1>1. Cardinality({}) = 0
  BY FS_EmptySet
<1>2. QED
  BY <1>1 DEF Emit

-----------------------------------------------------------------------------
(* A chunk.                                                                 *)

Agreed == [open |-> in_string, escaped |-> bs_carry # {}, out |-> indices] = LexedTo(i)

\* There is a chunk at i, and up to i the scan agrees with the bytes.
ChunkHere ==
    /\ i \in Nat /\ Len(text) \in Nat /\ i + W <= Len(text)
    /\ bs_carry \in {{}, {0}}
    /\ EscapesInStrings /\ Agreed

Backslashes == LanesOf(text, i, {Backslash})
Quotes == LanesOf(text, i, {Quote}) \ EscapeMask(Backslashes, bs_carry)
InsideLanes == InsideMask(Quotes, in_string)
Kept == (LanesOf(text, i, Structurals) \ InsideLanes) \cup Quotes

LEMMA LaneBytes ==
    ASSUME ScanAssumption, i \in Nat, Len(text) \in Nat, i + W <= Len(text), NEW k \in Lanes
    PROVE  /\ i + k \in Nat /\ (i + k) + 1 \in 1..Len(text) /\ i + (k + 1) = (i + k) + 1 /\ i + k + 1 = (i + k) + 1
           /\ k \in 0..W /\ k + 1 \in 0..W /\ W \in Nat /\ W - 1 \in Lanes /\ i + ((W - 1) + 1) = i + W
           /\ 0 \in 0..W /\ W \in 0..W
BY DEF ScanAssumption, Lanes

LEMMA LexedBooleans ==
    ASSUME NEW p \in Nat
    PROVE  Escaping(p) \in BOOLEAN /\ Inside(p) \in BOOLEAN /\ LexedTo(p).out \in Seq(Nat)
BY LexedType DEF IsLexed, LexState, Escaping, Inside

\* The escapes and the carry.
LEMMA ChunkEscapes ==
    ASSUME ScanAssumption, ChunkHere
    PROVE  /\ \A k \in Lanes : text[i + k + 1] # Backslash =>
                 (k \in EscapeMask(Backslashes, bs_carry) <=> Escaping(i + k))
           /\ EscapeCarry(Backslashes, bs_carry) # {} <=> Escaping(i + W)
<1> DEFINE E == [k \in 0..W |-> Escaping(i + k)]
<1>0. W \in Nat /\ W - 1 \in Nat /\ i \in Nat /\ \A k \in 0..W : k \in Nat
  BY DEF ScanAssumption, ChunkHere
<1>1. \A k \in 0..W : i + k \in Nat /\ Escaping(i + k) \in BOOLEAN
  BY <1>0, LexedBooleans
<1>2. E \in [0..W -> BOOLEAN] /\ \A k \in 0..W : E[k] = Escaping(i + k)
  BY <1>1
<1>3. E[0] <=> bs_carry # {}
  <2>1. 0 \in 0..W /\ i + 0 = i
    BY <1>0
  <2>2. LexedTo(i).escaped = (bs_carry # {})
    BY DEF ChunkHere, Agreed
  <2> HIDE DEF E
  <2>3. QED
    BY <2>1, <2>2, <1>2 DEF Escaping
<1>4. ASSUME NEW k \in Lanes PROVE E[k + 1] <=> (k \in Backslashes /\ ~E[k])
  <2>1. /\ i + k \in Nat /\ (i + k) + 1 \in 1..Len(text) /\ i + (k + 1) = (i + k) + 1 /\ i + k + 1 = (i + k) + 1
        /\ k \in 0..W /\ k + 1 \in 0..W
    BY LaneBytes DEF ChunkHere
  <2>2. Escaping((i + k) + 1) <=> (text[(i + k) + 1] = Backslash /\ ~Escaping(i + k))
    BY <2>1, LexedByte DEF ChunkHere
  <2>3. k \in Backslashes <=> text[(i + k) + 1] = Backslash
    BY <2>1 DEF Backslashes, LanesOf
  <2> HIDE DEF E
  <2>4. E[k + 1] = Escaping((i + k) + 1) /\ E[k] = Escaping(i + k)
    BY <2>1, <1>2
  <2>5. QED
    BY <2>2, <2>3, <2>4
<1> HIDE DEF E
<1>5. TakesTurns(Backslashes, bs_carry, E)
  BY <1>2, <1>3, <1>4 DEF TakesTurns
<1>6. Backslashes \in SUBSET Lanes /\ bs_carry \in {{}, {0}}
  BY DEF Backslashes, LanesOf, ChunkHere
<1>7. ASSUME NEW k \in Lanes, text[i + k + 1] # Backslash
      PROVE  k \in EscapeMask(Backslashes, bs_carry) <=> Escaping(i + k)
  <2>1. k \notin Backslashes
    BY <1>7 DEF Backslashes, LanesOf
  <2>2. k \in EscapeMask(Backslashes, bs_carry) <=> E[k]
    BY <2>1, <1>5, <1>6, MaskMeaning
  <2>3. k \in 0..W
    BY <1>0 DEF Lanes
  <2>4. QED
    BY <2>2, <2>3, <1>2
<1>8. EscapeCarry(Backslashes, bs_carry) # {} <=> E[W]
  BY <1>5, <1>6, CarryMeaning
<1>9. W \in 0..W
  BY <1>0
<1>10. QED
  BY <1>7, <1>8, <1>9, <1>2

\* The quotes, the lanes inside strings, and the lanes emitted.
LEMMA ChunkLanes ==
    ASSUME ScanAssumption, ChunkHere
    PROVE  /\ \A k \in Lanes : k \in Quotes <=> RealQuote(i + k)
           /\ \A k \in Lanes : k \in InsideLanes <=> Inside(i + (k + 1))
           /\ \A k \in Lanes : k \in Kept <=> Keeps(i + k)
<1> DEFINE O == [k \in 0..W |-> Inside(i + k)]
<1>0. W \in Nat /\ W - 1 \in Nat /\ i \in Nat /\ \A k \in 0..W : k \in Nat
  BY DEF ScanAssumption, ChunkHere
<1>1. \A k \in 0..W : i + k \in Nat /\ Inside(i + k) \in BOOLEAN
  BY <1>0, LexedBooleans
<1>2. O \in [0..W -> BOOLEAN] /\ \A k \in 0..W : O[k] = Inside(i + k)
  BY <1>1
<1>3. O[0] = in_string
  <2>1. 0 \in 0..W /\ i + 0 = i
    BY <1>0
  <2>2. LexedTo(i).open = in_string
    BY DEF ChunkHere, Agreed
  <2> HIDE DEF O
  <2>3. QED
    BY <2>1, <2>2, <1>2 DEF Inside
<1> HIDE DEF O
<1>4. ASSUME NEW k \in Lanes PROVE k \in Quotes <=> RealQuote(i + k)
  <2>1. i + k + 1 = (i + k) + 1
    BY LaneBytes DEF ChunkHere
  <2>2. text[i + k + 1] # Backslash =>
           (k \in EscapeMask(Backslashes, bs_carry) <=> Escaping(i + k))
    BY ChunkEscapes
  <2>3. Quote # Backslash
    BY DEF Quote, Backslash
  <2>4. k \in Quotes <=> text[i + k + 1] = Quote /\ k \notin EscapeMask(Backslashes, bs_carry)
    BY DEF Quotes, LanesOf
  <2>5. QED
    BY <2>1, <2>2, <2>3, <2>4 DEF RealQuote
<1>5. ASSUME NEW k \in Lanes PROVE O[k + 1] <=> IF k \in Quotes THEN ~O[k] ELSE O[k]
  <2>1. /\ i + k \in Nat /\ (i + k) + 1 \in 1..Len(text) /\ i + (k + 1) = (i + k) + 1
        /\ k \in 0..W /\ k + 1 \in 0..W
    BY LaneBytes DEF ChunkHere
  <2>2. Inside((i + k) + 1) <=> (IF RealQuote(i + k) THEN ~Inside(i + k) ELSE Inside(i + k))
    BY <2>1, LexedByte DEF ChunkHere
  <2>3. O[k + 1] = Inside((i + k) + 1) /\ O[k] = Inside(i + k)
    BY <2>1, <1>2
  <2>4. QED
    BY <2>2, <2>3, <1>4
<1>6. Quotes \in SUBSET Lanes
  BY DEF Quotes, LanesOf
<1>7. \A k \in Lanes : k \in InsideLanes <=> O[k + 1]
  BY <1>2, <1>3, <1>5, <1>6, InsideMeaning DEF InsideLanes
<1>8. ASSUME NEW k \in Lanes PROVE k \in InsideLanes <=> Inside(i + (k + 1))
  <2>1. k + 1 \in 0..W
    BY LaneBytes DEF ChunkHere
  <2>2. QED
    BY <2>1, <1>2, <1>7
<1>9. ASSUME NEW k \in Lanes PROVE k \in Kept <=> Keeps(i + k)
  <2>1. i + k + 1 = (i + k) + 1 /\ i + (k + 1) = (i + k) + 1
    BY LaneBytes DEF ChunkHere
  <2>2. k \in Kept <=> (text[i + k + 1] \in Structurals /\ k \notin InsideLanes) \/ k \in Quotes
    BY DEF Kept, LanesOf
  <2>3. QED
    BY <2>1, <2>2, <1>4, <1>8 DEF Keeps
<1>10. QED
  BY <1>4, <1>8, <1>9

\* The scan of a chunk takes the lexer W bytes on.
LEMMA ChunkEmits ==
    ASSUME ScanAssumption, ChunkHere
    PROVE  LexedTo(i + W).out = indices \o Emit(Kept, i)
<1> DEFINE Below(m) == {k \in Kept : k < m}
           S == {m \in 0..W : LexedTo(i + m).out = indices \o Emit(Below(m), i)}
<1>0. W \in Nat /\ W >= 1 /\ i \in Nat /\ indices \in Seq(Nat) /\ LexedTo(i).out = indices
  <2>1. LexedTo(i).out = indices
    BY DEF ChunkHere, Agreed
  <2>2. i \in Nat
    BY DEF ChunkHere
  <2>3. QED
    BY <2>1, <2>2, LexedBooleans DEF ScanAssumption
<1>1. Kept \in SUBSET Lanes /\ Lanes \in SUBSET Nat /\ IsFiniteSet(Lanes)
  <2>1. Quotes \in SUBSET Lanes /\ LanesOf(text, i, Structurals) \in SUBSET Lanes
    BY DEF Quotes, LanesOf
  <2>2. Kept \in SUBSET Lanes
    BY <2>1 DEF Kept
  <2>3. Lanes \in SUBSET Nat /\ IsFiniteSet(Lanes)
    BY <1>0, FS_Interval DEF Lanes
  <2>4. QED
    BY <2>2, <2>3
<1>2. 0 \in S
  <2>1. \A k \in Kept : ~(k < 0)
    BY <1>1
  <2>2. Below(0) = {}
    BY <2>1, Zenon
  <2>3. Emit(Below(0), i) = <<>>
    BY <2>2, EmitNone
  <2> HIDE DEF Below
  <2>4. indices \o Emit(Below(0), i) = indices
    BY <2>3, <1>0
  <2>5. QED
    BY <2>4, <1>0
<1>3. ASSUME NEW m \in S, m < W
      PROVE  m + 1 \in S
  <2>1. m \in Nat /\ m \in Lanes /\ m + 1 \in 0..W
    BY <1>0, <1>3 DEF Lanes
  <2>2. i + m \in Nat /\ (i + m) + 1 \in 1..Len(text) /\ i + (m + 1) = (i + m) + 1
    BY <2>1, LaneBytes DEF ChunkHere
  <2>3. LexedTo(i + m).out = indices \o Emit(Below(m), i)
    OBVIOUS
  <2>4. LexedTo((i + m) + 1).out = IF Keeps(i + m) THEN Append(LexedTo(i + m).out, i + m) ELSE LexedTo(i + m).out
    BY <2>2, LexedByte DEF ChunkHere
  <2>5. m \in Kept <=> Keeps(i + m)
    BY <2>1, ChunkLanes
  <2>6. \A k \in Kept : k < m + 1 <=> k < m \/ k = m
    BY <1>1, <2>1
  <2>7. CASE m \in Kept
    <3>1. Below(m + 1) = Below(m) \cup {m}
      BY <2>6, <2>7, Zenon
    <3>2. Below(m) \in SUBSET Nat /\ IsFiniteSet(Below(m)) /\ \A k \in Below(m) : k < m
      BY <1>1, FS_Subset
    <3> HIDE DEF Below
    <3>3. Emit(Below(m), i) \in Seq(Nat) /\ Emit(Below(m + 1), i) = Append(Emit(Below(m), i), i + m)
      BY <3>1, <3>2, <2>1, <1>0, EmitAppend
    <3> DEFINE e == Emit(Below(m), i)
    <3>4. indices \o Append(e, i + m) = Append(indices \o e, i + m)
      BY <1>0, <2>2, <3>3, JoinAppend
    <3> HIDE DEF e
    <3>5. LexedTo(i + (m + 1)).out = indices \o Emit(Below(m + 1), i)
      BY <2>2, <2>3, <2>4, <2>5, <2>7, <3>3, <3>4 DEF e
    <3>6. QED
      BY <3>5, <2>1
  <2>8. CASE m \notin Kept
    <3>1. Below(m + 1) = Below(m)
      BY <2>6, <2>8, Zenon
    <3> HIDE DEF Below
    <3>2. LexedTo(i + (m + 1)).out = indices \o Emit(Below(m + 1), i)
      BY <2>2, <2>3, <2>4, <2>5, <2>8, <3>1
    <3>3. QED
      BY <3>2, <2>1
  <2>9. QED
    BY <2>7, <2>8
<1>4. S = 0..W
  <2>1. S \subseteq 0..W
    OBVIOUS
  <2> HIDE DEF S
  <2>2. QED
    BY <1>0, <2>1, <1>2, <1>3, Climb
<1>5. Below(W) = Kept
  <2>1. \A k \in Kept : k < W
    BY <1>0, <1>1 DEF Lanes
  <2>2. QED
    BY <2>1, Zenon
<1>6. W \in S
  <2> HIDE DEF S
  <2> QED
    BY <1>0, <1>4
<1>7. QED
  BY <1>5, <1>6

\* Where a scanned chunk leaves the scan.
LEMMA ChunkAgrees ==
    ASSUME ScanAssumption, ChunkHere
    PROVE  [open |-> W - 1 \in InsideLanes, escaped |-> EscapeCarry(Backslashes, bs_carry) # {},
            out |-> indices \o Emit(Kept, i)] = LexedTo(i + W)
<1> DEFINE s == LexedTo(i + W)
<1>1. W - 1 \in Lanes /\ i + ((W - 1) + 1) = i + W /\ i + W \in Nat
  BY DEF ScanAssumption, Lanes, ChunkHere
<1>2. s \in LexState
  BY <1>1, LexedType DEF IsLexed
<1>3. s.open <=> W - 1 \in InsideLanes
  BY <1>1, ChunkLanes DEF Inside
<1>4. s.escaped <=> EscapeCarry(Backslashes, bs_carry) # {}
  BY ChunkEscapes DEF Escaping
<1>5. s.out = indices \o Emit(Kept, i)
  BY ChunkEmits
<1> HIDE DEF s
<1>6. s = [open |-> s.open, escaped |-> s.escaped, out |-> s.out] /\ s.open \in BOOLEAN /\ s.escaped \in BOOLEAN
  BY <1>2 DEF LexState
<1>7. (W - 1 \in InsideLanes) \in BOOLEAN
  BY DEF InsideLanes, InsideMask
<1>8. s.open = (W - 1 \in InsideLanes) /\ s.escaped = (EscapeCarry(Backslashes, bs_carry) # {})
  BY <1>3, <1>4, <1>6, <1>7
<1>9. QED
  BY <1>5, <1>6, <1>8 DEF s

-----------------------------------------------------------------------------
(* A chunk inside a string with no quote and no backslash, and the jump.    *)

LEMMA RemainderFacts ==
    ASSUME NEW n \in Nat, NEW d \in Nat, d > 0
    PROVE  n % d \in Nat /\ n % d < d /\ n % d <= n
OBVIOUS

Uneventful(p) == text[p + 1] \notin {Quote, Backslash}

\* A jump lands no farther than the text goes, and passes over no quote or backslash.
LEMMA JumpLands ==
    ASSUME ScanAssumption, Len(text) \in Nat, NEW from \in Nat, from <= Len(text)
    PROVE  /\ JumpFrom(from) \in Nat /\ from <= JumpFrom(from) /\ JumpFrom(from) <= Len(text)
           /\ \A p \in from..JumpFrom(from) - 1 : Uneventful(p)
<1> DEFINE j == JumpFrom(from)
<1>0. W \in Nat /\ W > 0 /\ JumpMin \in Nat /\ JumpMin >= W
  BY DEF ScanAssumption
<1>1. CASE from + JumpMin > Len(text)
  <2>1. j = from
    BY <1>1, <1>0 DEF JumpFrom
  <2> HIDE DEF j
  <2>2. QED
    BY <2>1 DEF j
<1>2. ASSUME from + JumpMin <= Len(text)
      PROVE  ScanEnd \in Nat /\ from <= ScanEnd /\ ScanEnd <= Len(text)
  <2> DEFINE r == Len(text) % W
  <2>1. r \in Nat /\ r < W /\ r <= Len(text)
    BY <1>0, RemainderFacts
  <2>2. ScanEnd = Len(text) - r
    BY DEF ScanEnd
  <2> HIDE DEF r
  <2>3. QED
    BY <1>0, <1>2, <2>1, <2>2
<1>3. \A p \in from..ScanEnd - 1 : p \notin Found(from) => Uneventful(p)
  BY DEF Found, Uneventful
<1>4. CASE from + JumpMin <= Len(text) /\ Found(from) = {}
  <2>1. j = ScanEnd
    BY <1>4, <1>0 DEF JumpFrom
  <2> HIDE DEF j
  <2>2. QED
    BY <2>1, <1>2, <1>3, <1>4 DEF j
<1>5. CASE from + JumpMin <= Len(text) /\ Found(from) # {}
  <2> DEFINE m == Min(Found(from))
             r == (m - from) % W
  <2>1. m \in Found(from) /\ \A y \in Found(from) : m <= y
    <3>1. ScanEnd - 1 \in Int
      BY <1>2, <1>5
    <3> DEFINE I == from..ScanEnd - 1
    <3>2. I \subseteq Nat /\ IsFiniteSet(I)
      <4>1. I \subseteq Nat
        BY <3>1
      <4>2. IsFiniteSet(I)
        BY <3>1, FS_Interval
      <4>3. QED
        BY <4>1, <4>2
    <3> HIDE DEF I
    <3>3. Found(from) \in SUBSET Nat /\ IsFiniteSet(Found(from))
      <4>1. Found(from) \in SUBSET I
        BY DEF Found, I
      <4>2. QED
        BY <4>1, <3>2, FS_Subset
    <3>4. \E x \in Found(from) : \A y \in Found(from) : x <= y
      BY <3>3, <1>5, EndsExist
    <3>5. m = CHOOSE x \in Found(from) : \A y \in Found(from) : x <= y
      BY DEF Min
    <3> HIDE DEF m
    <3>6. QED
      BY <3>4, <3>5, Zenon
  <2>2. j = m - r
    BY <1>5, <1>0 DEF JumpFrom
  <2>3. m \in from..ScanEnd - 1
    BY <2>1 DEF Found
  <2>4. m \in Nat /\ from <= m /\ m <= ScanEnd - 1 /\ m - from \in Nat
    BY <2>3, <1>2, <1>5
  <2> HIDE DEF m
  <2>5. r \in Nat /\ r <= m - from
    BY <2>4, <1>0, RemainderFacts
  <2> HIDE DEF j, r
  <2>6. j \in Nat /\ from <= j /\ j <= m /\ j <= Len(text)
    BY <2>2, <2>4, <2>5, <1>2, <1>5
  <2>7. ASSUME NEW p \in from..j - 1 PROVE Uneventful(p)
    <3>1. p \in from..ScanEnd - 1 /\ ~(m <= p)
      BY <2>4, <2>6, <1>2, <1>5
    <3>2. p \notin Found(from)
      BY <3>1, <2>1
    <3>3. QED
      BY <3>1, <3>2, <1>3
  <2>8. QED
    BY <2>6, <2>7 DEF j
<1>6. QED
  BY <1>0, <1>1, <1>4, <1>5

\* Inside a string, bytes that are no quote and no backslash change nothing but
\* that the next is not escaped.
LEMMA UneventfulBytes ==
    ASSUME ScanAssumption, EscapesInStrings, Len(text) \in Nat, NEW from \in Nat, Inside(from),
           NEW upto \in Nat, from < upto, upto <= Len(text), \A p \in from..upto - 1 : Uneventful(p)
    PROVE  LexedTo(upto) = [open |-> TRUE, escaped |-> FALSE, out |-> LexedTo(from).out]
<1> DEFINE S == {d \in 0..upto - from : Inside(from + d) /\ (d > 0 => ~Escaping(from + d))
                                          /\ LexedTo(from + d).out = LexedTo(from).out}
<1>0. upto - from \in Nat /\ from + (upto - from) = upto /\ upto - from > 0 /\ from + 0 = from
  OBVIOUS
<1>1. 0 \in S
  BY <1>0
<1>2. ASSUME NEW d \in S, d < upto - from
      PROVE  d + 1 \in S
  <2> DEFINE p == from + d
  <2>1. /\ d \in Nat /\ d + 1 \in 0..upto - from /\ p \in Nat /\ p + 1 \in 1..Len(text)
        /\ p \in from..upto - 1 /\ from + (d + 1) = p + 1
    BY <1>2
  <2>2. Inside(p) /\ LexedTo(p).out = LexedTo(from).out
    OBVIOUS
  <2> HIDE DEF p
  <2>3. text[p + 1] # Quote /\ text[p + 1] # Backslash
    BY <2>1 DEF Uneventful
  <2>4. ~RealQuote(p)
    BY <2>3 DEF RealQuote
  <2>5. ~Escaping(p + 1) /\ Inside(p + 1)
    BY <2>1, <2>2, <2>3, <2>4, LexedByte
  <2>6. LexedTo(p + 1).out = LexedTo(p).out
    <3>1. ~Keeps(p)
      BY <2>4, <2>5 DEF Keeps
    <3>2. QED
      BY <3>1, <2>1, LexedByte
  <2>7. QED
    BY <2>1, <2>2, <2>5, <2>6
<1>3. S = 0..upto - from
  <2>1. S \subseteq 0..upto - from
    OBVIOUS
  <2> HIDE DEF S
  <2>2. QED
    BY <1>0, <2>1, <1>1, <1>2, Climb
<1>4. upto - from \in S
  <2> HIDE DEF S
  <2> QED
    BY <1>0, <1>3
<1>5. Inside(upto) /\ ~Escaping(upto) /\ LexedTo(upto).out = LexedTo(from).out
  BY <1>0, <1>4
<1> DEFINE s == LexedTo(upto)
<1>6. s \in LexState
  BY LexedType DEF IsLexed
<1> HIDE DEF s
<1>7. s = [open |-> s.open, escaped |-> s.escaped, out |-> s.out] /\ s.open \in BOOLEAN /\ s.escaped \in BOOLEAN
  BY <1>6 DEF LexState
<1>8. s.open = TRUE /\ s.escaped = FALSE /\ s.out = LexedTo(from).out
  BY <1>5, <1>7 DEF Inside, Escaping, s
<1>9. QED
  BY <1>7, <1>8 DEF s

-----------------------------------------------------------------------------
(* The bytes after the last chunk.  The lexer that starts there emits what  *)
(* the one that started with the text goes on to emit.                      *)

Related(r, s, before) ==
    /\ IsLexed(r) /\ IsLexed(s)
    /\ r.open = s.open /\ r.escaped = s.escaped /\ r.out = before \o s.out

LEMMA RelatedByte ==
    ASSUME NEW before \in Seq(Nat), NEW r, NEW s, Related(r, s, before), NEW b, NEW p \in Nat
    PROVE  Related(LexByte(r, b, p), LexByte(s, b, p), before)
<1> DEFINE R == LexByte(r, b, p)
           T == LexByte(s, b, p)
<1>0. IsLexed(R) /\ IsLexed(T)
  BY LexByteType DEF Related
<1>1. /\ r \in LexState /\ s \in LexState
      /\ r.open = s.open /\ r.escaped = s.escaped /\ r.out = before \o s.out
  BY DEF Related, IsLexed
<1>2. s.out \in Seq(Nat) /\ Append(r.out, p) = before \o Append(s.out, p)
  <2>1. s.out \in Seq(Nat)
    BY <1>1 DEF LexState
  <2>2. QED
    BY <2>1, <1>1, JoinAppend
<1>3. Quote # Backslash
  BY DEF Quote, Backslash
<1> HIDE DEF R, T
<1>4. CASE s.escaped
  <2>1. R = [r EXCEPT !.escaped = FALSE] /\ T = [s EXCEPT !.escaped = FALSE]
    BY <1>1, <1>4 DEF R, T, LexByte
  <2>2. R.open = r.open /\ R.escaped = FALSE /\ R.out = r.out /\ T.open = s.open /\ T.escaped = FALSE /\ T.out = s.out
    BY <1>1, <2>1 DEF LexState
  <2>3. QED
    BY <1>0, <1>1, <2>2 DEF Related, R, T
<1>5. CASE ~s.escaped /\ s.open /\ b = Backslash
  <2>1. R = [r EXCEPT !.escaped = TRUE] /\ T = [s EXCEPT !.escaped = TRUE]
    BY <1>1, <1>3, <1>5 DEF R, T, LexByte
  <2>2. R.open = r.open /\ R.escaped = TRUE /\ R.out = r.out /\ T.open = s.open /\ T.escaped = TRUE /\ T.out = s.out
    BY <1>1, <2>1 DEF LexState
  <2>3. QED
    BY <1>0, <1>1, <2>2 DEF Related, R, T
<1>6. CASE ~s.escaped /\ ~(s.open /\ b = Backslash) /\ b = Quote
  <2>1. /\ R = [r EXCEPT !.open = ~r.open, !.out = Append(r.out, p)]
        /\ T = [s EXCEPT !.open = ~s.open, !.out = Append(s.out, p)]
    BY <1>1, <1>3, <1>6 DEF R, T, LexByte
  <2>2. /\ R.open = ~r.open /\ R.escaped = r.escaped /\ R.out = Append(r.out, p)
        /\ T.open = ~s.open /\ T.escaped = s.escaped /\ T.out = Append(s.out, p)
    BY <1>1, <2>1 DEF LexState
  <2>3. QED
    BY <1>0, <1>1, <1>2, <2>2 DEF Related, R, T
<1>7. CASE ~s.escaped /\ ~(s.open /\ b = Backslash) /\ b # Quote
  <2>1. CASE ~s.open /\ b \in Structurals
    <3>1. R = [r EXCEPT !.out = Append(r.out, p)] /\ T = [s EXCEPT !.out = Append(s.out, p)]
      BY <1>1, <1>7, <2>1 DEF R, T, LexByte
    <3>2. /\ R.open = r.open /\ R.escaped = r.escaped /\ R.out = Append(r.out, p)
          /\ T.open = s.open /\ T.escaped = s.escaped /\ T.out = Append(s.out, p)
      BY <1>1, <3>1 DEF LexState
    <3>3. QED
      BY <1>0, <1>1, <1>2, <3>2 DEF Related, R, T
  <2>2. CASE ~(~s.open /\ b \in Structurals)
    <3>1. R = r /\ T = s
      BY <1>1, <1>7, <2>2 DEF R, T, LexByte
    <3>2. QED
      BY <3>1, <1>0, <1>1 DEF Related, R, T
  <2>3. QED
    BY <2>1, <2>2
<1>8. QED
  BY <1>4, <1>5, <1>6, <1>7

\* The lexer of the whole text, resumed, and another that starts where it is.
LEMMA ResumedLex ==
    ASSUME NEW before \in Seq(Nat), NEW from \in Nat, NEW s, Related(LexedTo(from), s, before),
           NEW upto \in Nat, from <= upto
    PROVE  Related(LexedTo(upto), Lex(text, s, from, upto), before)
<1> DEFINE S == {d \in 0..upto - from : Related(LexedTo(from + d), Lex(text, s, from, from + d), before)}
<1>0. upto - from \in Nat /\ from + (upto - from) = upto /\ from + 0 = from
  OBVIOUS
<1>1. 0 \in S
  <2>1. Lex(text, s, from, from) = s
    BY LexStarts
  <2>2. Related(LexedTo(from + 0), Lex(text, s, from, from + 0), before)
    BY <2>1, <1>0
  <2>3. 0 \in 0..upto - from
    BY <1>0
  <2>4. QED
    BY <2>2, <2>3
<1>2. ASSUME NEW d \in S, d < upto - from
      PROVE  d + 1 \in S
  <2> DEFINE p == from + d
  <2>1. d + 1 \in 0..upto - from /\ p \in Nat /\ from <= p /\ from + (d + 1) = p + 1 /\ 0 \in Nat /\ 0 <= p
    BY <1>2
  <2>2. Related(LexedTo(p), Lex(text, s, from, p), before)
    OBVIOUS
  <2> HIDE DEF p
  <2>3. Lex(text, s, from, p + 1) = LexByte(Lex(text, s, from, p), text[p + 1], p)
    BY <2>1, LexNext
  <2>4. LexedTo(p + 1) = LexByte(LexedTo(p), text[p + 1], p)
    BY <2>1, LexNext DEF LexedTo
  <2>5. Related(LexedTo(p + 1), Lex(text, s, from, p + 1), before)
    BY <2>1, <2>2, <2>3, <2>4, RelatedByte
  <2>6. QED
    BY <2>1, <2>5
<1>3. S = 0..upto - from
  <2>1. S \subseteq 0..upto - from
    OBVIOUS
  <2> HIDE DEF S
  <2>2. QED
    BY <1>0, <2>1, <1>1, <1>2, Climb
<1>4. upto - from \in S
  <2> HIDE DEF S
  <2> QED
    BY <1>0, <1>3
<1>5. QED
  BY <1>0, <1>4

LEMMA TailMeaning ==
    ASSUME Len(text) \in Nat, i \in 0..Len(text), Agreed
    PROVE  TailLex.open = Inside(Len(text)) /\ Scanned = LexedTo(Len(text)).out
<1>0. i \in Nat /\ i <= Len(text)
  OBVIOUS
<1>1. /\ LexedTo(i).open = in_string /\ LexedTo(i).escaped = (bs_carry # {}) /\ LexedTo(i).out = indices
      /\ LexedTo(i) = [open |-> in_string, escaped |-> bs_carry # {}, out |-> indices]
  BY DEF Agreed
<1>2. IsLexed(LexedTo(i)) /\ LexedTo(i) \in LexState
  BY <1>0, LexedType DEF IsLexed
<1>3. in_string \in BOOLEAN /\ indices \in Seq(Nat) /\ (bs_carry # {} => in_string)
  BY <1>1, <1>2 DEF IsLexed, LexState
<1> DEFINE s == Lexer(in_string, FALSE)
<1>4. IsLexed(s) /\ s.open = in_string /\ s.escaped = FALSE /\ s.out = <<>> /\ indices \o s.out = indices
  <2>1. s = [open |-> in_string, escaped |-> FALSE, out |-> <<>>]
    BY DEF Lexer
  <2>2. s \in LexState
    <3>1. <<>> \in Seq(Nat) /\ FALSE \in BOOLEAN
      OBVIOUS
    <3> HIDE DEF s
    <3>2. QED
      BY <3>1, <2>1, <1>3 DEF LexState
  <2> HIDE DEF s
  <2>3. s.open = in_string /\ s.escaped = FALSE /\ s.out = <<>>
    BY <2>1
  <2>4. indices \o <<>> = indices
    BY <1>3, ConcatEmptySeq
  <2>5. QED
    BY <2>2, <2>3, <2>4 DEF IsLexed
<1> HIDE DEF s
<1>5. CASE i = Len(text)
  <2>1. TailLex = s
    <3>1. ~(i < Len(text))
      BY <1>5, <1>0
    <3>2. QED
      BY <3>1 DEF TailLex, s
  <2>2. QED
    BY <2>1, <1>1, <1>4, <1>5 DEF Scanned, Inside
<1>6. CASE i < Len(text)
  <2> DEFINE from == TailStart(i, in_string, bs_carry)
  <2>1. from \in Nat /\ from <= Len(text) /\ Related(LexedTo(from), s, indices)
    <3>1. CASE bs_carry # {}
      <4>1. from = i + 1
        BY <3>1, <1>3 DEF TailStart
      <4>2. LexedTo(i + 1) = LexByte(LexedTo(i), text[i + 1], i)
        <5>1. 0 \in Nat /\ 0 <= i
          BY <1>0
        <5>2. QED
          BY <5>1, <1>0, LexNext DEF LexedTo
      <4>3. LexByte(LexedTo(i), text[i + 1], i) = [LexedTo(i) EXCEPT !.escaped = FALSE]
        BY <1>1, <3>1 DEF LexByte
      <4>4. LexedTo(i + 1) = [open |-> in_string, escaped |-> FALSE, out |-> indices]
        BY <1>1, <4>2, <4>3
      <4>5. i + 1 \in Nat /\ i + 1 <= Len(text) /\ IsLexed(LexedTo(i + 1))
        BY <1>0, <1>6, LexedType
      <4>6. Related(LexedTo(i + 1), s, indices)
        <5>1. LexedTo(i + 1).open = in_string /\ LexedTo(i + 1).escaped = FALSE /\ LexedTo(i + 1).out = indices
          BY <4>4
        <5>2. QED
          BY <1>4, <4>5, <5>1 DEF Related
      <4> HIDE DEF from
      <4>7. QED
        BY <4>1, <4>5, <4>6
    <3>2. CASE bs_carry = {}
      <4>1. from = i
        BY <3>2 DEF TailStart
      <4>2. Related(LexedTo(i), s, indices)
        BY <1>1, <1>2, <1>4, <3>2 DEF Related
      <4> HIDE DEF from
      <4>3. QED
        BY <4>1, <4>2, <1>0
    <3>3. QED
      BY <3>1, <3>2
  <2>2. TailLex = Lex(text, s, from, Len(text))
    BY <1>6 DEF TailLex, EmitResume, s
  <2> HIDE DEF from
  <2>3. Related(LexedTo(Len(text)), TailLex, indices)
    BY <2>1, <2>2, <1>3, ResumedLex
  <2>4. QED
    BY <2>3 DEF Related, Scanned, Inside
<1>7. QED
  BY <1>0, <1>5, <1>6

-----------------------------------------------------------------------------
(* The two passes over brackets, as definitions.                            *)

OffsetAt(t, out, f, n) ==
    IF n = 0 THEN [open |-> FALSE, match |-> Unmatched] ELSE ValidateOffset(t, f[n - 1], out[n])
OffsetFcn(t, out) == CHOOSE at : at = [n \in 0..Len(out) |-> OffsetAt(t, out, at, n)]

LEMMA OffsetExists ==
    ASSUME NEW t, NEW out, NEW N \in Nat
    PROVE  \E g : g = [n \in 0..N |-> OffsetAt(t, out, g, n)]
<1> DEFINE S == {m \in 0..N : \E g : g = [n \in 0..m |-> OffsetAt(t, out, g, n)]}
<1>1. 0 \in S
  <2> DEFINE h == [n \in 0..0 |-> [open |-> FALSE, match |-> Unmatched]]
  <2>1. \A n \in 0..0 : h[n] = OffsetAt(t, out, h, n)
    BY DEF OffsetAt
  <2>2. h = [n \in 0..0 |-> h[n]]
    OBVIOUS
  <2> HIDE DEF h
  <2>3. h = [n \in 0..0 |-> OffsetAt(t, out, h, n)]
    BY <2>1, <2>2
  <2>4. QED
    BY <2>3
<1>2. ASSUME NEW m \in S, m < N
      PROVE  m + 1 \in S
  <2>1. PICK g : g = [n \in 0..m |-> OffsetAt(t, out, g, n)]
    BY <1>2
  <2>0. m \in Nat /\ m + 1 \in 0..N
    BY <1>2
  <2> DEFINE h == [n \in 0..m + 1 |-> IF n <= m THEN g[n] ELSE OffsetAt(t, out, g, n)]
  <2>2. \A n \in 0..m : g[n] = OffsetAt(t, out, g, n)
    BY <2>1
  <2>3. \A n \in 0..m + 1 : h[n] = OffsetAt(t, out, g, n)
    BY <2>0, <2>2
  <2>4. \A n \in 0..m : h[n] = g[n]
    BY <2>0, <2>2
  <2>5. h = [n \in 0..m + 1 |-> h[n]]
    OBVIOUS
  <2> HIDE DEF h
  <2>6. \A n \in 0..m + 1 : h[n] = OffsetAt(t, out, h, n)
    <3> SUFFICES ASSUME NEW n \in 0..m + 1 PROVE h[n] = OffsetAt(t, out, h, n)
      OBVIOUS
    <3>1. n # 0 => n - 1 \in 0..m
      BY <2>0
    <3>2. n # 0 => h[n - 1] = g[n - 1]
      BY <3>1, <2>4
    <3>3. OffsetAt(t, out, h, n) = OffsetAt(t, out, g, n)
      BY <3>2, Zenon DEF OffsetAt
    <3>4. QED
      BY <3>3, <2>3
  <2>7. h = [n \in 0..m + 1 |-> OffsetAt(t, out, h, n)]
    BY <2>5, <2>6
  <2>8. QED
    BY <2>7, <2>0
<1>3. S = 0..N
  <2>1. S \subseteq 0..N
    OBVIOUS
  <2> HIDE DEF S
  <2>2. QED
    BY <2>1, <1>1, <1>2, Climb
<1>4. N \in S
  <2> HIDE DEF S
  <2> QED
    BY <1>3
<1>5. QED
  BY <1>4

LEMMA OffsetSteps ==
    ASSUME NEW t, NEW out, Len(out) \in Nat
    PROVE  /\ OffsetFcn(t, out)[0] = [open |-> FALSE, match |-> Unmatched]
           /\ \A n \in 1..Len(out) : OffsetFcn(t, out)[n] = ValidateOffset(t, OffsetFcn(t, out)[n - 1], out[n])
           /\ BracketError(t, out) = MatchError(t, OffsetFcn(t, out)[Len(out)].match)
<1>1. \E g : g = [n \in 0..Len(out) |-> OffsetAt(t, out, g, n)]
  BY OffsetExists
<1> DEFINE f == OffsetFcn(t, out)
<1>2. f = [n \in 0..Len(out) |-> OffsetAt(t, out, f, n)]
  BY <1>1 DEF OffsetFcn
<1>3. BracketError(t, out) = MatchError(t, f[Len(out)].match)
  BY DEF BracketError, OffsetFcn, OffsetAt
<1> HIDE DEF f
<1>4. \A n \in 0..Len(out) : f[n] = OffsetAt(t, out, f, n)
  BY <1>2
<1>5. f[0] = [open |-> FALSE, match |-> Unmatched]
  <2>1. 0 \in 0..Len(out)
    OBVIOUS
  <2>2. QED
    BY <2>1, <1>4 DEF OffsetAt
<1>6. ASSUME NEW n \in 1..Len(out) PROVE f[n] = ValidateOffset(t, f[n - 1], out[n])
  <2>1. n \in 0..Len(out) /\ n # 0
    OBVIOUS
  <2>2. QED
    BY <2>1, <1>4 DEF OffsetAt
<1>7. QED
  BY <1>3, <1>5, <1>6 DEF f

PassAt(t, f, n) ==
    IF n = 0 THEN [lex |-> Lexer(FALSE, FALSE), match |-> Unmatched] ELSE ScanByte(f[n - 1], t[n], n - 1)
PassFcn(t) == CHOOSE at : at = [n \in 0..Len(t) |-> PassAt(t, at, n)]

LEMMA PassExists ==
    ASSUME NEW t, NEW N \in Nat
    PROVE  \E g : g = [n \in 0..N |-> PassAt(t, g, n)]
<1> DEFINE S == {m \in 0..N : \E g : g = [n \in 0..m |-> PassAt(t, g, n)]}
<1>1. 0 \in S
  <2> DEFINE h == [n \in 0..0 |-> [lex |-> Lexer(FALSE, FALSE), match |-> Unmatched]]
  <2>1. \A n \in 0..0 : h[n] = PassAt(t, h, n)
    BY DEF PassAt
  <2>2. h = [n \in 0..0 |-> h[n]]
    OBVIOUS
  <2> HIDE DEF h
  <2>3. h = [n \in 0..0 |-> PassAt(t, h, n)]
    BY <2>1, <2>2
  <2>4. QED
    BY <2>3
<1>2. ASSUME NEW m \in S, m < N
      PROVE  m + 1 \in S
  <2>1. PICK g : g = [n \in 0..m |-> PassAt(t, g, n)]
    BY <1>2
  <2>0. m \in Nat /\ m + 1 \in 0..N
    BY <1>2
  <2> DEFINE h == [n \in 0..m + 1 |-> IF n <= m THEN g[n] ELSE PassAt(t, g, n)]
  <2>2. \A n \in 0..m : g[n] = PassAt(t, g, n)
    BY <2>1
  <2>3. \A n \in 0..m + 1 : h[n] = PassAt(t, g, n)
    BY <2>0, <2>2
  <2>4. \A n \in 0..m : h[n] = g[n]
    BY <2>0, <2>2
  <2>5. h = [n \in 0..m + 1 |-> h[n]]
    OBVIOUS
  <2> HIDE DEF h
  <2>6. \A n \in 0..m + 1 : h[n] = PassAt(t, h, n)
    <3> SUFFICES ASSUME NEW n \in 0..m + 1 PROVE h[n] = PassAt(t, h, n)
      OBVIOUS
    <3>1. n # 0 => n - 1 \in 0..m
      BY <2>0
    <3>2. n # 0 => h[n - 1] = g[n - 1]
      BY <3>1, <2>4
    <3>3. PassAt(t, h, n) = PassAt(t, g, n)
      BY <3>2, Zenon DEF PassAt
    <3>4. QED
      BY <3>3, <2>3
  <2>7. h = [n \in 0..m + 1 |-> PassAt(t, h, n)]
    BY <2>5, <2>6
  <2>8. QED
    BY <2>7, <2>0
<1>3. S = 0..N
  <2>1. S \subseteq 0..N
    OBVIOUS
  <2> HIDE DEF S
  <2>2. QED
    BY <2>1, <1>1, <1>2, Climb
<1>4. N \in S
  <2> HIDE DEF S
  <2> QED
    BY <1>3
<1>5. QED
  BY <1>4

LEMMA PassSteps ==
    ASSUME NEW t, Len(t) \in Nat
    PROVE  /\ PassFcn(t)[0] = [lex |-> Lexer(FALSE, FALSE), match |-> Unmatched]
           /\ \A n \in 1..Len(t) : PassFcn(t)[n] = ScanByte(PassFcn(t)[n - 1], t[n], n - 1)
           /\ LET end == PassFcn(t)[Len(t)]
              IN  ScanAndValidate(t) =
                    [out |-> end.lex.out,
                     err |-> IF end.match.err = None /\ end.lex.open THEN Len(t) ELSE MatchError(t, end.match)]
<1>1. \E g : g = [n \in 0..Len(t) |-> PassAt(t, g, n)]
  BY PassExists
<1> DEFINE f == PassFcn(t)
<1>2. f = [n \in 0..Len(t) |-> PassAt(t, f, n)]
  BY <1>1 DEF PassFcn
<1>3. LET end == f[Len(t)]
      IN  ScanAndValidate(t) =
            [out |-> end.lex.out,
             err |-> IF end.match.err = None /\ end.lex.open THEN Len(t) ELSE MatchError(t, end.match)]
  BY DEF ScanAndValidate, PassFcn, PassAt
<1> HIDE DEF f
<1>4. \A n \in 0..Len(t) : f[n] = PassAt(t, f, n)
  BY <1>2
<1>5. f[0] = [lex |-> Lexer(FALSE, FALSE), match |-> Unmatched]
  <2>1. 0 \in 0..Len(t)
    OBVIOUS
  <2>2. QED
    BY <2>1, <1>4 DEF PassAt
<1>6. ASSUME NEW n \in 1..Len(t) PROVE f[n] = ScanByte(f[n - 1], t[n], n - 1)
  <2>1. n \in 0..Len(t) /\ n # 0
    OBVIOUS
  <2>2. QED
    BY <2>1, <1>4 DEF PassAt
<1>7. QED
  BY <1>3, <1>5, <1>6 DEF f

MatchState == [stack : Seq(Openers), err : Nat \cup {None}]

\* A byte that is no bracket, or comes after a mismatch, leaves the stack alone.
LEMMA MatchByteFacts ==
    ASSUME ScanAssumption, NEW m \in MatchState, NEW b, NEW p \in Nat
    PROVE  /\ MatchByte(m, b, p) \in MatchState
           /\ m.err # None \/ b \notin Brackets => MatchByte(m, b, p) = m
           /\ m.err = None => MatchByte(m, b, p).err \in {None, p}
<1>1. CASE m.err # None \/ b \notin Brackets
  <2>1. MatchByte(m, b, p) = m
    <3>1. b \in Openers => b \in Brackets
      BY DEF Brackets
    <3>2. QED
      BY <3>1, <1>1 DEF MatchByte
  <2>2. QED
    BY <2>1, <1>1
<1>2. CASE m.err = None /\ b \in Brackets /\ b \in Openers
  <2>1. MatchByte(m, b, p) = [m EXCEPT !.stack = Append(m.stack, b)]
    BY <1>2 DEF MatchByte
  <2>2. Append(m.stack, b) \in Seq(Openers)
    <3>1. m.stack \in Seq(Openers)
      BY DEF MatchState
    <3>2. QED
      BY <3>1, <1>2, AppendProperties
  <2>3. QED
    BY <2>1, <2>2, <1>2 DEF MatchState
<1>3. CASE m.err = None /\ b \in Brackets /\ b \notin Openers
  <2>1. CASE m.stack # <<>> /\ Last(m.stack) = Match[b]
    <3>1. MatchByte(m, b, p) = [m EXCEPT !.stack = Front(m.stack)]
      BY <1>3, <2>1 DEF MatchByte
    <3>2. Front(m.stack) \in Seq(Openers)
      <4>1. m.stack \in Seq(Openers)
        BY DEF MatchState
      <4>2. QED
        BY <4>1, <2>1 DEF Front
    <3>3. QED
      BY <3>1, <3>2, <1>3 DEF MatchState
  <2>2. CASE ~(m.stack # <<>> /\ Last(m.stack) = Match[b])
    <3>1. MatchByte(m, b, p) = [m EXCEPT !.err = p]
      BY <1>3, <2>2 DEF MatchByte
    <3>2. QED
      BY <3>1, <1>3 DEF MatchState
  <2>3. QED
    BY <2>1, <2>2
<1>4. QED
  BY <1>1, <1>2, <1>3

\* What is emitted stays emitted.
Emitted(p) == LexedTo(p).out

LEMMA EmittedStays ==
    ASSUME EscapesInStrings, Len(text) \in Nat, NEW p \in Nat, NEW q \in Nat, p <= q, q <= Len(text)
    PROVE  Len(Emitted(p)) <= Len(Emitted(q)) /\ \A n \in 1..Len(Emitted(p)) : Emitted(q)[n] = Emitted(p)[n]
<1> DEFINE Stays(r) == Len(Emitted(p)) <= Len(Emitted(r))
                        /\ \A n \in 1..Len(Emitted(p)) : Emitted(r)[n] = Emitted(p)[n]
           S == {d \in 0..q - p : Stays(p + d)}
<1>0. q - p \in Nat /\ p + (q - p) = q /\ p + 0 = p
  OBVIOUS
<1>a. \A r \in Nat : Emitted(r) \in Seq(Nat) /\ Len(Emitted(r)) \in Nat
  <2>1. \A r \in Nat : Emitted(r) \in Seq(Nat)
    BY LexedBooleans DEF Emitted
  <2>2. QED
    BY <2>1
<1>1. 0 \in S
  <2>1. Stays(p)
    BY <1>a
  <2> HIDE DEF Stays
  <2>2. Stays(p + 0) /\ 0 \in 0..q - p
    BY <2>1, <1>0
  <2>3. QED
    BY <2>2
<1>2. ASSUME NEW d \in S, d < q - p
      PROVE  d + 1 \in S
  <2> DEFINE r == p + d
  <2>1. d + 1 \in 0..q - p /\ r \in Nat /\ r + 1 \in 1..Len(text) /\ r + 1 \in Nat /\ p + (d + 1) = r + 1
    BY <1>2
  <2>2. Stays(r)
    OBVIOUS
  <2> HIDE DEF r
  <2>3. Emitted(r + 1) = IF Keeps(r) THEN Append(Emitted(r), r) ELSE Emitted(r)
    BY <2>1, LexedByte DEF Emitted
  <2>4. Stays(r + 1)
    <3> DEFINE e == Emitted(r)
               f == Emitted(r + 1)
    <3>1. e \in Seq(Nat) /\ Len(e) \in Nat /\ Len(Emitted(p)) \in Nat
      BY <1>a, <2>1
    <3>2. f = e \/ f = Append(e, r)
      BY <2>3
    <3>3. Len(Append(e, r)) = Len(e) + 1 /\ \A n \in 1..Len(e) : Append(e, r)[n] = e[n]
      <4> HIDE DEF e
      <4> QED
        BY <3>1, <2>1, AppendProperties
    <3>4. Len(Emitted(p)) <= Len(e) /\ \A n \in 1..Len(Emitted(p)) : e[n] = Emitted(p)[n]
      BY <2>2
    <3> HIDE DEF e, f
    <3>5. Len(Emitted(p)) <= Len(f) /\ \A n \in 1..Len(Emitted(p)) : n \in 1..Len(e) /\ f[n] = Emitted(p)[n]
      <4>1. \A n \in 1..Len(Emitted(p)) : n \in 1..Len(e)
        BY <3>1, <3>4
      <4>2. CASE f = e
        BY <4>1, <4>2, <3>4
      <4>3. CASE f = Append(e, r)
        <5>1. Len(Emitted(p)) <= Len(f)
          BY <4>3, <3>1, <3>3, <3>4
        <5>2. QED
          BY <5>1, <4>1, <4>3, <3>3, <3>4
      <4>4. QED
        BY <4>2, <4>3, <3>2
    <3>6. QED
      BY <3>5 DEF f
  <2> HIDE DEF Stays
  <2>5. QED
    BY <2>1, <2>4
<1>3. S = 0..q - p
  <2>1. S \subseteq 0..q - p
    OBVIOUS
  <2> HIDE DEF S
  <2>2. QED
    BY <1>0, <2>1, <1>1, <1>2, Climb
<1>4. q - p \in S
  <2> HIDE DEF S
  <2> QED
    BY <1>0, <1>3
<1>5. Stays(p + (q - p))
  BY <1>4
<1> HIDE DEF Stays
<1>6. Stays(q)
  BY <1>0, <1>5
<1>7. QED
  BY <1>6 DEF Stays

\* After p bytes the single pass has matched what the pass over the offsets has
\* matched after those emitted by then, and unless it has stopped, lexed as much.
Out == Emitted(Len(text))
OverOffsets(p) == OffsetFcn(text, Out)[Len(Emitted(p))]
InOnePass(p) == PassFcn(text)[p]
Abreast(p) ==
    /\ OverOffsets(p) \in [open : BOOLEAN, match : MatchState]
    /\ OverOffsets(p).open = Inside(p)
    /\ InOnePass(p).match = OverOffsets(p).match
    /\ OverOffsets(p).match.err = None \/ OverOffsets(p).match.err \in 0..p - 1
    /\ OverOffsets(p).match.err = None => InOnePass(p).lex = LexedTo(p)

LEMMA AbreastFirst ==
    ASSUME ScanAssumption, EscapesInStrings, Len(text) \in Nat
    PROVE  Abreast(0)
<1>1. LexedTo(0) = Lexer(FALSE, FALSE)
  BY LexStarts DEF LexedTo
<1>2. Emitted(0) = <<>> /\ Inside(0) = FALSE /\ Len(Emitted(0)) = 0
  BY <1>1 DEF Emitted, Inside, Lexer
<1>3. Len(Out) \in Nat
  BY LexedBooleans DEF Out, Emitted
<1>4. OverOffsets(0) = [open |-> FALSE, match |-> Unmatched]
  BY <1>2, <1>3, OffsetSteps DEF OverOffsets
<1>5. InOnePass(0) = [lex |-> Lexer(FALSE, FALSE), match |-> Unmatched]
  BY PassSteps DEF InOnePass
<1>6. Unmatched \in MatchState /\ Unmatched.err = None
  BY DEF Unmatched, MatchState
<1>7. OverOffsets(0).open = FALSE /\ OverOffsets(0).match = Unmatched
  BY <1>4
<1>8. InOnePass(0).lex = Lexer(FALSE, FALSE) /\ InOnePass(0).match = Unmatched
  <2> DEFINE l == Lexer(FALSE, FALSE)
             u == Unmatched
  <2>1. InOnePass(0) = [lex |-> l, match |-> u]
    BY <1>5
  <2> HIDE DEF l, u
  <2>2. InOnePass(0).lex = l /\ InOnePass(0).match = u
    BY <2>1
  <2>3. QED
    BY <2>2 DEF l, u
<1>9. OverOffsets(0) \in [open : BOOLEAN, match : MatchState]
  <2> DEFINE M == MatchState
             u == Unmatched
             no == FALSE
  <2>1. no \in BOOLEAN
    OBVIOUS
  <2>2. u \in M /\ OverOffsets(0) = [open |-> no, match |-> u]
    BY <1>4, <1>6
  <2> HIDE DEF M, u, no
  <2>3. OverOffsets(0) \in [open : BOOLEAN, match : M]
    BY <2>1, <2>2
  <2>4. QED
    BY <2>3 DEF M
<1>10. QED
  BY <1>1, <1>2, <1>6, <1>7, <1>8, <1>9 DEF Abreast

\* An emitted offset is the next that the pass over the offsets comes to.
LEMMA OffsetTaken ==
    ASSUME ScanAssumption, EscapesInStrings, Len(text) \in Nat, NEW p \in Nat, p + 1 \in 1..Len(text)
    PROVE  OverOffsets(p + 1) = IF Keeps(p) THEN ValidateOffset(text, OverOffsets(p), p) ELSE OverOffsets(p)
<1> DEFINE e == Emitted(p)
           f == Emitted(p + 1)
<1>0. e \in Seq(Nat) /\ f \in Seq(Nat) /\ Len(e) \in Nat /\ Out \in Seq(Nat) /\ Len(Out) \in Nat /\ p + 1 \in Nat
  <2>1. e \in Seq(Nat) /\ f \in Seq(Nat) /\ Out \in Seq(Nat)
    BY LexedBooleans DEF Out, Emitted
  <2> HIDE DEF e, f
  <2>2. QED
    BY <2>1
<1>1. f = IF Keeps(p) THEN Append(e, p) ELSE e
  BY LexedByte DEF Emitted
<1>2. CASE ~Keeps(p)
  <2>1. Emitted(p + 1) = Emitted(p)
    BY <1>1, <1>2
  <2>2. QED
    BY <2>1, <1>2 DEF OverOffsets
<1>3. CASE Keeps(p)
  <2>1. Len(f) <= Len(Out) /\ \A n \in 1..Len(f) : Out[n] = f[n]
    <3>1. p + 1 <= Len(text)
      OBVIOUS
    <3>2. QED
      BY <1>0, <3>1, EmittedStays DEF Out
  <2>2. Len(f) = Len(e) + 1 /\ f[Len(e) + 1] = p
    <3> HIDE DEF e, f
    <3> QED
      BY <1>0, <1>1, <1>3, AppendProperties
  <2> HIDE DEF e, f
  <2>3. Len(e) + 1 \in 1..Len(Out) /\ Out[Len(e) + 1] = p /\ (Len(e) + 1) - 1 = Len(e)
    BY <1>0, <2>1, <2>2
  <2>4. OffsetFcn(text, Out)[Len(e) + 1] = ValidateOffset(text, OffsetFcn(text, Out)[(Len(e) + 1) - 1], Out[Len(e) + 1])
    BY <1>0, <2>3, OffsetSteps
  <2>5. QED
    BY <2>2, <2>3, <2>4, <1>3 DEF OverOffsets, e, f
<1>4. QED
  BY <1>2, <1>3

\* Of the bytes that are not emitted none is a bracket outside a string.
LEMMA AbreastNext ==
    ASSUME ScanAssumption, EscapesInStrings, Len(text) \in Nat, NEW p \in Nat, p + 1 \in 1..Len(text), Abreast(p)
    PROVE  Abreast(p + 1)
<1> DEFINE b == text[p + 1]
           s == OverOffsets(p)
           r == OverOffsets(p + 1)
           u == InOnePass(p)
           v == InOnePass(p + 1)
           m == s.match
<1>1. /\ s \in [open : BOOLEAN, match : MatchState]
      /\ s.open = Inside(p) /\ u.match = m
      /\ m.err = None \/ m.err \in 0..p - 1
      /\ m.err = None => u.lex = LexedTo(p)
  BY DEF Abreast
<1>2. /\ Inside(p + 1) <=> (IF RealQuote(p) THEN ~Inside(p) ELSE Inside(p))
      /\ Inside(p) \in BOOLEAN /\ Inside(p + 1) \in BOOLEAN /\ (Escaping(p) => Inside(p))
  BY LexedByte, LexedBooleans, LexedType DEF IsLexed, Inside, Escaping
<1>3. Quote \in Structurals /\ Quote \notin Brackets /\ Brackets \subseteq Structurals
  BY DEF Quote, Structurals, Brackets, Openers
<1>4. r = IF Keeps(p) THEN ValidateOffset(text, s, p) ELSE s
  BY OffsetTaken
<1>5. m \in MatchState
  BY <1>1
<1>6. /\ MatchByte(m, b, p) \in MatchState
      /\ m.err # None \/ b \notin Brackets => MatchByte(m, b, p) = m
      /\ m.err = None => MatchByte(m, b, p).err \in {None, p}
  BY <1>5, MatchByteFacts
<1>7. LexedTo(p + 1) = LexByte(LexedTo(p), b, p)
  <2>1. 0 \in Nat /\ 0 <= p
    OBVIOUS
  <2>2. QED
    BY <2>1, LexNext DEF LexedTo
<1>8. v = IF m.err # None THEN u
          ELSE [lex |-> LexByte(u.lex, b, p), match |-> IF u.lex.open THEN m ELSE MatchByte(m, b, p)]
  <2>1. p + 1 \in 1..Len(text) /\ (p + 1) - 1 = p
    OBVIOUS
  <2>2. v = ScanByte(u, b, p)
    <3>1. PassFcn(text)[p + 1] = ScanByte(PassFcn(text)[(p + 1) - 1], text[p + 1], (p + 1) - 1)
      BY <2>1, PassSteps
    <3>2. QED
      BY <3>1, <2>1 DEF InOnePass
  <2>3. QED
    BY <2>2, <1>1 DEF ScanByte
<1> DEFINE next == IF Inside(p) THEN m ELSE MatchByte(m, b, p)
<1> HIDE DEF b, s, r, u, v, m, next
\* What each pass makes of the byte.
<1>9. r = [open |-> Inside(p + 1), match |-> next]
  <2>0. s = [open |-> Inside(p), match |-> m]
    BY <1>1 DEF m
  <2>1. CASE RealQuote(p)
    <3>1. b = Quote /\ Keeps(p) /\ Inside(p + 1) = ~Inside(p) /\ b \notin Brackets
      BY <2>1, <1>2, <1>3 DEF RealQuote, Keeps, b
    <3>2. r = [s EXCEPT !.open = ~s.open]
      BY <3>1, <1>4 DEF ValidateOffset, b
    <3>3. next = m
      BY <3>1, <1>6 DEF next
    <3>4. QED
      BY <3>1, <3>2, <3>3, <2>0
  <2>2. CASE ~RealQuote(p) /\ Inside(p)
    <3>1. Inside(p + 1) = Inside(p) /\ ~Keeps(p)
      BY <2>2, <1>2 DEF Keeps
    <3>2. QED
      BY <3>1, <2>0, <2>2, <1>4 DEF next
  <2>3. CASE ~RealQuote(p) /\ ~Inside(p)
    <3>1. Inside(p + 1) = Inside(p) /\ b # Quote /\ (Keeps(p) <=> b \in Structurals)
      BY <2>3, <1>2 DEF Keeps, RealQuote, b
    <3>2. CASE Keeps(p)
      <4>1. s.open = FALSE
        BY <2>3, <1>1, <1>2
      <4>2. r = [s EXCEPT !.match = MatchByte(m, b, p)]
        BY <4>1, <3>1, <3>2, <1>4 DEF ValidateOffset, b, m
      <4>3. QED
        BY <4>2, <3>1, <2>0, <2>3 DEF next
    <3>3. CASE ~Keeps(p)
      <4>1. b \notin Brackets
        BY <3>1, <3>3, <1>3
      <4>2. next = m
        BY <4>1, <1>6, <2>3 DEF next
      <4>3. QED
        BY <4>2, <3>1, <3>3, <2>0, <1>4
    <3>4. QED
      BY <3>2, <3>3
  <2>4. QED
    BY <2>1, <2>2, <2>3
<1>10. v.match = next /\ (next.err = None => v.lex = LexedTo(p + 1))
  <2>1. CASE m.err # None
    <3>1. next = m
      BY <2>1, <1>6 DEF next
    <3>2. v = u
      BY <2>1, <1>8
    <3>3. QED
      BY <3>1, <3>2, <2>1, <1>1
  <2>2. CASE m.err = None
    <3>1. u.lex = LexedTo(p) /\ u.lex.open = Inside(p)
      BY <2>2, <1>1 DEF Inside
    <3>2. v = [lex |-> LexByte(u.lex, b, p), match |-> IF u.lex.open THEN m ELSE MatchByte(m, b, p)]
      BY <2>2, <1>8
    <3>3. v.lex = LexByte(u.lex, b, p) /\ v.match = IF u.lex.open THEN m ELSE MatchByte(m, b, p)
      BY <3>2
    <3>4. QED
      BY <3>1, <3>3, <1>7 DEF next
  <2>3. QED
    BY <2>1, <2>2
<1>11. next \in MatchState /\ (next.err = None \/ next.err \in 0..(p + 1) - 1)
  <2>1. next.err = m.err \/ next.err \in {None, p}
    BY <1>6 DEF next
  <2>2. next \in MatchState
    BY <1>5, <1>6 DEF next
  <2>3. p \in 0..(p + 1) - 1 /\ 0..p - 1 \subseteq 0..(p + 1) - 1
    OBVIOUS
  <2>4. QED
    BY <2>1, <2>2, <2>3, <1>1
<1>12. r \in [open : BOOLEAN, match : MatchState] /\ r.open = Inside(p + 1) /\ r.match = next
  BY <1>2, <1>9, <1>11
<1>13. QED
  BY <1>10, <1>11, <1>12 DEF Abreast, r, v

\* The two passes end abreast.
LEMMA AbreastAll ==
    ASSUME ScanAssumption, EscapesInStrings, Len(text) \in Nat
    PROVE  Abreast(Len(text))
<1> DEFINE S == {p \in 0..Len(text) : Abreast(p)}
<1>1. 0 \in S
  BY AbreastFirst
<1>2. ASSUME NEW p \in S, p < Len(text)
      PROVE  p + 1 \in S
  <2>1. p \in Nat /\ p + 1 \in 1..Len(text) /\ p + 1 \in 0..Len(text) /\ Abreast(p)
    BY <1>2
  <2>2. QED
    BY <2>1, AbreastNext
<1>3. S = 0..Len(text)
  <2>1. S \subseteq 0..Len(text)
    OBVIOUS
  <2> HIDE DEF S
  <2>2. QED
    BY <2>1, <1>1, <1>2, Climb
<1>4. Len(text) \in S
  <2> HIDE DEF S
  <2> QED
    BY <1>3
<1>5. QED
  BY <1>4

LEMMA PassesAgree ==
    ASSUME ScanAssumption, EscapesInStrings, Len(text) \in Nat, i \in 0..Len(text), Agreed
    PROVE  LET s == ScanAndValidate(text)
           IN  /\ s.err = None <=> ScanError = None
               /\ s.err = None => Scanned = s.out
               /\ s.err # None /\ ~MismatchInOpenText(text, s) => ScanError = s.err
<1> DEFINE N == Len(text)
           m == OverOffsets(N).match
           end == InOnePass(N)
           s == ScanAndValidate(text)
<1>1. TailLex.open = Inside(N) /\ Scanned = Out
  BY TailMeaning DEF Out, Emitted
<1>2. /\ end.match = m
      /\ m.err = None \/ m.err \in 0..N - 1
      /\ m.err = None => end.lex = LexedTo(N)
  BY AbreastAll DEF Abreast
<1>3. BracketError(text, Scanned) = MatchError(text, m)
  <2>1. Len(Out) \in Nat
    BY LexedBooleans DEF Out, Emitted
  <2>2. BracketError(text, Out) = MatchError(text, OffsetFcn(text, Out)[Len(Out)].match)
    BY <2>1, OffsetSteps
  <2>3. QED
    BY <2>2, <1>1 DEF OverOffsets, Out
<1>4. ScanError = IF Inside(N) THEN N ELSE MatchError(text, m)
  BY <1>1, <1>3 DEF ScanError
<1>5. s = [out |-> end.lex.out,
           err |-> IF end.match.err = None /\ end.lex.open THEN N ELSE MatchError(text, end.match)]
  BY PassSteps DEF InOnePass
<1>6. MismatchInOpenText(text, s) <=> s.err # None /\ s.err < N /\ Inside(N)
  BY DEF MismatchInOpenText, Inside, LexedTo
<1>7. N \in Nat /\ None \notin Nat
  BY DEF ScanAssumption
<1> HIDE DEF N, m, end, s
<1>8. s.out = end.lex.out /\ s.err = IF m.err = None /\ end.lex.open THEN N ELSE MatchError(text, m)
  BY <1>2, <1>5
<1>9. CASE m.err = None
  <2>1. end.lex.open = Inside(N) /\ s.out = Scanned
    BY <1>9, <1>1, <1>2, <1>8 DEF Inside, Out, Emitted, N
  <2>2. MatchError(text, m) \in {None, N}
    BY <1>9 DEF MatchError, N
  <2>3. s.err = ScanError /\ s.err \in {None, N}
    BY <2>1, <2>2, <1>4, <1>8, <1>9
  <2>4. QED
    BY <2>1, <2>3 DEF s
<1>10. CASE m.err # None
  <2>1. MatchError(text, m) = m.err /\ s.err = m.err
    BY <1>10, <1>8 DEF MatchError
  <2>2. s.err # None /\ s.err < N
    BY <2>1, <1>2, <1>7, <1>10
  <2>3. MismatchInOpenText(text, s) <=> Inside(N)
    BY <2>2, <1>6
  <2>4. ScanError # None /\ (~MismatchInOpenText(text, s) => ScanError = s.err)
    BY <2>1, <2>2, <2>3, <1>4, <1>7
  <2>5. QED
    BY <2>2, <2>4 DEF s
<1>11. QED
  BY <1>9, <1>10

-----------------------------------------------------------------------------
(* The invariant.                                                           *)

\* Before a scan nothing is carried and nothing emitted; while it lasts, it is in
\* the text, and agrees with the bytes where these let it.
ScanInv ==
    /\ phase = "idle" => i = 0 /\ in_string = FALSE /\ bs_carry = {} /\ indices = <<>>
    /\ phase = "scan" => /\ text \in Seq(Range(text)) /\ i \in 0..Len(text)
                         /\ bs_carry \in {{}, {0}}
                         /\ EscapesInStrings => Agreed

LEMMA InitScan == Init => ScanInv
BY DEF Init, ScanInv

\* What follows an idle phase begins the scan where the lexer begins.
LEMMA ParseScan ==
    ASSUME DocAssumption, ScanInv, phase = "idle", NEW d \in Docs, NEW mode, qjson_parse_ex(d, mode)
    PROVE  ScanInv'
<1>1. text' = d.text /\ UNCHANGED <<i, in_string, bs_carry, indices>> /\ phase' \in {"failed", "scan"}
  BY DEF qjson_parse_ex
<1>2. i = 0 /\ in_string = FALSE /\ bs_carry = {} /\ indices = <<>>
  BY DEF ScanInv
<1>3. d.text \in Seq(Range(d.text))
  BY DEF DocAssumption
<1>4. (text \in Seq(Range(text)))' /\ (i \in 0..Len(text))' /\ bs_carry' \in {{}, {0}}
  BY <1>1, <1>2, <1>3
<1>5. Agreed'
  <2>1. LexedTo(0)' = Lexer(FALSE, FALSE)
    <3>1. 0 \in Nat
      OBVIOUS
    <3>2. Lex(text', Lexer(FALSE, FALSE), 0, 0) = Lexer(FALSE, FALSE)
      BY <3>1, LexStarts
    <3>3. QED
      BY <3>2 DEF LexedTo
  <2>2. i' = 0 /\ in_string' = FALSE /\ bs_carry' = {} /\ indices' = <<>>
    BY <1>1, <1>2
  <2>3. LexedTo(i)' = LexedTo(0)'
    BY <2>2 DEF LexedTo
  <2>4. QED
    BY <2>1, <2>2, <2>3 DEF Agreed, Lexer
<1>6. QED
  BY <1>1, <1>4, <1>5 DEF ScanInv

LEMMA ChunkScanned ==
    ASSUME ScanAssumption, ScanInv, ScanChunk
    PROVE  ScanInv'
<1>1. /\ phase = "scan" /\ i + W <= Len(text) /\ text \in Seq(Range(text)) /\ i \in 0..Len(text)
      /\ bs_carry \in {{}, {0}}
  BY DEF ScanChunk, HasChunk, ScanInv
<1>2. /\ text' = text /\ phase' = phase /\ i' = i + W
      /\ bs_carry' = EscapeCarry(Backslashes, bs_carry)
      /\ in_string' = (W - 1 \in InsideLanes)
      /\ indices' = indices \o Emit(Kept, i)
  BY DEF ScanChunk, Backslashes, Quotes, InsideLanes, Kept
<1>3. Len(text) \in Nat /\ i \in Nat /\ W \in Nat
  BY <1>1 DEF ScanAssumption
<1>4. bs_carry' \in {{}, {0}}
  BY <1>1, <1>2 DEF EscapeCarry
<1>5. (text \in Seq(Range(text)))' /\ (i \in 0..Len(text))'
  <2>1. i + W \in 0..Len(text)
    BY <1>1, <1>3
  <2>2. QED
    BY <2>1, <1>1, <1>2
<1>6. ASSUME EscapesInStrings' PROVE Agreed'
  <2>1. EscapesInStrings
    BY <1>2, <1>6 DEF EscapesInStrings, LexedTo
  <2>2. ChunkHere
    BY <2>1, <1>1, <1>3 DEF ChunkHere, ScanInv
  <2>3. [open |-> in_string', escaped |-> bs_carry' # {}, out |-> indices'] = LexedTo(i + W)
    BY <2>2, <1>2, ChunkAgrees
  <2>4. LexedTo(i)' = LexedTo(i + W)
    BY <1>2 DEF LexedTo
  <2>5. QED
    BY <2>3, <2>4 DEF Agreed
<1>7. QED
  BY <1>1, <1>2, <1>4, <1>5, <1>6 DEF ScanInv

LEMMA ChunkSkipped ==
    ASSUME ScanAssumption, ScanInv, SkipChunk
    PROVE  ScanInv'
<1>1. /\ phase = "scan" /\ i + W <= Len(text) /\ text \in Seq(Range(text)) /\ i \in 0..Len(text)
      /\ in_string /\ Plain(i)
  BY DEF SkipChunk, HasChunk, ScanInv
<1>2. /\ text' = text /\ phase' = phase /\ in_string' = in_string /\ indices' = indices
      /\ bs_carry' = {} /\ i' = JumpFrom(i + W)
  BY DEF SkipChunk
<1>3. Len(text) \in Nat /\ i \in Nat /\ W \in Nat /\ W > 0 /\ i + W \in Nat
  BY <1>1 DEF ScanAssumption
<1> DEFINE j == JumpFrom(i + W)
<1>4. /\ j \in Nat /\ i + W <= j /\ j <= Len(text)
      /\ \A p \in i + W..j - 1 : Uneventful(p)
  BY <1>1, <1>3, JumpLands
<1> HIDE DEF j
<1>5. ASSUME NEW p \in i..j - 1 PROVE Uneventful(p)
  <2>1. CASE p < i + W
    <3>1. p - i \in Lanes /\ i + (p - i) + 1 = p + 1
      BY <2>1, <1>3, <1>4 DEF Lanes
    <3>2. p - i \notin LanesOf(text, i, {Quote, Backslash})
      BY <1>1 DEF Plain
    <3>3. text[i + (p - i) + 1] \notin {Quote, Backslash}
      BY <3>1, <3>2 DEF LanesOf
    <3>4. QED
      BY <3>1, <3>3 DEF Uneventful
  <2>2. CASE ~(p < i + W)
    <3>1. p \in i + W..j - 1
      BY <2>2, <1>3, <1>4
    <3>2. QED
      BY <3>1, <1>4
  <2>3. QED
    BY <2>1, <2>2
<1>6. i' = j /\ j \in 0..Len(text) /\ i < j
  BY <1>2, <1>3, <1>4 DEF j
<1>7. (text \in Seq(Range(text)))' /\ (i \in 0..Len(text))' /\ bs_carry' \in {{}, {0}}
  BY <1>1, <1>2, <1>6
<1>8. ASSUME EscapesInStrings' PROVE Agreed'
  <2>1. EscapesInStrings
    BY <1>2, <1>8 DEF EscapesInStrings, LexedTo
  <2>2. Agreed
    BY <2>1, <1>1 DEF ScanInv
  <2>3. Inside(i) /\ LexedTo(i).out = indices /\ in_string = TRUE
    <3>1. LexedTo(i).open = in_string /\ LexedTo(i).out = indices
      BY <2>2 DEF Agreed
    <3>2. LexedTo(i).open \in BOOLEAN
      BY <1>3, LexedType DEF IsLexed, LexState
    <3>3. QED
      BY <3>1, <3>2, <1>1 DEF Inside
  <2>4. LexedTo(j) = [open |-> TRUE, escaped |-> FALSE, out |-> LexedTo(i).out]
    BY <2>1, <2>3, <1>3, <1>4, <1>5, <1>6, UneventfulBytes
  <2>5. LexedTo(i)' = LexedTo(j)
    BY <1>2, <1>6 DEF LexedTo
  <2>6. QED
    BY <2>3, <2>4, <2>5, <1>2 DEF Agreed
<1>9. QED
  BY <1>1, <1>2, <1>7, <1>8 DEF ScanInv

LEMMA ScanStands == ScanInv /\ UNCHANGED scanVars => ScanInv'
BY DEF ScanInv, scanVars, Agreed, EscapesInStrings, LexedTo

\* No call on a document moves the scan.
LEMMA CallsStand ==
    ASSUME NEW p
    PROVE  Ask(p) \/ AskCursor(p) => UNCHANGED scanVars
<1>1. ASSUME Ask(p) PROVE UNCHANGED scanVars
  BY <1>1 DEF Ask, qjson_typeof, qjson_is_null, qjson_len, qjson_get_str, qjson_get_i64, qjson_get_u64,
     qjson_get_f64, qjson_get_bool, qjson_open, FromRoot, GivesString, Opens, Unmoved
<1>2. ASSUME AskCursor(p) PROVE UNCHANGED scanVars
  BY <1>2 DEF AskCursor, qjson_cursor_typeof, qjson_cursor_len, qjson_cursor_get_str, qjson_cursor_get_i64,
     qjson_cursor_get_u64, qjson_cursor_get_f64, qjson_cursor_get_bool, qjson_cursor_open, FromSlot, GivesString,
     Opens, Unmoved
<1>3. QED
  BY <1>1, <1>2

LEMMA WalkStands == Walk => UNCHANGED scanVars
<1>1. ASSUME NEW s, qjson_cursor_field(s) \/ qjson_cursor_index(s) PROVE UNCHANGED scanVars
  BY <1>1 DEF qjson_cursor_field, qjson_cursor_index, Opens, Unmoved
<1>2. ASSUME NEW n, qjson_cursor_object_entry_at(n) PROVE UNCHANGED scanVars
  BY <1>2 DEF qjson_cursor_object_entry_at, GivesMember, Refuses, Unmoved
<1>3. qjson_iter_init \/ qjson_iter_next => UNCHANGED scanVars
  BY DEF qjson_iter_init, qjson_iter_next, GivesMember, Refuses, Unmoved
<1>4. QED
  BY <1>1, <1>2, <1>3 DEF Walk

LEMMA ScanStep ==
    ASSUME ScanAssumption, DocAssumption, ScanInv, [Next]_vars
    PROVE  ScanInv'
<1>1. CASE Parse
  <2>1. CASE qjson_parse
    BY <2>1, ParseScan DEF qjson_parse
  <2>2. CASE qjson_parse_lazy
    BY <2>2, ParseScan DEF qjson_parse_lazy
  <2>3. CASE ScanFails \/ EagerFails
    <3>1. phase' = "failed"
      BY <2>3 DEF ScanFails, EagerFails, ParseFails
    <3>2. QED
      BY <3>1 DEF ScanInv
  <2>4. CASE ParseSucceeds
    <3>1. phase' = "open"
      BY <2>4 DEF ParseSucceeds
    <3>2. QED
      BY <3>1 DEF ScanInv
  <2>5. QED
    BY <1>1, <2>1, <2>2, <2>3, <2>4 DEF Parse
<1>2. CASE SkipChunk
  BY <1>2, ChunkSkipped
<1>3. CASE ScanChunk
  BY <1>3, ChunkScanned
<1>4. CASE qjson_free
  BY <1>4 DEF qjson_free, ScanInv
<1>5. CASE NullArgument
  BY <1>5, ScanStands DEF NullArgument, Unmoved
<1>6. CASE \E p \in Paths : Ask(p) \/ AskCursor(p)
  BY <1>6, CallsStand, ScanStands
<1>7. CASE qjson_cursor_bytes
  BY <1>7, ScanStands DEF qjson_cursor_bytes, Unmoved
<1>8. CASE Walk
  BY <1>8, WalkStands, ScanStands
<1>9. CASE UNCHANGED vars
  BY <1>9, ScanStands DEF vars
<1>10. QED
  BY <1>1, <1>2, <1>3, <1>4, <1>5, <1>6, <1>7, <1>8, <1>9 DEF Next

\* Between chunks the two carried bits and the offsets emitted are what a byte by
\* byte scan has come to (scan_avx2_impl and scan_neon_impl, with the fast probe and
\* the jump; find_escape_mask_with_carry, inside_string_mask, emit_bits), for every
\* even width of a chunk, every length that makes a jump worthwhile and every text
\* in which no backslash stands outside a string.
THEOREM ScanAgrees == Spec => []BoundaryAgrees
<1>1. Init => ScanInv
  BY InitScan
<1>2. ScanInv /\ [Next]_vars => ScanInv'
  BY ScanStep, ScanAssumption, DocAssumption
<1>3. ScanInv => BoundaryAgrees
  BY DEF ScanInv, BoundaryAgrees, Agreed
<1>4. QED
  BY <1>1, <1>2, <1>3, PTL DEF Spec

\* The vector scanners (scan_avx2_impl, scan_neon_impl, with scan_emit_resume for
\* the bytes after the last chunk and validate_brackets over what was emitted) and the
\* scanner of other processors (scan_and_validate) take the same texts, with the same
\* offsets, and refuse the same.  They refuse a text at the same place unless a
\* bracket mismatch comes before a string that never ends: there the single pass
\* names the bracket and the vector scanners the end of the text.
THEOREM ScannersAreOne == Spec => []ScannersAgree
<1>1. Init => ScanInv
  BY InitScan
<1>2. ScanInv /\ [Next]_vars => ScanInv'
  BY ScanStep, ScanAssumption, DocAssumption
<1>3. ScanInv => ScannersAgree
  <2>1. SUFFICES ASSUME ScanInv, AtTail, EscapesInStrings
                 PROVE  LET s == ScanAndValidate(text)
                        IN  /\ s.err = None <=> ScanError = None
                            /\ s.err = None => Scanned = s.out
                            /\ s.err # None /\ ~MismatchInOpenText(text, s) => ScanError = s.err
    BY DEF ScannersAgree
  <2>2. text \in Seq(Range(text)) /\ i \in 0..Len(text) /\ Agreed
    BY <2>1 DEF ScanInv, AtTail
  <2>3. Len(text) \in Nat
    BY <2>2
  <2>4. QED
    BY <2>1, <2>2, <2>3, ScanAssumption, PassesAgree
<1>4. QED
  BY <1>1, <1>2, <1>3, PTL DEF Spec

=============================================================================
