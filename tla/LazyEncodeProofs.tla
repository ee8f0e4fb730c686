-------------------------- MODULE LazyEncodeProofs --------------------------
(***************************************************************************)
(* What encode and materialize return: the two agree on every table, and   *)
(* only an assignment changes it.  Both are recursive over the depth of    *)
(* the descent; an induction over the depth is a least counterexample.     *)
(***************************************************************************)
EXTENDS LazyRefinementProofs

-----------------------------------------------------------------------------
(* The recursive definitions have the values their equations say.           *)

\* One level of Text over the level below.
TextAt(d, below) ==
    [x \in Source |->
        IF x \in Scalar THEN JScalar(x)
        ELSE IF d = 0 THEN Deep
        ELSE IF Kind[x] = "object"
        THEN JObject([k \in Key |-> IF HasKey(x, k) THEN below[LastItem(x, k)] ELSE Absent])
        ELSE JArray([i \in DOMAIN Item[x] |-> below[Item[x][i]]])]

LEMMA TextBottom == \A f, g : TextAt(0, f) = TextAt(0, g)
<1>1. \A f : TextAt(0, f) = [x \in Source |-> IF x \in Scalar THEN JScalar(x) ELSE Deep]
  BY DEF TextAt
<1>2. QED
  BY <1>1

LEMMA TextExists ==
    ASSUME NEW D \in Nat
    PROVE  \E g : g = [d \in 0..D |-> TextAt(d, g[d - 1])]
<1> DEFINE S == {m \in 0..D : \E g : g = [d \in 0..m |-> TextAt(d, g[d - 1])]}
<1>1. 0 \in S
  <2> DEFINE h == [d \in 0..0 |-> TextAt(0, 0)]
  <2>1. \A d \in 0..0 : h[d] = TextAt(d, h[d - 1])
    BY TextBottom
  <2>2. h = [d \in 0..0 |-> TextAt(d, h[d - 1])]
    <3>1. h = [d \in 0..0 |-> h[d]]
      OBVIOUS
    <3> HIDE DEF h
    <3>2. QED
      BY <2>1, <3>1
  <2>3. QED
    BY <2>2
<1>2. ASSUME NEW m \in S, m < D
      PROVE  m + 1 \in S
  <2>1. PICK g : g = [d \in 0..m |-> TextAt(d, g[d - 1])]
    BY <1>2
  <2> DEFINE h == [d \in 0..m + 1 |-> IF d <= m THEN g[d] ELSE TextAt(d, g[m])]
  <2>2. \A d \in 0..m : g[d] = TextAt(d, g[d - 1])
    BY <2>1
  <2>3. ASSUME NEW d \in 0..m + 1
        PROVE  h[d] = TextAt(d, h[d - 1])
    <3>1. CASE d = 0
      BY <3>1, <2>2, TextBottom
    <3>2. CASE d \in 1..m
      <4>1. h[d] = g[d] /\ h[d - 1] = g[d - 1]
        BY <3>2
      <4>2. QED
        BY <3>2, <4>1, <2>2
    <3>3. CASE d = m + 1
      <4>1. h[d] = TextAt(d, g[m]) /\ h[d - 1] = g[m]
        BY <3>3
      <4>2. QED
        BY <4>1
    <3>4. QED
      BY <3>1, <3>2, <3>3
  <2>4. h = [d \in 0..m + 1 |-> TextAt(d, h[d - 1])]
    <3>1. h = [d \in 0..m + 1 |-> h[d]]
      OBVIOUS
    <3> HIDE DEF h
    <3>2. QED
      BY <2>3, <3>1
  <2>5. \E e : e = [d \in 0..m + 1 |-> TextAt(d, e[d - 1])]
    <3> HIDE DEF h
    <3> QED
      BY <2>4
  <2>6. m + 1 \in 0..D
    BY <1>2
  <2>7. QED
    BY <2>5, <2>6
<1>3. S = 0..D
  <2>1. S \subseteq 0..D
    OBVIOUS
  <2> HIDE DEF S
  <2>2. QED
    BY <2>1, <1>1, <1>2, Climb
<1>4. QED
  BY <1>3

LEMMA TextLevels ==
    ASSUME DepthAssumption
    PROVE  \A d \in 0..Depth : Text[d] = TextAt(d, Text[d - 1])
<1>1. \E g : g = [d \in 0..Depth |-> TextAt(d, g[d - 1])]
  BY TextExists DEF DepthAssumption
<1>2. Text = [d \in 0..Depth |-> TextAt(d, Text[d - 1])]
  BY <1>1 DEF Text, TextAt
<1>3. QED
  BY <1>2

\* One level of Encoded over the level below.
EncodedAt(d, below) ==
    [x \in Thing |->
        IF x \in Source THEN Text[d][x]
        ELSE IF d = 0 THEN Deep
        ELSE IF meta[x] = "plain"
        THEN JArray([i \in DOMAIN PlainItems(x) |-> below[PlainItems(x)[i]]])
        ELSE IF ~dirty[x] THEN Text[d][node[x]]
        ELSE IF meta[x] = "object"
        THEN JObject([k \in Key |->
                 IF OrderedField(x, k) = Nil THEN Absent ELSE below[OrderedField(x, k)]])
        ELSE JArray([i \in DOMAIN Item[node[x]] |-> below[ElementAt(x, i)]])]

LEMMA EncodedBottom == \A f, g : EncodedAt(0, f) = EncodedAt(0, g)
<1>1. \A f : EncodedAt(0, f) = [x \in Thing |-> IF x \in Source THEN Text[0][x] ELSE Deep]
  BY DEF EncodedAt
<1>2. QED
  BY <1>1

LEMMA EncodedExists ==
    ASSUME NEW D \in Nat
    PROVE  \E g : g = [d \in 0..D |-> EncodedAt(d, g[d - 1])]
<1> DEFINE S == {m \in 0..D : \E g : g = [d \in 0..m |-> EncodedAt(d, g[d - 1])]}
<1>1. 0 \in S
  <2> DEFINE h == [d \in 0..0 |-> EncodedAt(0, 0)]
  <2>1. \A d \in 0..0 : h[d] = EncodedAt(d, h[d - 1])
    BY EncodedBottom
  <2>2. h = [d \in 0..0 |-> EncodedAt(d, h[d - 1])]
    <3>1. h = [d \in 0..0 |-> h[d]]
      OBVIOUS
    <3> HIDE DEF h
    <3>2. QED
      BY <2>1, <3>1
  <2>3. QED
    BY <2>2
<1>2. ASSUME NEW m \in S, m < D
      PROVE  m + 1 \in S
  <2>1. PICK g : g = [d \in 0..m |-> EncodedAt(d, g[d - 1])]
    BY <1>2
  <2> DEFINE h == [d \in 0..m + 1 |-> IF d <= m THEN g[d] ELSE EncodedAt(d, g[m])]
  <2>2. \A d \in 0..m : g[d] = EncodedAt(d, g[d - 1])
    BY <2>1
  <2>3. \A d \in 0..m + 1 : h[d] = EncodedAt(d, h[d - 1])
    BY <2>2, EncodedBottom
  <2>4. h = [d \in 0..m + 1 |-> EncodedAt(d, h[d - 1])]
    <3>1. h = [d \in 0..m + 1 |-> h[d]]
      OBVIOUS
    <3> HIDE DEF h
    <3>2. QED
      BY <2>3, <3>1
  <2>5. \E e : e = [d \in 0..m + 1 |-> EncodedAt(d, e[d - 1])]
    <3> HIDE DEF h
    <3> QED
      BY <2>4
  <2>6. m + 1 \in 0..D
    BY <1>2
  <2>7. QED
    BY <2>5, <2>6
<1>3. S = 0..D
  <2>1. S \subseteq 0..D
    OBVIOUS
  <2> HIDE DEF S
  <2>2. QED
    BY <2>1, <1>1, <1>2, Climb
<1>4. QED
  BY <1>3

LEMMA EncodedLevels ==
    ASSUME DepthAssumption
    PROVE  \A d \in 0..Depth : Encoded[d] = EncodedAt(d, Encoded[d - 1])
<1>1. \E g : g = [d \in 0..Depth |-> EncodedAt(d, g[d - 1])]
  BY EncodedExists DEF DepthAssumption
<1>2. Encoded = [d \in 0..Depth |-> EncodedAt(d, Encoded[d - 1])]
  BY <1>1 DEF Encoded, EncodedAt
<1>3. QED
  BY <1>2

\* One level of Materialized over the level below.
MaterializedAt(d, below) ==
    [x \in Thing |->
        IF x \in Source THEN Text[d][x]
        ELSE IF d = 0 THEN Deep
        ELSE IF meta[x] = "plain"
        THEN JArray([i \in DOMAIN PlainItems(x) |-> below[PlainItems(x)[i]]])
        ELSE IF meta[x] = "object"
        THEN JObject([k \in Key |->
                 IF MaterializedField(x, k) = Nil THEN Absent ELSE below[MaterializedField(x, k)]])
        ELSE JArray([i \in DOMAIN Item[node[x]] |-> below[ElementAt(x, i)]])]

LEMMA MaterializedBottom == \A f, g : MaterializedAt(0, f) = MaterializedAt(0, g)
<1>1. \A f : MaterializedAt(0, f) = [x \in Thing |-> IF x \in Source THEN Text[0][x] ELSE Deep]
  BY DEF MaterializedAt
<1>2. QED
  BY <1>1

LEMMA MaterializedExists ==
    ASSUME NEW D \in Nat
    PROVE  \E g : g = [d \in 0..D |-> MaterializedAt(d, g[d - 1])]
<1> DEFINE S == {m \in 0..D : \E g : g = [d \in 0..m |-> MaterializedAt(d, g[d - 1])]}
<1>1. 0 \in S
  <2> DEFINE h == [d \in 0..0 |-> MaterializedAt(0, 0)]
  <2>1. \A d \in 0..0 : h[d] = MaterializedAt(d, h[d - 1])
    BY MaterializedBottom
  <2>2. h = [d \in 0..0 |-> MaterializedAt(d, h[d - 1])]
    <3>1. h = [d \in 0..0 |-> h[d]]
      OBVIOUS
    <3> HIDE DEF h
    <3>2. QED
      BY <2>1, <3>1
  <2>3. QED
    BY <2>2
<1>2. ASSUME NEW m \in S, m < D
      PROVE  m + 1 \in S
  <2>1. PICK g : g = [d \in 0..m |-> MaterializedAt(d, g[d - 1])]
    BY <1>2
  <2> DEFINE h == [d \in 0..m + 1 |-> IF d <= m THEN g[d] ELSE MaterializedAt(d, g[m])]
  <2>2. \A d \in 0..m : g[d] = MaterializedAt(d, g[d - 1])
    BY <2>1
  <2>3. \A d \in 0..m + 1 : h[d] = MaterializedAt(d, h[d - 1])
    BY <2>2, MaterializedBottom
  <2>4. h = [d \in 0..m + 1 |-> MaterializedAt(d, h[d - 1])]
    <3>1. h = [d \in 0..m + 1 |-> h[d]]
      OBVIOUS
    <3> HIDE DEF h
    <3>2. QED
      BY <2>3, <3>1
  <2>5. \E e : e = [d \in 0..m + 1 |-> MaterializedAt(d, e[d - 1])]
    <3> HIDE DEF h
    <3> QED
      BY <2>4
  <2>6. m + 1 \in 0..D
    BY <1>2
  <2>7. QED
    BY <2>5, <2>6
<1>3. S = 0..D
  <2>1. S \subseteq 0..D
    OBVIOUS
  <2> HIDE DEF S
  <2>2. QED
    BY <2>1, <1>1, <1>2, Climb
<1>4. QED
  BY <1>3

LEMMA MaterializedLevels ==
    ASSUME DepthAssumption
    PROVE  \A d \in 0..Depth : Materialized[d] = MaterializedAt(d, Materialized[d - 1])
<1>1. \E g : g = [d \in 0..Depth |-> MaterializedAt(d, g[d - 1])]
  BY MaterializedExists DEF DepthAssumption
<1>2. Materialized = [d \in 0..Depth |-> MaterializedAt(d, Materialized[d - 1])]
  BY <1>1 DEF Materialized, MaterializedAt
<1>3. QED
  BY <1>2

\* What encode returns of a table, given what it returns one level down.
EncodesSource ==
    \A d \in 0..Depth, x \in Source : Encoded[d][x] = Text[d][x]
EncodesDeep ==
    \A d \in 0..Depth, x \in View : d = 0 => Encoded[d][x] = Deep
EncodesPlain ==
    \A d \in 0..Depth, x \in View : d > 0 /\ meta[x] = "plain" =>
        Encoded[d][x] = JArray([i \in DOMAIN PlainItems(x) |-> Encoded[d - 1][PlainItems(x)[i]]])
EncodesClean ==
    \A d \in 0..Depth, x \in View : d > 0 /\ meta[x] # "plain" /\ ~dirty[x] =>
        Encoded[d][x] = Text[d][node[x]]
EncodesObject ==
    \A d \in 0..Depth, x \in View : d > 0 /\ meta[x] = "object" /\ dirty[x] =>
        Encoded[d][x] = JObject([k \in Key |->
            IF OrderedField(x, k) = Nil THEN Absent ELSE Encoded[d - 1][OrderedField(x, k)]])
EncodesArray ==
    \A d \in 0..Depth, x \in View : d > 0 /\ meta[x] = "array" /\ dirty[x] =>
        Encoded[d][x] = JArray([i \in DOMAIN Item[node[x]] |-> Encoded[d - 1][ElementAt(x, i)]])
EncodeEqs ==
    EncodesSource /\ EncodesDeep /\ EncodesPlain /\ EncodesClean /\ EncodesObject /\ EncodesArray

LEMMA EncodeNow == EncodeEqs
<1>0. DepthAssumption /\ HeapAssumption
  BY DepthAssumption, HeapAssumption
<1>1. ASSUME NEW d \in 0..Depth, NEW x \in Thing
      PROVE  Encoded[d][x] = EncodedAt(d, Encoded[d - 1])[x]
  BY <1>0, EncodedLevels
<1>2. \A x \in View : x \in Thing /\ x \notin Source
  BY <1>0 DEF HeapAssumption, Source, Thing, Val
<1>3. \A x \in Source : x \in Thing
  BY DEF Source, Thing, Val
<1>4. EncodesSource /\ EncodesDeep
  BY <1>1, <1>2, <1>3 DEF EncodedAt, EncodesSource, EncodesDeep
<1>5. EncodesPlain
  <2> SUFFICES ASSUME NEW d \in 0..Depth, NEW x \in View, d > 0, meta[x] = "plain"
               PROVE  Encoded[d][x] = JArray([i \in DOMAIN PlainItems(x) |->
                       Encoded[d - 1][PlainItems(x)[i]]])
    BY DEF EncodesPlain
  <2>1. Encoded[d][x] = EncodedAt(d, Encoded[d - 1])[x] /\ x \in Thing /\ x \notin Source /\ d # 0
    BY <1>1, <1>2
  <2>2. QED
    BY <2>1 DEF EncodedAt
<1>6. EncodesClean
  <2> SUFFICES ASSUME NEW d \in 0..Depth, NEW x \in View, d > 0, meta[x] # "plain", ~dirty[x]
               PROVE  Encoded[d][x] = Text[d][node[x]]
    BY DEF EncodesClean
  <2>1. Encoded[d][x] = EncodedAt(d, Encoded[d - 1])[x] /\ x \in Thing /\ x \notin Source /\ d # 0
    BY <1>1, <1>2
  <2>2. QED
    BY <2>1 DEF EncodedAt
<1>7. EncodesObject
  <2> SUFFICES ASSUME NEW d \in 0..Depth, NEW x \in View, d > 0, meta[x] = "object", dirty[x]
               PROVE  Encoded[d][x] = JObject([k \in Key |-> IF OrderedField(x, k) = Nil THEN Absent
                       ELSE Encoded[d - 1][OrderedField(x, k)]])
    BY DEF EncodesObject
  <2>1. Encoded[d][x] = EncodedAt(d, Encoded[d - 1])[x] /\ x \in Thing /\ x \notin Source /\ d # 0
    BY <1>1, <1>2
  <2>2. QED
    BY <2>1 DEF EncodedAt
<1>8. EncodesArray
  <2> SUFFICES ASSUME NEW d \in 0..Depth, NEW x \in View, d > 0, meta[x] = "array", dirty[x]
               PROVE  Encoded[d][x] = JArray([i \in DOMAIN Item[node[x]] |->
                       Encoded[d - 1][ElementAt(x, i)]])
    BY DEF EncodesArray
  <2>1. Encoded[d][x] = EncodedAt(d, Encoded[d - 1])[x] /\ x \in Thing /\ x \notin Source /\ d # 0
    BY <1>1, <1>2
  <2>2. QED
    BY <2>1 DEF EncodedAt
<1>9. QED
  BY <1>4, <1>5, <1>6, <1>7, <1>8 DEF EncodeEqs

LEMMA EncodeThen == EncodeEqs'
BY EncodeNow, PTL

\* What materialize returns of a table, given what it returns one level down.
MaterializesSource ==
    \A d \in 0..Depth, x \in Source : Materialized[d][x] = Text[d][x]
MaterializesDeep ==
    \A d \in 0..Depth, x \in View : d = 0 => Materialized[d][x] = Deep
MaterializesPlain ==
    \A d \in 0..Depth, x \in View : d > 0 /\ meta[x] = "plain" =>
        Materialized[d][x] = JArray([i \in DOMAIN PlainItems(x) |-> Materialized[d - 1][PlainItems(x)[i]]])
MaterializesObject ==
    \A d \in 0..Depth, x \in View : d > 0 /\ meta[x] = "object" =>
        Materialized[d][x] = JObject([k \in Key |->
            IF MaterializedField(x, k) = Nil THEN Absent ELSE Materialized[d - 1][MaterializedField(x, k)]])
MaterializesArray ==
    \A d \in 0..Depth, x \in View : d > 0 /\ meta[x] = "array" =>
        Materialized[d][x] = JArray([i \in DOMAIN Item[node[x]] |-> Materialized[d - 1][ElementAt(x, i)]])
MaterializeEqs ==
    MaterializesSource /\ MaterializesDeep /\ MaterializesPlain /\ MaterializesObject /\ MaterializesArray

LEMMA MaterializeNow == MaterializeEqs
<1>0. DepthAssumption /\ HeapAssumption
  BY DepthAssumption, HeapAssumption
<1>1. ASSUME NEW d \in 0..Depth, NEW x \in Thing
      PROVE  Materialized[d][x] = MaterializedAt(d, Materialized[d - 1])[x]
  BY <1>0, MaterializedLevels
<1>2. \A x \in View : x \in Thing /\ x \notin Source
  BY <1>0 DEF HeapAssumption, Source, Thing, Val
<1>3. \A x \in Source : x \in Thing
  BY DEF Source, Thing, Val
<1>4. MaterializesSource /\ MaterializesDeep
  BY <1>1, <1>2, <1>3 DEF MaterializedAt, MaterializesSource, MaterializesDeep
<1>5. MaterializesPlain
  <2> SUFFICES ASSUME NEW d \in 0..Depth, NEW x \in View, d > 0, meta[x] = "plain"
               PROVE  Materialized[d][x] = JArray([i \in DOMAIN PlainItems(x) |->
                       Materialized[d - 1][PlainItems(x)[i]]])
    BY DEF MaterializesPlain
  <2>1. Materialized[d][x] = MaterializedAt(d, Materialized[d - 1])[x] /\ x \in Thing /\ x \notin Source /\ d # 0
    BY <1>1, <1>2
  <2>2. QED
    BY <2>1 DEF MaterializedAt
<1>6. MaterializesObject
  <2> SUFFICES ASSUME NEW d \in 0..Depth, NEW x \in View, d > 0, meta[x] = "object"
               PROVE  Materialized[d][x] = JObject([k \in Key |-> IF MaterializedField(x, k) = Nil THEN Absent
                       ELSE Materialized[d - 1][MaterializedField(x, k)]])
    BY DEF MaterializesObject
  <2>1. Materialized[d][x] = MaterializedAt(d, Materialized[d - 1])[x] /\ x \in Thing /\ x \notin Source /\ d # 0
    BY <1>1, <1>2
  <2>2. QED
    BY <2>1 DEF MaterializedAt
<1>7. MaterializesArray
  <2> SUFFICES ASSUME NEW d \in 0..Depth, NEW x \in View, d > 0, meta[x] = "array"
               PROVE  Materialized[d][x] = JArray([i \in DOMAIN Item[node[x]] |->
                       Materialized[d - 1][ElementAt(x, i)]])
    BY DEF MaterializesArray
  <2>1. Materialized[d][x] = MaterializedAt(d, Materialized[d - 1])[x] /\ x \in Thing /\ x \notin Source /\ d # 0
    BY <1>1, <1>2
  <2>2. QED
    BY <2>1 DEF MaterializedAt
<1>8. QED
  BY <1>4, <1>5, <1>6, <1>7 DEF MaterializeEqs

\* What the text of a container says, one level over the next.
LEMMA TextNow ==
    ASSUME DepthAssumption, HeapAssumption, NEW d \in 0..Depth, NEW n \in Node
    PROVE  /\ d = 0 => Text[d][n] = Deep
           /\ d > 0 /\ Kind[n] = "object" =>
                 Text[d][n] = JObject([k \in Key |->
                     IF HasKey(n, k) THEN Text[d - 1][LastItem(n, k)] ELSE Absent])
           /\ d > 0 /\ Kind[n] # "object" =>
                 Text[d][n] = JArray([i \in DOMAIN Item[n] |-> Text[d - 1][Item[n][i]]])
<1>1. Text[d][n] = TextAt(d, Text[d - 1])[n]
  BY TextLevels
<1>2. n \in Source /\ n \notin Scalar
  BY DEF HeapAssumption, Source
<1>3. QED
  BY <1>1, <1>2 DEF TextAt

-----------------------------------------------------------------------------
(* What is below a table.                                                   *)

\* y is x of the source, or a clean view of it.
StandsFor(y, x) ==
    y = x \/ (y \in View /\ x \in Node /\ Lazy(y) /\ ~dirty[y] /\ node[y] = x)

\* encode copies the source for it.
LEMMA StandsText ==
    ASSUME DepthAssumption, HeapAssumption, EncodeEqs, NEW d \in 0..Depth,
           NEW x \in Source, NEW y, StandsFor(y, x)
    PROVE  Encoded[d][y] = Text[d][x]
<1>1. CASE y = x
  BY <1>1 DEF EncodeEqs, Source, Thing, Val, EncodesSource
<1>2. CASE y \in View /\ x \in Node /\ Lazy(y) /\ ~dirty[y] /\ node[y] = x
  <2>1. y \in Thing /\ meta[y] # "plain"
    BY <1>2 DEF Thing, Val, Lazy
  <2>2. CASE d = 0
    BY <2>1, <2>2, <1>2, TextNow DEF EncodeEqs, EncodesDeep
  <2>3. CASE d > 0
    BY <2>1, <2>3, <1>2 DEF EncodeEqs, EncodesClean
  <2>4. QED
    BY <2>2, <2>3
<1>3. QED
  BY <1>1, <1>2 DEF StandsFor

\* A sequence that was an array has no parent.
PlainDetached == \A v \in View : meta[v] = "plain" => parent[v] = Nil

LEMMA DetachedStep ==
    ASSUME DocAssumption, HeapAssumption, HeapInv, PlainDetached, NEW S, NEW P, AllocMove(S, P)
    PROVE  PlainDetached'
<1> DEFINE f == Names(S)
<1>0. /\ Sites(S) /\ Enough(S) /\ P \in SUBSET View
      /\ \A v \in View : parent'[v] = IF v \in P THEN Nil ELSE WrapParent(f)[v]
      /\ \A v \in View : meta'[v] = IF v \in P THEN "plain" ELSE WrapMeta(f)[v]
  BY DEF AllocMove
<1>1. ASSUME NEW v \in View, v \notin P, meta'[v] = "plain"
      PROVE  parent'[v] = Nil
  <2>1. CASE New(f, v)
    <3>1. PICK s \in S : f[s] = v
      BY <1>0, <2>1, WrapEffect DEF HeapInv
    <3>2. WrapMeta(f)[v] = Kind[s[2]]
      BY <1>0, <3>1, WrapEffect DEF HeapInv
    <3>3. s[2] \in Node
      BY <1>0 DEF Sites
    <3>4. Kind[s[2]] # "plain"
      BY <3>3 DEF DocAssumption
    <3>5. QED
      BY <1>0, <1>1, <3>2, <3>4
  <2>2. CASE ~New(f, v)
    <3>1. WrapMeta(f)[v] = meta[v] /\ WrapParent(f)[v] = parent[v]
      BY <1>0, <2>2, WrapEffect DEF HeapInv
    <3>2. QED
      BY <1>0, <1>1, <3>1 DEF PlainDetached
  <2>3. QED
    BY <2>1, <2>2
<1>2. QED
  BY <1>0, <1>1 DEF PlainDetached

\* Every step makes views and turns arrays into sequences, and no more.
LEMMA StepAllocates ==
    ASSUME DocAssumption, HeapAssumption, IInv, [Next]_vars
    PROVE  \E S, P : AllocMove(S, P)
<1> USE DEF IInv
<1>1. ASSUME NEW v \in View, NEW k \in Key, ReadField(v, k)
      PROVE  \E S, P : AllocMove(S, P)
  BY <1>1, ReadFieldMove
<1>2. ASSUME NEW v \in View, NEW i \in Index, ReadIndex(v, i)
      PROVE  \E S, P : AllocMove(S, P)
  BY <1>2, ReadIndexAlloc
<1>3. ASSUME NEW v \in View, NEW k \in Key, NEW x \in Val \cup {Nil}, WriteField(v, k, x)
      PROVE  \E S, P : AllocMove(S, P)
  BY <1>3, WriteFieldAlloc
<1>4. ASSUME NEW v \in View, NEW i \in Index, NEW x \in Val \cup {Nil}, WriteIndex(v, i, x)
      PROVE  \E S, P : AllocMove(S, P)
  BY <1>4, WriteIndexAlloc
<1>5. CASE NextSource
  BY <1>5, NextSourceMove
<1>6. CASE NextArray
  BY <1>6, NextArrayAlloc
<1>7. ASSUME NEW v \in View, Encode(v) \/ Materialize(v)
      PROVE  \E S, P : AllocMove(S, P)
  <2>1. PICK T : T \subseteq View /\ (\A t \in T : meta[t] = "object") /\ BuildAll(T)
    BY <1>7 DEF Encode, Materialize, Unordered, Reach
  <2>2. QED
    BY <2>1, BuildAllAlloc
<1>8. CASE UNCHANGED <<meta, node, parent>>
  BY <1>8, NoAlloc
<1>9. QED
  <2>1. ASSUME NEW v \in View, NEW i \in Index, NEW x \in Val \cup {Nil}, WriteIndexRaw(v, i, x)
        PROVE  UNCHANGED <<meta, node, parent>>
    BY <2>1 DEF WriteIndexRaw
  <2>2. ASSUME NEW v \in View, PairsStart(v) \/ IpairsStart(v)
        PROVE  UNCHANGED <<meta, node, parent>>
    BY <2>2 DEF PairsStart, IpairsStart
  <2>3. NextOrdered \/ NextArrayFails \/ IterEnd \/ UNCHANGED vars => UNCHANGED <<meta, node, parent>>
    BY DEF NextOrdered, NextArrayFails, IterEnd, vars
  <2>4. QED
    BY <1>1, <1>2, <1>3, <1>4, <1>5, <1>6, <1>7, <1>8, <2>1, <2>2, <2>3 DEF Next

LEMMA DetachedHolds == Spec => []PlainDetached
<1>1. DocAssumption /\ HeapAssumption
  BY DocAssumption, HeapAssumption
<1>2. Init => PlainDetached
  BY DEF Init, PlainDetached
<1>3. IInv /\ PlainDetached /\ [Next]_vars => PlainDetached'
  BY <1>1, StepAllocates, DetachedStep DEF IInv
<1>4. QED
  BY <1>2, <1>3, InvariantHolds, PTL DEF Spec

\* What an entry of a table can be.
Held(y) == y \in Entry /\ (y \in View => Made(y))

LEMMA PlainHeld ==
    ASSUME HeapAssumption, TableInv, NEW v \in View, meta[v] = "plain"
    PROVE  \A i \in DOMAIN PlainItems(v) : Held(PlainItems(v)[i])
<1>1. /\ ArrayLen(v) \in 0..MaxLen
      /\ \A i \in Index : slots[v][i] # Nil <=> i <= ArrayLen(v)
  BY PlainFacts DEF TableInv
<1>2. ASSUME NEW i \in 1..ArrayLen(v)
      PROVE  Held(slots[v][i])
  <2>1. i \in Index /\ slots[v][i] # Nil
    BY <1>1 DEF Index, HeapAssumption
  <2>2. slots[v][i] \in Val \cup {Nil} /\ Live(slots[v][i])
    BY <2>1 DEF TableInv, IInv, HeapInv, HeapTypeOK, LinksOK
  <2>3. QED
    BY <2>1, <2>2 DEF Held, Entry, Live, Made
<1>3. QED
  BY <1>2 DEF PlainItems

\* The value of a field of an object whose order state is there or is to be made.
LEMMA OrderedHeld ==
    ASSUME DocAssumption, HeapAssumption, TableInv, NEW v \in View, meta[v] = "object", NEW k \in Key
    PROVE  /\ OrderedField(v, k) # Nil => Held(OrderedField(v, k))
           /\ ~built[v] => OrderedField(v, k) =
                 IF HasKey(node[v], k)
                 THEN FieldAt(node[v], FALSE, values[v], cache[v], k) ELSE Nil
<1> DEFINE x == LastItem(node[v], k)
           c == cache[v][k]
<1>1. node[v] \in Node /\ Kind[node[v]] = "object"
  BY ObjectNode DEF TableInv, IInv
<1>2. c \in View \cup {Nil} /\ Live(c)
  BY DEF TableInv, IInv, HeapInv, HeapTypeOK, LinksOK
<1>3. c # Nil => HasKey(node[v], k) /\ FirstItem(node[v], k) \in Node
  BY DEF TableInv, CacheOK
<1>4. CASE built[v]
  <2>1. values[v][k] \in Val \cup {Nil} /\ Live(values[v][k])
    BY DEF TableInv, OrderInv, OrderTypeOK, LinksOK
  <2>2. QED
    BY <1>4, <2>1 DEF OrderedField, Held, Entry, Live, Made
<1>5. CASE ~built[v] /\ ~HasKey(node[v], k)
  BY <1>5 DEF OrderedField, BuiltValue
<1>6. CASE ~built[v] /\ HasKey(node[v], k)
  <2>1. x \in Scalar \cup Node
    BY <1>1, <1>6, PositionFacts
  <2>2. ~Duplicated(node[v], k) => FirstItem(node[v], k) = x
    BY <1>6, OnlyItem
  <2>3. Decoded(v, x, <<>>) = x
    BY DEF Decoded
  <2>4. OrderedField(v, k) = IF x \in Node /\ ~NeedsDecode(v, k) THEN c ELSE x
    BY <1>6, <2>3 DEF OrderedField, BuiltValue
  <2>5. NeedsDecode(v, k) <=> x \in Node /\ (Duplicated(node[v], k) \/ c = Nil)
    BY DEF NeedsDecode
  <2>6. FieldAt(node[v], FALSE, values[v], cache[v], k) =
           IF ~Duplicated(node[v], k) /\ c # Nil THEN c ELSE x
    BY DEF FieldAt
  <2> HIDE DEF x, c
  <2>7. OrderedField(v, k) = IF ~Duplicated(node[v], k) /\ c # Nil THEN c ELSE x
    <3>1. ~Duplicated(node[v], k) /\ c # Nil => x \in Node
      BY <1>3, <2>2 DEF x, c
    <3>2. QED
      BY <2>4, <2>5, <3>1
  <2>8. Held(x) /\ x # Nil
    BY <2>1 DEF Held, Entry, Val, HeapAssumption
  <2>9. c # Nil => Held(c)
    BY <1>2 DEF Held, Entry, Val, Live, Made
  <2>10. QED
    BY <1>6, <2>6, <2>7, <2>8, <2>9
<1>7. QED
  BY <1>4, <1>5, <1>6

\* The elements of an array view.
LEMMA ElementHeld ==
    ASSUME DocAssumption, HeapAssumption, TableInv, NEW v \in View, meta[v] = "array",
           NEW i \in DOMAIN Item[node[v]]
    PROVE  i \in Index /\ Held(ElementAt(v, i)) /\ Item[node[v]][i] \in Source
<1>1. node[v] \in Node /\ Kind[node[v]] = "array"
  BY DEF TableInv, IInv, HeapInv, HeapTypeOK, KindOK, Lazy
<1>2. Item[node[v]] \in Seq(Scalar \cup Node) /\ Len(Item[node[v]]) <= MaxLen
  BY <1>1 DEF DocAssumption
<1>3. i \in Index /\ Item[node[v]][i] \in Source
  BY <1>2 DEF Index, Source, HeapAssumption
<1>4. slots[v][i] \in Val \cup {Nil} /\ Live(slots[v][i])
  BY <1>3 DEF TableInv, IInv, HeapInv, HeapTypeOK, LinksOK
<1>5. Held(Item[node[v]][i])
  BY <1>3 DEF Held, Entry, Val, Source, HeapAssumption
<1>6. slots[v][i] # Nil => Held(slots[v][i])
  BY <1>4 DEF Held, Entry, Live, Made
<1>7. QED
  BY <1>3, <1>5, <1>6 DEF ElementAt

-----------------------------------------------------------------------------
(* encode and materialize agree.                                            *)

\* What materialize meets below a clean object, is what the source says there.
LEMMA CleanField ==
    ASSUME DocAssumption, HeapAssumption, TableInv, NEW v \in View, meta[v] = "object", ~dirty[v],
           ~CachedDuplicate(v), NEW k \in Key
    PROVE  /\ ~HasKey(node[v], k) => MaterializedField(v, k) = Nil
           /\ HasKey(node[v], k) =>
                 /\ MaterializedField(v, k) # Nil /\ Held(MaterializedField(v, k))
                 /\ LastItem(node[v], k) \in Source
                 /\ StandsFor(MaterializedField(v, k), LastItem(node[v], k))
<1> DEFINE x == LastItem(node[v], k)
           c == cache[v][k]
<1>1. node[v] \in Node /\ Kind[node[v]] = "object"
  BY ObjectNode DEF TableInv, IInv
<1>2. ~built[v]
  BY DEF TableInv, IInv, HeapInv, CleanObjectPristine
<1>3. CASE ~HasKey(node[v], k)
  BY <1>2, <1>3 DEF MaterializedField
<1>4. CASE HasKey(node[v], k) /\ c = Nil
  <2>1. x \in Source
    BY <1>1, <1>4, PositionFacts DEF Source
  <2>2. MaterializedField(v, k) = x
    BY <1>2, <1>4 DEF MaterializedField
  <2> HIDE DEF x
  <2>3. x # Nil /\ Held(x)
    BY <2>1 DEF Held, Entry, Val, Source, HeapAssumption
  <2>4. QED
    BY <1>4, <2>1, <2>2, <2>3 DEF StandsFor, x
<1>5. CASE HasKey(node[v], k) /\ c # Nil
  <2>1. c \in View /\ Made(c)
    BY <1>5 DEF TableInv, IInv, HeapInv, HeapTypeOK, LinksOK, Live, Made
  <2>2. Lazy(c) /\ ~dirty[c] /\ node[c] = FirstItem(node[v], k)
    BY <2>1 DEF TableInv, IInv, HeapInv, CleanObjectPristine
  <2>3. FirstItem(node[v], k) \in Node
    BY <1>5 DEF TableInv, CacheOK
  <2>4. ~Duplicated(node[v], k)
    BY <1>2, <1>5 DEF CachedDuplicate
  <2>5. FirstItem(node[v], k) = x
    BY <1>5, <2>4, OnlyItem
  <2>6. MaterializedField(v, k) = c
    BY <1>2, <1>5 DEF MaterializedField
  <2> HIDE DEF x, c
  <2>7. Held(c) /\ StandsFor(c, x) /\ x \in Source
    BY <2>1, <2>2, <2>3, <2>5 DEF Held, Entry, Val, StandsFor, Source
  <2>8. QED
    BY <1>5, <2>6, <2>7 DEF x
<1>6. QED
  BY <1>3, <1>4, <1>5

\* And below a clean array of which no slot was assigned over.
LEMMA CleanElement ==
    ASSUME DocAssumption, HeapAssumption, TableInv, PlainDetached,
           NEW v \in View, meta[v] = "array", ~dirty[v], ~OverwrittenSlot(v),
           NEW i \in DOMAIN Item[node[v]]
    PROVE  StandsFor(ElementAt(v, i), Item[node[v]][i])
<1>1. i \in Index
  BY ElementHeld
<1>2. CASE slots[v][i] = Nil
  BY <1>2 DEF ElementAt, StandsFor
<1>3. CASE slots[v][i] # Nil
  <2> DEFINE c == slots[v][i]
  <2>1. c \in View /\ node[c] = Item[node[v]][i] /\ parent[c] = v
    BY <1>1, <1>3 DEF OverwrittenSlot, OwnChild
  <2>2. Made(c)
    BY <1>1, <2>1 DEF TableInv, LinksOK, Live, Made
  <2>3. v # Nil /\ Lazy(v)
    BY DEF HeapAssumption, Lazy
  <2>4. Lazy(c)
    BY <2>1, <2>2, <2>3 DEF PlainDetached, Made, Lazy, TableInv, IInv, HeapInv, HeapTypeOK
  <2>5. ~dirty[c]
    <3>1. DirtyUp
      BY DEF TableInv, IInv, HeapInv
    <3>2. c \in View /\ parent[c] = v /\ parent[c] # Nil /\ Lazy(c) /\ Lazy(parent[c])
      BY <2>1, <2>3, <2>4
    <3> HIDE DEF c
    <3>3. QED
      BY <3>1, <3>2 DEF DirtyUp
  <2>6. node[c] \in Node
    BY <2>1 DEF TableInv, IInv, HeapInv, HeapTypeOK
  <2>7. ElementAt(v, i) = c
    BY <1>3 DEF ElementAt
  <2> HIDE DEF c
  <2>8. QED
    BY <2>1, <2>4, <2>5, <2>6, <2>7 DEF StandsFor
<1>4. QED
  BY <1>2, <1>3

\* No table is in one of the two states in which they part.
Undisturbed == \A v \in View : ~OverwrittenSlot(v) /\ ~CachedDuplicate(v)

AgreeAt(d) == \A y : Held(y) => Encoded[d][y] = Materialized[d][y]

LEMMA AgreeBelow ==
    ASSUME DocAssumption, HeapAssumption, DepthAssumption, TableInv, PlainDetached, Undisturbed,
           NEW d \in 0..Depth, d > 0 => AgreeAt(d - 1)
    PROVE  AgreeAt(d)
<1>0. EncodeEqs /\ MaterializeEqs
  BY EncodeNow, MaterializeNow
<1>1. ASSUME NEW y, Held(y), y \notin View
      PROVE  Encoded[d][y] = Materialized[d][y]
  <2>1. y \in Thing /\ y \in Source
    BY <1>1 DEF Held, Entry, Thing, Val, Source
  <2>2. Encoded[d][y] = Text[d][y]
    BY <1>0, <2>1 DEF EncodeEqs, EncodesSource
  <2>3. Materialized[d][y] = Text[d][y]
    BY <1>0, <2>1 DEF MaterializeEqs, MaterializesSource
  <2>4. QED
    BY <2>2, <2>3
<1>2. ASSUME NEW v \in View, Made(v)
      PROVE  Encoded[d][v] = Materialized[d][v]
  <2>0. v \in Thing
    BY DEF Thing, Val
  <2>1. CASE d = 0
    <3>1. Encoded[d][v] = Deep
      BY <1>0, <2>0, <2>1 DEF EncodeEqs, EncodesDeep
    <3>2. Materialized[d][v] = Deep
      BY <1>0, <2>0, <2>1 DEF MaterializeEqs, MaterializesDeep
    <3>3. QED
      BY <3>1, <3>2
  <2> SUFFICES ASSUME d > 0
               PROVE  Encoded[d][v] = Materialized[d][v]
    BY <2>1
  <2>2. AgreeAt(d - 1) /\ d - 1 \in 0..Depth
    BY DEF DepthAssumption
  <2>3. CASE meta[v] = "plain"
    <3>1. \A i \in DOMAIN PlainItems(v) :
             Encoded[d - 1][PlainItems(v)[i]] = Materialized[d - 1][PlainItems(v)[i]]
      BY <2>2, <2>3, PlainHeld DEF AgreeAt
    <3>2. /\ Encoded[d][v] = JArray([i \in DOMAIN PlainItems(v) |-> Encoded[d - 1][PlainItems(v)[i]]])
          /\ Materialized[d][v] =
                JArray([i \in DOMAIN PlainItems(v) |-> Materialized[d - 1][PlainItems(v)[i]]])
      BY <1>0, <2>0, <2>3 DEF EncodeEqs, MaterializeEqs, EncodesPlain, MaterializesPlain
    <3>3. [i \in DOMAIN PlainItems(v) |-> Encoded[d - 1][PlainItems(v)[i]]] =
             [i \in DOMAIN PlainItems(v) |-> Materialized[d - 1][PlainItems(v)[i]]]
      BY <3>1, Zenon
    <3>4. QED
      BY <3>2, <3>3
  <2>4. CASE meta[v] = "object" /\ ~dirty[v]
    <3> DEFINE n == node[v]
    <3>1. n \in Node /\ Kind[n] = "object"
      BY <2>4, ObjectNode DEF TableInv, IInv
    <3>2. Encoded[d][v] = JObject([k \in Key |-> IF HasKey(n, k) THEN Text[d - 1][LastItem(n, k)] ELSE Absent])
      <4>1. Encoded[d][v] = Text[d][n]
        BY <1>0, <2>0, <2>4 DEF EncodeEqs, EncodesClean
      <4>2. QED
        BY <4>1, <3>1, TextNow
    <3>3. Materialized[d][v] = JObject([k \in Key |->
             IF MaterializedField(v, k) = Nil THEN Absent
             ELSE Materialized[d - 1][MaterializedField(v, k)]])
      BY <1>0, <2>0, <2>4 DEF MaterializeEqs, MaterializesObject
    <3>4. ASSUME NEW k \in Key
          PROVE  (IF HasKey(n, k) THEN Text[d - 1][LastItem(n, k)] ELSE Absent) =
                 (IF MaterializedField(v, k) = Nil THEN Absent
                  ELSE Materialized[d - 1][MaterializedField(v, k)])
      <4>1. /\ ~HasKey(n, k) => MaterializedField(v, k) = Nil
            /\ HasKey(n, k) =>
                 /\ MaterializedField(v, k) # Nil /\ Held(MaterializedField(v, k))
                 /\ LastItem(n, k) \in Source
                 /\ StandsFor(MaterializedField(v, k), LastItem(n, k))
        BY <2>4, CleanField DEF Undisturbed
      <4>2. HasKey(n, k) =>
               Encoded[d - 1][MaterializedField(v, k)] = Text[d - 1][LastItem(n, k)]
        BY <1>0, <2>2, <4>1, StandsText
      <4>3. QED
        BY <2>2, <4>1, <4>2 DEF AgreeAt
    <3> HIDE DEF n
    <3>5. [k \in Key |-> IF HasKey(n, k) THEN Text[d - 1][LastItem(n, k)] ELSE Absent] =
          [k \in Key |-> IF MaterializedField(v, k) = Nil THEN Absent
                         ELSE Materialized[d - 1][MaterializedField(v, k)]]
      BY <3>4, Zenon
    <3>6. QED
      BY <3>2, <3>3, <3>5
  <2>5. CASE meta[v] = "array" /\ ~dirty[v]
    <3> DEFINE n == node[v]
    <3>1. n \in Node /\ Kind[n] # "object"
      BY <2>5 DEF TableInv, IInv, HeapInv, HeapTypeOK, KindOK, Lazy
    <3>2. Encoded[d][v] = JArray([i \in DOMAIN Item[n] |-> Text[d - 1][Item[n][i]]])
      <4>1. Encoded[d][v] = Text[d][n]
        BY <1>0, <2>0, <2>5 DEF EncodeEqs, EncodesClean
      <4>2. QED
        BY <4>1, <3>1, TextNow
    <3>3. Materialized[d][v] = JArray([i \in DOMAIN Item[n] |-> Materialized[d - 1][ElementAt(v, i)]])
      BY <1>0, <2>0, <2>5 DEF MaterializeEqs, MaterializesArray
    <3>4. ASSUME NEW i \in DOMAIN Item[n]
          PROVE  Text[d - 1][Item[n][i]] = Materialized[d - 1][ElementAt(v, i)]
      <4>1. Held(ElementAt(v, i)) /\ Item[n][i] \in Source
        BY <2>5, <3>4, ElementHeld
      <4>2. StandsFor(ElementAt(v, i), Item[n][i])
        BY <2>5, <3>4, CleanElement DEF Undisturbed
      <4>3. Encoded[d - 1][ElementAt(v, i)] = Text[d - 1][Item[n][i]]
        BY <1>0, <2>2, <4>1, <4>2, StandsText
      <4>4. QED
        BY <2>2, <4>1, <4>3 DEF AgreeAt
    <3> HIDE DEF n
    <3>5. [i \in DOMAIN Item[n] |-> Text[d - 1][Item[n][i]]] =
             [i \in DOMAIN Item[n] |-> Materialized[d - 1][ElementAt(v, i)]]
      BY <3>4, Zenon
    <3>6. QED
      BY <3>2, <3>3, <3>5
  <2>6. CASE meta[v] = "object" /\ dirty[v]
    <3>1. ASSUME NEW k \in Key
          PROVE  /\ MaterializedField(v, k) = OrderedField(v, k)
                 /\ OrderedField(v, k) # Nil =>
                       Encoded[d - 1][OrderedField(v, k)] = Materialized[d - 1][OrderedField(v, k)]
      <4>1. MaterializedField(v, k) = OrderedField(v, k)
        BY <2>6 DEF MaterializedField
      <4>2. OrderedField(v, k) # Nil => Held(OrderedField(v, k))
        BY <2>6, OrderedHeld
      <4>3. QED
        BY <2>2, <4>1, <4>2 DEF AgreeAt
    <3>2. /\ Encoded[d][v] = JObject([k \in Key |->
                IF OrderedField(v, k) = Nil THEN Absent ELSE Encoded[d - 1][OrderedField(v, k)]])
          /\ Materialized[d][v] = JObject([k \in Key |->
                IF MaterializedField(v, k) = Nil THEN Absent
                ELSE Materialized[d - 1][MaterializedField(v, k)]])
      BY <1>0, <2>0, <2>6 DEF EncodeEqs, MaterializeEqs, EncodesObject, MaterializesObject
    <3>3. \A k \in Key :
             (IF OrderedField(v, k) = Nil THEN Absent ELSE Encoded[d - 1][OrderedField(v, k)]) =
             (IF MaterializedField(v, k) = Nil THEN Absent
              ELSE Materialized[d - 1][MaterializedField(v, k)])
      BY <3>1
    <3>4. [k \in Key |->
              IF OrderedField(v, k) = Nil THEN Absent ELSE Encoded[d - 1][OrderedField(v, k)]] =
          [k \in Key |-> IF MaterializedField(v, k) = Nil THEN Absent
                         ELSE Materialized[d - 1][MaterializedField(v, k)]]
      BY <3>3, Zenon
    <3>5. QED
      BY <3>2, <3>4
  <2>7. CASE meta[v] = "array" /\ dirty[v]
    <3>1. \A i \in DOMAIN Item[node[v]] :
             Encoded[d - 1][ElementAt(v, i)] = Materialized[d - 1][ElementAt(v, i)]
      BY <2>2, <2>7, ElementHeld DEF AgreeAt
    <3>2. /\ Encoded[d][v] = JArray([i \in DOMAIN Item[node[v]] |-> Encoded[d - 1][ElementAt(v, i)]])
          /\ Materialized[d][v] =
                JArray([i \in DOMAIN Item[node[v]] |-> Materialized[d - 1][ElementAt(v, i)]])
      BY <1>0, <2>0, <2>7 DEF EncodeEqs, MaterializeEqs, EncodesArray, MaterializesArray
    <3>3. [i \in DOMAIN Item[node[v]] |-> Encoded[d - 1][ElementAt(v, i)]] =
          [i \in DOMAIN Item[node[v]] |-> Materialized[d - 1][ElementAt(v, i)]]
      BY <3>1, Zenon
    <3>4. QED
      BY <3>2, <3>3
  <2>8. meta[v] \in {"object", "array", "plain"}
    BY <1>2 DEF Made, TableInv, IInv, HeapInv, HeapTypeOK
  <2>9. QED
    BY <2>3, <2>4, <2>5, <2>6, <2>7, <2>8 DEF HeapTypeOK
<1>3. QED
  BY <1>1, <1>2 DEF AgreeAt, Held

LEMMA AgreeEverywhere ==
    ASSUME DocAssumption, HeapAssumption, DepthAssumption, TableInv, PlainDetached, Undisturbed
    PROVE  AgreeAt(Depth)
<1> DEFINE S == {d \in 0..Depth : AgreeAt(d)}
<1>1. 0 \in S
  <2>1. 0 \in 0..Depth /\ ~(0 > 0)
    BY DEF DepthAssumption
  <2>2. AgreeAt(0)
    BY <2>1, AgreeBelow
  <2>3. QED
    BY <2>1, <2>2
<1>2. ASSUME NEW m \in S, m < Depth
      PROVE  m + 1 \in S
  <2>1. m + 1 \in 0..Depth /\ (m + 1) - 1 = m
    BY <1>2 DEF DepthAssumption
  <2>2. AgreeAt((m + 1) - 1)
    BY <2>1
  <2>3. AgreeAt(m + 1)
    BY <2>1, <2>2, AgreeBelow
  <2>4. QED
    BY <2>1, <2>3
<1>3. S = 0..Depth
  <2>1. S \subseteq 0..Depth
    OBVIOUS
  <2> HIDE DEF S
  <2>2. QED
    BY <2>1, <1>1, <1>2, Climb DEF DepthAssumption
<1>4. Depth \in 0..Depth
  BY DEF DepthAssumption
<1>5. QED
  BY <1>3, <1>4

\* encode and materialize give one value for every table, whatever was read,
\* iterated and written before, outside the two states of OverwrittenSlot and
\* CachedDuplicate: the source bytes encode copies (encode_proxy's fast path) say
\* what a walk of materialize_plain finds.
THEOREM EncodeAgrees == Spec => []EncodeMatchesMaterialize
<1>1. DocAssumption /\ HeapAssumption /\ DepthAssumption
  BY DocAssumption, HeapAssumption, DepthAssumption
<1>2. TableInv /\ PlainDetached => EncodeMatchesMaterialize
  BY <1>1, AgreeEverywhere DEF EncodeMatchesMaterialize, Undisturbed, AgreeAt, Held, Entry, Val
<1>3. IInv /\ OrderInv /\ CacheOK /\ LinksOK => TableInv
  BY DEF TableInv
<1>4. QED
  BY <1>2, <1>3, InvariantHolds, OrderHolds, CacheHolds, LinksHolds, DetachedHolds, PTL

-----------------------------------------------------------------------------
(* Reads change nothing that encode returns.                                *)

\* What the order state of an object says of a key, made or to be made.
OrderedAll ==
    \A v \in View, k \in Key : meta[v] = "object" =>
        OrderedField(v, k) = IF k \in ToSet(KeysAt(node[v], built[v], keys[v]))
                             THEN FieldAt(node[v], built[v], values[v], cache[v], k) ELSE Nil

LEMMA OrderedNow == TableInv => OrderedAll
<1>0. DocAssumption /\ HeapAssumption
  BY DocAssumption, HeapAssumption
<1> SUFFICES ASSUME TableInv, NEW v \in View, NEW k \in Key, meta[v] = "object"
             PROVE  OrderedField(v, k) = IF k \in ToSet(KeysAt(node[v], built[v], keys[v]))
                                         THEN FieldAt(node[v], built[v], values[v], cache[v], k) ELSE Nil
  BY DEF OrderedAll
<1>1. CASE built[v]
  <2>1. k \in ToSet(keys[v]) <=> values[v][k] # Nil
    BY <1>1 DEF TableInv, OrderInv, OrderAgrees
  <2>2. QED
    BY <1>1, <2>1 DEF OrderedField, FieldAt, KeysAt
<1>2. CASE ~built[v]
  <2>1. node[v] \in Node /\ Kind[node[v]] = "object"
    BY <1>0, ObjectNode DEF TableInv, IInv
  <2>2. ToSet(FirstOrder(node[v])) = {q \in Key : HasKey(node[v], q)}
    BY <1>0, <2>1, FirstOrderFacts
  <2>3. k \in ToSet(KeysAt(node[v], built[v], keys[v])) <=> HasKey(node[v], k)
    BY <1>2, <2>2 DEF KeysAt
  <2>4. OrderedField(v, k) = IF HasKey(node[v], k)
                             THEN FieldAt(node[v], FALSE, values[v], cache[v], k) ELSE Nil
    BY <1>0, <1>2, OrderedHeld
  <2>5. built[v] = FALSE
    BY <1>2 DEF TableInv, IInv, HeapInv, HeapTypeOK
  <2>6. QED
    BY <2>3, <2>4, <2>5
<1>3. QED
  BY <1>1, <1>2

LEMMA OrderedThen == TableInv' => OrderedAll'
BY OrderedNow, PTL

StableAt(d) == \A y : Held(y) => Encoded'[d][y] = Encoded[d][y]

\* A container that came to light reads as it did before.
LEMMA BecameText ==
    ASSUME DocAssumption, HeapAssumption, DepthAssumption, TableInv, NEW S, AllocMove(S, {}),
           UNCHANGED dirty, NEW d \in 0..Depth, StableAt(d), NEW v, NEW x, NEW y, Held(x), Became(S, v, x, y)
    PROVE  Encoded'[d][y] = Encoded[d][x]
<1>0. EncodeEqs /\ EncodeEqs'
  BY EncodeNow, EncodeThen
<1>1. CASE y = x
  BY <1>1 DEF StableAt
<1>2. CASE x \in Node /\ <<v, x>> \in S /\ y = Names(S)[<<v, x>>]
  <2> DEFINE s == <<v, x>>
  <2>1. s \in S /\ s[2] = x /\ y = Names(S)[s]
    BY <1>2
  <2> HIDE DEF s
  <2>2. y \in View /\ meta[y] = "free" /\ meta'[y] = Kind[x] /\ node'[y] = x
    BY <2>1, AllocFacts DEF TableInv, IInv
  <2>3. ~dirty'[y]
    BY <2>2 DEF TableInv, IInv, HeapInv, HeapTypeOK
  <2>4. meta'[y] # "plain"
    BY <1>2, <2>2 DEF DocAssumption
  <2>5. y \in Thing /\ x \in Thing /\ x \in Source
    BY <1>2, <2>2 DEF Thing, Val, Source
  <2>6. Encoded[d][x] = Text[d][x]
    BY <1>0, <2>5 DEF EncodeEqs, EncodesSource
  <2>7. Encoded'[d][y] = Text[d][x]
    <3>1. CASE d = 0
      <4>1. Encoded'[d][y] = Deep
        BY <1>0, <2>2, <2>5, <3>1 DEF EncodeEqs, EncodesDeep
      <4>2. QED
        BY <1>2, <3>1, <4>1, TextNow
    <3>2. CASE d > 0
      BY <1>0, <2>2, <2>3, <2>4, <2>5, <3>2 DEF EncodeEqs, EncodesClean
    <3>3. QED
      BY <3>1, <3>2
  <2>8. QED
    BY <2>6, <2>7
<1>3. QED
  BY <1>1, <1>2 DEF Became

\* The keys of an object are those it has a value for.
KeysValued ==
    \A v \in View, k \in Key : meta[v] = "object" =>
        (k \in ToSet(KeysAt(node[v], built[v], keys[v])) <=> OrderedField(v, k) # Nil)

LEMMA KeysNow == TableInv => KeysValued
<1>0. DocAssumption /\ HeapAssumption
  BY DocAssumption, HeapAssumption
<1> SUFFICES ASSUME TableInv, NEW v \in View, NEW k \in Key, meta[v] = "object"
             PROVE  k \in ToSet(KeysAt(node[v], built[v], keys[v])) <=> OrderedField(v, k) # Nil
  BY DEF KeysValued
<1> DEFINE K == KeysAt(node[v], built[v], keys[v])
           g == Fields(node[v], built[v], values[v], cache[v])
<1>1. \A q \in ToSet(K) : g[q] \in Entry
  <2>1. K = KeysAt(node[v], built[v], keys[v]) /\ g = Fields(node[v], built[v], values[v], cache[v])
    OBVIOUS
  <2> HIDE DEF K, g
  <2>2. OwnFields(K, g)
    BY <1>0, <2>1, FieldFacts
  <2>3. QED
    BY <2>2 DEF OwnFields
<1>2. OrderedField(v, k) = IF k \in ToSet(K) THEN g[k] ELSE Nil
  BY OrderedNow DEF OrderedAll, Fields
<1>3. Nil \notin Entry
  BY <1>0 DEF Entry, Val, HeapAssumption
<1>4. QED
  BY <1>1, <1>2, <1>3

LEMMA KeysThen == TableInv' => KeysValued'
BY KeysNow, PTL

\* A step that only reads: views are made, order state is built, and what is
\* remembered stands for what was there.
PureMove(S) == AllocMove(S, {}) /\ ReadMove(S) /\ UNCHANGED dirty

LEMMA StableBelow ==
    ASSUME DocAssumption, HeapAssumption, DepthAssumption, TableInv, TableInv', NEW S, PureMove(S),
           NEW d \in 0..Depth, d > 0 => StableAt(d - 1)
    PROVE  StableAt(d)
<1>0. /\ EncodeEqs /\ EncodeEqs' /\ OrderedAll /\ OrderedAll'
      /\ AllocMove(S, {}) /\ ReadMove(S) /\ UNCHANGED dirty
  BY EncodeNow, EncodeThen, OrderedNow, OrderedThen DEF PureMove
<1>1. ASSUME NEW y, Held(y), y \notin View
      PROVE  Encoded'[d][y] = Encoded[d][y]
  <2>1. y \in Thing /\ y \in Source
    BY <1>1 DEF Held, Entry, Thing, Val, Source
  <2>2. Encoded[d][y] = Text[d][y]
    BY <1>0, <2>1 DEF EncodeEqs, EncodesSource
  <2>3. Encoded'[d][y] = Text[d][y]
    BY <1>0, <2>1 DEF EncodeEqs, EncodesSource
  <2>4. QED
    BY <2>2, <2>3
<1>2. ASSUME NEW v \in View, Made(v)
      PROVE  Encoded'[d][v] = Encoded[d][v]
  <2>0. v \in Thing /\ meta'[v] = meta[v] /\ node'[v] = node[v] /\ dirty'[v] = dirty[v]
    <3>1. meta[v] # "free"
      BY <1>2 DEF Made
    <3>2. meta'[v] = meta[v] /\ node'[v] = node[v]
      BY <1>0, <3>1, AllocFacts DEF TableInv, IInv
    <3>3. QED
      BY <1>0, <3>2 DEF Thing, Val
  <2>1. CASE d = 0
    <3>1. Encoded[d][v] = Deep
      BY <1>0, <2>0, <2>1 DEF EncodeEqs, EncodesDeep
    <3>2. Encoded'[d][v] = Deep
      BY <1>0, <2>0, <2>1 DEF EncodeEqs, EncodesDeep
    <3>3. QED
      BY <3>1, <3>2
  <2> SUFFICES ASSUME d > 0
               PROVE  Encoded'[d][v] = Encoded[d][v]
    BY <2>1
  <2>2. StableAt(d - 1) /\ d - 1 \in 0..Depth
    BY DEF DepthAssumption
  <2>3. CASE meta[v] = "plain"
    <3> DEFINE q == PlainItems(v)
    <3>1. q = PlainItems(v)'
      <4>1. slots'[v] = slots[v]
        BY <1>0, <2>3 DEF ReadMove
      <4>2. QED
        BY <2>0, <2>3, <4>1 DEF PlainItems, ArrayLen
    <3>2. Encoded[d][v] = JArray([i \in DOMAIN q |-> Encoded[d - 1][q[i]]])
      BY <1>0, <2>0, <2>3 DEF EncodeEqs, EncodesPlain
    <3>3. Encoded'[d][v] = JArray([i \in DOMAIN PlainItems(v)' |-> Encoded'[d - 1][PlainItems(v)'[i]]])
      <4>1. EncodeEqs' /\ v \in Thing /\ meta'[v] = "plain"
        BY <1>0, <2>0, <2>3
      <4>2. QED
        BY <4>1 DEF EncodeEqs, PlainItems, ArrayLen, EncodesPlain
    <3>4. \A i \in DOMAIN q : Held(q[i])
      BY <2>3, PlainHeld
    <3> HIDE DEF q
    <3>5. \A i \in DOMAIN q : Encoded'[d - 1][q[i]] = Encoded[d - 1][q[i]]
      BY <2>2, <3>4 DEF StableAt
    <3>6. [i \in DOMAIN q |-> Encoded'[d - 1][q[i]]] = [i \in DOMAIN q |-> Encoded[d - 1][q[i]]]
      BY <3>5, Zenon
    <3>7. QED
      BY <3>1, <3>2, <3>3, <3>6
  <2>4. CASE meta[v] # "plain" /\ ~dirty[v]
    <3>1. Encoded[d][v] = Text[d][node[v]]
      BY <1>0, <2>0, <2>4 DEF EncodeEqs, EncodesClean
    <3>2. Encoded'[d][v] = Text[d][node[v]]
      <4>1. EncodeEqs' /\ v \in Thing /\ meta'[v] # "plain" /\ ~dirty'[v]
        BY <1>0, <2>0, <2>4
      <4>2. Encoded'[d][v] = Text[d][node'[v]]
        BY <4>1 DEF EncodeEqs, EncodesClean
      <4>3. QED
        BY <4>2, <2>0
    <3>3. QED
      BY <3>1, <3>2
  <2>5. CASE meta[v] = "object" /\ dirty[v]
    <3>1. Encoded[d][v] = JObject([k \in Key |->
             IF OrderedField(v, k) = Nil THEN Absent ELSE Encoded[d - 1][OrderedField(v, k)]])
      BY <1>0, <2>0, <2>5 DEF EncodeEqs, EncodesObject
    <3>2. Encoded'[d][v] = JObject([k \in Key |->
             IF OrderedField(v, k)' = Nil THEN Absent ELSE Encoded'[d - 1][OrderedField(v, k)']])
      <4>1. EncodeEqs' /\ v \in Thing /\ meta'[v] = "object" /\ dirty'[v]
        BY <1>0, <2>0, <2>5
      <4>2. QED
        BY <4>1 DEF EncodeEqs, OrderedField, BuiltValue, NeedsDecode, Decoded, EncodesObject
    <3>3. ASSUME NEW k \in Key
          PROVE  (IF OrderedField(v, k)' = Nil THEN Absent ELSE Encoded'[d - 1][OrderedField(v, k)']) =
                 (IF OrderedField(v, k) = Nil THEN Absent ELSE Encoded[d - 1][OrderedField(v, k)])
      <4> DEFINE K == KeysAt(node[v], built[v], keys[v])
                 x == FieldAt(node[v], built[v], values[v], cache[v], k)
                 y == FieldAt(node[v], built'[v], values'[v], cache'[v], k)
      <4>1. OrderedField(v, k) = IF k \in ToSet(K) THEN x ELSE Nil
        BY <1>0, <2>5 DEF OrderedAll
      <4>2. OrderedField(v, k)' = IF k \in ToSet(KeysAt(node[v], built'[v], keys'[v])) THEN y ELSE Nil
        BY <1>0, <2>0, <2>5 DEF OrderedAll
      <4>3. KeysAt(node[v], built'[v], keys'[v]) = K
        BY <1>0, <2>5 DEF ReadMove
      <4>4. k \in ToSet(K) => Became(S, v, x, y)
        BY <1>0, <2>5 DEF ReadMove
      <4>5. k \in ToSet(K) => OrderedField(v, k) # Nil /\ Held(OrderedField(v, k))
        BY <2>5, OrderedHeld, KeysNow DEF KeysValued
      <4>6. k \in ToSet(K) => OrderedField(v, k)' # Nil
        BY <2>0, <2>5, <4>3, KeysThen DEF KeysValued
      <4> HIDE DEF K, x, y
      <4>7. k \in ToSet(K) => Encoded'[d - 1][y] = Encoded[d - 1][x]
        BY <1>0, <2>2, <4>1, <4>4, <4>5, BecameText
      <4>8. QED
        BY <4>1, <4>2, <4>3, <4>5, <4>6, <4>7
    <3>4. [k \in Key |->
             IF OrderedField(v, k)' = Nil THEN Absent ELSE Encoded'[d - 1][OrderedField(v, k)']] =
          [k \in Key |->
             IF OrderedField(v, k) = Nil THEN Absent ELSE Encoded[d - 1][OrderedField(v, k)]]
      BY <3>3, Zenon
    <3>5. QED
      BY <3>1, <3>2, <3>4
  <2>6. CASE meta[v] = "array" /\ dirty[v]
    <3> DEFINE D == DOMAIN Item[node[v]]
    <3>1. Encoded[d][v] = JArray([i \in D |-> Encoded[d - 1][ElementAt(v, i)]])
      BY <1>0, <2>0, <2>6 DEF EncodeEqs, EncodesArray
    <3>2. Encoded'[d][v] = JArray([i \in D |-> Encoded'[d - 1][ElementAt(v, i)']])
      <4>1. EncodeEqs' /\ v \in Thing /\ meta'[v] = "array" /\ dirty'[v]
        BY <1>0, <2>0, <2>6
      <4>2. Encoded'[d][v] = JArray([i \in DOMAIN Item[node'[v]] |-> Encoded'[d - 1][ElementAt(v, i)']])
        BY <4>1 DEF EncodeEqs, ElementAt, EncodesArray
      <4>3. QED
        BY <4>2, <2>0
    <3>3. ASSUME NEW i \in D
          PROVE  Encoded'[d - 1][ElementAt(v, i)'] = Encoded[d - 1][ElementAt(v, i)]
      <4>1. Held(ElementAt(v, i))
        BY <2>6, <3>3, ElementHeld
      <4>2. \/ slots'[v][i] = slots[v][i]
            \/ /\ slots[v][i] = Nil /\ slots'[v][i] # Nil
               /\ Became(S, v, Item[node[v]][i], slots'[v][i])
        BY <1>0, <2>6, <3>3 DEF ReadMove
      <4>3. CASE slots'[v][i] = slots[v][i]
        <5>1. ElementAt(v, i)' = ElementAt(v, i)
          BY <2>0, <4>3 DEF ElementAt
        <5>2. QED
          BY <2>2, <4>1, <5>1 DEF StableAt
      <4>4. CASE /\ slots[v][i] = Nil /\ slots'[v][i] # Nil
                 /\ Became(S, v, Item[node[v]][i], slots'[v][i])
        <5>1. ElementAt(v, i)' = slots'[v][i] /\ ElementAt(v, i) = Item[node[v]][i]
          BY <2>0, <4>4 DEF ElementAt
        <5> DEFINE x == ElementAt(v, i)
                   y == ElementAt(v, i)'
        <5>2. Held(x) /\ Became(S, v, x, y)
          BY <4>1, <4>4, <5>1
        <5> HIDE DEF x, y
        <5>3. Encoded'[d - 1][y] = Encoded[d - 1][x]
          BY <1>0, <2>2, <5>2, BecameText
        <5>4. QED
          BY <5>3 DEF x, y
      <4>5. QED
        BY <4>2, <4>3, <4>4
    <3>4. [i \in D |-> Encoded'[d - 1][ElementAt(v, i)']] = [i \in D |-> Encoded[d - 1][ElementAt(v, i)]]
      BY <3>3, Zenon
    <3>5. QED
      BY <3>1, <3>2, <3>4
  <2>7. meta[v] \in {"object", "array", "plain"}
    BY <1>2 DEF Made, TableInv, IInv, HeapInv, HeapTypeOK
  <2>8. QED
    BY <2>3, <2>4, <2>5, <2>6, <2>7
<1>3. QED
  BY <1>1, <1>2 DEF StableAt, Held

LEMMA StableEverywhere ==
    ASSUME DocAssumption, HeapAssumption, DepthAssumption, TableInv, TableInv', NEW S, PureMove(S)
    PROVE  StableAt(Depth)
<1> DEFINE D == {d \in 0..Depth : StableAt(d)}
<1>1. 0 \in D
  <2>1. 0 \in 0..Depth /\ ~(0 > 0)
    BY DEF DepthAssumption
  <2>2. StableAt(0)
    BY <2>1, StableBelow
  <2>3. QED
    BY <2>1, <2>2
<1>2. ASSUME NEW m \in D, m < Depth
      PROVE  m + 1 \in D
  <2>1. m + 1 \in 0..Depth /\ (m + 1) - 1 = m
    BY <1>2 DEF DepthAssumption
  <2>2. StableAt((m + 1) - 1)
    BY <2>1
  <2>3. StableAt(m + 1)
    BY <2>1, <2>2, StableBelow
  <2>4. QED
    BY <2>1, <2>3
<1>3. D = 0..Depth
  <2>1. D \subseteq 0..Depth
    OBVIOUS
  <2> HIDE DEF D
  <2>2. QED
    BY <2>1, <1>1, <1>2, Climb DEF DepthAssumption
<1>4. Depth \in 0..Depth
  BY DEF DepthAssumption
<1>5. QED
  BY <1>3, <1>4

\* Every step that assigns nothing only reads.
LEMMA PureStep ==
    ASSUME DocAssumption, HeapAssumption, TableInv, writes \in Nat, [Next]_vars, writes' = writes
    PROVE  \E S : PureMove(S)
<1>0. HeapInv /\ IInv /\ IterTypeOK
  BY DEF TableInv, IInv
<1>1. ASSUME UNCHANGED <<built, keys, values, slots, dirty>>,
             \E S : AllocMove(S, {}) /\ MarkMove({}) /\ CacheMove(S)
      PROVE  \E S : PureMove(S)
  <2>1. PICK S : AllocMove(S, {}) /\ CacheMove(S)
    BY <1>1
  <2>2. ChildKept
    BY ChildStep DEF TableInv
  <2>3. ReadMove(S)
    BY <1>1, <2>1, <2>2, CacheRead
  <2>4. QED
    BY <1>1, <2>1, <2>3 DEF PureMove
<1>2. ASSUME NEW v \in View, NEW k \in Key, ReadField(v, k)
      PROVE  \E S : PureMove(S)
  <2>1. UNCHANGED <<built, keys, values, slots, dirty>>
    BY <1>2 DEF ReadField
  <2>2. QED
    BY <1>0, <1>1, <1>2, <2>1, ReadFieldMove
<1>3. ASSUME NextSource
      PROVE  \E S : PureMove(S)
  <2>1. UNCHANGED <<built, keys, values, slots, dirty>>
    BY <1>3 DEF NextSource
  <2>2. QED
    BY <1>0, <1>1, <1>3, <2>1, NextSourceMove
<1>4. ASSUME NEW v \in View, NEW i \in Index, ReadIndex(v, i)
      PROVE  \E S : PureMove(S)
  <2> DEFINE S == {<<v, Item[node[v]][i]>>}
  <2>1. AllocMove(S, {})
    BY <1>0, <1>4, ReadIndexAlloc
  <2>2. UNCHANGED dirty
    BY <1>4 DEF ReadIndex
  <2>3. ReadMove(S)
    BY <1>4, IndexRead
  <2> HIDE DEF S
  <2>4. QED
    BY <2>1, <2>2, <2>3 DEF PureMove
<1>5. ASSUME UNCHANGED <<cache, built, keys, values, slots, dirty>>, NEW S, AllocMove(S, {})
      PROVE  \E R : PureMove(R)
  <2>1. ReadMove(S)
    BY <1>5 DEF ReadMove, Became
  <2>2. QED
    BY <1>5, <2>1 DEF PureMove
<1>6. ASSUME NextArray
      PROVE  \E S : PureMove(S)
  <2>1. UNCHANGED <<cache, built, keys, values, slots, dirty>>
    BY <1>6 DEF NextArray
  <2>2. PICK S : AllocMove(S, {})
    BY <1>0, <1>6, NextArrayAlloc
  <2>3. QED
    BY <1>5, <2>1, <2>2
<1>7. ASSUME NEW v \in View, Encode(v) \/ Materialize(v)
      PROVE  \E S : PureMove(S)
  <2>1. PICK T : T \subseteq View /\ (\A t \in T : meta[t] = "object" /\ ~built[t]) /\ BuildAll(T)
    BY <1>7 DEF Encode, Materialize, Unordered, Reach
  <2> DEFINE S == WalkSites(T)
  <2>2. AllocMove(S, {})
    BY <1>0, <2>1, BuildAllAlloc
  <2>3. ReadMove(S)
    BY <2>1, BuildRead
  <2>4. UNCHANGED dirty
    BY <2>1 DEF BuildAll
  <2> HIDE DEF S
  <2>5. QED
    BY <2>2, <2>3, <2>4 DEF PureMove
<1>8. ASSUME UNCHANGED <<meta, node, parent, dirty, cache, built, keys, values, slots>>
      PROVE  \E S : PureMove(S)
  <2>1. AllocMove({}, {})
    BY <1>0, <1>8, NoAlloc
  <2>2. QED
    BY <1>5, <1>8, <2>1
<1>9. ASSUME NEW v \in View, PairsStart(v) \/ IpairsStart(v)
      PROVE  \E S : PureMove(S)
  BY <1>8, <1>9 DEF PairsStart, IpairsStart
<1>10. ASSUME NextOrdered \/ NextArrayFails \/ IterEnd \/ UNCHANGED vars
       PROVE  \E S : PureMove(S)
  BY <1>8, <1>10 DEF NextOrdered, NextArrayFails, IterEnd, vars
<1>11. ASSUME NEW v \in View, NEW k \in Key, NEW x \in Val \cup {Nil}, WriteField(v, k, x)
       PROVE  FALSE
  BY <1>11 DEF WriteField
<1>12. ASSUME NEW v \in View, NEW i \in Index, NEW x \in Val \cup {Nil},
              WriteIndexRaw(v, i, x) \/ WriteIndex(v, i, x)
       PROVE  FALSE
  <2>1. ~WriteIndexRaw(v, i, x)
    BY DEF WriteIndexRaw
  <2>2. ~WriteIndex(v, i, x)
    BY DEF WriteIndex
  <2>3. QED
    BY <1>12, <2>1, <2>2
<1>13. QED
  BY <1>2, <1>3, <1>4, <1>6, <1>7, <1>9, <1>10, <1>11, <1>12 DEF Next

\* Reads, loops, encode and materialize change what encode returns for no table:
\* the views wrap_child makes and the order state ensure_object_order_state builds
\* on demand say what the source bytes said in their place.
THEOREM ReadsAreInvisible == Spec => ReadsArePure
<1>1. DocAssumption /\ HeapAssumption /\ DepthAssumption
  BY DocAssumption, HeapAssumption, DepthAssumption
<1>2. ASSUME TableInv, TableInv', Counted, [Next]_vars
      PROVE  [writes' = writes =>
                 \A v \in View : Made(v) => (Encoded[Depth][v])' = Encoded[Depth][v]]_vars
  <2> SUFFICES ASSUME writes' = writes, NEW v \in View, Made(v)
               PROVE  Encoded'[Depth][v] = Encoded[Depth][v]
    OBVIOUS
  <2>1. PICK S : PureMove(S)
    BY <1>1, <1>2, PureStep DEF Counted
  <2>2. StableAt(Depth)
    BY <1>1, <1>2, <2>1, StableEverywhere
  <2>3. QED
    BY <2>2 DEF StableAt, Held, Entry, Val
<1>3. IInv /\ OrderInv /\ CacheOK /\ LinksOK => TableInv
  BY DEF TableInv
<1>4. QED
  BY <1>2, <1>3, InvariantHolds, OrderHolds, CacheHolds, LinksHolds, WritesCounted, PTL
     DEF Spec, ReadsArePure

=============================================================================
