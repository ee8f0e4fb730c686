------------------------- MODULE LazyRefinementProofs -------------------------
(***************************************************************************)
(* Lazy tables are the ordered tables of the mutation tests, for every     *)
(* document and every history: the refinement of OrderedTables.            *)
(***************************************************************************)
EXTENDS LazyTableJson, LazyOrderProofs

-----------------------------------------------------------------------------
(* Links.                                                                   *)

Live(y) == y \in View => meta[y] # "free"

\* No cache entry, value or slot holds a table that was never made; an array view
\* has slots only where the source has elements; a plain sequence has no holes.
LinksOK ==
    /\ \A v \in View, k \in Key : Live(cache[v][k]) /\ Live(values[v][k])
    /\ \A v \in View, i \in Index : Live(slots[v][i])
    /\ \A v \in View, i \in Index : meta[v] = "free" => slots[v][i] = Nil
    /\ \A v \in View, i \in Index :
          meta[v] = "array" /\ slots[v][i] # Nil => i <= Len(Item[node[v]])
    /\ \A v \in View, i, j \in Index :
          meta[v] = "plain" /\ slots[v][j] # Nil /\ i <= j => slots[v][i] # Nil

\* What a step that allocates for the sites S and converts the arrays P leaves
\* behind.
LEMMA AllocFacts ==
    ASSUME DocAssumption, HeapAssumption, HeapInv, NEW S, NEW P, AllocMove(S, P)
    PROVE  /\ \A s \in S : /\ s[1] \in View /\ s[2] \in Node /\ s = <<s[1], s[2]>>
                           /\ meta[s[1]] # "free"
                           /\ Names(S)[s] \in View /\ meta[Names(S)[s]] = "free"
                           /\ meta'[Names(S)[s]] = Kind[s[2]] /\ node'[Names(S)[s]] = s[2]
           /\ \A s, r \in S : Names(S)[s] = Names(S)[r] => s = r
           /\ DOMAIN Names(S) = S
           /\ \A v \in View : meta[v] = "free" /\ meta'[v] # "free" => \E s \in S : Names(S)[s] = v
           /\ \A v \in View : meta[v] # "free" =>
                 meta'[v] = (IF v \in P THEN "plain" ELSE meta[v]) /\ node'[v] = node[v]
           /\ \A v \in View : meta'[v] = "free" => meta[v] = "free"
<1> DEFINE f == Names(S)
<1>1. /\ \A s \in S : /\ f[s] \in View /\ meta[f[s]] = "free" /\ New(f, f[s])
                      /\ WrapNode(f)[f[s]] = s[2]
                      /\ WrapParent(f)[f[s]] = s[1]
                      /\ WrapMeta(f)[f[s]] = Kind[s[2]]
      /\ \A v \in View : New(f, v) => \E s \in S : f[s] = v /\ meta[v] = "free"
      /\ \A v \in View : ~New(f, v) =>
            /\ WrapNode(f)[v] = node[v]
            /\ WrapParent(f)[v] = parent[v]
            /\ WrapMeta(f)[v] = meta[v]
  BY WrapEffect DEF HeapInv, AllocMove
<1>2. /\ f \in [S -> Free]
      /\ \A s, r \in S : f[s] = f[r] => s = r
  BY NamesFresh DEF AllocMove
<1>3. /\ node' = WrapNode(f)
      /\ meta' = [v \in View |-> IF v \in P THEN "plain" ELSE WrapMeta(f)[v]]
      /\ P \in SUBSET View /\ \A p \in P : meta[p] = "array"
  BY DEF AllocMove
<1> HIDE DEF f
<1>4. ASSUME NEW s \in S
      PROVE  s[1] \in View /\ s[2] \in Node /\ s = <<s[1], s[2]>> /\ meta[s[1]] # "free"
  <2>1. PICK p \in View, n \in Node : s = <<p, n>> /\ meta[p] # "free"
    BY DEF AllocMove, Sites
  <2>2. QED
    BY <2>1
<1>5. ASSUME NEW s \in S
      PROVE  meta'[f[s]] = Kind[s[2]] /\ node'[f[s]] = s[2] /\ meta'[f[s]] # "free"
  <2>1. f[s] \notin P
    BY <1>1, <1>3
  <2>2. Kind[s[2]] \in {"object", "array"}
    BY <1>4 DEF DocAssumption
  <2>3. QED
    BY <2>1, <2>2, <1>1, <1>3
<1>6. ASSUME NEW v \in View, meta[v] = "free", meta'[v] # "free"
      PROVE  \E s \in S : f[s] = v
  BY <1>6, <1>1, <1>3
<1>7. ASSUME NEW v \in View, meta[v] # "free"
      PROVE  meta'[v] = (IF v \in P THEN "plain" ELSE meta[v]) /\ node'[v] = node[v]
  BY <1>7, <1>1, <1>3
<1>8. ASSUME NEW v \in View, meta'[v] = "free"
      PROVE  meta[v] = "free"
  BY <1>7, <1>8, <1>3
<1>9. DOMAIN f = S
  BY <1>2
<1>10. QED
  BY <1>1, <1>2, <1>4, <1>5, <1>6, <1>7, <1>8, <1>9 DEF f

\* A link a step may leave: to a table that was there or one made in the step.
Linked(S, y) == Live(y) \/ \E s \in S : y = Names(S)[s]

LinkMove(S, P) ==
    /\ \A v \in View, k \in Key : Linked(S, cache'[v][k]) /\ Linked(S, values'[v][k])
    /\ \A v \in View, i \in Index : Linked(S, slots'[v][i])
    /\ \A v \in View : meta[v] = "free" => slots'[v] = slots[v]
    /\ \A v \in View, i \in Index :
          meta[v] = "array" /\ v \notin P /\ slots'[v][i] # Nil =>
             slots[v][i] # Nil \/ i <= Len(Item[node[v]])
    /\ \A v \in View, i, j \in Index :
          (meta[v] = "plain" \/ v \in P) /\ slots'[v][j] # Nil /\ i <= j => slots'[v][i] # Nil

LEMMA LinksMove ==
    ASSUME DocAssumption, HeapAssumption, HeapInv, LinksOK,
           NEW S, NEW P, AllocMove(S, P), LinkMove(S, P)
    PROVE  LinksOK'
<1>1. /\ \A s \in S : /\ s[2] \in Node
                      /\ Names(S)[s] \in View /\ meta[Names(S)[s]] = "free"
                      /\ meta'[Names(S)[s]] = Kind[s[2]] /\ node'[Names(S)[s]] = s[2]
      /\ \A v \in View : meta[v] = "free" /\ meta'[v] # "free" => \E s \in S : Names(S)[s] = v
      /\ \A v \in View : meta[v] # "free" =>
            meta'[v] = (IF v \in P THEN "plain" ELSE meta[v]) /\ node'[v] = node[v]
      /\ \A v \in View : meta'[v] = "free" => meta[v] = "free"
  BY AllocFacts
<1>2. ASSUME NEW y, Linked(S, y)
      PROVE  y \in View => meta'[y] # "free"
  <2>1. CASE Live(y)
    BY <2>1, <1>1 DEF Live
  <2>2. CASE \E s \in S : y = Names(S)[s]
    <3>1. PICK s \in S : y = Names(S)[s]
      BY <2>2
    <3>2. s[2] \in Node /\ meta'[Names(S)[s]] = Kind[s[2]]
      BY <1>1
    <3>3. Kind[s[2]] # "free"
      BY <3>2 DEF DocAssumption
    <3>4. QED
      BY <3>1, <3>2, <3>3
  <2>3. QED
    BY <2>1, <2>2, <1>2 DEF Linked
<1>3. ASSUME NEW v \in View, NEW i \in Index, meta'[v] = "free"
      PROVE  slots'[v][i] = Nil
  <2>1. meta[v] = "free" /\ slots'[v] = slots[v]
    BY <1>1, <1>3 DEF LinkMove
  <2>2. QED
    BY <2>1 DEF LinksOK
<1>4. ASSUME NEW v \in View, NEW i \in Index, meta'[v] = "array", slots'[v][i] # Nil
      PROVE  i <= Len(Item[node'[v]])
  <2>1. CASE meta[v] = "free"
    BY <2>1, <1>4 DEF LinksOK, LinkMove
  <2>2. CASE meta[v] # "free"
    <3>1. meta[v] = "array" /\ v \notin P /\ node'[v] = node[v]
      BY <2>2, <1>1, <1>4
    <3>2. QED
      BY <3>1, <1>4 DEF LinksOK, LinkMove
  <2>3. QED
    BY <2>1, <2>2
<1>5. ASSUME NEW v \in View, NEW i \in Index, NEW j \in Index,
             meta'[v] = "plain", slots'[v][j] # Nil, i <= j
      PROVE  slots'[v][i] # Nil
  <2>1. CASE meta[v] = "free"
    BY <2>1, <1>5 DEF LinksOK, LinkMove
  <2>2. CASE meta[v] # "free"
    BY <2>2, <1>1, <1>5 DEF LinkMove
  <2>3. QED
    BY <2>1, <2>2
<1>6. \A v \in View, k \in Key : (cache'[v][k] \in View => meta'[cache'[v][k]] # "free")
                                   /\ (values'[v][k] \in View => meta'[values'[v][k]] # "free")
  BY <1>2 DEF LinkMove
<1>7. \A v \in View, i \in Index : slots'[v][i] \in View => meta'[slots'[v][i]] # "free"
  BY <1>2 DEF LinkMove
<1>8. QED
  BY <1>3, <1>4, <1>5, <1>6, <1>7 DEF LinksOK, Live

-----------------------------------------------------------------------------
(* What each action allocates.                                              *)

\* No table is made.
LEMMA NoAlloc ==
    ASSUME HeapAssumption, HeapInv, UNCHANGED <<meta, node, parent>>
    PROVE  AllocMove({}, {})
<1> DEFINE f == Names({})
<1>1. Enough({})
  <2>1. [s \in {} |-> 0] \in Injection({}, Free)
    BY DEF Injection, IsInjective
  <2>2. QED
    BY <2>1 DEF Enough
<1>2. f \in [{} -> Free]
  BY <1>1, NamesFresh
<1>3. \A v : ~New(f, v)
  BY <1>2 DEF New
<1> HIDE DEF f
<1>4. /\ WrapNode(f) = node /\ WrapParent(f) = parent /\ WrapMeta(f) = meta
  BY <1>3 DEF WrapNode, WrapParent, WrapMeta, HeapInv, HeapTypeOK
<1>5. /\ parent = [v \in View |-> IF v \in {} THEN Nil ELSE parent[v]]
      /\ meta = [v \in View |-> IF v \in {} THEN "plain" ELSE meta[v]]
  BY DEF HeapInv, HeapTypeOK
<1>6. QED
  BY <1>1, <1>4, <1>5 DEF AllocMove, Sites, f

LEMMA ReadFieldAlloc ==
    ASSUME HeapInv, NEW v \in View, NEW k \in Key, ReadField(v, k)
    PROVE  LET S == {<<v, FirstItem(node[v], k)>>}
           IN  /\ AllocMove(S, {})
               /\ cache' = [cache EXCEPT ![v][k] = Names(S)[<<v, FirstItem(node[v], k)>>]]
<1> DEFINE S == {<<v, FirstItem(node[v], k)>>}
<1>1. /\ meta[v] = "object" /\ FirstItem(node[v], k) \in Node
      /\ Enough(S) /\ Wrap(Names(S))
      /\ cache' = [cache EXCEPT ![v][k] = Names(S)[<<v, FirstItem(node[v], k)>>]]
  BY DEF ReadField
<1>2. Sites(S)
  BY <1>1 DEF Sites
<1>3. QED
  BY <1>1, <1>2, WrapMove

LEMMA ReadIndexAlloc ==
    ASSUME HeapInv, NEW v \in View, NEW i \in Index, ReadIndex(v, i)
    PROVE  LET S == {<<v, Item[node[v]][i]>>}
           IN  /\ AllocMove(S, {})
               /\ slots' = [slots EXCEPT ![v][i] = Names(S)[<<v, Item[node[v]][i]>>]]
<1> DEFINE S == {<<v, Item[node[v]][i]>>}
<1>1. /\ meta[v] = "array" /\ Item[node[v]][i] \in Node
      /\ Enough(S) /\ Wrap(Names(S))
      /\ slots' = [slots EXCEPT ![v][i] = Names(S)[<<v, Item[node[v]][i]>>]]
  BY DEF ReadIndex
<1>2. Sites(S)
  BY <1>1 DEF Sites
<1>3. QED
  BY <1>1, <1>2, WrapMove

FieldSites(v, k) == IF built[v] THEN {} ELSE BuildSites(v, {k})

LEMMA WriteFieldAlloc ==
    ASSUME HeapInv, NEW v \in View, NEW k \in Key, NEW x \in Val \cup {Nil}, WriteField(v, k, x)
    PROVE  AllocMove(FieldSites(v, k), {})
<1> DEFINE S == FieldSites(v, k)
<1>1. meta[v] = "object" /\ Enough(S) /\ Wrap(Names(S))
  BY DEF WriteField, FieldSites
<1>2. Sites(S)
  BY <1>1, BuildSitesOK DEF HeapInv, Sites, FieldSites
<1>3. QED
  BY <1>1, <1>2, WrapMove

WalkSites(T) == UNION {BuildSites(t, {}) : t \in T}

LEMMA BuildAllAlloc ==
    ASSUME HeapInv, NEW T, T \subseteq View, \A t \in T : meta[t] = "object", BuildAll(T)
    PROVE  AllocMove(WalkSites(T), {})
<1> DEFINE S == WalkSites(T)
<1>1. Enough(S) /\ Wrap(Names(S))
  BY DEF BuildAll, WalkSites
<1>2. Sites(S)
  <2>1. \A t \in T : Sites(BuildSites(t, {}))
    BY BuildSitesOK DEF HeapInv
  <2>2. QED
    BY <2>1 DEF Sites, WalkSites
<1>3. QED
  BY <1>1, <1>2, WrapMove

IndexSites(v, i) ==
    {<<v, Item[node[v]][j]>> :
        j \in {h \in DOMAIN Item[node[v]] : h # i /\ Item[node[v]][h] \in Node /\ slots[v][h] = Nil}}
NewSlot(v, i, x, j) ==
    IF j = i THEN x
    ELSE IF slots[v][j] # Nil \/ j \notin DOMAIN Item[node[v]] THEN slots[v][j]
    ELSE Decoded(v, Item[node[v]][j], Names(IndexSites(v, i)))
NewSlots(v, i, x) == [j \in Index |-> NewSlot(v, i, x, j)]

LEMMA WriteIndexAlloc ==
    ASSUME HeapInv, NEW v \in View, NEW i \in Index, NEW x \in Val \cup {Nil}, WriteIndex(v, i, x)
    PROVE  /\ AllocMove(IndexSites(v, i), {v})
           /\ slots' = [slots EXCEPT ![v] = NewSlots(v, i, x)]
<1> DEFINE S == IndexSites(v, i)
<1>1. /\ meta[v] = "array" /\ Enough(S)
      /\ node' = WrapNode(Names(S))
      /\ parent' = [WrapParent(Names(S)) EXCEPT ![v] = Nil]
      /\ meta' = [WrapMeta(Names(S)) EXCEPT ![v] = "plain"]
      /\ slots' = [slots EXCEPT ![v] = NewSlots(v, i, x)]
  BY DEF WriteIndex, IndexSites, NewSlot, NewSlots
<1>2. Sites(S)
  BY <1>1 DEF Sites, IndexSites
<1>3. /\ parent' = [w \in View |-> IF w \in {v} THEN Nil ELSE WrapParent(Names(S))[w]]
      /\ meta' = [w \in View |-> IF w \in {v} THEN "plain" ELSE WrapMeta(Names(S))[w]]
  BY <1>1 DEF WrapParent, WrapMeta
<1>4. QED
  BY <1>1, <1>2, <1>3 DEF AllocMove

LEMMA NextArrayAlloc ==
    ASSUME HeapInv, IterTypeOK, NextArray
    PROVE  \E S : AllocMove(S, {})
<1> DEFINE x == Item[node[iter.view]][iter.pos + 1]
           S == IF x \in Node THEN {<<iter.view, x>>} ELSE {}
<1>1. iter.kind = "array" /\ meta[iter.view] = "array" /\ Enough(S) /\ Wrap(Names(S))
  BY DEF NextArray
<1>2. iter.view \in View
  BY <1>1 DEF IterTypeOK
<1>3. Sites(S)
  BY <1>1, <1>2 DEF Sites
<1>4. QED
  BY <1>1, <1>3, WrapMove

-----------------------------------------------------------------------------
(* Slots.                                                                   *)

Filled(sl) == Cardinality({i \in Index : sl[i] # Nil})

\* The border of a sequence that is filled up to m.
LEMMA FilledIs ==
    ASSUME HeapAssumption, NEW sl, NEW m \in 0..MaxLen,
           \A i \in Index : sl[i] # Nil <=> i <= m
    PROVE  Filled(sl) = m
<1>1. {i \in Index : sl[i] # Nil} = 1..m
  BY DEF Index, HeapAssumption
<1>2. Cardinality(1..m) = m
  BY FS_Interval
<1>3. QED
  BY <1>1, <1>2 DEF Filled

\* A sequence without holes is filled up to its border.
LEMMA PrefixCount ==
    ASSUME HeapAssumption, NEW sl,
           \A i, j \in Index : sl[j] # Nil /\ i <= j => sl[i] # Nil
    PROVE  /\ Filled(sl) \in 0..MaxLen
           /\ \A i \in Index : sl[i] # Nil <=> i <= Filled(sl)
<1> DEFINE U == {i \in Index : sl[i] # Nil}
<1>1. \E m \in 0..MaxLen : \A i \in Index : sl[i] # Nil <=> i <= m
  <2>1. CASE U = {}
    <3>1. 0 \in 0..MaxLen /\ \A i \in Index : ~(i <= 0)
      BY DEF Index, HeapAssumption
    <3>2. QED
      BY <2>1, <3>1
  <2>2. CASE U # {}
    <3>1. U \in SUBSET Nat /\ IsFiniteSet(U)
      <4>1. MaxLen \in Nat /\ U \in SUBSET (1..MaxLen)
        BY DEF Index, HeapAssumption
      <4> HIDE DEF U
      <4>2. IsFiniteSet(1..MaxLen)
        BY <4>1, FS_Interval
      <4>3. IsFiniteSet(U)
        BY <4>1, <4>2, FS_Subset
      <4>4. QED
        BY <4>1, <4>3
    <3>2. PICK m \in U : \A j \in U : j <= m
      <4> HIDE DEF U
      <4>1. QED
        BY <2>2, <3>1, EndsExist
    <3>3. m \in Index /\ sl[m] # Nil /\ m \in 0..MaxLen
      BY DEF Index, HeapAssumption
    <3>4. \A i \in Index : sl[i] # Nil <=> i <= m
      BY <3>2, <3>3
    <3>5. QED
      BY <3>3, <3>4
  <2>3. QED
    BY <2>1, <2>2
<1>2. PICK m \in 0..MaxLen : \A i \in Index : sl[i] # Nil <=> i <= m
  BY <1>1
<1>3. Filled(sl) = m
  BY <1>2, FilledIs
<1>4. QED
  BY <1>2, <1>3

\* A plain sequence is filled up to #v.
LEMMA PlainFacts ==
    ASSUME HeapAssumption, LinksOK, NEW v \in View, meta[v] = "plain"
    PROVE  /\ ArrayLen(v) = Filled(slots[v]) /\ ArrayLen(v) \in 0..MaxLen
           /\ \A i \in Index : slots[v][i] # Nil <=> i <= ArrayLen(v)
<1>1. ArrayLen(v) = Filled(slots[v])
  BY DEF ArrayLen, Filled
<1>2. \A i, j \in Index : slots[v][j] # Nil /\ i <= j => slots[v][i] # Nil
  BY DEF LinksOK
<1>3. QED
  BY <1>1, <1>2, PrefixCount

-----------------------------------------------------------------------------
(* The links after a step.                                                  *)

\* decode_cursor returns a scalar, a view it just made, or what is not a view.
LEMMA DecodedLink ==
    ASSUME HeapAssumption, NEW S, Enough(S), NEW p, NEW x \in Scalar \cup Node
    PROVE  Linked(S, Decoded(p, x, Names(S)))
<1>1. Names(S) \in [S -> Free]
  BY NamesFresh
<1>2. DOMAIN Names(S) = S
  BY <1>1
<1>3. x \notin View
  BY DEF HeapAssumption
<1>4. CASE x \in Node /\ <<p, x>> \in S
  BY <1>2, <1>4 DEF Decoded, Linked
<1>5. CASE ~(x \in Node /\ <<p, x>> \in S)
  BY <1>2, <1>3, <1>5 DEF Decoded, Linked, Live
<1>6. QED
  BY <1>4, <1>5

LEMMA BuiltLink ==
    ASSUME DocAssumption, HeapAssumption, HeapInv, LinksOK, NEW S, Enough(S),
           NEW v \in View, meta[v] = "object", NEW k \in Key
    PROVE  Linked(S, BuiltValue(v, k, Names(S)))
<1> DEFINE x == LastItem(node[v], k)
<1>1. CASE ~HasKey(node[v], k)
  <2>1. Nil \notin View
    BY DEF HeapAssumption
  <2>2. QED
    BY <1>1, <2>1 DEF BuiltValue, Linked, Live
<1>2. CASE HasKey(node[v], k)
  <2>1. x \in Scalar \cup Node
    BY <1>2, ObjectNode, PositionFacts
  <2>2. Linked(S, Decoded(v, x, Names(S)))
    BY <2>1, DecodedLink
  <2>3. Linked(S, cache[v][k])
    BY DEF LinksOK, Linked
  <2>4. QED
    BY <1>2, <2>2, <2>3 DEF BuiltValue
<1>3. QED
  BY <1>1, <1>2

\* A step that leaves the fields of every table alone.
LEMMA LinksQuiet ==
    ASSUME LinksOK, UNCHANGED <<meta, node, cache, values, slots>>
    PROVE  LinksOK'
BY DEF LinksOK, Live

\* An element read for the first time.
LEMMA SlotLinks ==
    ASSUME DocAssumption, HeapAssumption, IInv, LinksOK, UNCHANGED <<cache, values>>,
           NEW S, AllocMove(S, {}), NEW s \in S, NEW v \in View, NEW i \in Index,
           meta[v] = "array", i <= Len(Item[node[v]]),
           slots' = [slots EXCEPT ![v][i] = Names(S)[s]]
    PROVE  LinksOK'
<1>1. \A w \in View, j \in Index :
         slots'[w][j] = IF w = v /\ j = i THEN Names(S)[s] ELSE slots[w][j]
  BY DEF IInv, HeapInv, HeapTypeOK
<1>2. \A w \in View : w # v => slots'[w] = slots[w]
  BY DEF IInv, HeapInv, HeapTypeOK
<1>3. \A w \in View, j \in Index : Linked(S, slots'[w][j])
  BY <1>1 DEF Linked, LinksOK
<1>4. \A w \in View, k \in Key : Linked(S, cache'[w][k]) /\ Linked(S, values'[w][k])
  BY DEF Linked, LinksOK
<1>5. \A w \in View : meta[w] = "free" => slots'[w] = slots[w]
  BY <1>2
<1> DEFINE P == {}
<1>6. HeapInv /\ AllocMove(S, P)
  BY DEF IInv
<1>7. \A w \in View, j \in Index :
         meta[w] = "array" /\ w \notin P /\ slots'[w][j] # Nil =>
            slots[w][j] # Nil \/ j <= Len(Item[node[w]])
  BY <1>1
<1>8. ASSUME NEW w \in View, NEW h \in Index, NEW j \in Index,
             meta[w] = "plain" \/ w \in P, slots'[w][j] # Nil, h <= j
      PROVE  slots'[w][h] # Nil
  <2>1. meta[w] = "plain" /\ slots'[w] = slots[w]
    BY <1>2, <1>8
  <2>2. QED
    BY <2>1, <1>8 DEF LinksOK
<1> HIDE DEF P
<1>9. LinkMove(S, P)
  BY <1>3, <1>4, <1>5, <1>7, <1>8 DEF LinkMove
<1>10. QED
  BY <1>6, <1>9, LinksMove

LEMMA ReadIndexLinks ==
    ASSUME DocAssumption, HeapAssumption, IInv, LinksOK,
           NEW v \in View, NEW i \in Index, ReadIndex(v, i)
    PROVE  LinksOK'
<1> DEFINE site == <<v, Item[node[v]][i]>>
           S == {site}
<1>1. AllocMove(S, {}) /\ slots' = [slots EXCEPT ![v][i] = Names(S)[site]]
  BY ReadIndexAlloc DEF IInv
<1>2. UNCHANGED <<cache, values>> /\ meta[v] = "array" /\ i <= Len(Item[node[v]])
  BY DEF ReadIndex
<1>3. site \in S
  OBVIOUS
<1> HIDE DEF S, site
<1>4. QED
  BY <1>1, <1>2, <1>3, SlotLinks

\* Steps that change no slot and only what values of objects hold.
LEMMA ValuesLinks ==
    ASSUME DocAssumption, HeapAssumption, IInv, LinksOK, NEW S, AllocMove(S, {}),
           UNCHANGED slots,
           \A v \in View, k \in Key : Linked(S, cache'[v][k]) /\ Linked(S, values'[v][k])
    PROVE  LinksOK'
<1>1. \A w \in View, i \in Index : Linked(S, slots'[w][i])
  BY DEF Linked, LinksOK
<1>2. LinkMove(S, {})
  BY <1>1 DEF LinkMove, LinksOK
<1>3. QED
  BY <1>2, LinksMove DEF IInv

LEMMA ReadFieldLinks ==
    ASSUME DocAssumption, HeapAssumption, IInv, OrderInv, LinksOK,
           NEW v \in View, NEW k \in Key, ReadField(v, k)
    PROVE  LinksOK'
<1> DEFINE site == <<v, FirstItem(node[v], k)>>
           S == {site}
<1>1. AllocMove(S, {}) /\ cache' = [cache EXCEPT ![v][k] = Names(S)[site]]
  BY ReadFieldAlloc DEF IInv
<1>2. UNCHANGED <<values, slots>>
  BY DEF ReadField
<1>3. site \in S
  OBVIOUS
<1> HIDE DEF S, site
<1>4. ASSUME NEW w \in View, NEW q \in Key
      PROVE  Linked(S, cache'[w][q]) /\ Linked(S, values'[w][q])
  <2>1. cache'[w][q] = IF w = v /\ q = k THEN Names(S)[site] ELSE cache[w][q]
    BY <1>1 DEF IInv, HeapInv, HeapTypeOK
  <2>2. QED
    BY <2>1, <1>2, <1>3 DEF Linked, LinksOK
<1>5. QED
  BY <1>1, <1>2, <1>4, ValuesLinks

LEMMA WriteFieldLinks ==
    ASSUME DocAssumption, HeapAssumption, IInv, OrderInv, LinksOK,
           NEW v \in View, NEW k \in Key, NEW x \in Val \cup {Nil}, WriteField(v, k, x)
    PROVE  LinksOK'
<1> DEFINE S == FieldSites(v, k)
           vs == IF built[v] THEN values[v] ELSE BuiltValues(v, Names(S))
<1>1. AllocMove(S, {})
  BY WriteFieldAlloc DEF IInv
<1>2. /\ meta[v] = "object" /\ Enough(S)
      /\ values' = [values EXCEPT ![v] = [vs EXCEPT ![k] = x]]
      /\ UNCHANGED <<cache, slots>>
      /\ x \in View => meta[x] # "free"
  BY DEF WriteField, FieldSites
<1>3. DOMAIN vs = Key /\ \A q \in Key : Linked(S, vs[q])
  <2> HIDE DEF S
  <2>1. CASE built[v]
    BY <2>1 DEF LinksOK, Linked, OrderInv, OrderTypeOK
  <2>2. CASE ~built[v]
    <3>1. \A q \in Key : Linked(S, BuiltValue(v, q, Names(S)))
      BY <1>2, BuiltLink DEF IInv
    <3>2. QED
      BY <2>2, <3>1 DEF BuiltValues
  <2>3. QED
    BY <2>1, <2>2
<1> HIDE DEF S, vs
<1>4. ASSUME NEW w \in View, NEW q \in Key PROVE Linked(S, values'[w][q])
  <2>1. CASE w = v
    <3>1. values'[w] = [vs EXCEPT ![k] = x]
      BY <2>1, <1>2 DEF OrderInv, OrderTypeOK
    <3>2. values'[w][q] = IF q = k THEN x ELSE vs[q]
      BY <3>1, <1>3
    <3>3. Linked(S, x)
      BY <1>2 DEF Linked, Live
    <3>4. QED
      BY <3>2, <3>3, <1>3
  <2>2. CASE w # v
    BY <2>2, <1>2 DEF OrderInv, OrderTypeOK, LinksOK, Linked
  <2>3. QED
    BY <2>1, <2>2
<1>5. \A w \in View, q \in Key : Linked(S, cache'[w][q])
  BY <1>2 DEF LinksOK, Linked
<1>6. QED
  BY <1>1, <1>2, <1>4, <1>5, ValuesLinks

LEMMA BuildAllLinks ==
    ASSUME DocAssumption, HeapAssumption, IInv, LinksOK,
           NEW T, T \subseteq View, \A t \in T : meta[t] = "object", BuildAll(T)
    PROVE  LinksOK'
<1> DEFINE S == WalkSites(T)
<1>1. AllocMove(S, {})
  BY BuildAllAlloc DEF IInv
<1>2. /\ Enough(S)
      /\ values' = [v \in View |-> IF v \in T THEN BuiltValues(v, Names(S)) ELSE values[v]]
      /\ UNCHANGED <<cache, slots>>
  BY DEF BuildAll, WalkSites
<1> HIDE DEF S
<1>3. ASSUME NEW w \in View, NEW q \in Key PROVE Linked(S, values'[w][q])
  <2>1. CASE w \in T
    <3>1. Linked(S, BuiltValue(w, q, Names(S)))
      BY <2>1, <1>2, BuiltLink DEF IInv
    <3>2. QED
      BY <2>1, <3>1, <1>2 DEF BuiltValues
  <2>2. CASE w \notin T
    BY <2>2, <1>2 DEF LinksOK, Linked
  <2>3. QED
    BY <2>1, <2>2
<1>4. \A w \in View, q \in Key : Linked(S, cache'[w][q])
  BY <1>2 DEF LinksOK, Linked
<1>5. QED
  BY <1>1, <1>2, <1>3, <1>4, ValuesLinks

\* A step of a loop.
LEMMA LoopLinks ==
    ASSUME DocAssumption, HeapAssumption, IInv, LinksOK, NextSource \/ NextArray
    PROVE  LinksOK'
<1>1. CASE NextSource
  <2>1. PICK S : AllocMove(S, {}) /\ CacheMove(S)
    BY <1>1, NextSourceMove DEF IInv
  <2>2. UNCHANGED <<values, slots>>
    BY <1>1 DEF NextSource
  <2>3. ASSUME NEW w \in View, NEW q \in Key PROVE Linked(S, cache'[w][q])
    <3>1. Nil \notin View
      BY DEF HeapAssumption
    <3>2. cache'[w][q] = cache[w][q] \/ cache'[w][q] = Nil \/ \E s \in S : cache'[w][q] = Names(S)[s]
      <4>1. \/ cache'[w][q] = cache[w][q]
            \/ cache'[w][q] = Nil
            \/ /\ <<w, FirstItem(node[w], q)>> \in S
               /\ cache'[w][q] = Names(S)[<<w, FirstItem(node[w], q)>>]
        BY <2>1 DEF CacheMove
      <4> DEFINE s == <<w, FirstItem(node[w], q)>>
      <4> HIDE DEF s
      <4>2. \/ cache'[w][q] = cache[w][q]
            \/ cache'[w][q] = Nil
            \/ s \in S /\ cache'[w][q] = Names(S)[s]
        BY <4>1 DEF s
      <4>3. QED
        BY <4>2
    <3>3. QED
      BY <3>1, <3>2 DEF Linked, Live, LinksOK
  <2>4. \A w \in View, q \in Key : Linked(S, values'[w][q])
    BY <2>2 DEF LinksOK, Linked
  <2>5. QED
    BY <2>1, <2>2, <2>3, <2>4, ValuesLinks
<1>2. CASE NextArray
  <2>1. PICK S : AllocMove(S, {})
    BY <1>2, NextArrayAlloc DEF IInv
  <2>2. UNCHANGED <<values, slots, cache>>
    BY <1>2 DEF NextArray
  <2>3. \A w \in View, q \in Key : Linked(S, values'[w][q]) /\ Linked(S, cache'[w][q])
    BY <2>2 DEF LinksOK, Linked
  <2>4. QED
    BY <2>1, <2>2, <2>3, ValuesLinks
<1>3. QED
  BY <1>1, <1>2

\* An assignment that calls no metamethod leaves a plain sequence without holes.
LEMMA WriteIndexRawLinks ==
    ASSUME DocAssumption, HeapAssumption, IInv, LinksOK,
           NEW v \in View, NEW i \in Index, NEW x \in Val \cup {Nil}, WriteIndexRaw(v, i, x)
    PROVE  LinksOK'
<1> DEFINE sl == [slots[v] EXCEPT ![i] = x]
<1>1. /\ UNCHANGED <<meta, node, parent, cache, values>>
      /\ slots' = [slots EXCEPT ![v][i] = x]
      /\ meta[v] \in {"array", "plain"}
      /\ meta[v] = "array" => slots[v][i] # Nil
      /\ meta[v] = "plain" => i <= ArrayLen(v) + 1 /\ (x = Nil => i = ArrayLen(v))
      /\ x \in View => meta[x] # "free"
  BY DEF WriteIndexRaw
<1>2. AllocMove({}, {})
  BY <1>1, NoAlloc DEF IInv
<1>3. \A w \in View, j \in Index :
         slots'[w][j] = IF w = v /\ j = i THEN x ELSE slots[w][j]
  BY <1>1 DEF IInv, HeapInv, HeapTypeOK
<1>4. \A w \in View : w # v => slots'[w] = slots[w]
  BY <1>1 DEF IInv, HeapInv, HeapTypeOK
<1>5. \A w \in View, j \in Index : Linked({}, slots'[w][j])
  BY <1>1, <1>3 DEF Linked, Live, LinksOK
<1>6. \A w \in View, k \in Key : Linked({}, cache'[w][k]) /\ Linked({}, values'[w][k])
  BY <1>1 DEF Linked, LinksOK
<1>7. \A w \in View : meta[w] = "free" => slots'[w] = slots[w]
  BY <1>1, <1>4
<1>8. \A w \in View, j \in Index :
         meta[w] = "array" /\ slots'[w][j] # Nil => slots[w][j] # Nil \/ j <= Len(Item[node[w]])
  BY <1>1, <1>3
<1>9. ASSUME NEW w \in View, NEW h \in Index, NEW j \in Index,
             meta[w] = "plain", slots'[w][j] # Nil, h <= j
      PROVE  slots'[w][h] # Nil
  <2>1. CASE w # v
    BY <2>1, <1>4, <1>9 DEF LinksOK
  <2>2. CASE w = v
    <3> DEFINE l == ArrayLen(v)
    <3>1. l \in Nat /\ \A a \in Index : slots[v][a] # Nil <=> a <= l
      BY <2>2, <1>9, PlainFacts DEF HeapAssumption
    <3>2. i <= l + 1 /\ (x = Nil => i = l)
      BY <2>2, <1>1, <1>9
    <3> HIDE DEF l
    <3>3. h \in Nat /\ j \in Nat /\ i \in Nat
      BY DEF Index, HeapAssumption
    <3>4. CASE h = i
      <4>1. x # Nil
        <5> SUFFICES ASSUME x = Nil PROVE FALSE
          OBVIOUS
        <5>1. slots'[v][j] = IF j = i THEN Nil ELSE slots[v][j]
          BY <1>3
        <5>2. j # i /\ j <= l /\ i = l
          BY <5>1, <3>1, <3>2, <1>9, <2>2
        <5>3. QED
          BY <5>2, <3>1, <3>3, <3>4, <1>9
      <4>2. QED
        BY <4>1, <3>4, <2>2, <1>3
    <3>5. CASE h # i
      <4>1. h <= l
        <5>1. CASE j = i
          BY <5>1, <3>1, <3>2, <3>3, <3>5, <1>9
        <5>2. CASE j # i
          <6>1. slots[v][j] # Nil
            BY <5>2, <2>2, <1>3, <1>9
          <6>2. QED
            BY <6>1, <3>1, <3>3, <1>9
        <5>3. QED
          BY <5>1, <5>2
      <4>2. QED
        BY <4>1, <3>1, <3>5, <2>2, <1>3
    <3>6. QED
      BY <3>4, <3>5
  <2>3. QED
    BY <2>1, <2>2
<1>10. LinkMove({}, {})
  BY <1>5, <1>6, <1>7, <1>8, <1>9 DEF LinkMove
<1>11. QED
  BY <1>2, <1>10, LinksMove DEF IInv

\* What a decoded element is: the child the view remembers, a scalar of the source
\* or a fresh view of the container there.
NewElement(v, i, j, y) ==
    LET item == Item[node[v]]
        site == <<v, item[j]>>
    IN  /\ Linked(IndexSites(v, i), y)
        /\ j <= Len(item) => y # Nil
        /\ slots[v][j] # Nil \/ ~(j <= Len(item)) => y = slots[v][j]
        /\ slots[v][j] = Nil /\ j <= Len(item) =>
              IF item[j] \in Node
              THEN site \in IndexSites(v, i) /\ y = Names(IndexSites(v, i))[site]
              ELSE y = item[j]

LEMMA NewSlotFacts ==
    ASSUME DocAssumption, HeapAssumption, IInv, LinksOK,
           NEW v \in View, meta[v] = "array", NEW i \in Index, NEW x, Enough(IndexSites(v, i)),
           NEW j \in Index, j # i
    PROVE  NewElement(v, i, j, NewSlot(v, i, x, j))
<1> DEFINE S == IndexSites(v, i)
           item == Item[node[v]]
           y == NewSlot(v, i, x, j)
<1>1. item \in Seq(Scalar \cup Node) /\ DOMAIN item = 1..Len(item) /\ Len(item) \in Nat
  BY DEF IInv, HeapInv, HeapTypeOK, DocAssumption
<1>2. j \in Nat /\ j >= 1
  BY DEF Index, HeapAssumption
<1>3. j \in DOMAIN item <=> j <= Len(item)
  BY <1>1, <1>2
<1>4. Names(S) \in [S -> Free]
  BY NamesFresh
<1>5. DOMAIN Names(S) = S
  BY <1>4
<1>6. CASE slots[v][j] # Nil \/ ~(j <= Len(item))
  <2>1. y = slots[v][j]
    BY <1>3, <1>6 DEF NewSlot
  <2>2. Linked(S, y)
    BY <2>1 DEF Linked, LinksOK
  <2>3. j <= Len(item) => y # Nil
    BY <2>1, <1>6
  <2> HIDE DEF y
  <2>4. NewElement(v, i, j, y)
    BY <2>1, <2>2, <2>3, <1>6 DEF NewElement
  <2>5. QED
    BY <2>4 DEF y
<1>7. CASE slots[v][j] = Nil /\ j <= Len(item)
  <2>1. y = Decoded(v, item[j], Names(S))
    BY <1>3, <1>7 DEF NewSlot
  <2>2. item[j] \in Scalar \cup Node
    BY <1>1, <1>3, <1>7
  <2>3. Linked(S, y)
    BY <2>1, <2>2, DecodedLink
  <2>4. item[j] \in Node => <<v, item[j]>> \in S
    BY <1>3, <1>7 DEF IndexSites
  <2>5. IF item[j] \in Node THEN y = Names(S)[<<v, item[j]>>] ELSE y = item[j]
    BY <2>1, <2>4, <1>5 DEF Decoded
  <2>6. y # Nil
    <3>1. CASE item[j] \in Node
      <4>1. Names(S)[<<v, item[j]>>] \in Free
        BY <3>1, <2>4, <1>4
      <4>2. QED
        BY <3>1, <4>1, <2>5 DEF Free, HeapAssumption
    <3>2. CASE item[j] \notin Node
      BY <3>2, <2>2, <2>5 DEF HeapAssumption
    <3>3. QED
      BY <3>1, <3>2
  <2> HIDE DEF y
  <2>7. NewElement(v, i, j, y)
    BY <2>3, <2>4, <2>5, <2>6, <1>7 DEF NewElement
  <2>8. QED
    BY <2>7 DEF y
<1>8. QED
  BY <1>6, <1>7

LEMMA WriteIndexLinks ==
    ASSUME DocAssumption, HeapAssumption, IInv, LinksOK,
           NEW v \in View, NEW i \in Index, NEW x \in Val \cup {Nil}, WriteIndex(v, i, x)
    PROVE  LinksOK'
<1> DEFINE S == IndexSites(v, i)
           l == Len(Item[node[v]])
<1>1. AllocMove(S, {v}) /\ slots' = [slots EXCEPT ![v] = NewSlots(v, i, x)]
  <2>1. HeapInv
    BY DEF IInv
  <2>2. QED
    BY <2>1, WriteIndexAlloc
<1>2. /\ UNCHANGED <<cache, values>>
      /\ meta[v] = "array" /\ Enough(S)
      /\ i <= l + 1 /\ (x = Nil => i = l)
      /\ x \in View => meta[x] # "free"
  BY DEF WriteIndex, IndexSites, ArrayLen
<1>3. l \in Nat
  BY DEF IInv, HeapInv, HeapTypeOK, DocAssumption
<1>4. ASSUME NEW j \in Index, j # i
      PROVE  /\ Linked(S, NewSlot(v, i, x, j))
             /\ j <= l => NewSlot(v, i, x, j) # Nil
             /\ slots[v][j] # Nil \/ ~(j <= l) => NewSlot(v, i, x, j) = slots[v][j]
  <2>1. meta[v] = "array" /\ Enough(IndexSites(v, i))
    BY <1>2
  <2>2. NewElement(v, i, j, NewSlot(v, i, x, j))
    BY <2>1, <1>4, NewSlotFacts
  <2>3. QED
    BY <2>2 DEF NewElement
<1>5. NewSlot(v, i, x, i) = x
  BY DEF NewSlot
<1> HIDE DEF S
<1>6. /\ \A w \in View : w # v => slots'[w] = slots[w]
      /\ \A j \in Index : slots'[v][j] = NewSlot(v, i, x, j)
  BY <1>1 DEF IInv, HeapInv, HeapTypeOK, NewSlots
<1>7. \A w \in View, j \in Index : Linked(S, slots'[w][j])
  <2>1. Linked(S, x)
    BY <1>2 DEF Linked, Live
  <2>2. \A j \in Index : Linked(S, NewSlot(v, i, x, j))
    BY <2>1, <1>4, <1>5
  <2>3. \A w \in View : w # v => \A j \in Index : Linked(S, slots'[w][j])
    BY <1>6 DEF Linked, LinksOK
  <2>4. QED
    BY <2>2, <2>3, <1>6
<1>8. \A w \in View, k \in Key : Linked(S, cache'[w][k]) /\ Linked(S, values'[w][k])
  BY <1>2 DEF Linked, LinksOK
<1>9. ASSUME NEW w \in View, NEW h \in Index, NEW j \in Index,
             meta[w] = "plain" \/ w \in {v}, slots'[w][j] # Nil, h <= j
      PROVE  slots'[w][h] # Nil
  <2>1. CASE w # v
    BY <2>1, <1>6, <1>9 DEF LinksOK
  <2>2. CASE w = v
    <3> HIDE DEF l
    <3>1. h \in Nat /\ j \in Nat /\ i \in Nat
      BY DEF Index, HeapAssumption
    <3>2. j # i => j <= l
      <4> SUFFICES ASSUME j # i, ~(j <= l) PROVE FALSE
        OBVIOUS
      <4>1. slots[v][j] # Nil
        BY <2>2, <1>4, <1>6, <1>9
      <4>2. QED
        BY <4>1, <1>2 DEF LinksOK, l
    <3>3. CASE h # i
      <4>1. h <= l
        BY <3>1, <3>2, <3>3, <1>2, <1>3, <1>9
      <4>2. QED
        BY <4>1, <3>3, <2>2, <1>4, <1>6
    <3>4. CASE h = i
      <4>1. x # Nil
        <5> SUFFICES ASSUME x = Nil PROVE FALSE
          OBVIOUS
        <5>1. j # i
          BY <1>5, <1>6, <1>9, <2>2
        <5>2. QED
          BY <5>1, <3>1, <3>2, <3>4, <1>2, <1>3, <1>9
      <4>2. QED
        BY <4>1, <3>4, <2>2, <1>5, <1>6
    <3>5. QED
      BY <3>3, <3>4
  <2>3. QED
    BY <2>1, <2>2
<1>10. \A w \in View, j \in Index :
          meta[w] = "array" /\ w \notin {v} /\ slots'[w][j] # Nil =>
             slots[w][j] # Nil \/ j <= Len(Item[node[w]])
  BY <1>6
<1>11. LinkMove(S, {v})
  <2>1. \A w \in View : meta[w] = "free" => slots'[w] = slots[w]
    BY <1>2, <1>6
  <2>2. QED
    BY <2>1, <1>7, <1>8, <1>9, <1>10 DEF LinkMove
<1>12. QED
  BY <1>1, <1>11, LinksMove DEF IInv

LEMMA LinksStep ==
    ASSUME DocAssumption, HeapAssumption, IInv, OrderInv, LinksOK, [Next]_vars
    PROVE  LinksOK'
<1>1. ASSUME NEW v \in View, NEW k \in Key, ReadField(v, k)
      PROVE  LinksOK'
  BY <1>1, ReadFieldLinks
<1>2. ASSUME NEW v \in View, NEW i \in Index, ReadIndex(v, i)
      PROVE  LinksOK'
  BY <1>2, ReadIndexLinks
<1>3. ASSUME NEW v \in View, NEW k \in Key, NEW x \in Val \cup {Nil}, WriteField(v, k, x)
      PROVE  LinksOK'
  BY <1>3, WriteFieldLinks
<1>4. ASSUME NEW v \in View, NEW i \in Index, NEW x \in Val \cup {Nil}, WriteIndexRaw(v, i, x)
      PROVE  LinksOK'
  BY <1>4, WriteIndexRawLinks
<1>5. ASSUME NEW v \in View, NEW i \in Index, NEW x \in Val \cup {Nil}, WriteIndex(v, i, x)
      PROVE  LinksOK'
  BY <1>5, WriteIndexLinks
<1>6. CASE NextSource \/ NextArray
  BY <1>6, LoopLinks
<1>7. ASSUME NEW v \in View, Encode(v) \/ Materialize(v)
      PROVE  LinksOK'
  <2>1. PICK T : T \subseteq View /\ (\A t \in T : meta[t] = "object") /\ BuildAll(T)
    BY <1>7 DEF Encode, Materialize, Unordered, Reach
  <2>2. QED
    BY <2>1, BuildAllLinks
<1>8. ASSUME NEW v \in View, PairsStart(v) \/ IpairsStart(v)
      PROVE  LinksOK'
  BY <1>8, LinksQuiet DEF PairsStart, IpairsStart
<1>9. CASE NextOrdered \/ NextArrayFails \/ IterEnd \/ UNCHANGED vars
  BY <1>9, LinksQuiet DEF NextOrdered, NextArrayFails, IterEnd, vars
<1>10. QED
  BY <1>1, <1>2, <1>3, <1>4, <1>5, <1>6, <1>7, <1>8, <1>9 DEF Next

LEMMA LinksHolds == Spec => []LinksOK
<1>1. DocAssumption /\ HeapAssumption
  BY DocAssumption, HeapAssumption
<1>2. Init => LinksOK
  BY <1>1 DEF Init, LinksOK, Live, HeapAssumption
<1>3. IInv /\ OrderInv /\ LinksOK /\ [Next]_vars => LinksOK'
  BY <1>1, LinksStep
<1>4. QED
  BY <1>2, <1>3, InvariantHolds, OrderHolds, PTL DEF Spec

-----------------------------------------------------------------------------
(* Ordered tables.                                                          *)

Obj(n, ks, g) == [kind |-> "object", keys |-> ks, items |-> [j \in DOMAIN ks |-> g[ks[j]]], from |-> n]
Arr(n, q) == [kind |-> "array", keys |-> <<>>, items |-> q, from |-> n]

\* What a client can have in a table while the tables old are there: scalars,
\* tables and, each once, containers nobody has seen yet.
Sound(old, c) ==
    /\ Nil # c
    /\ \A j \in DOMAIN c.items : c.items[j] \in View => old[c.items[j]] # Nil
    /\ \A j, k \in DOMAIN c.items : c.items[j] \in Node /\ c.items[j] = c.items[k] => j = k

\* Some of the containers in c have become the tables made for the sites S of v.
Became(S, v, x, y) == y = x \/ (x \in Node /\ <<v, x>> \in S /\ y = Names(S)[<<v, x>>])

Grown(S, v, c, d) ==
    /\ Nil # d /\ d = [c EXCEPT !.items = d.items]
    /\ Len(d.items) = Len(c.items) /\ DOMAIN d.items = DOMAIN c.items
    /\ \A j \in DOMAIN c.items : Became(S, v, c.items[j], d.items[j])

\* No container of the document holds a table.
LEMMA LevelItems ==
    ASSUME DocAssumption, HeapAssumption, NEW n \in Node, NEW j \in DOMAIN SourceLevel[n].items
    PROVE  SourceLevel[n].items[j] \notin View
<1>1. Item[n] \in Seq(Scalar \cup Node)
  BY DEF DocAssumption
<1>2. CASE Kind[n] = "object"
  <2> DEFINE ks == FirstOrder(n)
  <2>1. SourceLevel[n].items = [h \in DOMAIN ks |-> LastItem(n, ks[h])]
    BY <1>2 DEF SourceLevel
  <2>2. ks \in Seq(Key) /\ ToSet(ks) = {k \in Key : HasKey(n, k)}
    BY <1>2, FirstOrderFacts
  <2> HIDE DEF ks
  <2>3. j \in DOMAIN ks /\ ks[j] \in ToSet(ks)
    BY <2>1, <2>2 DEF ToSet
  <2>4. LastItem(n, ks[j]) \in Scalar \cup Node
    BY <1>2, <2>2, <2>3, PositionFacts
  <2>5. QED
    BY <2>1, <2>3, <2>4 DEF HeapAssumption
<1>3. CASE Kind[n] # "object"
  <2>1. SourceLevel[n].items = Item[n]
    BY <1>3 DEF SourceLevel
  <2>2. Item[n][j] \in Scalar \cup Node
    BY <1>1, <2>1
  <2>3. QED
    BY <2>1, <2>2 DEF HeapAssumption
<1>4. QED
  BY <1>2, <1>3

\* Tables that were there have only grown, and a new one is what its container
\* says.
Reading(S, old, new) ==
    /\ \A s \in S : s = <<s[1], s[2]>> /\ s[2] \in Node
    /\ \A s, r \in S : Names(S)[s] = Names(S)[r] => s = r
    /\ \A s \in S : /\ Names(S)[s] \in View
                    /\ old[Names(S)[s]] = Nil /\ new[Names(S)[s]] = SourceLevel[s[2]]
    /\ \A v \in View : old[v] = Nil /\ new[v] # Nil => \E s \in S : Names(S)[s] = v
    /\ \A v \in View : old[v] # Nil => Sound(old, old[v]) /\ Grown(S, v, old[v], new[v])

\* Nobody but a client who reads can tell.
LEMMA SeenIntro ==
    ASSUME DocAssumption, HeapAssumption, NEW old, NEW new, NEW S, Reading(S, old, new)
    PROVE  Tables!Seen(old, new)
<1>0. /\ \A s \in S : s = <<s[1], s[2]>> /\ s[2] \in Node
      /\ \A s, r \in S : Names(S)[s] = Names(S)[r] => s = r
      /\ \A s \in S : /\ Names(S)[s] \in View
                      /\ old[Names(S)[s]] = Nil /\ new[Names(S)[s]] = SourceLevel[s[2]]
      /\ \A v \in View : old[v] = Nil /\ new[v] # Nil => \E s \in S : Names(S)[s] = v
      /\ \A v \in View : old[v] # Nil => Sound(old, old[v]) /\ Grown(S, v, old[v], new[v])
  BY DEF Reading
<1>1. ASSUME NEW v \in View, old[v] # Nil
      PROVE  /\ new[v] # Nil /\ new[v] = [old[v] EXCEPT !.items = new[v].items]
             /\ Len(new[v].items) = Len(old[v].items)
             /\ \A j \in DOMAIN old[v].items :
                   old[v].items[j] # new[v].items[j] =>
                      /\ old[v].items[j] \in Node /\ new[v].items[j] \in View
                      /\ old[new[v].items[j]] = Nil
                      /\ new[new[v].items[j]] = SourceLevel[old[v].items[j]]
  <2>1. new[v] # Nil /\ Grown(S, v, old[v], new[v])
    BY <1>0, <1>1 DEF Grown
  <2>2. ASSUME NEW j \in DOMAIN old[v].items, old[v].items[j] # new[v].items[j]
        PROVE  /\ old[v].items[j] \in Node /\ new[v].items[j] \in View
               /\ old[new[v].items[j]] = Nil
               /\ new[new[v].items[j]] = SourceLevel[old[v].items[j]]
    <3> DEFINE s == <<v, old[v].items[j]>>
    <3>1. old[v].items[j] \in Node /\ s \in S /\ new[v].items[j] = Names(S)[s]
      BY <2>1, <2>2 DEF Grown, Became
    <3>2. s[2] = old[v].items[j]
      OBVIOUS
    <3> HIDE DEF s
    <3>3. QED
      BY <1>0, <3>1, <3>2
  <2>3. QED
    BY <2>1, <2>2 DEF Grown
\* A new table is in one place, the one its site names.
<1>2. ASSUME NEW s \in S, NEW u \in View, new[u] # Nil, NEW j \in DOMAIN new[u].items,
             new[u].items[j] = Names(S)[s]
      PROVE  /\ old[u] # Nil /\ u = s[1] /\ j \in DOMAIN old[u].items
             /\ old[u].items[j] = s[2]
  <2>0. Names(S)[s] \in View /\ old[Names(S)[s]] = Nil
    BY <1>0
  <2>1. old[u] # Nil
    <3> SUFFICES ASSUME old[u] = Nil PROVE FALSE
      OBVIOUS
    <3>1. PICK r \in S : Names(S)[r] = u
      BY <1>0, <1>2
    <3>2. new[u] = SourceLevel[r[2]] /\ r[2] \in Node
      BY <1>0, <3>1
    <3>3. new[u].items[j] \notin View
      BY <3>2, LevelItems
    <3>4. QED
      BY <3>3, <2>0, <1>2
  <2>2. Sound(old, old[u]) /\ Grown(S, u, old[u], new[u])
    BY <1>0, <2>1
  <2>3. j \in DOMAIN old[u].items
    BY <2>2 DEF Grown
  <2>4. new[u].items[j] # old[u].items[j]
    BY <2>0, <2>2, <2>3, <1>2 DEF Sound
  <2> DEFINE r == <<u, old[u].items[j]>>
  <2>5. r \in S /\ Names(S)[s] = Names(S)[r]
    BY <2>2, <2>3, <2>4, <1>2 DEF Grown, Became
  <2>6. s = r
    BY <1>0, <2>5
  <2>7. QED
    BY <2>1, <2>3, <2>6
<1>3. ASSUME NEW v \in View, old[v] = Nil, new[v] # Nil
      PROVE  /\ \E n \in Node : new[v] = SourceLevel[n]
             /\ \A u, w \in View : new[u] # Nil /\ new[w] # Nil =>
                   \A j \in DOMAIN new[u].items, k \in DOMAIN new[w].items :
                      new[u].items[j] = v /\ new[w].items[k] = v => u = w /\ j = k
  <2>1. PICK s \in S : Names(S)[s] = v
    BY <1>0, <1>3
  <2>2. \E n \in Node : new[v] = SourceLevel[n]
    BY <1>0, <2>1
  <2>3. ASSUME NEW u \in View, NEW w \in View, new[u] # Nil, new[w] # Nil,
               NEW j \in DOMAIN new[u].items, NEW k \in DOMAIN new[w].items,
               new[u].items[j] = v, new[w].items[k] = v
        PROVE  u = w /\ j = k
    <3>1. old[u] # Nil /\ u = s[1] /\ j \in DOMAIN old[u].items /\ old[u].items[j] = s[2]
      BY <2>1, <2>3, <1>2
    <3>2. w = s[1] /\ k \in DOMAIN old[w].items /\ old[w].items[k] = s[2]
      BY <2>1, <2>3, <1>2
    <3>3. Sound(old, old[u]) /\ s[2] \in Node
      BY <1>0, <3>1
    <3>4. QED
      BY <3>1, <3>2, <3>3 DEF Sound
  <2>4. QED
    BY <2>2, <2>3
<1>4. QED
  BY <1>1, <1>3 DEF Tables!Seen

-----------------------------------------------------------------------------
(* The table a view stands for.                                             *)

FieldAt(n, b, vs, ca, k) ==
    IF b THEN vs[k] ELSE IF ~Duplicated(n, k) /\ ca[k] # Nil THEN ca[k] ELSE LastItem(n, k)
Fields(n, b, vs, ca) == [k \in Key |-> FieldAt(n, b, vs, ca, k)]
KeysAt(n, b, ks) == IF b THEN ks ELSE FirstOrder(n)
Elements(n, sl) == [i \in DOMAIN Item[n] |-> IF sl[i] # Nil THEN sl[i] ELSE Item[n][i]]
Filling(sl) == [i \in 1..Filled(sl) |-> sl[i]]

\* By the fields of its Lua table.
TableAs(m, n, b, ks, vs, ca, sl) ==
    CASE m = "free" -> Nil
      [] m = "object" -> Obj(n, KeysAt(n, b, ks), Fields(n, b, vs, ca))
      [] m = "array" -> Arr(n, Elements(n, sl))
      [] OTHER -> Arr(n, Filling(sl))

LEMMA TableNow ==
    ASSUME DocAssumption, HeapInv, OrderInv, NEW v \in View
    PROVE  ClientTable[v] = TableAs(meta[v], node[v], built[v], keys[v], values[v], cache[v], slots[v])
<1>1. CASE meta[v] = "object"
  <2> DEFINE K == IF built[v] THEN keys[v] ELSE SourceLevel[node[v]].keys
  <2>1. node[v] \in Node /\ Kind[node[v]] = "object"
    BY <1>1, ObjectNode
  <2>2. keys[v] \in Seq(Key)
    BY DEF OrderInv, OrderTypeOK
  <2>3. ClientTable[v] =
           [kind |-> "object", keys |-> K, from |-> node[v],
            items |-> [j \in DOMAIN K |-> FieldAt(node[v], built[v], values[v], cache[v], K[j])]]
    BY <1>1 DEF ClientTable, Contents, KeysOf, ItemsOf, ElementAt, FieldOf, FieldAt
  <2>4. /\ K = KeysAt(node[v], built[v], keys[v])
        /\ \A j \in DOMAIN K : Fields(node[v], built[v], values[v], cache[v])[K[j]]
                               = FieldAt(node[v], built[v], values[v], cache[v], K[j])
    <3>1. K = KeysAt(node[v], built[v], keys[v])
      BY <2>1 DEF KeysAt, SourceLevel
    <3>2. K \in Seq(Key)
      BY <2>1, <2>2, <3>1, FirstOrderFacts DEF KeysAt
    <3> HIDE DEF K
    <3>3. \A j \in DOMAIN K : K[j] \in Key
      BY <3>2
    <3>4. QED
      BY <3>1, <3>3 DEF Fields
  <2> HIDE DEF K
  <2>5. QED
    BY <1>1, <2>3, <2>4 DEF TableAs, Obj
<1>2. CASE meta[v] # "object"
  BY <1>2 DEF ClientTable, Contents, ItemsOf, ElementAt, PlainItems, ArrayLen, TableAs, Arr, Elements, Filling,
              Filled, HeapInv, HeapTypeOK
<1>3. QED
  BY <1>1, <1>2

LEMMA TableThen ==
    ASSUME DocAssumption, HeapInv', OrderInv', NEW v \in View
    PROVE  ClientTable'[v] =
              TableAs(meta'[v], node'[v], built'[v], keys'[v], values'[v], cache'[v], slots'[v])
<1>1. CASE meta'[v] = "object"
  <2> DEFINE K == IF built'[v] THEN keys'[v] ELSE SourceLevel[node'[v]].keys
  <2>1. node'[v] \in Node /\ Kind[node'[v]] = "object"
    BY <1>1 DEF HeapInv, HeapTypeOK, KindOK, Lazy
  <2>2. keys'[v] \in Seq(Key)
    BY DEF OrderInv, OrderTypeOK
  <2>3. ClientTable'[v] =
           [kind |-> "object", keys |-> K, from |-> node'[v],
            items |-> [j \in DOMAIN K |-> FieldAt(node'[v], built'[v], values'[v], cache'[v], K[j])]]
    BY <1>1 DEF ClientTable, Contents, KeysOf, ItemsOf, ElementAt, FieldOf, FieldAt
  <2>4. /\ K = KeysAt(node'[v], built'[v], keys'[v])
        /\ \A j \in DOMAIN K : Fields(node'[v], built'[v], values'[v], cache'[v])[K[j]]
                               = FieldAt(node'[v], built'[v], values'[v], cache'[v], K[j])
    <3>1. K = KeysAt(node'[v], built'[v], keys'[v])
      BY <2>1 DEF KeysAt, SourceLevel
    <3>2. K \in Seq(Key)
      BY <2>1, <2>2, <3>1, FirstOrderFacts DEF KeysAt
    <3> HIDE DEF K
    <3>3. \A j \in DOMAIN K : K[j] \in Key
      BY <3>2
    <3>4. QED
      BY <3>1, <3>3 DEF Fields
  <2> HIDE DEF K
  <2>5. QED
    BY <1>1, <2>3, <2>4 DEF TableAs, Obj
<1>2. CASE meta'[v] # "object"
  BY <1>2 DEF ClientTable, Contents, ItemsOf, ElementAt, PlainItems, ArrayLen, TableAs, Arr, Elements, Filling,
              Filled, HeapInv, HeapTypeOK
<1>3. QED
  BY <1>1, <1>2

-----------------------------------------------------------------------------
(* What is in the tables.                                                   *)

Entry == Val \cup Node

LEMMA ItemsSeq ==
    ASSUME NEW T, NEW l \in Nat, NEW r \in [1..l -> T]
    PROVE  r \in Seq(T) /\ Len(r) = l
<1>1. r \in Seq(T)
  OBVIOUS
<1>2. QED
  BY <1>1

LEMMA ObjSound ==
    ASSUME NilAssumption, NEW old, NEW n \in Node, NEW ks \in Seq(Key), IsInjective(ks), NEW g,
           \A q \in ToSet(ks) : g[q] \in Entry /\ (g[q] \in View => old[g[q]] # Nil),
           \A q, r \in ToSet(ks) : g[q] \in Node /\ g[q] = g[r] => q = r
    PROVE  Sound(old, Obj(n, ks, g))
<1> DEFINE it == [j \in DOMAIN ks |-> g[ks[j]]]
<1>1. \A j \in DOMAIN ks : ks[j] \in ToSet(ks)
  BY DEF ToSet
<1>2. DOMAIN ks = 1..Len(ks) /\ Len(ks) \in Nat
  OBVIOUS
<1>3. it \in Seq(Scalar \cup View \cup Node)
  BY <1>1, <1>2 DEF Entry, Val
<1> HIDE DEF it
<1>4. Nil # [kind |-> "object", keys |-> ks, items |-> it, from |-> n]
  BY <1>3 DEF NilAssumption
<1>5. Nil # Obj(n, ks, g)
  BY <1>4 DEF Obj, it
<1>6. \A j, k \in DOMAIN ks : g[ks[j]] \in Node /\ g[ks[j]] = g[ks[k]] => j = k
  BY <1>1 DEF IsInjective
<1>7. QED
  BY <1>1, <1>5, <1>6 DEF Sound, Obj

LEMMA ArrNotNil ==
    ASSUME NilAssumption, NEW n \in Node, NEW q \in Seq(Entry)
    PROVE  Nil # Arr(n, q)
<1> DEFINE e == <<>>
           I == Seq(Scalar \cup View \cup Node)
<1>1. e \in Seq(Key) /\ q \in I
  BY DEF Entry, Val
<1>2. Nil \notin [kind : {"object", "array"}, keys : Seq(Key), items : I, from : Node]
  BY DEF NilAssumption
<1> HIDE DEF e, I
<1>3. Nil # [kind |-> "array", keys |-> e, items |-> q, from |-> n]
  BY <1>1, <1>2
<1>4. QED
  BY <1>3 DEF Arr, e

LEMMA ArrSound ==
    ASSUME NilAssumption, NEW old, NEW n \in Node, NEW q \in Seq(Entry),
           \A j \in DOMAIN q : q[j] \in View => old[q[j]] # Nil,
           \A j, k \in DOMAIN q : q[j] \in Node /\ q[j] = q[k] => j = k
    PROVE  Sound(old, Arr(n, q))
<1>1. Nil # Arr(n, q)
  BY ArrNotNil
<1>2. QED
  BY <1>1 DEF Sound, Arr

LEMMA ObjGrown ==
    ASSUME NilAssumption, NEW S, \A s \in S : Names(S)[s] \in View,
           NEW v, NEW n \in Node, NEW ks \in Seq(Key), NEW g, NEW h,
           \A q \in ToSet(ks) : g[q] \in Entry /\ Became(S, v, g[q], h[q])
    PROVE  Grown(S, v, Obj(n, ks, g), Obj(n, ks, h))
<1> DEFINE it == [j \in DOMAIN ks |-> h[ks[j]]]
<1>1. \A j \in DOMAIN ks : ks[j] \in ToSet(ks)
  BY DEF ToSet
<1>2. DOMAIN ks = 1..Len(ks) /\ Len(ks) \in Nat
  OBVIOUS
<1>3. \A q \in ToSet(ks) : h[q] \in Entry
  BY DEF Became, Entry, Val
<1>4. it \in Seq(Scalar \cup View \cup Node)
  BY <1>1, <1>2, <1>3 DEF Entry, Val
<1> HIDE DEF it
<1>5. Nil # [kind |-> "object", keys |-> ks, items |-> it, from |-> n]
  BY <1>4 DEF NilAssumption
<1>6. Nil # Obj(n, ks, h)
  BY <1>5 DEF Obj, it
<1> DEFINE c == Obj(n, ks, g)
           d == Obj(n, ks, h)
<1>7. /\ c.items = [j \in DOMAIN ks |-> g[ks[j]]] /\ d.items = [j \in DOMAIN ks |-> h[ks[j]]]
      /\ d = [c EXCEPT !.items = d.items] /\ Nil # d
  <2>1. c.items = [j \in DOMAIN ks |-> g[ks[j]]] /\ d.items = [j \in DOMAIN ks |-> h[ks[j]]]
    BY DEF Obj
  <2> DEFINE ci == [j \in DOMAIN ks |-> g[ks[j]]]
             di == [j \in DOMAIN ks |-> h[ks[j]]]
  <2>2. /\ c = [kind |-> "object", keys |-> ks, items |-> ci, from |-> n]
        /\ d = [kind |-> "object", keys |-> ks, items |-> di, from |-> n]
    BY DEF Obj
  <2> HIDE DEF ci, di, c, d
  <2>3. d = [c EXCEPT !.items = d.items]
    BY <2>2
  <2>4. QED
    BY <2>1, <2>3, <1>6 DEF c, d
<1> HIDE DEF c, d
<1>8. Len(d.items) = Len(c.items) /\ DOMAIN d.items = DOMAIN c.items /\ DOMAIN c.items = DOMAIN ks
  BY <1>2, <1>7
<1>9. \A j \in DOMAIN c.items : Became(S, v, c.items[j], d.items[j])
  BY <1>1, <1>7, <1>8
<1>10. Grown(S, v, c, d)
  BY <1>7, <1>8, <1>9 DEF Grown
<1>11. QED
  BY <1>10 DEF c, d

LEMMA ArrGrown ==
    ASSUME NilAssumption, NEW S, \A s \in S : Names(S)[s] \in View,
           NEW v, NEW n \in Node, NEW q \in Seq(Entry), NEW r \in Seq(Entry), Len(q) = Len(r),
           \A j \in DOMAIN q : Became(S, v, q[j], r[j])
    PROVE  Grown(S, v, Arr(n, q), Arr(n, r))
<1>1. Nil # Arr(n, r)
  BY ArrNotNil
<1>3. DOMAIN q = DOMAIN r
  OBVIOUS
<1>4. QED
  BY <1>1, <1>3 DEF Grown, Arr

\* Two keys of an object do not have the same container.
LEMMA LastItemOnce ==
    ASSUME DocAssumption, NEW n \in Node, Kind[n] = "object", NEW q, NEW r,
           HasKey(n, q), HasKey(n, r), LastItem(n, q) \in Node, LastItem(n, q) = LastItem(n, r)
    PROVE  q = r
<1> DEFINE i(k) == CHOOSE i \in Positions(n, k) : \A j \in Positions(n, k) : j <= i
<1>1. ASSUME NEW k, HasKey(n, k)
      PROVE  i(k) \in DOMAIN Item[n] /\ FieldKey[n][i(k)] = k
  <2> DEFINE S == Positions(n, k)
  <2>1. /\ FieldKey[n] \in Seq(Key) /\ Item[n] \in Seq(Scalar \cup Node)
        /\ Len(FieldKey[n]) = Len(Item[n])
    BY DEF DocAssumption
  <2>2. S \in SUBSET (DOMAIN Item[n]) /\ S \in SUBSET (1..Len(Item[n])) /\ Len(Item[n]) \in Nat /\ S # {}
    BY <1>1, <2>1 DEF Positions, HasKey
  <2>3. S \in SUBSET Nat /\ IsFiniteSet(S)
    <3> DEFINE l == Len(Item[n])
    <3>1. l \in Nat /\ S \in SUBSET (1..l)
      BY <2>2
    <3> HIDE DEF l, S
    <3>2. IsFiniteSet(1..l)
      BY <3>1, FS_Interval
    <3>3. IsFiniteSet(S)
      BY <3>1, <3>2, FS_Subset
    <3>4. QED
      BY <3>1, <3>3
  <2>4. \E h \in S : \A j \in S : j <= h
    <3> HIDE DEF S
    <3>1. QED
      BY <2>2, <2>3, EndsExist
  <2>5. i(k) \in S
    BY <2>4
  <2>6. QED
    BY <2>2, <2>5 DEF Positions
<1>2. LastItem(n, q) = Item[n][i(q)] /\ LastItem(n, r) = Item[n][i(r)]
  BY DEF LastItem
<1>3. i(q) = i(r)
  <2> DEFINE a == i(q)
             b == i(r)
  <2>1. /\ a \in DOMAIN Item[n] /\ b \in DOMAIN Item[n]
        /\ Item[n][a] \in Node /\ Item[n][a] = Item[n][b]
    BY <1>1, <1>2
  <2>2. \A h, j \in DOMAIN Item[n] : Item[n][h] \in Node /\ Item[n][h] = Item[n][j] => h = j
    BY DEF DocAssumption
  <2> HIDE DEF a, b
  <2>3. a = b
    BY <2>1, <2>2
  <2>4. QED
    BY <2>3 DEF a, b
<1>4. FieldKey[n][i(q)] = q /\ FieldKey[n][i(r)] = r
  BY <1>1
<1> HIDE DEF i
<1>5. QED
  BY <1>3, <1>4

\* What the heap keeps, of which the tables are made.
TableInv == IInv /\ OrderInv /\ CacheOK /\ LinksOK

\* The keys and the values an ordered object may have in state `meta`: distinct
\* keys, decoded values that are allocated, and no source container twice.
OwnFields(K, g) ==
    /\ K \in Seq(Key) /\ IsInjective(K)
    /\ \A q \in ToSet(K) : g[q] \in Entry /\ (g[q] \in View => meta[g[q]] # "free")
    /\ \A q, r \in ToSet(K) : g[q] \in Node /\ g[q] = g[r] => q = r

\* The keys and the values of an object.
LEMMA FieldFacts ==
    ASSUME DocAssumption, HeapAssumption, TableInv, NEW v \in View, meta[v] = "object", NEW K, NEW g,
           K = KeysAt(node[v], built[v], keys[v]),
           g = Fields(node[v], built[v], values[v], cache[v])
    PROVE  OwnFields(K, g)
<1> DEFINE n == node[v]
<1>1. n \in Node /\ Kind[n] = "object"
  BY ObjectNode DEF TableInv, IInv
<1>2. CASE built[v]
  <2>1. K = keys[v] /\ keys[v] \in Seq(Key) /\ IsInjective(keys[v])
        /\ ToSet(keys[v]) = {k \in Key : values[v][k] # Nil}
    BY <1>2 DEF KeysAt, TableInv, OrderInv, OrderTypeOK, OrderAgrees
  <2>2. \A q \in Key : g[q] = values[v][q]
    BY <1>2 DEF Fields, FieldAt
  <2>3. \A q \in ToSet(K) : g[q] \in Val /\ (g[q] \in View => meta[g[q]] # "free")
    BY <2>1, <2>2 DEF TableInv, OrderInv, OrderTypeOK, LinksOK, Live
  <2>4. \A x \in Val : x \notin Node
    BY DEF Val, HeapAssumption
  <2>5. QED
    BY <2>1, <2>3, <2>4 DEF OwnFields, Entry
<1>3. CASE ~built[v]
  <2>1. K = FirstOrder(n) /\ K \in Seq(Key) /\ IsInjective(K) /\ ToSet(K) = {k \in Key : HasKey(n, k)}
    BY <1>1, <1>3, FirstOrderFacts DEF KeysAt
  <2>2. ASSUME NEW q \in ToSet(K)
        PROVE  \/ g[q] \in View /\ meta[g[q]] # "free"
               \/ g[q] = LastItem(n, q) /\ g[q] \in Scalar \cup Node
    <3>1. q \in Key /\ HasKey(n, q)
      BY <2>1, <2>2
    <3>2. g[q] = IF ~Duplicated(n, q) /\ cache[v][q] # Nil THEN cache[v][q] ELSE LastItem(n, q)
      BY <1>3, <3>1 DEF Fields, FieldAt
    <3>3. LastItem(n, q) \in Scalar \cup Node
      BY <1>1, <3>1, PositionFacts
    <3>4. cache[v][q] # Nil => cache[v][q] \in View /\ meta[cache[v][q]] # "free"
      BY <3>1 DEF TableInv, IInv, HeapInv, HeapTypeOK, LinksOK, Live
    <3>5. QED
      BY <3>2, <3>3, <3>4
  <2>3. \A x \in View : x \notin Node
    BY DEF HeapAssumption
  <2>4. \A x \in Scalar \cup Node : x \notin View
    BY DEF HeapAssumption
  <2>5. \A q \in ToSet(K) : g[q] \in Entry /\ (g[q] \in View => meta[g[q]] # "free")
    BY <2>2, <2>4 DEF Entry, Val
  <2>6. ASSUME NEW q \in ToSet(K), NEW r \in ToSet(K), g[q] \in Node, g[q] = g[r]
        PROVE  q = r
    <3>1. LastItem(n, q) \in Node /\ LastItem(n, q) = LastItem(n, r)
      BY <2>2, <2>3, <2>6
    <3>2. HasKey(n, q) /\ HasKey(n, r)
      BY <2>1
    <3>3. QED
      BY <3>1, <3>2, <1>1, LastItemOnce
  <2>7. QED
    BY <2>1, <2>5, <2>6 DEF OwnFields
<1>4. QED
  BY <1>2, <1>3

\* The elements of an array view.
LEMMA ElementFacts ==
    ASSUME DocAssumption, HeapAssumption, TableInv, NEW v \in View, meta[v] = "array", NEW q,
           q = Elements(node[v], slots[v])
    PROVE  /\ q \in Seq(Entry) /\ Len(q) = Len(Item[node[v]]) /\ Len(q) \in Nat /\ Len(q) <= MaxLen
           /\ \A j \in DOMAIN q : q[j] \in View => meta[q[j]] # "free"
           /\ \A j, k \in DOMAIN q : q[j] \in Node /\ q[j] = q[k] => j = k
<1> DEFINE n == node[v]
<1>1. n \in Node /\ Kind[n] = "array"
  BY DEF TableInv, IInv, HeapInv, HeapTypeOK, KindOK, Lazy
<1>2. /\ Item[n] \in Seq(Scalar \cup Node) /\ Len(Item[n]) <= MaxLen
      /\ \A h, j \in DOMAIN Item[n] : Item[n][h] \in Node /\ Item[n][h] = Item[n][j] => h = j
  BY <1>1 DEF DocAssumption
<1>3. Len(Item[n]) \in Nat /\ DOMAIN Item[n] = 1..Len(Item[n])
  BY <1>2
<1>4. \A j \in DOMAIN Item[n] : j \in Index
  BY <1>2, <1>3 DEF Index, HeapAssumption
<1>5. \A j \in DOMAIN Item[n] : Item[n][j] \in Scalar \cup Node
  BY <1>2
<1>6. \A j \in Index : /\ slots[v][j] \in Val \cup {Nil}
                       /\ slots[v][j] \in View => meta[slots[v][j]] # "free"
  BY DEF TableInv, IInv, HeapInv, HeapTypeOK, LinksOK, Live
<1> HIDE DEF n
<1>7. q = [j \in DOMAIN Item[n] |-> IF slots[v][j] # Nil THEN slots[v][j] ELSE Item[n][j]]
  BY DEF Elements, n
<1>8. \A j \in DOMAIN Item[n] :
         \/ q[j] \in Val /\ (q[j] \in View => meta[q[j]] # "free")
         \/ q[j] = Item[n][j] /\ q[j] \in Scalar \cup Node
  BY <1>4, <1>5, <1>6, <1>7
<1>9. /\ \A x \in Val : x \notin Node
      /\ \A x \in Scalar \cup Node : x \notin View
  BY DEF HeapAssumption, Val
<1>10. q \in Seq(Entry) /\ Len(q) = Len(Item[n])
  <2>1. \A j \in DOMAIN Item[n] : q[j] \in Entry
    BY <1>8 DEF Entry, Val
  <2> DEFINE l == Len(Item[n])
  <2>2. DOMAIN q = 1..l /\ l \in Nat /\ q \in [1..l -> Entry]
    BY <2>1, <1>3, <1>7
  <2> HIDE DEF l
  <2>3. q \in Seq(Entry)
    BY <2>2
  <2>4. Len(q) = l
    BY <2>2, <2>3
  <2>5. QED
    BY <2>3, <2>4 DEF l
<1>11. DOMAIN q = DOMAIN Item[n]
  BY <1>7
<1>12. \A j \in DOMAIN q : q[j] \in View => meta[q[j]] # "free"
  BY <1>8, <1>9, <1>11
<1>13. \A j, k \in DOMAIN q : q[j] \in Node /\ q[j] = q[k] => j = k
  BY <1>2, <1>8, <1>9, <1>11
<1>14. QED
  BY <1>2, <1>3, <1>10, <1>12, <1>13 DEF n

\* The elements of a plain sequence.
LEMMA FillingFacts ==
    ASSUME HeapAssumption, TableInv, NEW v \in View, meta[v] = "plain", NEW q,
           q = Filling(slots[v])
    PROVE  /\ q \in Seq(Val) /\ Len(q) = ArrayLen(v) /\ Len(q) \in 0..MaxLen
           /\ \A j \in DOMAIN q : q[j] = slots[v][j] /\ (q[j] \in View => meta[q[j]] # "free")
<1> DEFINE l == ArrayLen(v)
<1>1. l = Filled(slots[v]) /\ l \in 0..MaxLen /\ \A i \in Index : slots[v][i] # Nil <=> i <= l
  BY PlainFacts DEF TableInv
<1>2. q = [i \in 1..l |-> slots[v][i]]
  BY <1>1 DEF Filling
<1> HIDE DEF l
<1>3. \A i \in 1..l : i \in Index /\ slots[v][i] # Nil
  BY <1>1 DEF Index, HeapAssumption
<1>4. \A i \in Index : slots[v][i] \in Val \cup {Nil} /\ (slots[v][i] \in View => meta[slots[v][i]] # "free")
  BY DEF TableInv, IInv, HeapInv, HeapTypeOK, LinksOK, Live
<1>5. l \in Nat
  BY <1>1 DEF HeapAssumption
<1>6. q \in Seq(Val)
  BY <1>2, <1>3, <1>4, <1>5
<1>7. DOMAIN q = 1..l /\ Len(q) = l
  BY <1>2, <1>5
<1>8. QED
  BY <1>1, <1>2, <1>3, <1>4, <1>6, <1>7 DEF l

\* Every table a client can have is sound.
LEMMA TablesSound ==
    ASSUME DocAssumption, HeapAssumption, NilAssumption, TableInv, NEW v \in View
    PROVE  /\ meta[v] = "free" => ClientTable[v] = Nil
           /\ meta[v] # "free" => Sound(ClientTable, ClientTable[v]) /\ ClientTable[v] # Nil
<1>1. \A w \in View : ClientTable[w] =
         TableAs(meta[w], node[w], built[w], keys[w], values[w], cache[w], slots[w])
  BY TableNow DEF TableInv, IInv
<1>2. node[v] \in Node /\ meta[v] \in {"free", "object", "array", "plain"}
  BY DEF TableInv, IInv, HeapInv, HeapTypeOK
<1>3. ASSUME NEW w \in View, meta[w] # "free"
      PROVE  ClientTable[w] # Nil
  <2>1. CASE meta[w] = "object"
    <3> DEFINE K == KeysAt(node[w], built[w], keys[w])
               g == Fields(node[w], built[w], values[w], cache[w])
    <3>0. /\ K = KeysAt(node[w], built[w], keys[w])
          /\ g = Fields(node[w], built[w], values[w], cache[w])
      OBVIOUS
    <3>2. ClientTable[w] = Obj(node[w], K, g)
      BY <1>1, <2>1 DEF TableAs
    <3>3. node[w] \in Node
      BY DEF TableInv, IInv, HeapInv, HeapTypeOK
    <3> HIDE DEF K, g
    <3>4. OwnFields(K, g)
      BY <2>1, <3>0, FieldFacts
    <3>1. K \in Seq(Key) /\ \A q \in ToSet(K) : g[q] \in Entry
      BY <3>4 DEF OwnFields
    <3>5. Grown({}, w, Obj(node[w], K, g), Obj(node[w], K, g))
      BY <3>1, <3>3, ObjGrown DEF Became
    <3>6. QED
      BY <3>2, <3>5 DEF Grown
  <2>2. CASE meta[w] = "array"
    <3>1. Elements(node[w], slots[w]) \in Seq(Entry)
      BY <2>2, ElementFacts
    <3>2. ClientTable[w] = Arr(node[w], Elements(node[w], slots[w]))
      BY <1>1, <2>2 DEF TableAs
    <3>3. node[w] \in Node
      BY DEF TableInv, IInv, HeapInv, HeapTypeOK
    <3>4. QED
      BY <3>1, <3>2, <3>3, ArrNotNil
  <2>3. CASE meta[w] = "plain"
    <3>1. Filling(slots[w]) \in Seq(Val)
      BY <2>3, FillingFacts
    <3>2. ClientTable[w] = Arr(node[w], Filling(slots[w]))
      BY <1>1, <2>3 DEF TableAs
    <3>3. node[w] \in Node /\ Filling(slots[w]) \in Seq(Entry)
      BY <3>1 DEF TableInv, IInv, HeapInv, HeapTypeOK, Entry
    <3>4. QED
      BY <3>2, <3>3, ArrNotNil
  <2>4. QED
    BY <2>1, <2>2, <2>3, <1>3 DEF TableInv, IInv, HeapInv, HeapTypeOK
<1>4. CASE meta[v] = "object"
  <2> DEFINE K == KeysAt(node[v], built[v], keys[v])
             g == Fields(node[v], built[v], values[v], cache[v])
  <2>0. /\ K = KeysAt(node[v], built[v], keys[v])
        /\ g = Fields(node[v], built[v], values[v], cache[v])
    OBVIOUS
  <2>2. ClientTable[v] = Obj(node[v], K, g)
    BY <1>1, <1>4 DEF TableAs
  <2> HIDE DEF K, g
  <2>1. OwnFields(K, g)
    BY <1>4, <2>0, FieldFacts
  <2>3. Sound(ClientTable, Obj(node[v], K, g))
    BY <2>1, <1>2, <1>3, ObjSound DEF OwnFields
  <2>4. QED
    BY <2>2, <2>3, <1>3, <1>4
<1>5. CASE meta[v] = "array"
  <2> DEFINE q == Elements(node[v], slots[v])
  <2>1. /\ q \in Seq(Entry)
        /\ \A j \in DOMAIN q : q[j] \in View => meta[q[j]] # "free"
        /\ \A j, k \in DOMAIN q : q[j] \in Node /\ q[j] = q[k] => j = k
    BY <1>5, ElementFacts
  <2>2. ClientTable[v] = Arr(node[v], q)
    BY <1>1, <1>5 DEF TableAs
  <2> HIDE DEF q
  <2>3. Sound(ClientTable, Arr(node[v], q))
    BY <2>1, <1>2, <1>3, ArrSound
  <2>4. QED
    BY <2>2, <2>3, <1>3, <1>5
<1>6. CASE meta[v] = "plain"
  <2> DEFINE q == Filling(slots[v])
  <2>0. q = Filling(slots[v])
    OBVIOUS
  <2>2. ClientTable[v] = Arr(node[v], q)
    BY <1>1, <1>6 DEF TableAs
  <2> HIDE DEF q
  <2>1. q \in Seq(Val) /\ \A j \in DOMAIN q : q[j] \in View => meta[q[j]] # "free"
    <3>1. /\ q \in Seq(Val) /\ Len(q) = ArrayLen(v) /\ Len(q) \in 0..MaxLen
          /\ \A j \in DOMAIN q : q[j] = slots[v][j] /\ (q[j] \in View => meta[q[j]] # "free")
      BY <1>6, <2>0, FillingFacts
    <3>2. QED
      BY <3>1
  <2>3. q \in Seq(Entry) /\ \A j \in DOMAIN q : q[j] \notin Node
    BY <2>1 DEF Entry, Val, HeapAssumption
  <2>4. Sound(ClientTable, Arr(node[v], q))
    BY <2>1, <2>3, <1>2, <1>3, ArrSound
  <2>5. QED
    BY <2>2, <2>4, <1>3, <1>6
<1>7. CASE meta[v] = "free"
  BY <1>1, <1>7 DEF TableAs
<1>8. QED
  BY <1>2, <1>4, <1>5, <1>6, <1>7

-----------------------------------------------------------------------------
(* A step of the tables.                                                    *)

\* t is the table of a view nobody has read or written yet.
Unread(n, t) ==
    \E ks, vs, ca, sl :
        /\ ca = [k \in Key |-> Nil] /\ \A i \in Index : sl[i] = Nil
        /\ t = TableAs(Kind[n], n, FALSE, ks, vs, ca, sl)

\* It stands for its container (wrap_child).
LEMMA FreshTable ==
    ASSUME DocAssumption, HeapAssumption, NEW n \in Node, NEW t, Unread(n, t)
    PROVE  t = SourceLevel[n]
<1>0. PICK ks, vs, ca, sl :
         /\ ca = [k \in Key |-> Nil] /\ \A i \in Index : sl[i] = Nil
         /\ t = TableAs(Kind[n], n, FALSE, ks, vs, ca, sl)
  BY DEF Unread
<1>1. Item[n] \in Seq(Scalar \cup Node) /\ Kind[n] \in {"object", "array"}
      /\ (Kind[n] = "array" => Len(Item[n]) <= MaxLen)
  BY DEF DocAssumption
<1>2. CASE Kind[n] = "object"
  <2> DEFINE K == FirstOrder(n)
             g == Fields(n, FALSE, vs, ca)
  <2>1. K \in Seq(Key)
    BY <1>2, FirstOrderFacts
  <2>2. \A k \in Key : g[k] = LastItem(n, k)
    BY <1>0 DEF Fields, FieldAt
  <2>3. SourceLevel[n] = [kind |-> "object", keys |-> K, from |-> n,
                          items |-> [j \in DOMAIN K |-> LastItem(n, K[j])]]
    BY <1>2 DEF SourceLevel
  <2>4. TableAs(Kind[n], n, FALSE, ks, vs, ca, sl) = Obj(n, K, g)
    BY <1>2 DEF TableAs, KeysAt
  <2> HIDE DEF K, g
  <2>5. \A j \in DOMAIN K : K[j] \in Key
    BY <2>1
  <2>6. [j \in DOMAIN K |-> LastItem(n, K[j])] = [j \in DOMAIN K |-> g[K[j]]]
    BY <2>2, <2>5
  <2>7. QED
    BY <1>0, <2>3, <2>4, <2>6 DEF Obj
<1>3. CASE Kind[n] = "array"
  <2>1. SourceLevel[n] = [kind |-> "array", keys |-> <<>>, from |-> n, items |-> Item[n]]
    BY <1>3 DEF SourceLevel
  <2>2. TableAs(Kind[n], n, FALSE, ks, vs, ca, sl) = Arr(n, Elements(n, sl))
    BY <1>3 DEF TableAs
  <2>3. Elements(n, sl) = Item[n]
    <3>1. \A i \in DOMAIN Item[n] : i \in Index
      BY <1>1, <1>3 DEF Index, HeapAssumption
    <3>2. Elements(n, sl) = [i \in DOMAIN Item[n] |-> Item[n][i]]
      BY <1>0, <3>1 DEF Elements
    <3>3. QED
      BY <3>2, <1>1
  <2>4. QED
    BY <1>0, <2>1, <2>2, <2>3 DEF Arr
<1>4. QED
  BY <1>0, <1>1, <1>2, <1>3

\* What a free table has, it has when a step has made it a view.
Blank ==
    \A v \in View : meta[v] = "free" =>
        ~built'[v] /\ cache'[v] = cache[v] /\ slots'[v] = slots[v]

\* If everything the step has done to the tables mid is that some containers became
\* tables, it is a reading of mid.
LEMMA StepSeen ==
    ASSUME DocAssumption, HeapAssumption, NilAssumption, TableInv, HeapInv', OrderInv',
           NEW S, NEW P, AllocMove(S, P), Blank, NEW mid,
           \A v \in View : meta[v] = "free" => mid[v] = Nil,
           \A v \in View : meta[v] # "free" =>
              Sound(mid, mid[v]) /\ Grown(S, v, mid[v], ClientTable'[v])
    PROVE  Tables!Seen(mid, ClientTable')
<1> DEFINE new == ClientTable'
<1>1. /\ \A s \in S : /\ s[1] \in View /\ s[2] \in Node /\ s = <<s[1], s[2]>>
                      /\ Names(S)[s] \in View /\ meta[Names(S)[s]] = "free"
                      /\ meta'[Names(S)[s]] = Kind[s[2]] /\ node'[Names(S)[s]] = s[2]
      /\ \A s, r \in S : Names(S)[s] = Names(S)[r] => s = r
      /\ \A v \in View : meta[v] = "free" /\ meta'[v] # "free" => \E s \in S : Names(S)[s] = v
  BY AllocFacts DEF TableInv, IInv
<1>2. \A v \in View : new[v] =
         TableAs(meta'[v], node'[v], built'[v], keys'[v], values'[v], cache'[v], slots'[v])
  BY TableThen
<1> HIDE DEF new
<1>3. ASSUME NEW s \in S
      PROVE  /\ Names(S)[s] \in View
             /\ mid[Names(S)[s]] = Nil /\ new[Names(S)[s]] = SourceLevel[s[2]]
  <2> DEFINE y == Names(S)[s]
  <2>1. y \in View /\ meta[y] = "free" /\ meta'[y] = Kind[s[2]] /\ node'[y] = s[2] /\ s[2] \in Node
    BY <1>1
  <2> HIDE DEF y
  <2>2. mid[y] = Nil
    BY <2>1
  <2>3. built'[y] = FALSE /\ cache'[y] = [k \in Key |-> Nil] /\ \A i \in Index : slots'[y][i] = Nil
    BY <2>1 DEF Blank, TableInv, IInv, HeapInv, HeapTypeOK, LinksOK
  <2>4. new[y] = TableAs(Kind[s[2]], s[2], FALSE, keys'[y], values'[y], cache'[y], slots'[y])
    BY <1>2, <2>1, <2>3
  <2>5. new[y] = SourceLevel[s[2]]
    <3> DEFINE n == s[2]
               t == new[y]
               ks == keys'[y]
               vs == values'[y]
               ca == cache'[y]
               sl == slots'[y]
    <3>0. /\ ca = [k \in Key |-> Nil] /\ \A i \in Index : sl[i] = Nil
          /\ t = TableAs(Kind[n], n, FALSE, ks, vs, ca, sl)
      BY <2>3, <2>4
    <3>2. n \in Node
      BY <2>1
    <3> HIDE DEF n, t, ks, vs, ca, sl
    <3>1. Unread(n, t)
      BY <3>0, Zenon DEF Unread
    <3>3. t = SourceLevel[n]
      BY <3>1, <3>2, FreshTable
    <3>4. QED
      BY <3>3 DEF n, t
  <2>6. QED
    BY <2>1, <2>2, <2>5 DEF y
<1>4. ASSUME NEW v \in View, mid[v] = Nil, new[v] # Nil
      PROVE  \E s \in S : Names(S)[s] = v
  <2>1. meta[v] = "free"
    BY <1>4 DEF Sound
  <2>2. meta'[v] # "free"
    BY <1>2, <1>4 DEF TableAs
  <2>3. QED
    BY <1>1, <2>1, <2>2
<1>5. \A v \in View : mid[v] # Nil => Sound(mid, mid[v]) /\ Grown(S, v, mid[v], new[v])
  BY DEF new
<1>6. /\ \A s \in S : s = <<s[1], s[2]>> /\ s[2] \in Node
      /\ \A s, r \in S : Names(S)[s] = Names(S)[r] => s = r
  BY <1>1
<1>7. Reading(S, mid, new)
  BY <1>3, <1>4, <1>5, <1>6 DEF Reading
<1>9. Tables!Seen(mid, new)
  BY <1>7, SeenIntro
<1>8. QED
  BY <1>9 DEF new

\* A step that writes nothing: the keys of each object stay, and a value or element
\* stays or becomes the table made for it.
ReadMove(S) ==
    /\ \A v \in View : meta[v] = "object" =>
          /\ KeysAt(node[v], built'[v], keys'[v]) = KeysAt(node[v], built[v], keys[v])
          /\ \A k \in ToSet(KeysAt(node[v], built[v], keys[v])) :
                Became(S, v, FieldAt(node[v], built[v], values[v], cache[v], k),
                             FieldAt(node[v], built'[v], values'[v], cache'[v], k))
    /\ \A v \in View : meta[v] = "array" =>
          \A i \in DOMAIN Item[node[v]] :
             \/ slots'[v][i] = slots[v][i]
             \/ /\ slots[v][i] = Nil /\ slots'[v][i] # Nil
                /\ Became(S, v, Item[node[v]][i], slots'[v][i])
    /\ \A v \in View : meta[v] = "plain" => slots'[v] = slots[v]

LEMMA ReadSeen ==
    ASSUME DocAssumption, HeapAssumption, NilAssumption, TableInv, HeapInv', OrderInv',
           NEW S, AllocMove(S, {}), Blank, ReadMove(S)
    PROVE  Tables!Seen(ClientTable, ClientTable')
<1>1. /\ \A s \in S : Names(S)[s] \in View
      /\ \A v \in View : meta[v] # "free" => meta'[v] = meta[v] /\ node'[v] = node[v]
  BY AllocFacts DEF TableInv, IInv
<1>2. \A v \in View :
         /\ meta[v] = "free" => ClientTable[v] = Nil
         /\ meta[v] # "free" => Sound(ClientTable, ClientTable[v])
  BY TablesSound
<1>3. \A v \in View :
         /\ ClientTable[v] = TableAs(meta[v], node[v], built[v], keys[v], values[v], cache[v], slots[v])
         /\ ClientTable'[v] =
              TableAs(meta'[v], node'[v], built'[v], keys'[v], values'[v], cache'[v], slots'[v])
  BY TableNow, TableThen DEF TableInv, IInv
<1>4. ASSUME NEW v \in View, meta[v] = "object"
      PROVE  Grown(S, v, ClientTable[v], ClientTable'[v])
  <2> DEFINE n == node[v]
             K == KeysAt(n, built[v], keys[v])
             g == Fields(n, built[v], values[v], cache[v])
             h == Fields(n, built'[v], values'[v], cache'[v])
  <2>11. ClientTable[v] = Obj(n, K, g)
    BY <1>3, <1>4 DEF TableAs
  <2>12. meta'[v] = "object" /\ node'[v] = n /\ KeysAt(n, built'[v], keys'[v]) = K
    BY <1>1, <1>4 DEF ReadMove
  <2>13. ClientTable'[v] = Obj(n, K, h)
    BY <1>3, <2>12 DEF TableAs
  <2>1. ClientTable[v] = Obj(n, K, g) /\ ClientTable'[v] = Obj(n, K, h)
    BY <2>11, <2>13
  <2>2. K = KeysAt(node[v], built[v], keys[v]) /\ g = Fields(node[v], built[v], values[v], cache[v])
    OBVIOUS
  <2>3. \A k \in Key : /\ g[k] = FieldAt(n, built[v], values[v], cache[v], k)
                       /\ h[k] = FieldAt(n, built'[v], values'[v], cache'[v], k)
    BY DEF Fields
  <2>4. \A k \in ToSet(K) : Became(S, v, FieldAt(n, built[v], values[v], cache[v], k),
                                         FieldAt(n, built'[v], values'[v], cache'[v], k))
    BY <1>4 DEF ReadMove
  <2>5. n \in Node
    BY DEF TableInv, IInv, HeapInv, HeapTypeOK
  <2> HIDE DEF K, g, h
  <2>14. OwnFields(K, g)
    BY <1>4, <2>2, FieldFacts
  <2>6. K \in Seq(Key) /\ \A q \in ToSet(K) : g[q] \in Entry
    BY <2>14 DEF OwnFields
  <2>7. \A q \in ToSet(K) : q \in Key
    BY <2>6 DEF ToSet
  <2>8. \A q \in ToSet(K) : g[q] \in Entry /\ Became(S, v, g[q], h[q])
    BY <2>3, <2>4, <2>6, <2>7
  <2>9. Grown(S, v, Obj(n, K, g), Obj(n, K, h))
    BY <1>1, <2>5, <2>6, <2>8, ObjGrown
  <2>10. QED
    BY <2>1, <2>9
<1>5. ASSUME NEW v \in View, meta[v] = "array"
      PROVE  Grown(S, v, ClientTable[v], ClientTable'[v])
  <2> DEFINE n == node[v]
             q == Elements(n, slots[v])
             r == Elements(n, slots'[v])
  <2>1. ClientTable[v] = Arr(n, q) /\ ClientTable'[v] = Arr(n, r)
    BY <1>1, <1>3, <1>5 DEF TableAs
  <2>2. q = Elements(node[v], slots[v])
    OBVIOUS
  <2>3. DOMAIN q = DOMAIN Item[n] /\ DOMAIN r = DOMAIN Item[n]
        /\ \A i \in DOMAIN Item[n] :
              /\ q[i] = (IF slots[v][i] # Nil THEN slots[v][i] ELSE Item[n][i])
              /\ r[i] = (IF slots'[v][i] # Nil THEN slots'[v][i] ELSE Item[n][i])
    BY DEF Elements
  <2>4. \A i \in DOMAIN Item[n] :
           \/ slots'[v][i] = slots[v][i]
           \/ slots[v][i] = Nil /\ slots'[v][i] # Nil /\ Became(S, v, Item[n][i], slots'[v][i])
    BY <1>5 DEF ReadMove
  <2>5. n \in Node
    BY DEF TableInv, IInv, HeapInv, HeapTypeOK
  <2> HIDE DEF q
  <2>6. q \in Seq(Entry) /\ Len(q) = Len(Item[n])
    BY <1>5, <2>2, ElementFacts
  <2> HIDE DEF n, r
  <2>7. ASSUME NEW i \in DOMAIN q
        PROVE  Became(S, v, q[i], r[i])
    <3>1. /\ q[i] = (IF slots[v][i] # Nil THEN slots[v][i] ELSE Item[n][i])
          /\ r[i] = (IF slots'[v][i] # Nil THEN slots'[v][i] ELSE Item[n][i])
      BY <2>3
    <3>2. CASE slots'[v][i] = slots[v][i]
      BY <3>1, <3>2 DEF Became
    <3>3. CASE slots[v][i] = Nil /\ slots'[v][i] # Nil /\ Became(S, v, Item[n][i], slots'[v][i])
      <4>1. q[i] = Item[n][i] /\ r[i] = slots'[v][i]
        BY <3>1, <3>3
      <4>2. QED
        BY <4>1, <3>3
    <3>4. QED
      BY <2>3, <2>4, <3>2, <3>3
  <2>8. r \in Seq(Entry) /\ Len(r) = Len(q)
    <3> DEFINE l == Len(q)
    <3>1. \A i \in DOMAIN q : q[i] \in Entry
      BY <2>6
    <3>2. \A i \in DOMAIN q : r[i] \in Entry
      BY <3>1, <2>7, <1>1 DEF Became, Entry, Val
    <3>3. r = [i \in DOMAIN r |-> r[i]]
      BY DEF r, Elements
    <3>4. DOMAIN q = 1..l
      BY <2>6
    <3>5. r \in [1..l -> Entry] /\ l \in Nat
      BY <3>2, <3>3, <3>4, <2>3, <2>6
    <3> HIDE DEF l
    <3>6. r \in Seq(Entry) /\ Len(r) = l
      BY <3>5, ItemsSeq
    <3>7. QED
      BY <3>6 DEF l
  <2>9. Grown(S, v, Arr(n, q), Arr(n, r))
    BY <1>1, <2>5, <2>6, <2>7, <2>8, ArrGrown
  <2>10. QED
    BY <2>1, <2>9
<1>6. ASSUME NEW v \in View, meta[v] = "plain"
      PROVE  Grown(S, v, ClientTable[v], ClientTable'[v])
  <2> DEFINE n == node[v]
             q == Filling(slots[v])
  <2>1. ClientTable[v] = Arr(n, q) /\ ClientTable'[v] = Arr(n, q)
    BY <1>1, <1>3, <1>6 DEF TableAs, ReadMove
  <2>2. q = Filling(slots[v])
    OBVIOUS
  <2>3. n \in Node
    BY DEF TableInv, IInv, HeapInv, HeapTypeOK
  <2> HIDE DEF q, n
  <2>4. q \in Seq(Val)
    BY <1>6, <2>2, FillingFacts
  <2>5. q \in Seq(Entry)
    BY <2>4 DEF Entry
  <2>6. Grown(S, v, Arr(n, q), Arr(n, q))
    BY <1>1, <2>3, <2>5, ArrGrown DEF Became
  <2>7. QED
    BY <2>1, <2>6
<1>7. \A v \in View : meta[v] # "free" => Grown(S, v, ClientTable[v], ClientTable'[v])
  BY <1>4, <1>5, <1>6 DEF TableInv, IInv, HeapInv, HeapTypeOK
<1> DEFINE mid == ClientTable
<1>8. /\ \A v \in View : meta[v] = "free" => mid[v] = Nil
      /\ \A v \in View : meta[v] # "free" =>
            Sound(mid, mid[v]) /\ Grown(S, v, mid[v], ClientTable'[v])
  BY <1>2, <1>7
<1> HIDE DEF mid
<1>9. Tables!Seen(mid, ClientTable')
  BY <1>8, StepSeen
<1>10. QED
  BY <1>9 DEF mid

-----------------------------------------------------------------------------
(* Reads, loops and walks.                                                  *)

LEMMA OnlyItem ==
    ASSUME NEW n, NEW k, HasKey(n, k), ~Duplicated(n, k)
    PROVE  FirstItem(n, k) = LastItem(n, k)
<1> DEFINE P == Positions(n, k)
<1>1. PICK i \in P : \A j \in P : j = i
  BY DEF HasKey, Duplicated
<1>2. P = {i}
  BY <1>1
<1> HIDE DEF P
<1>3. FirstItem(n, k) = Item[n][CHOOSE h \in {i} : \A j \in {i} : h <= j]
  BY <1>2 DEF FirstItem, P
<1>4. LastItem(n, k) = Item[n][CHOOSE h \in {i} : \A j \in {i} : j <= h]
  BY <1>2 DEF LastItem, P
<1>5. QED
  BY <1>3, <1>4

\* CHILD_CACHE gains a child or, of a repeated key, loses one.
LEMMA CacheRead ==
    ASSUME DocAssumption, HeapAssumption, TableInv, NEW S, AllocMove(S, {}), CacheMove(S), ChildKept,
           UNCHANGED <<built, keys, values, slots>>
    PROVE  ReadMove(S)
<1> SUFFICES ASSUME NEW v \in View, meta[v] = "object",
                    NEW k \in ToSet(KeysAt(node[v], built[v], keys[v]))
             PROVE  Became(S, v, FieldAt(node[v], built[v], values[v], cache[v], k),
                                 FieldAt(node[v], built[v], values[v], cache'[v], k))
  BY DEF ReadMove
<1>1. CASE built[v] \/ cache'[v][k] = cache[v][k] \/ Duplicated(node[v], k)
  BY <1>1 DEF Became, FieldAt
<1>2. CASE ~built[v] /\ cache'[v][k] # cache[v][k] /\ ~Duplicated(node[v], k)
  <2>1. node[v] \in Node /\ Kind[node[v]] = "object"
    BY ObjectNode DEF TableInv, IInv
  <2>2. k \in Key /\ HasKey(node[v], k)
    BY <1>2, <2>1, FirstOrderFacts DEF KeysAt
  <2>3. cache[v][k] = Nil
    BY <1>2, <2>2 DEF ChildKept
  <2> DEFINE s == <<v, FirstItem(node[v], k)>>
  <2>4. s \in S /\ cache'[v][k] = Names(S)[s]
    BY <1>2, <2>2, <2>3 DEF CacheMove
  <2>5. FirstItem(node[v], k) = LastItem(node[v], k)
    BY <1>2, <2>2, OnlyItem
  <2>6. s[2] \in Node /\ Names(S)[s] \in View
    BY <2>4, AllocFacts DEF TableInv, IInv
  <2>7. Names(S)[s] # Nil /\ LastItem(node[v], k) \in Node
    BY <2>5, <2>6 DEF HeapAssumption
  <2>8. /\ FieldAt(node[v], built[v], values[v], cache[v], k) = LastItem(node[v], k)
        /\ FieldAt(node[v], built[v], values[v], cache'[v], k) = Names(S)[s]
    BY <1>2, <2>3, <2>4, <2>7 DEF FieldAt
  <2>9. s = <<v, LastItem(node[v], k)>>
    BY <2>5
  <2> HIDE DEF s
  <2>10. QED
    BY <2>4, <2>7, <2>8, <2>9 DEF Became
<1>3. QED
  BY <1>1, <1>2

\* a[i] of an array view.
LEMMA IndexRead ==
    ASSUME DocAssumption, HeapAssumption, TableInv, NEW v \in View, NEW i \in Index, ReadIndex(v, i)
    PROVE  ReadMove({<<v, Item[node[v]][i]>>})
<1> DEFINE s == <<v, Item[node[v]][i]>>
           S == {s}
<1>1. /\ meta[v] = "array" /\ slots[v][i] = Nil /\ Item[node[v]][i] \in Node
      /\ UNCHANGED <<built, keys, values, cache>>
  BY DEF ReadIndex
<1>2. AllocMove(S, {}) /\ slots' = [slots EXCEPT ![v][i] = Names(S)[s]]
  BY ReadIndexAlloc DEF TableInv, IInv
<1>3. Names(S)[s] \in View
  BY <1>2, AllocFacts DEF TableInv, IInv
<1>4. /\ \A w \in View : w # v => slots'[w] = slots[w]
      /\ \A j \in Index : slots'[v][j] = IF j = i THEN Names(S)[s] ELSE slots[v][j]
  BY <1>2 DEF TableInv, IInv, HeapInv, HeapTypeOK
<1>5. \A w \in View : meta[w] = "array" => \A j \in DOMAIN Item[node[w]] : j \in Index
  BY ElementFacts DEF TableInv, IInv, HeapInv, HeapTypeOK, DocAssumption, KindOK, Lazy, Index, HeapAssumption
<1>6. Became(S, v, Item[node[v]][i], Names(S)[s]) /\ Names(S)[s] # Nil
  BY <1>1, <1>3 DEF Became, HeapAssumption
<1> HIDE DEF s, S
<1>7. ASSUME NEW w \in View, meta[w] = "array", NEW j \in DOMAIN Item[node[w]]
      PROVE  \/ slots'[w][j] = slots[w][j]
             \/ /\ slots[w][j] = Nil /\ slots'[w][j] # Nil
                /\ Became(S, w, Item[node[w]][j], slots'[w][j])
  <2>1. j \in Index
    BY <1>5, <1>7
  <2>2. CASE w = v /\ j = i
    <3>1. slots'[v][i] = Names(S)[s]
      BY <1>4
    <3>2. Became(S, v, Item[node[v]][i], slots'[v][i]) /\ slots'[v][i] # Nil
      BY <1>6, <3>1
    <3>3. QED
      BY <1>1, <2>2, <3>2
  <2>3. CASE w # v \/ j # i
    BY <1>4, <2>1, <2>3
  <2>4. QED
    BY <2>2, <2>3
<1>8. \A w \in View : meta[w] = "plain" => slots'[w] = slots[w]
  <2>1. \A w \in View : meta[w] = "plain" => w # v
    BY <1>1
  <2>2. QED
    BY <1>4, <2>1
<1>9. \A w \in View :
         /\ KeysAt(node[w], built'[w], keys'[w]) = KeysAt(node[w], built[w], keys[w])
         /\ \A k : Became(S, w, FieldAt(node[w], built[w], values[w], cache[w], k),
                                FieldAt(node[w], built'[w], values'[w], cache'[w], k))
  BY <1>1 DEF Became
<1>10. ReadMove(S)
  BY <1>7, <1>8, <1>9 DEF ReadMove
<1>11. QED
  BY <1>10 DEF S, s

\* What ensure_object_order_state leaves behind a key is what a read found there, or
\* the view made of it.
LEMMA BuiltBecame ==
    ASSUME TableInv, NEW S, DOMAIN Names(S) = S, NEW v \in View, NEW k \in Key, HasKey(node[v], k),
           NeedsDecode(v, k) => <<v, LastItem(node[v], k)>> \in S
    PROVE  Became(S, v, FieldAt(node[v], FALSE, values[v], cache[v], k), BuiltValue(v, k, Names(S)))
<1> DEFINE x == LastItem(node[v], k)
           f == Names(S)
<1>1. CASE ~Duplicated(node[v], k) /\ cache[v][k] # Nil
  <2>1. BuiltValue(v, k, f) = cache[v][k]
    BY <1>1, BuiltCached DEF TableInv
  <2>2. QED
    BY <1>1, <2>1 DEF Became, FieldAt
<1>2. CASE Duplicated(node[v], k) \/ cache[v][k] = Nil
  <2>1. FieldAt(node[v], FALSE, values[v], cache[v], k) = x
    BY <1>2 DEF FieldAt
  <2>2. BuiltValue(v, k, f) = Decoded(v, x, f)
    BY <1>2 DEF BuiltValue, NeedsDecode
  <2>3. x \in Node => <<v, x>> \in S
    BY <1>2 DEF NeedsDecode
  <2> HIDE DEF x
  <2>4. BuiltValue(v, k, f) = IF x \in Node THEN f[<<v, x>>] ELSE x
    BY <2>2, <2>3 DEF Decoded
  <2> HIDE DEF f
  <2>5. Became(S, v, x, BuiltValue(v, k, f))
    BY <2>3, <2>4 DEF Became, f
  <2>6. QED
    BY <2>1, <2>5 DEF f
<1>3. QED
  BY <1>1, <1>2

\* ensure_object_order_state for the objects a walk meets.
LEMMA BuildRead ==
    ASSUME DocAssumption, HeapAssumption, TableInv, NEW T, T \subseteq View,
           \A t \in T : meta[t] = "object" /\ ~built[t], BuildAll(T)
    PROVE  ReadMove(WalkSites(T))
<1> DEFINE S == WalkSites(T)
<1>1. /\ built' = [v \in View |-> built[v] \/ v \in T]
      /\ keys' = [v \in View |-> IF v \in T THEN FirstOrder(node[v]) ELSE keys[v]]
      /\ values' = [v \in View |-> IF v \in T THEN BuiltValues(v, Names(S)) ELSE values[v]]
      /\ UNCHANGED <<cache, slots>>
  BY DEF BuildAll, WalkSites
<1>2. AllocMove(S, {})
  BY BuildAllAlloc DEF TableInv, IInv
<1>3. DOMAIN Names(S) = S
  BY <1>2, AllocFacts DEF TableInv, IInv
<1>4. ASSUME NEW v \in T, NEW k \in Key, HasKey(node[v], k)
      PROVE  Became(S, v, FieldAt(node[v], FALSE, values[v], cache[v], k), BuiltValue(v, k, Names(S)))
  <2>1. NeedsDecode(v, k) => <<v, LastItem(node[v], k)>> \in S
    BY <1>4 DEF WalkSites, BuildSites
  <2> HIDE DEF S
  <2>2. QED
    BY <1>3, <1>4, <2>1, BuiltBecame
<1> HIDE DEF S
<1>5. ASSUME NEW v \in View, meta[v] = "object"
      PROVE  /\ KeysAt(node[v], built'[v], keys'[v]) = KeysAt(node[v], built[v], keys[v])
             /\ \A k \in ToSet(KeysAt(node[v], built[v], keys[v])) :
                   Became(S, v, FieldAt(node[v], built[v], values[v], cache[v], k),
                                FieldAt(node[v], built'[v], values'[v], cache'[v], k))
  <2>1. CASE v \in T
    <3>1. ~built[v] /\ built'[v] /\ keys'[v] = FirstOrder(node[v])
          /\ values'[v] = BuiltValues(v, Names(S))
      BY <1>1, <2>1
    <3>2. node[v] \in Node /\ Kind[node[v]] = "object"
      BY <1>5, ObjectNode DEF TableInv, IInv
    <3>3. ASSUME NEW k \in ToSet(FirstOrder(node[v]))
          PROVE  Became(S, v, FieldAt(node[v], built[v], values[v], cache[v], k),
                              FieldAt(node[v], built'[v], values'[v], cache'[v], k))
      <4>1. k \in Key /\ HasKey(node[v], k)
        BY <3>2, <3>3, FirstOrderFacts
      <4>2. FieldAt(node[v], built'[v], values'[v], cache'[v], k) = BuiltValue(v, k, Names(S))
        BY <3>1, <4>1 DEF FieldAt, BuiltValues
      <4>3. FieldAt(node[v], built[v], values[v], cache[v], k)
              = FieldAt(node[v], FALSE, values[v], cache[v], k)
        BY <3>1 DEF FieldAt
      <4>4. Became(S, v, FieldAt(node[v], FALSE, values[v], cache[v], k), BuiltValue(v, k, Names(S)))
        BY <1>4, <2>1, <4>1
      <4>5. QED
        BY <4>2, <4>3, <4>4
    <3>4. QED
      BY <3>1, <3>3 DEF KeysAt
  <2>2. CASE v \notin T
    <3>1. built'[v] = built[v] /\ keys'[v] = keys[v] /\ values'[v] = values[v] /\ cache'[v] = cache[v]
      BY <1>1, <2>2 DEF TableInv, IInv, HeapInv, HeapTypeOK
    <3>2. QED
      BY <3>1 DEF Became
  <2>3. QED
    BY <2>1, <2>2
<1>6. ReadMove(S)
  BY <1>1, <1>5 DEF ReadMove
<1>7. QED
  BY <1>6 DEF S

\* t.k, and a step of a pairs loop over the source.
LEMMA CacheSeen ==
    ASSUME DocAssumption, HeapAssumption, NilAssumption, TableInv, HeapInv', OrderInv', [Next]_vars,
           UNCHANGED <<built, keys, values, slots>>,
           \E S : AllocMove(S, {}) /\ MarkMove({}) /\ CacheMove(S)
    PROVE  Tables!Seen(ClientTable, ClientTable')
<1>1. PICK S : AllocMove(S, {}) /\ MarkMove({}) /\ CacheMove(S)
  OBVIOUS
<1>2. Blank
  BY <1>1 DEF Blank, MarkMove, CacheMove
<1>3. ChildKept
  BY ChildStep DEF TableInv
<1>4. ReadMove(S)
  BY <1>1, <1>3, CacheRead
<1>5. QED
  BY <1>1, <1>2, <1>4, ReadSeen

LEMMA ReadFieldSeen ==
    ASSUME DocAssumption, HeapAssumption, NilAssumption, TableInv, HeapInv', OrderInv', [Next]_vars,
           NEW v \in View, NEW k \in Key, ReadField(v, k)
    PROVE  Tables!Seen(ClientTable, ClientTable')
<1>1. UNCHANGED <<built, keys, values, slots>>
  BY DEF ReadField
<1>2. \E S : AllocMove(S, {}) /\ MarkMove({}) /\ CacheMove(S)
  BY ReadFieldMove DEF TableInv, IInv
<1>3. QED
  BY <1>1, <1>2, CacheSeen

LEMMA NextSourceSeen ==
    ASSUME DocAssumption, HeapAssumption, NilAssumption, TableInv, HeapInv', OrderInv', [Next]_vars,
           NextSource
    PROVE  Tables!Seen(ClientTable, ClientTable')
<1>1. UNCHANGED <<built, keys, values, slots>>
  BY DEF NextSource
<1>2. \E S : AllocMove(S, {}) /\ MarkMove({}) /\ CacheMove(S)
  BY NextSourceMove DEF TableInv, IInv
<1>3. QED
  BY <1>1, <1>2, CacheSeen

LEMMA ReadIndexSeen ==
    ASSUME DocAssumption, HeapAssumption, NilAssumption, TableInv, HeapInv', OrderInv',
           NEW v \in View, NEW i \in Index, ReadIndex(v, i)
    PROVE  Tables!Seen(ClientTable, ClientTable')
<1> DEFINE S == {<<v, Item[node[v]][i]>>}
<1>1. AllocMove(S, {}) /\ slots' = [slots EXCEPT ![v][i] = Names(S)[<<v, Item[node[v]][i]>>]]
  BY ReadIndexAlloc DEF TableInv, IInv
<1>2. meta[v] = "array" /\ UNCHANGED <<cache, built>>
  BY DEF ReadIndex
<1>3. \A w \in View : meta[w] = "free" => w # v
  BY <1>2
<1>4. \A w \in View : w # v => slots'[w] = slots[w]
  BY <1>1 DEF TableInv, IInv, HeapInv, HeapTypeOK
<1>5. \A w \in View : meta[w] = "free" => ~built[w]
  BY DEF TableInv, IInv, HeapInv, HeapTypeOK
<1>6. Blank
  BY <1>2, <1>3, <1>4, <1>5 DEF Blank
<1>7. ReadMove(S)
  BY IndexRead
<1> HIDE DEF S
<1>8. QED
  BY <1>1, <1>6, <1>7, ReadSeen

\* A step of a loop over an array view makes a view and keeps it nowhere.
LEMMA NextArraySeen ==
    ASSUME DocAssumption, HeapAssumption, NilAssumption, TableInv, HeapInv', OrderInv', NextArray
    PROVE  Tables!Seen(ClientTable, ClientTable')
<1>1. UNCHANGED <<cache, built, keys, values, slots>>
  BY DEF NextArray
<1>2. PICK S : AllocMove(S, {})
  BY NextArrayAlloc DEF TableInv, IInv
<1>3. Blank
  BY <1>1 DEF Blank, TableInv, IInv, HeapInv, HeapTypeOK
<1>4. ReadMove(S)
  BY <1>1 DEF ReadMove, Became
<1>5. QED
  BY <1>2, <1>3, <1>4, ReadSeen

LEMMA BuildAllSeen ==
    ASSUME DocAssumption, HeapAssumption, NilAssumption, TableInv, HeapInv', OrderInv',
           NEW T, T \subseteq View, \A t \in T : meta[t] = "object" /\ ~built[t], BuildAll(T)
    PROVE  Tables!Seen(ClientTable, ClientTable')
<1> DEFINE S == WalkSites(T)
<1>1. AllocMove(S, {})
  BY BuildAllAlloc DEF TableInv, IInv
<1>2. ReadMove(S)
  BY BuildRead
<1>3. UNCHANGED <<cache, slots>> /\ built' = [v \in View |-> built[v] \/ v \in T]
  BY DEF BuildAll
<1>4. \A v \in View : meta[v] = "free" => ~built[v] /\ v \notin T
  BY DEF TableInv, IInv, HeapInv, HeapTypeOK
<1>5. Blank
  BY <1>3, <1>4 DEF Blank
<1> HIDE DEF S
<1>6. QED
  BY <1>1, <1>2, <1>5, ReadSeen

-----------------------------------------------------------------------------
(* Assignments.                                                             *)

\* A table of a client is a record.
LEMMA TableShape ==
    ASSUME DocAssumption, HeapAssumption, TableInv, NEW v \in View, meta[v] # "free", NEW S
    PROVE  Grown(S, v, ClientTable[v], ClientTable[v]) \/ ClientTable[v] = Nil
<1> DEFINE c == ClientTable[v]
<1>1. c = TableAs(meta[v], node[v], built[v], keys[v], values[v], cache[v], slots[v])
  BY TableNow DEF TableInv, IInv
<1>2. \E kd, ks, q, n : c = [kind |-> kd, keys |-> ks, items |-> q, from |-> n]
  <2>1. CASE meta[v] = "object"
    BY <1>1, <2>1 DEF TableAs, Obj
  <2>2. CASE meta[v] # "object"
    <3>1. \E q : c = Arr(node[v], q)
      BY <1>1, <2>2 DEF TableAs
    <3>2. QED
      BY <3>1 DEF Arr
  <2>3. QED
    BY <2>1, <2>2
<1> HIDE DEF c
<1>3. c = [c EXCEPT !.items = c.items]
  BY <1>2
<1>4. c # Nil => Grown(S, v, c, c)
  BY <1>3 DEF Grown, Became
<1>5. QED
  BY <1>4 DEF c

\* What a step leaves of table w.
Untouched(w) ==
    /\ built'[w] = built[w] /\ keys'[w] = keys[w] /\ values'[w] = values[w]
    /\ cache'[w] = cache[w] /\ slots'[w] = slots[w]

\* An assignment makes c of the table of v; then the tables made in its course appear.
LEMMA WriteSeen ==
    ASSUME DocAssumption, HeapAssumption, NilAssumption, TableInv, HeapInv', OrderInv',
           NEW S, NEW P, AllocMove(S, P), Blank,
           NEW v \in View, meta[v] # "free", P \subseteq {v},
           \A w \in View : w # v => Untouched(w),
           NEW c, Sound(ClientTable, c), Grown(S, v, c, ClientTable'[v])
    PROVE  Tables!Seen([ClientTable EXCEPT ![v] = c], ClientTable')
<1> DEFINE old == ClientTable
           new == ClientTable'
           mid == [old EXCEPT ![v] = c]
<1>1. \A w \in View :
         /\ meta[w] = "free" => old[w] = Nil
         /\ meta[w] # "free" => Sound(old, old[w]) /\ old[w] # Nil
  BY TablesSound
<1>2. \A w \in View : meta[w] # "free" => Grown(S, w, old[w], old[w])
  BY <1>1, TableShape
<1>3. ASSUME NEW w \in View, meta[w] # "free", w # v
      PROVE  new[w] = old[w]
  <2>1. old[w] = TableAs(meta[w], node[w], built[w], keys[w], values[w], cache[w], slots[w])
    BY TableNow DEF TableInv, IInv
  <2>2. new[w] = TableAs(meta'[w], node'[w], built'[w], keys'[w], values'[w], cache'[w], slots'[w])
    BY TableThen
  <2>3. meta'[w] = meta[w] /\ node'[w] = node[w]
    <3>1. meta'[w] = (IF w \in P THEN "plain" ELSE meta[w]) /\ node'[w] = node[w]
      BY <1>3, AllocFacts DEF TableInv, IInv
    <3>2. w \notin P
      BY <1>3
    <3>3. QED
      BY <3>1, <3>2
  <2>4. Untouched(w)
    BY <1>3
  <2> HIDE DEF old, new
  <2>5. QED
    BY <2>1, <2>2, <2>3, <2>4 DEF Untouched
<1>4. DOMAIN old = View
  BY DEF ClientTable
<1>5. Grown(S, v, c, new[v]) /\ Sound(old, c)
  OBVIOUS
<1> HIDE DEF old, new
<1>6. /\ mid[v] = c
      /\ \A w \in View : w # v => mid[w] = old[w]
  BY <1>4
<1> HIDE DEF mid
<1>7. c # Nil /\ old[v] # Nil
  BY <1>1, <1>5 DEF Sound
<1>8. ASSUME NEW d, Sound(old, d)
      PROVE  Sound(mid, d)
  BY <1>6, <1>7, <1>8 DEF Sound
<1>9. \A w \in View : meta[w] = "free" => mid[w] = Nil
  <2>1. \A w \in View : meta[w] = "free" => w # v
    OBVIOUS
  <2>2. QED
    BY <2>1, <1>1, <1>6
<1>10. ASSUME NEW w \in View, meta[w] # "free"
       PROVE  Sound(mid, mid[w]) /\ Grown(S, w, mid[w], new[w])
  <2>1. CASE w = v
    BY <2>1, <1>5, <1>6, <1>8
  <2>2. CASE w # v
    <3>1. mid[w] = old[w] /\ new[w] = old[w]
      BY <2>2, <1>3, <1>6, <1>10
    <3>2. Sound(mid, old[w])
      BY <1>1, <1>8, <1>10
    <3>3. QED
      BY <3>1, <3>2, <1>2, <1>10
  <2>3. QED
    BY <2>1, <2>2
<1>11. \A w \in View : meta[w] # "free" => Sound(mid, mid[w]) /\ Grown(S, w, mid[w], ClientTable'[w])
  BY <1>10 DEF new
<1>12. Tables!Seen(mid, ClientTable')
  BY <1>9, <1>11, StepSeen
<1>13. QED
  BY <1>12 DEF mid, old

-----------------------------------------------------------------------------
(* Elements.                                                                *)

PatchLen(l, i, x) == IF x = Nil THEN l - 1 ELSE IF i > l THEN l + 1 ELSE l
Patched(q, i, x) == [j \in 1..PatchLen(Len(q), i, x) |-> IF j = i THEN x ELSE q[j]]

\* An index a client may assign: an element, the place after the last, or, to remove
\* it, the last.
Assignable(l, i, x) == i \in Nat /\ i >= 1 /\ i <= l + 1 /\ (x = Nil => i = l)

LEMMA PatchLenFacts ==
    ASSUME NEW l \in Nat, NEW i, NEW x, Assignable(l, i, x)
    PROVE  /\ PatchLen(l, i, x) \in Nat
           /\ \A j \in 1..PatchLen(l, i, x) : j # i => j \in 1..l
           /\ i \in 1..PatchLen(l, i, x) => x # Nil
BY DEF PatchLen, Assignable

LEMMA ArrItems ==
    ASSUME NEW n, NEW q
    PROVE  /\ Arr(n, q).items = q /\ Arr(n, q).kind = "array" /\ Arr(n, q).from = n
           /\ \A s : [Arr(n, q) EXCEPT !.items = s] = Arr(n, s)
BY DEF Arr

LEMMA PatchFacts ==
    ASSUME HeapAssumption, NEW n, NEW q \in Seq(Entry), NEW i, NEW x \in Val \cup {Nil},
           Assignable(Len(q), i, x)
    PROVE  /\ Patched(q, i, x) \in Seq(Entry)
           /\ Len(Patched(q, i, x)) = PatchLen(Len(q), i, x)
           /\ Tables!PutAt(Arr(n, q), i, x) = Arr(n, Patched(q, i, x))
<1> DEFINE l == Len(q)
           m == PatchLen(l, i, x)
           r == Patched(q, i, x)
<1>1. l \in Nat /\ DOMAIN q = 1..l /\ Assignable(l, i, x)
  OBVIOUS
<1>2. r = [j \in 1..m |-> IF j = i THEN x ELSE q[j]]
  BY DEF Patched
<1>3. \A j \in 1..l : q[j] \in Entry
  BY <1>1
<1> HIDE DEF l, r
<1>4. m \in Nat /\ (\A j \in 1..m : j # i => j \in 1..l) /\ (i \in 1..m => x # Nil)
  BY <1>1, PatchLenFacts
<1> HIDE DEF m
<1>5. r \in [1..m -> Entry]
  <2>1. ASSUME NEW j \in 1..m PROVE (IF j = i THEN x ELSE q[j]) \in Entry
    <3>1. CASE j = i
      BY <3>1, <1>4 DEF Entry
    <3>2. CASE j # i
      BY <3>2, <1>3, <1>4
    <3>3. QED
      BY <3>1, <3>2
  <2>2. QED
    BY <2>1, <1>2
<1>6. r \in Seq(Entry) /\ Len(r) = m
  BY <1>4, <1>5, ItemsSeq
<1> DEFINE c == Arr(n, q)
<1>7. c.items = q /\ \A s : [c EXCEPT !.items = s] = Arr(n, s)
  BY ArrItems
<1>8. CASE x = Nil
  <2>1. m = l - 1 /\ i = l /\ l >= 1
    BY <1>1, <1>8 DEF m, PatchLen, Assignable
  <2>2. Front(q) = [j \in 1..m |-> q[j]]
    BY <2>1, <1>1 DEF Front, l
  <2>3. r = [j \in 1..m |-> q[j]]
    <3>1. \A j \in 1..m : j # i
      BY <2>1, <1>4
    <3>2. QED
      BY <3>1, <1>2
  <2> HIDE DEF c
  <2>4. Tables!PutAt(c, i, x) = [c EXCEPT !.items = Tables!Front(c.items)]
    BY <1>8 DEF Tables!PutAt
  <2>5. Tables!Front(q) = Front(q)
    BY DEF Tables!Front, Front
  <2>6. QED
    BY <2>2, <2>3, <2>4, <2>5, <1>6, <1>7 DEF r, m, l, c
<1>9. CASE x # Nil /\ i > l
  <2>1. m = l + 1 /\ i = l + 1
    BY <1>1, <1>9 DEF m, PatchLen, Assignable
  <2>2. Append(q, x) = r
    <3> DEFINE a == Append(q, x)
    <3>1. DOMAIN a = 1..m /\ \A j \in 1..m : a[j] = IF j = i THEN x ELSE q[j]
      BY <2>1, <1>1 DEF l
    <3>2. x \in Entry
      BY <1>9 DEF Entry
    <3>3. a \in Seq(Entry) /\ Len(a) = m
      BY <2>1, <3>2 DEF l
    <3> HIDE DEF a
    <3>4. \A j \in 1..m : a[j] = r[j]
      BY <3>1, <1>2
    <3>5. a = r
      BY <3>3, <3>4, <1>6, SeqEqual
    <3>6. QED
      BY <3>5 DEF a
  <2>3. Tables!PutAt(c, i, x) = [c EXCEPT !.items = Append(c.items, x)]
    BY <1>7, <1>9 DEF Tables!PutAt, l
  <2> HIDE DEF c
  <2>4. QED
    BY <2>2, <2>3, <1>6, <1>7 DEF r, m, l, c
<1>10. CASE x # Nil /\ ~(i > l)
  <2>1. m = l
    BY <1>10 DEF m, PatchLen
  <2>2. [q EXCEPT ![i] = x] = r
    BY <2>1, <1>1, <1>2, <1>10 DEF Assignable
  <2>3. Tables!PutAt(c, i, x) = [c EXCEPT !.items[i] = x]
    BY <1>7, <1>10 DEF Tables!PutAt, l
  <2>4. [c EXCEPT !.items[i] = x] = [c EXCEPT !.items = [q EXCEPT ![i] = x]]
    BY <1>7
  <2> HIDE DEF c
  <2>5. QED
    BY <2>2, <2>3, <2>4, <1>6, <1>7 DEF r, m, l, c
<1>11. QED
  BY <1>8, <1>9, <1>10

\* What an assignment to an element leaves is sound: it puts a table in, or a scalar.
LEMMA PatchSound ==
    ASSUME HeapAssumption, NilAssumption, NEW old, NEW n \in Node, NEW q \in Seq(Entry),
           \A j \in DOMAIN q : q[j] \in View => old[q[j]] # Nil,
           \A j, k \in DOMAIN q : q[j] \in Node /\ q[j] = q[k] => j = k,
           NEW i, NEW x \in Val \cup {Nil}, Assignable(Len(q), i, x), x \in View => old[x] # Nil
    PROVE  Sound(old, Arr(n, Patched(q, i, x)))
<1> DEFINE l == Len(q)
           m == PatchLen(l, i, x)
           r == Patched(q, i, x)
<1>1. l \in Nat /\ DOMAIN q = 1..l /\ Assignable(l, i, x)
  OBVIOUS
<1>2. r \in Seq(Entry) /\ Len(r) = m
  BY PatchFacts
<1>3. DOMAIN r = 1..m /\ \A j \in 1..m : r[j] = IF j = i THEN x ELSE q[j]
  BY DEF Patched
<1> HIDE DEF l, r
<1>4. (\A j \in 1..m : j # i => j \in 1..l) /\ (i \in 1..m => x # Nil)
  BY <1>1, PatchLenFacts
<1> HIDE DEF m
<1>5. x \notin Node
  BY DEF HeapAssumption, Val
<1>6. \A j \in DOMAIN r : r[j] \in View => old[r[j]] # Nil
  BY <1>1, <1>3, <1>4
<1>7. \A j, k \in DOMAIN r : r[j] \in Node /\ r[j] = r[k] => j = k
  BY <1>1, <1>3, <1>4, <1>5
<1>8. Sound(old, Arr(n, r))
  BY <1>2, <1>6, <1>7, ArrSound
<1>9. QED
  BY <1>8 DEF r

\* a[i] = x where the view remembers no child: the array is decoded into a plain
\* sequence on the way (LazyArray.__newindex).
LEMMA WriteIndexSeen ==
    ASSUME DocAssumption, HeapAssumption, NilAssumption, TableInv, HeapInv', OrderInv',
           NEW v \in View, NEW i \in Index, NEW x \in Val \cup {Nil}, WriteIndex(v, i, x)
    PROVE  Tables!SetIndex(ClientTable, ClientTable', v, i, x)
<1> DEFINE S == IndexSites(v, i)
           n == node[v]
           item == Item[n]
           q == Elements(n, slots[v])
           l == Len(q)
           m == PatchLen(l, i, x)
           p == Patched(q, i, x)
           r == Filling(slots'[v])
<1>1. AllocMove(S, {v}) /\ slots' = [slots EXCEPT ![v] = NewSlots(v, i, x)]
  BY WriteIndexAlloc DEF TableInv, IInv
<1>2. /\ UNCHANGED <<cache, built, keys, values>>
      /\ meta[v] = "array" /\ Enough(S)
      /\ i <= Len(item) + 1 /\ (x = Nil => i = Len(item))
      /\ x \in View => meta[x] # "free"
  BY DEF WriteIndex, IndexSites, ArrayLen
<1>3. q = Elements(node[v], slots[v])
  OBVIOUS
<1>4. /\ q \in Seq(Entry) /\ l = Len(item) /\ l \in Nat /\ l <= MaxLen
      /\ \A j \in DOMAIN q : q[j] \in View => meta[q[j]] # "free"
      /\ \A j, k \in DOMAIN q : q[j] \in Node /\ q[j] = q[k] => j = k
  <2> HIDE DEF q
  <2>1. QED
    BY <1>2, <1>3, ElementFacts
<1>5. i \in Nat /\ i >= 1 /\ i <= MaxLen /\ MaxLen \in Nat
  BY DEF Index, HeapAssumption
<1>6. Assignable(l, i, x)
  BY <1>2, <1>4, <1>5 DEF Assignable
<1>7. /\ \A s \in S : Names(S)[s] \in View
      /\ meta'[v] = "plain" /\ node'[v] = n
  BY <1>1, <1>2, AllocFacts DEF TableInv, IInv
<1>8. /\ n \in Node /\ DOMAIN q = DOMAIN item /\ DOMAIN q = 1..l
      /\ \A j \in DOMAIN q : q[j] = (IF slots[v][j] # Nil THEN slots[v][j] ELSE item[j])
  BY <1>4 DEF Elements, TableInv, IInv, HeapInv, HeapTypeOK
<1>9. ASSUME NEW j \in Index, j # i
      PROVE  NewElement(v, i, j, NewSlot(v, i, x, j))
  BY <1>2, <1>9, NewSlotFacts DEF TableInv
<1>10. NewSlot(v, i, x, i) = x
  BY DEF NewSlot
<1>11. /\ \A w \in View : w # v => slots'[w] = slots[w]
       /\ \A j \in Index : slots'[v][j] = NewSlot(v, i, x, j)
  BY <1>1 DEF TableInv, IInv, HeapInv, HeapTypeOK, NewSlots
<1>12. ClientTable[v] = Arr(n, q)
  BY <1>2, TableNow DEF TableInv, IInv, TableAs
<1>13. ClientTable'[v] = Arr(n, r)
  BY <1>7, TableThen DEF TableAs
<1>14. (\A j \in 1..m : j # i => j \in 1..l) /\ (i \in 1..m => x # Nil) /\ m \in Nat
  <2> HIDE DEF l
  <2>1. QED
    BY <1>4, <1>6, PatchLenFacts
<1>15. /\ p \in Seq(Entry) /\ Len(p) = m
       /\ Tables!PutAt(Arr(n, q), i, x) = Arr(n, p)
  <2>1. q \in Seq(Entry) /\ Assignable(Len(q), i, x)
    BY <1>4, <1>6
  <2> HIDE DEF q, n
  <2>2. QED
    BY <2>1, PatchFacts
<1>16. \A j \in 1..m : p[j] = IF j = i THEN x ELSE q[j]
  BY DEF Patched
<1> HIDE DEF q, p
<1>17. Sound(ClientTable, Arr(n, p))
  <2>1. /\ \A j \in DOMAIN q : q[j] \in View => ClientTable[q[j]] # Nil
        /\ x \in View => ClientTable[x] # Nil
    BY <1>2, <1>4, TablesSound
  <2>2. Sound(ClientTable, Arr(n, Patched(q, i, x)))
    <3> DEFINE old == ClientTable
    <3>1. /\ \A j \in DOMAIN q : q[j] \in View => old[q[j]] # Nil
          /\ x \in View => old[x] # Nil
      BY <2>1
    <3> HIDE DEF old, n
    <3>2. Assignable(Len(q), i, x)
      BY <1>6
    <3>3. Sound(old, Arr(n, Patched(q, i, x)))
      BY <1>4, <1>8, <3>1, <3>2, PatchSound
    <3>4. QED
      BY <3>3 DEF old
  <2>3. QED
    BY <2>2 DEF p
\* The sequence has no hole.
<1>18. \A j \in Index : slots'[v][j] # Nil <=> j <= m
  <2> SUFFICES ASSUME NEW j \in Index PROVE slots'[v][j] # Nil <=> j <= m
    OBVIOUS
  <2>1. j \in Nat /\ j >= 1
    BY DEF Index, HeapAssumption
  <2> HIDE DEF l
  <2>2. CASE j = i
    BY <2>2, <1>4, <1>5, <1>6, <1>10, <1>11 DEF PatchLen, Assignable
  <2>3. CASE j # i
    <3>1. j <= m <=> j <= l
      BY <2>1, <2>3, <1>4, <1>6 DEF PatchLen, Assignable
    <3>2. j <= l => slots'[v][j] # Nil
      BY <2>3, <1>4, <1>9, <1>11 DEF NewElement
    <3>3. ~(j <= l) => slots'[v][j] = slots[v][j]
      BY <2>3, <1>4, <1>9, <1>11 DEF NewElement
    <3>4. ~(j <= l) => slots[v][j] = Nil
      BY <1>2, <1>4 DEF TableInv, LinksOK
    <3>5. QED
      BY <3>1, <3>2, <3>3, <3>4
  <2>4. QED
    BY <2>2, <2>3
<1>19. m \in 0..MaxLen
  <2> HIDE DEF l
  <2>1. QED
    BY <1>4, <1>5, <1>6 DEF PatchLen, Assignable
<1>20. r = [j \in 1..m |-> slots'[v][j]]
  <2> DEFINE sl == slots'[v]
  <2>1. \A j \in Index : sl[j] # Nil <=> j <= m
    BY <1>18
  <2> HIDE DEF sl, m
  <2>2. Filled(sl) = m
    BY <1>19, <2>1, FilledIs
  <2>3. QED
    BY <2>2 DEF Filling, sl
<1> HIDE DEF l, m, r
<1>21. ASSUME NEW j \in 1..m
       PROVE  Became(S, v, p[j], r[j]) /\ j \in DOMAIN r
  <2>1. j \in Index /\ r[j] = NewSlot(v, i, x, j) /\ j \in DOMAIN r
    BY <1>5, <1>11, <1>19, <1>20 DEF Index
  <2>2. CASE j = i
    BY <2>1, <2>2, <1>10, <1>16 DEF Became
  <2>3. CASE j # i
    <3>1. j \in 1..l /\ j <= l
      BY <2>3, <1>4, <1>14
    <3>2. p[j] = (IF slots[v][j] # Nil THEN slots[v][j] ELSE item[j])
      BY <2>3, <3>1, <1>8, <1>16
    <3> DEFINE y == r[j]
    <3>3. NewElement(v, i, j, y)
      BY <2>1, <2>3, <1>9
    <3> HIDE DEF y
    <3>4. CASE slots[v][j] # Nil
      BY <3>2, <3>3, <3>4, <2>1 DEF NewElement, Became, y
    <3>5. CASE slots[v][j] = Nil
      <4>1. IF item[j] \in Node
            THEN <<v, item[j]>> \in S /\ y = Names(S)[<<v, item[j]>>]
            ELSE y = item[j]
        BY <3>1, <3>3, <3>5, <1>4 DEF NewElement
      <4>2. p[j] = item[j]
        BY <3>2, <3>5
      <4>3. Became(S, v, p[j], y)
        BY <4>1, <4>2 DEF Became
      <4>4. QED
        BY <4>3, <2>1 DEF y
    <3>6. QED
      BY <3>4, <3>5
  <2>4. QED
    BY <2>2, <2>3
<1>22. r \in Seq(Entry) /\ Len(r) = m
  <2>1. \A j \in 1..m : p[j] \in Entry
    BY <1>14, <1>15
  <2>2. \A j \in 1..m : r[j] \in Entry
    BY <2>1, <1>7, <1>21 DEF Became, Entry, Val
  <2>3. r \in [1..m -> Entry]
    BY <2>2, <1>20
  <2>4. QED
    BY <2>3, <1>14, ItemsSeq
<1>23. Grown(S, v, Arr(n, p), Arr(n, r))
  <2>1. Len(p) = Len(r) /\ \A j \in DOMAIN p : Became(S, v, p[j], r[j])
    <3>1. DOMAIN p = 1..m
      BY <1>15
    <3>2. QED
      BY <3>1, <1>15, <1>21, <1>22
  <2> HIDE DEF S, n
  <2>2. QED
    BY <2>1, <1>7, <1>8, <1>15, <1>22, ArrGrown
<1>24. Blank
  <2>1. \A w \in View : meta[w] = "free" => w # v /\ ~built[w]
    BY <1>2 DEF TableInv, IInv, HeapInv, HeapTypeOK
  <2>2. QED
    BY <2>1, <1>2, <1>11 DEF Blank
<1>25. \A w \in View : w # v => Untouched(w)
  BY <1>2, <1>11 DEF Untouched
<1> DEFINE c == Arr(n, p)
<1>26. Sound(ClientTable, c) /\ Grown(S, v, c, ClientTable'[v])
  BY <1>13, <1>17, <1>23
<1> HIDE DEF c, S, n
<1>27. Tables!Seen([ClientTable EXCEPT ![v] = c], ClientTable')
  <2>1. meta[v] # "free" /\ {v} \subseteq {v}
    BY <1>2
  <2>2. QED
    BY <2>1, <1>1, <1>24, <1>25, <1>26, WriteSeen
<1>28. QED
  <2> DEFINE old == ClientTable
             new == ClientTable'
  <2>1. old[v] = Arr(n, q) /\ Tables!PutAt(Arr(n, q), i, x) = c
    BY <1>12, <1>15 DEF c
  <2>2. old[v] # Nil
    BY <1>2, TablesSound
  <2>3. old[v].kind = "array" /\ old[v].items = q
    BY <2>1 DEF Arr
  <2>4. i <= Len(old[v].items) + 1 /\ (x = Nil => i = Len(old[v].items))
    BY <2>3, <1>6 DEF Assignable, l
  <2>5. Tables!Seen([old EXCEPT ![v] = c], new)
    BY <1>27
  <2> HIDE DEF old, new
  <2>6. [old EXCEPT ![v] = Tables!PutAt(old[v], i, x)] = [old EXCEPT ![v] = c]
    BY <2>1
  <2>7. Tables!SetIndex(old, new, v, i, x)
    BY <2>2, <2>3, <2>4, <2>5, <2>6 DEF Tables!SetIndex
  <2>8. QED
    BY <2>7 DEF old, new

\* What an assignment that calls no metamethod leaves alone.
LEMMA RawMove ==
    ASSUME DocAssumption, HeapAssumption, TableInv,
           NEW v \in View, NEW i \in Index, NEW x \in Val \cup {Nil}, WriteIndexRaw(v, i, x)
    PROVE  /\ AllocMove({}, {}) /\ Blank
           /\ meta[v] \in {"array", "plain"} /\ (x \in View => meta[x] # "free")
           /\ \A w \in View : w # v => Untouched(w)
           /\ \A j \in Index : slots'[v][j] = IF j = i THEN x ELSE slots[v][j]
           /\ meta' = meta /\ node' = node
<1>1. /\ UNCHANGED <<meta, node, parent, built, keys, values, cache>>
      /\ slots' = [slots EXCEPT ![v][i] = x]
      /\ meta[v] \in {"array", "plain"} /\ (x \in View => meta[x] # "free")
  BY DEF WriteIndexRaw
<1>2. AllocMove({}, {})
  BY <1>1, NoAlloc DEF TableInv, IInv
<1>3. /\ \A w \in View : w # v => slots'[w] = slots[w]
      /\ \A j \in Index : slots'[v][j] = IF j = i THEN x ELSE slots[v][j]
  BY <1>1 DEF TableInv, IInv, HeapInv, HeapTypeOK
<1>4. \A w \in View : meta[w] = "free" => w # v /\ ~built[w]
  BY <1>1 DEF TableInv, IInv, HeapInv, HeapTypeOK
<1>5. Blank
  BY <1>1, <1>3, <1>4 DEF Blank
<1>6. QED
  BY <1>1, <1>2, <1>3, <1>5 DEF Untouched

\* a[i] = x makes c of the table of v.
LEMMA RawSeen ==
    ASSUME DocAssumption, HeapAssumption, NilAssumption, TableInv, HeapInv', OrderInv',
           NEW v \in View, NEW i \in Index, NEW x \in Val \cup {Nil}, WriteIndexRaw(v, i, x),
           NEW q \in Seq(Entry), Sound(ClientTable, Arr(node[v], q)),
           ClientTable'[v] = Arr(node[v], q)
    PROVE  Tables!Seen([ClientTable EXCEPT ![v] = Arr(node[v], q)], ClientTable')
<1> DEFINE c == Arr(node[v], q)
           none == {}
<1>1. /\ AllocMove(none, none) /\ Blank
      /\ meta[v] # "free" /\ \A w \in View : w # v => Untouched(w)
  BY RawMove
<1>2. node[v] \in Node
  BY DEF TableInv, IInv, HeapInv, HeapTypeOK
<1>3. Grown(none, v, c, c)
  BY <1>2, ArrGrown DEF Became
<1>4. Sound(ClientTable, c) /\ Grown(none, v, c, ClientTable'[v]) /\ none \subseteq {v}
  BY <1>3
<1> HIDE DEF c, none
<1>5. Tables!Seen([ClientTable EXCEPT ![v] = c], ClientTable')
  BY <1>1, <1>4, WriteSeen
<1>6. QED
  BY <1>5 DEF c

\* Of a plain sequence.
LEMMA RawPlainSeen ==
    ASSUME DocAssumption, HeapAssumption, NilAssumption, TableInv, HeapInv', OrderInv',
           NEW v \in View, NEW i \in Index, NEW x \in Val \cup {Nil}, WriteIndexRaw(v, i, x),
           meta[v] = "plain"
    PROVE  Tables!SetIndex(ClientTable, ClientTable', v, i, x)
<1> DEFINE q == Filling(slots[v])
           l == Len(q)
           m == PatchLen(l, i, x)
           p == Patched(q, i, x)
           r == Filling(slots'[v])
           n == node[v]
<1>1. /\ (x \in View => meta[x] # "free")
      /\ \A j \in Index : slots'[v][j] = IF j = i THEN x ELSE slots[v][j]
      /\ meta' = meta /\ node' = node
  BY RawMove
<1>2. i <= ArrayLen(v) + 1 /\ (x = Nil => i = ArrayLen(v))
  BY DEF WriteIndexRaw
<1>3. q = Filling(slots[v])
  OBVIOUS
<1>4. /\ q \in Seq(Val) /\ l = ArrayLen(v) /\ l \in 0..MaxLen
      /\ \A j \in DOMAIN q : q[j] = slots[v][j] /\ (q[j] \in View => meta[q[j]] # "free")
  <2> HIDE DEF q
  <2>1. q \in Seq(Val)
    BY <1>3, FillingFacts
  <2>2. Len(q) = ArrayLen(v)
    BY <1>3, FillingFacts
  <2>3. Len(q) \in 0..MaxLen
    BY <1>3, FillingFacts
  <2>4. ASSUME NEW j \in DOMAIN q
        PROVE  q[j] = slots[v][j] /\ (q[j] \in View => meta[q[j]] # "free")
    BY <1>3, FillingFacts
  <2>5. QED
    BY <2>1, <2>2, <2>3, <2>4
<1>5. i \in Nat /\ i >= 1 /\ i <= MaxLen /\ MaxLen \in Nat
  BY DEF Index, HeapAssumption
<1>6. Assignable(l, i, x)
  BY <1>2, <1>4, <1>5 DEF Assignable
<1>7. ClientTable[v] = Arr(n, q) /\ ClientTable'[v] = Arr(n, r)
  BY <1>1, TableNow, TableThen DEF TableInv, IInv, TableAs
<1>8. \A j \in Index : slots[v][j] # Nil <=> j <= l
  <2>1. \A j \in Index : slots[v][j] # Nil <=> j <= ArrayLen(v)
    BY PlainFacts DEF TableInv
  <2>2. QED
    BY <2>1, <1>4
<1>9. q \in Seq(Entry)
  BY <1>4 DEF Entry
<1>10. n \in Node
  BY DEF TableInv, IInv, HeapInv, HeapTypeOK
<1> HIDE DEF q, n
<1>11. p \in Seq(Entry) /\ Len(p) = m /\ Tables!PutAt(Arr(n, q), i, x) = Arr(n, p)
  BY <1>6, <1>9, PatchFacts
<1>12. p = [j \in 1..m |-> IF j = i THEN x ELSE q[j]]
  BY DEF Patched
<1>13. DOMAIN q = 1..l
  BY <1>4
<1> HIDE DEF p, r, l
<1>14. m \in 0..MaxLen /\ \A j \in Index : slots'[v][j] # Nil <=> j <= m
  <2>1. m \in 0..MaxLen
    BY <1>4, <1>5, <1>6 DEF PatchLen, Assignable
  <2>2. \A j \in Index : slots'[v][j] # Nil <=> j <= m
    <3> SUFFICES ASSUME NEW j \in Index PROVE slots'[v][j] # Nil <=> j <= m
      OBVIOUS
    <3>1. j \in Nat /\ j >= 1
      BY DEF Index, HeapAssumption
    <3>2. CASE j = i
      BY <3>2, <1>1, <1>4, <1>5, <1>6 DEF PatchLen, Assignable
    <3>3. CASE j # i
      <4>1. j <= m <=> j <= l
        BY <3>1, <3>3, <1>4, <1>6 DEF PatchLen, Assignable
      <4>2. QED
        BY <4>1, <3>3, <1>1, <1>8
    <3>4. QED
      BY <3>2, <3>3
  <2>3. QED
    BY <2>1, <2>2
<1>15. r = [j \in 1..m |-> slots'[v][j]]
  <2> DEFINE sl == slots'[v]
  <2>1. \A j \in Index : sl[j] # Nil <=> j <= m
    BY <1>14
  <2> HIDE DEF sl, m
  <2>2. Filled(sl) = m
    BY <1>14, <2>1, FilledIs
  <2>3. QED
    BY <2>2 DEF Filling, sl, r
<1>16. p = r
  <2>1. ASSUME NEW j \in 1..m
        PROVE  (IF j = i THEN x ELSE q[j]) = slots'[v][j]
    <3>1. j \in Index
      BY <1>5, <1>14 DEF Index
    <3>2. CASE j = i
      BY <3>1, <3>2, <1>1
    <3>3. CASE j # i
      <4>1. j \in DOMAIN q
        BY <3>3, <1>4, <1>6, <1>13, PatchLenFacts
      <4>2. QED
        BY <4>1, <3>1, <3>3, <1>1, <1>4
    <3>4. QED
      BY <3>2, <3>3
  <2> HIDE DEF m
  <2>2. QED
    BY <2>1, <1>12, <1>15
<1> HIDE DEF m
<1>17. Sound(ClientTable, Arr(n, p))
  <2> DEFINE old == ClientTable
  <2>1. /\ \A j \in DOMAIN q : q[j] \in View => old[q[j]] # Nil
        /\ x \in View => old[x] # Nil
    BY <1>1, <1>4, TablesSound
  <2>2. \A j, k \in DOMAIN q : q[j] \in Node /\ q[j] = q[k] => j = k
    BY <1>4 DEF Val, HeapAssumption
  <2> HIDE DEF old
  <2>3. Assignable(Len(q), i, x)
    BY <1>6 DEF l
  <2>4. Sound(old, Arr(n, Patched(q, i, x)))
    BY <1>9, <1>10, <2>1, <2>2, <2>3, PatchSound
  <2>5. QED
    BY <2>4 DEF old, p
<1>18. Tables!Seen([ClientTable EXCEPT ![v] = Arr(n, p)], ClientTable')
  BY <1>7, <1>11, <1>16, <1>17, RawSeen DEF n
<1>19. QED
  <2> DEFINE old == ClientTable
             new == ClientTable'
  <2>1. old[v] = Arr(n, q)
    BY <1>7
  <2>2. old[v] # Nil
    BY TablesSound
  <2>3. old[v].kind = "array" /\ old[v].items = q
    BY <2>1 DEF Arr
  <2>4. i <= Len(old[v].items) + 1 /\ (x = Nil => i = Len(old[v].items))
    BY <2>3, <1>6 DEF Assignable, l
  <2>5. Tables!Seen([old EXCEPT ![v] = Arr(n, p)], new)
    BY <1>18
  <2> HIDE DEF old, new
  <2>6. [old EXCEPT ![v] = Tables!PutAt(old[v], i, x)] = [old EXCEPT ![v] = Arr(n, p)]
    BY <2>1, <1>11
  <2>7. Tables!SetIndex(old, new, v, i, x)
    BY <2>2, <2>3, <2>4, <2>5, <2>6 DEF Tables!SetIndex
  <2>8. QED
    BY <2>7 DEF old, new

\* Of an array view that remembers a child there: v[i] = nil uncovers the element of
\* the document.
LEMMA RawArraySeen ==
    ASSUME DocAssumption, HeapAssumption, NilAssumption, TableInv, HeapInv', OrderInv',
           NEW v \in View, NEW i \in Index, NEW x \in Val \cup {Nil}, WriteIndexRaw(v, i, x),
           meta[v] = "array"
    PROVE  IF x = Nil THEN Tables!Restore(ClientTable, ClientTable', v, i)
           ELSE Tables!SetIndex(ClientTable, ClientTable', v, i, x)
<1> DEFINE n == node[v]
           item == Item[n]
           q == Elements(n, slots[v])
           r == Elements(n, slots'[v])
           y == IF x = Nil THEN item[i] ELSE x
<1>1. /\ (x \in View => meta[x] # "free")
      /\ \A j \in Index : slots'[v][j] = IF j = i THEN x ELSE slots[v][j]
      /\ meta' = meta /\ node' = node
  BY RawMove
<1>2. slots[v][i] # Nil
  BY DEF WriteIndexRaw
<1>3. q = Elements(node[v], slots[v])
  OBVIOUS
<1>4. q \in Seq(Entry) /\ Len(q) = Len(item) /\ Len(q) \in Nat /\ Len(q) <= MaxLen
  <2> HIDE DEF q
  <2>1. QED
    BY <1>3, ElementFacts
<1>5. \A j \in DOMAIN q : q[j] \in View => meta[q[j]] # "free"
  <2> HIDE DEF q
  <2>1. QED
    BY <1>3, ElementFacts
<1>6. i \in Nat /\ i >= 1 /\ i <= Len(item)
  BY <1>2 DEF Index, HeapAssumption, TableInv, LinksOK
<1>7. ClientTable[v] = Arr(n, q) /\ ClientTable'[v] = Arr(n, r)
  BY <1>1, TableNow, TableThen DEF TableInv, IInv, TableAs
<1>8. n \in Node /\ Kind[n] = "array"
  BY DEF TableInv, IInv, HeapInv, HeapTypeOK, KindOK, Lazy
<1>9. item \in Seq(Scalar \cup Node) /\ DOMAIN item = 1..Len(item)
      /\ \A h, j \in DOMAIN item : item[h] \in Node /\ item[h] = item[j] => h = j
  BY <1>8 DEF DocAssumption
<1>10. /\ q = [j \in DOMAIN item |-> IF slots[v][j] # Nil THEN slots[v][j] ELSE item[j]]
       /\ r = [j \in DOMAIN item |-> IF slots'[v][j] # Nil THEN slots'[v][j] ELSE item[j]]
  BY DEF Elements
<1>11. \A j \in DOMAIN item : j \in Index
  BY <1>4, <1>9 DEF Index, HeapAssumption
<1>12. \A j \in DOMAIN item : /\ item[j] \in Scalar \cup Node
                              /\ slots[v][j] \in Val \cup {Nil}
  BY <1>9, <1>11 DEF TableInv, IInv, HeapInv, HeapTypeOK
<1>13. /\ \A z \in Val : z \notin Node
       /\ \A z \in Scalar \cup Node : z \notin View
  BY DEF HeapAssumption, Val
<1> HIDE DEF q, r, n
<1>14. r = [q EXCEPT ![i] = y]
  <2>1. \A j \in DOMAIN item : r[j] = IF j = i THEN y ELSE q[j]
    BY <1>1, <1>10, <1>11
  <2>2. r = [j \in DOMAIN item |-> r[j]] /\ DOMAIN q = DOMAIN item /\ q = [j \in DOMAIN item |-> q[j]]
    BY <1>10
  <2> HIDE DEF y
  <2>3. QED
    BY <2>1, <2>2
<1>15. /\ DOMAIN r = DOMAIN item /\ DOMAIN q = DOMAIN item
       /\ \A j \in DOMAIN item : r[j] = IF j = i THEN y ELSE q[j]
       /\ i \in DOMAIN item
  BY <1>6, <1>9, <1>10, <1>14
<1>16. y \in Entry
  BY <1>12, <1>15 DEF Entry, Val
<1>17. r \in Seq(Entry)
  <2> DEFINE l == Len(q)
  <2>1. l \in Nat /\ q \in [1..l -> Entry]
    BY <1>4
  <2> HIDE DEF y, l
  <2>2. r \in [1..l -> Entry]
    BY <2>1, <1>14, <1>16
  <2>3. QED
    BY <2>1, <2>2, ItemsSeq
<1>18. Sound(ClientTable, Arr(n, r))
  <2> DEFINE old == ClientTable
  <2>1. \A w \in View : meta[w] # "free" => old[w] # Nil
    BY TablesSound
  <2> HIDE DEF old
  <2>2. \A j \in DOMAIN r : r[j] \in View => old[r[j]] # Nil
    BY <2>1, <1>1, <1>5, <1>12, <1>13, <1>15
  <2>3. \A j \in DOMAIN r : r[j] \in Node => r[j] = item[j]
    <3>1. \A j \in DOMAIN item : q[j] \in Node => q[j] = item[j]
      BY <1>10, <1>12, <1>13
    <3>2. QED
      BY <3>1, <1>13, <1>15
  <2>4. \A j, k \in DOMAIN r : r[j] \in Node /\ r[j] = r[k] => j = k
    BY <2>3, <1>9, <1>15
  <2>5. Sound(old, Arr(n, r))
    BY <2>2, <2>4, <1>8, <1>17, ArrSound
  <2>6. QED
    BY <2>5 DEF old
<1>19. Tables!Seen([ClientTable EXCEPT ![v] = Arr(n, r)], ClientTable')
  BY <1>7, <1>17, <1>18, RawSeen DEF n
<1> DEFINE old == ClientTable
           new == ClientTable'
<1>20. old[v] = Arr(n, q)
  BY <1>7
<1>21. old[v] # Nil
  BY TablesSound
<1>22. old[v].kind = "array" /\ old[v].items = q /\ old[v].from = n
  BY <1>20 DEF Arr
<1>23. Tables!Seen([old EXCEPT ![v] = Arr(n, r)], new)
  BY <1>19
<1> HIDE DEF old, new
<1>24. CASE x # Nil
  <2>1. Assignable(Len(q), i, x)
    BY <1>4, <1>6, <1>24 DEF Assignable
  <2>2. Patched(q, i, x) = r
    <3>1. y = x /\ PatchLen(Len(q), i, x) = Len(q) /\ DOMAIN q = 1..Len(q)
      BY <1>4, <1>6, <1>24 DEF PatchLen
    <3>2. Patched(q, i, x) = [j \in 1..Len(q) |-> IF j = i THEN x ELSE q[j]]
      BY <3>1 DEF Patched
    <3> HIDE DEF y
    <3>3. r = [j \in 1..Len(q) |-> IF j = i THEN x ELSE q[j]]
      BY <3>1, <1>14
    <3>4. QED
      BY <3>2, <3>3
  <2>3. Tables!PutAt(Arr(n, q), i, x) = Arr(n, r)
    BY <2>1, <2>2, <1>4, PatchFacts
  <2>4. [old EXCEPT ![v] = Tables!PutAt(old[v], i, x)] = [old EXCEPT ![v] = Arr(n, r)]
    BY <2>3, <1>20
  <2>5. i <= Len(old[v].items) + 1 /\ (x = Nil => i = Len(old[v].items))
    BY <2>1, <1>22 DEF Assignable
  <2>6. Tables!SetIndex(old, new, v, i, x)
    BY <2>4, <2>5, <1>21, <1>22, <1>23 DEF Tables!SetIndex
  <2>7. QED
    BY <2>6, <1>24 DEF old, new
<1>25. CASE x = Nil
  <2>1. SourceLevel[n].items = item
    BY <1>8 DEF SourceLevel
  <2>2. y = SourceLevel[n].items[i]
    BY <2>1, <1>25
  <2>3. i \in DOMAIN old[v].items \cap DOMAIN SourceLevel[old[v].from].items
    BY <2>1, <1>15, <1>22
  <2> HIDE DEF y
  <2>4. Arr(n, r) = [Arr(n, q) EXCEPT !.items[i] = y]
    <3> DEFINE c == Arr(n, q)
    <3>1. c.items = q /\ \A s : [c EXCEPT !.items = s] = Arr(n, s)
      BY ArrItems
    <3> HIDE DEF c
    <3>2. [c EXCEPT !.items[i] = y] = [c EXCEPT !.items = [q EXCEPT ![i] = y]]
      BY <3>1
    <3>3. QED
      BY <3>1, <3>2, <1>14 DEF c
  <2>5. [old EXCEPT ![v].items[i] = SourceLevel[old[v].from].items[i]] = [old EXCEPT ![v] = Arr(n, r)]
    BY <2>2, <2>4, <1>20, <1>22
  <2>6. Tables!Restore(old, new, v, i)
    BY <2>3, <2>5, <1>21, <1>22, <1>23 DEF Tables!Restore
  <2>7. QED
    BY <2>6, <1>25 DEF old, new
<1>26. QED
  BY <1>24, <1>25

-----------------------------------------------------------------------------
(* Fields.                                                                  *)

Items(K, g) == [j \in DOMAIN K |-> g[K[j]]]
ObjOf(n, K, q) == [kind |-> "object", keys |-> K, items |-> q, from |-> n]

LEMMA ObjItems ==
    ASSUME NEW n, NEW K, NEW g
    PROVE  Obj(n, K, g) = ObjOf(n, K, Items(K, g))
BY DEF Obj, ObjOf, Items

\* d is c with the items s, and with the keys L and the items s.
ItemsEdit(c, s, d) == [c EXCEPT !.items = s] = d
BothEdit(c, L, s, d) == [c EXCEPT !.keys = L, !.items = s] = d

LEMMA ObjEdit ==
    ASSUME NEW n, NEW K, NEW q, NEW c, c = ObjOf(n, K, q), NEW L, NEW s
    PROVE  /\ ItemsEdit(c, s, ObjOf(n, K, s))
           /\ BothEdit(c, L, s, ObjOf(n, L, s))
<1>1. c.keys = K /\ c.items = q /\ c.kind = "object" /\ [c EXCEPT !.items = s] = ObjOf(n, K, s)
  BY DEF ObjOf
<1>2. [c EXCEPT !.keys = L, !.items = s] = ObjOf(n, L, s)
  <2> DEFINE d == [c EXCEPT !.keys = L]
             e == ObjOf(n, L, q)
  <2>1. d = e
    BY DEF ObjOf
  <2>2. [c EXCEPT !.keys = L, !.items = s] = [d EXCEPT !.items = s]
    OBVIOUS
  <2>3. [e EXCEPT !.items = s] = ObjOf(n, L, s)
    BY DEF ObjOf
  <2> HIDE DEF d, e
  <2>4. QED
    BY <2>1, <2>2, <2>3
<1>3. QED
  BY <1>1, <1>2 DEF ItemsEdit, BothEdit

\* What OrderedTables!Put makes of an object, by the places at of the key.
PutIs(c, n, K, q, k, x, at) ==
    /\ at = {} /\ x = Nil => Tables!Put(c, k, x) = c
    /\ at = {} /\ x # Nil => Tables!Put(c, k, x) = ObjOf(n, Append(K, k), Append(q, x))
    /\ \A j : at = {j} =>
          /\ x = Nil => Tables!Put(c, k, x) = ObjOf(n, RemoveAt(K, j), RemoveAt(q, j))
          /\ x # Nil => Tables!Put(c, k, x) = ObjOf(n, K, [q EXCEPT ![j] = x])

LEMMA PutForms ==
    ASSUME NEW n, NEW K, NEW q, NEW k, NEW x, NEW at, at = {j \in DOMAIN K : K[j] = k},
           NEW c, c = ObjOf(n, K, q)
    PROVE  PutIs(c, n, K, q, k, x, at)
<1> DEFINE j0 == CHOOSE l \in at : TRUE
<1>0. c.keys = K /\ c.items = q
  BY DEF ObjOf
<1>1. Tables!Put(c, k, x) =
         CASE at = {} -> IF x = Nil THEN c
                         ELSE [c EXCEPT !.keys = Append(@, k), !.items = Append(@, x)]
           [] at # {} /\ x = Nil ->
                [c EXCEPT !.keys = Tables!RemoveAt(@, j0), !.items = Tables!RemoveAt(@, j0)]
           [] OTHER -> [c EXCEPT !.items[j0] = x]
  BY <1>0 DEF Tables!Put
<1>2. ASSUME NEW j, at = {j}
      PROVE  j0 = j /\ at # {}
  BY <1>2
<1> HIDE DEF j0
<1>3. CASE at = {}
  <2>1. BothEdit(c, Append(K, k), Append(q, x), ObjOf(n, Append(K, k), Append(q, x)))
    BY ObjEdit
  <2>2. x # Nil => Tables!Put(c, k, x) = [c EXCEPT !.keys = Append(K, k), !.items = Append(q, x)]
    BY <1>0, <1>1, <1>3
  <2>3. x = Nil => Tables!Put(c, k, x) = c
    BY <1>1, <1>3
  <2>4. \A j : at # {j}
    BY <1>3
  <2>5. QED
    BY <1>3, <2>1, <2>2, <2>3, <2>4 DEF PutIs, BothEdit
<1>4. CASE at # {}
  <2>1. ASSUME NEW j, at = {j}, x = Nil
        PROVE  Tables!Put(c, k, x) = ObjOf(n, RemoveAt(K, j), RemoveAt(q, j))
    <3>1. \A s : Tables!RemoveAt(s, j) = RemoveAt(s, j)
      BY DEF Tables!RemoveAt, RemoveAt
    <3> DEFINE L == RemoveAt(K, j)
               r == RemoveAt(q, j)
    <3>a. L = Tables!RemoveAt(c.keys, j) /\ r = Tables!RemoveAt(c.items, j)
      BY <1>0, <3>1
    <3>b. Tables!Put(c, k, x) = [c EXCEPT !.keys = Tables!RemoveAt(@, j), !.items = Tables!RemoveAt(@, j)]
      BY <1>1, <1>2, <1>4, <2>1
    <3>c. [c EXCEPT !.keys = Tables!RemoveAt(@, j), !.items = Tables!RemoveAt(@, j)]
             = [c EXCEPT !.keys = Tables!RemoveAt(c.keys, j), !.items = Tables!RemoveAt(c.items, j)]
      OBVIOUS
    <3> HIDE DEF L, r
    <3>2. Tables!Put(c, k, x) = [c EXCEPT !.keys = L, !.items = r]
      BY <3>a, <3>b, <3>c
    <3>3. BothEdit(c, RemoveAt(K, j), RemoveAt(q, j), ObjOf(n, RemoveAt(K, j), RemoveAt(q, j)))
      BY ObjEdit
    <3>4. QED
      BY <3>2, <3>3 DEF BothEdit, L, r
  <2>2. ASSUME NEW j, at = {j}, x # Nil
        PROVE  Tables!Put(c, k, x) = ObjOf(n, K, [q EXCEPT ![j] = x])
    <3>1. Tables!Put(c, k, x) = [c EXCEPT !.items[j] = x]
      BY <1>1, <1>2, <1>4, <2>2
    <3>2. [c EXCEPT !.items[j] = x] = [c EXCEPT !.items = [q EXCEPT ![j] = x]]
      BY <1>0
    <3>3. ItemsEdit(c, [q EXCEPT ![j] = x], ObjOf(n, K, [q EXCEPT ![j] = x]))
      BY ObjEdit
    <3>4. QED
      BY <3>1, <3>2, <3>3 DEF ItemsEdit
  <2>3. QED
    BY <1>4, <2>1, <2>2 DEF PutIs
<1>5. QED
  BY <1>3, <1>4

LEMMA ItemsFacts ==
    ASSUME NEW K \in Seq(Key), NEW g, \A q \in ToSet(K) : g[q] \in Entry
    PROVE  /\ Items(K, g) \in Seq(Entry) /\ Len(Items(K, g)) = Len(K)
           /\ \A j \in 1..Len(K) : Items(K, g)[j] = g[K[j]]
<1> DEFINE l == Len(K)
<1>1. l \in Nat /\ DOMAIN K = 1..l
  OBVIOUS
<1>2. \A j \in 1..l : g[K[j]] \in Entry
  BY <1>1 DEF ToSet
<1> HIDE DEF l
<1>3. Items(K, g) = [j \in 1..l |-> g[K[j]]]
  BY <1>1 DEF Items
<1>4. Items(K, g) \in [1..l -> Entry]
  BY <1>2, <1>3
<1>5. Items(K, g) \in Seq(Entry) /\ Len(Items(K, g)) = l
  BY <1>1, <1>4, ItemsSeq
<1>6. QED
  BY <1>3, <1>5 DEF l

Entries(K, g) == \A q \in ToSet(K) : g[q] \in Entry

\* h is g but for x behind k.
Replaced(g, k, x, h) == \A q \in Key : h[q] = IF q = k THEN x ELSE g[q]

\* An assignment to a key of an ordered table does to its keys what LazyObject.__newindex
\* does to ORDER_KEYS.
LEMMA PutFacts ==
    ASSUME HeapAssumption, NEW n, NEW K \in Seq(Key), IsInjective(K),
           NEW g, Entries(K, g),
           NEW k \in Key, NEW x \in Val \cup {Nil}, NEW vs, vs[k] # Nil <=> k \in ToSet(K),
           NEW h, Replaced(g, k, x, h)
    PROVE  Tables!Put(Obj(n, K, g), k, x) = Obj(n, KeysAfter(K, vs, k, x), h)
<1>0. /\ \A q \in Key : h[q] = IF q = k THEN x ELSE g[q]
      /\ \A q \in ToSet(K) : g[q] \in Entry
  BY DEF Entries, Replaced
<1> USE <1>0
<1> DEFINE c == Obj(n, K, g)
           l == Len(K)
           it == Items(K, g)
           at == {j \in DOMAIN K : K[j] = k}
<1>1. l \in Nat /\ DOMAIN K = 1..l /\ \A j \in 1..l : K[j] \in Key /\ K[j] \in ToSet(K)
  BY DEF ToSet
<1>2. it \in Seq(Entry) /\ Len(it) = l /\ \A j \in 1..l : it[j] = g[K[j]]
  BY ItemsFacts
<1>3. c = ObjOf(n, K, it)
  BY ObjItems
<1>4. ASSUME NEW L PROVE Obj(n, L, h) = ObjOf(n, L, Items(L, h))
  BY ObjItems
<1> HIDE DEF c, l, it
<1>5. /\ at = {} /\ x = Nil => Tables!Put(c, k, x) = c
      /\ at = {} /\ x # Nil => Tables!Put(c, k, x) = ObjOf(n, Append(K, k), Append(it, x))
      /\ \A j : at = {j} =>
            /\ x = Nil => Tables!Put(c, k, x) = ObjOf(n, RemoveAt(K, j), RemoveAt(it, j))
            /\ x # Nil => Tables!Put(c, k, x) = ObjOf(n, K, [it EXCEPT ![j] = x])
  <2>1. at = {j \in DOMAIN K : K[j] = k}
    OBVIOUS
  <2> HIDE DEF at
  <2>2. PutIs(c, n, K, it, k, x, at)
    BY <2>1, <1>3, PutForms
  <2>3. QED
    BY <2>2 DEF PutIs
<1>6. CASE k \notin ToSet(K)
  <2>1. at = {} /\ \A j \in 1..l : K[j] # k
    BY <1>1, <1>6
  <2>2. CASE x = Nil
    <3>1. KeysAfter(K, vs, k, x) = K
      <4>1. RemoveFirst(K, k) = K
        BY <2>1 DEF RemoveFirst, l
      <4>2. QED
        BY <4>1, <2>2 DEF KeysAfter
    <3>2. Items(K, h) = it
      <4>1. \A j \in DOMAIN K : h[K[j]] = g[K[j]]
        BY <1>1, <2>1
      <4>2. QED
        BY <4>1 DEF Items, it
    <3>3. QED
      BY <3>1, <3>2, <2>1, <2>2, <1>3, <1>4, <1>5 DEF c
  <2>3. CASE x # Nil
    <3> DEFINE L == Append(K, k)
    <3>1. KeysAfter(K, vs, k, x) = L
      BY <2>3, <1>6 DEF KeysAfter
    <3>2. L \in Seq(Key) /\ Len(L) = l + 1 /\ \A j \in 1..l + 1 : L[j] = IF j = l + 1 THEN k ELSE K[j]
      BY <1>1 DEF l
    <3>3. x \in Entry
      BY <2>3 DEF Entry
    <3> HIDE DEF L
    <3>4. \A q \in ToSet(L) : h[q] \in Entry
      <4>1. \A j \in DOMAIN L : h[L[j]] \in Entry
        <5>1. DOMAIN L = 1..l + 1
          BY <3>2
        <5>2. \A j \in 1..l + 1 : j # l + 1 => j \in 1..l
          BY <1>1
        <5>3. QED
          BY <5>1, <5>2, <3>2, <3>3, <1>1
      <4>2. QED
        BY <4>1 DEF ToSet
    <3> DEFINE a == Append(it, x)
               b == Items(L, h)
    <3>5. b \in Seq(Entry) /\ Len(b) = l + 1 /\ \A j \in 1..l + 1 : b[j] = h[L[j]]
      BY <3>2, <3>4, ItemsFacts
    <3>6. a \in Seq(Entry) /\ Len(a) = l + 1 /\ \A j \in 1..l + 1 : a[j] = IF j = l + 1 THEN x ELSE it[j]
      BY <3>3, <1>1, <1>2
    <3> HIDE DEF a, b
    <3>7. ASSUME NEW j \in 1..l + 1 PROVE a[j] = b[j]
      <4>1. CASE j = l + 1
        BY <4>1, <3>2, <3>5, <3>6
      <4>2. CASE j # l + 1
        <5>1. j \in 1..l
          BY <4>2, <1>1
        <5>2. a[j] = g[K[j]] /\ b[j] = h[K[j]]
          BY <5>1, <4>2, <3>2, <3>5, <3>6, <1>2
        <5>3. QED
          BY <5>1, <5>2, <2>1, <1>1
      <4>3. QED
        BY <4>1, <4>2
    <3>8. a = b
      BY <3>5, <3>6, <3>7, SeqEqual
    <3>9. Tables!Put(c, k, x) = ObjOf(n, L, a)
      BY <2>1, <2>3, <1>5 DEF L, a
    <3>10. QED
      BY <3>1, <3>8, <3>9, <1>4 DEF b, c
  <2>4. QED
    BY <2>2, <2>3
<1>7. CASE k \in ToSet(K)
  <2>1. PICK i \in 1..l : K[i] = k
    BY <1>1, <1>7 DEF ToSet
  <2>2. at = {i} /\ \A j \in 1..l : K[j] = k => j = i
    BY <2>1, <1>1 DEF IsInjective
  <2> HIDE DEF at
  <2>3. CASE x = Nil
    <3> DEFINE L == RemoveAt(K, i)
    <3>1. KeysAfter(K, vs, k, x) = L
      <4>1. RemoveFirst(K, k) = L
        BY <2>1, RemoveIs DEF l
      <4>2. QED
        BY <4>1, <2>3 DEF KeysAfter
    <3>2. L \in Seq(Key) /\ Len(L) = l - 1
          /\ \A j \in 1..l - 1 : L[j] = IF j < i THEN K[j] ELSE K[j + 1]
      BY RemoveAtFacts DEF l
    <3> HIDE DEF L
    <3>3. ASSUME NEW j \in 1..l - 1
          PROVE  /\ L[j] = K[IF j < i THEN j ELSE j + 1]
                 /\ (IF j < i THEN j ELSE j + 1) \in 1..l /\ (IF j < i THEN j ELSE j + 1) # i
      BY <3>2, <1>1
    <3>4. \A j \in 1..l - 1 : L[j] # k /\ L[j] \in ToSet(K) /\ L[j] \in Key
      BY <3>3, <2>2, <1>1
    <3>5. l - 1 \in Nat
      BY <1>1, <2>1
    <3>6. \A q \in ToSet(L) : h[q] \in Entry
      <4>1. DOMAIN L = 1..l - 1
        BY <3>2
      <4>2. \A j \in DOMAIN L : h[L[j]] \in Entry
        BY <4>1, <3>4
      <4>3. QED
        BY <4>2 DEF ToSet
    <3> DEFINE a == RemoveAt(it, i)
               b == Items(L, h)
    <3>7. b \in Seq(Entry) /\ Len(b) = l - 1 /\ \A j \in 1..l - 1 : b[j] = h[L[j]]
      BY <3>2, <3>6, ItemsFacts
    <3>8. a \in Seq(Entry) /\ Len(a) = l - 1
          /\ \A j \in 1..l - 1 : a[j] = IF j < i THEN it[j] ELSE it[j + 1]
      BY <1>2, RemoveAtFacts
    <3> HIDE DEF a, b
    <3>9. ASSUME NEW j \in 1..l - 1 PROVE a[j] = b[j]
      <4> DEFINE m == IF j < i THEN j ELSE j + 1
      <4>1. m \in 1..l /\ L[j] = K[m] /\ a[j] = it[m]
        BY <3>3, <3>8
      <4> HIDE DEF m
      <4>2. a[j] = g[L[j]]
        BY <4>1, <1>2
      <4>3. QED
        BY <4>2, <3>4, <3>7
    <3>10. a = b
      BY <3>7, <3>8, <3>9, SeqEqual
    <3>11. Tables!Put(c, k, x) = ObjOf(n, L, a)
      BY <2>2, <2>3, <1>5 DEF L, a
    <3>12. QED
      BY <3>1, <3>10, <3>11, <1>4 DEF b, c
  <2>4. CASE x # Nil
    <3>1. KeysAfter(K, vs, k, x) = K
      BY <2>4, <1>7 DEF KeysAfter
    <3>2. [it EXCEPT ![i] = x] = Items(K, h)
      <4>1. \A j \in 1..l : h[K[j]] = IF j = i THEN x ELSE it[j]
        BY <2>1, <2>2, <1>1, <1>2
      <4>2. Items(K, h) = [j \in 1..l |-> h[K[j]]]
        BY <1>1 DEF Items
      <4>3. it = [j \in 1..l |-> it[j]]
        BY <1>2
      <4>4. QED
        BY <4>1, <4>2, <4>3
    <3>3. Tables!Put(c, k, x) = ObjOf(n, K, [it EXCEPT ![i] = x])
      BY <2>2, <2>4, <1>5
    <3>4. QED
      BY <3>1, <3>2, <3>3, <1>4 DEF c
  <2>5. QED
    BY <2>3, <2>4
<1>8. QED
  BY <1>6, <1>7

\* vs maps the keys K, and all but k to what g has there or what that has become.
Ordered(S, v, k, K, g, vs) ==
    /\ DOMAIN vs = Key
    /\ \A q \in Key : vs[q] # Nil <=> q \in ToSet(K)
    /\ \A q \in ToSet(K) : q # k => Became(S, v, g[q], vs[q])

\* The values ensure_object_order_state leaves, or finds, behind the keys.
LEMMA OrderedFacts ==
    ASSUME DocAssumption, HeapAssumption, TableInv, NEW v \in View, meta[v] = "object", NEW k \in Key,
           NEW S, S = FieldSites(v, k), Enough(S), DOMAIN Names(S) = S,
           NEW K, K = KeysAt(node[v], built[v], keys[v]),
           NEW g, g = Fields(node[v], built[v], values[v], cache[v]),
           NEW vs, vs = IF built[v] THEN values[v] ELSE BuiltValues(v, Names(S))
    PROVE  Ordered(S, v, k, K, g, vs)
<1>1. CASE built[v]
  <2>1. K = keys[v] /\ vs = values[v] /\ ToSet(K) = {q \in Key : vs[q] # Nil}
    BY <1>1 DEF KeysAt, TableInv, OrderInv, OrderAgrees
  <2>2. \A q \in Key : g[q] = vs[q]
    BY <1>1, <2>1 DEF Fields, FieldAt
  <2>3. DOMAIN vs = Key
    BY <2>1 DEF TableInv, OrderInv, OrderTypeOK
  <2>4. QED
    BY <2>1, <2>2, <2>3 DEF Became, Ordered
<1>2. CASE ~built[v]
  <2>1. node[v] \in Node /\ Kind[node[v]] = "object"
    BY ObjectNode DEF TableInv, IInv
  <2>2. K = FirstOrder(node[v]) /\ ToSet(K) = {q \in Key : HasKey(node[v], q)}
    BY <1>2, <2>1, FirstOrderFacts DEF KeysAt
  <2>3. DOMAIN vs = Key /\ \A q \in Key : vs[q] = BuiltValue(v, q, Names(S))
    BY <1>2 DEF BuiltValues
  <2>4. \A q \in Key : g[q] = FieldAt(node[v], FALSE, values[v], cache[v], q)
    BY <1>2 DEF Fields, FieldAt
  <2>5. ASSUME NEW q \in Key
        PROVE  BuiltValue(v, q, Names(S)) # Nil <=> HasKey(node[v], q)
    BY BuiltFacts DEF TableInv, IInv
  <2>6. ASSUME NEW q \in Key, q # k, HasKey(node[v], q)
        PROVE  Became(S, v, FieldAt(node[v], FALSE, values[v], cache[v], q), BuiltValue(v, q, Names(S)))
    <3>1. NeedsDecode(v, q) => <<v, LastItem(node[v], q)>> \in S
      BY <1>2, <2>6 DEF FieldSites, BuildSites
    <3>2. QED
      BY <2>6, <3>1, BuiltBecame
  <2>7. \A q \in ToSet(K) : q \in Key /\ HasKey(node[v], q)
    BY <2>2
  <2>8. \A q \in Key : vs[q] # Nil <=> q \in ToSet(K)
    BY <2>2, <2>3, <2>5
  <2>9. ASSUME NEW q \in ToSet(K), q # k PROVE Became(S, v, g[q], vs[q])
    <3>1. q \in Key /\ HasKey(node[v], q)
      BY <2>7
    <3>2. g[q] = FieldAt(node[v], FALSE, values[v], cache[v], q) /\ vs[q] = BuiltValue(v, q, Names(S))
      BY <2>3, <2>4, <3>1
    <3>3. Became(S, v, FieldAt(node[v], FALSE, values[v], cache[v], q), BuiltValue(v, q, Names(S)))
      BY <2>6, <2>9, <3>1
    <3>4. QED
      BY <3>2, <3>3
  <2>10. QED
    BY <2>3, <2>8, <2>9 DEF Ordered
<1>3. QED
  BY <1>1, <1>2

Named(S) == \A s \in S : Names(S)[s] \in View

\* The keys K of an object and what is behind each, where the tables are old.
FieldsOf(old, K, g) ==
    /\ K \in Seq(Key) /\ IsInjective(K)
    /\ \A q \in ToSet(K) : g[q] \in Entry /\ (g[q] \in View => old[g[q]] # Nil)
    /\ \A q, r \in ToSet(K) : g[q] \in Node /\ g[q] = g[r] => q = r

\* k = x, the fields g having been copied to vs, makes them h as a table knows them
\* and hs as the heap does.
Assignment(old, S, v, K, g, k, vs, x, h, hs, L) ==
    /\ Named(S) /\ FieldsOf(old, K, g) /\ Ordered(S, v, k, K, g, vs)
    /\ k \in Key /\ x \in Val \cup {Nil} /\ (x \in View => old[x] # Nil)
    /\ Replaced(g, k, x, h) /\ Replaced(vs, k, x, hs) /\ L = KeysAfter(K, vs, k, x)

\* What an object has after an assignment, as a table and as the heap has it.
LEMMA AssignedFacts ==
    ASSUME HeapAssumption, NilAssumption, NEW old, NEW S, NEW v, NEW n \in Node, NEW K, NEW g,
           NEW k, NEW vs, NEW x, NEW h, NEW hs, NEW L,
           Assignment(old, S, v, K, g, k, vs, x, h, hs, L)
    PROVE  Sound(old, Obj(n, L, h)) /\ Grown(S, v, Obj(n, L, h), Obj(n, L, hs))
<1>0. /\ K \in Seq(Key) /\ IsInjective(K)
      /\ \A q \in ToSet(K) : g[q] \in Entry /\ (g[q] \in View => old[g[q]] # Nil)
      /\ \A q, r \in ToSet(K) : g[q] \in Node /\ g[q] = g[r] => q = r
      /\ DOMAIN vs = Key /\ \A q \in Key : vs[q] # Nil <=> q \in ToSet(K)
      /\ \A q \in ToSet(K) : q # k => Became(S, v, g[q], vs[q])
      /\ \A q \in Key : h[q] = IF q = k THEN x ELSE g[q]
      /\ \A q \in Key : hs[q] = IF q = k THEN x ELSE vs[q]
      /\ \A s \in S : Names(S)[s] \in View
      /\ k \in Key /\ x \in Val \cup {Nil} /\ (x \in View => old[x] # Nil)
      /\ L = KeysAfter(K, vs, k, x)
  BY DEF FieldsOf, Ordered, Replaced, Named, Assignment
<1>1. \A q \in ToSet(K) : q \in Key
  BY <1>0 DEF ToSet
<1>2. ToSet(K) = {q \in Key : vs[q] # Nil}
  BY <1>0, <1>1
<1>3. L \in Seq(Key) /\ IsInjective(L) /\ ToSet(L) = {q \in Key : [vs EXCEPT ![k] = x][q] # Nil}
  BY <1>0, <1>2, KeysAfterFacts
<1>4. ASSUME NEW q \in ToSet(L)
      PROVE  q \in Key /\ IF q = k THEN x # Nil ELSE q \in ToSet(K)
  BY <1>0, <1>3
<1>5. \A y \in Val : y \notin Node
  BY DEF Val, HeapAssumption
<1>6. ASSUME NEW q \in ToSet(L)
      PROVE  /\ h[q] \in Entry /\ (h[q] \in View => old[h[q]] # Nil)
             /\ h[q] \in Node => q # k /\ q \in ToSet(K) /\ h[q] = g[q]
             /\ Became(S, v, h[q], hs[q])
  <2>1. CASE q = k
    <3>1. h[q] = x /\ hs[q] = x /\ x \in Val
      BY <2>1, <1>0, <1>4, <1>6
    <3>2. QED
      BY <3>1, <1>0, <1>5 DEF Entry, Became
  <2>2. CASE q # k
    <3>1. h[q] = g[q] /\ hs[q] = vs[q] /\ q \in ToSet(K)
      BY <2>2, <1>0, <1>4, <1>6
    <3>2. QED
      BY <3>1, <2>2, <1>0
  <2>3. QED
    BY <2>1, <2>2
<1>7. \A q, r \in ToSet(L) : h[q] \in Node /\ h[q] = h[r] => q = r
  BY <1>0, <1>6
<1>8. \A q \in ToSet(L) : h[q] \in Entry /\ (h[q] \in View => old[h[q]] # Nil)
  BY <1>6
<1>9. \A q \in ToSet(L) : h[q] \in Entry /\ Became(S, v, h[q], hs[q])
  BY <1>6
<1>10. Sound(old, Obj(n, L, h))
  BY <1>3, <1>7, <1>8, ObjSound
<1>11. Grown(S, v, Obj(n, L, h), Obj(n, L, hs))
  BY <1>0, <1>3, <1>9, ObjGrown
<1>12. QED
  BY <1>10, <1>11

\* t.k = x (LazyObject.__newindex).
LEMMA WriteFieldSeen ==
    ASSUME DocAssumption, HeapAssumption, NilAssumption, TableInv, HeapInv', OrderInv',
           NEW v \in View, NEW k \in Key, NEW x \in Val \cup {Nil}, WriteField(v, k, x)
    PROVE  Tables!SetField(ClientTable, ClientTable', v, k, x)
<1> DEFINE S == FieldSites(v, k)
           n == node[v]
           K == KeysAt(node[v], built[v], keys[v])
           g == Fields(node[v], built[v], values[v], cache[v])
           vs == IF built[v] THEN values[v] ELSE BuiltValues(v, Names(S))
           h == [q \in Key |-> IF q = k THEN x ELSE g[q]]
           L == KeysAfter(K, vs, k, x)
           hs == Fields(n, TRUE, values'[v], cache'[v])
           none == {}
<1>1. /\ meta[v] = "object" /\ Enough(S)
      /\ x \in View => meta[x] # "free"
      /\ keys' = [keys EXCEPT ![v] = L]
      /\ values' = [values EXCEPT ![v] = [vs EXCEPT ![k] = x]]
      /\ built' = [built EXCEPT ![v] = TRUE]
      /\ UNCHANGED <<cache, slots>>
  <2>1. K = IF built[v] THEN keys[v] ELSE FirstOrder(node[v])
    BY DEF KeysAt
  <2>2. QED
    BY <2>1 DEF WriteField, FieldSites
<1>2. AllocMove(S, none)
  BY WriteFieldAlloc DEF TableInv, IInv
<1>3. /\ \A s \in S : Names(S)[s] \in View
      /\ DOMAIN Names(S) = S
      /\ meta'[v] = "object" /\ node'[v] = n
  BY <1>1, <1>2, AllocFacts DEF TableInv, IInv
<1>4. /\ K = KeysAt(node[v], built[v], keys[v])
      /\ g = Fields(node[v], built[v], values[v], cache[v])
      /\ vs = IF built[v] THEN values[v] ELSE BuiltValues(v, Names(S))
      /\ S = FieldSites(v, k)
      /\ n \in Node
  BY DEF TableInv, IInv, HeapInv, HeapTypeOK
<1>5. ClientTable[v] = Obj(n, K, g) /\ ClientTable[v] # Nil
  <2>1. ClientTable[v] = Obj(n, K, g)
    BY <1>1, TableNow DEF TableInv, IInv, TableAs
  <2>2. QED
    BY <2>1, <1>1, TablesSound
<1>6. /\ built'[v] /\ keys'[v] = L /\ values'[v] = [vs EXCEPT ![k] = x]
      /\ \A w \in View : w # v => built'[w] = built[w] /\ keys'[w] = keys[w] /\ values'[w] = values[w]
  BY <1>1 DEF TableInv, IInv, HeapInv, HeapTypeOK, OrderInv, OrderTypeOK
<1>7. ClientTable'[v] = Obj(n, L, hs)
  <2>1. ClientTable'[v] = Obj(n, KeysAt(n, built'[v], keys'[v]), Fields(n, built'[v], values'[v], cache'[v]))
    BY <1>3, TableThen DEF TableAs
  <2>2. KeysAt(n, built'[v], keys'[v]) = L /\ built'[v] = TRUE
    BY <1>6 DEF KeysAt
  <2>3. QED
    BY <2>1, <2>2
<1>8. Blank
  <2>1. \A w \in View : meta[w] = "free" => w # v /\ ~built[w]
    BY <1>1 DEF TableInv, IInv, HeapInv, HeapTypeOK
  <2>2. QED
    BY <2>1, <1>1, <1>6 DEF Blank
<1>9. \A w \in View : w # v => Untouched(w)
  BY <1>1, <1>6 DEF Untouched
<1>10. Replaced(g, k, x, h)
  BY DEF Replaced
<1> HIDE DEF K, g, S, vs, h, n, none
<1>11. OwnFields(K, g)
  BY <1>1, <1>4, FieldFacts
<1>12. Ordered(S, v, k, K, g, vs)
  BY <1>1, <1>3, <1>4, OrderedFacts
<1>13. Replaced(vs, k, x, hs)
  BY <1>6, <1>12 DEF Fields, FieldAt, Ordered, Replaced
<1> DEFINE old == ClientTable
           new == ClientTable'
<1>14. FieldsOf(old, K, g) /\ (x \in View => old[x] # Nil)
  <2>1. \A w \in View : meta[w] # "free" => old[w] # Nil
    BY TablesSound
  <2> HIDE DEF old
  <2>2. QED
    BY <2>1, <1>1, <1>11 DEF FieldsOf, OwnFields
<1>15. L = KeysAfter(K, vs, k, x)
  OBVIOUS
<1>16. new[v] = Obj(n, L, hs) /\ old[v] = Obj(n, K, g) /\ old[v] # Nil
  BY <1>5, <1>7
<1> HIDE DEF L, hs, old, new
<1> DEFINE c == Obj(n, L, h)
<1>17. Sound(old, c) /\ Grown(S, v, c, Obj(n, L, hs))
  <2>1. Assignment(old, S, v, K, g, k, vs, x, h, hs, L)
    BY <1>3, <1>10, <1>12, <1>13, <1>14, <1>15 DEF Named, Assignment
  <2>2. QED
    BY <2>1, <1>4, AssignedFacts
<1>18. Tables!Put(Obj(n, K, g), k, x) = Obj(n, KeysAfter(K, vs, k, x), h)
  <2>1. (vs[k] # Nil <=> k \in ToSet(K)) /\ Entries(K, g)
    BY <1>11, <1>12 DEF Ordered, Entries, OwnFields
  <2>2. QED
    BY <2>1, <1>10, <1>11, PutFacts DEF OwnFields
<1>19. Sound(ClientTable, c) /\ Grown(S, v, c, ClientTable'[v]) /\ none \subseteq {v}
  BY <1>16, <1>17 DEF old, new, none
<1> HIDE DEF c
<1>20. Tables!Seen([ClientTable EXCEPT ![v] = c], ClientTable')
  <2>1. meta[v] # "free"
    BY <1>1
  <2>2. QED
    BY <2>1, <1>2, <1>8, <1>9, <1>19, WriteSeen
<1>21. Tables!Put(old[v], k, x) = c /\ old[v].kind = "object"
  <2>1. Tables!Put(old[v], k, x) = c
    BY <1>15, <1>16, <1>18 DEF c
  <2>2. old[v].kind = "object"
    BY <1>16 DEF Obj
  <2>3. QED
    BY <2>1, <2>2
<1>22. Tables!Seen([old EXCEPT ![v] = c], new)
  BY <1>20 DEF old, new
<1>23. [old EXCEPT ![v] = Tables!Put(old[v], k, x)] = [old EXCEPT ![v] = c]
  BY <1>21
<1>24. Tables!SetField(old, new, v, k, x)
  BY <1>16, <1>21, <1>22, <1>23 DEF Tables!SetField
<1>25. QED
  BY <1>24 DEF old, new

-----------------------------------------------------------------------------
(* Every step of the heap is a step of the tables.                          *)

\* A step that leaves the heap alone shows nothing.
LEMMA QuietSeen ==
    ASSUME UNCHANGED <<meta, node, built, keys, values, cache, slots>>
    PROVE  Tables!Seen(ClientTable, ClientTable')
<1>1. ClientTable' = ClientTable
  BY DEF ClientTable, Contents, KeysOf, ItemsOf, ElementAt, FieldOf, PlainItems, ArrayLen
<1> DEFINE c == ClientTable
<1>2. ASSUME NEW v \in View, c[v] # Nil
      PROVE  c[v] = [c[v] EXCEPT !.items = c[v].items]
  <2>1. c[v] = Contents(v)
    BY <1>2 DEF ClientTable
  <2> HIDE DEF c
  <2>2. PICK ki, ks, q, n : c[v] = [kind |-> ki, keys |-> ks, items |-> q, from |-> n]
    BY <2>1 DEF Contents
  <2>3. QED
    BY <2>2
<1> HIDE DEF c
<1>3. Tables!Seen(c, c)
  BY <1>2 DEF Tables!Seen
<1>4. QED
  BY <1>1, <1>3 DEF c

Counted == writes \in Nat

LEMMA WritesCounted == Spec => []Counted
<1>1. Init => Counted
  BY DEF Init, Counted
<1>2. Counted /\ [Next]_vars => Counted'
  <2> SUFFICES ASSUME [Next]_vars, writes' # writes
               PROVE  writes' = writes + 1
    BY DEF Counted
  <2>1. ASSUME NEW v \in View, NEW k \in Key, NEW x \in Val \cup {Nil}, WriteField(v, k, x)
        PROVE  writes' = writes + 1
    BY <2>1 DEF WriteField
  <2>2. ASSUME NEW v \in View, NEW i \in Index, NEW x \in Val \cup {Nil},
               WriteIndexRaw(v, i, x) \/ WriteIndex(v, i, x)
        PROVE  writes' = writes + 1
    BY <2>2 DEF WriteIndexRaw, WriteIndex
  <2>3. ASSUME NEW v \in View, NEW k \in Key, ReadField(v, k)
        PROVE  FALSE
    BY <2>3 DEF ReadField
  <2>4. ASSUME NEW v \in View, NEW i \in Index, ReadIndex(v, i)
        PROVE  FALSE
    BY <2>4 DEF ReadIndex
  <2>5. ASSUME NEW v \in View, Encode(v) \/ Materialize(v) \/ PairsStart(v) \/ IpairsStart(v)
        PROVE  FALSE
    BY <2>5 DEF Encode, Materialize, BuildAll, PairsStart, IpairsStart
  <2>6. ASSUME NextSource \/ NextOrdered \/ NextArray \/ NextArrayFails \/ IterEnd \/ UNCHANGED vars
        PROVE  FALSE
    BY <2>6 DEF NextSource, NextOrdered, NextArray, NextArrayFails, IterEnd, vars
  <2>7. QED
    BY <2>1, <2>2, <2>3, <2>4, <2>5, <2>6 DEF Next
<1>3. QED
  BY <1>1, <1>2, PTL DEF Spec

\* A step that assigns nothing: each read, each loop step, encode and materialize.
LEMMA ReadMatches ==
    ASSUME DocAssumption, HeapAssumption, NilAssumption, TableInv, HeapInv', OrderInv', [Next]_vars,
           Counted, writes' = writes
    PROVE  Tables!Seen(ClientTable, ClientTable')
<1> DEFINE seen == Tables!Seen(ClientTable, ClientTable')
<1>1. ASSUME NEW v \in View, NEW k \in Key, ReadField(v, k)
      PROVE  seen
  BY <1>1, ReadFieldSeen
<1>2. ASSUME NEW v \in View, NEW i \in Index, ReadIndex(v, i)
      PROVE  seen
  BY <1>2, ReadIndexSeen
<1>3. ASSUME NextSource PROVE seen
  BY <1>3, NextSourceSeen
<1>4. ASSUME NextArray PROVE seen
  BY <1>4, NextArraySeen
<1>5. ASSUME NEW v \in View, Encode(v) \/ Materialize(v)
      PROVE  seen
  <2>1. PICK T : T \subseteq View /\ (\A t \in T : meta[t] = "object" /\ ~built[t]) /\ BuildAll(T)
    BY <1>5 DEF Encode, Materialize, Unordered, Reach
  <2>2. QED
    BY <2>1, BuildAllSeen
<1>6. ASSUME UNCHANGED <<meta, node, built, keys, values, cache, slots>>
      PROVE  seen
  BY <1>6, QuietSeen
<1> HIDE DEF seen
<1>7. ASSUME NEW v \in View, PairsStart(v) \/ IpairsStart(v)
      PROVE  seen
  BY <1>6, <1>7 DEF PairsStart, IpairsStart
<1>8. ASSUME NextOrdered \/ NextArrayFails \/ IterEnd \/ UNCHANGED vars
      PROVE  seen
  BY <1>6, <1>8 DEF NextOrdered, NextArrayFails, IterEnd, vars
<1>9. ASSUME NEW v \in View, NEW x \in Val \cup {Nil}
      PROVE  /\ \A k \in Key : ~WriteField(v, k, x)
             /\ \A i \in Index : ~WriteIndexRaw(v, i, x) /\ ~WriteIndex(v, i, x)
  BY DEF WriteField, WriteIndexRaw, WriteIndex, Counted
<1>10. seen
  BY <1>1, <1>2, <1>3, <1>4, <1>5, <1>7, <1>8, <1>9 DEF Next
<1>11. QED
  BY <1>10 DEF seen

\* Every assignment is the assignment it names.
LEMMA WritesMatch ==
    ASSUME DocAssumption, HeapAssumption, NilAssumption, TableInv, HeapInv', OrderInv',
           NEW v \in View, NEW x \in Val \cup {Nil}
    PROVE  /\ \A k \in Key : WriteField(v, k, x) =>
                 Tables!SetField(ClientTable, ClientTable', v, k, x)
           /\ \A i \in Index : WriteIndex(v, i, x) =>
                 Tables!SetIndex(ClientTable, ClientTable', v, i, x)
           /\ \A i \in Index : WriteIndexRaw(v, i, x) =>
                 IF meta[v] = "array" /\ x = Nil THEN Tables!Restore(ClientTable, ClientTable', v, i)
                 ELSE Tables!SetIndex(ClientTable, ClientTable', v, i, x)
<1>1. ASSUME NEW k \in Key, WriteField(v, k, x)
      PROVE  Tables!SetField(ClientTable, ClientTable', v, k, x)
  BY <1>1, WriteFieldSeen
<1>2. ASSUME NEW i \in Index, WriteIndex(v, i, x)
      PROVE  Tables!SetIndex(ClientTable, ClientTable', v, i, x)
  BY <1>2, WriteIndexSeen
<1>3. ASSUME NEW i \in Index, WriteIndexRaw(v, i, x)
      PROVE  IF meta[v] = "array" /\ x = Nil THEN Tables!Restore(ClientTable, ClientTable', v, i)
             ELSE Tables!SetIndex(ClientTable, ClientTable', v, i, x)
  <2>1. CASE meta[v] = "plain"
    <3>1. Tables!SetIndex(ClientTable, ClientTable', v, i, x)
      BY <1>3, <2>1, RawPlainSeen
    <3>2. QED
      BY <2>1, <3>1
  <2>2. CASE meta[v] = "array"
    <3>1. IF x = Nil THEN Tables!Restore(ClientTable, ClientTable', v, i)
          ELSE Tables!SetIndex(ClientTable, ClientTable', v, i, x)
      BY <1>3, <2>2, RawArraySeen
    <3>2. QED
      BY <2>2, <3>1
  <2>3. meta[v] = "plain" \/ meta[v] = "array"
    BY <1>3 DEF WriteIndexRaw
  <2>4. QED
    BY <2>1, <2>2, <2>3
<1>4. QED
  BY <1>1, <1>2, <1>3

\* At first there is the table of the top-level container.
LEMMA TablesInit ==
    ASSUME DocAssumption, HeapAssumption, Init
    PROVE  ClientTable = [v \in View |-> IF v = RootView THEN SourceLevel[Root] ELSE Nil]
<1> DEFINE ca == [k \in Key |-> Nil]
           sl == [i \in Index |-> Nil]
           t == TableAs(Kind[Root], Root, FALSE, keys[RootView], values[RootView], ca, sl)
<1>1. HeapInv /\ OrderInv
  <2>1. HeapInv
    BY InitHolds DEF IInv
  <2>2. OrderInv
    BY DEF Init, OrderInv, OrderTypeOK, OrderAgrees, NoIter, Val
  <2>3. QED
    BY <2>1, <2>2
<1>2. /\ meta = [v \in View |-> IF v = RootView THEN Kind[Root] ELSE "free"]
      /\ node[RootView] = Root /\ built[RootView] = FALSE
      /\ cache[RootView] = ca /\ slots[RootView] = sl
      /\ RootView \in View /\ Root \in Node
  <2>1. RootView \in View /\ Root \in Node
    BY DEF HeapAssumption, DocAssumption
  <2>2. /\ meta = [v \in View |-> IF v = RootView THEN Kind[Root] ELSE "free"]
        /\ node = [v \in View |-> Root] /\ built = [v \in View |-> FALSE]
        /\ cache = [v \in View |-> ca] /\ slots = [v \in View |-> sl]
    BY DEF Init
  <2> HIDE DEF ca, sl
  <2>3. QED
    BY <2>1, <2>2
<1>3. ClientTable[RootView] = t
  <2>1. ClientTable[RootView] =
           TableAs(meta[RootView], node[RootView], built[RootView], keys[RootView],
                   values[RootView], cache[RootView], slots[RootView])
    BY <1>1, <1>2, TableNow
  <2>2. meta[RootView] = Kind[Root]
    BY <1>2
  <2> HIDE DEF ca, sl
  <2>3. QED
    BY <2>1, <2>2, <1>2
<1>4. Unread(Root, t)
  BY DEF Unread
<1> HIDE DEF t
<1>5. ClientTable[RootView] = SourceLevel[Root]
  BY <1>2, <1>3, <1>4, FreshTable
<1>6. ClientTable = [v \in View |-> IF v = RootView THEN SourceLevel[Root] ELSE Nil]
  <2>1. ASSUME NEW v \in View, v # RootView PROVE ClientTable[v] = Nil
    BY <2>1, <1>2 DEF ClientTable
  <2>2. ClientTable = [v \in View |-> ClientTable[v]]
    BY DEF ClientTable
  <2> DEFINE c == ClientTable
  <2>3. c = [v \in View |-> c[v]] /\ c[RootView] = SourceLevel[Root]
        /\ \A v \in View : v # RootView => c[v] = Nil
    BY <2>1, <2>2, <1>5
  <2> HIDE DEF c
  <2>4. c = [v \in View |-> IF v = RootView THEN SourceLevel[Root] ELSE Nil]
    BY <2>3
  <2>5. QED
    BY <2>4 DEF c
<1>7. QED
  BY <1>6

\* To a client who reads, assigns, loops, encodes and materializes in whatever order,
\* lazy tables are the ordered tables of the mutation tests, decoded when they are first
\* looked at, call for call: t.k = x and t[i] = x put x under that key or index of that
\* table and change nothing else, and a call that assigns nothing changes no table.  Of
\* an element assigned nil while its array is lazy the document's value comes back.
THEOREM LazyIsOrdered == Spec => TablesSpec
<1>1. DocAssumption /\ HeapAssumption /\ NilAssumption
  BY DocAssumption, HeapAssumption, NilAssumption
<1>2. Init => Tables!Init
  BY <1>1, TablesInit DEF Tables!Init
<1>3. IInv /\ OrderInv /\ CacheOK /\ LinksOK /\ HeapInv' /\ OrderInv' /\ Counted /\ [Next]_vars
      => [\A old \in {ClientTable}, new \in {ClientTable'} : CallsMatch(old, new)]_vars
  <2> SUFFICES ASSUME IInv, OrderInv, CacheOK, LinksOK, HeapInv', OrderInv', Counted, [Next]_vars
               PROVE  CallsMatch(ClientTable, ClientTable')
    OBVIOUS
  <2>1. TableInv
    BY DEF TableInv
  <2>2. writes' = writes => Tables!Seen(ClientTable, ClientTable')
    BY <1>1, <2>1, ReadMatches
  <2>3. \A v \in View, x \in Val \cup {Nil} :
           /\ \A k \in Key : WriteField(v, k, x) =>
                 Tables!SetField(ClientTable, ClientTable', v, k, x)
           /\ \A i \in Index : WriteIndex(v, i, x) =>
                 Tables!SetIndex(ClientTable, ClientTable', v, i, x)
           /\ \A i \in Index : WriteIndexRaw(v, i, x) =>
                 IF meta[v] = "array" /\ x = Nil THEN Tables!Restore(ClientTable, ClientTable', v, i)
                 ELSE Tables!SetIndex(ClientTable, ClientTable', v, i, x)
    BY <1>1, <2>1, WritesMatch
  <2>4. QED
    BY <2>2, <2>3 DEF CallsMatch
<1>4. IInv' => HeapInv'
  BY DEF IInv
<1>5. QED
  BY <1>2, <1>3, <1>4, InvariantHolds, OrderHolds, CacheHolds, LinksHolds, WritesCounted, PTL
     DEF Spec, TablesSpec

=============================================================================
