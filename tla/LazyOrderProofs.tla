--------------------------- MODULE LazyOrderProofs ---------------------------
(***************************************************************************)
(* Lazy tables, for every document, every number of views and every        *)
(* history.  First dirty propagation: the source bytes encode_proxy copies *)
(* for a clean view are never out of date on account of a write through a  *)
(* metamethod.  Then order state and child identity: the key list and the  *)
(* value map of an object never part, and a child view that was handed out *)
(* stays the child.                                                        *)
(***************************************************************************)
EXTENDS LazyTable, NumberSets, SequenceTheorems

\* A set of allocation sites as the actions build them: children of
\* allocated views on containers of the document.
Sites(S) == \A s \in S : \E p \in View, n \in Node : s = <<p, n>> /\ meta[p] # "free"

\* The metatable of a lazy view is its container's kind.
KindOK == \A v \in View : Lazy(v) => meta[v] = Kind[node[v]]

\* What the heap of views keeps.
HeapInv == HeapTypeOK /\ KindOK /\ DirtyUp /\ CleanObjectPristine

-----------------------------------------------------------------------------
(* Allocation.                                                              *)

\* Names picks distinct free tables, one for each site (wrap_child's fresh
\* Lua table).
LEMMA NamesFresh ==
    ASSUME NEW S, Enough(S)
    PROVE  /\ Names(S) \in [S -> Free]
           /\ \A s, r \in S : Names(S)[s] = Names(S)[r] => s = r
<1>1. Names(S) \in Injection(S, Free)
  BY DEF Enough, Names
<1>2. QED
  BY <1>1 DEF Injection, IsInjective

\* The view named for a site is on that site's container and parent, and the
\* tables not named keep theirs.
LEMMA WrapEffect ==
    ASSUME HeapTypeOK, DocAssumption, HeapAssumption,
           NEW S, Sites(S), Enough(S)
    PROVE  LET f == Names(S)
           IN  /\ \A s \in S : /\ f[s] \in View /\ meta[f[s]] = "free" /\ New(f, f[s])
                               /\ WrapNode(f)[f[s]] = s[2]
                               /\ WrapParent(f)[f[s]] = s[1]
                               /\ WrapMeta(f)[f[s]] = Kind[s[2]]
               /\ \A v \in View : New(f, v) =>
                     \E s \in S : f[s] = v /\ meta[v] = "free"
               /\ \A v \in View : ~New(f, v) =>
                     /\ WrapNode(f)[v] = node[v]
                     /\ WrapParent(f)[v] = parent[v]
                     /\ WrapMeta(f)[v] = meta[v]
<1> DEFINE f == Names(S)
<1>1. /\ f \in [S -> Free]
      /\ \A s, r \in S : f[s] = f[r] => s = r
  BY NamesFresh
<1> HIDE DEF f
<1>2. ASSUME NEW s \in S
      PROVE  /\ f[s] \in View /\ meta[f[s]] = "free" /\ New(f, f[s])
             /\ SiteOf(f, f[s]) = s
  <2>1. f[s] \in Free
    BY <1>1
  <2>2. DOMAIN f = S
    BY <1>1
  <2>3. New(f, f[s])
    BY <2>2 DEF New
  <2>4. SiteOf(f, f[s]) = s
    BY <2>2, <1>1 DEF SiteOf
  <2>5. QED
    BY <2>1, <2>3, <2>4 DEF Free
<1>3. ASSUME NEW s \in S
      PROVE  /\ WrapNode(f)[f[s]] = s[2]
             /\ WrapParent(f)[f[s]] = s[1]
             /\ WrapMeta(f)[f[s]] = Kind[s[2]]
  BY <1>2 DEF WrapNode, WrapParent, WrapMeta
<1>4. ASSUME NEW v \in View, New(f, v)
      PROVE  \E s \in S : f[s] = v /\ meta[v] = "free"
  <2>1. PICK s \in DOMAIN f : f[s] = v
    BY <1>4 DEF New
  <2>2. s \in S
    BY <1>1, <2>1
  <2>3. QED
    BY <2>1, <2>2, <1>2
<1>5. ASSUME NEW v \in View, ~New(f, v)
      PROVE  /\ WrapNode(f)[v] = node[v]
             /\ WrapParent(f)[v] = parent[v]
             /\ WrapMeta(f)[v] = meta[v]
  BY <1>5 DEF WrapNode, WrapParent, WrapMeta
<1>6. QED
  BY <1>2, <1>3, <1>4, <1>5 DEF f

-----------------------------------------------------------------------------
(* The dirty chain.                                                         *)

\* The dirty-marking loop of __newindex marks the written view, only lazy
\* views, and every lazy _parent of what it marks.
LEMMA ChainLemma ==
    ASSUME HeapTypeOK, NEW v \in View, Lazy(v)
    PROVE  /\ v \in Chain(v)
           /\ \A w \in Chain(v) : w \in View /\ Lazy(w)
           /\ ChainClosed(Chain(v))
<1> DEFINE L == {u \in View : Lazy(u)}
<1>1. v \in Chain(v)
  BY DEF Chain
<1>2. L \in SUBSET {u \in View : Lazy(u)} /\ v \in L /\ ChainClosed(L)
  BY DEF ChainClosed, HeapTypeOK, Lazy
<1>3. \A w \in Chain(v) : w \in View /\ w \in L
  BY <1>2 DEF Chain
<1>4. ASSUME NEW w \in Chain(v), parent[w] # Nil, Lazy(parent[w])
      PROVE  parent[w] \in Chain(v)
  <2>1. w \in View /\ parent[w] \in View
    BY <1>3, <1>4 DEF HeapTypeOK
  <2>2. ASSUME NEW S \in SUBSET {u \in View : Lazy(u)}, v \in S, ChainClosed(S)
        PROVE  parent[w] \in S
    <3>1. w \in S
      BY <2>2 DEF Chain
    <3>2. QED
      BY <3>1, <2>2, <1>4 DEF ChainClosed
  <2>3. QED
    BY <2>1, <2>2 DEF Chain
<1>5. QED
  BY <1>1, <1>3, <1>4 DEF ChainClosed

\* After the loop the dirty set is still closed under lazy _parent, contains
\* the written view, and has lost nothing.
LEMMA MarkLemma ==
    ASSUME HeapTypeOK, DirtyUp, NEW v \in View, Lazy(v)
    PROVE  /\ MarkDirty(v) \in [View -> BOOLEAN]
           /\ MarkDirty(v)[v]
           /\ \A w \in View : dirty[w] => MarkDirty(v)[w]
           /\ \A w \in View : meta[w] = "free" => ~MarkDirty(v)[w]
           /\ \A w \in View : Lazy(w) /\ MarkDirty(v)[w] /\ parent[w] # Nil /\ Lazy(parent[w])
                 => MarkDirty(v)[parent[w]]
<1>1. /\ v \in Chain(v)
      /\ \A w \in Chain(v) : w \in View /\ Lazy(w)
      /\ ChainClosed(Chain(v))
  BY ChainLemma
<1>2. /\ MarkDirty(v) \in [View -> BOOLEAN]
      /\ \A w \in View : MarkDirty(v)[w] <=> (dirty[w] \/ w \in Chain(v))
  BY DEF MarkDirty, HeapTypeOK
<1>3. ASSUME NEW w \in View, meta[w] = "free"
      PROVE  ~MarkDirty(v)[w]
  BY <1>1, <1>2, <1>3 DEF HeapTypeOK, Lazy
<1>4. ASSUME NEW w \in View, Lazy(w), MarkDirty(v)[w], parent[w] # Nil, Lazy(parent[w])
      PROVE  MarkDirty(v)[parent[w]]
  <2>1. parent[w] \in View
    BY <1>4 DEF HeapTypeOK
  <2>2. CASE dirty[w]
    BY <2>1, <2>2, <1>2, <1>4 DEF DirtyUp
  <2>3. CASE w \in Chain(v)
    BY <2>1, <2>3, <1>1, <1>2, <1>4 DEF ChainClosed
  <2>4. QED
    BY <2>2, <2>3, <1>2, <1>4
<1>5. QED
  BY <1>1, <1>2, <1>3, <1>4

-----------------------------------------------------------------------------
(* One step on the heap.                                                    *)

\* The shape every action shares: views are allocated for the sites S, the
\* array views in P become plain sequences, the dirty set grows to one closed
\* under lazy _parent, and a cache entry is kept, dropped, or filled with the
\* view made for that field.
AllocMove(S, P) ==
    /\ Sites(S) /\ Enough(S)
    /\ P \in SUBSET View /\ \A p \in P : meta[p] = "array"
    /\ node' = WrapNode(Names(S))
    /\ parent' = [v \in View |-> IF v \in P THEN Nil ELSE WrapParent(Names(S))[v]]
    /\ meta' = [v \in View |-> IF v \in P THEN "plain" ELSE WrapMeta(Names(S))[v]]

MarkMove(P) ==
    /\ dirty' \in [View -> BOOLEAN]
    /\ built' \in [View -> BOOLEAN]
    /\ \A v \in View : meta[v] = "free" => ~dirty'[v] /\ ~built'[v]
    /\ \A v \in View \ P : dirty[v] => dirty'[v]
    /\ \A v \in View : Lazy(v) /\ (v \in P \/ dirty'[v]) /\ parent[v] # Nil
           /\ Lazy(parent[v]) /\ parent[v] \notin P => dirty'[parent[v]]
    /\ \A v \in View : meta[v] = "object" /\ built'[v] => built[v] \/ dirty'[v]

CacheMove(S) ==
    /\ cache' \in [View -> [Key -> View \cup {Nil}]]
    /\ slots' \in [View -> [Index -> Val \cup {Nil}]]
    /\ \A v \in View : meta[v] = "free" => cache'[v] = cache[v]
    /\ \A v \in View, k \in Key :
           \/ cache'[v][k] = cache[v][k]
           \/ cache'[v][k] = Nil
           \/ /\ meta[v] = "object"
              /\ HasKey(node[v], k)
              /\ <<v, FirstItem(node[v], k)>> \in S
              /\ cache'[v][k] = Names(S)[<<v, FirstItem(node[v], k)>>]

\* Such a step keeps the heap invariant.
LEMMA HeapStep ==
    ASSUME DocAssumption, HeapAssumption, HeapInv,
           NEW S, NEW P, AllocMove(S, P), MarkMove(P), CacheMove(S)
    PROVE  /\ HeapInv'
           /\ \A v \in View : meta[v] # "free" =>
                 meta'[v] = (IF v \in P THEN "plain" ELSE meta[v]) /\ node'[v] = node[v]
<1> DEFINE f == Names(S)
<1>1. /\ \A s \in S : /\ f[s] \in View /\ meta[f[s]] = "free" /\ New(f, f[s])
                      /\ WrapNode(f)[f[s]] = s[2]
                      /\ WrapParent(f)[f[s]] = s[1]
                      /\ WrapMeta(f)[f[s]] = Kind[s[2]]
      /\ \A v \in View : New(f, v) => \E s \in S : f[s] = v /\ meta[v] = "free"
      /\ \A v \in View : ~New(f, v) =>
            /\ WrapNode(f)[v] = node[v]
            /\ WrapParent(f)[v] = parent[v]
            /\ WrapMeta(f)[v] = meta[v]
  BY WrapEffect DEF HeapInv, AllocMove
<1>m. /\ node' = WrapNode(f)
      /\ parent' = [v \in View |-> IF v \in P THEN Nil ELSE WrapParent(f)[v]]
      /\ meta' = [v \in View |-> IF v \in P THEN "plain" ELSE WrapMeta(f)[v]]
  BY DEF AllocMove
<1>p. P \in SUBSET View /\ \A p \in P : meta[p] = "array"
  BY DEF AllocMove
<1>t. /\ dirty' \in [View -> BOOLEAN]
      /\ built' \in [View -> BOOLEAN]
      /\ cache' \in [View -> [Key -> View \cup {Nil}]]
      /\ slots' \in [View -> [Index -> Val \cup {Nil}]]
      /\ \A v \in View : meta[v] = "free" => ~dirty'[v] /\ ~built'[v] /\ cache'[v] = cache[v]
  BY DEF MarkMove, CacheMove
<1>d. /\ \A v \in View \ P : dirty[v] => dirty'[v]
      /\ \A v \in View : Lazy(v) /\ (v \in P \/ dirty'[v]) /\ parent[v] # Nil
             /\ Lazy(parent[v]) /\ parent[v] \notin P => dirty'[parent[v]]
      /\ \A v \in View : meta[v] = "object" /\ built'[v] => built[v] \/ dirty'[v]
  BY DEF MarkMove
<1>c. \A v \in View, k \in Key :
         \/ cache'[v][k] = cache[v][k]
         \/ cache'[v][k] = Nil
         \/ /\ meta[v] = "object"
            /\ HasKey(node[v], k)
            /\ <<v, FirstItem(node[v], k)>> \in S
            /\ cache'[v][k] = f[<<v, FirstItem(node[v], k)>>]
  BY DEF CacheMove
<1> HIDE DEF f
<1>2. \A s \in S : \E p \in View, n \in Node : s = <<p, n>> /\ s[1] = p /\ s[2] = n /\ meta[p] # "free"
  BY DEF Sites, AllocMove
\* What holds of a view that was there before the step, and of a new one.
<1>3. ASSUME NEW v \in View, meta[v] # "free", v \notin P
      PROVE  meta'[v] = meta[v] /\ node'[v] = node[v] /\ parent'[v] = parent[v]
  BY <1>1, <1>3, <1>m
<1>4. ASSUME NEW s \in S
      PROVE  /\ f[s] \in View /\ meta[f[s]] = "free" /\ f[s] \notin P
             /\ meta'[f[s]] \in {"object", "array"} /\ meta'[f[s]] = Kind[s[2]]
             /\ node'[f[s]] = s[2] /\ parent'[f[s]] = s[1]
  <2>1. PICK p \in View, n \in Node : s = <<p, n>> /\ s[2] = n
    BY <1>2
  <2>2. Kind[s[2]] \in {"object", "array"}
    BY <2>1 DEF DocAssumption
  <2>3. f[s] \in View /\ f[s] \notin P
    BY <1>1, <1>p
  <2>4. /\ meta'[f[s]] = WrapMeta(f)[f[s]]
        /\ node'[f[s]] = WrapNode(f)[f[s]]
        /\ parent'[f[s]] = WrapParent(f)[f[s]]
    BY <1>m, <2>3
  <2>5. QED
    BY <1>1, <2>2, <2>3, <2>4
<1>5. ASSUME NEW v \in View, meta[v] = "free"
      PROVE  \/ meta'[v] = "free" /\ parent'[v] = parent[v] /\ node'[v] = node[v]
             \/ \E s \in S : f[s] = v
  <2>1. v \notin P
    BY <1>5, <1>p
  <2>2. CASE New(f, v)
    BY <2>2, <1>1
  <2>3. CASE ~New(f, v)
    BY <2>1, <2>3, <1>1, <1>5, <1>m
  <2>4. QED
    BY <2>2, <2>3
<1>6. ASSUME NEW v \in View, v \in P
      PROVE  meta'[v] = "plain" /\ parent'[v] = Nil /\ node'[v] = node[v]
  <2>1. meta[v] = "array"
    BY <1>6, <1>p
  <2>2. ~New(f, v)
    BY <2>1, <1>1
  <2>3. QED
    BY <2>2, <1>1, <1>6, <1>m
<1>7. HeapTypeOK'
  <2>1. ASSUME NEW v \in View
        PROVE  /\ meta'[v] \in {"free", "object", "array", "plain"}
               /\ node'[v] \in Node
               /\ parent'[v] \in View \cup {Nil}
               /\ meta'[v] = "free" => meta[v] = "free"
               /\ parent'[v] # Nil => meta[parent'[v]] # "free" /\ parent'[v] \in View
    <3>1. CASE v \in P
      BY <3>1, <1>6 DEF HeapInv, HeapTypeOK
    <3>2. CASE v \notin P /\ meta[v] # "free"
      BY <3>2, <1>3 DEF HeapInv, HeapTypeOK
    <3>3. CASE meta[v] = "free" /\ ~(\E s \in S : f[s] = v)
      BY <3>3, <1>5 DEF HeapInv, HeapTypeOK
    <3>4. CASE \E s \in S : f[s] = v
      <4>1. PICK s \in S : f[s] = v
        BY <3>4
      <4>2. PICK p \in View, n \in Node : s[1] = p /\ s[2] = n /\ meta[p] # "free"
        BY <1>2
      <4>3. QED
        BY <4>1, <4>2, <1>4
    <3>5. QED
      BY <3>1, <3>2, <3>3, <3>4
  <2>3. ASSUME NEW v \in View, meta[v] # "free"
        PROVE  meta'[v] # "free"
    BY <2>3, <1>3, <1>6
  <2>4. meta' \in [View -> {"free", "object", "array", "plain"}]
    BY <2>1, <1>m
  <2>5. node' \in [View -> Node]
    BY <2>1, <1>m DEF WrapNode
  <2>6. parent' \in [View -> View \cup {Nil}]
    BY <2>1, <1>m
  <2>7. ASSUME NEW v \in View, meta'[v] = "free"
        PROVE  ~dirty'[v] /\ ~built'[v] /\ cache'[v] = [k \in Key |-> Nil]
    BY <2>1, <2>7, <1>t DEF HeapInv, HeapTypeOK
  <2>8. ASSUME NEW v \in View, parent'[v] # Nil
        PROVE  meta'[parent'[v]] # "free"
    BY <2>1, <2>3, <2>8
  <2>9. QED
    BY <2>4, <2>5, <2>6, <2>7, <2>8, <1>t DEF HeapTypeOK, Val, Index
<1>8. DirtyUp'
  <2> SUFFICES ASSUME NEW v \in View, meta'[v] \in {"object", "array"}, dirty'[v],
                      parent'[v] # Nil, meta'[parent'[v]] \in {"object", "array"}
               PROVE  dirty'[parent'[v]]
    BY DEF DirtyUp, Lazy
  <2>1. meta[v] # "free"
    BY <1>t
  <2>2. v \notin P
    BY <1>6 DEF Lazy
  <2>3. Lazy(v) /\ parent'[v] = parent[v]
    BY <2>1, <2>2, <1>3 DEF Lazy
  <2>4. parent[v] \in View /\ meta[parent[v]] # "free"
    BY <2>3 DEF HeapInv, HeapTypeOK
  <2>5. parent[v] \notin P
    BY <2>3, <2>4, <1>6 DEF Lazy
  <2>6. Lazy(parent[v])
    BY <2>3, <2>4, <2>5, <1>3 DEF Lazy
  <2>7. QED
    BY <2>2, <2>3, <2>4, <2>5, <2>6, <1>d
<1>9. CleanObjectPristine'
  <2>1. ASSUME NEW v \in View, meta'[v] = "object", ~dirty'[v]
        PROVE  /\ meta[v] = "free" => ~built'[v] /\ \A k \in Key : cache'[v][k] = Nil
               /\ meta[v] # "free" =>
                     meta[v] = "object" /\ node'[v] = node[v] /\ ~dirty[v] /\ v \notin P /\ ~built'[v]
    <3>1. CASE meta[v] = "free"
      BY <3>1, <1>t DEF HeapInv, HeapTypeOK
    <3>2. CASE meta[v] # "free"
      <4>1. v \notin P
        BY <2>1, <1>6
      <4>2. meta[v] = "object" /\ node'[v] = node[v] /\ ~dirty[v]
        BY <2>1, <4>1, <3>2, <1>3, <1>d
      <4>3. QED
        BY <2>1, <4>1, <4>2, <3>2, <1>d DEF HeapInv, CleanObjectPristine
    <3>3. QED
      BY <3>1, <3>2
  <2>2. ASSUME NEW v \in View, meta'[v] = "object", ~dirty'[v],
               NEW k \in Key, NEW c \in View, cache'[v][k] = c
        PROVE  /\ meta'[c] \in {"object", "array"} /\ ~dirty'[c] /\ parent'[c] = v
               /\ HasKey(node'[v], k) /\ node'[c] = FirstItem(node'[v], k)
    <3>1. c # Nil
      BY DEF HeapAssumption
    <3>2. meta[v] = "object" /\ node'[v] = node[v] /\ ~dirty[v] /\ v \notin P
      BY <2>1, <2>2, <3>1
    <3>3. CASE c = cache[v][k]
      <4>1. /\ Lazy(c) /\ ~dirty[c] /\ parent[c] = v
            /\ HasKey(node[v], k) /\ node[c] = FirstItem(node[v], k)
        BY <3>2, <3>3 DEF HeapInv, CleanObjectPristine
      <4>2. v # Nil /\ Lazy(v)
        BY <3>2 DEF HeapAssumption, Lazy
      <4>3. c \notin P /\ ~dirty'[c]
        BY <4>1, <4>2, <3>2, <2>2, <1>p, <1>d
      <4>4. meta[c] # "free"
        BY <4>1 DEF Lazy
      <4>5. meta'[c] = meta[c] /\ node'[c] = node[c] /\ parent'[c] = parent[c]
        BY <4>3, <4>4, <1>3
      <4>6. QED
        BY <4>1, <4>3, <4>5, <3>2 DEF Lazy
    <3>4. CASE /\ HasKey(node[v], k)
               /\ <<v, FirstItem(node[v], k)>> \in S
               /\ c = f[<<v, FirstItem(node[v], k)>>]
      <4> DEFINE s == <<v, FirstItem(node[v], k)>>
      <4>1. /\ meta[f[s]] = "free"
            /\ meta'[f[s]] \in {"object", "array"}
            /\ node'[f[s]] = FirstItem(node[v], k) /\ parent'[f[s]] = v
        BY <3>4, <1>4
      <4>2. ~dirty'[c]
        BY <4>1, <3>4, <1>t
      <4>3. QED
        BY <4>1, <4>2, <3>4, <3>2
    <3>5. QED
      BY <3>1, <3>2, <3>3, <3>4, <2>2, <1>c
  <2>3. ASSUME NEW v \in View, meta'[v] = "object", ~dirty'[v]
        PROVE  ~built'[v]
    BY <2>1, <2>3
  <2>4. QED
    BY <2>2, <2>3 DEF CleanObjectPristine, Lazy
<1>10. KindOK'
  <2> SUFFICES ASSUME NEW v \in View, meta'[v] \in {"object", "array"}
               PROVE  meta'[v] = Kind[node'[v]]
    BY DEF KindOK, Lazy
  <2>1. CASE meta[v] # "free"
    BY <2>1, <1>3, <1>6 DEF HeapInv, KindOK, Lazy
  <2>2. CASE meta[v] = "free"
    <3>1. PICK s \in S : f[s] = v
      BY <2>2, <1>5
    <3>2. meta'[f[s]] = Kind[s[2]] /\ node'[f[s]] = s[2]
      BY <1>4
    <3>3. QED
      BY <3>1, <3>2
  <2>3. QED
    BY <2>1, <2>2
<1>11. QED
  BY <1>3, <1>6, <1>7, <1>8, <1>9, <1>10 DEF HeapInv

\* wrap_child for every site, and nothing else allocated or converted.
LEMMA WrapMove ==
    ASSUME NEW S, Sites(S), Enough(S), Wrap(Names(S))
    PROVE  AllocMove(S, {})
<1>1. /\ node' = WrapNode(Names(S))
      /\ parent' = [v \in View |-> IF v \in {} THEN Nil ELSE WrapParent(Names(S))[v]]
      /\ meta' = [v \in View |-> IF v \in {} THEN "plain" ELSE WrapMeta(Names(S))[v]]
  BY DEF Wrap, WrapParent, WrapMeta
<1>2. QED
  BY <1>1 DEF AllocMove

\* A step that writes nothing marks nothing.
LEMMA NoMark ==
    ASSUME HeapInv, UNCHANGED <<dirty, built>>
    PROVE  MarkMove({})
BY DEF HeapInv, HeapTypeOK, DirtyUp, MarkMove

\* A step that leaves CHILD_CACHE alone.
LEMMA NoCache ==
    ASSUME HeapInv, cache' = cache, slots' \in [View -> [Index -> Val \cup {Nil}]], NEW S
    PROVE  CacheMove(S)
BY DEF HeapInv, HeapTypeOK, CacheMove

\* A step that allocates nothing and at most assigns an integer field.
LEMMA QuietStep ==
    ASSUME HeapInv, UNCHANGED <<meta, node, parent, dirty, cache, built>>,
           slots' \in [View -> [Index -> Val \cup {Nil}]]
    PROVE  HeapInv'
<1>1. HeapTypeOK'
  BY DEF HeapInv, HeapTypeOK, Val, Index
<1>2. DirtyUp'
  BY DEF HeapInv, DirtyUp, Lazy
<1>3. CleanObjectPristine'
  BY DEF HeapInv, CleanObjectPristine, Lazy
<1>4. KindOK'
  BY DEF HeapInv, KindOK, Lazy
<1>5. QED
  BY <1>1, <1>2, <1>3, <1>4 DEF HeapInv

-----------------------------------------------------------------------------
(* The actions.                                                             *)

\* Every lazy view keeps its container and its metatable, except that an array
\* view may become a plain sequence.
KindKept ==
    \A v \in View : meta[v] # "free" =>
        /\ meta'[v] = meta[v] \/ (meta[v] = "array" /\ meta'[v] = "plain")
        /\ node'[v] = node[v]

\* A read of a container field (read_object_field).
LEMMA ReadFieldMove ==
    ASSUME DocAssumption, HeapAssumption, HeapInv,
           NEW v \in View, NEW k \in Key, ReadField(v, k)
    PROVE  \E S : AllocMove(S, {}) /\ MarkMove({}) /\ CacheMove(S)
<1> DEFINE site == <<v, FirstItem(node[v], k)>>
           S == {site}
<1>1. /\ meta[v] = "object" /\ HasKey(node[v], k) /\ FirstItem(node[v], k) \in Node
      /\ Enough(S) /\ Wrap(Names(S))
      /\ cache' = [cache EXCEPT ![v][k] = Names(S)[site]]
      /\ UNCHANGED <<dirty, built, slots>>
  BY DEF ReadField
<1>2. Sites(S)
  BY <1>1 DEF Sites
<1>3. Names(S)[site] \in View
  BY <1>1, NamesFresh DEF Free
<1>4. cache' \in [View -> [Key -> View \cup {Nil}]]
  BY <1>1, <1>3 DEF HeapInv, HeapTypeOK
<1>5. \A w \in View, q \in Key :
         cache'[w][q] = IF w = v /\ q = k THEN Names(S)[site] ELSE cache[w][q]
  BY <1>1 DEF HeapInv, HeapTypeOK
<1>6. \A w \in View : w # v => cache'[w] = cache[w]
  BY <1>1 DEF HeapInv, HeapTypeOK
<1>7. CacheMove(S)
  <2>1. slots' \in [View -> [Index -> Val \cup {Nil}]]
    BY <1>1 DEF HeapInv, HeapTypeOK, Val, Index
  <2>2. meta[v] # "free" /\ site \in S
    BY <1>1
  <2> HIDE DEF S
  <2>3. \A w \in View : meta[w] = "free" => cache'[w] = cache[w]
    BY <1>6, <2>2
  <2>4. ASSUME NEW w \in View, NEW q \in Key, cache'[w][q] # cache[w][q]
        PROVE  /\ meta[w] = "object" /\ HasKey(node[w], q)
               /\ <<w, FirstItem(node[w], q)>> \in S
               /\ cache'[w][q] = Names(S)[<<w, FirstItem(node[w], q)>>]
    <3>1. w = v /\ q = k
      BY <1>5, <2>4
    <3>2. cache'[w][q] = Names(S)[site]
      BY <1>5, <3>1
    <3>3. QED
      BY <3>1, <3>2, <2>2, <1>1
  <2>5. QED
    BY <1>4, <2>1, <2>3, <2>4 DEF CacheMove
<1>8. AllocMove(S, {}) /\ MarkMove({})
  BY <1>1, <1>2, WrapMove, NoMark
<1> HIDE DEF S
<1>9. QED
  BY <1>7, <1>8

LEMMA ReadFieldKeeps ==
    ASSUME DocAssumption, HeapAssumption, HeapInv,
           NEW v \in View, NEW k \in Key, ReadField(v, k)
    PROVE  HeapInv' /\ KindKept
BY ReadFieldMove, HeapStep DEF KindKept

\* A read of a container element (read_array_index).
LEMMA ReadIndexKeeps ==
    ASSUME DocAssumption, HeapAssumption, HeapInv,
           NEW v \in View, NEW i \in Index, ReadIndex(v, i)
    PROVE  HeapInv' /\ KindKept
<1> DEFINE site == <<v, Item[node[v]][i]>>
           S == {site}
<1>1. /\ meta[v] = "array" /\ Item[node[v]][i] \in Node
      /\ Enough(S) /\ Wrap(Names(S))
      /\ slots' = [slots EXCEPT ![v][i] = Names(S)[site]]
      /\ UNCHANGED <<dirty, built, cache>>
  BY DEF ReadIndex
<1>2. Sites(S)
  BY <1>1 DEF Sites
<1>3. Names(S)[site] \in View
  BY <1>1, NamesFresh DEF Free
<1>4. slots' \in [View -> [Index -> Val \cup {Nil}]]
  BY <1>1, <1>3 DEF HeapInv, HeapTypeOK, Val
<1>5. AllocMove(S, {}) /\ MarkMove({}) /\ CacheMove(S)
  BY <1>1, <1>2, <1>4, WrapMove, NoMark, NoCache
<1> HIDE DEF S
<1>6. QED
  BY <1>5, HeapStep DEF KindKept

\* The sites ensure_object_order_state decodes on an allocated object.
LEMMA BuildSitesOK ==
    ASSUME HeapTypeOK, NEW v \in View, meta[v] # "free", NEW Z
    PROVE  Sites(BuildSites(v, Z))
BY DEF Sites, BuildSites, NeedsDecode

\* A field assignment (LazyObject.__newindex).
LEMMA WriteFieldKeeps ==
    ASSUME DocAssumption, HeapAssumption, HeapInv,
           NEW v \in View, NEW k \in Key, NEW x \in Val \cup {Nil}, WriteField(v, k, x)
    PROVE  HeapInv' /\ KindKept
<1> DEFINE S == IF built[v] THEN {} ELSE BuildSites(v, {k})
<1>1. /\ meta[v] = "object"
      /\ Enough(S) /\ Wrap(Names(S))
      /\ built' = [built EXCEPT ![v] = TRUE]
      /\ dirty' = MarkDirty(v)
      /\ UNCHANGED <<cache, slots>>
  BY DEF WriteField
<1>2. Lazy(v) /\ meta[v] # "free"
  BY <1>1 DEF Lazy
<1>3. Sites(S)
  BY <1>2, BuildSitesOK DEF HeapInv, Sites
<1>4. MarkMove({})
  <2>1. /\ MarkDirty(v) \in [View -> BOOLEAN]
        /\ MarkDirty(v)[v]
        /\ \A w \in View : dirty[w] => MarkDirty(v)[w]
        /\ \A w \in View : meta[w] = "free" => ~MarkDirty(v)[w]
        /\ \A w \in View : Lazy(w) /\ MarkDirty(v)[w] /\ parent[w] # Nil /\ Lazy(parent[w])
              => MarkDirty(v)[parent[w]]
    BY <1>2, MarkLemma DEF HeapInv
  <2>2. /\ built' \in [View -> BOOLEAN]
        /\ \A w \in View : built'[w] = IF w = v THEN TRUE ELSE built[w]
    BY <1>1 DEF HeapInv, HeapTypeOK
  <2>3. \A w \in View : meta[w] = "free" => ~built'[w]
    BY <1>2, <2>2 DEF HeapInv, HeapTypeOK
  <2>4. QED
    BY <1>1, <2>1, <2>2, <2>3 DEF MarkMove
<1>5. slots' \in [View -> [Index -> Val \cup {Nil}]]
  BY <1>1 DEF HeapInv, HeapTypeOK, Val, Index
<1>6. AllocMove(S, {}) /\ CacheMove(S)
  BY <1>1, <1>3, <1>5, WrapMove, NoCache
<1> HIDE DEF S
<1>7. QED
  BY <1>4, <1>6, HeapStep DEF KindKept

\* An assignment to an integer field that is present (no metamethod runs).
LEMMA WriteIndexRawKeeps ==
    ASSUME HeapInv,
           NEW v \in View, NEW i \in Index, NEW x \in Val \cup {Nil}, WriteIndexRaw(v, i, x)
    PROVE  HeapInv' /\ KindKept
<1>1. UNCHANGED <<meta, node, parent, dirty, cache, built>>
  BY DEF WriteIndexRaw
<1>2. slots' \in [View -> [Index -> Val \cup {Nil}]]
  BY DEF WriteIndexRaw, HeapInv, HeapTypeOK
<1>3. QED
  BY <1>1, <1>2, QuietStep DEF KindKept

\* The first write to an array view (LazyArray.__newindex): the view leaves
\* the tree of lazy views and becomes a plain sequence.
LEMMA WriteIndexKeeps ==
    ASSUME DocAssumption, HeapAssumption, HeapInv,
           NEW v \in View, NEW i \in Index, NEW x \in Val \cup {Nil}, WriteIndex(v, i, x)
    PROVE  HeapInv' /\ KindKept
<1> DEFINE item == Item[node[v]]
           fresh == {j \in DOMAIN item : j # i /\ item[j] \in Node /\ slots[v][j] = Nil}
           S == {<<v, item[j]>> : j \in fresh}
           f == Names(S)
           elem(j) == IF j = i THEN x
                      ELSE IF slots[v][j] # Nil \/ j \notin DOMAIN item THEN slots[v][j]
                      ELSE Decoded(v, item[j], f)
<1>1. /\ meta[v] = "array"
      /\ Enough(S)
      /\ node' = WrapNode(f)
      /\ parent' = [WrapParent(f) EXCEPT ![v] = Nil]
      /\ meta' = [WrapMeta(f) EXCEPT ![v] = "plain"]
      /\ slots' = [slots EXCEPT ![v] = [j \in Index |-> elem(j)]]
      /\ dirty' = [MarkDirty(v) EXCEPT ![v] = FALSE]
      /\ UNCHANGED <<cache, built>>
  BY DEF WriteIndex
<1>2. Lazy(v) /\ meta[v] # "free"
  BY <1>1 DEF Lazy
<1>3. Sites(S)
  BY <1>2 DEF Sites
<1>4. f \in [S -> Free]
  BY <1>1, NamesFresh
<1>5. ASSUME NEW j \in Index
      PROVE  elem(j) \in Val \cup {Nil}
  <2>1. slots[v][j] \in Val \cup {Nil}
    BY DEF HeapInv, HeapTypeOK
  <2>2. CASE j # i /\ slots[v][j] = Nil /\ j \in DOMAIN item
    <3>1. item \in Seq(Scalar \cup Node)
      BY DEF DocAssumption, HeapInv, HeapTypeOK
    <3>2. item[j] \in Scalar \cup Node
      BY <2>2, <3>1
    <3>3. CASE item[j] \in Node
      <4>1. <<v, item[j]>> \in S
        BY <2>2, <3>3
      <4>2. f[<<v, item[j]>>] \in View /\ <<v, item[j]>> \in DOMAIN f
        BY <4>1, <1>4 DEF Free
      <4> HIDE DEF f
      <4>3. QED
        BY <2>2, <3>3, <4>2 DEF Decoded, Val
    <3>4. CASE item[j] \notin Node
      BY <2>2, <3>2, <3>4 DEF Decoded, Val
    <3>5. QED
      BY <3>3, <3>4
  <2>3. CASE ~(j # i /\ slots[v][j] = Nil /\ j \in DOMAIN item)
    BY <2>1, <2>3
  <2>4. QED
    BY <2>2, <2>3
<1> HIDE DEF elem
<1>6. slots' \in [View -> [Index -> Val \cup {Nil}]]
  BY <1>1, <1>5 DEF HeapInv, HeapTypeOK
<1>7. AllocMove(S, {v})
  <2> HIDE DEF S
  <2>1. /\ parent' = [w \in View |-> IF w \in {v} THEN Nil ELSE WrapParent(Names(S))[w]]
        /\ meta' = [w \in View |-> IF w \in {v} THEN "plain" ELSE WrapMeta(Names(S))[w]]
    BY <1>1 DEF WrapParent, WrapMeta
  <2>2. QED
    BY <1>1, <1>3, <2>1 DEF AllocMove
<1>8. MarkMove({v})
  <2>1. /\ MarkDirty(v) \in [View -> BOOLEAN]
        /\ MarkDirty(v)[v]
        /\ \A w \in View : dirty[w] => MarkDirty(v)[w]
        /\ \A w \in View : meta[w] = "free" => ~MarkDirty(v)[w]
        /\ \A w \in View : Lazy(w) /\ MarkDirty(v)[w] /\ parent[w] # Nil /\ Lazy(parent[w])
              => MarkDirty(v)[parent[w]]
    BY <1>2, MarkLemma DEF HeapInv
  <2>2. /\ dirty' \in [View -> BOOLEAN]
        /\ \A w \in View : dirty'[w] = IF w = v THEN FALSE ELSE MarkDirty(v)[w]
    BY <1>1, <2>1
  <2>3. /\ built' \in [View -> BOOLEAN]
        /\ \A w \in View : meta[w] = "free" => ~built'[w]
        /\ \A w \in View : built'[w] = built[w]
    BY <1>1 DEF HeapInv, HeapTypeOK
  <2>4. \A w \in View : meta[w] = "free" => ~dirty'[w]
    BY <2>1, <2>2
  <2>5. ASSUME NEW w \in View, Lazy(w), w \in {v} \/ dirty'[w], parent[w] # Nil,
               Lazy(parent[w]), parent[w] \notin {v}
        PROVE  dirty'[parent[w]]
    <3>1. parent[w] \in View
      BY <2>5 DEF HeapInv, HeapTypeOK
    <3>2. MarkDirty(v)[w]
      BY <2>1, <2>2, <2>5
    <3>3. QED
      BY <2>1, <2>2, <2>5, <3>1, <3>2
  <2>6. QED
    BY <2>1, <2>2, <2>3, <2>4, <2>5 DEF MarkMove
<1>9. CacheMove(S)
  BY <1>1, <1>6, NoCache
<1> HIDE DEF S
<1>10. QED
  BY <1>1, <1>7, <1>8, <1>9, HeapStep DEF KindKept

\* A step of a loop over the source (lazy_object_iter): what it caches for a
\* first occurrence is the view of the value a read of that key finds.
LEMMA NextSourceMove ==
    ASSUME DocAssumption, HeapAssumption, HeapInv, IterTypeOK, NextSource
    PROVE  \E S : AllocMove(S, {}) /\ MarkMove({}) /\ CacheMove(S)
<1> DEFINE v == iter.view
           i == iter.pos + 1
           n == node[v]
           k == FieldKey[n][i]
           x == Item[n][i]
           again == ~IsFirst(n, i)
           decodes == x \in Node /\ (again \/ cache[v][k] = Nil)
           S == IF decodes THEN {<<v, x>>} ELSE {}
<1>1. /\ iter.kind = "source"
      /\ iter.pos < Len(FieldKey[n])
      /\ Enough(S) /\ Wrap(Names(S))
      /\ cache' = [cache EXCEPT ![v][k] =
                      IF again THEN Nil ELSE IF decodes THEN Names(S)[<<v, x>>] ELSE @]
      /\ UNCHANGED <<dirty, built, slots>>
  BY DEF NextSource
<1>2. v \in View /\ meta[v] = "object" /\ iter.pos \in Nat
  BY <1>1 DEF IterTypeOK
<1>3. n \in Node /\ FieldKey[n] \in Seq(Key)
  BY <1>2 DEF HeapInv, HeapTypeOK, DocAssumption
<1>4. i \in DOMAIN FieldKey[n] /\ k \in Key
  <2> DEFINE q == FieldKey[n]
  <2>1. q \in Seq(Key) /\ Len(q) \in Nat /\ DOMAIN q = 1..Len(q)
    BY <1>3
  <2>2. i \in 1..Len(q)
    <3>1. iter.pos < Len(q) /\ iter.pos \in Nat
      BY <1>1, <1>2
    <3> HIDE DEF q
    <3>2. QED
      BY <3>1, <2>1
  <2> HIDE DEF q, i
  <2>3. q[i] \in Key
    BY <2>1, <2>2
  <2>4. QED
    BY <2>1, <2>2, <2>3 DEF q
<1>5. Sites(S)
  BY <1>2 DEF Sites
<1>6. ~again => HasKey(n, k) /\ FirstItem(n, k) = x
  <2> SUFFICES ASSUME IsFirst(n, i)
               PROVE  HasKey(n, k) /\ FirstItem(n, k) = x
    OBVIOUS
  <2>1. i \in Positions(n, k) /\ \A j \in Positions(n, k) : i <= j
    BY <1>4 DEF Positions, IsFirst
  <2>2. Positions(n, k) \subseteq Nat
    BY <1>3 DEF Positions
  <2>3. (CHOOSE h \in Positions(n, k) : \A j \in Positions(n, k) : h <= j) = i
    <3> DEFINE h == CHOOSE h \in Positions(n, k) : \A j \in Positions(n, k) : h <= j
    <3>1. h \in Positions(n, k) /\ \A j \in Positions(n, k) : h <= j
      BY <2>1
    <3> HIDE DEF h
    <3>2. h <= i /\ i <= h /\ h \in Nat /\ i \in Nat
      BY <3>1, <2>1, <2>2
    <3>3. h = i
      BY <3>2
    <3>4. QED
      BY <3>3 DEF h
  <2>4. QED
    BY <2>1, <2>3 DEF FirstItem, HasKey
<1>7. decodes => Names(S)[<<v, x>>] \in View
  <2>2. decodes => <<v, x>> \in S
    OBVIOUS
  <2>0. Enough(S)
    BY <1>1
  <2> HIDE DEF S
  <2>1. Names(S) \in [S -> Free]
    BY <2>0, NamesFresh
  <2> HIDE DEF S, decodes
  <2>3. QED
    BY <2>1, <2>2 DEF Free
<1> DEFINE new == IF again THEN Nil ELSE IF decodes THEN Names(S)[<<v, x>>] ELSE cache[v][k]
<1>8. /\ new \in View \cup {Nil}
      /\ cache' = [cache EXCEPT ![v][k] = new]
  <2>1. cache[v][k] \in View \cup {Nil}
    BY <1>2, <1>4 DEF HeapInv, HeapTypeOK
  <2> HIDE DEF k, again, decodes, S, x
  <2>2. QED
    BY <2>1, <1>1, <1>7
<1>9. new = cache[v][k] \/ new = Nil
      \/ /\ HasKey(n, k) /\ <<v, FirstItem(n, k)>> \in S
         /\ new = Names(S)[<<v, FirstItem(n, k)>>]
  BY <1>6
<1> HIDE DEF new, S
<1>10. CacheMove(S)
  <2>1. slots' \in [View -> [Index -> Val \cup {Nil}]]
    BY <1>1 DEF HeapInv, HeapTypeOK, Val, Index
  <2>2. cache' \in [View -> [Key -> View \cup {Nil}]]
    BY <1>2, <1>4, <1>8 DEF HeapInv, HeapTypeOK
  <2>3. \A w \in View, q \in Key :
           cache'[w][q] = IF w = v /\ q = k THEN new ELSE cache[w][q]
    BY <1>8 DEF HeapInv, HeapTypeOK
  <2>4. \A w \in View : w # v => cache'[w] = cache[w]
    BY <1>8 DEF HeapInv, HeapTypeOK
  <2> HIDE DEF v, k
  <2>5. QED
    BY <1>2, <1>9, <2>1, <2>2, <2>3, <2>4 DEF CacheMove
<1>11. AllocMove(S, {}) /\ MarkMove({})
  BY <1>1, <1>5, WrapMove, NoMark
<1>12. QED
  BY <1>10, <1>11

LEMMA NextSourceKeeps ==
    ASSUME DocAssumption, HeapAssumption, HeapInv, IterTypeOK, NextSource
    PROVE  HeapInv' /\ KindKept
BY NextSourceMove, HeapStep DEF KindKept

\* A step of a loop over an array view (lazy_array_iter).
LEMMA NextArrayKeeps ==
    ASSUME DocAssumption, HeapAssumption, HeapInv, IterTypeOK, NextArray
    PROVE  HeapInv' /\ KindKept
<1> DEFINE v == iter.view
           x == Item[node[v]][iter.pos + 1]
           S == IF x \in Node THEN {<<v, x>>} ELSE {}
<1>1. /\ iter.kind = "array" /\ meta[v] = "array"
      /\ Enough(S) /\ Wrap(Names(S))
      /\ UNCHANGED <<dirty, cache, built, slots>>
  BY DEF NextArray
<1>2. v \in View
  BY <1>1 DEF IterTypeOK
<1>3. Sites(S)
  BY <1>1, <1>2 DEF Sites
<1>4. slots' \in [View -> [Index -> Val \cup {Nil}]]
  BY <1>1 DEF HeapInv, HeapTypeOK, Val, Index
<1>5. AllocMove(S, {}) /\ MarkMove({}) /\ CacheMove(S)
  BY <1>1, <1>3, <1>4, WrapMove, NoMark, NoCache
<1> HIDE DEF S
<1>6. QED
  BY <1>5, HeapStep DEF KindKept

\* Order state built on demand by a walk, for any set of objects that are
\* dirty (ensure_object_order_state in encode and materialize).
LEMMA BuildAllKeeps ==
    ASSUME DocAssumption, HeapAssumption, HeapInv,
           NEW T, T \subseteq View, \A t \in T : meta[t] = "object" /\ dirty[t],
           BuildAll(T)
    PROVE  HeapInv' /\ KindKept
<1> DEFINE S == UNION {BuildSites(t, {}) : t \in T}
<1>1. /\ Enough(S) /\ Wrap(Names(S))
      /\ built' = [v \in View |-> built[v] \/ v \in T]
      /\ UNCHANGED <<dirty, cache, slots>>
  BY DEF BuildAll
<1>2. Sites(S)
  <2>1. \A t \in T : Sites(BuildSites(t, {}))
    BY BuildSitesOK DEF HeapInv
  <2>2. QED
    BY <2>1 DEF Sites
<1>3. MarkMove({})
  <2>1. /\ built' \in [View -> BOOLEAN]
        /\ \A v \in View : built'[v] <=> built[v] \/ v \in T
    BY <1>1 DEF HeapInv, HeapTypeOK
  <2>2. QED
    BY <1>1, <2>1 DEF MarkMove, HeapInv, HeapTypeOK, DirtyUp
<1>4. slots' \in [View -> [Index -> Val \cup {Nil}]]
  BY <1>1 DEF HeapInv, HeapTypeOK, Val, Index
<1>5. AllocMove(S, {}) /\ CacheMove(S)
  BY <1>1, <1>2, <1>4, WrapMove, NoCache
<1> HIDE DEF S
<1>6. QED
  BY <1>3, <1>5, HeapStep DEF KindKept

-----------------------------------------------------------------------------
(* The invariant.                                                           *)

\* The loop in progress is part of it: a loop that runs on a view decodes
\* into that view's cache.
IInv == HeapInv /\ IterTypeOK

\* qjson.decode's fresh root view.
LEMMA InitHolds ==
    ASSUME DocAssumption, HeapAssumption, Init
    PROVE  IInv
<1>1. HeapTypeOK
  BY DEF Init, HeapTypeOK, DocAssumption, HeapAssumption, Val
<1>2. DirtyUp
  BY DEF Init, DirtyUp
<1>3. CleanObjectPristine
  BY DEF Init, CleanObjectPristine, HeapAssumption
<1>4. IterTypeOK
  BY DEF Init, IterTypeOK, NoIter
<1>5. KindOK
  BY DEF Init, KindOK, Lazy
<1>6. QED
  BY <1>1, <1>2, <1>3, <1>4, <1>5 DEF IInv, HeapInv

\* A step that leaves the loop where it is, or drops keys it owes.
LEMMA IterKept ==
    ASSUME IterTypeOK, HeapAssumption, KindKept,
           iter' = iter \/ (\E Q : iter' = [iter EXCEPT !.owed = Q])
    PROVE  IterTypeOK'
<1>1. /\ iter'.kind = iter.kind /\ iter'.view = iter.view /\ iter'.pos = iter.pos
      /\ iter' \in [kind : {"none", "source", "ordered", "array", "done", "error"},
                    view : View \cup {Nil}, pos : Nat, owed : {iter'.owed}]
  BY DEF IterTypeOK
<1>2. QED
  BY <1>1 DEF IterTypeOK, KindKept

\* A step of a loop, on the same view.
LEMMA IterMoved ==
    ASSUME IterTypeOK, HeapAssumption, KindKept,
           iter.kind \in {"source", "ordered", "array"},
           \E Q : iter' = [iter EXCEPT !.pos = iter.pos + 1, !.owed = Q]
    PROVE  IterTypeOK'
<1>1. /\ iter'.kind = iter.kind /\ iter'.view = iter.view
      /\ iter' \in [kind : {"none", "source", "ordered", "array", "done", "error"},
                    view : View \cup {Nil}, pos : Nat, owed : {iter'.owed}]
  <2>1. PICK Q : iter' = [iter EXCEPT !.pos = iter.pos + 1, !.owed = Q]
    OBVIOUS
  <2> DEFINE pos == iter.pos + 1
  <2>2. pos \in Nat
    BY DEF IterTypeOK
  <2> HIDE DEF pos
  <2>3. iter' = [iter EXCEPT !.pos = pos, !.owed = Q]
    BY <2>1 DEF pos
  <2>4. QED
    BY <2>2, <2>3 DEF IterTypeOK
<1>2. QED
  BY <1>1 DEF IterTypeOK, KindKept

\* Every step keeps the invariant: one case per action.
LEMMA StepHolds ==
    ASSUME DocAssumption, HeapAssumption, IInv, [Next]_vars
    PROVE  IInv'
<1> USE DEF IInv
<1>1. ASSUME NEW v \in View, NEW k \in Key, ReadField(v, k)
      PROVE  IInv'
  <2>1. iter' = iter
    BY <1>1 DEF ReadField
  <2>2. QED
    BY <1>1, <2>1, ReadFieldKeeps, IterKept
<1>2. ASSUME NEW v \in View, NEW i \in Index, ReadIndex(v, i)
      PROVE  IInv'
  <2>1. iter' = iter
    BY <1>2 DEF ReadIndex
  <2>2. QED
    BY <1>2, <2>1, ReadIndexKeeps, IterKept
<1>3. ASSUME NEW v \in View, NEW k \in Key, NEW x \in Val \cup {Nil}, WriteField(v, k, x)
      PROVE  IInv'
  <2>1. iter' = iter \/ iter' = [iter EXCEPT !.owed = @ \ {k}]
    BY <1>3 DEF WriteField
  <2>2. iter' = iter \/ \E Q : iter' = [iter EXCEPT !.owed = Q]
    BY <2>1
  <2>3. QED
    BY <1>3, <2>2, WriteFieldKeeps, IterKept
<1>4. ASSUME NEW v \in View, NEW i \in Index, NEW x \in Val \cup {Nil}, WriteIndexRaw(v, i, x)
      PROVE  IInv'
  <2>1. iter' = iter
    BY <1>4 DEF WriteIndexRaw
  <2>2. QED
    BY <1>4, <2>1, WriteIndexRawKeeps, IterKept
<1>5. ASSUME NEW v \in View, NEW i \in Index, NEW x \in Val \cup {Nil}, WriteIndex(v, i, x)
      PROVE  IInv'
  <2>1. iter' = iter
    BY <1>5 DEF WriteIndex
  <2>2. QED
    BY <1>5, <2>1, WriteIndexKeeps, IterKept
<1>6. ASSUME NEW v \in View, PairsStart(v)
      PROVE  IInv'
  <2>1. UNCHANGED <<meta, node, parent, dirty, cache, built, slots>> /\ meta[v] = "object"
    BY <1>6 DEF PairsStart
  <2>2. \E c \in {"ordered", "source"} : \E Q : iter' = [kind |-> c, view |-> v, pos |-> 0, owed |-> Q]
    BY <1>6 DEF PairsStart
  <2>3. IterTypeOK'
    BY <2>1, <2>2 DEF IterTypeOK
  <2>4. HeapInv'
    BY <2>1, QuietStep DEF HeapInv, HeapTypeOK, Val, Index
  <2>5. QED
    BY <2>3, <2>4
<1>7. ASSUME NEW v \in View, IpairsStart(v)
      PROVE  IInv'
  <2>1. UNCHANGED <<meta, node, parent, dirty, cache, built, slots>> /\ meta[v] = "array"
    BY <1>7 DEF IpairsStart
  <2>2. IterTypeOK'
    BY <1>7, <2>1 DEF IterTypeOK, IpairsStart
  <2>3. HeapInv'
    BY <2>1, QuietStep DEF HeapInv, HeapTypeOK, Val, Index
  <2>4. QED
    BY <2>2, <2>3
<1>8. CASE NextSource
  <2>1. /\ iter.kind = "source"
        /\ \E Q : iter' = [iter EXCEPT !.pos = iter.pos + 1, !.owed = Q]
    BY <1>8 DEF NextSource
  <2>2. QED
    BY <1>8, <2>1, NextSourceKeeps, IterMoved
<1>9. CASE NextOrdered
  <2>1. /\ iter.kind = "ordered"
        /\ \E Q : iter' = [iter EXCEPT !.pos = iter.pos + 1, !.owed = Q]
    BY <1>9 DEF NextOrdered
  <2>2. UNCHANGED <<meta, node, parent, dirty, cache, built, slots>>
    BY <1>9 DEF NextOrdered
  <2>3. HeapInv' /\ KindKept
    BY <2>2, QuietStep DEF HeapInv, HeapTypeOK, KindKept, Val, Index
  <2>4. QED
    BY <2>1, <2>3, IterMoved
<1>10. CASE NextArray
  <2>1. iter.kind = "array" /\ iter' = [iter EXCEPT !.pos = @ + 1]
    BY <1>10 DEF NextArray
  <2>2. iter' = [iter EXCEPT !.pos = iter.pos + 1, !.owed = iter.owed]
    BY <2>1 DEF IterTypeOK
  <2>3. QED
    BY <1>10, <2>1, <2>2, NextArrayKeeps, IterMoved
<1>11. CASE NextArrayFails \/ IterEnd
  <2>1. UNCHANGED <<meta, node, parent, dirty, cache, built, slots>>
    BY <1>11 DEF NextArrayFails, IterEnd
  <2>2. \E c \in {"error", "done"} : \E Q : iter' = [kind |-> c, view |-> Nil, pos |-> 0, owed |-> Q]
    BY <1>11 DEF NextArrayFails, IterEnd, NoIter
  <2>3. IterTypeOK'
    BY <2>2 DEF IterTypeOK
  <2>4. HeapInv'
    BY <2>1, QuietStep DEF HeapInv, HeapTypeOK, Val, Index
  <2>5. QED
    BY <2>3, <2>4
<1>12. ASSUME NEW T, T \subseteq View, \A t \in T : meta[t] = "object" /\ dirty[t], BuildAll(T)
       PROVE  IInv'
  <2>1. iter' = iter
    BY <1>12 DEF BuildAll
  <2>2. QED
    BY <1>12, <2>1, BuildAllKeeps, IterKept
<1>13. ASSUME NEW v \in View, Encode(v) \/ Materialize(v)
       PROVE  IInv'
  <2>1. PICK T : T \subseteq View /\ (\A t \in T : meta[t] = "object" /\ dirty[t]) /\ BuildAll(T)
    BY <1>13 DEF Encode, Materialize, Unordered, Reach
  <2>2. QED
    BY <2>1, <1>12
<1>14. CASE UNCHANGED vars
  <2>1. UNCHANGED <<meta, node, parent, dirty, cache, built, slots, iter>>
    BY <1>14 DEF vars
  <2>2. HeapInv'
    BY <2>1, QuietStep DEF HeapInv, HeapTypeOK, Val, Index
  <2>3. IterTypeOK'
    BY <2>1 DEF IterTypeOK
  <2>4. QED
    BY <2>2, <2>3
<1>15. QED
  BY <1>1, <1>2, <1>3, <1>4, <1>5, <1>6, <1>7, <1>8, <1>9, <1>10, <1>11, <1>13, <1>14 DEF Next

\* The invariant holds in every reachable state.
THEOREM InvariantHolds == Spec => []IInv
<1>1. DocAssumption /\ HeapAssumption
  BY DocAssumption, HeapAssumption
<1>2. Init => IInv
  BY <1>1, InitHolds
<1>3. IInv /\ [Next]_vars => IInv'
  BY <1>1, StepHolds
<1>4. QED
  BY <1>2, <1>3, PTL DEF Spec

\* The source bytes above a written view are never copied over the write: the
\* dirty flag of a view reaches every lazy view on its _parent chain.
THEOREM DirtyReachesRoot == Spec => []DirtyUp
<1>1. IInv => DirtyUp
  BY DEF IInv, HeapInv
<1>2. QED
  BY <1>1, InvariantHolds, PTL

\* What encode_proxy copies for a clean object is that object: nothing it ever
\* handed out has been written, turned into another table, or moved.
THEOREM CleanBytesStand == Spec => []CleanObjectPristine
<1>1. IInv => CleanObjectPristine
  BY DEF IInv, HeapInv
<1>2. QED
  BY <1>1, InvariantHolds, PTL

-----------------------------------------------------------------------------
(* Positions and key lists.                                                 *)

\* The positions of a key in a container.
LEMMA PositionFacts ==
    ASSUME DocAssumption, NEW n \in Node, NEW k, HasKey(n, k), Kind[n] = "object"
    PROVE  /\ \E i \in Positions(n, k) : IsFirst(n, i)
           /\ FirstItem(n, k) \in Scalar \cup Node
           /\ LastItem(n, k) \in Scalar \cup Node
<1> DEFINE S == Positions(n, k)
<1>1. /\ FieldKey[n] \in Seq(Key) /\ Item[n] \in Seq(Scalar \cup Node)
      /\ Len(FieldKey[n]) = Len(Item[n])
  BY DEF DocAssumption
<1>2. S \in SUBSET (1..Len(FieldKey[n])) /\ Len(FieldKey[n]) \in Nat /\ S # {}
  BY <1>1 DEF Positions, HasKey
<1>3. S \in SUBSET Nat /\ IsFiniteSet(S)
  <2> DEFINE l == Len(FieldKey[n])
  <2>1. l \in Nat /\ S \in SUBSET (1..l)
    BY <1>2
  <2> HIDE DEF l, S
  <2>2. IsFiniteSet(1..l)
    BY <2>1, FS_Interval
  <2>3. IsFiniteSet(S)
    BY <2>1, <2>2, FS_Subset
  <2>4. \A i \in S : i \in Nat
    BY <2>1
  <2>5. QED
    BY <2>3, <2>4
<1>4. \A i \in S : Item[n][i] \in Scalar \cup Node /\ FieldKey[n][i] = k
  BY <1>1, <1>2 DEF Positions
<1> HIDE DEF S
<1>5. /\ \E i \in S : \A j \in S : i <= j
      /\ \E i \in S : \A j \in S : j <= i
  BY <1>2, <1>3, EndsExist
<1>6. QED
  BY <1>4, <1>5 DEF S, FirstItem, LastItem, IsFirst

\* The key list ensure_object_order_state starts from: every key of the object
\* once.
LEMMA FirstOrderFacts ==
    ASSUME DocAssumption, NEW n \in Node, Kind[n] = "object"
    PROVE  /\ FirstOrder(n) \in Seq(Key)
           /\ IsInjective(FirstOrder(n))
           /\ ToSet(FirstOrder(n)) = {k \in Key : HasKey(n, k)}
<1> DEFINE S == FirstAt(n)
           at(j) == CHOOSE i \in S : Cardinality({h \in S : h <= i}) = j
<1>1. FieldKey[n] \in Seq(Key)
  BY DEF DocAssumption
<1>2. S \in SUBSET (1..Len(FieldKey[n])) /\ Len(FieldKey[n]) \in Nat
  BY <1>1 DEF FirstAt
<1>3. S \in SUBSET Nat /\ IsFiniteSet(S)
  <2> DEFINE l == Len(FieldKey[n])
  <2>1. l \in Nat /\ S \in SUBSET (1..l)
    BY <1>2
  <2> HIDE DEF l, S
  <2>2. IsFiniteSet(1..l)
    BY <2>1, FS_Interval
  <2>3. IsFiniteSet(S)
    BY <2>1, <2>2, FS_Subset
  <2>4. \A i \in S : i \in Nat
    BY <2>1
  <2>5. QED
    BY <2>3, <2>4
<1>4. /\ Cardinality(S) \in Nat
      /\ \A i \in S : Cardinality(UpTo(S, i)) \in 1..Cardinality(S)
      /\ \A i, h \in S : Cardinality(UpTo(S, i)) = Cardinality(UpTo(S, h)) => i = h
      /\ \A j \in 1..Cardinality(S) : \E i \in S : Cardinality(UpTo(S, i)) = j
  BY <1>3, RankFacts
<1>5. \A j \in 1..Cardinality(S) : at(j) \in S /\ Cardinality(UpTo(S, at(j))) = j
  BY <1>4 DEF UpTo
<1>6. ASSUME NEW i \in S PROVE \E j \in 1..Cardinality(S) : at(j) = i
  <2> DEFINE j == Cardinality(UpTo(S, i))
  <2> HIDE DEF S, at
  <2>1. j \in 1..Cardinality(S) /\ Cardinality(UpTo(S, at(j))) = j /\ at(j) \in S
    BY <1>4, <1>5
  <2>2. QED
    BY <2>1, <1>4
<1>7. \A i \in S : FieldKey[n][i] \in Key /\ i \in Positions(n, FieldKey[n][i])
                   /\ \A h \in Positions(n, FieldKey[n][i]) : i <= h
  BY <1>1 DEF FirstAt, IsFirst, Positions
<1>8. FirstOrder(n) = [j \in 1..Cardinality(S) |-> FieldKey[n][at(j)]]
  BY DEF FirstOrder
<1> HIDE DEF S, at
<1>9. FirstOrder(n) \in Seq(Key) /\ DOMAIN FirstOrder(n) = 1..Cardinality(S)
  BY <1>4, <1>5, <1>7, <1>8
<1>10. IsInjective(FirstOrder(n))
  <2> SUFFICES ASSUME NEW a \in 1..Cardinality(S), NEW b \in 1..Cardinality(S),
                      FieldKey[n][at(a)] = FieldKey[n][at(b)]
               PROVE  a = b
    BY <1>8, <1>9 DEF IsInjective
  <2>1. at(a) \in S /\ at(b) \in S /\ at(a) \in Nat /\ at(b) \in Nat
    BY <1>3, <1>5
  <2>2. at(a) <= at(b) /\ at(b) <= at(a)
    BY <2>1, <1>7
  <2>3. at(a) = at(b)
    BY <2>1, <2>2
  <2>4. QED
    BY <2>3, <1>5
<1>11. ASSUME NEW k \in Key, HasKey(n, k)
       PROVE  k \in ToSet(FirstOrder(n))
  <2>1. PICK i \in Positions(n, k) : IsFirst(n, i)
    BY <1>11, PositionFacts
  <2>2. i \in S /\ FieldKey[n][i] = k
    BY <2>1 DEF S, FirstAt, Positions
  <2>3. PICK j \in 1..Cardinality(S) : at(j) = i
    BY <2>2, <1>6
  <2>4. FirstOrder(n)[j] = k
    BY <2>2, <2>3, <1>8
  <2>5. QED
    BY <2>4, <1>9 DEF ToSet
<1>12. ASSUME NEW k \in ToSet(FirstOrder(n))
       PROVE  k \in Key /\ HasKey(n, k)
  <2>1. PICK j \in 1..Cardinality(S) : k = FieldKey[n][at(j)]
    BY <1>8, <1>9, <1>12 DEF ToSet
  <2>2. QED
    BY <2>1, <1>5, <1>7 DEF HasKey
<1>13. QED
  BY <1>9, <1>10, <1>11, <1>12

\* table.remove closes the gap.
LEMMA RemoveAtFacts ==
    ASSUME NEW T, NEW s \in Seq(T), NEW i \in 1..Len(s)
    PROVE  /\ RemoveAt(s, i) \in Seq(T) /\ Len(RemoveAt(s, i)) = Len(s) - 1
           /\ \A j \in 1..Len(s) - 1 : RemoveAt(s, i)[j] = IF j < i THEN s[j] ELSE s[j + 1]
<1>0. DOMAIN s = 1..Len(s) /\ Len(s) \in Nat
  OBVIOUS
<1> DEFINE r == RemoveAt(s, i)
<1> DEFINE a == SubSeq(s, 1, i - 1)
           b == SubSeq(s, i + 1, Len(s))
<1>1. /\ a \in Seq(T) /\ Len(a) = i - 1 /\ \A j \in 1..i - 1 : a[j] = s[j]
      /\ i \in 1..Len(s)
  OBVIOUS
<1>2. b \in Seq(T) /\ Len(b) = Len(s) - i /\ \A j \in 1..Len(s) - i : b[j] = s[j + i]
  <2>1. \A x \in i + 1..Len(s) : s[x] \in T
    BY <1>0
  <2> DEFINE n == Len(s)
             m == i + 1
  <2>2. n \in Nat /\ i \in 1..n /\ b = SubSeq(s, m, n) /\ \A x \in m..n : s[x] \in T
    BY <2>1, <1>0
  <2> HIDE DEF n, b
  <2>3. m \in Int /\ n \in Int /\ n - m + 1 = n - i /\ (m <= n \/ n - i = 0)
        /\ \A j \in 1..n - i : m + j - 1 = j + i
    BY <2>2
  <2> HIDE DEF m
  <2>4. /\ b \in Seq(T)
        /\ Len(b) = IF m <= n THEN n - m + 1 ELSE 0
        /\ \A h \in 1..n - m + 1 : b[h] = s[m + h - 1]
    BY <2>2, <2>3, SubSeqProperties
  <2>5. Len(b) = n - i /\ \A j \in 1..n - i : b[j] = s[j + i]
    BY <2>3, <2>4
  <2>6. QED
    BY <2>4, <2>5 DEF n
<1>3. r = a \o b
  BY DEF RemoveAt
<1> HIDE DEF a, b, r
<1>4. /\ r \in Seq(T) /\ Len(r) = Len(a) + Len(b)
      /\ \A j \in 1..Len(a) + Len(b) : r[j] = IF j <= Len(a) THEN a[j] ELSE b[j - Len(a)]
  BY <1>1, <1>2, <1>3, ConcatProperties
<1>5. Len(a) + Len(b) = Len(s) - 1
  BY <1>1, <1>2, <1>0
<1>6. ASSUME NEW j \in 1..Len(s) - 1 PROVE r[j] = IF j < i THEN s[j] ELSE s[j + 1]
  <2>1. CASE j < i
    BY <2>1, <1>1, <1>4, <1>5, <1>0
  <2>2. CASE ~(j < i)
    <3>0. j \in Nat /\ i \in Nat /\ Len(s) \in Nat /\ j <= Len(s) - 1 /\ i <= j
      BY <2>2, <1>0
    <3>1. j - (i - 1) \in 1..Len(s) - i /\ j - (i - 1) + i = j + 1
      BY <3>0
    <3>2. ~(j <= Len(a)) /\ j - Len(a) = j - (i - 1)
      BY <3>0, <1>1
    <3>3. r[j] = b[j - (i - 1)]
      BY <3>2, <1>4, <1>5
    <3>4. b[j - (i - 1)] = s[j + 1]
      BY <3>1, <1>2
    <3>5. QED
      BY <2>2, <3>3, <3>4
  <2>3. QED
    BY <2>1, <2>2
<1>7. QED
  BY <1>4, <1>5, <1>6 DEF r

LEMMA RemoveIs ==
    ASSUME NEW T, NEW s \in Seq(T), IsInjective(s), NEW i \in 1..Len(s)
    PROVE  RemoveFirst(s, s[i]) = RemoveAt(s, i)
<1> DEFINE I == {h \in 1..Len(s) : s[h] = s[i]}
<1>1. DOMAIN s = 1..Len(s)
  OBVIOUS
<1>2. I = {i}
  BY <1>1 DEF IsInjective
<1>3. Min(I) = i
  BY <1>2 DEF Min
<1>4. QED
  BY <1>2, <1>3 DEF RemoveFirst, SelectInSeq

\* table.remove of a key that is listed once, or not at all.
LEMMA RemoveFacts ==
    ASSUME NEW T, NEW s \in Seq(T), IsInjective(s), NEW k
    PROVE  /\ RemoveFirst(s, k) \in Seq(T)
           /\ IsInjective(RemoveFirst(s, k))
           /\ ToSet(RemoveFirst(s, k)) = ToSet(s) \ {k}
<1>0. DOMAIN s = 1..Len(s) /\ Len(s) \in Nat
  OBVIOUS
<1>1. CASE ~\E i \in 1..Len(s) : s[i] = k
  <2>1. RemoveFirst(s, k) = s
    BY <1>1 DEF RemoveFirst
  <2>2. k \notin ToSet(s)
    BY <1>0, <1>1 DEF ToSet
  <2>3. QED
    BY <2>1, <2>2
<1>2. CASE \E i \in 1..Len(s) : s[i] = k
  <2>1. PICK i \in 1..Len(s) : s[i] = k
    BY <1>2
  <2>4. RemoveFirst(s, k) = RemoveAt(s, i)
    BY <2>1, RemoveIs
  <2> DEFINE r == RemoveAt(s, i)
  <2>5. /\ r \in Seq(T) /\ Len(r) = Len(s) - 1
        /\ \A j \in 1..Len(s) - 1 : r[j] = IF j < i THEN s[j] ELSE s[j + 1]
    BY RemoveAtFacts
  <2> HIDE DEF r
  <2>6. DOMAIN r = 1..Len(s) - 1
    BY <2>5
  <2>7. ASSUME NEW j \in 1..Len(s) - 1, NEW l \in 1..Len(s) - 1, r[j] = r[l]
        PROVE  j = l
    <3> DEFINE from(m) == IF m < i THEN m ELSE m + 1
    <3>1. \A m \in 1..Len(s) - 1 : from(m) \in 1..Len(s) /\ r[m] = s[from(m)]
      BY <2>5, <1>0
    <3>2. from(j) = from(l)
      <4> HIDE DEF from
      <4>1. QED
        BY <3>1, <2>7, <1>0 DEF IsInjective
    <3>3. QED
      BY <3>2, <1>0
  <2>8. ASSUME NEW x \in ToSet(r) PROVE x \in ToSet(s) \ {k}
    <3>1. PICK j \in 1..Len(s) - 1 : x = r[j]
      BY <2>6, <2>8 DEF ToSet
    <3> DEFINE h == IF j < i THEN j ELSE j + 1
    <3>2. h \in 1..Len(s) /\ h # i /\ x = s[h]
      BY <3>1, <2>5, <1>0
    <3>3. x # k
      BY <3>2, <2>1, <1>0 DEF IsInjective
    <3>4. QED
      BY <3>2, <3>3, <1>0 DEF ToSet
  <2>9. ASSUME NEW x \in ToSet(s) \ {k} PROVE x \in ToSet(r)
    <3>1. PICK h \in 1..Len(s) : x = s[h]
      BY <2>9, <1>0 DEF ToSet
    <3>2. h # i
      BY <3>1, <2>1, <2>9
    <3> DEFINE j == IF h < i THEN h ELSE h - 1
    <3>3. j \in 1..Len(s) - 1 /\ r[j] = x
      BY <3>1, <3>2, <2>5, <1>0
    <3>4. QED
      BY <3>3, <2>6 DEF ToSet
  <2>11. IsInjective(r)
    BY <2>6, <2>7 DEF IsInjective
  <2>10. QED
    BY <2>4, <2>5, <2>11, <2>8, <2>9 DEF r
<1>3. QED
  BY <1>1, <1>2

\* A key that is new goes to the end.
LEMMA AppendFacts ==
    ASSUME NEW T, NEW s \in Seq(T), IsInjective(s), NEW k \in T, k \notin ToSet(s)
    PROVE  /\ Append(s, k) \in Seq(T)
           /\ IsInjective(Append(s, k))
           /\ ToSet(Append(s, k)) = ToSet(s) \cup {k}
<1> DEFINE r == Append(s, k)
<1>1. /\ r \in Seq(T) /\ DOMAIN r = 1..Len(s) + 1 /\ DOMAIN s = 1..Len(s) /\ Len(s) \in Nat
      /\ \A j \in 1..Len(s) : r[j] = s[j]
      /\ r[Len(s) + 1] = k
  OBVIOUS
<1> HIDE DEF r
<1>2. \A j \in 1..Len(s) : s[j] # k
  BY <1>1 DEF ToSet
<1>3. IsInjective(r)
  BY <1>1, <1>2 DEF IsInjective
<1>4. ToSet(r) = ToSet(s) \cup {k}
  BY <1>1 DEF ToSet
<1>5. QED
  BY <1>1, <1>3, <1>4 DEF r

-----------------------------------------------------------------------------
(* Order state.                                                             *)

\* A container behind a view of an object is an object.
LEMMA ObjectNode ==
    ASSUME HeapInv, NEW v \in View, meta[v] = "object"
    PROVE  node[v] \in Node /\ Kind[node[v]] = "object"
BY DEF HeapInv, HeapTypeOK, KindOK, Lazy

\* What the walk over the source leaves behind a key: something for each key of
\* the object, a value or a view unless the key was skipped.
LEMMA BuiltFacts ==
    ASSUME DocAssumption, HeapAssumption, HeapInv,
           NEW v \in View, meta[v] = "object", NEW k \in Key, NEW S, Enough(S)
    PROVE  /\ BuiltValue(v, k, Names(S)) = Nil <=> ~HasKey(node[v], k)
           /\ (NeedsDecode(v, k) => <<v, LastItem(node[v], k)>> \in S)
              => BuiltValue(v, k, Names(S)) \in Val \cup {Nil}
<1> DEFINE x == LastItem(node[v], k)
           f == Names(S)
<1>1. CASE ~HasKey(node[v], k)
  BY <1>1 DEF BuiltValue
<1>2. CASE HasKey(node[v], k)
  <2>1. x \in Scalar \cup Node /\ x # Nil
    BY <1>2, ObjectNode, PositionFacts DEF HeapAssumption
  <2>2. cache[v][k] \in View \cup {Nil}
    BY DEF HeapInv, HeapTypeOK
  <2>3. f \in [S -> Free]
    BY NamesFresh
  <2>4. ASSUME <<v, x>> \in S PROVE f[<<v, x>>] \in View /\ f[<<v, x>>] # Nil
    BY <2>3, <2>4 DEF Free, HeapAssumption
  <2>5. DOMAIN f = S
    BY <2>3
  <2> HIDE DEF x, f
  <2>6. CASE x \in Node /\ ~NeedsDecode(v, k)
    <3>1. cache[v][k] # Nil
      BY <2>6 DEF NeedsDecode, x
    <3>2. BuiltValue(v, k, f) = cache[v][k]
      BY <2>6, <1>2 DEF BuiltValue, x
    <3>3. QED
      BY <3>1, <3>2, <2>2, <1>2 DEF f, Val
  <2>7. CASE x \notin Node
    <3>1. BuiltValue(v, k, f) = x
      BY <2>7, <1>2 DEF BuiltValue, Decoded, x
    <3>2. QED
      BY <3>1, <2>1, <2>7, <1>2 DEF f, Val
  <2>8. CASE x \in Node /\ NeedsDecode(v, k)
    <3>1. BuiltValue(v, k, f) = IF <<v, x>> \in S THEN f[<<v, x>>] ELSE x
      BY <2>5, <2>8, <1>2 DEF BuiltValue, Decoded, x
    <3>2. QED
      BY <3>1, <2>1, <2>4, <2>8, <1>2 DEF f, x, Val
  <2>9. QED
    BY <2>6, <2>7, <2>8
<1>3. QED
  BY <1>1, <1>2

\* The key list after an assignment to k lists what the value map then holds.
LEMMA KeysAfterFacts ==
    ASSUME HeapAssumption, NEW ks \in Seq(Key), NEW vs, DOMAIN vs = Key, IsInjective(ks),
           ToSet(ks) = {q \in Key : vs[q] # Nil}, NEW k \in Key, NEW x
    PROVE  /\ KeysAfter(ks, vs, k, x) \in Seq(Key)
           /\ IsInjective(KeysAfter(ks, vs, k, x))
           /\ ToSet(KeysAfter(ks, vs, k, x)) = {q \in Key : [vs EXCEPT ![k] = x][q] # Nil}
<1> DEFINE after == {q \in Key : [vs EXCEPT ![k] = x][q] # Nil}
<1>0. \A q : q \in after <=> q \in Key /\ IF q = k THEN x # Nil ELSE vs[q] # Nil
  OBVIOUS
<1> HIDE DEF after
<1>1. CASE x = Nil
  <2>1. KeysAfter(ks, vs, k, x) = RemoveFirst(ks, k)
    BY <1>1 DEF KeysAfter
  <2>2. after = ToSet(ks) \ {k}
    BY <1>0, <1>1
  <2>3. QED
    BY <2>1, <2>2, RemoveFacts DEF after
<1>2. CASE x # Nil /\ vs[k] = Nil
  <2>1. KeysAfter(ks, vs, k, x) = Append(ks, k)
    BY <1>2 DEF KeysAfter
  <2>2. after = ToSet(ks) \cup {k}
    BY <1>0, <1>2
  <2>3. k \notin ToSet(ks)
    BY <1>2
  <2>4. QED
    BY <2>1, <2>2, <2>3, AppendFacts DEF after
<1>3. CASE x # Nil /\ vs[k] # Nil
  <2>1. KeysAfter(ks, vs, k, x) = ks
    BY <1>3 DEF KeysAfter
  <2>2. after = ToSet(ks)
    BY <1>0, <1>3
  <2>3. QED
    BY <2>1, <2>2 DEF after
<1>4. QED
  BY <1>1, <1>2, <1>3

OrderInv == OrderTypeOK /\ OrderAgrees

\* An assignment to a field (LazyObject.__newindex), on an object with or without
\* order state.
LEMMA WriteFieldOrder ==
    ASSUME DocAssumption, HeapAssumption, IInv, OrderInv,
           NEW v \in View, NEW k \in Key, NEW x \in Val \cup {Nil}, WriteField(v, k, x)
    PROVE  OrderInv'
<1> DEFINE S == IF built[v] THEN {} ELSE BuildSites(v, {k})
           ks == IF built[v] THEN keys[v] ELSE FirstOrder(node[v])
           vs == IF built[v] THEN values[v] ELSE BuiltValues(v, Names(S))
           ks2 == KeysAfter(ks, vs, k, x)
           vs2 == [vs EXCEPT ![k] = x]
<1>1. /\ meta[v] = "object"
      /\ Enough(S)
      /\ keys' = [keys EXCEPT ![v] = ks2]
      /\ values' = [values EXCEPT ![v] = vs2]
      /\ built' = [built EXCEPT ![v] = TRUE]
      /\ iter' = IF iter.view = v /\ x = Nil THEN [iter EXCEPT !.owed = @ \ {k}] ELSE iter
  BY DEF WriteField
<1>2. /\ ks \in Seq(Key) /\ IsInjective(ks)
      /\ ToSet(ks) = {q \in Key : vs[q] # Nil}
      /\ DOMAIN vs = Key
      /\ \A q \in Key \ {k} : vs[q] \in Val \cup {Nil}
  <2>1. CASE built[v]
    BY <2>1 DEF OrderInv, OrderTypeOK, OrderAgrees
  <2>2. CASE ~built[v]
    <3>1. node[v] \in Node /\ Kind[node[v]] = "object"
      BY <1>1, ObjectNode DEF IInv
    <3>2. S = BuildSites(v, {k})
      BY <2>2
    <3>3. ASSUME NEW q \in Key
          PROVE  /\ BuiltValue(v, q, Names(S)) = Nil <=> ~HasKey(node[v], q)
                 /\ q # k => BuiltValue(v, q, Names(S)) \in Val \cup {Nil}
      <4>1. q # k /\ NeedsDecode(v, q) /\ HasKey(node[v], q) => <<v, LastItem(node[v], q)>> \in S
        BY <3>2 DEF BuildSites
      <4>2. ~HasKey(node[v], q) => BuiltValue(v, q, Names(S)) = Nil
        BY DEF BuiltValue
      <4> HIDE DEF S
      <4>3. (NeedsDecode(v, q) => <<v, LastItem(node[v], q)>> \in S)
              => BuiltValue(v, q, Names(S)) \in Val \cup {Nil}
        BY <1>1, BuiltFacts DEF IInv
      <4>4. BuiltValue(v, q, Names(S)) = Nil <=> ~HasKey(node[v], q)
        BY <1>1, BuiltFacts DEF IInv
      <4>5. QED
        BY <4>1, <4>2, <4>3, <4>4
    <3> HIDE DEF S
    <3>4. vs = [q \in Key |-> BuiltValue(v, q, Names(S))]
      BY <2>2 DEF BuiltValues
    <3>5. ks = FirstOrder(node[v])
      BY <2>2
    <3>6. ToSet(ks) = {q \in Key : HasKey(node[v], q)} /\ ks \in Seq(Key) /\ IsInjective(ks)
      BY <3>1, <3>5, FirstOrderFacts
    <3> HIDE DEF ks, vs
    <3>7. QED
      BY <3>3, <3>4, <3>6
  <2>3. QED
    BY <2>1, <2>2
<1> HIDE DEF S, ks, vs
<1>3. /\ ks2 \in Seq(Key) /\ IsInjective(ks2)
      /\ ToSet(ks2) = {q \in Key : vs2[q] # Nil}
  <2>1. /\ KeysAfter(ks, vs, k, x) \in Seq(Key) /\ IsInjective(KeysAfter(ks, vs, k, x))
        /\ ToSet(KeysAfter(ks, vs, k, x)) = {q \in Key : [vs EXCEPT ![k] = x][q] # Nil}
    <3>1. /\ ks \in Seq(Key) /\ DOMAIN vs = Key /\ IsInjective(ks)
          /\ ToSet(ks) = {q \in Key : vs[q] # Nil}
      BY <1>2
    <3> HIDE DEF ks2, vs2
    <3>2. QED
      BY <3>1, KeysAfterFacts
  <2>2. QED
    BY <2>1
<1>4. vs2 \in [Key -> Val \cup {Nil}]
  BY <1>2
<1> HIDE DEF ks2, vs2
<1>5. keys' \in [View -> Seq(Key)] /\ values' \in [View -> [Key -> Val \cup {Nil}]]
  BY <1>1, <1>3, <1>4 DEF OrderInv, OrderTypeOK
<1>6. iter'.owed \subseteq Key
  BY <1>1 DEF OrderInv, OrderTypeOK, IInv, IterTypeOK
<1>7. ASSUME NEW w \in View, built'[w]
      PROVE  /\ IsInjective(keys'[w])
             /\ ToSet(keys'[w]) = {q \in Key : values'[w][q] # Nil}
  <2>1. CASE w = v
    BY <2>1, <1>1, <1>3 DEF OrderInv, OrderTypeOK
  <2>2. CASE w # v
    <3>1. built[w] /\ keys'[w] = keys[w] /\ values'[w] = values[w]
      BY <2>2, <1>1, <1>7 DEF OrderInv, OrderTypeOK, IInv, HeapInv, HeapTypeOK
    <3>2. QED
      BY <3>1 DEF OrderInv, OrderAgrees
  <2>3. QED
    BY <2>1, <2>2
<1>8. QED
  BY <1>5, <1>6, <1>7 DEF OrderInv, OrderTypeOK, OrderAgrees

\* Order state built by a walk of encode or materialize, for any set of objects
\* that have none.
LEMMA BuildAllOrder ==
    ASSUME DocAssumption, HeapAssumption, IInv, OrderInv,
           NEW T, T \subseteq View, \A t \in T : meta[t] = "object", BuildAll(T)
    PROVE  OrderInv'
<1> DEFINE S == UNION {BuildSites(t, {}) : t \in T}
<1>1. /\ Enough(S)
      /\ built' = [v \in View |-> built[v] \/ v \in T]
      /\ keys' = [v \in View |-> IF v \in T THEN FirstOrder(node[v]) ELSE keys[v]]
      /\ values' = [v \in View |-> IF v \in T THEN BuiltValues(v, Names(S)) ELSE values[v]]
      /\ iter' = iter
  BY DEF BuildAll
<1>2. ASSUME NEW t \in T
      PROVE  /\ FirstOrder(node[t]) \in Seq(Key) /\ IsInjective(FirstOrder(node[t]))
             /\ BuiltValues(t, Names(S)) \in [Key -> Val \cup {Nil}]
             /\ ToSet(FirstOrder(node[t])) = {q \in Key : BuiltValues(t, Names(S))[q] # Nil}
  <2>1. t \in View /\ meta[t] = "object"
    OBVIOUS
  <2>2. node[t] \in Node /\ Kind[node[t]] = "object"
    BY <2>1, ObjectNode DEF IInv
  <2>3. \A q \in Key : NeedsDecode(t, q) /\ HasKey(node[t], q) => <<t, LastItem(node[t], q)>> \in S
    BY DEF BuildSites
  <2> HIDE DEF S
  <2>4. ASSUME NEW q \in Key
        PROVE  /\ BuiltValue(t, q, Names(S)) = Nil <=> ~HasKey(node[t], q)
               /\ BuiltValue(t, q, Names(S)) \in Val \cup {Nil}
    <3>1. (NeedsDecode(t, q) => <<t, LastItem(node[t], q)>> \in S)
            => BuiltValue(t, q, Names(S)) \in Val \cup {Nil}
      BY <1>1, <2>1, BuiltFacts DEF IInv
    <3>2. BuiltValue(t, q, Names(S)) = Nil <=> ~HasKey(node[t], q)
      BY <1>1, <2>1, BuiltFacts DEF IInv
    <3>3. ~HasKey(node[t], q) \/ (NeedsDecode(t, q) => <<t, LastItem(node[t], q)>> \in S)
      BY <2>3
    <3>4. QED
      BY <3>1, <3>2, <3>3
  <2>5. BuiltValues(t, Names(S)) = [q \in Key |-> BuiltValue(t, q, Names(S))]
    BY DEF BuiltValues
  <2>6. QED
    BY <2>2, <2>4, <2>5, FirstOrderFacts
<1> HIDE DEF S
<1>3. keys' \in [View -> Seq(Key)] /\ values' \in [View -> [Key -> Val \cup {Nil}]]
  BY <1>1, <1>2 DEF OrderInv, OrderTypeOK
<1>4. ASSUME NEW w \in View, built'[w]
      PROVE  /\ IsInjective(keys'[w])
             /\ ToSet(keys'[w]) = {q \in Key : values'[w][q] # Nil}
  <2>1. CASE w \in T
    BY <2>1, <1>1, <1>2
  <2>2. CASE w \notin T
    BY <2>2, <1>1, <1>4 DEF OrderInv, OrderAgrees
  <2>3. QED
    BY <2>1, <2>2
<1>5. QED
  BY <1>1, <1>3, <1>4 DEF OrderInv, OrderTypeOK, OrderAgrees

\* Every other step leaves the order state alone, and starts a loop that owes
\* keys or drops some.
LEMMA OrderKept ==
    ASSUME OrderInv, UNCHANGED <<built, keys, values>>, iter'.owed \subseteq Key
    PROVE  OrderInv'
BY DEF OrderInv, OrderTypeOK, OrderAgrees

LEMMA OrderStep ==
    ASSUME DocAssumption, HeapAssumption, IInv, OrderInv, [Next]_vars
    PROVE  OrderInv'
<1>0. iter.owed \subseteq Key /\ NoIter.owed \subseteq Key
  BY DEF OrderInv, OrderTypeOK, NoIter
<1>1. ASSUME NEW v \in View, NEW k \in Key, NEW x \in Val \cup {Nil}, WriteField(v, k, x)
      PROVE  OrderInv'
  BY <1>1, WriteFieldOrder
<1>2. ASSUME NEW v \in View, PairsStart(v)
      PROVE  OrderInv'
  <2>1. UNCHANGED <<built, keys, values>> /\ meta[v] = "object"
    BY <1>2 DEF PairsStart
  <2>2. FieldKey[node[v]] \in Seq(Key) /\ keys[v] \in Seq(Key)
    BY <2>1, ObjectNode DEF IInv, DocAssumption, OrderInv, OrderTypeOK
  <2>3. ToSet(FieldKey[node[v]]) \subseteq Key /\ ToSet(keys[v]) \subseteq Key
    BY <2>2 DEF ToSet
  <2>4. iter'.owed = ToSet(keys[v]) \/ iter'.owed = ToSet(FieldKey[node[v]])
    BY <1>2 DEF PairsStart
  <2>5. QED
    BY <2>1, <2>3, <2>4, OrderKept
<1>3. ASSUME NEW v \in View, IpairsStart(v)
      PROVE  OrderInv'
  BY <1>3, OrderKept DEF IpairsStart
<1>4. ASSUME NEW v \in View, NEW k \in Key, ReadField(v, k)
      PROVE  OrderInv'
  BY <1>4, <1>0, OrderKept DEF ReadField
<1>5. ASSUME NEW v \in View, NEW i \in Index, ReadIndex(v, i)
      PROVE  OrderInv'
  BY <1>5, <1>0, OrderKept DEF ReadIndex
<1>6. ASSUME NEW v \in View, NEW i \in Index, NEW x \in Val \cup {Nil},
             WriteIndexRaw(v, i, x) \/ WriteIndex(v, i, x)
      PROVE  OrderInv'
  BY <1>6, <1>0, OrderKept DEF WriteIndexRaw, WriteIndex
<1>7. CASE NextSource \/ NextOrdered \/ NextArray
  <2>1. UNCHANGED <<built, keys, values>>
    BY <1>7 DEF NextSource, NextOrdered, NextArray
  <2>2. iter'.owed \subseteq iter.owed
    <3>1. CASE NextSource \/ NextOrdered
      <4>1. \E q, Q : iter' = [iter EXCEPT !.pos = q, !.owed = iter.owed \ Q]
        BY <3>1 DEF NextSource, NextOrdered
      <4>2. \E Q : iter'.owed = iter.owed \ Q
        BY <4>1 DEF IInv, IterTypeOK
      <4>3. QED
        BY <4>2
    <3>2. CASE NextArray
      BY <3>2 DEF NextArray, IInv, IterTypeOK
    <3>3. QED
      BY <1>7, <3>1, <3>2
  <2>3. QED
    BY <2>1, <2>2, <1>0, OrderKept
<1>8. CASE NextArrayFails \/ IterEnd
  <2>1. UNCHANGED <<built, keys, values>> /\ (iter'.owed = {} \/ iter'.owed = iter.owed)
    BY <1>8 DEF NextArrayFails, IterEnd, NoIter
  <2>2. QED
    BY <2>1, <1>0, OrderKept
<1>9. ASSUME NEW v \in View, Encode(v) \/ Materialize(v)
      PROVE  OrderInv'
  <2>1. PICK T : T \subseteq View /\ (\A t \in T : meta[t] = "object") /\ BuildAll(T)
    BY <1>9 DEF Encode, Materialize, Unordered, Reach
  <2>2. QED
    BY <2>1, BuildAllOrder
<1>10. CASE UNCHANGED vars
  BY <1>10, <1>0, OrderKept DEF vars
<1>11. QED
  BY <1>1, <1>2, <1>3, <1>4, <1>5, <1>6, <1>7, <1>8, <1>9, <1>10 DEF Next

LEMMA OrderHolds == Spec => []OrderInv
<1>1. DocAssumption /\ HeapAssumption
  BY DocAssumption, HeapAssumption
<1>2. Init => OrderInv
  BY DEF Init, OrderInv, OrderTypeOK, OrderAgrees, NoIter, Val
<1>3. IInv /\ OrderInv /\ [Next]_vars => OrderInv'
  BY <1>1, OrderStep
<1>4. QED
  BY <1>2, <1>3, InvariantHolds, PTL DEF Spec

\* Views, order state and the loop in progress are well formed whatever the
\* client does with the tables.
THEOREM TablesWellFormed == Spec => []TypeOK
<1>1. IInv /\ OrderInv => TypeOK
  BY DEF IInv, HeapInv, OrderInv, TypeOK
<1>2. QED
  BY <1>1, InvariantHolds, OrderHolds, PTL

\* The key list and the value map of an object never part: encode, materialize
\* and a pairs loop visit each field the object has, once.
THEOREM OrderStateAgrees == Spec => []OrderAgrees
<1>1. OrderInv => OrderAgrees
  BY DEF OrderInv
<1>2. QED
  BY <1>1, OrderHolds, PTL

-----------------------------------------------------------------------------
(* Child identity.                                                          *)

\* A cached child stands for a container that a read of its key finds.
CacheOK ==
    \A v \in View, k \in Key : cache[v][k] # Nil =>
        HasKey(node[v], k) /\ FirstItem(node[v], k) \in Node

\* A table that is in use keeps its container, whatever step is taken.
LEMMA StepKind ==
    ASSUME DocAssumption, HeapAssumption, IInv, [Next]_vars
    PROVE  KindKept
<1> USE DEF IInv
<1>1. ASSUME NEW v \in View, NEW k \in Key, ReadField(v, k)
      PROVE  KindKept
  BY <1>1, ReadFieldKeeps
<1>2. ASSUME NEW v \in View, NEW i \in Index, ReadIndex(v, i)
      PROVE  KindKept
  BY <1>2, ReadIndexKeeps
<1>3. ASSUME NEW v \in View, NEW k \in Key, NEW x \in Val \cup {Nil}, WriteField(v, k, x)
      PROVE  KindKept
  BY <1>3, WriteFieldKeeps
<1>4. ASSUME NEW v \in View, NEW i \in Index, NEW x \in Val \cup {Nil}, WriteIndex(v, i, x)
      PROVE  KindKept
  BY <1>4, WriteIndexKeeps
<1>5. CASE NextSource
  BY <1>5, NextSourceKeeps
<1>6. CASE NextArray
  BY <1>6, NextArrayKeeps
<1>7. ASSUME NEW v \in View, Encode(v) \/ Materialize(v)
      PROVE  KindKept
  <2>1. PICK T : T \subseteq View /\ (\A t \in T : meta[t] = "object" /\ dirty[t]) /\ BuildAll(T)
    BY <1>7 DEF Encode, Materialize, Unordered, Reach
  <2>2. QED
    BY <2>1, BuildAllKeeps
<1>8. CASE UNCHANGED <<meta, node>>
  BY <1>8 DEF KindKept
<1>9. QED
  <2>1. ASSUME NEW v \in View, NEW i \in Index, NEW x \in Val \cup {Nil}, WriteIndexRaw(v, i, x)
        PROVE  UNCHANGED <<meta, node>>
    BY <2>1 DEF WriteIndexRaw
  <2>2. ASSUME NEW v \in View, PairsStart(v) \/ IpairsStart(v)
        PROVE  UNCHANGED <<meta, node>>
    BY <2>2 DEF PairsStart, IpairsStart
  <2>3. NextOrdered \/ NextArrayFails \/ IterEnd \/ UNCHANGED vars => UNCHANGED <<meta, node>>
    BY DEF NextOrdered, NextArrayFails, IterEnd, vars
  <2>4. QED
    BY <1>1, <1>2, <1>3, <1>4, <1>5, <1>6, <1>7, <1>8, <2>1, <2>2, <2>3 DEF Next

\* What a step of a loop over the source caches for a first occurrence is the
\* value a read of that key finds, and a repeated key is one that occurs twice.
LEMMA SourceStep ==
    ASSUME DocAssumption, HeapAssumption, IInv, NextSource
    PROVE  \A v \in View, k \in Key :
              \/ cache'[v][k] = cache[v][k]
              \/ cache'[v][k] = Nil /\ Duplicated(node[v], k)
              \/ /\ cache[v][k] = Nil
                 /\ meta[v] # "free" /\ HasKey(node[v], k) /\ FirstItem(node[v], k) \in Node
<1> DEFINE w == iter.view
           i == iter.pos + 1
           n == node[w]
           q == FieldKey[n][i]
           x == Item[n][i]
           again == ~IsFirst(n, i)
           decodes == x \in Node /\ (again \/ cache[w][q] = Nil)
           f == Names(IF decodes THEN {<<w, x>>} ELSE {})
<1>1. /\ iter.kind = "source" /\ iter.pos < Len(FieldKey[n])
      /\ cache' = [cache EXCEPT ![w][q] =
                      IF again THEN Nil ELSE IF decodes THEN f[<<w, x>>] ELSE @]
  BY DEF NextSource
<1>2. w \in View /\ meta[w] = "object" /\ iter.pos \in Nat
  BY <1>1 DEF IInv, IterTypeOK
<1>3. n \in Node /\ FieldKey[n] \in Seq(Key)
  BY <1>2, ObjectNode DEF IInv, DocAssumption
<1>4. i \in DOMAIN FieldKey[n] /\ i \in Nat
  <2> DEFINE ks == FieldKey[n]
  <2>0. ks \in Seq(Key) /\ iter.pos < Len(ks)
    BY <1>1, <1>3
  <2> HIDE DEF ks
  <2>1. Len(ks) \in Nat /\ DOMAIN ks = 1..Len(ks)
    BY <2>0
  <2>2. i \in DOMAIN ks
    BY <2>0, <2>1, <1>2
  <2>3. QED
    BY <2>2, <1>2 DEF ks
<1>5. i \in Positions(n, q)
  BY <1>4 DEF Positions
<1>6. again => Duplicated(n, q)
  <2> SUFFICES ASSUME ~IsFirst(n, i) PROVE Duplicated(n, q)
    OBVIOUS
  <2>1. PICK j \in Positions(n, q) : ~(i <= j)
    BY DEF IsFirst
  <2>2. i # j
    BY <2>1, <1>4
  <2>3. QED
    BY <2>1, <2>2, <1>5 DEF Duplicated
<1>7. ~again => HasKey(n, q) /\ FirstItem(n, q) = x
  <2> SUFFICES ASSUME IsFirst(n, i) PROVE HasKey(n, q) /\ FirstItem(n, q) = x
    OBVIOUS
  <2>1. \A j \in Positions(n, q) : i <= j
    BY DEF IsFirst
  <2>2. Positions(n, q) \subseteq Nat
    BY <1>3 DEF Positions
  <2> DEFINE h == CHOOSE h \in Positions(n, q) : \A j \in Positions(n, q) : h <= j
  <2>3. h \in Positions(n, q) /\ \A j \in Positions(n, q) : h <= j
    BY <2>1, <1>5
  <2> HIDE DEF h
  <2>4. h <= i /\ i <= h /\ h \in Nat
    BY <2>1, <2>2, <2>3, <1>5
  <2>5. h = i
    BY <2>4, <1>4
  <2>6. QED
    BY <2>5, <1>5 DEF h, FirstItem, HasKey
<1> DEFINE new == IF again THEN Nil ELSE IF decodes THEN f[<<w, x>>] ELSE cache[w][q]
<1>8. q \in Key
  <2> DEFINE ks == FieldKey[n]
  <2>1. ks \in Seq(Key) /\ i \in DOMAIN ks
    BY <1>3, <1>4
  <2> HIDE DEF ks, i
  <2>2. ks[i] \in Key
    BY <2>1
  <2>3. QED
    BY <2>2 DEF ks
<1>9. /\ cache \in [View -> [Key -> View \cup {Nil}]]
      /\ cache' = [cache EXCEPT ![w][q] = new]
  BY <1>1 DEF IInv, HeapInv, HeapTypeOK
<1>10. \/ new = cache[w][q]
       \/ new = Nil /\ Duplicated(n, q)
       \/ cache[w][q] = Nil /\ HasKey(n, q) /\ FirstItem(n, q) \in Node
  BY <1>6, <1>7
<1> HIDE DEF new, q, w
<1>11. \A v \in View, k \in Key :
          cache'[v][k] = IF v = w /\ k = q THEN new ELSE cache[v][k]
  BY <1>9
<1>12. QED
  BY <1>2, <1>8, <1>10, <1>11

\* A step fills an empty cache entry with a child a read of that key finds.
LEMMA CacheStep ==
    ASSUME DocAssumption, HeapAssumption, IInv, CacheOK, [Next]_vars
    PROVE  CacheOK'
<1> SUFFICES ASSUME NEW v \in View, NEW k \in Key, cache'[v][k] # Nil
             PROVE  HasKey(node'[v], k) /\ FirstItem(node'[v], k) \in Node
  BY DEF CacheOK, HasKey, FirstItem, Positions
<1>1. CASE cache'[v][k] = cache[v][k]
  <2>1. HasKey(node[v], k) /\ FirstItem(node[v], k) \in Node
    BY <1>1 DEF CacheOK
  <2>2. meta[v] # "free"
    BY <1>1 DEF IInv, HeapInv, HeapTypeOK
  <2>3. node'[v] = node[v]
    BY <2>2, StepKind DEF KindKept
  <2>4. QED
    BY <2>1, <2>3
<1>2. CASE meta[v] # "free" /\ HasKey(node[v], k) /\ FirstItem(node[v], k) \in Node
  <2>1. node'[v] = node[v]
    BY <1>2, StepKind DEF KindKept
  <2>2. QED
    BY <1>2, <2>1
<1>3. ASSUME NEW w \in View, NEW q \in Key, ReadField(w, q)
      PROVE  cache'[v][k] = cache[v][k]
             \/ (meta[v] # "free" /\ HasKey(node[v], k) /\ FirstItem(node[v], k) \in Node)
  <2>1. CASE v = w /\ k = q
    BY <1>3, <2>1 DEF ReadField
  <2>2. CASE ~(v = w /\ k = q)
    <3>1. \E x : cache' = [cache EXCEPT ![w][q] = x]
      BY <1>3 DEF ReadField
    <3>2. QED
      BY <2>2, <3>1 DEF IInv, HeapInv, HeapTypeOK
  <2>3. QED
    BY <2>1, <2>2
<1>4. CASE NextSource
  BY <1>1, <1>2, <1>4, SourceStep
<1>5. CASE UNCHANGED cache
  BY <1>1, <1>5
<1>6. QED
  <2>1. ASSUME NEW w \in View, PairsStart(w) \/ IpairsStart(w) \/ Encode(w) \/ Materialize(w)
        PROVE  UNCHANGED cache
    BY <2>1 DEF PairsStart, IpairsStart, Encode, Materialize, BuildAll
  <2>2. NextOrdered \/ NextArray \/ NextArrayFails \/ IterEnd \/ UNCHANGED vars => UNCHANGED cache
    BY DEF NextOrdered, NextArray, NextArrayFails, IterEnd, vars
  <2>3. ASSUME NEW w \in View, NEW i \in Index, ReadIndex(w, i) PROVE UNCHANGED cache
    BY <2>3 DEF ReadIndex
  <2>4. ASSUME NEW w \in View, NEW q \in Key, NEW x \in Val \cup {Nil}, WriteField(w, q, x)
        PROVE  UNCHANGED cache
    BY <2>4 DEF WriteField
  <2>5. ASSUME NEW w \in View, NEW i \in Index, NEW x \in Val \cup {Nil},
               WriteIndexRaw(w, i, x) \/ WriteIndex(w, i, x)
        PROVE  UNCHANGED cache
    BY <2>5 DEF WriteIndexRaw, WriteIndex
  <2>6. QED
    BY <1>1, <1>2, <1>3, <1>4, <1>5, <2>1, <2>2, <2>3, <2>4, <2>5 DEF Next

\* Order state takes the cached child of a key that occurs once
\* (ensure_object_order_state).
LEMMA BuiltCached ==
    ASSUME CacheOK, NEW v \in View, NEW k \in Key, NEW f,
           ~Duplicated(node[v], k), cache[v][k] # Nil
    PROVE  BuiltValue(v, k, f) = cache[v][k]
<1>1. HasKey(node[v], k) /\ FirstItem(node[v], k) \in Node
  BY DEF CacheOK
<1> DEFINE P == Positions(node[v], k)
<1>2. PICK i \in P : \A j \in P : j = i
  BY <1>1 DEF HasKey, Duplicated
<1>3. P = {i}
  BY <1>2
<1> HIDE DEF P
<1>4. FirstItem(node[v], k) = LastItem(node[v], k)
  <2>1. FirstItem(node[v], k) = Item[node[v]][CHOOSE h \in {i} : \A j \in {i} : h <= j]
    BY <1>3 DEF FirstItem, P
  <2>2. LastItem(node[v], k) = Item[node[v]][CHOOSE h \in {i} : \A j \in {i} : j <= h]
    BY <1>3 DEF LastItem, P
  <2>3. QED
    BY <2>1, <2>2
<1>5. ~NeedsDecode(v, k)
  BY DEF NeedsDecode
<1>6. QED
  BY <1>1, <1>4, <1>5 DEF BuiltValue

\* What a view hands out for a field is the same table after any step that does
\* not assign the field.
LEMMA ChildStep ==
    ASSUME DocAssumption, HeapAssumption, IInv, OrderInv, CacheOK, [Next]_vars
    PROVE  ChildKept
<1> SUFFICES ASSUME NEW v \in View, NEW k \in Key,
                    meta[v] = "object", ~built[v], ~Duplicated(node[v], k), cache[v][k] # Nil
             PROVE  IF built'[v]
                    THEN values'[v][k] = cache[v][k] \/ \E x \in Val \cup {Nil} : WriteField(v, k, x)
                    ELSE cache'[v][k] = cache[v][k]
  BY DEF ChildKept
<1> DEFINE Goal == IF built'[v]
                   THEN values'[v][k] = cache[v][k] \/ \E x \in Val \cup {Nil} : WriteField(v, k, x)
                   ELSE cache'[v][k] = cache[v][k]
<1>1. ASSUME ~built'[v], cache'[v][k] = cache[v][k]
      PROVE  Goal
  BY <1>1
<1>2. ASSUME NEW w \in View, NEW q \in Key, ReadField(w, q)
      PROVE  Goal
  <2>1. built' = built /\ cache[w][q] = Nil /\ \E c : cache' = [cache EXCEPT ![w][q] = c]
    BY <1>2 DEF ReadField
  <2>2. cache'[v][k] = cache[v][k]
    BY <2>1 DEF IInv, HeapInv, HeapTypeOK
  <2>3. QED
    BY <1>1, <2>1, <2>2
<1>3. ASSUME NEW w \in View, NEW q \in Key, NEW x \in Val \cup {Nil}, WriteField(w, q, x)
      PROVE  Goal
  <2>1. CASE w # v
    <3>1. cache' = cache /\ built'[v] = built[v]
      BY <1>3, <2>1 DEF WriteField, IInv, HeapInv, HeapTypeOK
    <3>2. QED
      BY <1>1, <3>1
  <2>2. CASE w = v /\ q = k
    <3>1. built'[v]
      BY <1>3, <2>2 DEF WriteField, IInv, HeapInv, HeapTypeOK
    <3>2. QED
      BY <1>3, <2>2, <3>1
  <2>3. CASE w = v /\ q # k
    <3>1. /\ built' = [built EXCEPT ![v] = TRUE]
          /\ \E f : values' = [values EXCEPT ![v] = [BuiltValues(v, f) EXCEPT ![q] = x]]
      BY <1>3, <2>3 DEF WriteField
    <3>2. PICK f : values' = [values EXCEPT ![v] = [BuiltValues(v, f) EXCEPT ![q] = x]]
      BY <3>1
    <3>3. BuiltValues(v, f) = [p \in Key |-> BuiltValue(v, p, f)]
      BY DEF BuiltValues
    <3>4. values'[v][k] = BuiltValue(v, k, f)
      BY <2>3, <3>2, <3>3 DEF OrderInv, OrderTypeOK
    <3>5. built'[v]
      BY <3>1 DEF IInv, HeapInv, HeapTypeOK
    <3>6. QED
      BY <3>4, <3>5, BuiltCached
  <2>4. QED
    BY <2>1, <2>2, <2>3
<1>4. ASSUME NextSource
      PROVE  Goal
  <2>1. built' = built
    BY <1>4 DEF NextSource
  <2>2. cache'[v][k] = cache[v][k]
    BY <1>4, SourceStep
  <2>3. QED
    BY <1>1, <2>1, <2>2
<1>5. ASSUME NEW w \in View, Encode(w) \/ Materialize(w)
      PROVE  Goal
  <2>1. PICK T : BuildAll(T)
    BY <1>5 DEF Encode, Materialize
  <2>2. /\ built' = [u \in View |-> built[u] \/ u \in T]
        /\ \E f : values' = [u \in View |-> IF u \in T THEN BuiltValues(u, f) ELSE values[u]]
        /\ cache' = cache
    BY <2>1 DEF BuildAll
  <2>3. CASE v \notin T
    BY <1>1, <2>2, <2>3
  <2>4. CASE v \in T
    <3>1. PICK f : values'[v] = BuiltValues(v, f)
      BY <2>2, <2>4
    <3>2. values'[v][k] = BuiltValue(v, k, f)
      BY <3>1 DEF BuiltValues
    <3>3. QED
      BY <2>2, <2>4, <3>2, BuiltCached
  <2>5. QED
    BY <2>3, <2>4
<1>6. ASSUME UNCHANGED <<cache, built>>
      PROVE  Goal
  BY <1>1, <1>6
<1>7. QED
  <2>1. ASSUME NEW w \in View, NEW i \in Index, ReadIndex(w, i)
        PROVE  UNCHANGED <<cache, built>>
    BY <2>1 DEF ReadIndex
  <2>2. ASSUME NEW w \in View, NEW i \in Index, NEW x \in Val \cup {Nil},
               WriteIndexRaw(w, i, x) \/ WriteIndex(w, i, x)
        PROVE  UNCHANGED <<cache, built>>
    BY <2>2 DEF WriteIndexRaw, WriteIndex
  <2>3. ASSUME NEW w \in View, PairsStart(w) \/ IpairsStart(w)
        PROVE  UNCHANGED <<cache, built>>
    BY <2>3 DEF PairsStart, IpairsStart
  <2>4. NextOrdered \/ NextArray \/ NextArrayFails \/ IterEnd \/ UNCHANGED vars
        => UNCHANGED <<cache, built>>
    BY DEF NextOrdered, NextArray, NextArrayFails, IterEnd, vars
  <2> HIDE DEF Goal
  <2>5. Goal
    BY <1>2, <1>3, <1>4, <1>5, <1>6, <2>1, <2>2, <2>3, <2>4 DEF Next
  <2>6. QED
    BY <2>5 DEF Goal

\* The same for the elements of an array view, as long as it is one.
LEMMA ElementStep ==
    ASSUME DocAssumption, HeapAssumption, IInv, [Next]_vars
    PROVE  ElementKept
<1> SUFFICES ASSUME NEW v \in View, NEW i \in Index, meta[v] = "array", slots[v][i] # Nil
             PROVE  slots'[v][i] = slots[v][i] \/ \E x \in Val \cup {Nil} : WriteIndexRaw(v, i, x)
  BY DEF ElementKept
<1>0. slots \in [View -> [Index -> Val \cup {Nil}]]
  BY DEF IInv, HeapInv, HeapTypeOK
<1>1. ASSUME NEW w \in View, NEW j \in Index, ReadIndex(w, j)
      PROVE  slots'[v][i] = slots[v][i]
  <2>1. slots[w][j] = Nil /\ \E c : slots' = [slots EXCEPT ![w][j] = c]
    BY <1>1 DEF ReadIndex
  <2>2. QED
    BY <2>1, <1>0
<1>2. ASSUME NEW w \in View, NEW j \in Index, NEW x \in Val \cup {Nil}, WriteIndexRaw(w, j, x)
      PROVE  slots'[v][i] = slots[v][i] \/ \E y \in Val \cup {Nil} : WriteIndexRaw(v, i, y)
  <2>1. CASE w = v /\ j = i
    BY <1>2, <2>1
  <2>2. CASE ~(w = v /\ j = i)
    <3>1. slots' = [slots EXCEPT ![w][j] = x]
      BY <1>2 DEF WriteIndexRaw
    <3>2. QED
      BY <2>2, <3>1, <1>0
  <2>3. QED
    BY <2>1, <2>2
<1>3. ASSUME NEW w \in View, NEW j \in Index, NEW x \in Val \cup {Nil}, WriteIndex(w, j, x)
      PROVE  slots'[v][i] = slots[v][i]
  <2> DEFINE item == Item[node[w]]
             new(f) == [h \in Index |-> IF h = j THEN x
                                        ELSE IF slots[w][h] # Nil \/ h \notin DOMAIN item THEN slots[w][h]
                                        ELSE Decoded(w, item[h], f)]
  <2>1. slots[w][j] = Nil /\ \E f : slots' = [slots EXCEPT ![w] = new(f)]
    BY <1>3 DEF WriteIndex
  <2>2. PICK f : slots' = [slots EXCEPT ![w] = new(f)]
    BY <2>1
  <2>3. CASE w = v
    <3>1. new(f)[i] = slots[v][i]
      BY <2>1, <2>3
    <3> HIDE DEF new
    <3>2. QED
      BY <2>2, <2>3, <3>1, <1>0
  <2>4. CASE w # v
    <3> HIDE DEF new
    <3>1. QED
      BY <2>2, <2>4, <1>0
  <2>5. QED
    BY <2>3, <2>4
<1>4. CASE UNCHANGED slots
  BY <1>4
<1>5. QED
  <2>1. ASSUME NEW w \in View, NEW q \in Key, ReadField(w, q) PROVE UNCHANGED slots
    BY <2>1 DEF ReadField
  <2>2. ASSUME NEW w \in View, NEW q \in Key, NEW x \in Val \cup {Nil}, WriteField(w, q, x)
        PROVE  UNCHANGED slots
    BY <2>2 DEF WriteField
  <2>3. ASSUME NEW w \in View, PairsStart(w) \/ IpairsStart(w) \/ Encode(w) \/ Materialize(w)
        PROVE  UNCHANGED slots
    BY <2>3 DEF PairsStart, IpairsStart, Encode, Materialize, BuildAll
  <2>4. NextSource \/ NextOrdered \/ NextArray \/ NextArrayFails \/ IterEnd \/ UNCHANGED vars
        => UNCHANGED slots
    BY DEF NextSource, NextOrdered, NextArray, NextArrayFails, IterEnd, vars
  <2>5. QED
    BY <1>1, <1>2, <1>3, <1>4, <2>1, <2>2, <2>3, <2>4 DEF Next

LEMMA CacheHolds == Spec => []CacheOK
<1>1. DocAssumption /\ HeapAssumption
  BY DocAssumption, HeapAssumption
<1>2. Init => CacheOK
  BY DEF Init, CacheOK
<1>3. IInv /\ CacheOK /\ [Next]_vars => CacheOK'
  BY <1>1, CacheStep
<1>4. QED
  BY <1>2, <1>3, InvariantHolds, PTL DEF Spec

\* t.k == t.k and a[i] == a[i]: the child view a read handed out is the one every
\* later read returns, through order state built by a write or a walk, until
\* the client assigns that field or element.
THEOREM IdentityStable == Spec => ReadIdentityStable
<1>1. DocAssumption /\ HeapAssumption
  BY DocAssumption, HeapAssumption
<1>2. IInv /\ OrderInv /\ CacheOK /\ [Next]_vars => ChildKept /\ ElementKept
  BY <1>1, ChildStep, ElementStep
<1>3. IInv /\ OrderInv /\ CacheOK /\ [Next]_vars => [ChildKept /\ ElementKept]_vars
  BY <1>2
<1>4. QED
  BY <1>3, InvariantHolds, OrderHolds, CacheHolds, PTL DEF Spec, ReadIdentityStable

=============================================================================
