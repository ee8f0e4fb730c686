------------------------------ MODULE LazyTable ------------------------------
(***************************************************************************)
(* The lazy tables of qjson.decode (lua/qjson/table.lua).                  *)
(*                                                                         *)
(* A document is a tree of containers (Node).  qjson.decode hands out one  *)
(* Lua table, a view, on the root; reading a container field or element    *)
(* makes a view on that child, which the parent remembers (CHILD_CACHE of  *)
(* an object, the integer slots of an array) so that the next read returns *)
(* the same Lua table.  The first write to an object view copies its level *)
(* into ORDER_KEYS / ORDER_VALUES; the first write to an array view turns  *)
(* it into a plain Lua sequence.  Every write through a metamethod marks   *)
(* the view and its _parent chain dirty: qjson.encode copies the source    *)
(* bytes of a clean view and walks a dirty one.                            *)
(*                                                                         *)
(* Lua runs one thread and no metamethod yields, so each metamethod and    *)
(* each step of a pairs / ipairs loop is one action; the client may do     *)
(* anything between two steps of a loop.                                   *)
(***************************************************************************)
EXTENDS Naturals, Sequences, FiniteSets, SequencesExt

CONSTANTS
    Key,        \* JSON object keys
    Scalar,     \* JSON scalars, and the Lua scalars a client writes
    Node,       \* the containers of the document
    Root,       \* the top-level container
    Kind,       \* Kind[n]: "object" or "array"
    FieldKey,   \* FieldKey[n]: the keys of object n in source order, duplicates kept
    Item,       \* Item[n]: its values (or elements) in source order
    View,       \* the Lua tables the model may allocate (bound)
    RootView,   \* the table qjson.decode returns
    Nil,        \* Lua nil
    MaxLen,     \* longest array (bound)
    MaxWrites   \* assignments a client makes (bound)

ASSUME DocAssumption ==
    /\ Root \in Node
    /\ Kind \in [Node -> {"object", "array"}]
    /\ FieldKey \in [Node -> Seq(Key)]
    /\ Item \in [Node -> Seq(Scalar \cup Node)]
    /\ \A n \in Node : Kind[n] = "object" => Len(FieldKey[n]) = Len(Item[n])
    /\ \A n \in Node : Kind[n] = "array" => Len(Item[n]) <= MaxLen
    /\ \A n, m \in Node : \A i \in DOMAIN Item[n], j \in DOMAIN Item[m] :
          Item[n][i] \in Node /\ Item[n][i] = Item[m][j] => n = m /\ i = j

ASSUME HeapAssumption ==
    /\ RootView \in View
    /\ Nil \notin Scalar \cup Node \cup View
    /\ Scalar \cap View = {}
    /\ Scalar \cap Node = {}
    /\ Node \cap View = {}
    /\ MaxLen \in Nat
    /\ MaxWrites \in Nat

VARIABLES
    meta,       \* meta[v]: metatable of v ("object", "array", "plain"), or "free"
    node,       \* node[v]: the container _cur, _bs and _be of v stand for
    parent,     \* parent[v]: _parent
    dirty,      \* dirty[v]: _dirty
    cache,      \* cache[v][k]: CHILD_CACHE
    built,      \* built[v]: ORDER_KEYS and ORDER_VALUES are set
    keys,       \* keys[v]: ORDER_KEYS
    values,     \* values[v][k]: ORDER_VALUES
    slots,      \* slots[v][i]: the integer fields of an array's Lua table
    iter,       \* the loop in progress: a pairs or ipairs iterator
    writes      \* assignments made so far

vars == <<meta, node, parent, dirty, cache, built, keys, values, slots, iter, writes>>

Index == 1..MaxLen
Val == Scalar \cup View
Lazy(v) == meta[v] \in {"object", "array"}
Free == {v \in View : meta[v] = "free"}

\* owed: the keys the loop still has to visit, those the table had when the
\* loop began and that no write has removed since (history).
NoIter == [kind |-> "none", view |-> Nil, pos |-> 0, owed |-> {}]

-----------------------------------------------------------------------------
(* The document.                                                            *)

Positions(n, k) == {i \in DOMAIN FieldKey[n] : FieldKey[n][i] = k}
HasKey(n, k) == Positions(n, k) # {}
Duplicated(n, k) == \E i, j \in Positions(n, k) : i # j
IsFirst(n, i) == \A j \in Positions(n, FieldKey[n][i]) : i <= j

\* What qjson_cursor_field finds: the first occurrence.
FirstItem(n, k) == Item[n][CHOOSE i \in Positions(n, k) : \A j \in Positions(n, k) : i <= j]
\* What a walk that overwrites values[key] ends with: the last occurrence.
LastItem(n, k) == Item[n][CHOOSE i \in Positions(n, k) : \A j \in Positions(n, k) : j <= i]

\* The keys of n, each at its first appearance: the j-th is the one whose first
\* appearance has j - 1 others before it.
FirstAt(n) == {i \in DOMAIN FieldKey[n] : IsFirst(n, i)}
FirstOrder(n) ==
    [j \in 1..Cardinality(FirstAt(n)) |->
        FieldKey[n][CHOOSE i \in FirstAt(n) : Cardinality({h \in FirstAt(n) : h <= i}) = j]]

-----------------------------------------------------------------------------
(* Allocation.  A site <<p, n>> is a child view to be made under view p on  *)
(* container n.  Which free table is used is immaterial: the names are the  *)
(* ones CHOOSE picks, and a step that needs more than View offers is not    *)
(* taken.                                                                   *)

Enough(sites) == \E f \in Injection(sites, Free) : TRUE
Names(sites) == CHOOSE f \in Injection(sites, Free) : TRUE
New(f, v) == \E s \in DOMAIN f : f[s] = v
SiteOf(f, v) == CHOOSE s \in DOMAIN f : f[s] = v

\* wrap_child for every site of f: a fresh clean view.
WrapNode(f) == [v \in View |-> IF New(f, v) THEN SiteOf(f, v)[2] ELSE node[v]]
WrapParent(f) == [v \in View |-> IF New(f, v) THEN SiteOf(f, v)[1] ELSE parent[v]]
WrapMeta(f) == [v \in View |-> IF New(f, v) THEN Kind[SiteOf(f, v)[2]] ELSE meta[v]]

\* decode_cursor on source item x under view p, its view named by f.
Decoded(p, x, f) ==
    IF x \in Node /\ <<p, x>> \in DOMAIN f THEN f[<<p, x>>] ELSE x

-----------------------------------------------------------------------------
(* Marking dirty: the loop from the written view along _parent, stopping at *)
(* nil or at a table that is no longer a lazy view.                         *)

ChainClosed(S) ==
    \A w \in S : parent[w] # Nil /\ Lazy(parent[w]) => parent[w] \in S

Chain(v) == {w \in View : \A S \in SUBSET {u \in View : Lazy(u)} :
                             v \in S /\ ChainClosed(S) => w \in S}

\* Slips the runs rule out: the loop stops at the written view, or starts
\* above it.
MarkWritten(v) == [w \in View |-> dirty[w] \/ w = v]
MarkAncestors(v) == [w \in View |-> dirty[w] \/ (w # v /\ w \in Chain(v))]

MarkDirty(v) == [w \in View |-> dirty[w] \/ w \in Chain(v)]

-----------------------------------------------------------------------------
(* ensure_object_order_state.                                               *)

\* Slips the runs rule out: no occurrence takes the cached child, or every
\* occurrence does.
DecodeAlways(t, k) == LastItem(node[t], k) \in Node
DecodeUncached(t, k) == LastItem(node[t], k) \in Node /\ cache[t][k] = Nil

\* Occurrence 1 takes the cached child if there is one; a later occurrence
\* is always decoded and overwrites it.
NeedsDecode(t, k) ==
    /\ LastItem(node[t], k) \in Node
    /\ Duplicated(node[t], k) \/ cache[t][k] = Nil

\* A slip the runs rule out: the walk stops at the first occurrence.
BuildSitesFirst(t, skip) ==
    {<<t, FirstItem(node[t], k)>> :
        k \in {q \in Key \ skip : HasKey(node[t], q) /\ NeedsDecode(t, q)}}

BuildSites(t, skip) ==
    {<<t, LastItem(node[t], k)>> :
        k \in {q \in Key \ skip : HasKey(node[t], q) /\ NeedsDecode(t, q)}}

BuiltValue(t, k, f) ==
    IF ~HasKey(node[t], k) THEN Nil
    ELSE IF LastItem(node[t], k) \in Node /\ ~NeedsDecode(t, k) THEN cache[t][k]
    ELSE Decoded(t, LastItem(node[t], k), f)

BuiltValues(t, f) == [k \in Key |-> BuiltValue(t, k, f)]

-----------------------------------------------------------------------------
(* What a walk of encode or materialize follows.                            *)

ViewsIn(f) == {x \in Range(f) : x \in View}

BuiltLinks(w) ==
    IF built[w] THEN ViewsIn(values[w])
    ELSE {cache[w][k] : k \in {q \in Key : cache[w][q] # Nil /\ ~Duplicated(node[w], q)}}

\* encode_proxy stops at a clean view; encode_plain_table does not.
EncodeLinks(w) ==
    CASE meta[w] = "object" /\ dirty[w] -> BuiltLinks(w)
      [] meta[w] = "array" /\ dirty[w] -> ViewsIn(slots[w])
      [] meta[w] = "plain" -> ViewsIn(slots[w])
      [] OTHER -> {}

\* materialize_plain enters clean views too and returns a plain table as it is.
MaterializeLinks(w) ==
    CASE meta[w] = "object" -> IF built[w] \/ dirty[w] THEN BuiltLinks(w) ELSE ViewsIn(cache[w])
      [] meta[w] = "array" -> ViewsIn(slots[w])
      [] OTHER -> {}

AllLinks(w) == ViewsIn(values[w]) \cup ViewsIn(cache[w]) \cup ViewsIn(slots[w])

Reach(v, Links(_)) ==
    {w \in View : \A S \in SUBSET View : v \in S /\ (\A u \in S : Links(u) \subseteq S) => w \in S}

\* The objects ensure_object_order_state runs on: dirtied through a child,
\* never written themselves.
Unordered(S) == {w \in S : meta[w] = "object" /\ dirty[w] /\ ~built[w]}

-----------------------------------------------------------------------------
(* Actions.                                                                 *)

Wrap(f) ==
    /\ node' = WrapNode(f)
    /\ parent' = WrapParent(f)
    /\ meta' = WrapMeta(f)

\* LazyObject.__index on a container field the view has not handed out yet.
\* Every other read leaves the heap as it is.
ReadField(v, k) ==
    /\ meta[v] = "object" /\ ~built[v] /\ cache[v][k] = Nil
    /\ HasKey(node[v], k) /\ FirstItem(node[v], k) \in Node
    /\ LET site == <<v, FirstItem(node[v], k)>>
           f == Names({site})
       IN  /\ Enough({site})
           /\ Wrap(f)
           /\ cache' = [cache EXCEPT ![v][k] = f[site]]
    /\ UNCHANGED <<dirty, built, keys, values, slots, iter, writes>>

\* LazyArray.__index: reached only while the integer field is absent.
ReadIndex(v, i) ==
    /\ meta[v] = "array" /\ slots[v][i] = Nil
    /\ i <= Len(Item[node[v]]) /\ Item[node[v]][i] \in Node
    /\ LET site == <<v, Item[node[v]][i]>>
           f == Names({site})
       IN  /\ Enough({site})
           /\ Wrap(f)
           /\ slots' = [slots EXCEPT ![v][i] = f[site]]
    /\ UNCHANGED <<dirty, cache, built, keys, values, iter, writes>>

\* A slip the runs rule out: the key is appended whether or not it is there.
KeysAppended(ks, vs, k, x) == IF x = Nil THEN RemoveFirst(ks, k) ELSE Append(ks, k)

\* table.remove of the key, append of a new one, or neither.
KeysAfter(ks, vs, k, x) ==
    CASE x = Nil -> RemoveFirst(ks, k)
      [] x # Nil /\ vs[k] = Nil -> Append(ks, k)
      [] OTHER -> ks

\* LazyObject.__newindex: v.k = x.  Order state first, then the dirty chain,
\* then the assignment.  The value the assignment replaces is not allocated:
\* nobody ever sees it.
WriteField(v, k, x) ==
    /\ meta[v] = "object" /\ writes < MaxWrites
    /\ LET sites == IF built[v] THEN {} ELSE BuildSites(v, {k})
           f == Names(sites)
           ks == IF built[v] THEN keys[v] ELSE FirstOrder(node[v])
           vs == IF built[v] THEN values[v] ELSE BuiltValues(v, f)
       IN  /\ Enough(sites)
           /\ Wrap(f)
           /\ values' = [values EXCEPT ![v] = [vs EXCEPT ![k] = x]]
           /\ keys' = [keys EXCEPT ![v] = KeysAfter(ks, vs, k, x)]
    /\ built' = [built EXCEPT ![v] = TRUE]
    /\ dirty' = MarkDirty(v)
    /\ iter' = IF iter.view = v /\ x = Nil THEN [iter EXCEPT !.owed = @ \ {k}] ELSE iter
    /\ writes' = writes + 1
    /\ x \in View => meta[x] # "free" /\ v \notin Reach(x, AllLinks)
    /\ UNCHANGED <<cache, slots>>

\* #v: the source length, or the border of a plain sequence (the client
\* never leaves a hole in one).
ArrayLen(v) ==
    IF meta[v] = "array" THEN Len(Item[node[v]])
    ELSE Cardinality({i \in Index : slots[v][i] # Nil})

\* v[i] = x on an integer field that is present, or on a plain sequence: Lua
\* assigns it and calls no metamethod.
WriteIndexRaw(v, i, x) ==
    /\ \/ meta[v] = "array" /\ slots[v][i] # Nil
       \/ /\ meta[v] = "plain"
          /\ i <= ArrayLen(v) + 1
          /\ x = Nil => i = ArrayLen(v)
    /\ writes < MaxWrites
    /\ slots' = [slots EXCEPT ![v][i] = x]
    /\ writes' = writes + 1
    /\ x \in View => meta[x] # "free" /\ v \notin Reach(x, AllLinks)
    /\ UNCHANGED <<meta, node, parent, dirty, cache, built, keys, values, iter>>

\* LazyArray.__newindex: the dirty chain, every element decoded (a cached one
\* kept), the view turned into a plain sequence, then the assignment.
WriteIndex(v, i, x) ==
    /\ meta[v] = "array" /\ slots[v][i] = Nil /\ writes < MaxWrites
    /\ i <= ArrayLen(v) + 1
    /\ x = Nil => i = ArrayLen(v)
    /\ LET item == Item[node[v]]
           fresh == {j \in DOMAIN item : j # i /\ item[j] \in Node /\ slots[v][j] = Nil}
           sites == {<<v, item[j]>> : j \in fresh}
           f == Names(sites)
       IN  /\ Enough(sites)
           /\ node' = WrapNode(f)
           /\ parent' = [WrapParent(f) EXCEPT ![v] = Nil]
           /\ meta' = [WrapMeta(f) EXCEPT ![v] = "plain"]
           /\ slots' = [slots EXCEPT ![v] = [j \in Index |->
                            IF j = i THEN x
                            ELSE IF slots[v][j] # Nil \/ j \notin DOMAIN item THEN slots[v][j]
                            ELSE Decoded(v, item[j], f)]]
    /\ dirty' = [MarkDirty(v) EXCEPT ![v] = FALSE]
    /\ writes' = writes + 1
    /\ x \in View => meta[x] # "free" /\ v \notin Reach(x, AllLinks)
    /\ UNCHANGED <<cache, built, keys, values, iter>>

\* pairs(v) on an object: over ORDER_KEYS once they exist, else over the source.
PairsStart(v) ==
    /\ meta[v] = "object"
    /\ iter' = IF built[v]
               THEN [kind |-> "ordered", view |-> v, pos |-> 0, owed |-> ToSet(keys[v])]
               ELSE [kind |-> "source", view |-> v, pos |-> 0, owed |-> ToSet(FieldKey[node[v]])]
    /\ UNCHANGED <<meta, node, parent, dirty, cache, built, keys, values, slots, writes>>

\* ipairs(v), and pairs(v) on an array.
IpairsStart(v) ==
    /\ meta[v] = "array"
    /\ iter' = [kind |-> "array", view |-> v, pos |-> 0, owed |-> {}]
    /\ UNCHANGED <<meta, node, parent, dirty, cache, built, keys, values, slots, writes>>

\* lazy_object_iter: a repeated key drops the cached child and decodes anew.
\* The iterator stays on the source even if the view gets its order state.
NextSource ==
    /\ iter.kind = "source"
    /\ iter.pos < Len(FieldKey[node[iter.view]])
    /\ LET v == iter.view
           i == iter.pos + 1
           k == FieldKey[node[v]][i]
           x == Item[node[v]][i]
           again == ~IsFirst(node[v], i)
           decodes == x \in Node /\ (again \/ cache[v][k] = Nil)
           sites == IF decodes THEN {<<v, x>>} ELSE {}
           f == Names(sites)
       IN  /\ Enough(sites)
           /\ Wrap(f)
           /\ cache' = [cache EXCEPT ![v][k] =
                            IF again THEN Nil ELSE IF decodes THEN f[<<v, x>>] ELSE @]
           /\ iter' = [iter EXCEPT !.pos = i, !.owed = @ \ {k}]
    /\ UNCHANGED <<dirty, built, keys, values, slots, writes>>

\* The closure of LazyObject.__pairs on an object with order state: position
\* pos + 1 of the key list as it is now.
NextOrdered ==
    /\ iter.kind = "ordered"
    /\ iter.pos < Len(keys[iter.view])
    /\ iter' = [iter EXCEPT !.pos = @ + 1, !.owed = @ \ {keys[iter.view][iter.pos + 1]}]
    /\ UNCHANGED <<meta, node, parent, dirty, cache, built, keys, values, slots, writes>>

\* lazy_array_iter decodes the element from its cursor, whatever v[i] holds.
NextArray ==
    /\ iter.kind = "array" /\ meta[iter.view] = "array"
    /\ iter.pos < Len(Item[node[iter.view]])
    /\ LET x == Item[node[iter.view]][iter.pos + 1]
           sites == IF x \in Node THEN {<<iter.view, x>>} ELSE {}
       IN  Enough(sites) /\ Wrap(Names(sites))
    /\ iter' = [iter EXCEPT !.pos = @ + 1]
    /\ UNCHANGED <<dirty, cache, built, keys, values, slots, writes>>

\* The array became a plain sequence during the loop: its _cur is gone, and
\* qjson_cursor_index on a null cursor raises an error in the loop.
NextArrayFails ==
    /\ iter.kind = "array" /\ meta[iter.view] = "plain"
    /\ iter' = [NoIter EXCEPT !.kind = "error"]
    /\ UNCHANGED <<meta, node, parent, dirty, cache, built, keys, values, slots, writes>>

IterEnd ==
    /\ \/ iter.kind = "source" /\ iter.pos = Len(FieldKey[node[iter.view]])
       \/ iter.kind = "ordered" /\ iter.pos >= Len(keys[iter.view])
       \/ /\ iter.kind = "array" /\ meta[iter.view] = "array"
          /\ iter.pos = Len(Item[node[iter.view]])
    /\ iter' = [NoIter EXCEPT !.kind = "done", !.owed = iter.owed]
    /\ UNCHANGED <<meta, node, parent, dirty, cache, built, keys, values, slots, writes>>

\* The effect of a walk on the heap: order state for every object it meets
\* that is dirty and has none.
BuildAll(S) ==
    LET sites == UNION {BuildSites(t, {}) : t \in S}
        f == Names(sites)
    IN  /\ Enough(sites)
        /\ Wrap(f)
        /\ built' = [v \in View |-> built[v] \/ v \in S]
        /\ keys' = [v \in View |-> IF v \in S THEN FirstOrder(node[v]) ELSE keys[v]]
        /\ values' = [v \in View |-> IF v \in S THEN BuiltValues(v, f) ELSE values[v]]
        /\ UNCHANGED <<dirty, cache, slots, iter, writes>>

Encode(v) ==
    LET S == Unordered(Reach(v, EncodeLinks))
    IN  meta[v] # "free" /\ S # {} /\ BuildAll(S)

Materialize(v) ==
    LET S == Unordered(Reach(v, MaterializeLinks))
    IN  Lazy(v) /\ S # {} /\ BuildAll(S)

Init ==
    /\ meta = [v \in View |-> IF v = RootView THEN Kind[Root] ELSE "free"]
    /\ node = [v \in View |-> Root]
    /\ parent = [v \in View |-> Nil]
    /\ dirty = [v \in View |-> FALSE]
    /\ cache = [v \in View |-> [k \in Key |-> Nil]]
    /\ built = [v \in View |-> FALSE]
    /\ keys = [v \in View |-> <<>>]
    /\ values = [v \in View |-> [k \in Key |-> Nil]]
    /\ slots = [v \in View |-> [i \in Index |-> Nil]]
    /\ iter = NoIter
    /\ writes = 0

Next ==
    \/ \E v \in View, k \in Key : ReadField(v, k)
    \/ \E v \in View, i \in Index : ReadIndex(v, i)
    \/ \E v \in View, k \in Key, x \in Val \cup {Nil} : WriteField(v, k, x)
    \/ \E v \in View, i \in Index, x \in Val \cup {Nil} : WriteIndexRaw(v, i, x)
    \/ \E v \in View, i \in Index, x \in Val \cup {Nil} : WriteIndex(v, i, x)
    \/ \E v \in View : PairsStart(v)
    \/ \E v \in View : IpairsStart(v)
    \/ NextSource \/ NextOrdered \/ NextArray \/ NextArrayFails \/ IterEnd
    \/ \E v \in View : Encode(v)
    \/ \E v \in View : Materialize(v)

Spec == Init /\ [][Next]_vars

-----------------------------------------------------------------------------
(* Properties.                                                              *)

\* Every view is well formed, a table not yet allocated is blank, a _parent is
\* an allocated table, and a loop runs over a table of its kind.
HeapTypeOK ==
    /\ meta \in [View -> {"free", "object", "array", "plain"}]
    /\ node \in [View -> Node]
    /\ parent \in [View -> View \cup {Nil}]
    /\ dirty \in [View -> BOOLEAN]
    /\ cache \in [View -> [Key -> View \cup {Nil}]]
    /\ built \in [View -> BOOLEAN]
    /\ slots \in [View -> [Index -> Val \cup {Nil}]]
    /\ \A v \in View : meta[v] = "free" =>
           ~dirty[v] /\ ~built[v] /\ cache[v] = [k \in Key |-> Nil]
    /\ \A v \in View : parent[v] # Nil => meta[parent[v]] # "free"

IterTypeOK ==
    /\ iter \in [kind : {"none", "source", "ordered", "array", "done", "error"},
                 view : View \cup {Nil}, pos : Nat, owed : {iter.owed}]
    /\ iter.kind \in {"source", "ordered"} => iter.view \in View /\ meta[iter.view] = "object"
    /\ iter.kind = "array" => iter.view \in View /\ meta[iter.view] \in {"array", "plain"}

OrderTypeOK ==
    /\ keys \in [View -> Seq(Key)]
    /\ values \in [View -> [Key -> Val \cup {Nil}]]
    /\ iter.owed \subseteq Key

TypeOK == HeapTypeOK /\ IterTypeOK /\ OrderTypeOK

\* A dirty view's _parent chain is dirty as far as it is lazy, so that encode,
\* which comes from above and turns back at a clean view, reaches it.
DirtyUp ==
    \A v \in View : Lazy(v) /\ dirty[v] /\ parent[v] # Nil /\ Lazy(parent[v]) => dirty[parent[v]]

\* The source bytes of a clean object stand for it: it has no order state, and
\* each child it handed out is a lazy, clean view of the source value of that
\* key whose _parent it is (encode_proxy's fast path).
CleanObjectPristine ==
    \A v \in View : meta[v] = "object" /\ ~dirty[v] =>
        /\ ~built[v]
        /\ \A k \in Key, c \in View : cache[v][k] = c =>
               /\ Lazy(c) /\ ~dirty[c] /\ parent[c] = v
               /\ HasKey(node[v], k) /\ node[c] = FirstItem(node[v], k)

\* ORDER_KEYS lists without repetition exactly the keys ORDER_VALUES maps: the
\* assertion in materialize_plain cannot fire, and encode drops no field.
OrderAgrees ==
    \A v \in View : built[v] =>
        /\ IsInjective(keys[v])
        /\ ToSet(keys[v]) = {k \in Key : values[v][k] # Nil}

\* A child view, once handed out for a field or an element, is what later
\* reads return until the client assigns that field or element.  (A repeated
\* key is excepted: see OneViewPerContainer.)
ChildKept ==
    \A v \in View, k \in Key :
        meta[v] = "object" /\ ~built[v] /\ ~Duplicated(node[v], k) /\ cache[v][k] # Nil =>
            IF built[v]'
            THEN values[v][k]' = cache[v][k] \/ \E x \in Val \cup {Nil} : WriteField(v, k, x)
            ELSE cache[v][k]' = cache[v][k]

ElementKept ==
    \A v \in View, i \in Index :
        meta[v] = "array" /\ slots[v][i] # Nil =>
            slots[v][i]' = slots[v][i] \/ \E x \in Val \cup {Nil} : WriteIndexRaw(v, i, x)

ReadIdentityStable == [][ChildKept /\ ElementKept]_vars

=============================================================================
