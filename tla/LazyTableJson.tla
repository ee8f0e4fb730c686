---------------------------- MODULE LazyTableJson ----------------------------
(***************************************************************************)
(* What qjson.encode and qjson.materialize make of a heap of lazy tables,  *)
(* as values: an object is a map from keys (a repeated key counts with its *)
(* last value, as lua-cjson and qjson decode it), an array a sequence.     *)
(*                                                                         *)
(* Depth bounds the descent: a value nested deeper is Deep in both.        *)
(***************************************************************************)
EXTENDS LazyTable

CONSTANT Depth

ASSUME DepthAssumption == Depth \in Nat

\* Nil is nothing a table can be.
ASSUME NilAssumption ==
    Nil \notin [kind : {"object", "array"}, keys : Seq(Key),
                items : Seq(Scalar \cup View \cup Node), from : Node]

JScalar(x) == [is |-> "scalar", of |-> x]
JObject(f) == [is |-> "object", of |-> f]
JArray(q) == [is |-> "array", of |-> q]
Deep == [is |-> "deep"]
Absent == [is |-> "absent"]

Source == Scalar \cup Node
\* A view, or a source value no view stands for yet.
Thing == Val \cup Node

\* The source text of a container (or of a scalar), parsed.
Text[d \in 0..Depth] ==
    [x \in Source |->
        IF x \in Scalar THEN JScalar(x)
        ELSE IF d = 0 THEN Deep
        ELSE IF Kind[x] = "object"
        THEN JObject([k \in Key |-> IF HasKey(x, k) THEN Text[d - 1][LastItem(x, k)] ELSE Absent])
        ELSE JArray([i \in DOMAIN Item[x] |-> Text[d - 1][Item[x][i]]])]

\* values[k] once ensure_object_order_state has run on v.
OrderedField(v, k) == IF built[v] THEN values[v][k] ELSE BuiltValue(v, k, <<>>)

PlainItems(v) == [i \in 1..ArrayLen(v) |-> slots[v][i]]
ElementAt(v, i) == IF slots[v][i] # Nil THEN slots[v][i] ELSE Item[node[v]][i]

\* encode: the source text of a clean view, else a walk.
Encoded[d \in 0..Depth] ==
    [x \in Thing |->
        IF x \in Source THEN Text[d][x]
        ELSE IF d = 0 THEN Deep
        ELSE IF meta[x] = "plain"
        THEN JArray([i \in DOMAIN PlainItems(x) |-> Encoded[d - 1][PlainItems(x)[i]]])
        ELSE IF ~dirty[x] THEN Text[d][node[x]]
        ELSE IF meta[x] = "object"
        THEN JObject([k \in Key |->
                 IF OrderedField(x, k) = Nil THEN Absent ELSE Encoded[d - 1][OrderedField(x, k)]])
        ELSE JArray([i \in DOMAIN Item[node[x]] |-> Encoded[d - 1][ElementAt(x, i)]])]

\* materialize_plain: always a walk.  A clean object without order state gives
\* every occurrence of a key the child cached for that key, if there is one.
MaterializedField(v, k) ==
    IF built[v] \/ dirty[v] THEN OrderedField(v, k)
    ELSE IF ~HasKey(node[v], k) THEN Nil
    ELSE IF cache[v][k] # Nil THEN cache[v][k]
    ELSE LastItem(node[v], k)

Materialized[d \in 0..Depth] ==
    [x \in Thing |->
        IF x \in Source THEN Text[d][x]
        ELSE IF d = 0 THEN Deep
        ELSE IF meta[x] = "plain"
        THEN JArray([i \in DOMAIN PlainItems(x) |-> Materialized[d - 1][PlainItems(x)[i]]])
        ELSE IF meta[x] = "object"
        THEN JObject([k \in Key |->
                 IF MaterializedField(x, k) = Nil THEN Absent
                 ELSE Materialized[d - 1][MaterializedField(x, k)]])
        ELSE JArray([i \in DOMAIN Item[node[x]] |-> Materialized[d - 1][ElementAt(x, i)]])]

Made(v) == meta[v] # "free"

-----------------------------------------------------------------------------
\* The two heap states in which encode and materialize part: a clean array view
\* whose remembered child the client assigned over, and an object view that
\* remembers a child for a repeated key.
OwnChild(v, i, c) ==
    c \in View /\ i \in DOMAIN Item[node[v]] /\ node[c] = Item[node[v]][i] /\ parent[c] = v

OverwrittenSlot(v) ==
    /\ meta[v] = "array" /\ ~dirty[v]
    /\ \E i \in Index : slots[v][i] # Nil /\ ~OwnChild(v, i, slots[v][i])

CachedDuplicate(v) ==
    meta[v] = "object" /\ ~built[v] /\ \E k \in Key : cache[v][k] # Nil /\ Duplicated(node[v], k)

\* encode and materialize give the same JSON value for every table, whatever
\* was read, iterated and written before, unless some table is in one of the
\* two states above.
EncodeMatchesMaterialize ==
    (\A v \in View : ~OverwrittenSlot(v) /\ ~CachedDuplicate(v)) =>
        \A v \in View : Made(v) => Encoded[Depth][v] = Materialized[Depth][v]

\* Reads, loops, encode and materialize change what encode returns for no
\* table: order state built on demand and views made on demand are invisible.
ReadsArePure ==
    [][writes' = writes =>
         \A v \in View : Made(v) => (Encoded[Depth][v])' = Encoded[Depth][v]]_vars

-----------------------------------------------------------------------------
(* The tables as a client knows them.                                       *)

\* What is behind a key that is repeated is left open until the object has its
\* order state: CachedDuplicate.
FieldOf(v, k) ==
    IF built[v] THEN values[v][k]
    ELSE IF ~Duplicated(node[v], k) /\ cache[v][k] # Nil THEN cache[v][k]
    ELSE LastItem(node[v], k)

SourceLevel ==
    [n \in Node |-> LET ks == IF Kind[n] = "object" THEN FirstOrder(n) ELSE <<>>
                    IN  [kind |-> Kind[n], keys |-> ks, from |-> n,
                         items |-> IF Kind[n] = "object" THEN [j \in DOMAIN ks |-> LastItem(n, ks[j])] ELSE Item[n]]]

KeysOf(v) == IF built[v] THEN keys[v] ELSE SourceLevel[node[v]].keys
ItemsOf(v) ==
    CASE meta[v] = "object" -> [j \in DOMAIN KeysOf(v) |-> FieldOf(v, KeysOf(v)[j])]
      [] meta[v] = "array" -> [i \in DOMAIN Item[node[v]] |-> ElementAt(v, i)]
      [] OTHER -> PlainItems(v)

Contents(v) ==
    [kind |-> IF meta[v] = "object" THEN "object" ELSE "array",
     keys |-> IF meta[v] = "object" THEN KeysOf(v) ELSE <<>>,
     items |-> ItemsOf(v), from |-> node[v]]

ClientTable == [v \in View |-> IF meta[v] = "free" THEN Nil ELSE Contents(v)]

Tables == INSTANCE OrderedTables WITH Level <- SourceLevel, table <- ClientTable

\* The step old to new is, call for call, a step of the ordered tables: each
\* assignment the step may be is that assignment of the same value to the same key or
\* index of the same table, and a step that assigns nothing only shows.
CallsMatch(old, new) ==
    IF writes' = writes THEN Tables!Seen(old, new)
    ELSE \A v \in View, x \in Val \cup {Nil} :
        /\ \A k \in Key : WriteField(v, k, x) => Tables!SetField(old, new, v, k, x)
        /\ \A i \in Index : WriteIndex(v, i, x) => Tables!SetIndex(old, new, v, i, x)
        /\ \A i \in Index : WriteIndexRaw(v, i, x) =>
              IF meta[v] = "array" /\ x = Nil THEN Tables!Restore(old, new, v, i)
              ELSE Tables!SetIndex(old, new, v, i, x)

\* Lazy tables are ordered tables: an assignment puts the value it names in the one
\* place it names, although it decodes a level, converts a view or builds order state
\* on the way, and a read, a loop step, encode or materialize changes no table.
\* Either may bring containers to light, each where it is and as the document has it.
TablesSpec ==
    /\ Tables!Init
    /\ [][\A old \in {ClientTable}, new \in {ClientTable'} : CallsMatch(old, new)]_vars

-----------------------------------------------------------------------------
\* "keeps encode/materialize semantics aligned with an ordered model"
\* (tests/lua/lazy_mutation_property_spec.lua): encode shows every assignment
\* that materialize shows.
EncodeShowsWrites ==
    (\A v \in View : ~CachedDuplicate(v)) =>
        \A v \in View : Made(v) => Encoded[Depth][v] = Materialized[Depth][v]

\* "Duplicate object keys collapse to the last value during materialization"
\* (docs/migrating-from-cjson.md).
MaterializeLastWins ==
    writes = 0 => \A v \in View : Made(v) => Materialized[Depth][v] = Text[Depth][node[v]]

\* "Nested containers are also proxies and keep stable Lua identity when read
\* repeatedly" (docs/migrating-from-cjson.md): before any write, no two views
\* for one container of the document.
OneViewPerContainer ==
    writes = 0 => \A v, w \in View : Lazy(v) /\ Lazy(w) /\ parent[v] = parent[w] /\ node[v] = node[w] => v = w

\* "materialize converts proxies into plain Lua tables": nothing it returns as
\* it stands still holds a proxy.
MaterializeLeavesNoProxy ==
    \A v \in View : Lazy(v) =>
        \A w \in Reach(v, MaterializeLinks) : meta[w] = "plain" => \A x \in ViewsIn(slots[w]) : ~Lazy(x)

\* A loop that ends has visited every key the table had all along.
LoopVisitsAll == iter.kind = "done" => iter.owed = {}

=============================================================================
