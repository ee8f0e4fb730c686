------------------------------ MODULE KeepOrigin ------------------------------
(***************************************************************************)
(* materialize with keep_origin, and encode of what it returns             *)
(* (lua/qjson/table.lua).  The tables are plain: the client edits them     *)
(* unseen, moves them about and into each other, and encode finds out by   *)
(* comparison with what was recorded what it may copy from the source.     *)
(*                                                                         *)
(* The text an encode returns is taken for what it parses to: a leaf, a    *)
(* sequence, or a set of keys with values, in which a key that is written  *)
(* twice is there twice.  Depth and cycles raise an error.                 *)
(***************************************************************************)
EXTENDS Integers, FiniteSetsExt, SequencesExt

CONSTANTS
    Node, Kind,     \* values of the source documents: "object", "array" or "leaf"
    Children, Keys, \* nodes below a container, and the key of each in an object
    Leaf,           \* the value of a leaf
    RawLen,         \* bytes of source text
    Edited,         \* keys the client sets
    Given,          \* leaves the client sets
    Copies,         \* calls of materialize
    MaxEdits, MaxDepth,     \* ENCODE_MAX_DEPTH: 1000 in the code
    None

ORIGIN_STRING_MIN_RAW == 24
ORIGIN_TABLE_MIN_RAW == 64

Containers == {n \in Node : Kind[n] # "leaf"}
ParentOf(n) == {p \in Containers : n \in Range(Children[p])}

\* A tree: children have higher ranks.
ASSUME SourceAssumption ==
    /\ \A n \in Containers : Kind[n] = "object" => Len(Keys[n]) = Len(Children[n])
    /\ \A n \in Node : Cardinality(ParentOf(n)) <= 1

\* Values: leaves, and tables named for the call that made them and their node.
Str(x) == <<"str", x>>
Lit(x) == <<"lit", x>>
Table(call, n) == <<"table", call, n>>
Tables == {Table(call, n) : call \in 1..Copies, n \in Containers}
Name(k) == <<"name", k>>
Index(j) == <<"index", j>>

VARIABLES
    slot,   \* what the client set in a lazy view in place of a node, or None
    dirty,  \* _dirty of the lazy view of a container
    calls,  \* calls of materialize
    fields, \* contents of a table that was made, else None
    origin, \* TABLE_ORIGIN
    edits
vars == <<slot, dirty, calls, fields, origin, edits>>

Made == {t \in Tables : fields[t] # None}

-----------------------------------------------------------------------------
(* The source.                                                              *)

KeyAt(n, j) == IF Kind[n] = "object" THEN Name(Keys[n][j]) ELSE Index(j)
KeysOf(n) == {KeyAt(n, j) : j \in DOMAIN Children[n]}

\* The child that a key stands for: the last.
ChildAt(n, k) == Children[n][Max({j \in DOMAIN Children[n] : KeyAt(n, j) = k})]
Repeats(n) == Cardinality(KeysOf(n)) < Len(Children[n])

JErr == <<"error", {}>>
JObject(pairs) == IF \E p \in pairs : p[2] = JErr THEN JErr ELSE <<"object", pairs>>
JArray(items) == IF JErr \in Range(items) THEN JErr ELSE <<"array", items>>

\* What the source text of a node says, repeated keys included.
Says[n \in Node] ==
    CASE Kind[n] = "leaf" -> Leaf[n]
      [] Kind[n] = "array" -> JArray([j \in DOMAIN Children[n] |-> Says[Children[n][j]]])
      [] OTHER -> JObject({<<Name(Keys[n][j]), Says[Children[n][j]]>> : j \in DOMAIN Children[n]})

Above[n \in Node] == {n} \cup UNION {Above[p] : p \in ParentOf(n)}

-----------------------------------------------------------------------------
(* materialize.                                                             *)

\* rawget(view, idx) or the element decoded: a false in the slot is lost.
Overwritten(n) ==
    slot[n] # None /\ (slot[n] = Lit("false") => \A p \in ParentOf(n) : Kind[p] = "object")
Value(call, n) ==
    CASE Overwritten(n) -> slot[n]
      [] ~Overwritten(n) /\ Kind[n] = "leaf" -> Leaf[n]
      [] OTHER -> Table(call, n)

Contents(call, n) == [k \in KeysOf(n) |-> Value(call, ChildAt(n, k))]

\* The containers that become tables of the result.
Reached[n \in Containers] ==
    LET inner == {c \in {ChildAt(n, k) : k \in KeysOf(n)} : ~Overwritten(c) /\ Kind[c] # "leaf"}
    IN  {n} \cup UNION {Reached[c] : c \in inner}

\* origin_child_record, for value v where the source has node n; child is
\* TABLE_ORIGIN of v.
Record(tag, v, n) == [tag |-> tag, value |-> v, node |-> n]
ChildRecord(v, n, child) ==
    CASE v[1] = "str" /\ RawLen[n] > ORIGIN_STRING_MIN_RAW -> Record("string", v, n)
      [] v[1] = "table" /\ child # None ->
            IF child.complete /\ RawLen[child.node] > ORIGIN_TABLE_MIN_RAW THEN Record("table", v, n) ELSE None
      [] OTHER -> None

\* materialize_object_with_origin, materialize_array_with_origin: the records are by
\* key, the last to stay, but all of them must be there for the origin to be complete.
Origins(call) ==
    LET of[n \in Containers] ==
            LET rec(c) ==
                    LET v == Value(call, c)
                    IN  ChildRecord(v, c, IF v \notin Tables THEN None
                                          ELSE IF Overwritten(c) THEN origin[v] ELSE of[c])
            IN  [kind |-> Kind[n], node |-> n,
                 complete |-> \A j \in DOMAIN Children[n] : rec(Children[n][j]) # None,
                 records |-> [k \in KeysOf(n) |-> rec(ChildAt(n, k))],
                 had_duplicates |-> Kind[n] = "object" /\ Repeats(n)]
    IN  of

\* A dirty view is materialized without origin, and so is all below it; below a
\* clean one everything is clean.
materialize(n) ==
    LET call == calls + 1
        new == {Table(call, m) : m \in Reached[n]}
        origins == Origins(call)
    IN  /\ calls < Copies
        /\ calls' = call
        /\ fields' = [t \in Tables |-> IF t \in new THEN Contents(call, t[3]) ELSE fields[t]]
        /\ origin' = [t \in Tables |-> IF t \in new /\ n \notin dirty THEN origins[t[3]] ELSE origin[t]]
        /\ UNCHANGED <<slot, dirty, edits>>

-----------------------------------------------------------------------------
(* encode.  The tables being encoded are active; there are depth - 1.       *)

TooDeep(active) == Cardinality(active) + 1 > MaxDepth

All(answers) == IF "error" \in answers THEN "error" ELSE IF "no" \in answers THEN "no" ELSE "yes"

\* A slip the runs rule out: keys that are gone are not noticed.
SameKeysButFewer(t, o) == DOMAIN fields[t] \subseteq DOMAIN o.records

\* No key was added, none is gone; # of an array is any of its borders.
SameKeys(t, o) == DOMAIN fields[t] = DOMAIN o.records

\* A slip the runs rule out: a table with a repeated key is copied as well.
MayCopyRepeats(o) == o.complete

MayCopy(o) == o.complete /\ ~o.had_duplicates

\* origin_record_matches, origin_object_fully_matches and origin_array_fully_matches.
\* A pair that does not match may end the search before an error is met, which
\* encode then meets itself.
Matches[t \in Tables, active \in SUBSET Tables] ==
    LET o == origin[t]
        field(k) ==
            LET v == fields[t][k]
                r == IF k \in DOMAIN o.records THEN o.records[k] ELSE None
            IN  CASE r = None -> "no"
                  [] r # None /\ r.value # v -> "no"
                  [] r # None /\ r.value = v /\ r.tag = "string" -> "yes"
                  [] OTHER -> IF v \in active \/ TooDeep(active) THEN "error" ELSE Matches[v, active \cup {v}]
    IN  IF ~MayCopy(o) THEN "no"
        ELSE LET fit == All({field(k) : k \in DOMAIN fields[t]})
             IN  IF fit = "yes" /\ ~SameKeys(t, o) THEN "no" ELSE fit

\* What materialize_plain makes of an empty array has empty_array_mt, and stays an
\* array of # elements.
MarkedEmpty(t) == origin[t] = None /\ Kind[t[3]] = "array" /\ Children[t[3]] = <<>>

\* classify_plain_table
AllPositive(t) == fields[t] # <<>> /\ \A k \in DOMAIN fields[t] : k[1] = "index"
IsArray(t) == MarkedEmpty(t) \/ AllPositive(t)

\* The positions written, up to # or the largest.  # of a table with holes is any of
\* its borders; this is the least.
Positions(t) ==
    LET present == {k[2] : k \in {j \in DOMAIN fields[t] : j[1] = "index"}}
    IN  IF MarkedEmpty(t) THEN {j \in present : 1..j \subseteq present} ELSE 1..Max(present)

\* encode_origin_child: the source bytes of a string that is what it was.
RawOf(r, v) == r # None /\ r.tag = "string" /\ r.value = v

Encoded[v \in Tables \cup Given \cup Range(Leaf), active \in SUBSET Tables] ==
    LET o == origin[v]
        inner == active \cup {v}
        copy == IF o = None THEN "no" ELSE Matches[v, inner]
        field(k) ==
            LET r == IF o # None /\ o.kind = "object" /\ k \in DOMAIN o.records THEN o.records[k] ELSE None
            IN  IF RawOf(r, fields[v][k]) THEN Says[r.node] ELSE Encoded[fields[v][k], inner]
    IN  CASE v \notin Tables -> v
          [] v \in Tables /\ (v \in active \/ TooDeep(active) \/ copy = "error") -> JErr
          [] OTHER ->
                IF copy = "yes" THEN Says[o.node]
                ELSE IF (o = None \/ o.kind = "array") /\ IsArray(v)
                THEN JArray([j \in Positions(v) |->
                        IF Index(j) \in DOMAIN fields[v] THEN field(Index(j)) ELSE Lit("null")])
                ELSE JObject({<<k, field(k)>> : k \in DOMAIN fields[v]})

-----------------------------------------------------------------------------
(* The client.                                                              *)

Init ==
    /\ slot = [n \in Node |-> None] /\ dirty = {} /\ calls = 0 /\ edits = 0
    /\ fields = [t \in Tables |-> None] /\ origin = [t \in Tables |-> None]

Edit == edits < MaxEdits /\ edits' = edits + 1

\* Assignment to a field of a lazy object: of a repeated key, to the last.
WriteLazy(n, v) ==
    /\ Edit
    /\ \E p \in ParentOf(n) : Kind[p] = "object" /\ \E k \in KeysOf(p) : ChildAt(p, k) = n
    /\ slot' = [slot EXCEPT ![n] = v]
    /\ dirty' = dirty \cup (Above[n] \ {n})
    /\ UNCHANGED <<calls, fields, origin>>

\* Assignment to an element of a lazy array that was read before, a container: Lua
\* finds the slot taken and calls no metamethod.
WriteSlot(n, v) ==
    /\ Edit
    /\ Kind[n] # "leaf" /\ \E p \in ParentOf(n) : Kind[p] = "array"
    /\ slot' = [slot EXCEPT ![n] = v]
    /\ UNCHANGED <<dirty, calls, fields, origin>>

\* t[k] = v, and t[k] = nil.
SetField(t, k, v) ==
    /\ Edit
    /\ fields' = [fields EXCEPT ![t] = (k :> v) @@ @]
    /\ UNCHANGED <<slot, dirty, calls, origin>>
ClearField(t, k) ==
    /\ Edit
    /\ fields' = [fields EXCEPT ![t] = [j \in DOMAIN @ \ {k} |-> @[j]]]
    /\ UNCHANGED <<slot, dirty, calls, origin>>

Next ==
    \/ \E n \in Containers : ParentOf(n) = {} /\ materialize(n)
    \/ \E n \in Node, v \in Given \cup Made : WriteLazy(n, v) \/ WriteSlot(n, v)
    \/ \E t \in Made, k \in Edited :
        \/ \E v \in Given \cup Made : SetField(t, k, v)
        \/ k \in DOMAIN fields[t] /\ ClearField(t, k)

Spec == Init /\ [][Next]_vars

-----------------------------------------------------------------------------
(* Properties.                                                              *)

\* A record pairs a value with bytes of something else, where the client has set a
\* slot behind the back of the lazy array: Stale tables, and what holds one.
StaleRecord(r) == r # None /\ IF r.tag = "string" THEN Says[r.node] # r.value ELSE r.value[3] # r.node
Stale(t) == origin[t] # None /\ \E k \in DOMAIN origin[t].records : StaleRecord(origin[t].records[k])
Holds(t) == {v \in Made : \E k \in DOMAIN fields[t] : fields[t][k] = v}
Within[t \in Tables, seen \in SUBSET Tables] ==
    {t} \cup UNION {Within[u, seen \cup {t}] : u \in Holds(t) \ (seen \cup {t})}
Sound(t) == \A u \in Within[t, {}] : ~Stale(u)

\* What a table holds, read with no help from its origin but that an object stays
\* one, and an array that was empty as long as it is.  A cycle is too deep.
ReadAs[v \in Tables \cup Given \cup Range(Leaf), d \in 1..MaxDepth + 1] ==
    LET o == origin[v]
        wasObject == o # None /\ o.kind = "object"
        stillEmpty == o # None /\ o.kind = "array" /\ Children[o.node] = <<>> /\ fields[v] = <<>>
    IN  CASE v \notin Tables -> v
          [] v \in Tables /\ d > MaxDepth -> JErr
          [] OTHER ->
                IF stillEmpty THEN JArray(<<>>)
                ELSE IF IsArray(v) /\ ~wasObject
                THEN JArray([j \in Positions(v) |->
                        IF Index(j) \in DOMAIN fields[v] THEN ReadAs[fields[v][Index(j)], d + 1] ELSE Lit("null")])
                ELSE JObject({<<k, ReadAs[fields[v][k], d + 1]>> : k \in DOMAIN fields[v]})

\* Source bytes never show through: the encoding of a table is that of its contents
\* as they are now, whatever was edited, moved, removed, aliased or repeated, and
\* is an error just when that is one.
EncodeIsCurrent == \A t \in Made : Sound(t) => Encoded[t, {}] = ReadAs[t, 1]

\* The table is as it was made, all the way down.
AsMade[n \in Containers, call \in 1..Copies] ==
    LET t == Table(call, n)
    IN  /\ fields[t] = [k \in KeysOf(n) |-> LET c == ChildAt(n, k)
                                            IN IF Kind[c] = "leaf" THEN Leaf[c] ELSE Table(call, c)]
        /\ \A k \in KeysOf(n) : LET c == ChildAt(n, k) IN Kind[c] = "leaf" \/ AsMade[c, call]
NoRepeats[n \in Node] == Kind[n] # "leaf" => ~Repeats(n) /\ \A j \in DOMAIN Children[n] : NoRepeats[Children[n][j]]

\* The lazy tables below the node of t were not written to.
SourceKept(t) == \A n \in Node : t[3] \in Above[n] => slot[n] = None

\* A table is copied from the source exactly when its origin is complete, no key in
\* it is repeated, and it is as it was made, or is so again (README.md:189-190: "an
\* unchanged container can be emitted as the original slice").
CopiedWhenUnchanged ==
    \A t \in Made : origin[t] # None /\ SourceKept(t) /\ Matches[t, {t}] # "error" =>
        (Matches[t, {t}] = "yes") = (origin[t].complete /\ NoRepeats[t[3]] /\ AsMade[t[3], t[2]])
=============================================================================
