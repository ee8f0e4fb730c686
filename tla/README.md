# lua-qjson in TLA+

lua-qjson is a JSON decoder and encoder for LuaJIT: a Rust library indexes a
text and answers lookups on it without building a tree, and a Lua binding shows
the text as lazy tables that can be read, changed and encoded again. This
directory models the parts of it whose correctness depends on the order in
which things happen, model-checks them with TLC and proves the main invariants
with TLAPS. Paths below are relative to the repository root.

## 1. The system

| component | source | state | operations |
|---|---|---|---|
| scanner | `src/scan/` | offsets of the structural characters; carries across 64-byte chunks | scan, bracket pairing |
| validation | `src/validate/`, `src/doc.rs` | a stack of contexts that spills to the heap at 64 | depth check (lazy mode), trailing check and grammar walk (eager mode) |
| document, cursor, skip cache | `src/doc.rs`, `src/cursor.rs`, `src/skip_cache.rs`, `src/path.rs` | offsets, a cache of child positions per container | resolve a path, a key, an index; nth entry; length |
| decoding | `src/decode/`, `src/validate/number.rs`, `src/validate/strings/` | scratch buffer for unescaped strings | number and string conversion and validation |
| C interface | `src/ffi.rs` | document handles, cursors, iterators, last error offset | the `qjson_*` functions |
| explicit Lua API | `lua/qjson.lua` | `Doc`, `Cursor` over shared FFI boxes | parse, open, typed getters |
| lazy tables | `lua/qjson/table.lua` | views, dirty flags, child caches, order state | decode, `__index`, `__newindex`, pairs, ipairs, len, encode, materialize |
| keep_origin and plain encoder | `lua/qjson/table.lua` | provenance records in weak tables | materialize with records, encode by comparison |
| error text, loader | `src/error.rs`, `lua/qjson/lib.lua` | none | formatting, finding the library |

The lazy tables call the C interface through the shared boxes, the C interface
calls cursors, cursors fill the skip cache of the document, and `qjson.decode`
first parses in eager mode. There are no threads. What makes the code hard is
history: one document answers many calls, and the caches, flags and copies they
leave behind must never show.

What is correct:

* **lazy tables**: a table behaves as the decoded document would. Encode shows
  every write although it copies source bytes wherever a view is clean; reads,
  loops and encode itself change nothing a caller can see; a child keeps its
  identity; the key list and the value map agree.
* **validation**: eager mode accepts exactly JSON within the depth limit and
  never disagrees with lazy mode about depth; spilling the stack is invisible.
* **cursor and skip cache**: on JSON a path leads to the child it names whatever
  was asked before; on any text the cache holds whole containers, a lookup takes
  the first match from the walk and from the cache alike, and every call returns.
* **scanner**: the chunked scanners emit the offsets of the scalar one, wherever
  a chunk ends, refuse the same texts, and at the same place, but for a mismatch
  before a string that never ends.
* **decoding**: a string or number that is taken decodes to the one thing it
  means, and the checks a getter leaves out after eager parsing are not missed.
* **C interface**: a getter answers what was written at its path, whatever was
  asked before; the error offset is that of the value the call failed on; a string
  handed out is intact until the next call that decodes one.
* **explicit API**: an earlier cursor is not moved by a later one.
* **keep_origin**: source bytes are emitted only for what is unchanged.

`PROJECT.json` lists every hazard at its line.

## 2. Modules

| module | what it is |
|---|---|
| `LazyTable` | the views of one document: allocation, reads, writes, loops, and the heap effect of encode and materialize |
| `OrderedTables` | what lazy tables promise: ordered maps and arrays, changed one entry at a time |
| `LazyTableJson` | what encode and materialize return in a state, properties of it, and the refinement of `OrderedTables` |
| `LazyOrderProofs` | TLAPS proofs about `LazyTable`: the dirty chain and clean bytes, key lists and order state, types, the identity of children |
| `LazyRefinementProofs` | `LazyTable` implements `OrderedTables` |
| `LazyEncodeProofs` | what encode and materialize return, for every depth |
| `NumberSets` | finite sets of numbers: ranks, ends, descent; used by all proofs that count, rank or climb |
| `MCLazyTable` | small documents for TLC |
| `CtxStack` | the abstract stack of contexts: replace the top, descend, ascend |
| `SpillStack` | the array that spills into a vector, one operator per macro |
| `EagerWalk` | scan, depth check, trailing check and the grammar walk over `SpillStack`; refines `CtxStack` |
| `EagerGrammar` | the JSON grammar over lexemes, by the length of the span derived: the reference for the walk |
| `EagerGrammarProofs` | TLAPS proofs about `EagerWalk`, the refinement among them, and `EagerGrammar`: eager mode accepts the grammar and nothing else |
| `MCEagerWalk` | the instance for TLC |
| `Marks` | a text as its structural characters: the span of a value, emptiness, what a walk over a container is |
| `ChildWalk` | path lookups, nth entry, length and the object iterator, child by child, over `Marks` and the skip cache |
| `ChildTree` | the children of a container read off its brackets and commas, and the properties that compare answers with them |
| `ChildWalkProofs` | TLAPS proofs about `ChildWalk` and `ChildTree` |
| `MCChildWalk` | the texts and paths for TLC |
| `ChunkScan` | the chunked scan with its carries, its jump and its tail, bracket matching, and the one-pass scanner of other processors |
| `ScanProofs` | TLAPS proofs about `ChunkScan`, as `CInterface` runs it: the scan stands where a byte by byte scan does, and the scanners are one |
| `Scalars` | validation and decoding of strings and numbers |
| `ScalarGrammar` | what strings and numbers mean, the reference for `Scalars` |
| `ScalarProofs` | TLAPS proofs about `Scalars` and `ScalarGrammar`: strings and numbers decode to what they mean |
| `CInterface` | documents, parsing in both modes, and every exported call over `ChunkScan` and `Scalars` |
| `InterfaceSpec` | what the calls must answer, read off the values of a text as they were written |
| `MCCInterface` | texts, strings, tokens and paths for TLC |
| `LuaApi`, `MCLuaApi` | `Doc` and `Cursor` objects over `CInterface`, and a document for them |
| `KeepOrigin`, `MCKeepOrigin` | materialize with records, edits of the plain tables and encode; three sources |

`LazyTable` and `ChildWalk` meet in what a lookup finds: `LazyTable` takes the
first field with the wanted key, which is what `PathsLeadToChildren` shows the
cursors to answer on JSON, the only texts `qjson.decode` admits. `EagerWalk` is
what admits them. `CInterface` composes the scan, the validators and the getters,
takes lookups at the specification `ChildWalk` is checked against, and leaves
depth and malformed structure to `EagerWalk`; `LuaApi` is built on its actions.

### LazyTable

A document is a tree of containers (`Kind`, `FieldKey`, `Item`). A view is a
Lua table: `meta` is its metatable, `node` stands for `_cur`, `_bs` and `_be`,
`parent` and `dirty` for `_parent` and `_dirty`, `cache` for `CHILD_CACHE`,
`built`, `keys` and `values` for `ORDER_KEYS` and `ORDER_VALUES`, `slots` for
the integer fields of an array view or of the plain sequence it becomes.

| action | code |
|---|---|
| `ReadField`, `ReadIndex` | `read_object_field`, `read_array_index` when they make a view; every other read changes nothing |
| `WriteField` | `LazyObject.__newindex`: order state, dirty chain, assignment and key list in one step |
| `WriteIndex` | `LazyArray.__newindex`: dirty chain, decoding of every element, conversion to a plain table, assignment |
| `WriteIndexRaw` | an assignment Lua performs without a metamethod, because the integer field is present |
| `PairsStart`, `NextSource`, `NextOrdered` | `__pairs` and its two iterators |
| `IpairsStart`, `NextArray`, `NextArrayFails` | the array iterator and its error after a conversion |
| `IterEnd` | an iterator returns nil |
| `Encode`, `Materialize` | the order state those walks build on the way; their results are in `LazyTableJson` |

One metamethod or iterator step is one action: Lua is single threaded and none
yields. Between two steps of a loop the client may do anything.

Choices a reader should know. Which table an allocation gets is immaterial, so
the model picks the free names with `CHOOSE`; a step that needs more views than
`View` offers is not taken. The owner of a value the client overwrites is
irrelevant, and a child decoded only to be replaced by the same assignment is
not allocated. The client never makes a cycle (the guard with `Reach`), never
leaves a hole in a plain sequence and does not use the internal field names of a
view. Values a client writes are scalars or views. `false` elements, which
`rawget(v, i) or x` would not see, and conversions that fail are left out.

### EagerWalk

A text is a sequence of lexemes: a structural character, a whole string (two
offsets in the code), or a scalar token, which lives in the gap before the next
offset. `badstring` and `badscalar` fail their byte-level validators. `Scan`
grows the text as far as the scanner accepts it; `Begin` and `RejectTrailing`
are the calls of `parse_with_options_detailed`; each `Walk...` action is one arm
of the loop; `WalkFails` takes the early returns in the code's order; `Finish`
is the check at the end. A text with containers open is walked too, as the code
does for its error report. Texts that end inside a string or close a container
that is not open never reach the walk and are not generated.

`SpillStack` keeps the code's representation: `sp` above `Cap` only says that
the frames are in the vector, and no pop to a non-empty vector lowers it. The
refinement maps both representations to the sequence `Frames`.

### ChildWalk

A text is the sequence of its structural characters (`mark`) with what lies
before each of them (`before`); numbers, literals and stray bytes are among the
latter. Mark `s` is `indices[s - 1]`, mark `N + 1` the sentinel, and an index
beyond it is the panic that the C interface turns into `QJSON_OOM`. A cursor is
the code's pair of positions. For a scalar both name the mark after it.

| variable, action | code |
|---|---|
| `skip` | `SkipCache`: container's opener to `child_starts`, `child_ends` |
| `cursors`, `iter` | what the client holds: `qjson_cursor` values, one `qjson_iter` |
| `req`, `answer` | the call in progress and its return code and outputs |
| `at`, `rest`, `here`, `starts`, `ends`, `found` | the locals of `resolve`, `walk_children`, `nth_object_entry`, `cursor_len` |
| `Call` | `qjson_open`, `qjson_cursor_open`, `_field`, `_index`, `_object_entry_at`, `_len` |
| `StepRefused` | a malformed segment, or one that does not fit the container |
| `HitFound`, `HitMissing` | `resolve_in_known_children` |
| `WalkEmpty`, `WalkChild`, `WalkFails`, `WalkFound`, `WalkMissing` | the empty container, one turn of the loop, its early returns, its end |
| `CountRefused`, ..., `CountChild` | the same loop in `nth_object_entry` and `cursor_len`, without the cache |
| `IterInit`, `IterNext` | the object iterator: one step per call |

One turn of a loop is one action, so that termination is a property and not an
assumption; calls on one document do not overlap, as the document is not
thread-safe. Returning resets the locals. A path that has a malformed segment is
followed up to it, as `PathIter` does. `qjson_cursor_len` with a path is an open
followed by a length. Key strings decode without error, and keys are compared by
their bytes between the quotes: `Bytes` has an escaped spelling of a key for the
run that needs one. A call of the iterator that fails is not modelled: it leaves
the iterator as it was.

### ChunkScan and Scalars

`W` bytes are a chunk, and a mask is the set of its lanes; `EscapeMask` keeps the
addition that finds the end of a backslash run, carries and overflow included:
`WrappingAdd` is the adder, bit by bit, and `MasksAddAsNumbers`, an assumption of
`MCCInterface` that TLC evaluates, says that it adds masks as the numbers they are.
`ScanChunk` is one turn of the loop of `scan_avx2_impl` and `scan_neon_impl`,
`SkipChunk` the turn over a chunk without quote or backslash inside a string, with
the jump of `memchr2`; what follows the last chunk (`TailLex`) and the brackets
(`ScanError`) belong to the step that ends the parse. The instructions that make a
mask are its definition.

`Scalars` has the bytes that its code tells apart: four hexadecimal digits, a
literal, a character of several bytes are one byte each; invalid UTF-8 is a byte
of its own. `ValidateSpan` keeps the hand-over from the vector loop to the scalar
one. `IMax` stands for the largest `i64`, and in the instance is small enough for the
limits of both integer types to lie among numbers of two digits; a float is the token
itself, infinite with the largest exponent. The mode is the parameter `skip`
(`skip_validation`).

### CInterface and LuaApi

| variable | code |
|---|---|
| `text`, `phase`, `i`, `in_string`, `bs_carry`, `indices` | `buf`, progress of `qjson_parse_ex`, the locals of the scanner, `Document::indices` |
| `eager`, `scratch`, `last_error_offset` | the fields of `Document` |
| `slot`, `iter`, `held` | what the client keeps: a `qjson_cursor`, a `qjson_iter`, a pointer and length |
| `ret` | the call and its return code and output |
| `doc` | the text with the values in it: for the properties only |

Every exported call is an action of its name, whole: forgetting the last offset,
the lookup, the type check, the value, the offset of a failure. What differs
between calls is kept, also where it looks unintended. `qjson_cursor_bytes` records
no offset. Neither does `qjson_iter_next` where it meets no entry (`NoEntry`), and
where an entry has neither a comma nor a closer behind it, it answers a parse error
after it has written its outputs. A failed string is reported one byte in, a failed
key at its quote. A text that lazy mode takes although its entries are not
those of an object is opened at the root, iterated over and asked for its bytes, and
for nothing else (`Parsed` against `Served`). A new cursor goes over the old one, as in a
client that passes its own cursor as the output. Allocation failure and panics are
left out; so is the second document a client might hold, as documents share nothing.

`LuaApi` is a method per action. The one `cur_box` of the module is `slot`; a
`Cursor` object holds a reference to it and is therefore known by the path it was
opened at only.

### KeepOrigin

A table is named for the call of `materialize` that made it and its node in the
source; `fields` are its contents, `origin` is `TABLE_ORIGIN`. `WriteLazy` and
`WriteSlot` change the lazy views before a call, `SetField` and `ClearField` the
plain tables after it, with leaves and with tables of the same or another call,
cycles included. `Matches` is the three mutually recursive `..._matches`
functions, `Encoded` is `encode`: what an encode returns is taken for what it
parses to, a repeated key twice. Order of keys, spelling of numbers and strings,
sparse array options, lazy proxies in plain tables and cdata are left out. `#` of
a table with holes is a border; only a table made of an empty array with no origin
is encoded by it, and the model and the reference take the same one.

## 3. Runs

| run | states | shows |
|---|---|---|
| `lazy_table` | 75 192 | the invariants below, on a document with a nested object, an array with a container element and a repeated key, four views, two writes |
| `eager_walk` | 1 100 293 | all texts up to six lexemes, spilling at the second container, depth limit 2 |
| `child_walk` | 206 666 | 65 JSON texts of up to two levels, every pairing of brackets and quotes in two to five marks with three fillings, and three longer texts in which a walk leaves its container |
| `c_interface` | 178 033 | the scan of 33 000 texts of up to nine bytes and of longer strings, every call on 56 documents in both modes, and iteration over three texts that are not JSON |
| `keep_origin` | 205 907 | two calls and two edits on an object, an array and an object with a repeated key |
| `slot_write_lost`, `duplicate_first_wins`, `loop_identity`, `loop_skips`, `proxy_in_plain`, `escaped_key`, `lua_cursors` | - | seven places where the code departs from its documentation |

`lazy_table` checks `DirtyUp` (a dirty view's lazy ancestors are dirty),
`CleanObjectPristine` (nothing below a clean object has changed), `OrderAgrees`
(key list and value map), `ReadIdentityStable` (a child handed out stays the
child), `ReadsArePure` (encode's result changes only by an assignment) and
`EncodeMatchesMaterialize` (the two agree for every table, in every history).
`TablesSpec` is the refinement of `OrderedTables`, call for call (`CallsMatch`):
`t.k = x` is `SetField` of the same table, key and value, `t[i] = x` is `SetIndex` of
the same table, index and value, and every other step, a read, a loop step, encode
or materialize, is `Seen`, in which no table changes. Decoding a level, order state,
the dirty chain and the conversion of an array are invisible, an assignment puts
its value in the one place it names, and containers come to light as tables with
what the document says, one per place, in any step. `FieldOf`, `KeysOf` and `ItemsOf`
are the mapping. Two things the specification
leaves open. What stands behind a repeated key is its last value until the object
has its order state, whatever the cache holds. And nil assigned to an
element that was read or overwritten, which Lua performs without the view, brings
the document's element back (`Restore`): the same cause as departure 1.
`EncodeMatchesMaterialize` excludes two states: `OverwrittenSlot`, a clean array
view with something in a slot that is not its own view of that element, and
`CachedDuplicate`, an object without order state that remembers a child for a
repeated key. The
runs `slot_write_lost` and `duplicate_first_wins` show that they are exactly
where the code goes wrong.

`eager_walk` checks `MirrorsScanner` (the stack is the scanner's bracket stack
with a frame of the right kind per container), `BottomInStep` (the final check
reads the right frame), `EagerWithinLazy` (both modes agree on depth),
`AcceptsExactlyJson` (against the grammar) and `StackSpec` (refinement).

`child_walk` checks, on JSON, `PathsLeadToChildren`, `CountsAreChildren` and
`IteratorInOrder` against the children of `ChildTree`, which are read off the
text without walking it; on every text `CacheHoldsWalks` (a slot is a whole walk
over its container), `LookupsTakeFirst` (the first match and no other, a miss
only without a match, for walk and cache alike), `WalksAdvance` and
`CallsReturn`.

`c_interface` checks of the scan `BoundaryAgrees` (between chunks the carried bits
and offsets are those of a byte by byte scan) and `ScannersAgree` (the vector
scanners and the one-pass scanner take the same texts with the same offsets, refuse
the same texts, and report the same place in those, except where a mismatch comes
before a string that never ends, `MismatchInOpenText`). Both except texts with a
backslash outside a string. See the departures for the two exceptions. Of the pure functions, `StringsMeanThat`
and `NumbersAreExact` compare validation and decoding with `ScalarGrammar`, on all
contents of up to three bytes, all sequences of up to three characters or escapes
and what is left of those with a byte lost or changed, and on all tokens of up to
four characters. Of the calls, `GettersAnswer` (the answer is what is written at
the path, from the root or from a cursor), `CursorAtPath`, `ErrorOffsetNamesValue`
(every call that fails leaves exactly the offset of `FailsAt`, or none where the
code records none: after a lookup from the root that leads nowhere and after an
iterator that meets no entry; a call that does not fail leaves none),
`EagerReportsFirstFlaw` (eager parsing takes a text just when all its strings, keys
and scalars are right, and names the first that is not), `HeldStringIntact` and
`ModesAgree` (what eager mode took reads the same with and without validation).

`keep_origin` checks `EncodeIsCurrent` (an encode is that of the contents as they
are, and an error just when they are too deep or cyclic) and `CopiedWhenUnchanged`
(a table is copied exactly when nothing in it differs from what was materialized;
so a table that is changed and restored is copied again). `EncodeIsCurrent`
excepts tables with a record from an overwritten slot (`Sound`): for these, the
hazard at `lua/qjson/table.lua:581`, no property speaks.

Bounds. In `c_interface`, `W = 4` stands for 64 bytes, and of the vector
validators' 32 or 16: it is even, as the code needs, and nine bytes hold two
chunks and a tail, thus every run of backslashes that fills a chunk and goes on;
`JumpMin = 8` for 4096 lets strings of eight to sixteen bytes be jumped through.
Documents are of one or two values, nested once. In `keep_origin`, two edits change
and restore, move and remove, or make a cycle; `MaxDepth = 3` is one more than the
sources are deep; lengths lie on both sides of the two thresholds.

Four views are the root and three children, enough for a parent, a
child, a grandchild and one child made twice; two writes let one write follow
another in every order relative to reads and loops; `MaxLen = 3` leaves room to
append to a two-element array; `Depth = 4` exceeds any nesting four views can
make. `Cap = 2` puts the document and one container in the array, so that four
lexemes spill, pop back and spill again; `MaxDepth = 2` lets six lexemes close
three nested containers, one more than allowed. (Seven lexemes, and a depth
limit of three, pass as well.) Two levels of JSON let a path step through two
caches; entries 0 and 1, and paths of at most two segments, let a second lookup
meet what the first one left; five marks hold one malformed child of every kind,
and the longer texts let one follow a good one.

Fairness. The library runs only when called. In `ChildWalk` a call is a loop
over marks the client may have made up, so that it returns is a property
(`CallsReturn`), under weak fairness of `Work`, the steps a call takes by itself:
the thread that made the call runs it to its end. Nothing is assumed of the
client. `LazyTable` and `EagerWalk` state no liveness: there a call is one step,
or a walk that moves to the next lexeme with every step, and deadlock checking
shows that it always has a next step until it returns. `ChunkScan` moves by a chunk with every step. `MCLazyTable` and
`MCKeepOrigin` disable the deadlock check because a client may stop, and the
bounded one must.

### Departures from the documentation

1. `slot_write_lost`: `local x = t[1]; t[1] = 5` on a container element is
   not seen by encode.
2. `duplicate_first_wins`: reading a repeated key first makes materialize
   return its first value.
3. `loop_identity`: a view from an ipairs loop is not the view `t[i]` gives.
4. `loop_skips`: clearing the current field in a loop over a written object
   skips the next field.
5. `proxy_in_plain`: materialize of a written array leaves proxies inside.
6. `escaped_key`: iteration hands out a key decoded, lookup compares it with the
   bytes of the source, so a key written with an escape is not found.

7. `lua_cursors`: a `Cursor` keeps a reference to the shared box, so opening
   another moves it: its methods then answer for the other value.

Met while modelling, without a run of their own:

* Outside strings a backslash is taken for an escape by the vector scanners, and a
  quote after it is passed over; the one-pass scanner takes it for a stray byte.
  `src/scan/avx2.rs:88-91` says "Outside a string backslashes are plain
  characters and bs_carry has no effect". No such text is JSON.
* Of a text with a mismatched bracket before a string that never ends, the vector
  scanners report the end and the one-pass scanner the bracket
  (`MismatchInOpenText`). `tests/scanner_crosscheck.rs:21-25` wants the same offset of
  both, of texts made of pieces in which every string ends: it cannot meet this case,
  and `ScannersAgree` says of such texts that both refuse them.
* A record of `keep_origin` pairs what was in an overwritten slot with the bytes
  that were there before, from the same cause as departure 1; encode then copies
  those bytes (`Sound`). A `false` in a slot is lost altogether (`Overwritten`).
* An assignment to an array whose elements do not all decode (a number out of
  range) raises after the dirty marks are made (`lua/qjson/table.lua:443-450`): the
  document, until then copied, can no longer be encoded.
* `qjson_iter_init` on a scalar records the offset of the next mark, or the
  sentinel, not of the value (`src/ffi.rs:1233-1236`).
* `qjson_get_bool` on a container or string at the root answers a parse error
  where `src/ffi.rs:555` announces a type mismatch.

Not a departure, as nothing is promised, but worth knowing: in lazy mode a
lookup past a key that is no string is refused, and after a lookup of an earlier
key has filled the cache the same lookup is answered, because the cached search
does not check keys (`BadKey` is in the walk only).

## 4. Proofs

For every document, set of views and number of writes, and every depth to which
results are compared:

* `DirtyReachesRoot`: `Spec => []DirtyUp`
* `CleanBytesStand`: `Spec => []CleanObjectPristine`
* `InvariantHolds`: `Spec => []IInv`
* `TablesWellFormed`: `Spec => []TypeOK`
* `OrderStateAgrees`: `Spec => []OrderAgrees`
* `IdentityStable`: `Spec => ReadIdentityStable`
* `LazyIsOrdered`: `Spec => TablesSpec`
* `EncodeAgrees`: `Spec => []EncodeMatchesMaterialize`
* `ReadsAreInvisible`: `Spec => ReadsArePure`

These are all the properties of `lazy_table`. Hardly one is inductive, and the
invariants build on one another:

`IInv` carries the first two. `DirtyUp` needs that `_parent` never changes
except to nil, that a new view's parent is lazy and allocated and a free table
is blank; `CleanObjectPristine` needs that a cached child points back to its
parent, so that any dirty child implies a dirty parent by `DirtyUp`, and that a
cached child was resolved with the first occurrence of its key. `IInv` is the
conjunction of the type facts, the two properties and the iterator's type (a
source loop fills the cache, and must run over an object). The proof has one
lemma for what allocation does (`WrapEffect`, from the injectivity of fresh
names in `NamesFresh`), one for the dirty chain (`ChainLemma`: the chain is
closed upwards and contains the written view; `MarkLemma`), one for a step seen
as allocation, marking and cache filling (`HeapStep`), and one per action.

`OrderInv` adds the types of the order state and `OrderAgrees`: `FirstOrderFacts`
says that the keys in order of first occurrence are those of the object, each
once, and `RemoveFacts` and `AppendFacts` what an assignment does to such a list.
`CacheOK` adds that a child cached, or put into a slot by a read, stands for the
element it was read from. `LinksOK` adds that whatever a table holds is allocated and
that no place is held twice before a client does so.

`TableInv` is the conjunction of these, and enough for the refinement. There, each
action is a set of sites at which it makes views (`Became`: a node in the place
became the view made there), a `Reading` of every table, in which nothing
else changed, and for the two assignments the entry replaced, added or removed
(`Assignment`). `ReadMatches` and `WritesMatch` match each call with its own action;
the number of writes tells assignments from the rest (`WritesCounted`). Putting and removing one entry of an ordered map are facts about sequences of their
own (`PutIs`, `RemoveIs`).

What encode and materialize return descends through the tables. `TextExists`,
`EncodedExists` and `MaterializedExists` show that the recursive functions are
defined; from then on only their equations are used, at the present state and at
the next. `Climb` (in `NumberSets`) is the induction: a set of depths that holds 0 and with every
depth the next one holds all, because a depth outside it would have a least one.
`AgreeBelow` is its step for `EncodeAgrees`: a table that is not clean is walked
alike by both, and of a clean one `CleanField` and `CleanElement` say that each
entry stands for the source value that encode copies (`StandsFor`: the value
itself, or a clean view of it, by `CleanBytesStand`). `StableBelow` is the step for
`ReadsAreInvisible`, with `PureMove`, what all steps but assignments have in common,
and `BecameText`: a view made by the step encodes as the node it was made for.
`PlainDetached` (a converted array has no parent left) serves both, and
`WritesCounted` tells assignments from the rest here too.

For every `STACK_CAP`, depth limit and text length:

* `StackHolds`, `FinalCheckReadsBottom`: `Spec => []BottomInStep`
* `TypesHold`: `Spec => []TypeOK`
* `SpillImplementsStack`: `Spec => StackSpec`
* `StackMirrorsScanner`: `Spec => []MirrorsScanner`
* `EagerImpliesLazy`: `Spec => []EagerWithinLazy`
* `EagerAcceptsJson`: `Spec => []AcceptsExactlyJson`

These are all the properties of `eager_walk`.

`BottomInStep` is not inductive: the array's bottom frame is stale after a
spill unless nothing changes the vector's bottom frame any more. `StackInv` says
why: whenever there is more than one frame, or the frames are in the vector, the
bottom one is already `TopDone`, and no step of the walk changes a `TopDone`.
That also rules out that the vector is ever popped empty. `SetLastFrames`,
`PushFrames` and `PopFrames` give the effect of each macro on `Frames`, in the
array, at the spill and in the vector; `StackStep` maps every action.

`MirrorsScanner` and `EagerWithinLazy` need `WalkInv`: with `StackInv` and the
types of the text (`TextInv`), that there is one frame more than containers are
open, that the frame at every height is of the kind of the bracket that is
innermost there (`OpenedBy` are the brackets of that height, the last of which
counts), and that nothing passed so far was too deep (`DepthInv`). Then a text
deeper than the limit has a place where the walk had to push beyond it, and
stopped.

`AcceptsExactlyJson` speaks of the end of the walk only. `GrammarInv` says it of
every step: the text is JSON just when its rest, from where the walk stands,
completes the frames (`Accepts`: places in the text where the frames end, the
inner before the outer, such that each frame's context is completed between two
of them, `Completes`). Each arm of the walk is then one rule of the grammar
(`ScalarRule`, `KeyRule`, `OpenRule`, `CommaRule`, `CloseRule`; `FailRule` for the
early returns), and moving on, pushing and popping are `MoveAccepts`,
`PushAccepts` and `PopAccepts`. At the start `Accepts` is the grammar itself; at
the end it is that only the document's frame is left, with its value
(`EndsAccept`), and then nothing is open, because the scanner's stack is as deep as
the text says (`OpenAppend`). That the trailing check rejects no JSON is
`JsonEnds`: whatever the grammar derives is balanced (`BalancedEverywhere`, by
`Climb` over the length), and in a container at the root nesting is back at zero
only at its end. The grammar is a recursive function on lengths;
`GrammarExists` shows that it is defined, from then on only its rules are used.

For every set of texts, bracketed as they may be, every path and every entry
number:

* `CacheTheorem`: `Spec => []CacheHoldsWalks`
* `FirstTheorem`: `Spec => LookupsTakeFirst`
* `ForwardTheorem`: `Spec => WalksAdvance`
* `PathsTheorem`: `Spec => []PathsLeadToChildren`
* `CountsTheorem`: `Spec => []CountsAreChildren`
* `IteratorTheorem`: `Spec => []IteratorInOrder`

These are all the safety properties of `child_walk`. What goes into the cache is right only because of what the walk has done so far.
`WalkInv` says that the children seen are a walk, where it goes on, and that it
has not begun when the container is empty; `FoundInv` that the match is the
first one among them, or that there is none; `CursorsOK` that every cursor a
client can hold is the root or the cursor of a value that has a span, so that its
end is where the walk ends (`CursorFacts`). `SpanFacts` gives what a span tells
of any text, and with it that a walk moves forward; `WalkAppend` and
`FirstMatchAppend` carry a walk and its match over one more child; `WalkedWhole`
shows that a walk that ends has seen everything. Each action is one lemma, and
`Returned`, `Descended`, `SlotAdded` and `IterKeepsCall` say what several share.

The last three theorems compare the answers with `Members`, which is read off the
brackets and commas of the whole text, while the walks only ever look at the
next mark. They speak of texts that are JSON, and `JsonAssumption` says what of
that is used: every container is closed, the one around the text by the last
mark, and has a value (in an object a key, a colon and a value), then a comma or a
closer, at its opener and at each comma of its own, or nothing in it at all.
`ChildNext` is the heart: the mark after the value of a child is at the level of
the container again, and no comma of its own lies in between, so that it is the
next comma or the closer (`InsideFacts` and `InsideStep` count brackets,
`ContainerFacts` gives the closer). With the ranks of `NumberSets` that makes the
walk's next child the next member (`MembersNext`), a whole walk, and so a slot of
the cache, the members (`WholeWalk`), and its first match the one a path follows
(`FollowFacts`). `TreeInv` adds to `IInv` what each call has come to: the path so
far leads to the present cursor (`PathInv` with `ComesTo`; `TrailExists` shows that
the recursive function behind `FollowAll` is defined), a count stands at the cursor
it was called with and has not passed the entry asked for (`CountInv`), and the
iterator belongs to an object (`IterInv`). `JsonChild` says of a walk on JSON that it
meets the next member and does not fail.

For every even chunk width, every length of text that makes a jump worthwhile and
every set of documents:

* `ScanAgrees`: `Spec => []BoundaryAgrees`
* `ScannersAreOne`: `Spec => []ScannersAgree`

These are the properties of the scan in `c_interface`. `ScanInv` is inductive: a scan
begins with nothing carried and nothing emitted, stays within the text, and wherever
it stands agrees with the byte by byte lexer there (`Agreed`). A chunk keeps that
because each of its masks means what the lexer does in its lanes. A run of
backslashes takes turns (`TakesTurns`, `RunParity`): whether the byte after it is
escaped is the parity of its length and whether its first one was. The addition
carries out of a run exactly behind it and exactly when its start is among the bits
added (`AddEnds`), so that `EscapeMask` is the lexer's `escaped` at every byte that is
no backslash (`MaskMeaning`, with the run the last chunk left over), and
`EscapeCarry` the one after the chunk (`CarryMeaning`). The prefix parity of the
unescaped quotes is the lexer's `open` (`InsideMeaning`), and the kept lanes in
ascending order are what it emits (`EmitAppend`, `ChunkEmits`). A chunk without quote
or backslash inside a string, and all that a jump passes over, changes neither
(`UneventfulBytes`); that the jump passes over nothing else, and lands a whole number
of chunks further, is `JumpLands`. At the tail, the lexer that starts with the carried
bits emits what the one that started with the text goes on to emit (`TailMeaning`).
`Abreast` then compares the two passes over brackets, byte by byte: the one over the
emitted offsets has matched what the single pass has, because of the bytes that are
not emitted none is a bracket outside a string (`AbreastNext`); the single pass also
stops at its first mismatch, and has lexed as much until then. The lexer and both
passes are recursive functions; `LexExists`, `OffsetExists` and `PassExists` show that
they are defined, from then on only their equations are used. Texts with a backslash
outside a string are excepted by the properties themselves (`EscapesInStrings`), for
the reason given under the departures.

For every even chunk width and every set of string contents, of any length:

* `StringsDecode`: `Spec => []StringsMeanThat`

The property does not look at the state; what is proved is that three passes over a
string agree, each of them recursive and each on its own terms: validation with its
hand-over from chunks to bytes, decoding, and the units that the grammar can read.
At each place all three look further on only (`LooksAhead`), so that they are
defined and have one solution (`SolutionExists`, `SolutionUnique`), and validation
from a place does not depend on where it began (`ValidEquation`). `EscapeForms` and
`ItemForms` say what stands at a place: the two escape parsers of the code, which
test in different orders, and the units of the grammar find the same escape or none.
`Places` puts the three next to one another, and `MeansAll` is the induction from the
end: it needs that no quote stands where the lexer does not escape, and that an
escape ends where it does not either (`SpanLexes`, `EscapeEndsOpen`, from the lexer's
own equations). `HandOver` adds that the chunks before the hand-over held nothing to
validate.

For every set of tokens, of any length, and every `IMax`, `2^63 - 1` among them:

* `NumbersExact`: `Spec => []NumbersAreExact`

This property does not look at the state either. The validator goes over a token once
and takes at each place all the digits there are, the grammar allows any split of it
into integer, fraction and exponent: `IntegerPart`, `FractionPart` and `ExponentPart`
show that a part which no digit follows is the one the validator takes, and
`ValidIsNumeral` that in a number none of the parts can be followed by one.
`NumeralBytes` has what the getters go by, the first byte and whether there is a point
or an exponent. The loop of `parse_i64` and `parse_u64` is then compared with the sum
of the digits, each by its power of ten, over the value of each prefix as an unbounded
number (`PrefixValues`): the loop has that value, or has stopped, and once a prefix is out
of range the whole is, because values only grow away from zero (`AccumulateIs`); and
prefix and rest always add up to the weighted sum (`MagnitudeIs`). That the recursive
functions exist is `StepsExist` and `StepsDownExist`.

The proofs assume the named assumptions on the constants, which TLC evaluates in
every run, and nothing else:

* `DocAssumption` of `LazyTable`: a well-formed document, a key for every value of an
  object, and no container in two places (it is one text); of `CInterface`, as far as
  it is used: a text is a finite sequence of bytes;
* `ScanAssumption`: a chunk has an even number of bytes, one at least, and a jump is
  not tried with less than a chunk left (64 and 4096 in the code);
* `SpanAssumption`: the content of a string is a sequence of bytes through which the
  scan stays inside the string, which is what a pair of offsets of one leaves;
* `ScalarAssumption`, `TokenAssumption`: the largest `i64` is a positive number, and
  `None`, which stands for no byte and no value, is neither an integer nor a byte;
* `HeapAssumption`, `NilAssumption`: scalars, containers, views and nil are
  different things, and nil is no table either;
* `DepthAssumption`: the depth to which results are compared is a number;
* `StackAssumption`: a capacity of at least one;
* `WalkAssumption`, `TextAssumption`, `CallAssumption`: texts are sequences of marks in
  which a lone mark is no opener (the scanner pairs them; nothing else of that is
  needed), calls have paths and numbers;
* `JsonAssumption`: a text marked as JSON has the shape above. It is what eager
  validation leaves (`EagerAcceptsJson`, in terms of lexemes), in terms of marks.

Only model-checked:

* `CallsReturn`, for which `WalksAdvance` is the safety half: a walk that only
  moves forward ends at its bound, but liveness under fairness is beyond the
  provers;
* of `c_interface`, all properties but those of the scan, of strings and of numbers:
  they compare the answers with values that the documents of the instance list next
  to their texts, and hold only of documents listed rightly;
* all properties of `keep_origin`: three mutually recursive walks over tables that
  may be cyclic, against a reference that is recursive over them too.

## 5. Not modelled, and the plan

Not modelled: error text (`src/error.rs`, formatting only), the loader (pure
I/O), the vector instructions themselves, the rounding of floats (the standard
library's), texts of 4 GiB and more (offsets are `u32`), the panic barrier beyond
the faults of `ChildWalk`, and of the encoder the spelling of values and the options
for sparse arrays.

Left of the plan, in this order:

1. `keep_origin` over views that were read and written before, with `LazyTable`'s
   heap instead of `slot` and `dirty`.
