------------------------------ MODULE CInterface ------------------------------
(***************************************************************************)
(* The C interface (src/ffi.rs, src/doc.rs): a document is parsed, by the  *)
(* scan of ChunkScan and in eager mode the validation of its strings and   *)
(* scalars, then asked for values by path, from the root or from a cursor, *)
(* and freed.  One document is alive at a time, and the client keeps one   *)
(* cursor, one iterator and the last string it was given.                  *)
(*                                                                         *)
(* Lookups are taken at their specification: ChildWalk models the walk and *)
(* the skip cache.  Of a text that only lazy mode takes, since its entries *)
(* are not those of an object, the client opens the root and iterates over *)
(* it.  Depth limits and what eager mode makes of such texts is EagerWalk. *)
(***************************************************************************)
EXTENDS Scalars

CONSTANTS
    Paths,      \* the paths asked for
    Docs,       \* texts with the values written in them (none: a text to scan), and
                \* whether brackets, commas, colons and keys are where JSON has them
    Sentinel    \* the offset that ends indices: u32::MAX in the code

ASSUME DocAssumption ==
    \A d \in Docs :
        /\ d.text \in Seq(Range(d.text)) /\ Len(d.text) < Sentinel /\ d.json \in BOOLEAN
        /\ \A v \in d.values : v.start < v.end /\ v.end <= Len(d.text)
        /\ \A v, w \in d.values : v.path = w.path => v = w

VARIABLES
    doc,        \* the member of Docs whose text is parsed
    eager,      \* the mode; eager_validated of the document
    scratch,    \* buffer of decoded strings
    last_error_offset,  \* None: QJSON_NO_OFFSET
    slot,       \* the client's qjson_cursor, with the path it stands at, or None
    iter,       \* the client's qjson_iter, with the object's path, or None
    held,       \* the last string returned: its characters and where they are, or None
    ret         \* the last call

docVars == <<doc, eager, scratch, last_error_offset>>
clientVars == <<slot, iter, held, ret>>
vars == <<scanVars, docVars, clientVars>>

\* Function and argument, the path of the cursor it was given (None: the root)
\* and the path asked for from there, return code and value.
Returned(fn, n, base, path, r) ==
    [fn |-> fn, n |-> n, base |-> base, path |-> path, rc |-> r.rc, val |-> r.val]

-----------------------------------------------------------------------------
(* Marks: the bytes at indices, counted from 0.                             *)

Pos(k) == indices[k + 1]
MarkAt(k) == ByteAt(text, Pos(k))
LastMark == Len(indices) - 1
Blank(p) == ByteAt(text, p) = " "
NonBlankFrom(p) == Min({q \in p..Len(text) : ~Blank(q)})
Trimmed(from, upto) == Max({from} \cup {p \in from + 1..upto : ~Blank(p - 1)})

Cursor(s, e) == [start |-> s, end |-> e]
Root == Cursor(0, IF LastMark = 0 THEN 1 ELSE LastMark - 1)

Depth(k, j) ==
    Cardinality({m \in k..j : MarkAt(m) \in Openers})
      - Cardinality({m \in k..j : MarkAt(m) \in Brackets \ Openers})

\* find_value_span on a well-formed text: the value at mark k.
ValueAt(k) ==
    CASE MarkAt(k) \in Openers -> Cursor(k, Min({j \in k + 1..LastMark : Depth(k, j) = 0}))
      [] OTHER -> Cursor(k, k + 1)

\* The marks at which the members of the container at c begin, in order.
Members(c) ==
    LET commas == {k \in c.start + 1..c.end - 1 : MarkAt(k) = "," /\ Depth(c.start, k) = 1}
    IN  IF NonBlankFrom(Pos(c.start) + 1) = Pos(c.end) THEN <<>>
        ELSE SetToSortSeq({k + 1 : k \in commas \cup {c.start}}, <)

KeySpan(k) == Sub(text, Pos(k) + 1, Pos(k + 1))
MemberValue(c, k) == ValueAt(IF MarkAt(c.start) = "{" THEN k + 3 ELSE k)

\* One step of Cursor::resolve, and the whole of it: the child, or an error.
Step(c, seg) ==
    LET m == Members(c)
        hits == {k \in DOMAIN m : IF seg.kind = "key" THEN KeySpan(m[k]) = seg.name ELSE k = seg.n + 1}
    IN  CASE MarkAt(c.start) # (IF seg.kind = "key" THEN "{" ELSE "[") -> Fails("type_mismatch")
          [] OTHER -> IF hits = {} THEN Fails("not_found") ELSE Value(MemberValue(c, m[Min(hits)]))

Resolve(c, path) ==
    FoldLeft(LAMBDA r, seg : IF r.rc = "ok" THEN Step(r.val, seg) ELSE r, Value(c), path)

-----------------------------------------------------------------------------
(* What the getters read.                                                   *)

IsRootScalar(c) == c.start = 0 /\ LastMark = 0

\* A slip the runs rule out: a scalar begins at the mark before it.
ScalarStartAtMark(c) ==
    CASE IsRootScalar(c) -> NonBlankFrom(0)
      [] ~IsRootScalar(c) /\ c.start = 0 -> None
      [] OTHER -> Pos(c.start - 1)

\* The first byte of the scalar before mark c.start; None is a parse error.
ScalarStart(c) ==
    CASE IsRootScalar(c) -> NonBlankFrom(0)
      [] ~IsRootScalar(c) /\ c.start = 0 -> None
      [] OTHER -> NonBlankFrom(Pos(c.start - 1) + 1)

ScalarRange(c) ==
    LET s == ScalarStart(c)
        e == IF IsRootScalar(c) THEN Len(text) ELSE Pos(c.start)
    IN  IF s = None \/ e < s THEN Fails("parse_error") ELSE Value(<<s, Trimmed(s, e)>>)

TypeOf(c) ==
    LET first == ScalarStart(c)
    IN  CASE MarkAt(c.start) = Quote -> Value("str")
          [] MarkAt(c.start) = "{" -> Value("obj")
          [] MarkAt(c.start) = "[" -> Value("arr")
          [] OTHER -> IF ScalarType(ByteAt(text, first)) = None THEN Fails("parse_error")
                      ELSE Value(ScalarType(ByteAt(text, first)))

IsNull(c) == LET t == TypeOf(c) IN IF t.rc = "ok" THEN Value(t.val = "null") ELSE t

CursorLen(c) ==
    IF MarkAt(c.start) \in Openers THEN Value(Len(Members(c))) ELSE Fails("type_mismatch")

\* The bytes of a scalar, through Parse.
OfScalar(c, Parse(_)) ==
    LET r == ScalarRange(c)
    IN  IF r.rc = "ok" THEN Parse(Sub(text, r.val[1], r.val[2])) ELSE r

OfNumber(c, Parse(_)) ==
    CASE TypeOf(c).rc # "ok" -> TypeOf(c)
      [] TypeOf(c).rc = "ok" /\ TypeOf(c).val # "num" -> Fails("type_mismatch")
      [] OTHER -> OfScalar(c, Parse)

GetI64(c, skip) == OfNumber(c, LAMBDA b : ParseI64(b, skip))
GetU64(c, skip) == OfNumber(c, LAMBDA b : ParseU64(b, skip))
GetF64(c, skip) == OfScalar(c, LAMBDA b : ParseF64(b, skip))
GetBool(c) ==
    OfScalar(c, LAMBDA b : IF b \in {<<"true">>, <<"false">>} THEN Value(b = <<"true">>)
                           ELSE Fails("type_mismatch"))

\* Bytes start..end - 1 of the value.
CursorBytes(c) ==
    CASE IsRootScalar(c) -> ScalarRange(c)
      [] ~IsRootScalar(c) /\ MarkAt(c.start) \in Openers \cup {Quote} ->
            IF Pos(c.end) >= Len(text) THEN Fails("parse_error")
            ELSE Value(<<Pos(c.start), Pos(c.end) + 1>>)
      [] OTHER -> IF MarkAt(c.start) = None THEN Fails("parse_error") ELSE ScalarRange(c)

\* A slip the runs rule out: the mark stands for the value also when it is a scalar.
ValueStartOfMark(c) == IF IsRootScalar(c) THEN ScalarStart(c) ELSE Pos(c.start)

\* cursor_value_start_offset
ValueStart(c) ==
    CASE IsRootScalar(c) -> ScalarStart(c)
      [] ~IsRootScalar(c) /\ MarkAt(c.start) \in Openers \cup {Quote} -> Pos(c.start)
      [] OTHER -> IF MarkAt(c.start) = None THEN None ELSE ScalarStart(c)

-----------------------------------------------------------------------------
(* Parsing and freeing.                                                     *)

Init ==
    /\ text = <<>> /\ phase = "idle" /\ i = 0 /\ in_string = FALSE /\ bs_carry = {} /\ indices = <<>>
    /\ doc = None /\ eager = FALSE /\ scratch = <<>> /\ last_error_offset = None
    /\ slot = None /\ iter = None /\ held = None /\ ret = None

\* qjson_parse_ex, as far as the scan.  A text without a value is refused at once.
qjson_parse_ex(d, mode) ==
    /\ text' = d.text /\ doc' = d /\ eager' = mode
    /\ IF Range(d.text) \subseteq {" "}
       THEN phase' = "failed" /\ ret' = Returned("parse", None, None, <<>>, Fails("parse_error"))
       ELSE phase' = "scan" /\ ret' = None
    /\ UNCHANGED <<i, in_string, bs_carry, indices, scratch, last_error_offset, slot, iter, held>>

\* Texts whose values are not known are only scanned: lazily.
qjson_parse == phase = "idle" /\ \E d \in {e \in Docs : e.values # {} /\ e.json} : qjson_parse_ex(d, TRUE)
qjson_parse_lazy == phase = "idle" /\ \E d \in Docs : qjson_parse_ex(d, FALSE)

\* What eager mode validates, by where it stands: strings by their opening quote,
\* scalars by their first byte.  m are the marks.
Checked(at, rc) == [at |-> at, rc |-> rc]
Opening(m) == {k \in DOMAIN m : text[m[k] + 1] = Quote
                                  /\ Cardinality({j \in 1..k : text[m[j] + 1] = Quote}) % 2 = 1}
StringChecks(m) == {Checked(m[k], ValidateSpan(Sub(text, m[k] + 1, m[k + 1]))) : k \in Opening(m)}
ScalarChecks(m) ==
    LET from(k) == NonBlankFrom(IF k = 1 THEN 0 ELSE m[k - 1] + 1)
        upto(k) == IF k > Len(m) THEN Len(text) ELSE m[k]
        gaps == {k \in 1..Len(m) + 1 : from(k) < upto(k) /\ k - 1 \notin Opening(m)}
    IN  {Checked(from(k), ValidateScalar(Sub(text, from(k), Trimmed(from(k), upto(k))))) : k \in gaps}
Wrong(m) == {c \in StringChecks(m) \cup ScalarChecks(m) : c.rc # "ok"}

\* A slip the runs rule out: all strings are validated before the scalars.
StringsFirst(m) ==
    LET s == {c \in Wrong(m) : c \in StringChecks(m)}
        among == IF s # {} THEN s ELSE Wrong(m)
    IN  CHOOSE c \in among : \A e \in among : c.at <= e.at

FirstWrong(m) == CHOOSE c \in Wrong(m) : \A e \in Wrong(m) : c.at <= e.at

\* The rest of parse_with_options_detailed.
ParseFails(rc, offset) ==
    /\ phase' = "failed"
    /\ ret' = Returned("parse", None, None, <<>>, [rc |-> rc, val |-> offset])
    /\ UNCHANGED <<text, i, in_string, bs_carry, indices, docVars, slot, iter, held>>
ScanFails == AtTail /\ ScanError # None /\ ParseFails("parse_error", ScanError)
EagerFails ==
    /\ AtTail /\ ScanError = None /\ eager /\ Wrong(Scanned) # {}
    /\ ParseFails(FirstWrong(Scanned).rc, FirstWrong(Scanned).at)
ParseSucceeds ==
    /\ AtTail /\ ScanError = None
    /\ eager => Wrong(Scanned) = {}
    /\ phase' = "open" /\ indices' = Append(Scanned, Sentinel)
    /\ UNCHANGED <<text, i, in_string, bs_carry, docVars, clientVars>>

\* qjson_free; of what a failed parse returned it is a no-op.  The client lets go
\* of what pointed into the document.
qjson_free ==
    /\ phase \in {"open", "failed"}
    /\ text' = <<>> /\ phase' = "idle" /\ i' = 0 /\ in_string' = FALSE /\ bs_carry' = {} /\ indices' = <<>>
    /\ doc' = None /\ eager' = FALSE /\ scratch' = <<>> /\ last_error_offset' = None
    /\ slot' = None /\ iter' = None /\ held' = None /\ ret' = None

-----------------------------------------------------------------------------
(* Calls.                                                                   *)

Parsed == phase = "open" /\ doc.values # {}
Served == Parsed /\ doc.json
Unmoved == UNCHANGED <<scanVars, doc, eager>>

\* Every call forgets the last error offset first, and a failing one records where
\* the value stands that it failed on, or, when the path leads nowhere, the value
\* it was followed from; from the root it records nothing then.
Answer(fn, base, p, r, g) ==
    /\ ret' = Returned(fn, None, base, p, g)
    /\ last_error_offset' = CASE g.rc = "ok" -> None
                              [] r.rc # "ok" -> IF base = None THEN None ELSE ValueStart(slot.cur)
                              [] OTHER -> ValueStart(r.val)
FromRoot(fn, p, Get(_)) ==
    LET r == Resolve(Root, p)
        g == IF r.rc = "ok" THEN Get(r.val) ELSE r
    IN  /\ Served
        /\ Answer(fn, None, p, r, g)
        /\ Unmoved /\ UNCHANGED <<scratch, slot, iter, held>>
FromSlot(fn, p, Get(_)) ==
    LET r == Resolve(slot.cur, p)
        g == IF r.rc = "ok" THEN Get(r.val) ELSE r
    IN  /\ Served /\ slot # None
        /\ Answer(fn, slot.path, p, r, g)
        /\ Unmoved /\ UNCHANGED <<scratch, slot, iter, held>>

qjson_typeof(p) == FromRoot("typeof", p, TypeOf)
qjson_is_null(p) == FromRoot("is_null", p, IsNull)
qjson_len(p) == FromRoot("len", p, CursorLen)
qjson_get_i64(p) == FromRoot("get_i64", p, LAMBDA c : GetI64(c, eager))
qjson_get_u64(p) == FromRoot("get_u64", p, LAMBDA c : GetU64(c, eager))
qjson_get_f64(p) == FromRoot("get_f64", p, LAMBDA c : GetF64(c, eager))
qjson_get_bool(p) == FromRoot("get_bool", p, GetBool)
qjson_cursor_typeof(p) == FromSlot("typeof", p, TypeOf)
qjson_cursor_len(p) == FromSlot("len", p, CursorLen)
qjson_cursor_get_i64(p) == FromSlot("get_i64", p, LAMBDA c : GetI64(c, eager))
qjson_cursor_get_u64(p) == FromSlot("get_u64", p, LAMBDA c : GetU64(c, eager))
qjson_cursor_get_f64(p) == FromSlot("get_f64", p, LAMBDA c : GetF64(c, eager))
qjson_cursor_get_bool(p) == FromSlot("get_bool", p, GetBool)

\* Records no offset, whatever it answers.
qjson_cursor_bytes ==
    /\ Parsed /\ slot # None
    /\ ret' = Returned("bytes", None, slot.path, <<>>, CursorBytes(slot.cur))
    /\ last_error_offset' = None
    /\ Unmoved /\ UNCHANGED <<scratch, slot, iter, held>>

\* The cursor goes where the client keeps its one, also over the one it came from.
Located(base, p) == (IF base = None THEN <<>> ELSE base) \o p
Opens(fn, base, p, r) ==
    /\ Answer(fn, base, p, r, IF r.rc = "ok" THEN Value(None) ELSE r)
    /\ slot' = IF r.rc = "ok" THEN [path |-> Located(base, p), cur |-> r.val] ELSE slot
    /\ Unmoved /\ UNCHANGED <<scratch, iter, held>>
qjson_open(p) == Parsed /\ (doc.json \/ p = <<>>) /\ Opens("open", None, p, Resolve(Root, p))
qjson_cursor_open(p) == Served /\ slot # None /\ Opens("open", slot.path, p, Resolve(slot.cur, p))
\* A slip the runs rule out: the field is looked for from the root.
FieldFromRoot(seg) ==
    Served /\ seg.kind = "key" /\ slot # None /\ Opens("open", slot.path, <<seg>>, Step(Root, seg))
qjson_cursor_field(seg) ==
    Served /\ seg.kind = "key" /\ slot # None /\ Opens("open", slot.path, <<seg>>, Step(slot.cur, seg))
qjson_cursor_index(seg) ==
    Served /\ seg.kind = "idx" /\ slot # None /\ Opens("open", slot.path, <<seg>>, Step(slot.cur, seg))

\* A NULL where the result should go, or no document.
NullArgument ==
    /\ phase = "idle" \/ Parsed
    /\ ret' = Returned("null", None, None, <<>>, Fails("invalid_arg"))
    /\ last_error_offset' = None
    /\ Unmoved /\ UNCHANGED <<scratch, slot, iter, held>>

-----------------------------------------------------------------------------
(* Calls that return a string: the text's own bytes, or those in scratch.   *)

StringAt(k) == DecodeString(KeySpan(k), eager, scratch)
Takes(d) ==
    /\ scratch' = d.scratch
    /\ held' = IF d.rc = "ok" THEN [val |-> d.val, place |-> d.place] ELSE held

\* The string at r, a value found or an error; a string that does not decode is
\* reported one byte in.
GivesString(base, p, r) ==
    LET found == r.rc = "ok" /\ MarkAt(r.val.start) = Quote
        d == StringAt(r.val.start)
    IN  /\ Served
        /\ IF found THEN /\ ret' = Returned("get_str", None, base, p, d)
                         /\ last_error_offset' = IF d.rc = "ok" THEN None ELSE Pos(r.val.start) + 1
                         /\ Takes(d)
           ELSE /\ Answer("get_str", base, p, r, IF r.rc = "ok" THEN Fails("type_mismatch") ELSE r)
                /\ UNCHANGED <<scratch, held>>
        /\ Unmoved /\ UNCHANGED <<slot, iter>>
qjson_get_str(p) == GivesString(None, p, Resolve(Root, p))
qjson_cursor_get_str(p) == slot # None /\ GivesString(slot.path, p, Resolve(slot.cur, p))

KeySeg(k) == [kind |-> "key", name |-> KeySpan(k), n |-> 0]

\* The member at mark k of the object at o goes to the client: the key as a string,
\* the value to the client's cursor.  A key that does not decode goes nowhere; one
\* that does goes to the client also when rc is an error.
GivesMember(fn, n, path, o, k, rc, NextIter) ==
    LET d == StringAt(k)
        given == d.rc = "ok"
    IN  /\ ret' = Returned(fn, n, path, <<>>, [rc |-> IF given THEN rc ELSE d.rc, val |-> d.val])
        /\ last_error_offset' = IF given THEN None ELSE Pos(k)
        /\ Takes(d)
        /\ slot' = IF given THEN [path |-> Append(path, KeySeg(k)), cur |-> MemberValue(o, k)] ELSE slot
        /\ iter' = IF given THEN NextIter ELSE iter
        /\ Unmoved

\* A failing call that leaves all but the offset alone.
Refuses(fn, n, path, rc, offset) ==
    /\ ret' = Returned(fn, n, path, <<>>, Fails(rc))
    /\ last_error_offset' = offset
    /\ Unmoved /\ UNCHANGED <<scratch, slot, iter, held>>

qjson_cursor_object_entry_at(n) ==
    LET c == slot.cur
        is_obj == MarkAt(c.start) = "{"
    IN  /\ Served /\ slot # None
        /\ \/ /\ is_obj /\ n < Len(Members(c))
              /\ GivesMember("entry_at", n, slot.path, c, Members(c)[n + 1], "ok", iter)
           \/ is_obj /\ n >= Len(Members(c)) /\ Refuses("entry_at", n, slot.path, "not_found", ValueStart(c))
           \/ ~is_obj /\ Refuses("entry_at", n, slot.path, "type_mismatch", ValueStart(c))

\* For a scalar the offset is not the value's but that of the mark after it.
qjson_iter_init ==
    LET c == slot.cur
        empty == NonBlankFrom(Pos(c.start) + 1) = Pos(c.end)
    IN  /\ Parsed /\ slot # None
        /\ \/ /\ MarkAt(c.start) = "{"
              /\ iter' = [path |-> slot.path, obj |-> c, seen |-> 0,
                          current |-> IF empty THEN c.end ELSE c.start + 1]
              /\ ret' = Returned("iter_init", None, slot.path, <<>>, Value(None))
              /\ last_error_offset' = None
              /\ Unmoved /\ UNCHANGED <<scratch, slot, held>>
           \/ MarkAt(c.start) # "{" /\ Refuses("iter_init", None, slot.path, "type_mismatch", Pos(c.start))

\* The mark behind the value at mark k (skip_end of find_value_span).
MarkAfter(k) ==
    CASE MarkAt(k) \in Openers \cup {Quote} -> ValueAt(k).end + 1
      [] OTHER -> k

\* At mark k there is no key between quotes with a colon, a value and a mark behind it.
NoEntry(k) == MarkAt(k) # Quote \/ MarkAt(k + 1) # Quote \/ MarkAt(k + 2) # ":" \/ MarkAt(MarkAfter(k + 3)) = None

\* The iterator goes on behind the comma after the value, or to its end.  What is no
\* entry fails; what is one, but with neither a comma nor the object's end behind
\* it, fails when the client has been given it.
qjson_iter_next ==
    LET k == iter.current
        n == iter.seen
        after == MarkAfter(k + 3)
        next == [iter EXCEPT !.seen = @ + 1, !.current = IF MarkAt(after) = "," THEN after + 1 ELSE iter.obj.end]
    IN  /\ Parsed /\ iter # None
        /\ \/ k >= iter.obj.end /\ Refuses("iter_next", n, iter.path, "not_found", None)
           \/ k < iter.obj.end /\ NoEntry(k) /\ Refuses("iter_next", n, iter.path, "parse_error", None)
           \/ /\ k < iter.obj.end /\ ~NoEntry(k) /\ MarkAt(after) \in {",", "}"}
              /\ GivesMember("iter_next", n, iter.path, iter.obj, k, "ok", next)
           \/ /\ k < iter.obj.end /\ ~NoEntry(k) /\ MarkAt(after) \notin {",", "}"}
              /\ GivesMember("iter_next", n, iter.path, iter.obj, k, "parse_error", iter)

-----------------------------------------------------------------------------
Segs == {p[1] : p \in {q \in Paths : Len(q) = 1}}

Parse == qjson_parse \/ qjson_parse_lazy \/ ScanFails \/ EagerFails \/ ParseSucceeds
Ask(p) ==
    \/ qjson_typeof(p) \/ qjson_is_null(p) \/ qjson_len(p) \/ qjson_get_str(p) \/ qjson_get_i64(p)
    \/ qjson_get_u64(p) \/ qjson_get_f64(p) \/ qjson_get_bool(p) \/ qjson_open(p)
AskCursor(p) ==
    \/ qjson_cursor_typeof(p) \/ qjson_cursor_len(p) \/ qjson_cursor_get_str(p) \/ qjson_cursor_get_i64(p)
    \/ qjson_cursor_get_u64(p) \/ qjson_cursor_get_f64(p) \/ qjson_cursor_get_bool(p) \/ qjson_cursor_open(p)
Walk ==
    \/ \E s \in Segs : qjson_cursor_field(s) \/ qjson_cursor_index(s)
    \/ \E n \in 0..2 : qjson_cursor_object_entry_at(n)
    \/ qjson_iter_init \/ qjson_iter_next
Next ==
    \/ Parse
    \/ (SkipChunk \/ ScanChunk) /\ UNCHANGED <<docVars, clientVars>>
    \/ qjson_free \/ NullArgument
    \/ \E p \in Paths : Ask(p) \/ AskCursor(p)
    \/ qjson_cursor_bytes \/ Walk

Spec == Init /\ [][Next]_vars

=============================================================================
