---------------------------- MODULE InterfaceSpec ----------------------------
(***************************************************************************)
(* What the calls of CInterface must answer, by the values as they were    *)
(* written: path, first byte and byte after the last, type, whether the    *)
(* value is well formed (ok), and what it is (val).  For an object, keys   *)
(* are its keys, in order, each with its opening quote; where the text is  *)
(* not JSON, those of its entries that come before the first flaw.         *)
(***************************************************************************)
EXTENDS CInterface, ScalarGrammar

Asked == Located(ret.base, ret.path)
At(path) == {v \in doc.values : v.path = path}

Has(can, is) == [can |-> can, is |-> is]
Fits(v, lo, hi) == v.type = "num" /\ v.ok /\ v.val # None /\ v.val \in lo..hi

\* Whether the call has an answer on value v, and which.
Expected(fn, v) ==
    CASE fn = "typeof" -> Has(TRUE, v.type)
      [] fn = "is_null" -> Has(TRUE, v.type = "null")
      [] fn = "len" -> Has(v.type \in {"arr", "obj"}, v.val)
      [] fn = "get_str" -> Has(v.type = "str" /\ v.ok, v.val)
      [] fn = "get_i64" -> Has(Fits(v, -IMax - 1, IMax), v.val)
      [] fn = "get_u64" -> Has(Fits(v, 0, 2 * IMax + 1) /\ ByteAt(doc.text, v.start) # "-", v.val)
      [] fn = "get_f64" -> Has(v.type = "num" /\ v.ok /\ ~v.big, Sub(doc.text, v.start, v.end))
      [] fn = "get_bool" -> Has(v.type = "bool" /\ v.ok, v.val)
      [] fn = "bytes" -> Has(TRUE, <<v.start, v.end>>)
      [] fn = "open" -> Has(TRUE, None)
      [] fn = "iter_init" -> Has(v.type = "obj", None)
      [] fn \in {"entry_at", "iter_next"} ->
            IF v.type = "obj" /\ ret.n < Len(v.keys)
            THEN Has(v.keys[ret.n + 1].ok, v.keys[ret.n + 1].val) ELSE Has(FALSE, None)

\* A type a getter sees in a malformed token is by its first byte alone.
Exempt(v) == ret.fn \in {"typeof", "is_null"} /\ v.type = "bad"

\* Every getter answers, from the root or a cursor, what was written at the path,
\* just when there is such a value there; whatever was asked before.
GettersAnswer ==
    Parsed /\ ret # None /\ ret.fn # "null" =>
        /\ At(Asked) = {} => ret.rc \in {"not_found", "type_mismatch"}
        /\ \A v \in At(Asked) :
              Exempt(v) \/ /\ (ret.rc = "ok") = Expected(ret.fn, v).can
                           /\ ret.rc = "ok" => ret.val = Expected(ret.fn, v).is

\* The client's cursor is at the value its path leads to.
CursorAtPath ==
    Parsed /\ slot # None => \E v \in At(slot.path) : CursorBytes(slot.cur).val = <<v.start, v.end>>

\* Where the last error offset of a call stands that fails on the value v: at the
\* key it could not decode, one byte into a string, at the mark after a scalar that
\* was to be iterated over, else at v.  An iterator that meets no entry records none.
FailingKey == ret.n + 1
NextMark(v) == IF v.path = <<>> THEN Sentinel ELSE NonBlankFrom(v.end)
FailsAt(v) ==
    CASE ret.fn = "get_str" /\ v.type = "str" -> v.start + 1
      [] ret.fn \in {"entry_at", "iter_next"} /\ v.type = "obj" /\ FailingKey \in DOMAIN v.keys -> v.keys[FailingKey].start
      [] ret.fn = "iter_next" /\ FailingKey \notin DOMAIN v.keys -> None
      [] ret.fn = "iter_init" /\ v.type \notin {"str", "arr", "obj"} -> NextMark(v)
      [] OTHER -> v.start

\* A call that fails on a value records where that value stands, as FailsAt says.
\* One whose path leads nowhere records where the value stands it was followed from,
\* and nothing if that was the root.  No other call leaves an offset.
ErrorOffsetNamesValue ==
    Parsed /\ ret # None =>
        /\ ret.rc = "ok" \/ ret.fn = "null" => last_error_offset = None
        /\ ret.rc # "ok" /\ ret.fn # "null" =>
              /\ \A v \in At(Asked) : last_error_offset = FailsAt(v)
              /\ At(Asked) = {} /\ ret.base = None => last_error_offset = None
              /\ At(Asked) = {} /\ ret.base # None => \A v \in At(ret.base) : last_error_offset = v.start

\* Eager mode takes a text just when every string, key and scalar in it is right,
\* and reports the first that is not.
Flaws == {v.start : v \in {w \in doc.values : ~w.ok}}
         \cup UNION {{v.keys[k].start : k \in {j \in DOMAIN v.keys : ~v.keys[j].ok}} :
                     v \in {w \in doc.values : w.type = "obj"}}
EagerReportsFirstFlaw ==
    doc # None /\ eager =>
        /\ phase = "open" => Flaws = {}
        /\ phase = "failed" => Flaws # {} /\ ret.val = Min(Flaws)

\* A string the client still holds is not disturbed by calls that fail or return
\* no string.
HeldStringIntact == held # None /\ held.place = "scratch" => scratch = held.val

\* On what eager mode takes, the getters that leave out validation answer what
\* those of a lazy document do.
ModesAgree ==
    Served /\ eager /\ ret = None =>
        \A v \in doc.values :
            LET c == Resolve(Root, v.path).val
            IN  /\ GetI64(c, TRUE) = GetI64(c, FALSE)
                /\ GetU64(c, TRUE) = GetU64(c, FALSE)
                /\ GetF64(c, TRUE) = GetF64(c, FALSE)
                /\ v.type = "str" => DecodeString(KeySpan(c.start), TRUE, <<>>) = DecodeString(KeySpan(c.start), FALSE, <<>>)
=============================================================================
