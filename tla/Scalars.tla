-------------------------------- MODULE Scalars --------------------------------
(***************************************************************************)
(* Strings and numbers: what eager parsing and lazy access validate        *)
(* (src/validate/strings, src/validate/number.rs) and what the getters     *)
(* decode (src/decode).  Four hexadecimal digits, a literal and a          *)
(* character of several bytes are one byte here.                           *)
(***************************************************************************)
EXTENDS ChunkScan

CONSTANTS
    IMax    \* largest i64; the largest u64 is 2 * IMax + 1

ASSUME ScalarAssumption == IMax \in Nat \ {0} /\ None \notin Int

\* The bytes from..upto - 1, those there are.
Sub(s, from, upto) == SubSeq(s, from + 1, Min({upto, Len(s)}))

-----------------------------------------------------------------------------
(* Strings.                                                                 *)

\* The letters of the short escapes, and quads of hexadecimal digits: a
\* character and the halves of a surrogate pair; and what they stand for.
Short == [l \in {Quote, Backslash, "n"} |-> IF l = "n" THEN "newline" ELSE l]
High == "d83d"
Low == "de00"
Plane0 == [quad \in {"00e9"} |-> "eacute"]
Astral == "emoji"
Control == "ctl"        \* a byte below 0x20
BadUtf8 == "bad8"
Wide == "utf8"          \* a character of several bytes
Watched == {Backslash, Control, BadUtf8, Wide}

\* validate_escape: where the escape whose letter is at p ends, or None.
EscapeEnd(s, p) ==
    LET quad == ByteAt(s, p + 1)
    IN  CASE ByteAt(s, p) \in DOMAIN Short -> p + 1
          [] ByteAt(s, p) = "u" /\ quad \in DOMAIN Plane0 -> p + 2
          [] ByteAt(s, p) = "u" /\ quad = High /\ Sub(s, p + 2, p + 5) = <<Backslash, "u", Low>> -> p + 5
          [] OTHER -> None

\* validate_span_scalar: the first thing wrong from p on decides.
ValidateFrom(s, from) ==
    LET at[p \in from..Len(s)] ==
            LET end == EscapeEnd(s, p + 1)
            IN  CASE p = Len(s) -> "ok"
                  [] ByteAt(s, p) = Control -> "invalid_string"
                  [] ByteAt(s, p) = BadUtf8 -> "invalid_utf8"
                  [] ByteAt(s, p) = Backslash -> IF end = None THEN "invalid_string" ELSE at[end]
                  [] OTHER -> at[p + 1]
    IN  at[from]

\* A slip the runs rule out: what follows the last whole chunk is not validated.
ValidateSpanOfChunks(s) ==
    LET hits == {p \in 0..Len(s) - (Len(s) % W) - 1 : ByteAt(s, p) \in Watched}
    IN  IF hits = {} THEN "ok" ELSE ValidateFrom(s, Min(hits))

\* The vector validators hand over to it at the first byte that is not plain
\* ASCII, or after the last whole chunk.
ValidateSpan(s) ==
    LET hits == {p \in 0..Len(s) - (Len(s) % W) - 1 : ByteAt(s, p) \in Watched}
    IN  ValidateFrom(s, IF hits = {} THEN Len(s) - (Len(s) % W) ELSE Min(hits))

\* What the escape at p stands for, and where it ends.
Escaped(s, p) ==
    LET letter == ByteAt(s, p + 1)
        quad == ByteAt(s, p + 2)
        low == Sub(s, p + 3, p + 5) = <<Backslash, "u">> /\ ByteAt(s, p + 5) = Low
    IN  CASE letter \in DOMAIN Short -> [char |-> Short[letter], end |-> p + 2]
          [] letter = "u" /\ quad = High /\ low -> [char |-> Astral, end |-> p + 6]
          [] letter = "u" /\ quad \in DOMAIN Plane0 -> [char |-> Plane0[quad], end |-> p + 3]
          [] OTHER -> [char |-> None, end |-> None]

\* The loop of decode_string: what is in scratch when it ends, and whether it failed.
DecodeEscapes(s) ==
    LET at[p \in 0..Len(s)] ==
            LET esc == Escaped(s, p)
                next == IF ByteAt(s, p) = Backslash THEN esc ELSE [char |-> ByteAt(s, p), end |-> p + 1]
            IN  IF p = Len(s) THEN [out |-> <<>>, failed |-> FALSE]
                ELSE IF next.end = None THEN [out |-> <<>>, failed |-> TRUE]
                ELSE [at[next.end] EXCEPT !.out = <<next.char>> \o @]
    IN  at[0]

Decoded(rc, chars, place, scr) == [rc |-> rc, val |-> chars, place |-> place, scratch |-> scr]

\* A slip the runs rule out: scratch is cleared before the span is validated.
DecodeClearsFirst(s, skip, scr) ==
    LET d == DecodeEscapes(s)
    IN  IF ~skip /\ ValidateSpan(s) # "ok" THEN Decoded(ValidateSpan(s), <<>>, None, <<>>)
        ELSE IF Backslash \notin Range(s) THEN Decoded("ok", s, "buf", scr)
        ELSE IF d.failed THEN Decoded("decode_failed", <<>>, None, d.out)
        ELSE Decoded("ok", d.out, "scratch", d.out)

\* decode_string, over a scratch buffer that holds scr.
DecodeString(s, skip, scr) ==
    LET d == DecodeEscapes(s)
    IN  IF ~skip /\ ValidateSpan(s) # "ok" THEN Decoded(ValidateSpan(s), <<>>, None, scr)
        ELSE IF Backslash \notin Range(s) THEN Decoded("ok", s, "buf", scr)
        ELSE IF d.failed THEN Decoded("decode_failed", <<>>, None, d.out)
        ELSE Decoded("ok", d.out, "scratch", d.out)

-----------------------------------------------------------------------------
(* Numbers.                                                                 *)

Digit ==
    [d \in {"0", "1", "2", "3", "4", "5", "6", "7", "8", "9"} |->
        CASE d = "0" -> 0 [] d = "1" -> 1 [] d = "2" -> 2 [] d = "3" -> 3 [] d = "4" -> 4
          [] d = "5" -> 5 [] d = "6" -> 6 [] d = "7" -> 7 [] d = "8" -> 8 [] d = "9" -> 9]
IsDigit(b) == b \in DOMAIN Digit

\* Past the digits at p.
DigitsEnd(s, p) == Min({k \in p..Len(s) : ~IsDigit(ByteAt(s, k))})

\* Past the part at p, which begins with a letter of S, an optional sign and at
\* least one digit; None when the digits are missing.
PartEnd(s, p, S, signs) ==
    LET first == IF ByteAt(s, p + 1) \in signs THEN p + 2 ELSE p + 1
    IN  IF p = None \/ ByteAt(s, p) \notin S THEN p
        ELSE IF IsDigit(ByteAt(s, first)) THEN DigitsEnd(s, first) ELSE None

IntegerEnd(s, p) ==
    CASE ByteAt(s, p) = "0" -> p + 1
      [] ByteAt(s, p) \in DOMAIN Digit \ {"0"} -> DigitsEnd(s, p)
      [] OTHER -> None

\* validate_number
ValidNumber(s) ==
    LET int == IntegerEnd(s, IF ByteAt(s, 0) = "-" THEN 1 ELSE 0)
        frac == IF int = None THEN None ELSE PartEnd(s, int, {"."}, {})
    IN  frac # None /\ PartEnd(s, frac, {"e", "E"}, {"+", "-"}) = Len(s)

\* checked_mul and checked_add, or checked_sub below zero: None on overflow.
Accumulate(digits, sign, lo, hi) ==
    LET at[k \in 0..Len(digits)] ==
            LET next == at[k - 1] * 10 + sign * Digit[digits[k]]
            IN  IF k = 0 THEN 0
                ELSE IF at[k - 1] = None \/ next \notin lo..hi THEN None ELSE next
    IN  at[Len(digits)]

Value(v) == [rc |-> "ok", val |-> v]
Fails(rc) == [rc |-> rc, val |-> None]

\* Neither validated now nor by eager parsing.
NotNumber(s, skip, firsts) ==
    IF skip THEN ByteAt(s, 0) \notin firsts ELSE ~ValidNumber(s)

\* A slip the runs rule out: the digits of a negative number are added up as a
\* positive one and negated.
ParseI64Negates(s, skip) ==
    LET neg == ByteAt(s, 0) = "-"
        v == Accumulate(IF neg THEN Tail(s) ELSE s, 1, 0, IMax)
    IN  IF NotNumber(s, skip, DOMAIN Digit \cup {"-"}) THEN Fails("invalid_number")
        ELSE IF {".", "e", "E"} \cap Range(s) # {} THEN Fails("type_mismatch")
        ELSE IF v = None THEN Fails("out_of_range")
        ELSE Value(IF neg THEN -v ELSE v)

ParseI64(s, skip) ==
    LET neg == ByteAt(s, 0) = "-"
        v == Accumulate(IF neg THEN Tail(s) ELSE s, IF neg THEN -1 ELSE 1, -IMax - 1, IMax)
    IN  IF NotNumber(s, skip, DOMAIN Digit \cup {"-"}) THEN Fails("invalid_number")
        ELSE IF {".", "e", "E"} \cap Range(s) # {} THEN Fails("type_mismatch")
        ELSE IF v = None THEN Fails("out_of_range")
        ELSE Value(v)

ParseU64(s, skip) ==
    LET v == Accumulate(s, 1, 0, 2 * IMax + 1)
    IN  IF NotNumber(s, skip, DOMAIN Digit \cup {"-"}) THEN Fails("invalid_number")
        ELSE IF {".", "e", "E"} \cap Range(s) # {} THEN Fails("type_mismatch")
        ELSE IF ByteAt(s, 0) = "-" \/ v = None THEN Fails("out_of_range")
        ELSE Value(v)

\* str::parse::<f64>: the number itself, infinite when a nonzero one has the
\* largest exponent.
Infinite(s) ==
    \E p \in 1..Len(s) - 1 : s[p] \in {"e", "E"} /\ s[p + 1] = "9" /\ Range(SubSeq(s, 1, p)) \cap (DOMAIN Digit \ {"0"}) # {}

ParseF64(s, skip) ==
    IF NotNumber(s, skip, DOMAIN Digit \cup {"-", "."}) THEN Fails("invalid_number")
    ELSE IF Infinite(s) THEN Fails("number_out_of_range")
    ELSE Value(s)

\* scalar_type_at, by the first byte alone.
ScalarType(b) ==
    CASE b \in {"true", "false", "tru"} -> "bool"
      [] b \in {"null", "nul"} -> "null"
      [] b \in DOMAIN Digit \cup {"-"} -> "num"
      [] OTHER -> None

\* A slip the runs rule out: only the first byte of a number is looked at.
ValidateScalarByFirst(s) ==
    CASE s \in {<<"true">>, <<"false">>, <<"null">>} -> "ok"
      [] OTHER -> IF ByteAt(s, 0) \in DOMAIN Digit \cup {"-"} THEN "ok" ELSE "parse_error"

\* validate_scalar, for a token of eager mode.
ValidateScalar(s) ==
    CASE s \in {<<"true">>, <<"false">>, <<"null">>} -> "ok"
      [] ByteAt(s, 0) \in DOMAIN Digit \cup {"-", "+", "."} \/ s \in {<<"NaN">>, <<"Infinity">>} ->
            IF ValidNumber(s) THEN "ok" ELSE "invalid_number"
      [] OTHER -> "parse_error"
=============================================================================
