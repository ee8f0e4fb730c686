----------------------------- MODULE ScalarGrammar -----------------------------
(***************************************************************************)
(* What a string and a number mean by RFC 8259, built up from their parts, *)
(* for Scalars to be held against.  Nothing here depends on the state: the *)
(* properties are evaluated while there is no document.                    *)
(***************************************************************************)
EXTENDS Scalars

CONSTANTS
    Spans,      \* contents of strings tried
    Tokens      \* tokens tried as numbers

\* Bytes that stand for themselves in a string, and all bytes.
Chars == {"a", "n", "u", "00e9", High, Low, Wide}
Bytes == Chars \cup {Quote, Backslash, Control, BadUtf8}
NumberBytes == DOMAIN Digit \cup {"-", "+", ".", "e", "E"}

\* The content of a string: the scan goes through it inside the string.
ASSUME SpanAssumption ==
    /\ None \notin Bytes
    /\ \A s \in Spans : s \in Seq(Bytes) /\ Lex(s, Lexer(TRUE, FALSE), 0, Len(s)) = Lexer(TRUE, FALSE)

\* A token may hold anything but what stands for no byte.
ASSUME TokenAssumption == None \notin NumberBytes /\ \A s \in Tokens : s \in Seq(NumberBytes \cup Bytes)

Unit(raw, char) == [raw |-> raw, char |-> char]
Units ==
    {Unit(<<c>>, c) : c \in Chars}
    \cup {Unit(<<Backslash, l>>, Short[l]) : l \in DOMAIN Short}
    \cup {Unit(<<Backslash, "u", "00e9">>, Plane0["00e9"]),
          Unit(<<Backslash, "u", High, Backslash, "u", Low>>, Astral)}

\* The units that make up s, one after another, if any do.
Readings(s) ==
    LET at[p \in 0..Len(s)] ==
            IF p = Len(s) THEN {<<>>}
            ELSE UNION {{<<u.char>> \o r : r \in at[p + Len(u.raw)]} :
                        u \in {v \in Units : Sub(s, p, p + Len(v.raw)) = v.raw /\ p + Len(v.raw) <= Len(s)}}
    IN  at[0]

\* A string means one thing or nothing; what validation takes decodes to just
\* that, and decoding without validation, as after an eager parse, does no less.
StringsMeanThat ==
    phase = "idle" => \A s \in Spans :
        LET checked == DecodeString(s, FALSE, <<>>)
        IN  /\ (checked.rc = "ok") = (Readings(s) # {})
            /\ checked.rc = "ok" => Readings(s) = {checked.val} /\ DecodeString(s, TRUE, <<>>) = checked

\* The parts of a number, each in the bytes from..upto - 1 of s.
Digits(s, from, upto) == from < upto /\ \A k \in from + 1..upto : IsDigit(s[k])
Whole(s, from, upto) == Digits(s, from, upto) /\ (s[from + 1] = "0" => upto = from + 1)
Integral(s, upto) == Whole(s, 0, upto) \/ (upto > 0 /\ s[1] = "-" /\ Whole(s, 1, upto))
Fraction(s, from, upto) == from < upto /\ s[from + 1] = "." /\ Digits(s, from + 1, upto)
Exponent(s, from, upto) ==
    /\ from < upto /\ s[from + 1] \in {"e", "E"}
    /\ \/ Digits(s, from + 1, upto)
       \/ from + 1 < upto /\ s[from + 2] \in {"+", "-"} /\ Digits(s, from + 2, upto)

IsNumeral(s) ==
    \E int \in 0..Len(s) : \E frac \in int..Len(s) :
        /\ Integral(s, int)
        /\ frac = int \/ Fraction(s, int, frac)
        /\ frac = Len(s) \/ Exponent(s, frac, Len(s))
IsInteger(s) == Integral(s, Len(s))

\* The sum of the digits after the first from bytes, each with its power of ten.
Magnitude(s, from) ==
    LET power[k \in from..Len(s)] == IF k = Len(s) THEN 1 ELSE 10 * power[k + 1]
        sum[k \in from..Len(s)] == IF k = Len(s) THEN 0 ELSE Digit[s[k + 1]] * power[k + 1] + sum[k + 1]
    IN  sum[from]
Amount(s) == IF s[1] = "-" THEN -Magnitude(s, 1) ELSE Magnitude(s, 0)

Exactly(answer, s, lo, hi) ==
    LET fits == Amount(s) \in lo..hi /\ (lo = 0 => s[1] # "-")
    IN  IF ~IsNumeral(s) THEN answer.rc = "invalid_number"
        ELSE IF ~IsInteger(s) THEN answer.rc = "type_mismatch"
        ELSE answer = IF fits THEN Value(Amount(s)) ELSE Fails("out_of_range")

\* The integer getters return the number the token denotes, just when it is an
\* integer in their range, whether the token is validated now or was in an eager
\* parse.  The sign of a negative zero is enough to be out of the unsigned range.
NumbersAreExact ==
    phase = "idle" => \A s \in Tokens, skip \in BOOLEAN :
        (skip => IsNumeral(s)) =>
            /\ Exactly(ParseI64(s, skip), s, -IMax - 1, IMax)
            /\ Exactly(ParseU64(s, skip), s, 0, 2 * IMax + 1)
            /\ (ParseF64(s, skip).rc = "invalid_number") = ~IsNumeral(s)
=============================================================================
