---------------------------- MODULE MCChildWalk ----------------------------
(***************************************************************************)
(* ChildWalk on small texts: JSON of two levels, and every way to pair     *)
(* brackets and quotes in a few marks.                                     *)
(***************************************************************************)
EXTENDS ChildTree

CONSTANTS k, esc, num, MaxLoose

AllBytes == {"", k, esc, num}
Unescaped == [b \in AllBytes |-> IF b = esc THEN k ELSE b]
SmallPaths ==
    {<<>>, <<BadSeg>>} \cup {<<[kind |-> "lbrace", want |-> b]>> : b \in {"", k}}
      \cup {<<[kind |-> "lbracket", want |-> n]>> : n \in Indices}
      \cup {<<[kind |-> "lbrace", want |-> k], [kind |-> "lbracket", want |-> 1]>>,
            <<[kind |-> "lbracket", want |-> 0], [kind |-> "lbrace", want |-> k]>>,
            <<[kind |-> "lbrace", want |-> k], BadSeg>>}

\* Pieces of a text: a value whose last bytes, if it is a scalar, lie before the
\* mark that follows it.
Piece(m, b, t) == [mark |-> m, before |-> b, tail |-> t]
Nothing == Piece(<<>>, <<>>, "")
Join(x, m, y) ==
    Piece(x.mark \o <<m>> \o y.mark,
          x.before \o <<x.tail>> \o y.before, y.tail)
Str(b) == Piece(<<"quote", "quote">>, <<"", b>>, "")
Field(b, v) == Join(Str(b), "colon", v)
Wrapped(o, x) == Join(Join(Nothing, o, x), CloserOf(o), Nothing)

Scalar == Piece(<<>>, <<>>, num)
Flat == {Wrapped(o, Nothing) : o \in Opener}
          \cup {Wrapped("lbracket", Scalar), Wrapped("lbrace", Field(k, Scalar))}
Names == {"", k}
Boxes(V, W) ==
    {Wrapped("lbracket", v) : v \in V}
      \cup {Wrapped("lbracket", Join(v, "comma", w)) : v \in V, w \in W}
      \cup {Wrapped("lbrace", Field(b, v)) : b \in Names, v \in V}
      \cup {Wrapped("lbrace", Join(Field(b, v), "comma", Field(c, w))) :
                b, c \in Names, v \in V, w \in W}
Three == {Wrapped("lbrace", Join(Field(b, v), "comma", Join(Field(c, Scalar), "comma", Field(k, Scalar)))) :
                b, c \in Names, v \in {Str(k)}}
JsonPieces == {Scalar, Str(k)} \cup Flat \cup Boxes(Flat, {Scalar})
                \cup Boxes({Str("")}, Flat) \cup Three
JsonTexts == {[mark |-> p.mark, before |-> p.before, json |-> TRUE] : p \in JsonPieces}

\* All sequences of n marks with paired brackets and quotes.
RECURSIVE PairedMarks(_)
PairedMarks(n) ==
    IF n = 0 THEN {<<>>}
    ELSE {<<m>> \o s : m \in {"comma", "colon"}, s \in PairedMarks(n - 1)}
           \cup (IF n = 1 THEN {} ELSE
                 {<<"quote", "quote">> \o s : s \in PairedMarks(n - 2)}
                   \cup UNION {{<<o>> \o s \o <<CloserOf(o)>> \o r :
                                   o \in Opener, s \in PairedMarks(j), r \in PairedMarks(n - 2 - j)} :
                               j \in 0..n - 2})

\* Strings are all b, what is between the other marks is all g.
Inner(m, i) == m[i] = "quote" /\ Cardinality({j \in 1..i : m[j] = "quote"}) % 2 = 0
Loose(m, b, g) ==
    [mark |-> m, before |-> [i \in DOMAIN m |-> IF Inner(m, i) THEN b ELSE g], json |-> FALSE]
Jumps == {<<"lbrace", "quote", "quote", "colon", "comma", "comma", "rbrace", "quote", "quote">>,
          <<"lbrace", "quote", "quote", "colon", "comma", "comma", "comma", "comma", "rbrace">>,
          <<"lbrace", "quote", "quote", "colon", "comma", "lbracket", "rbracket", "comma", "quote",
            "quote", "colon", "rbrace">>}
LooseTexts == {Loose(m, f[1], f[2]) : f \in {<<"", "">>, <<k, "">>, <<k, k>>},
                 m \in Jumps \cup {s \in UNION {PairedMarks(n) : n \in 2..MaxLoose} : s[1] \in Opener}}

AllTexts == JsonTexts \cup LooseTexts
EscapedTexts == {[mark |-> p.mark, before |-> p.before, json |-> TRUE] :
                    p \in {Wrapped("lbrace", Field(b, Scalar)) : b \in AllBytes}}
=============================================================================
