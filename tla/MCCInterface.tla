----------------------------- MODULE MCCInterface -----------------------------
(***************************************************************************)
(* Texts for CInterface: all short ones over the bytes that matter to the  *)
(* scan, long strings cut by chunks, and documents put together from       *)
(* values, so that where each value stands is known.                       *)
(***************************************************************************)
EXTENDS InterfaceSpec

UpTo(S, n) == UNION {[1..k -> S] : k \in 0..n}
b == Backslash

-----------------------------------------------------------------------------
(* Documents: pieces of text with the values in them.                       *)

Piece(raw, type, ok, val, big, keys, values) ==
    [raw |-> raw,
     values |-> values \cup {[path |-> <<>>, start |-> 0, end |-> Len(raw), type |-> type,
                              ok |-> ok, val |-> val, big |-> big, keys |-> keys]}]
Leaf(raw, type, ok, val, big) == Piece(raw, type, ok, val, big, <<>>, {})

Str(span) ==
    LET r == Readings(span)
    IN  Leaf(<<Quote>> \o span \o <<Quote>>, "str", r # {}, IF r = {} THEN None ELSE CHOOSE c \in r : TRUE, FALSE)
Number(token, big) == Leaf(token, "num", IsNumeral(token), IF IsInteger(token) THEN Amount(token) ELSE None, big)
Lit(token) == Leaf(<<token>>, IF token = "null" THEN "null" ELSE "bool", TRUE, token = "true", FALSE)
Bad(token) == Leaf(token, "bad", FALSE, None, FALSE)

KeyOf(span) == [kind |-> "key", name |-> span, n |-> 0]
IdxOf(n) == [kind |-> "idx", name |-> <<>>, n |-> n]

Moved(values, by, seg) ==
    {[v EXCEPT !.path = <<seg>> \o @, !.start = @ + by, !.end = @ + by,
               !.keys = [k \in DOMAIN @ |-> [@[k] EXCEPT !.start = @ + by]]] : v \in values}

\* Pieces between brackets, each behind its separator, its key and a blank.
Filled(open, close, type, parts) ==
    LET Put(acc, n) ==
            LET lead == (IF n = 1 THEN <<>> ELSE <<",">>) \o parts[n].lead
                at == Len(acc.raw) + Len(lead)
            IN  [raw |-> acc.raw \o lead \o parts[n].piece.raw,
                 values |-> acc.values \cup Moved(parts[n].piece.values, at, parts[n].seg)]
        all == FoldLeft(Put, [raw |-> <<open>>, values |-> {}], [n \in DOMAIN parts |-> n])
        keyStart(n) == Len(FoldLeft(Put, [raw |-> <<open>>, values |-> {}], [k \in 1..n - 1 |-> k]).raw)
                         + (IF n = 1 THEN 0 ELSE 1)
        key(n) == LET s == Str(parts[n].seg.name) IN LET v == CHOOSE w \in s.values : TRUE
                  IN  [start |-> keyStart(n), ok |-> v.ok, val |-> v.val]
    IN  Piece(all.raw \o <<close>>, type, TRUE, Len(parts), FALSE,
              IF type = "obj" THEN [n \in DOMAIN parts |-> key(n)] ELSE <<>>, all.values)

Arr(pieces) ==
    Filled("[", "]", "arr", [n \in DOMAIN pieces |-> [lead |-> <<" ">>, seg |-> IdxOf(n - 1), piece |-> pieces[n]]])
Obj(spans, pieces) ==
    Filled("{", "}", "obj",
           [n \in DOMAIN pieces |-> [lead |-> <<Quote>> \o spans[n] \o <<Quote, ":", " ">>,
                                     seg |-> KeyOf(spans[n]), piece |-> pieces[n]]])
Doc(piece) == [text |-> piece.raw, values |-> piece.values, json |-> TRUE]
Padded(piece) ==
    [text |-> <<" ">> \o piece.raw \o <<" ">>, json |-> TRUE,
     values |-> {[v EXCEPT !.start = @ + 1, !.end = @ + 1] : v \in piece.values}]

\* More in front of the closing bracket of an object; n of its entries are left.
Spoilt(piece, more, n) ==
    LET raw == Front(piece.raw) \o more \o <<"}">>
    IN  [text |-> raw, json |-> FALSE,
         values |-> {IF v.path = <<>> THEN [v EXCEPT !.end = Len(raw), !.keys = SubSeq(@, 1, n)] ELSE v : v \in piece.values}]

plain == Str(<<"a", "n">>)
esc == Str(<<"a", b, "n">>)
escQuote == Str(<<b, Quote>>)
pair == Str(<<b, "u", High, b, "u", Low>>)
half == Str(<<b, "u", High>>)
ctl == Str(<<"a", b, b, "a", Control>>)
SomeStrings == {plain, esc, escQuote, pair, half, ctl}
SomeScalars ==
    {Number(<<"9">>, FALSE), Number(<<"1", "0">>, FALSE), Number(<<"-", "1", "0">>, FALSE), Number(<<"-", "1", "1">>, FALSE),
     Number(<<"-", "0">>, FALSE), Number(<<"1", "9">>, FALSE), Number(<<"9", "1">>, FALSE), Number(<<"1", ".", "0">>, FALSE),
     Number(<<"1", "e", "9">>, TRUE), Number(<<"0", "1">>, FALSE), Number(<<"-">>, FALSE),
     Lit("true"), Lit("false"), Lit("null"), Bad(<<"tru">>), Bad(<<"+", "1">>), Bad(<<"NaN">>)}

ka == <<"a">>
kesc == <<b, "n">>
kbad == <<b, "a">>
Documents ==
    {Doc(p) : p \in SomeStrings \cup SomeScalars}
    \cup {Padded(p) : p \in {half, Number(<<"9">>, FALSE), Lit("true")}}
    \cup {Doc(Arr(<<p, q>>)) : p \in {esc, half}, q \in {plain, escQuote, Bad(<<"tru">>)}}
    \cup {Doc(Arr(<<p>>)) : p \in SomeScalars}
    \cup {Doc(Arr(<<>>)), Doc(Obj(<<>>, <<>>)), Doc(Arr(<<Bad(<<"tru">>), half>>))}
    \cup {Doc(Obj(<<ka, kesc>>, <<esc, q>>)) : q \in {Arr(<<half>>), Bad(<<"-", "a">>)}}
    \cup {Doc(Obj(<<kesc, kbad>>, <<Number(<<"0">>, FALSE), plain>>)), Doc(Obj(<<kesc>>, <<Obj(<<ka>>, <<plain>>)>>))}
    \* {"a"}, {"a": "an","a"} and {"\n": "an" "a"}
    \cup {Spoilt(Obj(<<>>, <<>>), <<Quote, "a", Quote>>, 0),
          Spoilt(Obj(<<ka>>, <<plain>>), <<",", Quote, "a", Quote>>, 1),
          Spoilt(Obj(<<kesc>>, <<plain>>), <<" ", Quote, "a", Quote>>, 0)}

SmallPaths ==
    {<<>>, <<KeyOf(ka)>>, <<IdxOf(0)>>, <<IdxOf(1)>>, <<KeyOf(kesc), KeyOf(ka)>>}

-----------------------------------------------------------------------------
(* Texts for the scan.                                                      *)

Num(m) == MapThenSumSet(LAMBDA k : 2^k, m)
ASSUME MasksAddAsNumbers ==
    \A m, n \in SUBSET Lanes :
        WrappingAdd(m, n) = {k \in Lanes : ((Num(m) + Num(n)) \div 2^k) % 2 = 1}

Scan(t) == [text |-> t, values |-> {}, json |-> FALSE]
Long ==
    {<<Quote, "x", "x", "x">> \o [j \in 1..4 * k |-> "x"] \o m \o t :
        k \in 1..3, m \in [1..4 -> {Quote, b, "x", "{"}], t \in {<<>>, <<Quote>>, <<b, Quote>>}}
Texts == UpTo({Quote, b, "x"}, 9) \cup UpTo({Quote, "{", "}", "]", "x"}, 5) \cup Long \cup UpTo({" "}, 2)
AllDocs == {Scan(t) : t \in Texts} \cup Documents

-----------------------------------------------------------------------------
(* Strings and tokens for the getters.                                      *)

Raws == {u.raw : u \in Units} \cup {<<>>}
Joined == {u \o v \o w : u \in Raws, v \in Raws, w \in Raws \ {<<>>}}
Broken ==
    {RemoveAt(s, k) : s \in {t \in Joined : Len(t) > 3}, k \in 1..4}
    \cup {[s EXCEPT ![k] = c] : s \in {t \in Joined : Len(t) > 6}, k \in 1..6, c \in {"a", Control}}
OneString(s) == Lex(s, Lexer(TRUE, FALSE), 0, Len(s)) = Lexer(TRUE, FALSE)
AllSpans == {s \in UpTo(Bytes, 3) \cup Joined \cup Broken : OneString(s)}
AllTokens == UpTo({"-", "+", "0", "1", "9", ".", "e", "E"}, 4) \cup UpTo({"2", "8", "a"}, 2)
=============================================================================
