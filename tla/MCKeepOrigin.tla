---------------------------- MODULE MCKeepOrigin ----------------------------
(***************************************************************************)
(* Three sources: {"s": ~~, "o": {"s": ~~}} where all is long enough to be *)
(* recorded, [{"s": ~~}, ~~] likewise with an element whose slot can be    *)
(* set, and {"o": {"s": ~~, "s": ~~}, "s": 1, "e": []} with a repeated     *)
(* key and values too short.                                               *)
(***************************************************************************)
EXTENDS KeepOrigin

Shape(kind, keys, children, leaf, len) ==
    [kind |-> kind, keys |-> keys, children |-> children, leaf |-> leaf, len |-> len]
Long(x) == Shape("leaf", <<>>, <<>>, Str(x), 30)

Source ==
    ("A" :> Shape("object", <<"s", "o">>, <<"As", "Ao">>, None, 200)) @@ ("As" :> Long("x"))
    @@ ("Ao" :> Shape("object", <<"s">>, <<"Aos">>, None, 70)) @@ ("Aos" :> Long("y"))
    @@ ("B" :> Shape("array", <<>>, <<"B1", "B2">>, None, 200)) @@ ("B2" :> Long("y"))
    @@ ("B1" :> Shape("object", <<"s">>, <<"B1s">>, None, 70)) @@ ("B1s" :> Long("x"))
    @@ ("C" :> Shape("object", <<"o", "s", "e">>, <<"Co", "Cs", "Ce">>, None, 200))
    @@ ("Co" :> Shape("object", <<"s", "s">>, <<"Co1", "Co2">>, None, 70)) @@ ("Co1" :> Long("x")) @@ ("Co2" :> Long("y"))
    @@ ("Cs" :> Shape("leaf", <<>>, <<>>, Lit("1"), 1)) @@ ("Ce" :> Shape("array", <<>>, <<>>, None, 2))

SourceNode == DOMAIN Source
SourceKind == [n \in SourceNode |-> Source[n].kind]
SourceChildren == [n \in SourceNode |-> Source[n].children]
SourceKeys == [n \in SourceNode |-> Source[n].keys]
SourceLeaf == [n \in {m \in SourceNode : Source[m].kind = "leaf"} |-> Source[n].leaf]
SourceLen == [n \in SourceNode |-> Source[n].len]
EditedKeys == {Name("s"), Name("o"), Index(1), Index(2)}
GivenLeaves == {Str("x"), Lit("false")}
=============================================================================
