------------------------------ MODULE ChildTree ------------------------------
(***************************************************************************)
(* What lookups must answer: the children of a container, read off the     *)
(* brackets and commas at its own level, and the properties of ChildWalk.  *)
(***************************************************************************)
EXTENDS ChildWalk, SequencesExt

CONSTANT Decoded    \* Decoded[b]: the string with the escapes of b resolved

EndOf(t, o) == CHOOSE k \in o + 1..N(t) : Closes(t, o, k)

\* The marks at which the children of the container at o begin.
Commas(t, o) == {k \in o + 1..N(t) : t.mark[k] = "comma" /\ Inside(t, o, k) = 1
                                       /\ \A j \in o + 1..k : Inside(t, o, j) # 0}
Begins(t, o) == {k + 1 : k \in Commas(t, o) \cup {o}}
Blanked(t, o) == EndOf(t, o) = o + 1 /\ After(t, o) = Blank
Members(t, o) ==
    IF Blanked(t, o) THEN <<>>
    ELSE [n \in 1..Cardinality(Begins(t, o)) |->
             CHOOSE s \in Begins(t, o) : Cardinality({r \in Begins(t, o) : r <= s}) = n]

Valued(t, o, s) ==
    LET v == ValueOf(t, o, s)
    IN  Cursor(v, IF MarkAt(t, v) \in Opener THEN EndOf(t, v) ELSE v + 1)

Selects(t, seg, o, k) ==
    IF seg.kind = "lbrace" THEN After(t, Members(t, o)[k]) = seg.want ELSE k = seg.want + 1

\* The first child that seg selects.
Reached(c) == [code |-> "ok", cursor |-> c]
NoChild(code) == [code |-> code, cursor |-> None]
Follow(t, c, seg) ==
    LET hits == {k \in DOMAIN Members(t, c.start) : Selects(t, seg, c.start, k)}
    IN  CASE seg = BadSeg -> NoChild("invalid_path")
          [] seg # BadSeg /\ MarkAt(t, c.start) # seg.kind -> NoChild("type_mismatch")
          [] OTHER -> IF hits = {} THEN NoChild("not_found")
                      ELSE Reached(Valued(t, c.start, Members(t, c.start)[Min(hits)]))

\* Where the first n segments of a path lead: the first that fails ends it.
Onward(t, c, path, n, r) ==
    IF n = 0 THEN Reached(c) ELSE IF r.code = "ok" THEN Follow(t, r.cursor, path[n]) ELSE r
Trail(t, c, path) == LET trail[n \in 0..Len(path)] == Onward(t, c, path, n, trail[n - 1]) IN trail
FollowAll(t, c, path) == Trail(t, c, path)[Len(path)]

-----------------------------------------------------------------------------
(* What eager validation (src/validate) leaves of JSON in the marks.        *)

\* A child is a value, in an object after a key and a colon, and a comma or a
\* closer comes next.
IsChild(t, o, s) ==
    /\ MarkAt(t, o) = "lbrace" =>
          MarkAt(t, s) = "quote" /\ MarkAt(t, s + 1) = "quote" /\ MarkAt(t, s + 2) = "colon"
    /\ LET v == ValueOf(t, o, s)
       IN  /\ MarkAt(t, v) = "quote" => MarkAt(t, v + 1) = "quote"
           /\ Span(t, v).fault = "none" /\ MarkAt(t, Span(t, v).next) \in Closer \cup {"comma"}

\* Every container is closed, the one around the text by its last mark, and has
\* a child at its opener and at each comma of its own, or nothing in it.
IsJson(t) ==
    \A o \in 1..N(t) : MarkAt(t, o) \in Opener =>
        /\ Paired(t, o)
        /\ o = 1 => CloserAt(t, o) = N(t)
        /\ \/ CloserAt(t, o) = o + 1 /\ After(t, o) = Blank
           \/ \A s \in Begins(t, o) : IsChild(t, o, s)

ASSUME JsonAssumption == \A t \in Texts : t.json => IsJson(t)

-----------------------------------------------------------------------------
(* Properties.                                                              *)

Answered(op) == req # None /\ req.op = op /\ ~Running

\* On JSON every path leads to the child it names, the first one of a repeated
\* key, whatever was looked up before and so whatever the skip cache holds.
PathsLeadToChildren ==
    doc.json /\ Answered("open") =>
        [code |-> answer.code, cursor |-> answer.cursor] = FollowAll(doc, req.from, req.path)

\* On JSON the entry and length walks see the same children as the lookups.
CountsAreChildren ==
    LET o == req.from.start
    IN  /\ doc.json /\ Answered("len") =>
              IF MarkAt(doc, o) \notin Opener THEN answer.code = "type_mismatch"
              ELSE answer.code = "ok" /\ answer.count = Len(Members(doc, o))
        /\ doc.json /\ Answered("entry") =>
              CASE MarkAt(doc, o) # "lbrace" -> answer.code = "type_mismatch"
                [] MarkAt(doc, o) = "lbrace" /\ req.n >= Len(Members(doc, o)) -> answer.code = "not_found"
                [] OTHER -> /\ answer.code = "ok" /\ answer.count = Members(doc, o)[req.n + 1]
                            /\ answer.cursor = Valued(doc, o, Members(doc, o)[req.n + 1])

\* On JSON the iterator stands at the member after those it has handed out, and
\* at the end when it has handed out all of them; no lookup in between moves it.
IteratorInOrder ==
    doc.json /\ iter # None =>
        LET m == Members(doc, iter.of.start)
        IN  iter.current = IF iter.seen = Len(m) THEN iter.of.end ELSE m[iter.seen + 1]

\* Every call returns, on any text with paired brackets: no walk is caught in a
\* loop by what it finds between them.
CallsReturn == Running ~> ~Running

\* A key the iterator returns, with its escapes resolved, can be looked up.
IteratedKeysResolve ==
    doc.json /\ Answered("open") /\ Len(req.path) = 1 /\ req.path[1].kind = "lbrace"
      /\ MarkAt(doc, req.from.start) = "lbrace" =>
        \A k \in DOMAIN Members(doc, req.from.start) :
            req.path[1].want = Decoded[After(doc, Members(doc, req.from.start)[k])]
                => answer.code # "not_found"

=============================================================================
