-------------------------------- MODULE Marks --------------------------------
(***************************************************************************)
(* A document as the parser leaves it: the structural characters by their  *)
(* position in indices, here marks, and what lies before each (src/doc.rs, *)
(* src/cursor.rs).  Eager parsing guarantees JSON; lazy parsing only that  *)
(* brackets and quotes are paired.                                         *)
(***************************************************************************)
EXTENDS Integers, Sequences, FiniteSets

CONSTANTS
    Texts,      \* the documents
    Bytes,      \* contents of strings and of the gaps between marks
    Blank       \* nothing

Opener == {"lbrace", "lbracket"}
Closer == {"rbrace", "rbracket"}
Mark == Opener \cup Closer \cup {"comma", "colon", "quote"}

\* before[n] is what lies before mark n: for a closing quote, the string.  json
\* says whether eager mode accepts the text.
ASSUME TextAssumption ==
    /\ Blank \in Bytes
    /\ \A t \in Texts :
          /\ t.mark \in Seq(Mark) /\ t.before \in Seq(Bytes)
          /\ Len(t.before) = Len(t.mark) /\ t.json \in BOOLEAN
          /\ Len(t.mark) = 1 => t.mark[1] \notin Opener

\* The byte at indices[s]; the last index is a sentinel outside the text, and
\* an index beyond it is a panic, which the C interface reports as QJSON_OOM.
N(t) == Len(t.mark)
MarkAt(t, s) == IF s \in 1..N(t) THEN t.mark[s] ELSE IF s = N(t) + 1 THEN "end" ELSE "outside"

\* What is between marks s and s + 1.
After(t, s) == t.before[s + 1]

Cursor(s, e) == [start |-> s, end |-> e]
Root(t) == Cursor(1, IF N(t) = 0 THEN 2 ELSE N(t))

Inside(t, s, k) == Cardinality({j \in s..k : t.mark[j] \in Opener})
                     - Cardinality({j \in s..k : t.mark[j] \in Closer})
Closes(t, s, k) == Inside(t, s, k) = 0 /\ \A j \in s + 1..k - 1 : Inside(t, s, j) # 0
CloserOf(m) == IF m = "lbrace" THEN "rbrace" ELSE "rbracket"
Paired(t, s) == \E k \in s + 1..N(t) : Closes(t, s, k) /\ t.mark[k] = CloserOf(t.mark[s])
CloserAt(t, s) == CHOOSE k \in s + 1..N(t) : Closes(t, s, k) /\ t.mark[k] = CloserOf(t.mark[s])

\* find_value_span: where the value at mark s ends and which mark follows it.  A
\* scalar has no mark: its cursor names the mark after it.
Fault(f) == [fault |-> f, end |-> 0, next |-> 0]
Ends(e, n) == [fault |-> "none", end |-> e, next |-> n]
Span(t, s) ==
    CASE MarkAt(t, s) = "outside" -> Fault("oom")
      [] MarkAt(t, s) = "end" -> Fault("parse_error")
      [] MarkAt(t, s) = "quote" -> Ends(s + 1, s + 2)
      [] MarkAt(t, s) \in Opener ->
            IF Paired(t, s) THEN Ends(CloserAt(t, s), CloserAt(t, s) + 1) ELSE Fault("parse_error")
      [] OTHER -> Ends(s + 1, s)

\* A slip the runs rule out: an empty container is told by its marks alone.
EmptyByMarks(t, c) == c.end = c.start + 1

\* Only whitespace between the opener and the closer.
Empty(t, c) == c.end = c.start + 1 /\ After(t, c.start) = Blank

\* The value of the child that begins at s in the container at o: in an object
\* past the key's quotes and the colon, which nobody looks for.
ValueOf(t, o, s) == IF MarkAt(t, o) = "lbrace" THEN s + 3 ELSE s

-----------------------------------------------------------------------------
(* What the walk over a container sees, on any text.                        *)

\* Where the container at o ends: for the root at the last mark, which in lazy
\* mode need not be its closer.
Limit(t, o) == IF o = 1 THEN Root(t).end ELSE Span(t, o).end

\* s and e are children of the container at o, each where the one before it says.
IsWalk(t, o, s, e) ==
    /\ Len(e) = Len(s)
    /\ \A k \in DOMAIN s :
          LET v == Span(t, ValueOf(t, o, s[k]))
          IN  /\ v.fault = "none" /\ e[k] = v.end
              /\ k = 1 => s[k] = o + 1
              /\ k < Len(s) => MarkAt(t, v.next) = "comma" /\ s[k + 1] = v.next + 1

\* The walk has been carried on to the end of the container.
IsWhole(t, o, s) ==
    LET v == Span(t, ValueOf(t, o, s[Len(s)]))
    IN  \/ MarkAt(t, v.next) \in Closer \cup {"end"}
        \/ MarkAt(t, v.next) = "comma" /\ v.next + 1 > Limit(t, o)

=============================================================================
