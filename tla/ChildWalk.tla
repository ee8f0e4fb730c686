------------------------------ MODULE ChildWalk ------------------------------
(***************************************************************************)
(* Lookups in a parsed document (src/cursor.rs, src/skip_cache.rs,         *)
(* src/doc.rs, src/ffi.rs): paths of keys and indices, the nth entry, the  *)
(* number of children, and the object iterator.                            *)
(*                                                                         *)
(* The document keeps the offsets of its structural characters, here its   *)
(* marks; a lookup walks them child by child and leaves the children it    *)
(* saw in the skip cache, where later lookups find them unchecked.  Eager  *)
(* parsing guarantees JSON; lazy parsing only that brackets and quotes are *)
(* paired, and the walk then runs over whatever is between them.           *)
(***************************************************************************)
EXTENDS Marks

CONSTANTS
    Indices,    \* array indices and entry numbers a client asks for (bound)
    Paths,      \* paths a client follows (bound)
    None

\* A segment of a path, with the container it steps into.  A malformed one is
\* only met when the segments before it have been followed.
Key == [kind : {"lbrace"}, want : Bytes]
Idx == [kind : {"lbracket"}, want : Indices]
BadSeg == [kind |-> "invalid", want |-> 0]
Seg == Key \cup Idx \cup {BadSeg}

ASSUME CallAssumption ==
    /\ Indices \subseteq Nat /\ Paths \subseteq Seq(Seg)
    /\ None \notin [start : Nat, end : Nat]

VARIABLES
    doc,        \* the document
    skip,       \* the skip cache: container's opener -> positions of its children
    cursors,    \* the cursors the client has been given
    iter,       \* the client's object iterator, or None
    req,        \* the last call, or None
    at,         \* the cursor the call has come to
    rest,       \* the segments still to be followed
    here,       \* the next child of the walk
    starts,     \* the children seen
    ends,
    found,      \* the child that matched, or None
    answer      \* the call's result, "running" until it returns

walk == <<here, starts, ends, found>>
vars == <<doc, skip, cursors, iter, req, at, rest, walk, answer>>

-----------------------------------------------------------------------------
(* Calls.                                                                   *)

Open(c, path) == [op |-> "open", from |-> c, path |-> path, n |-> 0]
Entry(c, n) == [op |-> "entry", from |-> c, path |-> <<>>, n |-> n]
Length(c) == [op |-> "len", from |-> c, path |-> <<>>, n |-> 0]

Running == answer.code = "running"
Begin(c) == at' = c /\ here' = c.start + 1 /\ starts' = <<>> /\ ends' = <<>> /\ found' = None

Call(r) ==
    /\ ~Running
    /\ req' = r /\ rest' = r.path /\ Begin(r.from)
    /\ answer' = [code |-> "running", cursor |-> None, count |-> 0]
    /\ UNCHANGED <<doc, skip, cursors, iter>>

\* The call returns, and its locals are gone.
Return(code, c, n) ==
    /\ answer' = [code |-> code, cursor |-> c, count |-> n]
    /\ cursors' = IF c = None THEN cursors ELSE cursors \cup {c}
    /\ rest' = <<>> /\ Begin(Root(doc))
    /\ UNCHANGED <<doc, iter, req>>
Refuse(code) == Return(code, None, 0) /\ UNCHANGED skip

\* walk_children found the child c: the path goes on from there.
Descend(c) ==
    /\ Begin(c) /\ rest' = Tail(rest)
    /\ UNCHANGED <<doc, cursors, iter, req, answer>>

\* The child the walk has come to.
Value == ValueOf(doc, at.start, here)
Child == Span(doc, Value)
Follows == MarkAt(doc, Child.next)

\* A slip the runs rule out: a branch forgets to move on.
AdvanceNot(n) == UNCHANGED <<here, starts, ends>>

\* One more child, with the end of its value; the walk moves on to n.
Advance(n) == starts' = Append(starts, here) /\ ends' = Append(ends, Child.end) /\ here' = n

\* A slip the runs rule out: the walk resumes on the comma itself.
ResumeAtComma == Child.next

\* Where the walk resumes after a comma.
Resume == Child.next + 1

-----------------------------------------------------------------------------
(* step and walk_children.                                                  *)

Following == Running /\ req.op = "open" /\ rest # <<>>
Want == Head(rest)
Steps == Following /\ MarkAt(doc, at.start) = Want.kind
Cached == at.start \in DOMAIN skip

Resolved ==
    /\ Running /\ req.op = "open" /\ rest = <<>>
    /\ Return("ok", at, 0) /\ UNCHANGED skip

StepRefused ==
    /\ Following /\ MarkAt(doc, at.start) # Want.kind
    /\ Refuse(IF Want = BadSeg THEN "invalid_path" ELSE "type_mismatch")

\* resolve_in_known_children compares without looking for the quote.
Matches(t, seg, s, k) ==
    IF seg.kind = "lbrace" THEN After(t, s[k]) = seg.want ELSE k = seg.want + 1

FirstMatch(t, seg, s, k) ==
    k \in DOMAIN s /\ Matches(t, seg, s, k) /\ \A j \in 1..k - 1 : ~Matches(t, seg, s, j)

Slot == skip[at.start]
HitFound ==
    /\ Steps /\ Cached
    /\ \E k \in DOMAIN Slot.starts :
          /\ FirstMatch(doc, Want, Slot.starts, k)
          /\ Descend(Cursor(ValueOf(doc, at.start, Slot.starts[k]), Slot.ends[k]))
    /\ UNCHANGED skip

HitMissing ==
    /\ Steps /\ Cached
    /\ \A k \in DOMAIN Slot.starts : ~Matches(doc, Want, Slot.starts, k)
    /\ Refuse("not_found")

Remember == skip' = [o \in DOMAIN skip \cup {at.start} |->
                        IF o = at.start THEN [starts |-> starts, ends |-> ends] ELSE skip[o]]

WalkEmpty ==
    /\ Steps /\ ~Cached /\ Empty(doc, at)
    /\ Remember /\ Return("not_found", None, 0)

\* Slips the runs rule out: the child before the closer is not visited; the
\* walk ends at the first match.
InLoopShort == here < at.end
InLoopUntilFound == here <= at.end /\ found = None
InLoop == here <= at.end
Walking == Steps /\ ~Cached /\ ~Empty(doc, at) /\ InLoop

\* The key's opening quote is looked for until a child has matched.
BadKey == found = None /\ Want.kind = "lbrace" /\ MarkAt(doc, here) # "quote"

\* A child without a value, a key that is no string, or no separator after it.
WalkFails ==
    /\ Walking
    /\ \/ Child.fault # "none" /\ Refuse(Child.fault)
       \/ Child.fault = "none" /\ BadKey /\ Refuse("parse_error")
       \/ Child.fault = "none" /\ ~BadKey /\ Follows = "outside" /\ Refuse("oom")
       \/ Child.fault = "none" /\ ~BadKey /\ Follows \in Opener \cup {"colon", "quote"}
            /\ Refuse("parse_error")

\* A slip the runs rule out: a later match replaces an earlier one.
FoundLast(s) == IF Matches(doc, Want, s, Len(s)) THEN Cursor(Value, Child.end) ELSE found
FoundNow(s) == IF found = None /\ Matches(doc, Want, s, Len(s)) THEN Cursor(Value, Child.end) ELSE found

\* The walk goes on after a match, to fill the cache; past at.end it is over.
WalkChild ==
    /\ Walking /\ Child.fault = "none" /\ ~BadKey
    /\ Follows \in Closer \cup {"comma", "end"}
    /\ Advance(IF Follows = "comma" THEN Resume ELSE at.end + 1)
    /\ found' = FoundNow(Append(starts, here))
    /\ UNCHANGED <<doc, skip, cursors, iter, req, at, rest, answer>>

Walked == Steps /\ ~Cached /\ ~Empty(doc, at) /\ ~InLoop
WalkFound == Walked /\ found # None /\ Remember /\ Descend(found)
WalkMissing == Walked /\ found = None /\ Remember /\ Return("not_found", None, 0)

-----------------------------------------------------------------------------
(* nth_object_entry and cursor_len: the same walk, without the cache.       *)

Counting == Running /\ req.op \in {"entry", "len"}
Countable == IF req.op = "entry" THEN {"lbrace"} ELSE Opener
CountRefused ==
    /\ Counting /\ MarkAt(doc, at.start) \notin Countable
    /\ Refuse(IF MarkAt(doc, at.start) = "end" /\ N(doc) > 0 THEN "parse_error" ELSE "type_mismatch")

CountEmpty ==
    /\ Counting /\ MarkAt(doc, at.start) \in Countable /\ Empty(doc, at)
    /\ Refuse(IF req.op = "len" THEN "ok" ELSE "not_found")

Visiting == Counting /\ MarkAt(doc, at.start) \in Countable /\ ~Empty(doc, at)

IsNth == req.op = "entry" /\ Len(starts) = req.n

EntryFound ==
    /\ Visiting /\ Child.fault = "none" /\ IsNth
    /\ Return("ok", Cursor(Value, Child.end), here) /\ UNCHANGED skip

\* The count includes the child the walk has come to.
CountEnds ==
    /\ Visiting /\ Child.fault = "none" /\ req.op = "len" /\ Follows \in Closer
    /\ Return("ok", None, Len(starts) + 1) /\ UNCHANGED skip

CountFails ==
    /\ Visiting
    /\ \/ Child.fault # "none" /\ Refuse(Child.fault)
       \/ /\ Child.fault = "none" /\ ~IsNth
          /\ \/ Follows = "outside" /\ Refuse("oom")
             \/ Follows \in Opener \cup {"colon", "quote", "end"} /\ Refuse("parse_error")
             \/ /\ req.op = "entry" /\ Follows \in Closer
                /\ Refuse(IF Follows = "rbrace" THEN "not_found" ELSE "parse_error")
             \/ /\ Follows = "comma" /\ Child.next + 1 > at.end
                /\ Refuse(IF req.op = "entry" THEN "not_found" ELSE "parse_error")

CountChild ==
    /\ Visiting /\ Child.fault = "none" /\ ~IsNth
    /\ Follows = "comma" /\ Child.next + 1 <= at.end
    /\ Advance(Resume)
    /\ UNCHANGED <<doc, skip, cursors, iter, req, at, rest, found, answer>>

-----------------------------------------------------------------------------
(* qjson_iter_init and qjson_iter_next.  A call that fails changes nothing. *)

\* seen counts the entries handed out and is not in the code.
IterInit(c) ==
    /\ MarkAt(doc, c.start) = "lbrace"
    /\ iter' = [of |-> c, current |-> IF Empty(doc, c) THEN c.end ELSE c.start + 1, seen |-> 0]
    /\ UNCHANGED <<doc, skip, cursors, req, at, rest, walk, answer>>

\* A slip the runs rule out: the iterator stops on the comma.
IterPastShort(n) == IF MarkAt(doc, n) = "comma" THEN n ELSE iter.of.end
IterPast(n) == IF MarkAt(doc, n) = "comma" THEN n + 1 ELSE iter.of.end

IterNext ==
    /\ iter # None /\ iter.current < iter.of.end
    /\ MarkAt(doc, iter.current) = "quote" /\ MarkAt(doc, iter.current + 1) = "quote"
    /\ MarkAt(doc, iter.current + 2) = "colon"
    /\ LET v == iter.current + 3
           n == Span(doc, v).next
       IN  /\ Span(doc, v).fault = "none" /\ MarkAt(doc, n) \in {"comma", "rbrace"}
           /\ cursors' = cursors \cup {Cursor(v, Span(doc, v).end)}
           /\ iter' = [iter EXCEPT !.current = IterPast(n), !.seen = @ + 1]
    /\ UNCHANGED <<doc, skip, req, at, rest, walk, answer>>

-----------------------------------------------------------------------------

Init ==
    /\ doc \in Texts
    /\ skip = [o \in {} |-> 0]
    /\ cursors = {Root(doc)}
    /\ iter = None /\ req = None
    /\ at = Root(doc) /\ rest = <<>> /\ here = 2 /\ starts = <<>> /\ ends = <<>> /\ found = None
    /\ answer = [code |-> "none", cursor |-> None, count |-> 0]

\* What a call does until it returns.
Work ==
    \/ Resolved \/ StepRefused \/ HitFound \/ HitMissing
    \/ WalkEmpty \/ WalkFails \/ WalkChild \/ WalkFound \/ WalkMissing
    \/ CountRefused \/ CountEmpty \/ EntryFound \/ CountEnds \/ CountFails \/ CountChild

Next ==
    \/ \E c \in cursors :
          \/ \E p \in Paths : Call(Open(c, p))
          \/ \E n \in Indices : Call(Entry(c, n))
          \/ Call(Length(c))
          \/ ~Running /\ IterInit(c)
    \/ ~Running /\ IterNext
    \/ Work

Spec == Init /\ [][Next]_vars

\* A call, once made, is carried out.
LiveSpec == Spec /\ WF_vars(Work)

-----------------------------------------------------------------------------
(* Properties that hold on every text, JSON or not.                         *)

\* The cache holds the children of a container, all of them and nothing else,
\* although lookups of different keys, and failed ones, fill it.
CacheHoldsWalks ==
    \A o \in DOMAIN skip :
        /\ IsWalk(doc, o, skip[o].starts, skip[o].ends)
        /\ IF Empty(doc, Cursor(o, Limit(doc, o))) THEN skip[o].starts = <<>>
           ELSE skip[o].starts # <<>> /\ IsWhole(doc, o, skip[o].starts)

\* A segment leads to the first child it matches, and misses only when no child
\* matches; the answer is the same from the walk and from what it left behind.
Descends == Following /\ Running' /\ rest' # rest
Misses == Following /\ answer'.code = "not_found"
FirstChildOrNone ==
    /\ Descends => /\ at.start \in DOMAIN skip'
                   /\ \E k \in DOMAIN skip'[at.start].starts :
                        /\ FirstMatch(doc, Want, skip'[at.start].starts, k)
                        /\ at' = Cursor(ValueOf(doc, at.start, skip'[at.start].starts[k]),
                                        skip'[at.start].ends[k])
    /\ Misses => /\ at.start \in DOMAIN skip'
                 /\ \A k \in DOMAIN skip'[at.start].starts : ~Matches(doc, Want, skip'[at.start].starts, k)
LookupsTakeFirst == [][FirstChildOrNone]_vars

\* Every step of a walk moves it forward.
Forward == Running /\ Running' /\ at' = at /\ rest' = rest => here' > here
WalksAdvance == [][Forward]_vars

=============================================================================
