--------------------------- MODULE ChildWalkProofs ---------------------------
(***************************************************************************)
(* The skip cache on every text with paired brackets, JSON or not: it      *)
(* holds whole walks, lookups answer from them, and every walk ends.  On   *)
(* JSON, paths, counts and the iterator answer with the children.          *)
(***************************************************************************)
EXTENDS ChildTree, NumberSets, TLAPS

-----------------------------------------------------------------------------
(* Texts.                                                                   *)

\* A value that has a span is at a mark; its span ends past it, in the text if
\* it is a container, and what follows it is not before it.
LEMMA SpanFacts ==
    ASSUME NEW t, N(t) \in Nat, NEW s \in Nat, Span(t, s).fault = "none"
    PROVE  /\ s \in 1..N(t)
           /\ Span(t, s).end \in Nat /\ Span(t, s).end > s
           /\ Span(t, s).next \in Nat /\ Span(t, s).next >= s
<1>1. CASE MarkAt(t, s) = "outside"
  BY <1>1 DEF Span, Fault, Opener
<1>2. CASE MarkAt(t, s) = "end"
  BY <1>2 DEF Span, Fault, Opener
<1>3. CASE MarkAt(t, s) \notin {"outside", "end"}
  <2>1. s \in 1..N(t)
    BY <1>3 DEF MarkAt
  <2>2. CASE MarkAt(t, s) = "quote"
    BY <1>3, <2>1, <2>2 DEF Span, Ends, Opener
  <2>3. CASE MarkAt(t, s) \in Opener
    <3>1. Span(t, s) = IF Paired(t, s) THEN Ends(CloserAt(t, s), CloserAt(t, s) + 1)
                       ELSE Fault("parse_error")
      BY <1>3, <2>3 DEF Span, Opener
    <3>2. Paired(t, s)
      BY <3>1 DEF Fault
    <3>3. CloserAt(t, s) \in s + 1..N(t)
      BY <3>2 DEF Paired, CloserAt
    <3>4. QED
      BY <2>1, <3>1, <3>2, <3>3 DEF Ends
  <2>4. CASE MarkAt(t, s) \notin Opener \cup {"quote"}
    BY <1>3, <2>1, <2>4 DEF Span, Ends
  <2>5. QED
    BY <2>2, <2>3, <2>4
<1>4. QED
  BY <1>1, <1>2, <1>3

\* What a text of the model is.
LEMMA TextFacts ==
    ASSUME TextAssumption, NEW t \in Texts
    PROVE  /\ N(t) \in Nat
           /\ Root(t).start = 1 /\ Root(t).end \in Nat /\ Root(t) = Cursor(1, Root(t).end)
           /\ MarkAt(t, 1) \in Opener => Root(t).end > 1
<1>1. t.mark \in Seq(Mark) /\ (Len(t.mark) = 1 => t.mark[1] \notin Opener)
  BY DEF TextAssumption
<1>2. N(t) \in Nat
  BY <1>1 DEF N
<1>3. Root(t).start = 1 /\ Root(t).end = (IF N(t) = 0 THEN 2 ELSE N(t))
      /\ Root(t) = Cursor(1, Root(t).end)
  BY DEF Root, Cursor
<1>4. ASSUME MarkAt(t, 1) \in Opener, N(t) = 1 PROVE FALSE
  BY <1>1, <1>4 DEF MarkAt, N
<1>5. QED
  BY <1>2, <1>3, <1>4

-----------------------------------------------------------------------------
(* The invariant.                                                           *)

\* A cursor is the root or one of a value with a span.
CursorOK(c) ==
    \/ c = Root(doc)
    \/ /\ c.start \in Nat /\ c.start >= 2 /\ Span(doc, c.start).fault = "none"
       /\ c = Cursor(c.start, Span(doc, c.start).end)

CursorsOK ==
    /\ \A c \in cursors : CursorOK(c)
    /\ CursorOK(at)
    /\ iter # None =>
          /\ CursorOK(iter.of) /\ iter.current \in Nat /\ iter.current >= 1
          /\ iter = [of |-> iter.of, current |-> iter.current, seen |-> iter.seen]

CallType ==
    /\ doc \in Texts
    /\ rest \in Seq(Seg)
    /\ here \in Nat /\ here > at.start
    /\ starts \in Seq(Nat) /\ ends \in Seq(Nat)
    /\ \A k \in DOMAIN starts : starts[k] > at.start

\* The children seen so far, and where the walk goes on.
WalkInv ==
    /\ IsWalk(doc, at.start, starts, ends)
    /\ starts = <<>> => here = at.start + 1
    /\ starts # <<>> =>
          LET n == Span(doc, ValueOf(doc, at.start, starts[Len(starts)])).next
          IN  IF MarkAt(doc, n) = "comma" THEN here = n + 1
              ELSE MarkAt(doc, n) \in Closer \cup {"end"} /\ here = at.end + 1
    /\ starts # <<>> => ~Empty(doc, at)
    /\ Counting /\ starts # <<>> => here <= at.end

FoundInv ==
    /\ found # None =>
          /\ Following
          /\ \E k \in DOMAIN starts :
                /\ FirstMatch(doc, Want, starts, k)
                /\ found = Cursor(ValueOf(doc, at.start, starts[k]), ends[k])
    /\ found = None /\ Following => \A k \in DOMAIN starts : ~Matches(doc, Want, starts, k)

SlotType ==
    \A o \in DOMAIN skip :
        /\ o \in Nat /\ skip[o].starts \in Seq(Nat)
        /\ \A k \in DOMAIN skip[o].starts : skip[o].starts[k] >= 2

IInv == CallType /\ CursorsOK /\ WalkInv /\ FoundInv /\ SlotType /\ CacheHoldsWalks

-----------------------------------------------------------------------------
(* Cursors and walks.                                                       *)

\* A cursor at a container ends where the walk over the container does.
LEMMA CursorFacts ==
    ASSUME TextAssumption, doc \in Texts, NEW c, CursorOK(c)
    PROVE  /\ c.start \in Nat /\ c.start >= 1 /\ c.end \in Nat
           /\ c = Cursor(c.start, c.end)
           /\ MarkAt(doc, c.start) \in Opener => c.end = Limit(doc, c.start) /\ c.end > c.start
<1>1. CASE c = Root(doc)
  BY <1>1, TextFacts DEF Limit
<1>2. CASE c # Root(doc)
  <2>1. /\ c.start \in Nat /\ c.start >= 2 /\ Span(doc, c.start).fault = "none"
        /\ c = Cursor(c.start, Span(doc, c.start).end)
    BY <1>2 DEF CursorOK
  <2>2. Span(doc, c.start).end \in Nat /\ Span(doc, c.start).end > c.start
    BY <2>1, SpanFacts, TextFacts
  <2>3. c.end = Span(doc, c.start).end
    BY <2>1 DEF Cursor
  <2>4. QED
    BY <2>1, <2>2, <2>3 DEF Limit
<1>3. QED
  BY <1>1, <1>2

\* The cursor of a child's value is a good one.
LEMMA ValueCursor ==
    ASSUME NEW v \in Nat, v >= 2, Span(doc, v).fault = "none"
    PROVE  CursorOK(Cursor(v, Span(doc, v).end))
BY DEF CursorOK, Cursor

\* The value of a child is not before the child.
LEMMA ValueOfFacts ==
    ASSUME NEW t, NEW o, NEW s \in Nat
    PROVE  ValueOf(t, o, s) \in Nat /\ ValueOf(t, o, s) >= s
BY DEF ValueOf

\* A walk goes on with the child its last one leads to.
LEMMA WalkAppend ==
    ASSUME NEW t, NEW o, NEW s \in Seq(Nat), NEW e \in Seq(Nat), NEW h \in Nat,
           IsWalk(t, o, s, e), Span(t, ValueOf(t, o, h)).fault = "none",
           s = <<>> => h = o + 1,
           s # <<>> => LET n == Span(t, ValueOf(t, o, s[Len(s)])).next
                       IN  MarkAt(t, n) = "comma" /\ h = n + 1
    PROVE  IsWalk(t, o, Append(s, h), Append(e, Span(t, ValueOf(t, o, h)).end))
<1> DEFINE x == Append(s, h)
           y == Append(e, Span(t, ValueOf(t, o, h)).end)
<1>1. Len(e) = Len(s) /\ Len(x) = Len(s) + 1 /\ Len(y) = Len(s) + 1
  BY DEF IsWalk
<1>2. \A k \in 1..Len(s) : x[k] = s[k] /\ y[k] = e[k]
  BY <1>1
<1>3. x[Len(s) + 1] = h /\ y[Len(s) + 1] = Span(t, ValueOf(t, o, h)).end
  BY <1>1
<1>5. DOMAIN x = 1..Len(s) + 1
  BY <1>1
<1> HIDE DEF x, y
<1>4. ASSUME NEW k \in 1..Len(s) + 1
      PROVE  LET v == Span(t, ValueOf(t, o, x[k]))
             IN  /\ v.fault = "none" /\ y[k] = v.end
                 /\ k = 1 => x[k] = o + 1
                 /\ k < Len(s) + 1 => MarkAt(t, v.next) = "comma" /\ x[k + 1] = v.next + 1
  <2>1. CASE k = Len(s) + 1
    <3>1. k = 1 => s = <<>>
      BY <2>1
    <3>2. x[k] = h /\ y[k] = Span(t, ValueOf(t, o, h)).end
      BY <1>3, <2>1
    <3>3. QED
      BY <2>1, <3>1, <3>2
  <2>2. CASE k = Len(s)
    <3>1. k \in DOMAIN s /\ s # <<>> /\ x[k] = s[Len(s)] /\ x[k + 1] = h
      BY <1>2, <1>3, <2>2
    <3>2. y[k] = e[k]
      BY <1>2, <2>2, <3>1
    <3>3. QED
      BY <2>2, <3>1, <3>2 DEF IsWalk
  <2>3. CASE k < Len(s)
    <3>0. k \in 1..Len(s) /\ k + 1 \in 1..Len(s) /\ k # Len(s) + 1 /\ k \in DOMAIN s
      BY <2>3
    <3>1. k \in DOMAIN s /\ x[k] = s[k] /\ x[k + 1] = s[k + 1] /\ y[k] = e[k] /\ k # Len(s) + 1
      BY <1>2, <3>0
    <3>2. LET v == Span(t, ValueOf(t, o, s[k]))
          IN  /\ v.fault = "none" /\ e[k] = v.end
              /\ k = 1 => s[k] = o + 1
              /\ MarkAt(t, v.next) = "comma" /\ s[k + 1] = v.next + 1
      BY <2>3, <3>1 DEF IsWalk
    <3>3. QED
      BY <3>1, <3>2
  <2>4. QED
    BY <2>1, <2>2, <2>3
<1>6. Len(y) = Len(x)
  BY <1>1 DEF x, y
<1>7. IsWalk(t, o, x, y)
  BY <1>1, <1>4, <1>5, <1>6 DEF IsWalk
<1>8. QED
  BY <1>7 DEF x, y

\* The match, if any, among the children seen and one more.
LEMMA FirstMatchAppend ==
    ASSUME NEW t, NEW seg, NEW s \in Seq(Nat), NEW h \in Nat
    PROVE  /\ \A k \in DOMAIN s : Matches(t, seg, Append(s, h), k) <=> Matches(t, seg, s, k)
           /\ \A k \in DOMAIN s : FirstMatch(t, seg, Append(s, h), k) <=> FirstMatch(t, seg, s, k)
<1>1. \A k \in 1..Len(s) : Append(s, h)[k] = s[k]
  OBVIOUS
<1>2. \A k \in DOMAIN s : Matches(t, seg, Append(s, h), k) <=> Matches(t, seg, s, k)
  BY <1>1 DEF Matches
<1>3. \A k \in DOMAIN s : k \in DOMAIN Append(s, h) /\ \A j \in 1..k - 1 : j \in DOMAIN s
  OBVIOUS
<1>4. QED
  BY <1>2, <1>3 DEF FirstMatch

\* A span fails in one of two ways.
LEMMA FaultFacts ==
    ASSUME NEW t, NEW s
    PROVE  Span(t, s).fault \in {"none", "parse_error", "oom"}
<1>1. CASE MarkAt(t, s) = "outside"
  BY <1>1 DEF Span, Fault, Opener
<1>2. CASE MarkAt(t, s) = "end"
  BY <1>2 DEF Span, Fault, Opener
<1>3. CASE MarkAt(t, s) = "quote"
  BY <1>3 DEF Span, Ends, Opener
<1>4. CASE MarkAt(t, s) \in Opener
  BY <1>4 DEF Span, Ends, Fault, Opener
<1>5. CASE MarkAt(t, s) \notin Opener \cup {"quote", "end", "outside"}
  BY <1>5 DEF Span, Ends
<1>6. QED
  BY <1>1, <1>2, <1>3, <1>4, <1>5

-----------------------------------------------------------------------------
(* What steps have in common.                                               *)

\* A walk that begins at a good cursor is in order.
LEMMA Begun ==
    ASSUME TextAssumption, doc \in Texts, UNCHANGED doc, NEW c, CursorOK(c), Begin(c),
           rest' \in Seq(Seg)
    PROVE  CallType' /\ CursorOK(at)' /\ WalkInv' /\ FoundInv'
<1>1. at' = c /\ here' = c.start + 1 /\ starts' = <<>> /\ ends' = <<>> /\ found' = None
  BY DEF Begin
<1>2. c.start \in Nat
  BY CursorFacts
<1>3. CallType'
  BY <1>1, <1>2 DEF CallType
<1>4. CursorOK(at)'
  BY <1>1 DEF CursorOK
<1>5. IsWalk(doc', c.start, <<>>, <<>>)
  BY DEF IsWalk
<1>6. WalkInv'
  BY <1>1, <1>5 DEF WalkInv
<1>7. FoundInv'
  BY <1>1 DEF FoundInv
<1>8. QED
  BY <1>3, <1>4, <1>6, <1>7

\* The client may be given one more good cursor.
LEMMA CursorsGrow ==
    ASSUME CursorsOK, UNCHANGED <<doc, iter>>, CursorOK(at)',
           \A c \in cursors' : c \in cursors \/ CursorOK(c)
    PROVE  CursorsOK'
<1>1. \A c : CursorOK(c) => CursorOK(c)'
  BY DEF CursorOK
<1>2. \A c \in cursors' : CursorOK(c)'
  BY <1>1 DEF CursorsOK
<1>3. iter' # None =>
          /\ CursorOK(iter.of)' /\ iter'.current \in Nat /\ iter'.current >= 1
          /\ iter' = [of |-> iter'.of, current |-> iter'.current, seen |-> iter'.seen]
  BY <1>1 DEF CursorsOK
<1>4. QED
  BY <1>2, <1>3 DEF CursorsOK

\* A call that returns leaves no walk behind.
LEMMA Returned ==
    ASSUME TextAssumption, IInv, NEW code, NEW c, NEW n, Return(code, c, n), c # None => CursorOK(c)
    PROVE  CallType' /\ CursorsOK' /\ WalkInv' /\ FoundInv'
<1>1. doc \in Texts /\ CursorsOK /\ UNCHANGED <<doc, iter>> /\ rest' \in Seq(Seg)
  BY DEF IInv, CallType, Return
<1>2. CursorOK(Root(doc)) /\ Begin(Root(doc))
  BY DEF CursorOK, Return
<1>3. CallType' /\ CursorOK(at)' /\ WalkInv' /\ FoundInv'
  BY <1>1, <1>2, Begun
<1>4. \A d \in cursors' : d \in cursors \/ CursorOK(d)
  BY DEF Return
<1>5. QED
  BY <1>1, <1>3, <1>4, CursorsGrow

\* So does a path that goes on from a child.
LEMMA Descended ==
    ASSUME TextAssumption, IInv, NEW c, Descend(c), CursorOK(c), rest # <<>>
    PROVE  CallType' /\ CursorsOK' /\ WalkInv' /\ FoundInv'
<1>1. /\ doc \in Texts /\ CursorsOK /\ UNCHANGED <<doc, iter, cursors>>
      /\ rest' \in Seq(Seg) /\ Begin(c)
  BY DEF IInv, CallType, Descend
<1>2. CallType' /\ CursorOK(at)' /\ WalkInv' /\ FoundInv'
  BY <1>1, Begun
<1>3. QED
  BY <1>1, <1>2, CursorsGrow

LEMMA SlotsKept ==
    ASSUME SlotType, CacheHoldsWalks, UNCHANGED <<doc, skip>>
    PROVE  SlotType' /\ CacheHoldsWalks'
BY DEF SlotType, CacheHoldsWalks

\* A finished walk may be remembered.
LEMMA SlotAdded ==
    ASSUME TextAssumption, IInv, MarkAt(doc, at.start) \in Opener, Remember, UNCHANGED doc,
           IF Empty(doc, at) THEN starts = <<>>
           ELSE starts # <<>> /\ IsWhole(doc, at.start, starts)
    PROVE  SlotType' /\ CacheHoldsWalks'
<1>1. /\ at.start \in Nat /\ at.start >= 1
      /\ at = Cursor(at.start, Limit(doc, at.start))
  BY CursorFacts DEF IInv, CursorsOK, CallType
<1>2. /\ DOMAIN skip' = DOMAIN skip \cup {at.start}
      /\ skip'[at.start] = [starts |-> starts, ends |-> ends]
      /\ \A o \in DOMAIN skip : o # at.start => skip'[o] = skip[o]
  BY DEF Remember
<1>3. SlotType'
  <2>1. ASSUME NEW o \in DOMAIN skip'
        PROVE  /\ o \in Nat /\ skip'[o].starts \in Seq(Nat)
               /\ \A k \in DOMAIN skip'[o].starts : skip'[o].starts[k] >= 2
    <3>1. CASE o = at.start
      <4>1. \A k \in DOMAIN starts : starts[k] \in Nat /\ starts[k] > at.start
        BY DEF IInv, CallType
      <4>2. QED
        BY <1>1, <1>2, <3>1, <4>1 DEF IInv, CallType
    <3>2. CASE o # at.start
      BY <1>2, <3>2 DEF IInv, SlotType
    <3>3. QED
      BY <3>1, <3>2
  <2>2. QED
    BY <2>1 DEF SlotType
<1>4. CacheHoldsWalks'
  <2>1. ASSUME NEW o \in DOMAIN skip'
        PROVE  /\ IsWalk(doc, o, skip'[o].starts, skip'[o].ends)
               /\ IF Empty(doc, Cursor(o, Limit(doc, o))) THEN skip'[o].starts = <<>>
                  ELSE skip'[o].starts # <<>> /\ IsWhole(doc, o, skip'[o].starts)
    <3>1. CASE o = at.start
      BY <1>1, <1>2, <3>1 DEF IInv, WalkInv
    <3>2. CASE o # at.start
      BY <1>2, <3>2 DEF IInv, CacheHoldsWalks
    <3>3. QED
      BY <3>1, <3>2
  <2>2. QED
    BY <2>1 DEF CacheHoldsWalks
<1>5. QED
  BY <1>3, <1>4

-----------------------------------------------------------------------------
(* The invariant, action by action.                                         *)

\* A segment that fits the cursor steps into a container.
LEMMA StepsInto ==
    ASSUME TextAssumption, IInv, Steps
    PROVE  MarkAt(doc, at.start) \in Opener /\ rest # <<>> /\ Want \in Seg
<1>1. rest \in Seq(Seg) /\ rest # <<>> /\ MarkAt(doc, at.start) = Want.kind
  BY DEF IInv, CallType, Steps, Following
<1>2. Want \in Seg
  BY <1>1 DEF Want
<1>3. doc.mark \in Seq(Mark)
  BY DEF TextAssumption, IInv, CallType
<1>4. MarkAt(doc, at.start) \in Mark \cup {"end", "outside"}
  BY <1>3 DEF MarkAt, N
<1>5. Want.kind \in {"lbrace", "lbracket", "invalid"}
  BY <1>2 DEF Seg, Key, Idx, BadSeg
<1>6. QED
  BY <1>1, <1>2, <1>4, <1>5 DEF Mark, Opener, Closer

\* The child the walk has come to is past its container.
LEMMA ChildFacts ==
    ASSUME TextAssumption, IInv
    PROVE  /\ at.start \in Nat /\ at.start >= 1 /\ at.end \in Nat
           /\ Value \in Nat /\ Value >= here
           /\ Child.fault = "none" =>
                 /\ Child.end \in Nat /\ Child.next \in Nat /\ Child.next >= here
                 /\ CursorOK(Cursor(Value, Child.end))
<1>1. here \in Nat /\ here > at.start /\ doc \in Texts
  BY DEF IInv, CallType
<1>2. at.start \in Nat /\ at.start >= 1 /\ at.end \in Nat
  BY <1>1, CursorFacts DEF IInv, CursorsOK
<1>3. Value \in Nat /\ Value >= here
  BY <1>1, ValueOfFacts DEF Value
<1>4. ASSUME Child.fault = "none"
      PROVE  Child.end \in Nat /\ Child.next \in Nat /\ Child.next >= Value
  BY <1>1, <1>3, <1>4, SpanFacts, TextFacts DEF Child
<1>5. Child.fault = "none" => CursorOK(Cursor(Value, Child.end))
  BY <1>1, <1>2, <1>3, ValueCursor DEF Child
<1>6. QED
  BY <1>1, <1>2, <1>3, <1>4, <1>5

LEMMA CallKeepsInv ==
    ASSUME TextAssumption, IInv, NEW r, r.from \in cursors, r.path \in Seq(Seg), Call(r)
    PROVE  IInv'
<1>1. /\ doc \in Texts /\ CursorsOK /\ CursorOK(r.from) /\ Begin(r.from)
      /\ UNCHANGED <<doc, skip, cursors, iter>> /\ rest' \in Seq(Seg)
  BY DEF IInv, CallType, CursorsOK, Call
<1>2. CallType' /\ CursorOK(at)' /\ WalkInv' /\ FoundInv'
  BY <1>1, Begun
<1>3. CursorsOK'
  BY <1>1, <1>2, CursorsGrow
<1>4. QED
  BY <1>1, <1>2, <1>3, SlotsKept DEF IInv

\* A call that returns without having walked.
LEMMA ReturnKeepsInv ==
    ASSUME TextAssumption, IInv, UNCHANGED skip,
           NEW code, NEW c, NEW n, Return(code, c, n), c # None => CursorOK(c)
    PROVE  IInv'
<1>1. CallType' /\ CursorsOK' /\ WalkInv' /\ FoundInv'
  BY Returned
<1>2. SlotType' /\ CacheHoldsWalks'
  BY SlotsKept DEF IInv, Return
<1>3. QED
  BY <1>1, <1>2 DEF IInv

LEMMA RefuseKeepsInv ==
    ASSUME TextAssumption, IInv, NEW code, Refuse(code)
    PROVE  IInv'
BY ReturnKeepsInv DEF Refuse

\* A child of the walk or of the count is added to those seen.
LEMMA ChildSeen ==
    ASSUME TextAssumption, IInv, MarkAt(doc, at.start) \in Opener, ~Empty(doc, at), here <= at.end,
           Child.fault = "none", Follows \in Closer \cup {"comma", "end"},
           Advance(IF Follows = "comma" THEN Resume ELSE at.end + 1),
           Counting => Follows = "comma" /\ Resume <= at.end,
           UNCHANGED <<doc, skip, cursors, iter, req, at, rest, answer>>
    PROVE  CallType' /\ CursorsOK' /\ WalkInv' /\ SlotType' /\ CacheHoldsWalks'
<1> DEFINE h == IF Follows = "comma" THEN Resume ELSE at.end + 1
<1>1. starts' = Append(starts, here) /\ ends' = Append(ends, Child.end) /\ here' = h
  BY DEF Advance
<1>2. /\ doc \in Texts /\ rest \in Seq(Seg) /\ here \in Nat /\ here > at.start
      /\ starts \in Seq(Nat) /\ ends \in Seq(Nat)
      /\ \A k \in DOMAIN starts : starts[k] > at.start
  BY DEF IInv, CallType
<1>3. /\ at.start \in Nat /\ at.end \in Nat /\ Child.end \in Nat
      /\ Child.next \in Nat /\ Child.next >= here
  BY ChildFacts
<1>4. at.end > at.start
  BY <1>2, CursorFacts DEF IInv, CursorsOK
<1>5. CallType'
  <2>1. h \in Nat /\ h > at.start
    BY <1>2, <1>3, <1>4 DEF Resume
  <2>2. \A k \in DOMAIN Append(starts, here) : Append(starts, here)[k] > at.start
    BY <1>2
  <2>3. Append(starts, here) \in Seq(Nat) /\ Append(ends, Child.end) \in Seq(Nat)
    BY <1>2, <1>3
  <2>4. QED
    BY <1>1, <1>2, <2>1, <2>2, <2>3 DEF CallType
<1>6. CursorsOK'
  BY CursorsGrow DEF IInv, CursorsOK, CursorOK
<1>7. IsWalk(doc, at.start, Append(starts, here), Append(ends, Child.end))
  <2>1. starts = <<>> => here = at.start + 1
    BY DEF IInv, WalkInv
  <2>2. starts # <<>> =>
           LET n == Span(doc, ValueOf(doc, at.start, starts[Len(starts)])).next
           IN  MarkAt(doc, n) = "comma" /\ here = n + 1
    BY <1>3 DEF IInv, WalkInv
  <2>3. IsWalk(doc, at.start, starts, ends)
    BY DEF IInv, WalkInv
  <2>4. QED
    BY <1>2, <2>1, <2>2, <2>3, WalkAppend DEF Child, Value
<1>8. WalkInv'
  <2>1. starts' # <<>> /\ starts'[Len(starts')] = here
    <3>1. starts \in Seq(Nat) /\ here \in Nat
      BY <1>2
    <3>2. Len(Append(starts, here)) = Len(starts) + 1
      BY <3>1
    <3>3. Append(starts, here)[Len(starts) + 1] = here
      BY <3>1
    <3>4. QED
      BY <1>1, <3>1, <3>2, <3>3
  <2>2. LET n == Span(doc, ValueOf(doc, at.start, here)).next
        IN  IF MarkAt(doc, n) = "comma" THEN h = n + 1
            ELSE MarkAt(doc, n) \in Closer \cup {"end"} /\ h = at.end + 1
    BY DEF Follows, Child, Value, Resume
  <2>3. Counting' => here' <= at.end
    BY <1>1 DEF Counting, Running
  <2>4. QED
    BY <1>1, <1>7, <2>1, <2>2, <2>3 DEF WalkInv
<1>9. SlotType' /\ CacheHoldsWalks'
  BY SlotsKept DEF IInv
<1>10. QED
  BY <1>5, <1>6, <1>8, <1>9

\* What the walk has found is the first child that matches.
LEMMA WalkChildKeepsInv ==
    ASSUME TextAssumption, CallAssumption, IInv, WalkChild
    PROVE  IInv'
<1>1. /\ Steps /\ ~Cached /\ ~Empty(doc, at) /\ here <= at.end
      /\ Child.fault = "none" /\ Follows \in Closer \cup {"comma", "end"}
      /\ Advance(IF Follows = "comma" THEN Resume ELSE at.end + 1)
      /\ found' = FoundNow(Append(starts, here))
      /\ UNCHANGED <<doc, skip, cursors, iter, req, at, rest, answer>>
  BY DEF WalkChild, Walking, InLoop
<1>2. MarkAt(doc, at.start) \in Opener /\ ~Counting
  BY <1>1, StepsInto DEF Steps, Following, Counting
<1>3. CallType' /\ CursorsOK' /\ WalkInv' /\ SlotType' /\ CacheHoldsWalks'
  BY <1>1, <1>2, ChildSeen
<1>4. FoundInv'
  <2>1. /\ starts \in Seq(Nat) /\ here \in Nat /\ Len(ends) = Len(starts)
        /\ starts' = Append(starts, here) /\ ends' = Append(ends, Child.end)
    BY <1>1 DEF IInv, CallType, WalkInv, IsWalk, Advance
  <2>2. /\ ends \in Seq(Nat) /\ Child.end \in Nat /\ Value \in Nat
    BY <1>1, ChildFacts DEF IInv, CallType
  <2>3. DOMAIN starts = 1..Len(starts) /\ DOMAIN starts' = 1..Len(starts) + 1 /\ Len(starts) \in Nat
    BY <2>1
  <2>4. /\ \A k \in DOMAIN starts : starts'[k] = starts[k] /\ ends'[k] = ends[k]
        /\ starts'[Len(starts) + 1] = here /\ ends'[Len(starts) + 1] = Child.end
    BY <2>1, <2>2
  <2>5. Len(Append(starts, here)) = Len(starts) + 1
    BY <2>1
  <2>6. /\ \A k \in DOMAIN starts : Matches(doc, Want, starts', k) <=> Matches(doc, Want, starts, k)
        /\ \A k \in DOMAIN starts : FirstMatch(doc, Want, starts', k) <=> FirstMatch(doc, Want, starts, k)
    BY <2>1, FirstMatchAppend
  <2>7. /\ found' = IF found = None /\ Matches(doc, Want, starts', Len(starts) + 1)
                    THEN Cursor(Value, Child.end) ELSE found
        /\ Cursor(Value, Child.end) # None
    BY <1>1, <2>1, <2>2, <2>5 DEF FoundNow, Cursor, CallAssumption
  <2>8. Following /\ Following' /\ Want' = Want /\ UNCHANGED <<doc, at>>
    BY <1>1 DEF Steps, Following, Running, Want
  <2>9. CASE found # None
    <3>1. PICK k \in DOMAIN starts : /\ FirstMatch(doc, Want, starts, k)
                                     /\ found = Cursor(ValueOf(doc, at.start, starts[k]), ends[k])
      BY <2>9 DEF IInv, FoundInv
    <3>2. /\ k \in DOMAIN starts' /\ FirstMatch(doc, Want, starts', k)
          /\ found' = Cursor(ValueOf(doc, at.start, starts'[k]), ends'[k])
      BY <2>3, <2>4, <2>6, <2>7, <2>9, <3>1
    <3>3. QED
      BY <2>7, <2>8, <2>9, <3>2 DEF FoundInv
  <2>10. CASE found = None
    <3>1. \A k \in DOMAIN starts : ~Matches(doc, Want, starts', k)
      BY <2>6, <2>8, <2>10 DEF IInv, FoundInv
    <3>2. CASE Matches(doc, Want, starts', Len(starts) + 1)
      <4>1. FirstMatch(doc, Want, starts', Len(starts) + 1)
        BY <2>3, <3>1, <3>2 DEF FirstMatch
      <4>2. found' = Cursor(ValueOf(doc, at.start, starts'[Len(starts) + 1]), ends'[Len(starts) + 1])
        BY <2>4, <2>7, <2>10, <3>2 DEF Value
      <4>3. found' # None
        BY <2>7, <2>10, <3>2
      <4>4. Len(starts) + 1 \in DOMAIN starts'
        BY <2>3
      <4>5. QED
        BY <2>8, <4>1, <4>2, <4>3, <4>4 DEF FoundInv
    <3>3. CASE ~Matches(doc, Want, starts', Len(starts) + 1)
      <4>1. \A k \in DOMAIN starts' : ~Matches(doc, Want, starts', k)
        BY <2>3, <3>1, <3>3
      <4>2. found' = None
        BY <2>7, <2>10, <3>3
      <4>3. QED
        BY <2>8, <4>1, <4>2 DEF FoundInv
    <3>4. QED
      BY <3>2, <3>3
  <2>11. QED
    BY <2>9, <2>10
<1>5. QED
  BY <1>3, <1>4 DEF IInv

LEMMA CountChildKeepsInv ==
    ASSUME TextAssumption, IInv, CountChild
    PROVE  IInv'
<1>1. /\ Counting /\ MarkAt(doc, at.start) \in Countable /\ ~Empty(doc, at)
      /\ Child.fault = "none" /\ Follows = "comma" /\ Child.next + 1 <= at.end
      /\ Advance(Resume)
      /\ UNCHANGED <<doc, skip, cursors, iter, req, at, rest, found, answer>>
  BY DEF CountChild, Visiting
<1>2. MarkAt(doc, at.start) \in Opener
  BY <1>1 DEF Countable, Opener
<1>3. here <= at.end
  BY <1>1, ChildFacts DEF IInv, CallType
<1>4. Resume <= at.end
  BY <1>1 DEF Resume
<1>5. CallType' /\ CursorsOK' /\ WalkInv' /\ SlotType' /\ CacheHoldsWalks'
  BY <1>1, <1>2, <1>3, <1>4, ChildSeen
<1>6. FoundInv'
  <2>1. ~Following /\ ~Following'
    BY <1>1 DEF Counting, Following, Running
  <2>2. found' = None
    BY <1>1, <2>1 DEF IInv, FoundInv
  <2>3. QED
    BY <2>1, <2>2 DEF FoundInv
<1>7. QED
  BY <1>5, <1>6 DEF IInv

\* A child of a walk is a cursor the path may go on from.
LEMMA SeenCursor ==
    ASSUME NEW o, NEW s, NEW e, IsWalk(doc, o, s, e), NEW k \in DOMAIN s, s[k] \in Nat, s[k] >= 2
    PROVE  CursorOK(Cursor(ValueOf(doc, o, s[k]), e[k]))
<1>1. ValueOf(doc, o, s[k]) \in Nat /\ ValueOf(doc, o, s[k]) >= 2
  BY ValueOfFacts
<1>2. /\ Span(doc, ValueOf(doc, o, s[k])).fault = "none"
      /\ e[k] = Span(doc, ValueOf(doc, o, s[k])).end
  BY DEF IsWalk
<1>3. QED
  BY <1>1, <1>2, ValueCursor

LEMMA HitFoundKeepsInv ==
    ASSUME TextAssumption, IInv, HitFound
    PROVE  IInv'
<1>1. PICK k \in DOMAIN Slot.starts :
         Descend(Cursor(ValueOf(doc, at.start, Slot.starts[k]), Slot.ends[k]))
  BY DEF HitFound
<1>2. rest # <<>> /\ at.start \in DOMAIN skip /\ UNCHANGED skip
  BY DEF HitFound, Steps, Following, Cached
<1>3. /\ IsWalk(doc, at.start, Slot.starts, Slot.ends)
      /\ Slot.starts[k] \in Nat /\ Slot.starts[k] >= 2
  BY <1>2 DEF IInv, CacheHoldsWalks, SlotType, Slot
<1>4. CursorOK(Cursor(ValueOf(doc, at.start, Slot.starts[k]), Slot.ends[k]))
  BY <1>3, SeenCursor
<1>5. CallType' /\ CursorsOK' /\ WalkInv' /\ FoundInv'
  BY <1>1, <1>2, <1>4, Descended
<1>6. SlotType' /\ CacheHoldsWalks'
  BY <1>1, <1>2, SlotsKept DEF IInv, Descend
<1>7. QED
  BY <1>5, <1>6 DEF IInv

LEMMA WalkEmptyKeepsInv ==
    ASSUME TextAssumption, IInv, WalkEmpty
    PROVE  IInv'
<1>1. Steps /\ Empty(doc, at) /\ Remember /\ Return("not_found", None, 0)
  BY DEF WalkEmpty
<1>2. CallType' /\ CursorsOK' /\ WalkInv' /\ FoundInv'
  BY <1>1, Returned
<1>3. starts = <<>> /\ MarkAt(doc, at.start) \in Opener /\ UNCHANGED doc
  BY <1>1, StepsInto DEF IInv, WalkInv, Return
<1>4. SlotType' /\ CacheHoldsWalks'
  BY <1>1, <1>3, SlotAdded
<1>5. QED
  BY <1>2, <1>4 DEF IInv

\* A walk that is over has seen every child.
LEMMA WalkedWhole ==
    ASSUME TextAssumption, IInv, Walked
    PROVE  MarkAt(doc, at.start) \in Opener /\ starts # <<>> /\ IsWhole(doc, at.start, starts)
<1>1. Steps /\ ~Empty(doc, at) /\ ~(here <= at.end)
  BY DEF Walked, InLoop
<1>2. MarkAt(doc, at.start) \in Opener
  BY <1>1, StepsInto
<1>3. at.end = Limit(doc, at.start) /\ at.end > at.start /\ at.end \in Nat /\ at.start \in Nat
  BY <1>2, CursorFacts DEF IInv, CallType, CursorsOK
<1>4. starts # <<>>
  BY <1>1, <1>3 DEF IInv, WalkInv
<1>5. LET n == Span(doc, ValueOf(doc, at.start, starts[Len(starts)])).next
      IN  IF MarkAt(doc, n) = "comma" THEN here = n + 1
          ELSE MarkAt(doc, n) \in Closer \cup {"end"}
  BY <1>4 DEF IInv, WalkInv
<1>6. here \in Nat
  BY DEF IInv, CallType
<1>7. IsWhole(doc, at.start, starts)
  <2> DEFINE n == Span(doc, ValueOf(doc, at.start, starts[Len(starts)])).next
  <2>1. CASE MarkAt(doc, n) = "comma"
    <3>1. n + 1 = here /\ here > Limit(doc, at.start)
      BY <1>1, <1>3, <1>5, <1>6, <2>1
    <3>2. QED
      BY <2>1, <3>1 DEF IsWhole
  <2>2. CASE MarkAt(doc, n) \in Closer \cup {"end"}
    BY <2>2 DEF IsWhole
  <2>3. QED
    BY <1>5, <2>1, <2>2
<1>8. QED
  BY <1>2, <1>4, <1>7

LEMMA WalkFoundKeepsInv ==
    ASSUME TextAssumption, IInv, WalkFound
    PROVE  IInv'
<1>1. Walked /\ found # None /\ Remember /\ Descend(found)
  BY DEF WalkFound
<1>2. ~Empty(doc, at) /\ rest # <<>> /\ UNCHANGED doc
  BY <1>1 DEF Walked, Steps, Following, Descend
<1>3. PICK k \in DOMAIN starts : found = Cursor(ValueOf(doc, at.start, starts[k]), ends[k])
  BY <1>1 DEF IInv, FoundInv
<1>4. IsWalk(doc, at.start, starts, ends) /\ starts[k] \in Nat /\ starts[k] >= 2
  <2>1. IsWalk(doc, at.start, starts, ends)
    BY DEF IInv, WalkInv
  <2>2. starts \in Seq(Nat) /\ starts[k] > at.start
    BY DEF IInv, CallType
  <2>3. at.start \in Nat /\ at.start >= 1
    BY ChildFacts
  <2>4. starts[k] \in Nat
    BY <2>2
  <2>5. QED
    BY <2>1, <2>2, <2>3, <2>4
<1>5. CursorOK(found)
  BY <1>3, <1>4, SeenCursor
<1>6. CallType' /\ CursorsOK' /\ WalkInv' /\ FoundInv'
  BY <1>1, <1>2, <1>5, Descended
<1>7. SlotType' /\ CacheHoldsWalks'
  BY <1>1, <1>2, WalkedWhole, SlotAdded
<1>8. QED
  BY <1>6, <1>7 DEF IInv

LEMMA WalkMissingKeepsInv ==
    ASSUME TextAssumption, IInv, WalkMissing
    PROVE  IInv'
<1>1. Walked /\ Remember /\ Return("not_found", None, 0)
  BY DEF WalkMissing
<1>2. ~Empty(doc, at) /\ UNCHANGED doc
  BY <1>1 DEF Walked, Return
<1>3. CallType' /\ CursorsOK' /\ WalkInv' /\ FoundInv'
  BY <1>1, Returned
<1>4. SlotType' /\ CacheHoldsWalks'
  BY <1>1, <1>2, WalkedWhole, SlotAdded
<1>5. QED
  BY <1>3, <1>4 DEF IInv

LEMMA EntryFoundKeepsInv ==
    ASSUME TextAssumption, IInv, EntryFound
    PROVE  IInv'
<1>1. Child.fault = "none" /\ Return("ok", Cursor(Value, Child.end), here) /\ UNCHANGED skip
  BY DEF EntryFound
<1>2. CursorOK(Cursor(Value, Child.end))
  BY <1>1, ChildFacts
<1>3. QED
  BY <1>1, <1>2, ReturnKeepsInv

\* The iterator and the calls do not touch each other's state.
LEMMA IterKeepsCall ==
    ASSUME IInv, CursorsOK', UNCHANGED <<doc, skip, req, at, rest, walk, answer>>
    PROVE  IInv'
<1>1. UNCHANGED <<doc, skip, req, at, rest, here, starts, ends, found, answer>>
  BY DEF walk
<1>2. CallType'
  BY <1>1 DEF IInv, CallType
<1>3. WalkInv'
  BY <1>1 DEF IInv, WalkInv, Counting, Running
<1>4. FoundInv'
  BY <1>1 DEF IInv, FoundInv, Following, Running, Want
<1>5. SlotType' /\ CacheHoldsWalks'
  BY <1>1, SlotsKept DEF IInv
<1>6. QED
  BY <1>2, <1>3, <1>4, <1>5 DEF IInv

LEMMA IterInitKeepsInv ==
    ASSUME TextAssumption, IInv, NEW c \in cursors, IterInit(c)
    PROVE  IInv'
<1> DEFINE n == IF Empty(doc, c) THEN c.end ELSE c.start + 1
<1>1. /\ MarkAt(doc, c.start) = "lbrace" /\ iter' = [of |-> c, current |-> n, seen |-> 0]
      /\ UNCHANGED <<doc, skip, cursors, req, at, rest, walk, answer>>
  BY DEF IterInit
<1>2. CursorOK(c) /\ doc \in Texts
  BY DEF IInv, CursorsOK, CallType
<1>3. c.start \in Nat /\ c.start >= 1 /\ c.end \in Nat /\ c.end > c.start
  BY <1>1, <1>2, CursorFacts DEF Opener
<1>4. n \in Nat /\ n >= 1
  BY <1>3
<1>5. CursorsOK'
  BY <1>1, <1>2, <1>4 DEF IInv, CursorsOK, CursorOK
<1>6. QED
  BY <1>1, <1>5, IterKeepsCall

LEMMA IterNextKeepsInv ==
    ASSUME TextAssumption, IInv, IterNext
    PROVE  IInv'
<1> DEFINE v == iter.current + 3
           n == Span(doc, v).next
<1>1. /\ iter # None /\ iter.current < iter.of.end /\ Span(doc, v).fault = "none"
      /\ cursors' = cursors \cup {Cursor(v, Span(doc, v).end)}
      /\ iter' = [iter EXCEPT !.current = IterPast(n), !.seen = @ + 1]
      /\ UNCHANGED <<doc, skip, req, at, rest, walk, answer>>
  BY DEF IterNext
<1>2. /\ CursorOK(iter.of) /\ iter.current \in Nat /\ iter.current >= 1 /\ doc \in Texts
      /\ iter = [of |-> iter.of, current |-> iter.current, seen |-> iter.seen]
  BY <1>1 DEF IInv, CursorsOK, CallType
<1>3. n \in Nat
  BY <1>1, <1>2, SpanFacts, TextFacts
<1>4. iter.of.end \in Nat
  BY <1>2, CursorFacts
<1>5. IterPast(n) \in Nat /\ IterPast(n) >= 1
  BY <1>1, <1>2, <1>3, <1>4 DEF IterPast
<1>6. CursorOK(Cursor(v, Span(doc, v).end))
  BY <1>1, <1>2, ValueCursor
<1>7. iter' = [of |-> iter.of, current |-> IterPast(n), seen |-> iter.seen + 1]
  BY <1>1, <1>2
<1>8. \A c : CursorOK(c) => CursorOK(c)'
  BY <1>1 DEF CursorOK
<1>9. /\ \A c \in cursors' : CursorOK(c)'
      /\ CursorOK(iter.of)' /\ CursorOK(at)'
  <2>1. \A c \in cursors' : CursorOK(c)'
    BY <1>1, <1>6, <1>8 DEF IInv, CursorsOK
  <2>2. iter'.of = iter.of /\ at' = at
    BY <1>1, <1>7
  <2>3. QED
    BY <1>1, <1>2, <2>1, <2>2 DEF IInv, CursorsOK, CursorOK
<1>10. CursorsOK'
  BY <1>5, <1>7, <1>9 DEF CursorsOK
<1>11. QED
  BY <1>1, <1>10, IterKeepsCall

\* What a client asks for.
LEMMA CallFacts ==
    ASSUME CallAssumption, NEW c
    PROVE  /\ \A p \in Paths : Open(c, p).from = c /\ Open(c, p).path \in Seq(Seg)
           /\ Length(c).from = c /\ Length(c).path \in Seq(Seg)
BY DEF CallAssumption, Open, Length

LEMMA InitInv == TextAssumption /\ Init => IInv
<1> SUFFICES ASSUME TextAssumption, Init PROVE IInv
  OBVIOUS
<1>1. /\ doc \in Texts /\ at = Root(doc) /\ rest = <<>> /\ here = 2 /\ starts = <<>> /\ ends = <<>>
      /\ found = None /\ cursors = {Root(doc)} /\ iter = None /\ DOMAIN skip = {}
  BY DEF Init
<1>2. at.start = 1
  BY <1>1, TextFacts
<1>3. CallType
  BY <1>1, <1>2 DEF CallType
<1>4. CursorsOK
  BY <1>1 DEF CursorsOK, CursorOK
<1>5. WalkInv
  BY <1>1, <1>2 DEF WalkInv, IsWalk
<1>6. FoundInv
  BY <1>1 DEF FoundInv
<1>7. SlotType /\ CacheHoldsWalks
  BY <1>1 DEF SlotType, CacheHoldsWalks
<1>8. QED
  BY <1>3, <1>4, <1>5, <1>6, <1>7 DEF IInv

LEMMA NextInv == TextAssumption /\ CallAssumption /\ IInv /\ [Next]_vars => IInv'
<1> SUFFICES ASSUME TextAssumption, CallAssumption, IInv, [Next]_vars PROVE IInv'
  OBVIOUS
<1>1. CASE UNCHANGED vars
  <2>1. UNCHANGED <<doc, skip, req, at, rest, walk, answer>> /\ UNCHANGED <<cursors, iter>>
    BY <1>1 DEF vars
  <2>2. CursorsOK'
    BY <2>1 DEF IInv, CursorsOK, CursorOK
  <2>3. QED
    BY <2>1, <2>2, IterKeepsCall
<1>2. ASSUME NEW c \in cursors, NEW p \in Paths, Call(Open(c, p)) PROVE IInv'
  <2>1. Open(c, p).from \in cursors /\ Open(c, p).path \in Seq(Seg)
    BY <1>2, CallFacts
  <2>2. QED
    BY <1>2, <2>1, CallKeepsInv
<1>3. ASSUME NEW c \in cursors, NEW n \in Indices, Call(Entry(c, n)) PROVE IInv'
  <2>1. Entry(c, n).from \in cursors /\ Entry(c, n).path \in Seq(Seg)
    BY <1>3 DEF Entry
  <2>2. QED
    BY <1>3, <2>1, CallKeepsInv
<1>4. ASSUME NEW c \in cursors, Call(Length(c)) PROVE IInv'
  BY <1>4, CallFacts, CallKeepsInv
<1>5. ASSUME NEW c \in cursors, IterInit(c) PROVE IInv'
  BY <1>5, IterInitKeepsInv
<1>6. CASE IterNext
  BY <1>6, IterNextKeepsInv
<1>7. CASE Resolved
  BY <1>7, ReturnKeepsInv DEF Resolved, IInv, CursorsOK
<1>8. CASE StepRefused \/ HitMissing \/ WalkFails
  BY <1>8, RefuseKeepsInv DEF StepRefused, HitMissing, WalkFails
<1>9. CASE CountRefused \/ CountEmpty \/ CountFails
  BY <1>9, RefuseKeepsInv DEF CountRefused, CountEmpty, CountFails
<1>10. CASE CountEnds
  BY <1>10, ReturnKeepsInv DEF CountEnds
<1>11. CASE HitFound \/ WalkEmpty \/ WalkFound \/ WalkMissing
  BY <1>11, HitFoundKeepsInv, WalkEmptyKeepsInv, WalkFoundKeepsInv, WalkMissingKeepsInv
<1>12. CASE WalkChild \/ CountChild \/ EntryFound
  BY <1>12, WalkChildKeepsInv, CountChildKeepsInv, EntryFoundKeepsInv
<1>13. QED
  BY <1>1, <1>2, <1>3, <1>4, <1>5, <1>6, <1>7, <1>8, <1>9, <1>10, <1>11, <1>12 DEF Next, Work

-----------------------------------------------------------------------------
(* Theorems.                                                                *)

\* Whatever is looked up, counted and iterated, the skip cache holds for a
\* container all its children, in order and with their ends, and nothing else
\* (walk_children, cursor.rs; insert, skip_cache.rs).
THEOREM CacheTheorem ==
    ASSUME TextAssumption, CallAssumption
    PROVE  Spec => []CacheHoldsWalks
<1>1. Init => IInv
  BY InitInv
<1>2. IInv /\ [Next]_vars => IInv'
  BY NextInv
<1>3. IInv => CacheHoldsWalks
  BY DEF IInv
<1>4. QED
  BY <1>1, <1>2, <1>3, PTL DEF Spec

\* Every result but "running" ends the call.
LEMMA ReturnStops ==
    ASSUME NEW code, NEW c, NEW n, Return(code, c, n), code # "running"
    PROVE  ~Running' /\ answer'.code = code
BY DEF Return, Running

\* Every refusal ends the call, and none of those of the path walk is a miss.
LEMMA RefusalFacts ==
    /\ StepRefused \/ WalkFails => ~Running' /\ answer'.code # "not_found"
    /\ HitMissing \/ CountRefused \/ CountEmpty \/ CountFails => ~Running'
<1>1. StepRefused => ~Running' /\ answer'.code # "not_found"
  BY ReturnStops DEF StepRefused, Refuse
<1>2. WalkFails => ~Running' /\ answer'.code # "not_found"
  <2>1. Child.fault \in {"none", "parse_error", "oom"}
    BY FaultFacts DEF Child
  <2>2. QED
    BY <2>1, ReturnStops DEF WalkFails, Refuse
<1>3. HitMissing \/ CountRefused \/ CountEmpty => ~Running'
  BY ReturnStops DEF HitMissing, CountRefused, CountEmpty, Refuse
<1>4. CountFails => ~Running'
  <2>1. Child.fault \in {"none", "parse_error", "oom"}
    BY FaultFacts DEF Child
  <2>2. QED
    BY <2>1, ReturnStops DEF CountFails, Refuse
<1>5. QED
  BY <1>1, <1>2, <1>3, <1>4

\* A lookup steps to the first child that the segment matches, and misses only
\* if none does, whether the walk or the cache answers it (walk_children and
\* resolve_in_known_children, cursor.rs).
THEOREM FirstTheorem ==
    ASSUME TextAssumption, CallAssumption
    PROVE  Spec => LookupsTakeFirst
<1>1. Init => IInv
  BY InitInv
<1>2. IInv /\ [Next]_vars => IInv'
  BY NextInv
<1>3. IInv /\ [Next]_vars => [FirstChildOrNone]_vars
  <2> SUFFICES ASSUME IInv, Next, Following PROVE FirstChildOrNone
    BY DEF FirstChildOrNone, Descends, Misses
  <2>1. Running /\ rest \in Seq(Seg) /\ rest # <<>> /\ ~Counting
    BY DEF IInv, CallType, Following, Counting
  <2>2. CASE Resolved
    BY <2>2, <2>1 DEF Resolved, Following
  <2>3. CASE StepRefused \/ WalkFails
    BY <2>3, RefusalFacts DEF FirstChildOrNone, Descends, Misses
  <2>4. CASE HitFound
    <3>1. PICK k \in DOMAIN Slot.starts :
             /\ FirstMatch(doc, Want, Slot.starts, k)
             /\ Descend(Cursor(ValueOf(doc, at.start, Slot.starts[k]), Slot.ends[k]))
      BY <2>4 DEF HitFound
    <3>2. at.start \in DOMAIN skip /\ skip' = skip /\ Slot = skip[at.start]
      BY <2>4 DEF HitFound, Cached, Slot
    <3>3. at' = Cursor(ValueOf(doc, at.start, Slot.starts[k]), Slot.ends[k])
      BY <3>1 DEF Descend, Begin
    <3>4. ~Misses
      BY <2>1, <3>1 DEF Descend, Misses, Running
    <3>5. QED
      BY <3>1, <3>2, <3>3, <3>4 DEF FirstChildOrNone
  <2>5. CASE HitMissing
    <3>1. ~Descends
      BY <2>5, RefusalFacts DEF Descends
    <3>2. /\ at.start \in DOMAIN skip /\ skip' = skip
          /\ \A k \in DOMAIN skip[at.start].starts : ~Matches(doc, Want, skip[at.start].starts, k)
      BY <2>5 DEF HitMissing, Cached, Slot, Refuse
    <3>3. QED
      BY <3>1, <3>2 DEF FirstChildOrNone
  <2>6. ASSUME WalkEmpty \/ WalkMissing PROVE FirstChildOrNone
    <3>1. Remember /\ Return("not_found", None, 0)
      BY <2>6 DEF WalkEmpty, WalkMissing
    <3>2. ~Descends
      BY <3>1, ReturnStops DEF Descends
    <3>3. found = None
      <4>1. CASE WalkEmpty
        BY <4>1 DEF WalkEmpty, IInv, WalkInv, FoundInv
      <4>2. QED
        BY <2>6, <4>1 DEF WalkMissing
    <3>4. \A k \in DOMAIN starts : ~Matches(doc, Want, starts, k)
      BY <3>3 DEF IInv, FoundInv
    <3>5. at.start \in DOMAIN skip' /\ skip'[at.start].starts = starts
      BY <3>1 DEF Remember
    <3>6. QED
      BY <3>2, <3>4, <3>5 DEF FirstChildOrNone
  <2>7. CASE WalkFound
    <3>1. found # None /\ Remember /\ Descend(found)
      BY <2>7 DEF WalkFound
    <3>2. PICK k \in DOMAIN starts : /\ FirstMatch(doc, Want, starts, k)
                                     /\ found = Cursor(ValueOf(doc, at.start, starts[k]), ends[k])
      BY <3>1 DEF IInv, FoundInv
    <3>3. at' = found
      BY <3>1 DEF Descend, Begin
    <3>4. /\ at.start \in DOMAIN skip' /\ skip'[at.start].starts = starts
          /\ skip'[at.start].ends = ends
      BY <3>1 DEF Remember
    <3>5. ~Misses
      BY <2>1, <3>1 DEF Descend, Misses, Running
    <3>6. QED
      BY <3>2, <3>3, <3>4, <3>5 DEF FirstChildOrNone
  <2>8. CASE WalkChild
    BY <2>1, <2>8 DEF WalkChild, FirstChildOrNone, Descends, Misses, Running
  <2>9. ~(CountRefused \/ CountEmpty \/ EntryFound \/ CountEnds \/ CountFails \/ CountChild)
    BY <2>1 DEF CountRefused, CountEmpty, EntryFound, CountEnds, CountFails, CountChild, Visiting
  <2>10. Work
    BY <2>1 DEF Next, Call
  <2>11. QED
    BY <2>2, <2>3, <2>4, <2>5, <2>6, <2>7, <2>8, <2>9, <2>10 DEF Work
<1>4. QED
  BY <1>1, <1>2, <1>3, PTL DEF Spec, LookupsTakeFirst

\* Every step of a walk moves it forward, so no walk runs forever on what a text
\* has between its marks (walk_children, cursor.rs; nth_object_entry and
\* cursor_len, doc.rs).
THEOREM ForwardTheorem ==
    ASSUME TextAssumption, CallAssumption
    PROVE  Spec => WalksAdvance
<1>1. Init => IInv
  BY InitInv
<1>2. IInv /\ [Next]_vars => IInv'
  BY NextInv
<1>3. IInv /\ [Next]_vars => [Forward]_vars
  <2> SUFFICES ASSUME IInv, Next, Running, Running', rest' = rest PROVE here' > here
    BY DEF Forward
  <2>1. Work
    BY DEF Next, Call
  <2>2. ~(Resolved \/ WalkEmpty \/ WalkMissing \/ EntryFound \/ CountEnds)
    BY ReturnStops DEF Resolved, WalkEmpty, WalkMissing, EntryFound, CountEnds
  <2>3. ~(StepRefused \/ WalkFails \/ HitMissing \/ CountRefused \/ CountEmpty \/ CountFails)
    BY RefusalFacts
  <2>4. ~(HitFound \/ WalkFound)
    <3>1. rest \in Seq(Seg)
      BY DEF IInv, CallType
    <3>2. ASSUME HitFound \/ WalkFound PROVE rest' = Tail(rest) /\ rest # <<>>
      BY <3>2 DEF HitFound, WalkFound, Walked, Steps, Following, Descend
    <3>3. rest # <<>> => Tail(rest) # rest
      BY <3>1
    <3>4. QED
      BY <3>2, <3>3
  <2>5. at.end \in Nat /\ here \in Nat
    BY ChildFacts DEF IInv, CallType
  <2>6. Child.fault = "none" => Resume > here
    BY <2>5, ChildFacts DEF Resume
  <2>7. CASE WalkChild
    <3>1. /\ Child.fault = "none" /\ here <= at.end
          /\ here' = IF Follows = "comma" THEN Resume ELSE at.end + 1
      BY <2>7 DEF WalkChild, Walking, InLoop, Advance
    <3>2. QED
      BY <2>5, <2>6, <3>1
  <2>8. CASE CountChild
    BY <2>6, <2>8 DEF CountChild, Advance
  <2>9. QED
    BY <2>1, <2>2, <2>3, <2>4, <2>7, <2>8 DEF Work
<1>4. QED
  BY <1>1, <1>2, <1>3, PTL DEF Spec, WalksAdvance

-----------------------------------------------------------------------------
(* How deep a mark is in a container.                                       *)

Among(t, M, s, k) == {j \in s..k : t.mark[j] \in M}

LEMMA AmongFacts ==
    ASSUME NEW t, NEW M, NEW s \in Int, NEW k \in Int, NEW j \in Int, s <= j, j <= k
    PROVE  /\ Cardinality(Among(t, M, s, k)) \in Nat
           /\ Cardinality(Among(t, M, s, k)) =
                 Cardinality(Among(t, M, s, j)) + Cardinality(Among(t, M, j + 1, k))
           /\ Cardinality(Among(t, M, k, k)) = IF t.mark[k] \in M THEN 1 ELSE 0
<1>1. \A a, b \in Int : IsFiniteSet(Among(t, M, a, b)) /\ Cardinality(Among(t, M, a, b)) \in Nat
  <2> SUFFICES ASSUME NEW a \in Int, NEW b \in Int
               PROVE  IsFiniteSet(Among(t, M, a, b)) /\ Cardinality(Among(t, M, a, b)) \in Nat
    OBVIOUS
  <2>1. IsFiniteSet(a..b) /\ Among(t, M, a, b) \in SUBSET (a..b)
    BY FS_Interval DEF Among
  <2>2. QED
    BY <2>1, FS_Subset, FS_CardinalityType
<1>2. Among(t, M, s, k) = Among(t, M, s, j) \cup Among(t, M, j + 1, k)
  BY DEF Among
<1>3. Among(t, M, s, j) \cap Among(t, M, j + 1, k) = {}
  BY DEF Among
<1>4. Cardinality(Among(t, M, s, k)) =
         Cardinality(Among(t, M, s, j)) + Cardinality(Among(t, M, j + 1, k)) - Cardinality({})
  <2> DEFINE a == Among(t, M, s, j)
             b == Among(t, M, j + 1, k)
  <2>1. j + 1 \in Int
    OBVIOUS
  <2>2. IsFiniteSet(a) /\ IsFiniteSet(b)
    BY <1>1, <2>1
  <2>3. Among(t, M, s, k) = a \cup b /\ a \cap b = {}
    BY <1>2, <1>3
  <2> HIDE DEF a, b
  <2>4. Cardinality(a \cup b) = Cardinality(a) + Cardinality(b) - Cardinality(a \cap b)
    BY <2>2, FS_Union
  <2>5. Cardinality(Among(t, M, s, k)) = Cardinality(a) + Cardinality(b) - Cardinality({})
    BY <2>3, <2>4
  <2>6. QED
    BY <2>5 DEF a, b
<1>5. Cardinality({}) = 0
  BY FS_EmptySet
<1>6. Among(t, M, k, k) = IF t.mark[k] \in M THEN {k} ELSE {}
  BY DEF Among
<1>7. Cardinality({k}) = 1
  BY FS_Singleton
<1>8. Cardinality(Among(t, M, k, k)) = IF t.mark[k] \in M THEN 1 ELSE 0
  BY <1>5, <1>6, <1>7
<1>9. /\ Cardinality(Among(t, M, s, k)) \in Nat
      /\ Cardinality(Among(t, M, s, j)) \in Nat
      /\ Cardinality(Among(t, M, j + 1, k)) \in Nat
  <2>1. j + 1 \in Int
    OBVIOUS
  <2>2. QED
    BY <1>1, <2>1
<1>10. QED
  BY <1>4, <1>5, <1>8, <1>9

\* The depth at a mark is that at an earlier one and what lies between them.
LEMMA InsideFacts ==
    ASSUME NEW t, NEW s \in Int, NEW k \in Int, NEW j \in Int, s <= j, j <= k
    PROVE  /\ Inside(t, s, k) \in Int
           /\ j < k => Inside(t, s, k) = Inside(t, s, j) + Inside(t, j + 1, k)
           /\ Inside(t, k, k) = IF t.mark[k] \in Opener THEN 1
                                ELSE IF t.mark[k] \in Closer THEN -1 ELSE 0
<1> DEFINE c(M, a, b) == Cardinality(Among(t, M, a, b))
<1>1. \A a, b : Inside(t, a, b) = c(Opener, a, b) - c(Closer, a, b)
  BY DEF Inside, Among
<1>2. /\ c(Opener, s, k) = c(Opener, s, j) + c(Opener, j + 1, k)
      /\ c(Closer, s, k) = c(Closer, s, j) + c(Closer, j + 1, k)
      /\ c(Opener, s, k) \in Nat /\ c(Closer, s, k) \in Nat
      /\ c(Opener, k, k) = IF t.mark[k] \in Opener THEN 1 ELSE 0
      /\ c(Closer, k, k) = IF t.mark[k] \in Closer THEN 1 ELSE 0
  BY AmongFacts
<1>3. c(Opener, s, j) \in Nat /\ c(Closer, s, j) \in Nat
  BY AmongFacts
<1>4. j < k => c(Opener, j + 1, k) \in Nat /\ c(Closer, j + 1, k) \in Nat
  BY AmongFacts
<1>5. ~(t.mark[k] \in Opener /\ t.mark[k] \in Closer)
  BY DEF Opener, Closer
<1> HIDE DEF c
<1>6. Inside(t, s, k) \in Int
  BY <1>1, <1>2
<1>7. j < k => Inside(t, s, k) = Inside(t, s, j) + Inside(t, j + 1, k)
  BY <1>1, <1>2, <1>3, <1>4
<1>8. Inside(t, k, k) = c(Opener, k, k) - c(Closer, k, k)
  BY <1>1
<1>9. QED
  BY <1>2, <1>5, <1>6, <1>7, <1>8

\* From one mark to the next.
LEMMA InsideStep ==
    ASSUME NEW t, NEW s \in Int, NEW k \in Int, s <= k
    PROVE  Inside(t, s, k + 1) = Inside(t, s, k) + (IF t.mark[k + 1] \in Opener THEN 1
                                                    ELSE IF t.mark[k + 1] \in Closer THEN -1 ELSE 0)
<1>1. k + 1 \in Int /\ s <= k + 1 /\ k < k + 1 /\ k <= k + 1 /\ k + 1 <= k + 1
  OBVIOUS
<1>2. Inside(t, s, k + 1) = Inside(t, s, k) + Inside(t, k + 1, k + 1)
  BY <1>1, InsideFacts
<1>3. Inside(t, k + 1, k + 1) = IF t.mark[k + 1] \in Opener THEN 1
                                ELSE IF t.mark[k + 1] \in Closer THEN -1 ELSE 0
  BY <1>1, InsideFacts
<1>4. QED
  BY <1>2, <1>3

\* Up to the closer of a container one is inside it.
LEMMA InsidePositive ==
    ASSUME NEW t, NEW s \in Nat, t.mark[s] \in Opener, NEW c \in Nat, s < c,
           \A j \in s + 1..c - 1 : Inside(t, s, j) # 0
    PROVE  \A j \in s..c - 1 : Inside(t, s, j) >= 1
<1> DEFINE D == c - 1 - s
           S == {m \in 0..D : Inside(t, s, s + m) >= 1}
<1>0. D \in Nat
  OBVIOUS
<1>1. 0 \in S
  BY <1>0, InsideFacts
<1>2. ASSUME NEW m \in S, m < D
      PROVE  m + 1 \in S
  <2>1. m \in Nat /\ s + m \in Int /\ s <= s + m /\ Inside(t, s, s + m) >= 1
    OBVIOUS
  <2>2. Inside(t, s, s + m) \in Int
    BY <2>1, InsideFacts
  <2>3. Inside(t, s, s + m + 1) >= Inside(t, s, s + m) - 1 /\ Inside(t, s, s + m + 1) \in Int
    BY <2>1, <2>2, InsideStep
  <2>4. s + m + 1 \in s + 1..c - 1 /\ s + m + 1 = s + (m + 1) /\ m + 1 \in 0..D
    BY <1>2
  <2>5. Inside(t, s, s + m + 1) # 0
    BY <2>4
  <2>6. QED
    BY <2>1, <2>2, <2>3, <2>4, <2>5
<1>3. S = 0..D
  <2>1. S \subseteq 0..D
    OBVIOUS
  <2> HIDE DEF S, D
  <2>2. QED
    BY <1>0, <1>1, <1>2, <2>1, Climb
<1>4. ASSUME NEW j \in s..c - 1 PROVE Inside(t, s, j) >= 1
  <2>1. j - s \in 0..D /\ s + (j - s) = j
    OBVIOUS
  <2>2. j - s \in S
    BY <1>3, <2>1
  <2>3. QED
    BY <2>1, <2>2
<1>5. QED
  BY <1>4

-----------------------------------------------------------------------------
(* The children of a container in JSON.                                     *)

\* In JSON a container has one closer, one is inside it up to there, and its
\* commas are those at its own level before the closer.
LEMMA ContainerFacts ==
    ASSUME NEW t, N(t) \in Nat, IsJson(t), NEW o \in 1..N(t), MarkAt(t, o) \in Opener
    PROVE  LET c == CloserAt(t, o)
           IN  /\ c \in o + 1..N(t) /\ Inside(t, o, c) = 0 /\ MarkAt(t, c) = CloserOf(MarkAt(t, o))
               /\ Span(t, o) = Ends(c, c + 1)
               /\ c = CHOOSE k \in o + 1..N(t) : Closes(t, o, k)
               /\ \A j \in o..c - 1 : Inside(t, o, j) >= 1
               /\ Commas(t, o) = {k \in o + 1..c - 1 : MarkAt(t, k) = "comma" /\ Inside(t, o, k) = 1}
<1> DEFINE c == CloserAt(t, o)
<1>0. \A j \in 1..N(t) : MarkAt(t, j) = t.mark[j]
  BY DEF MarkAt
<1>1. Paired(t, o)
  BY DEF IsJson
<1>2. c \in o + 1..N(t) /\ Closes(t, o, c) /\ t.mark[c] = CloserOf(t.mark[o])
  BY <1>1 DEF Paired, CloserAt
<1>3. Span(t, o) = Ends(c, c + 1)
  BY <1>1 DEF Span, Opener
<1> HIDE DEF c
<1>4. Inside(t, o, c) = 0 /\ \A j \in o + 1..c - 1 : Inside(t, o, j) # 0
  BY <1>2 DEF Closes
<1>5. \A k \in o + 1..N(t) : Closes(t, o, k) => k = c
  <2> SUFFICES ASSUME NEW k \in o + 1..N(t), Closes(t, o, k), k # c PROVE FALSE
    OBVIOUS
  <2>1. Inside(t, o, k) = 0 /\ \A j \in o + 1..k - 1 : Inside(t, o, j) # 0
    BY DEF Closes
  <2>2. k \in o + 1..c - 1 \/ c \in o + 1..k - 1
    BY <1>2
  <2>3. QED
    BY <1>4, <2>1, <2>2
<1>6. c = CHOOSE k \in o + 1..N(t) : Closes(t, o, k)
  BY <1>2, <1>5
<1>7. \A j \in o..c - 1 : Inside(t, o, j) >= 1
  <2>1. t.mark[o] \in Opener /\ o \in Nat /\ c \in Nat /\ o < c
    BY <1>0, <1>2
  <2>2. QED
    BY <2>1, <1>4, InsidePositive
<1>8. ASSUME NEW k
      PROVE  k \in Commas(t, o) <=>
                k \in o + 1..c - 1 /\ MarkAt(t, k) = "comma" /\ Inside(t, o, k) = 1
  <2>1. ASSUME k \in Commas(t, o)
        PROVE  k \in o + 1..c - 1 /\ MarkAt(t, k) = "comma" /\ Inside(t, o, k) = 1
    <3>1. /\ k \in o + 1..N(t) /\ t.mark[k] = "comma" /\ Inside(t, o, k) = 1
          /\ \A j \in o + 1..k : Inside(t, o, j) # 0
      BY <2>1 DEF Commas
    <3>2. ~(c \in o + 1..k)
      BY <3>1, <1>4
    <3>3. k \in 1..N(t) /\ k \in o + 1..c - 1
      BY <3>1, <3>2, <1>2
    <3>4. QED
      BY <3>1, <3>3, <1>0
  <2>2. ASSUME k \in o + 1..c - 1, MarkAt(t, k) = "comma", Inside(t, o, k) = 1
        PROVE  k \in Commas(t, o)
    <3>1. k \in o + 1..N(t) /\ k \in 1..N(t) /\ \A j \in o + 1..k : j \in o + 1..c - 1
      BY <2>2, <1>2
    <3>2. QED
      BY <3>1, <2>2, <1>0, <1>4 DEF Commas
  <2>3. QED
    BY <2>1, <2>2
<1>9. Commas(t, o) = {k \in o + 1..c - 1 : MarkAt(t, k) = "comma" /\ Inside(t, o, k) = 1}
  BY <1>8
<1>10. MarkAt(t, c) = CloserOf(MarkAt(t, o))
  BY <1>0, <1>2
<1>11. QED
  BY <1>2, <1>3, <1>4, <1>6, <1>7, <1>9, <1>10 DEF c

\* A mark that is not a bracket leaves one where one was.
LEMMA Beside ==
    ASSUME NEW t, N(t) \in Nat, NEW o \in Nat, NEW c \in Nat, c <= N(t), Inside(t, o, c) = 0,
           NEW p \in Nat, o <= p, p < c, Inside(t, o, p) = 1,
           MarkAt(t, p + 1) \in {"quote", "colon", "comma"}
    PROVE  p + 1 < c /\ Inside(t, o, p + 1) = 1
<1>1. MarkAt(t, p + 1) = t.mark[p + 1]
  BY DEF MarkAt
<1>2. t.mark[p + 1] \notin Opener \cup Closer
  BY <1>1 DEF Opener, Closer
<1>3. Inside(t, o, p + 1) = 1
  BY <1>2, InsideStep
<1>4. p + 1 # c
  BY <1>3
<1>5. QED
  BY <1>3, <1>4

\* What spans say of a mark.
LEMMA SpanIs ==
    ASSUME NEW t, NEW s, Span(t, s).fault = "none"
    PROVE  /\ MarkAt(t, s) \notin {"outside", "end"}
           /\ MarkAt(t, s) = "quote" => Span(t, s) = Ends(s + 1, s + 2)
           /\ MarkAt(t, s) \in Opener =>
                 Paired(t, s) /\ Span(t, s) = Ends(CloserAt(t, s), CloserAt(t, s) + 1)
           /\ MarkAt(t, s) \notin Opener \cup {"quote"} => Span(t, s) = Ends(s + 1, s)
<1>1. CASE MarkAt(t, s) = "outside"
  BY <1>1 DEF Span, Fault, Opener
<1>2. CASE MarkAt(t, s) = "end"
  BY <1>2 DEF Span, Fault, Opener
<1>3. CASE MarkAt(t, s) = "quote"
  BY <1>3 DEF Span, Opener
<1>4. CASE MarkAt(t, s) \in Opener
  <2>1. Span(t, s) = IF Paired(t, s) THEN Ends(CloserAt(t, s), CloserAt(t, s) + 1)
                     ELSE Fault("parse_error")
    BY <1>4 DEF Span, Opener
  <2>2. Paired(t, s)
    BY <2>1 DEF Fault
  <2>3. QED
    BY <1>4, <2>1, <2>2 DEF Opener
<1>5. CASE MarkAt(t, s) \notin Opener \cup {"quote", "end", "outside"}
  BY <1>5 DEF Span
<1>6. QED
  BY <1>1, <1>2, <1>3, <1>4, <1>5

\* From the mark before a value to the one after it, no comma is the container's own.
LEMMA ValueNext ==
    ASSUME NEW t, N(t) \in Nat, IsJson(t), NEW o \in Nat, NEW c \in Nat, c <= N(t), Inside(t, o, c) = 0,
           NEW p \in Nat, o <= p, p < c, Inside(t, o, p) = 1,
           MarkAt(t, p + 1) = "quote" => MarkAt(t, p + 2) = "quote",
           Span(t, p + 1).fault = "none"
    PROVE  LET n == Span(t, p + 1).next
           IN  /\ n \in p + 1..c /\ Inside(t, o, n - 1) = 1
               /\ \A j \in p + 1..n - 1 : MarkAt(t, j) = "comma" => Inside(t, o, j) # 1
<1> DEFINE v == p + 1
           n == Span(t, v).next
<1>0. v \in 1..N(t) /\ MarkAt(t, v) = t.mark[v] /\ v <= c
  BY DEF MarkAt
<1>1. CASE MarkAt(t, v) = "quote"
  <2>1. n = v + 2
    BY <1>1, SpanIs DEF Ends, Opener
  <2>2. v < c /\ Inside(t, o, v) = 1
    BY <1>1, Beside
  <2>3. MarkAt(t, v + 1) = "quote" /\ v \in Nat /\ o <= v
    BY <1>1
  <2>4. v + 1 < c /\ Inside(t, o, v + 1) = 1
    BY <2>2, <2>3, Beside
  <2>5. \A j \in v..v + 1 : MarkAt(t, j) = "quote"
    BY <1>1, <2>3
  <2>6. QED
    BY <2>1, <2>4, <2>5
<1>2. CASE MarkAt(t, v) \in Opener
  <2> DEFINE d == CloserAt(t, v)
  <2>1. n = d + 1
    BY <1>2, SpanIs DEF Ends
  <2>2. /\ d \in v + 1..N(t) /\ Inside(t, v, d) = 0 /\ MarkAt(t, d) = CloserOf(MarkAt(t, v))
        /\ \A j \in v..d - 1 : Inside(t, v, j) >= 1
    BY <1>0, <1>2, ContainerFacts
  <2> HIDE DEF d
  <2>3. ASSUME NEW j \in v..N(t)
        PROVE  Inside(t, o, j) = 1 + Inside(t, v, j) /\ Inside(t, v, j) \in Int
    <3>1. p < j /\ o <= p /\ o \in Int /\ j \in Int /\ p \in Int /\ v \in Int /\ v <= j
      OBVIOUS
    <3>2. Inside(t, o, j) = Inside(t, o, p) + Inside(t, v, j)
      BY <3>1, InsideFacts
    <3>3. Inside(t, v, j) \in Int
      BY <3>1, InsideFacts
    <3>4. QED
      BY <3>2, <3>3
  <2>4. \A j \in v..d - 1 : Inside(t, o, j) > 1
    <3> SUFFICES ASSUME NEW j \in v..d - 1 PROVE Inside(t, o, j) > 1
      OBVIOUS
    <3>1. j \in v..N(t) /\ Inside(t, v, j) >= 1
      BY <2>2
    <3>2. QED
      BY <3>1, <2>3
  <2>5. Inside(t, o, d) = 1
    BY <2>2, <2>3
  <2>6. c \notin v..d
    <3>1. c \in v..d - 1 => Inside(t, o, c) > 1
      BY <2>4
    <3>2. QED
      BY <3>1, <2>2, <2>5
  <2>7. MarkAt(t, d) # "comma"
    BY <2>2 DEF CloserOf
  <2>8. \A j \in v..d : MarkAt(t, j) = "comma" => Inside(t, o, j) # 1
    BY <2>2, <2>4, <2>7
  <2>9. QED
    BY <1>0, <2>1, <2>2, <2>5, <2>6, <2>8
<1>3. CASE MarkAt(t, v) \notin Opener \cup {"quote"}
  <2>1. n = v
    BY <1>3, SpanIs DEF Ends
  <2>2. QED
    BY <2>1
<1>4. QED
  BY <1>1, <1>2, <1>3

\* The mark after a child of a container is its next comma, or its closer.
LEMMA ChildNext ==
    ASSUME NEW t, N(t) \in Nat, IsJson(t), NEW o \in 1..N(t), MarkAt(t, o) \in Opener,
           NEW k \in Commas(t, o) \cup {o}, IsChild(t, o, k + 1)
    PROVE  LET v == ValueOf(t, o, k + 1)
               n == Span(t, v).next
               c == CloserAt(t, o)
           IN  /\ k \in Nat /\ v \in 1..N(t) /\ n \in k + 1..c /\ Span(t, v).fault = "none"
               /\ \A j \in k + 1..n - 1 : j \notin Commas(t, o)
               /\ \/ MarkAt(t, n) = "comma" /\ n \in Commas(t, o)
                  \/ MarkAt(t, n) = CloserOf(MarkAt(t, o)) /\ n = c
<1> DEFINE v == ValueOf(t, o, k + 1)
           n == Span(t, v).next
           c == CloserAt(t, o)
           p == v - 1
<1>1. /\ c \in o + 1..N(t) /\ Inside(t, o, c) = 0 /\ MarkAt(t, c) = CloserOf(MarkAt(t, o))
      /\ \A j \in o..c - 1 : Inside(t, o, j) >= 1
      /\ Commas(t, o) = {j \in o + 1..c - 1 : MarkAt(t, j) = "comma" /\ Inside(t, o, j) = 1}
  BY ContainerFacts
<1> HIDE DEF c
<1>2. k \in Nat /\ o <= k /\ k < c /\ Inside(t, o, k) = 1
  <2>1. MarkAt(t, o) = t.mark[o]
    BY DEF MarkAt
  <2>2. Inside(t, o, o) = 1
    BY <2>1, InsideFacts
  <2>3. QED
    BY <1>1, <2>2
<1>3. /\ p \in Nat /\ k <= p /\ p < c /\ Inside(t, o, p) = 1 /\ v = p + 1
      /\ \A j \in k + 1..p : MarkAt(t, j) # "comma"
  <2>1. CASE MarkAt(t, o) = "lbrace"
    <3>1. /\ MarkAt(t, k + 1) = "quote" /\ MarkAt(t, k + 2) = "quote" /\ MarkAt(t, k + 3) = "colon"
          /\ v = k + 4
      BY <1>2, <2>1 DEF IsChild, ValueOf
    <3>2. k + 1 < c /\ Inside(t, o, k + 1) = 1
      BY <1>1, <1>2, <3>1, Beside
    <3>3. k + 2 < c /\ Inside(t, o, k + 2) = 1
      <4>1. k + 1 \in Nat /\ o <= k + 1 /\ MarkAt(t, k + 1 + 1) = "quote"
        BY <1>2, <3>1
      <4>2. k + 1 + 1 < c /\ Inside(t, o, k + 1 + 1) = 1
        BY <1>1, <3>2, <4>1, Beside
      <4>3. QED
        BY <4>2, <1>2
    <3>4. k + 3 < c /\ Inside(t, o, k + 3) = 1
      <4>1. k + 2 \in Nat /\ o <= k + 2 /\ MarkAt(t, k + 2 + 1) = "colon"
        BY <1>2, <3>1
      <4>2. k + 2 + 1 < c /\ Inside(t, o, k + 2 + 1) = 1
        BY <1>1, <3>3, <4>1, Beside
      <4>3. QED
        BY <4>2, <1>2
    <3>5. p = k + 3 /\ \A j \in k + 1..p : j = k + 1 \/ j = k + 2 \/ j = k + 3
      BY <1>2, <3>1
    <3>6. QED
      BY <1>2, <3>1, <3>4, <3>5
  <2>2. CASE MarkAt(t, o) # "lbrace"
    <3>1. v = k + 1
      BY <2>2 DEF ValueOf
    <3>2. QED
      BY <1>2, <3>1
  <2>3. QED
    BY <2>1, <2>2
<1>4. /\ MarkAt(t, v) = "quote" => MarkAt(t, v + 1) = "quote"
      /\ Span(t, v).fault = "none" /\ MarkAt(t, n) \in Closer \cup {"comma"}
  BY DEF IsChild
<1> HIDE DEF v, p
<1>5. /\ n \in p + 1..c /\ Inside(t, o, n - 1) = 1
      /\ \A j \in p + 1..n - 1 : MarkAt(t, j) = "comma" => Inside(t, o, j) # 1
  <2>1. v + 1 = p + 2 /\ o \in Nat /\ c \in Nat /\ c <= N(t) /\ o <= p
    BY <1>1, <1>2, <1>3
  <2>2. QED
    BY <1>1, <1>3, <1>4, <2>1, ValueNext
<1> HIDE DEF n
<1>6. k \in Nat /\ v \in 1..N(t) /\ n \in k + 1..c
  BY <1>1, <1>2, <1>3, <1>5
<1>7. ASSUME NEW j \in k + 1..n - 1 PROVE j \notin Commas(t, o)
  <2>1. j \in k + 1..p \/ j \in p + 1..n - 1
    BY <1>3, <1>5, <1>6
  <2>2. MarkAt(t, j) = "comma" => Inside(t, o, j) # 1
    BY <2>1, <1>3, <1>5
  <2>3. QED
    BY <2>2, <1>1
<1>8. \/ MarkAt(t, n) = "comma" /\ n \in Commas(t, o)
      \/ MarkAt(t, n) = CloserOf(MarkAt(t, o)) /\ n = c
  <2>0. n \in 1..N(t) /\ n - 1 \in Int /\ o <= n - 1 /\ n - 1 + 1 = n
    BY <1>1, <1>2, <1>6
  <2>1. MarkAt(t, n) = t.mark[n]
    BY <2>0 DEF MarkAt
  <2>2. Inside(t, o, n) = 1 + (IF t.mark[n] \in Opener THEN 1 ELSE IF t.mark[n] \in Closer THEN -1 ELSE 0)
    BY <2>0, <1>5, InsideStep
  <2>3. CASE MarkAt(t, n) = "comma"
    <3>1. Inside(t, o, n) = 1
      BY <2>1, <2>2, <2>3 DEF Opener, Closer
    <3>2. n \in o + 1..c - 1
      BY <3>1, <1>1, <1>2, <1>6
    <3>3. QED
      BY <2>3, <3>1, <3>2, <1>1
  <2>4. CASE MarkAt(t, n) \in Closer
    <3>1. Inside(t, o, n) = 0
      BY <2>1, <2>2, <2>4 DEF Opener, Closer
    <3>2. n \notin o..c - 1
      BY <3>1, <1>1
    <3>3. n = c
      BY <3>2, <2>0, <1>6, <1>1, <1>2
    <3>4. QED
      BY <3>3, <1>1
  <2>5. QED
    BY <1>4, <2>3, <2>4
<1>9. QED
  BY <1>4, <1>6, <1>7, <1>8 DEF v, n, c

\* A container of a text that is JSON.
Container(o) == doc \in Texts /\ doc.json /\ o \in 1..N(doc) /\ MarkAt(doc, o) \in Opener

LEMMA MembersFacts ==
    ASSUME TextAssumption, JsonAssumption, NEW o, Container(o)
    PROVE  /\ N(doc) \in Nat /\ IsJson(doc) /\ o \in Nat
           /\ CloserAt(doc, o) \in Nat /\ CloserAt(doc, o) > o
           /\ EndOf(doc, o) = CloserAt(doc, o) /\ Limit(doc, o) = CloserAt(doc, o)
           /\ Empty(doc, Cursor(o, Limit(doc, o))) <=> Blanked(doc, o)
           /\ Blanked(doc, o) => Members(doc, o) = <<>>
           /\ ~Blanked(doc, o) => /\ Members(doc, o) = ByRank(Begins(doc, o))
                             /\ \A s \in Begins(doc, o) : IsChild(doc, o, s)
           /\ Begins(doc, o) \in SUBSET Nat /\ IsFiniteSet(Begins(doc, o))
<1> DEFINE c == CloserAt(doc, o)
<1>1. N(doc) \in Nat /\ IsJson(doc) /\ o \in 1..N(doc) /\ MarkAt(doc, o) \in Opener /\ doc \in Texts
  BY TextFacts DEF Container, JsonAssumption
<1>2. /\ c \in o + 1..N(doc) /\ Span(doc, o) = Ends(c, c + 1) /\ EndOf(doc, o) = c
      /\ Commas(doc, o) = {k \in o + 1..c - 1 : MarkAt(doc, k) = "comma" /\ Inside(doc, o, k) = 1}
  BY <1>1, ContainerFacts DEF EndOf
<1>3. /\ o = 1 => c = N(doc)
      /\ (c = o + 1 /\ After(doc, o) = Blank) \/ \A s \in Begins(doc, o) : IsChild(doc, o, s)
  BY <1>1 DEF IsJson
<1> HIDE DEF c
<1>4. Limit(doc, o) = c
  <2>1. CASE o = 1
    <3>1. Root(doc).end = N(doc)
      BY <1>1, <2>1 DEF Root, Cursor
    <3>2. QED
      BY <2>1, <3>1, <1>3 DEF Limit
  <2>2. CASE o # 1
    BY <2>2, <1>2 DEF Limit, Ends
  <2>3. QED
    BY <2>1, <2>2
<1>5. Empty(doc, Cursor(o, Limit(doc, o))) <=> Blanked(doc, o)
  BY <1>2, <1>4 DEF Empty, Cursor, Blanked
<1>6. Blanked(doc, o) => Members(doc, o) = <<>>
  BY DEF Members
<1>7. ~Blanked(doc, o) => /\ Members(doc, o) = ByRank(Begins(doc, o))
                     /\ \A s \in Begins(doc, o) : IsChild(doc, o, s)
  <2>1. ~Blanked(doc, o) => Members(doc, o) = ByRank(Begins(doc, o))
    BY DEF Members, ByRank, UpTo
  <2>2. QED
    BY <2>1, <1>2, <1>3 DEF Blanked
<1>8. Begins(doc, o) \in SUBSET (1..N(doc) + 1)
  BY <1>1, <1>2 DEF Begins
<1>9. Begins(doc, o) \in SUBSET Nat /\ IsFiniteSet(Begins(doc, o))
  <2> DEFINE top == N(doc) + 1
  <2>1. top \in Int /\ 1 \in Int /\ 1..top \subseteq Nat
    BY <1>1
  <2>2. Begins(doc, o) \in SUBSET (1..top)
    BY <1>8
  <2> HIDE DEF top
  <2>3. IsFiniteSet(1..top)
    BY <2>1, FS_Interval
  <2>4. QED
    BY <2>1, <2>2, <2>3, FS_Subset
<1>10. QED
  BY <1>1, <1>2, <1>4, <1>5, <1>6, <1>7, <1>9 DEF c

\* The children in order: the first begins after the opener, and each of the
\* others after the comma that follows the one before.
LEMMA MembersNext ==
    ASSUME TextAssumption, JsonAssumption, NEW o, Container(o), ~Blanked(doc, o)
    PROVE  /\ Members(doc, o) \in Seq(Nat) /\ Len(Members(doc, o)) >= 1 /\ Members(doc, o)[1] = o + 1
           /\ \A n \in 1..Len(Members(doc, o)) :
                 LET s == Members(doc, o)[n]
                     v == ValueOf(doc, o, s)
                     x == Span(doc, v).next
                 IN  /\ IsChild(doc, o, s) /\ Span(doc, v).fault = "none" /\ x \in Nat
                     /\ x <= CloserAt(doc, o)
                     /\ \/ /\ MarkAt(doc, x) = "comma" /\ x < CloserAt(doc, o)
                           /\ n + 1 \in 1..Len(Members(doc, o)) /\ Members(doc, o)[n + 1] = x + 1
                        \/ /\ MarkAt(doc, x) = CloserOf(MarkAt(doc, o)) /\ x = CloserAt(doc, o)
                           /\ n = Len(Members(doc, o))
<1> DEFINE M == Members(doc, o)
           S == Begins(doc, o)
           c == CloserAt(doc, o)
<1>1. /\ N(doc) \in Nat /\ IsJson(doc) /\ c \in Nat /\ o \in 1..N(doc) /\ MarkAt(doc, o) \in Opener
      /\ M = ByRank(S) /\ (\A s \in S : IsChild(doc, o, s)) /\ S \in SUBSET Nat /\ IsFiniteSet(S)
  BY MembersFacts DEF Container
<1>2. \A k \in Commas(doc, o) : k \in Nat /\ k > o
  BY <1>1 DEF Commas
<1>3. /\ o + 1 \in S /\ (\A k \in Commas(doc, o) : k + 1 \in S)
      /\ \A s \in S : \E k \in Commas(doc, o) \cup {o} : s = k + 1
  BY DEF Begins
<1> HIDE DEF M, S, c
<1>4. /\ M \in Seq(Nat) /\ Len(M) = Cardinality(S) /\ Len(M) \in Nat
      /\ \A n \in 1..Len(M) : M[n] \in S
  BY <1>1, ByRankFacts
<1>5. /\ \A x \in S : (\A r \in S : x <= r) => Len(M) >= 1 /\ M[1] = x
      /\ \A n \in 1..Len(M), x \in S :
            M[n] < x /\ (\A r \in S : r <= M[n] \/ x <= r) => n + 1 \in 1..Len(M) /\ M[n + 1] = x
      /\ \A n \in 1..Len(M) : (\A r \in S : r <= M[n]) => n = Len(M)
  <2>1. M = ByRank(S) /\ Len(M) = Cardinality(S)
    BY <1>1, <1>4
  <2>2. \A x \in S : (\A r \in S : x <= r) => Cardinality(S) >= 1 /\ ByRank(S)[1] = x
    BY <1>1, ByRankOrder
  <2>3. \A n \in 1..Cardinality(S), x \in S :
           ByRank(S)[n] < x /\ (\A r \in S : r <= ByRank(S)[n] \/ x <= r)
              => n + 1 \in 1..Cardinality(S) /\ ByRank(S)[n + 1] = x
    BY <1>1, ByRankOrder
  <2>4. \A n \in 1..Cardinality(S) : (\A r \in S : r <= ByRank(S)[n]) => n = Cardinality(S)
    BY <1>1, ByRankOrder
  <2>5. QED
    BY <2>1, <2>2, <2>3, <2>4
<1>6. Len(M) >= 1 /\ M[1] = o + 1
  <2>1. \A r \in S : o + 1 <= r
    BY <1>1, <1>2, <1>3
  <2>2. QED
    BY <2>1, <1>3, <1>5
<1>7. ASSUME NEW n \in 1..Len(M)
      PROVE  LET s == M[n]
                 v == ValueOf(doc, o, s)
                 x == Span(doc, v).next
             IN  /\ IsChild(doc, o, s) /\ Span(doc, v).fault = "none" /\ x \in Nat /\ x <= c
                 /\ \/ /\ MarkAt(doc, x) = "comma" /\ x < c
                       /\ n + 1 \in 1..Len(M) /\ M[n + 1] = x + 1
                    \/ /\ MarkAt(doc, x) = CloserOf(MarkAt(doc, o)) /\ x = c
                       /\ n = Len(M)
  <2>1. PICK k \in Commas(doc, o) \cup {o} : M[n] = k + 1
    BY <1>3, <1>4
  <2>2. IsChild(doc, o, k + 1)
    BY <1>1, <1>4, <2>1
  <2> DEFINE v == ValueOf(doc, o, k + 1)
             x == Span(doc, v).next
  <2>3. /\ k \in Nat /\ x \in k + 1..c /\ Span(doc, v).fault = "none"
        /\ \A j \in k + 1..x - 1 : j \notin Commas(doc, o)
        /\ \/ MarkAt(doc, x) = "comma" /\ x \in Commas(doc, o)
           \/ MarkAt(doc, x) = CloserOf(MarkAt(doc, o)) /\ x = c
    BY <1>1, <2>2, ChildNext DEF c
  <2> HIDE DEF x
  <2>4. \A j \in Commas(doc, o) : j <= k \/ x <= j
    <3> SUFFICES ASSUME NEW j \in Commas(doc, o), ~(j <= k), ~(x <= j) PROVE FALSE
      OBVIOUS
    <3>1. j \in Nat /\ k \in Nat /\ x \in Nat
      BY <1>1, <1>2, <2>3
    <3>2. j \in k + 1..x - 1
      BY <3>1
    <3>3. QED
      BY <3>2, <2>3
  <2>5. \A j \in Commas(doc, o) : j < c
    <3>1. Commas(doc, o) = {j \in o + 1..c - 1 : MarkAt(doc, j) = "comma" /\ Inside(doc, o, j) = 1}
      BY <1>1, ContainerFacts DEF c
    <3>2. QED
      BY <3>1, <1>1
  <2>6. o <= k
    BY <1>1, <1>2
  <2>7. CASE MarkAt(doc, x) = "comma" /\ x \in Commas(doc, o)
    <3>1. \A r \in S : r <= k + 1 \/ x + 1 <= r
      <4> SUFFICES ASSUME NEW r \in S PROVE r <= k + 1 \/ x + 1 <= r
        OBVIOUS
      <4>1. PICK j \in Commas(doc, o) \cup {o} : r = j + 1
        BY <1>3
      <4>2. j <= k \/ x <= j
        BY <2>4, <2>6
      <4>3. j \in Nat
        BY <1>1, <1>2
      <4>4. QED
        BY <4>1, <4>2, <4>3, <2>3
    <3>2. x + 1 \in S /\ k + 1 < x + 1 /\ x < c
      BY <1>3, <2>3, <2>5, <2>7
    <3>3. n + 1 \in 1..Len(M) /\ M[n + 1] = x + 1
      BY <1>5, <2>1, <3>1, <3>2
    <3>4. QED
      BY <2>1, <2>2, <2>3, <2>7, <3>2, <3>3, <1>1 DEF x
  <2>8. CASE MarkAt(doc, x) = CloserOf(MarkAt(doc, o)) /\ x = c
    <3>1. \A r \in S : r <= k + 1
      <4> SUFFICES ASSUME NEW r \in S PROVE r <= k + 1
        OBVIOUS
      <4>1. PICK j \in Commas(doc, o) \cup {o} : r = j + 1
        BY <1>3
      <4>2. j <= k
        BY <2>4, <2>5, <2>6, <2>8, <1>1, <1>2
      <4>3. j \in Nat
        BY <1>1, <1>2
      <4>4. QED
        BY <4>1, <4>2, <4>3, <2>3
    <3>2. n = Len(M)
      BY <1>5, <2>1, <3>1
    <3>3. QED
      BY <2>1, <2>2, <2>3, <2>8, <3>2, <1>1 DEF x
  <2>9. QED
    BY <2>3, <2>7, <2>8
<1>8. QED
  BY <1>4, <1>6, <1>7 DEF M, c

\* A walk sees the children from the first on, and a whole walk all of them.
LEMMA WalkMembers ==
    ASSUME TextAssumption, JsonAssumption, NEW o, Container(o), ~Blanked(doc, o),
           NEW s \in Seq(Nat), NEW e, IsWalk(doc, o, s, e)
    PROVE  /\ Len(s) <= Len(Members(doc, o)) /\ \A k \in 1..Len(s) : s[k] = Members(doc, o)[k]
           /\ s # <<>> /\ IsWhole(doc, o, s) => Len(s) = Len(Members(doc, o))
<1> DEFINE M == Members(doc, o)
           x(k) == Span(doc, ValueOf(doc, o, M[k])).next
           D == Len(s)
           S == {m \in 0..D : m <= Len(M) /\ \A k \in 1..m : s[k] = M[k]}
<1>1. /\ M \in Seq(Nat) /\ Len(M) \in Nat /\ Len(M) >= 1 /\ M[1] = o + 1 /\ o \in Nat
      /\ Limit(doc, o) = CloserAt(doc, o) /\ CloserAt(doc, o) \in Nat
  BY MembersFacts, MembersNext
<1>2. \A n \in 1..Len(M) :
         /\ x(n) \in Nat
         /\ \/ /\ MarkAt(doc, x(n)) = "comma" /\ x(n) < CloserAt(doc, o)
               /\ n + 1 \in 1..Len(M) /\ M[n + 1] = x(n) + 1
            \/ MarkAt(doc, x(n)) = CloserOf(MarkAt(doc, o)) /\ n = Len(M)
  BY MembersNext
<1>3. CloserOf(MarkAt(doc, o)) # "comma"
  BY DEF CloserOf
<1>4. \A k \in 1..Len(s) :
         /\ k = 1 => s[k] = o + 1
         /\ k < Len(s) => LET n == Span(doc, ValueOf(doc, o, s[k])).next
                          IN  MarkAt(doc, n) = "comma" /\ s[k + 1] = n + 1
  <2>1. DOMAIN s = 1..Len(s)
    OBVIOUS
  <2> HIDE DEF M, x, D, S
  <2>2. QED
    BY <2>1 DEF IsWalk
<1> HIDE DEF M
<1>5. D \in Nat /\ 0 \in S
  BY <1>1
<1>6. ASSUME NEW m \in S, m < D
      PROVE  m + 1 \in S
  <2>1. m \in Nat /\ m <= Len(M) /\ (\A k \in 1..m : s[k] = M[k]) /\ m + 1 \in 1..Len(s)
    BY <1>5, <1>6
  <2>2. m + 1 <= Len(M) /\ s[m + 1] = M[m + 1]
    <3>1. CASE m = 0
      BY <1>1, <1>4, <2>1, <3>1
    <3>2. CASE m # 0
      <4> HIDE DEF S, x
      <4>0. m \in Nat /\ Len(s) \in Nat /\ Len(M) \in Nat /\ m + 1 <= Len(s) /\ m <= Len(M) /\ m # 0
        BY <1>1, <2>1, <3>2
      <4>5. m \in 1..Len(M) /\ m \in 1..Len(s) /\ m < Len(s) /\ m \in 1..m
        BY <4>0
      <4>1. m \in 1..Len(M) /\ m \in 1..Len(s) /\ m < Len(s) /\ s[m] = M[m]
        BY <4>5, <2>1
      <4>2. MarkAt(doc, x(m)) = "comma" /\ s[m + 1] = x(m) + 1
        BY <1>4, <4>1 DEF x
      <4>3. m + 1 \in 1..Len(M) /\ M[m + 1] = x(m) + 1
        BY <1>2, <1>3, <4>1, <4>2
      <4>4. QED
        BY <4>2, <4>3
    <3>3. QED
      BY <3>1, <3>2
  <2>3. \A k \in 1..m + 1 : k \in 1..m \/ k = m + 1
    BY <2>1
  <2>4. \A k \in 1..m + 1 : s[k] = M[k]
    BY <2>1, <2>2, <2>3
  <2>5. QED
    BY <2>1, <2>2, <2>4
<1>7. S = 0..D
  <2>1. S \subseteq 0..D
    OBVIOUS
  <2> HIDE DEF S, D
  <2>2. QED
    BY <1>5, <1>6, <2>1, Climb
<1>8. Len(s) <= Len(M) /\ \A k \in 1..Len(s) : s[k] = M[k]
  <2>1. D \in S
    BY <1>5, <1>7
  <2>2. QED
    BY <2>1
<1>9. ASSUME s # <<>>, IsWhole(doc, o, s) PROVE Len(s) = Len(M)
  <2>1. Len(s) \in 1..Len(s) /\ Len(s) \in 1..Len(M) /\ s[Len(s)] = M[Len(s)]
    BY <1>1, <1>8, <1>9
  <2>2. \/ MarkAt(doc, x(Len(s))) \in Closer \cup {"end"}
        \/ MarkAt(doc, x(Len(s))) = "comma" /\ x(Len(s)) + 1 > Limit(doc, o)
    BY <1>9, <2>1 DEF IsWhole
  <2> HIDE DEF x
  <2>3. ~(MarkAt(doc, x(Len(s))) = "comma" /\ x(Len(s)) < CloserAt(doc, o))
    <3>1. x(Len(s)) \in Nat
      BY <1>2, <2>1
    <3>2. QED
      BY <1>1, <2>2, <3>1 DEF Closer
  <2>4. QED
    BY <1>2, <2>1, <2>3
<1>10. QED
  BY <1>8, <1>9 DEF M

LEMMA WholeWalk ==
    ASSUME TextAssumption, JsonAssumption, NEW o, Container(o),
           NEW s \in Seq(Nat), NEW e, IsWalk(doc, o, s, e),
           IF Empty(doc, Cursor(o, Limit(doc, o))) THEN s = <<>> ELSE s # <<>> /\ IsWhole(doc, o, s)
    PROVE  s = Members(doc, o)
<1>1. CASE Blanked(doc, o)
  BY <1>1, MembersFacts
<1>2. CASE ~Blanked(doc, o)
  <2>1. /\ Members(doc, o) \in Seq(Nat) /\ Len(s) = Len(Members(doc, o))
        /\ \A k \in 1..Len(s) : s[k] = Members(doc, o)[k]
    BY <1>2, MembersFacts, MembersNext, WalkMembers
  <2> DEFINE M == Members(doc, o)
  <2>4. M \in Seq(Nat) /\ Len(s) = Len(M) /\ \A k \in 1..Len(s) : s[k] = M[k]
    BY <2>1
  <2> HIDE DEF M
  <2>2. s = M
    <3>1. s = [k \in 1..Len(s) |-> s[k]] /\ M = [k \in 1..Len(M) |-> M[k]]
      BY <2>4
    <3>2. QED
      BY <2>4, <3>1
  <2>3. QED
    BY <2>2 DEF M
<1>3. QED
  BY <1>1, <1>2

\* The value of a child, with the end its span has.
LEMMA ValuedIs ==
    ASSUME TextAssumption, JsonAssumption, doc \in Texts, doc.json, NEW o, NEW s \in Nat,
           Span(doc, ValueOf(doc, o, s)).fault = "none"
    PROVE  Valued(doc, o, s) = Cursor(ValueOf(doc, o, s), Span(doc, ValueOf(doc, o, s)).end)
<1> DEFINE v == ValueOf(doc, o, s)
<1>1. v \in Nat /\ N(doc) \in Nat
  BY ValueOfFacts, TextFacts
<1> HIDE DEF v
<1>2. Span(doc, v).fault = "none"
  BY DEF v
<1>3. v \in 1..N(doc)
  BY <1>1, <1>2, SpanFacts
<1>4. CASE MarkAt(doc, v) \in Opener
  <2>1. EndOf(doc, v) = CloserAt(doc, v)
    BY <1>3, <1>4, MembersFacts DEF Container
  <2>2. Span(doc, v).end = CloserAt(doc, v)
    BY <1>2, <1>4, SpanIs DEF Ends
  <2>3. QED
    BY <1>4, <2>1, <2>2 DEF Valued, v
<1>5. CASE MarkAt(doc, v) \notin Opener
  <2>1. Span(doc, v).end = v + 1
    BY <1>2, <1>5, SpanIs DEF Ends
  <2>2. QED
    BY <1>5, <2>1 DEF Valued, v
<1>6. QED
  BY <1>4, <1>5

-----------------------------------------------------------------------------
(* What a path must answer.                                                 *)

\* The first child that matches is the one a path follows.
LEMMA FollowFacts ==
    ASSUME TextAssumption, JsonAssumption, NEW c, Container(c.start),
           NEW seg, MarkAt(doc, c.start) = seg.kind,
           NEW s \in Seq(Nat), NEW e, IsWalk(doc, c.start, s, e), s = Members(doc, c.start)
    PROVE  /\ \A k \in DOMAIN s : FirstMatch(doc, seg, s, k) =>
                 Follow(doc, c, seg) = Reached(Cursor(ValueOf(doc, c.start, s[k]), e[k]))
           /\ (\A k \in DOMAIN s : ~Matches(doc, seg, s, k)) => Follow(doc, c, seg) = NoChild("not_found")
<1> DEFINE o == c.start
           hits == {k \in DOMAIN s : Matches(doc, seg, s, k)}
<1>1. seg # BadSeg
  BY DEF Container, BadSeg, Opener
<1>2. \A k : Selects(doc, seg, o, k) <=> Matches(doc, seg, s, k)
  BY DEF Selects, Matches
<1>3. hits = {k \in DOMAIN Members(doc, o) : Selects(doc, seg, o, k)}
  BY <1>2
<1>4. Follow(doc, c, seg) = IF hits = {} THEN NoChild("not_found") ELSE Reached(Valued(doc, o, s[Min(hits)]))
  BY <1>1, <1>3 DEF Follow
<1>5. ASSUME NEW k \in DOMAIN s, FirstMatch(doc, seg, s, k)
      PROVE  Follow(doc, c, seg) = Reached(Cursor(ValueOf(doc, o, s[k]), e[k]))
  <2>1. k \in hits /\ \A j \in hits : j \in 1..Len(s) /\ ~(j \in 1..k - 1)
    BY <1>5 DEF FirstMatch
  <2>2. k \in 1..Len(s)
    OBVIOUS
  <2>3. \A j \in hits : k <= j
    BY <2>1, <2>2
  <2>4. \A j \in hits : j <= k => j = k
    BY <2>1, <2>2, <2>3
  <2>5. Min(hits) = k
    <3> HIDE DEF hits
    <3>1. Min(hits) = CHOOSE x \in hits : \A y \in hits : x <= y
      BY DEF Min
    <3>2. QED
      BY <2>1, <2>3, <2>4, <3>1
  <2>6. /\ Span(doc, ValueOf(doc, o, s[k])).fault = "none"
        /\ e[k] = Span(doc, ValueOf(doc, o, s[k])).end
    BY DEF IsWalk
  <2>7. s[k] \in Nat /\ doc \in Texts /\ doc.json
    BY <2>2 DEF Container
  <2>8. Valued(doc, o, s[k]) = Cursor(ValueOf(doc, o, s[k]), e[k])
    BY <2>6, <2>7, ValuedIs
  <2>9. hits # {}
    BY <2>1
  <2> HIDE DEF hits
  <2>10. QED
    BY <1>4, <2>5, <2>8, <2>9
<1>6. ASSUME \A k \in DOMAIN s : ~Matches(doc, seg, s, k)
      PROVE  Follow(doc, c, seg) = NoChild("not_found")
  BY <1>4, <1>6
<1>7. QED
  BY <1>5, <1>6

IsTrail(t, c, path, D, g) == g = [n \in 0..D |-> Onward(t, c, path, n, g[n - 1])]

LEMMA TrailExists ==
    ASSUME NEW t, NEW c, NEW path, NEW D \in Nat
    PROVE  \E g : IsTrail(t, c, path, D, g)
<1> DEFINE S == {m \in 0..D : \E g : g = [n \in 0..m |-> Onward(t, c, path, n, g[n - 1])]}
<1>0. \A r, q : Onward(t, c, path, 0, r) = Onward(t, c, path, 0, q)
  BY DEF Onward
<1>1. 0 \in S
  <2> DEFINE h == [n \in 0..0 |-> Onward(t, c, path, 0, 0)]
  <2>1. \A n \in 0..0 : h[n] = Onward(t, c, path, n, h[n - 1])
    BY <1>0
  <2>2. h = [n \in 0..0 |-> Onward(t, c, path, n, h[n - 1])]
    <3>1. h = [n \in 0..0 |-> h[n]]
      OBVIOUS
    <3> HIDE DEF h
    <3>2. QED
      BY <2>1, <3>1
  <2>3. QED
    BY <2>2
<1>2. ASSUME NEW m \in S, m < D
      PROVE  m + 1 \in S
  <2>1. PICK g : g = [n \in 0..m |-> Onward(t, c, path, n, g[n - 1])]
    BY <1>2
  <2> DEFINE h == [n \in 0..m + 1 |-> IF n <= m THEN g[n] ELSE Onward(t, c, path, n, g[m])]
  <2>2. \A n \in 0..m : g[n] = Onward(t, c, path, n, g[n - 1])
    BY <2>1
  <2>3. ASSUME NEW n \in 0..m + 1
        PROVE  h[n] = Onward(t, c, path, n, h[n - 1])
    <3>1. CASE n = 0
      BY <1>0, <2>2, <3>1
    <3>2. CASE n \in 1..m
      <4>1. h[n] = g[n] /\ h[n - 1] = g[n - 1]
        BY <3>2
      <4>2. QED
        BY <3>2, <4>1, <2>2
    <3>3. CASE n = m + 1
      <4>1. h[n] = Onward(t, c, path, n, g[m]) /\ h[n - 1] = g[m]
        BY <3>3
      <4>2. QED
        BY <4>1
    <3>4. QED
      BY <3>1, <3>2, <3>3
  <2>4. h = [n \in 0..m + 1 |-> Onward(t, c, path, n, h[n - 1])]
    <3>1. h = [n \in 0..m + 1 |-> h[n]]
      OBVIOUS
    <3> HIDE DEF h
    <3>2. QED
      BY <2>3, <3>1
  <2>5. \E f : f = [n \in 0..m + 1 |-> Onward(t, c, path, n, f[n - 1])]
    <3> HIDE DEF h
    <3> QED
      BY <2>4
  <2>6. m + 1 \in 0..D
    BY <1>2
  <2>7. QED
    BY <2>5, <2>6
<1>3. S = 0..D
  <2>1. S \subseteq 0..D
    OBVIOUS
  <2> HIDE DEF S
  <2>2. QED
    BY <2>1, <1>1, <1>2, Climb
<1>4. \E g : g = [n \in 0..D |-> Onward(t, c, path, n, g[n - 1])]
  <2>1. D \in 0..D
    OBVIOUS
  <2>2. D \in S
    <3> HIDE DEF S
    <3> QED
      BY <1>3, <2>1
  <2>3. QED
    BY <2>2
<1>5. QED
  BY <1>4 DEF IsTrail

\* The trail goes from segment to segment, and stays where one has failed.
LEMMA TrailFacts ==
    ASSUME NEW t, NEW c, NEW path, Len(path) \in Nat
    PROVE  /\ Trail(t, c, path)[0] = Reached(c)
           /\ \A n \in 1..Len(path) : Trail(t, c, path)[n] = Onward(t, c, path, n, Trail(t, c, path)[n - 1])
           /\ \A n \in 0..Len(path) :
                 Trail(t, c, path)[n].code # "ok" => FollowAll(t, c, path) = Trail(t, c, path)[n]
<1> DEFINE g == Trail(t, c, path)
           D == Len(path)
<1>1. \E f : f = [n \in 0..D |-> Onward(t, c, path, n, f[n - 1])]
  <2>1. D \in Nat
    OBVIOUS
  <2> HIDE DEF D
  <2>2. PICK f : IsTrail(t, c, path, D, f)
    BY <2>1, TrailExists
  <2>3. QED
    BY <2>2 DEF IsTrail
<1>2. g = [n \in 0..D |-> Onward(t, c, path, n, g[n - 1])]
  BY <1>1 DEF Trail
<1>3. FollowAll(t, c, path) = g[D]
  BY DEF FollowAll
<1> HIDE DEF g
<1>4. \A n \in 0..D : g[n] = Onward(t, c, path, n, g[n - 1])
  BY <1>2
<1>5. g[0] = Reached(c)
  BY <1>4 DEF Onward
<1>6. ASSUME NEW n \in 0..D, g[n].code # "ok"
      PROVE  g[D] = g[n]
  <2> DEFINE S == {m \in 0..D - n : g[n + m] = g[n]}
  <2>1. D - n \in Nat /\ 0 \in S
    OBVIOUS
  <2>2. ASSUME NEW m \in S, m < D - n
        PROVE  m + 1 \in S
    <3>1. m \in Nat /\ g[n + m] = g[n] /\ n + m + 1 \in 1..D /\ m + 1 \in 0..D - n
      BY <2>2
    <3>2. g[n + m + 1] = Onward(t, c, path, n + m + 1, g[n + m + 1 - 1])
      BY <1>4, <3>1
    <3>3. n + m + 1 - 1 = n + m /\ n + m + 1 # 0 /\ n + (m + 1) = n + m + 1
      BY <3>1
    <3>4. g[n + m + 1] = g[n]
      BY <1>6, <3>1, <3>2, <3>3 DEF Onward
    <3>5. QED
      BY <3>1, <3>3, <3>4
  <2>3. S = 0..D - n
    <3>1. S \subseteq 0..D - n
      OBVIOUS
    <3> DEFINE E == D - n
    <3>2. E \in Nat /\ 0 \in S /\ S \subseteq 0..E /\ \A m \in S : m < E => m + 1 \in S
      BY <2>1, <2>2, <3>1
    <3> HIDE DEF S, E
    <3>3. S = 0..E
      BY <3>2, Climb
    <3>4. QED
      BY <3>3 DEF E
  <2>4. D - n \in S
    <3>1. D - n \in 0..D - n
      BY <2>1
    <3> HIDE DEF S
    <3>2. QED
      BY <2>3, <3>1
  <2>5. n + (D - n) = D
    OBVIOUS
  <2>6. QED
    BY <2>4, <2>5
<1>7. QED
  BY <1>3, <1>4, <1>5, <1>6 DEF g

\* The path that leads from c has come to a, and r is what is left of it.
ComesTo(t, c, path, r, a) ==
    LET n == Len(path) - Len(r)
    IN  /\ path \in Seq(Seg) /\ Len(r) <= Len(path)
        /\ \A j \in 1..Len(r) : r[j] = path[n + j]
        /\ Trail(t, c, path)[n] = Reached(a)

LEMMA ComesToFacts ==
    ASSUME NEW t, NEW c, NEW path \in Seq(Seg), NEW r \in Seq(Seg), NEW a
    PROVE  /\ ComesTo(t, c, path, path, c)
           /\ ComesTo(t, c, path, <<>>, a) => FollowAll(t, c, path) = Reached(a)
           /\ ComesTo(t, c, path, r, a) /\ r # <<>> =>
                 /\ \A b : Follow(t, a, Head(r)) = Reached(b) => ComesTo(t, c, path, Tail(r), b)
                 /\ \A code : Follow(t, a, Head(r)) = NoChild(code) /\ code # "ok"
                                 => FollowAll(t, c, path) = NoChild(code)
<1> DEFINE D == Len(path)
           g == Trail(t, c, path)
<1>1. D \in Nat /\ Len(r) \in Nat
  OBVIOUS
<1>2. /\ g[0] = Reached(c)
      /\ \A n \in 1..D : g[n] = Onward(t, c, path, n, g[n - 1])
      /\ \A n \in 0..D : g[n].code # "ok" => FollowAll(t, c, path) = g[n]
  <2>1. LET h == Trail(t, c, path)
            m == Len(path)
        IN  /\ h[0] = Reached(c)
            /\ \A n \in 1..m : h[n] = Onward(t, c, path, n, h[n - 1])
            /\ \A n \in 0..m : h[n].code # "ok" => FollowAll(t, c, path) = h[n]
    BY TrailFacts
  <2>2. QED
    BY <2>1
<1>3. FollowAll(t, c, path) = g[D]
  BY DEF FollowAll
<1> HIDE DEF g
<1>4. ComesTo(t, c, path, path, c)
  <2>1. D - D = 0 /\ \A j \in 1..D : path[j] = path[0 + j]
    BY <1>1
  <2>2. QED
    BY <2>1, <1>2 DEF ComesTo, g
<1>5. ASSUME ComesTo(t, c, path, <<>>, a) PROVE FollowAll(t, c, path) = Reached(a)
  <2>1. Len(<<>>) = 0 /\ D - 0 = D
    BY <1>1
  <2>2. g[D] = Reached(a)
    BY <1>5, <2>1 DEF ComesTo, g
  <2>3. QED
    BY <1>3, <2>2
<1>6. ASSUME ComesTo(t, c, path, r, a), r # <<>>
      PROVE  /\ \A b : Follow(t, a, Head(r)) = Reached(b) => ComesTo(t, c, path, Tail(r), b)
             /\ \A code : Follow(t, a, Head(r)) = NoChild(code) /\ code # "ok"
                             => FollowAll(t, c, path) = NoChild(code)
  <2> DEFINE n == D - Len(r)
             m == n + 1
  <2>1. Len(r) <= D /\ (\A j \in 1..Len(r) : r[j] = path[n + j]) /\ g[n] = Reached(a)
    BY <1>6 DEF ComesTo, g
  <2>2. Len(r) >= 1 /\ n \in 0..D /\ m \in 1..D /\ m - 1 = n
    BY <1>1, <1>6, <2>1
  <2>3. Head(r) = path[m]
    BY <1>6, <2>1, <2>2
  <2>4. /\ Len(Tail(r)) = Len(r) - 1
        /\ \A j \in 1..Len(r) - 1 : Tail(r)[j] = r[j + 1]
    BY <1>6
  <2>5. D - Len(Tail(r)) = m /\ Len(Tail(r)) <= D
    <3>1. ASSUME NEW x \in Nat, NEW y \in Nat, y <= x
          PROVE  x - (y - 1) = (x - y) + 1 /\ y - 1 <= x
      BY <3>1
    <3>2. D - (Len(r) - 1) = (D - Len(r)) + 1 /\ Len(r) - 1 <= D
      BY <1>1, <2>1, <3>1
    <3>3. QED
      BY <2>4, <3>2
  <2>6. \A j \in 1..Len(Tail(r)) : Tail(r)[j] = path[m + j]
    <3> SUFFICES ASSUME NEW j \in 1..Len(r) - 1 PROVE r[j + 1] = path[m + j]
      BY <2>4
    <3>1. j + 1 \in 1..Len(r) /\ n + (j + 1) = m + j
      BY <1>1, <2>2
    <3>2. QED
      BY <3>1, <2>1
  <2> HIDE DEF n, m, D
  <2>7. g[m] = Follow(t, a, Head(r))
    <3>1. g[m] = Onward(t, c, path, m, g[n])
      BY <1>2, <2>2
    <3>2. m # 0 /\ Reached(a).code = "ok" /\ Reached(a).cursor = a
      BY <2>2 DEF Reached
    <3>3. QED
      BY <2>1, <2>3, <3>1, <3>2 DEF Onward
  <2>8. ASSUME NEW b, Follow(t, a, Head(r)) = Reached(b)
        PROVE  ComesTo(t, c, path, Tail(r), b)
    <3>1. g[m] = Reached(b)
      BY <2>7, <2>8
    <3>2. QED
      BY <2>5, <2>6, <3>1 DEF ComesTo, g, D
  <2>9. ASSUME NEW code, Follow(t, a, Head(r)) = NoChild(code), code # "ok"
        PROVE  FollowAll(t, c, path) = NoChild(code)
    <3>1. g[m] = NoChild(code) /\ g[m].code # "ok" /\ m \in 0..D
      BY <1>1, <2>2, <2>7, <2>9 DEF NoChild, D
    <3>2. QED
      BY <1>2, <3>1
  <2>10. QED
    BY <2>8, <2>9
<1>7. QED
  BY <1>4, <1>5, <1>6

-----------------------------------------------------------------------------
(* The answers on JSON.                                                     *)

PathInv ==
    doc.json /\ Running /\ req.op = "open" => ComesTo(doc, req.from, req.path, rest, at)

CountInv == Counting => at = req.from /\ (req.op = "entry" => req.n \in Nat /\ Len(starts) <= req.n)

IterInv ==
    doc.json /\ iter # None =>
        MarkAt(doc, iter.of.start) = "lbrace" /\ iter.seen \in 0..Len(Members(doc, iter.of.start))

CallInv == PathInv /\ CountInv /\ PathsLeadToChildren /\ CountsAreChildren
TreeInv == IInv /\ CallInv /\ IterInv /\ IteratorInOrder

\* What is kept by a step that leaves the call, or the iterator, alone.
LEMMA CallKept ==
    ASSUME CallInv, UNCHANGED <<doc, req, at, rest, answer>>, CountInv'
    PROVE  CallInv'
<1>1. Running' <=> Running
  BY DEF Running
<1>2. PathInv'
  BY <1>1 DEF CallInv, PathInv
<1>3. PathsLeadToChildren' /\ CountsAreChildren'
  BY <1>1 DEF CallInv, PathsLeadToChildren, CountsAreChildren, Answered
<1>4. QED
  BY <1>2, <1>3 DEF CallInv

LEMMA IterKept ==
    ASSUME IterInv, IteratorInOrder, UNCHANGED <<doc, iter>>
    PROVE  IterInv' /\ IteratorInOrder'
BY DEF IterInv, IteratorInOrder

\* The walk over a container of JSON meets the next child.
LEMMA JsonChild ==
    ASSUME TextAssumption, JsonAssumption, IInv, doc.json,
           MarkAt(doc, at.start) \in Opener, ~Empty(doc, at)
    PROVE  LET M == Members(doc, at.start)
               n == Len(starts) + 1
           IN  /\ Container(at.start) /\ ~Blanked(doc, at.start) /\ n \in Nat /\ Len(M) \in Nat
               /\ here <= at.end =>
                     /\ n \in 1..Len(M) /\ here = M[n] /\ Child.fault = "none"
                     /\ MarkAt(doc, at.start) = "lbrace" => MarkAt(doc, here) = "quote"
                     /\ \/ Follows = "comma" /\ Child.next + 1 <= at.end /\ n < Len(M)
                        \/ Follows = CloserOf(MarkAt(doc, at.start)) /\ n = Len(M)
<1> DEFINE o == at.start
           M == Members(doc, o)
           n == Len(starts) + 1
<1>1. doc \in Texts /\ CursorOK(at) /\ starts \in Seq(Nat) /\ here \in Nat
  BY DEF IInv, CallType, CursorsOK
<1>2. /\ o \in Nat /\ at.end \in Nat /\ at = Cursor(o, at.end) /\ at.end = Limit(doc, o)
  BY <1>1, CursorFacts
<1>3. Container(o)
  BY <1>1, <1>2 DEF Container, MarkAt, Opener
<1>4. ~Blanked(doc, o) /\ at.end = CloserAt(doc, o)
  BY <1>2, <1>3, MembersFacts
<1>5. /\ M \in Seq(Nat) /\ Len(M) \in Nat /\ Len(M) >= 1 /\ M[1] = o + 1
      /\ n \in Nat /\ Len(starts) \in Nat
  BY <1>1, <1>3, <1>4, MembersNext
<1>6. IsWalk(doc, o, starts, ends) /\ (starts = <<>> => here = o + 1)
  BY DEF IInv, WalkInv
<1>7. ASSUME here <= at.end
      PROVE  n \in 1..Len(M) /\ here = M[n]
  <2>1. CASE starts = <<>>
    BY <1>5, <1>6, <2>1
  <2>2. CASE starts # <<>>
    <3> DEFINE l == Len(starts)
               x == Span(doc, ValueOf(doc, o, starts[l])).next
    <3>1. l <= Len(M) /\ l \in 1..l /\ l \in 1..Len(M) /\ starts[l] = M[l]
      <4>1. Len(starts) <= Len(M) /\ \A k \in 1..Len(starts) : starts[k] = M[k]
        BY <1>1, <1>3, <1>4, <1>6, WalkMembers
      <4>2. l >= 1
        BY <1>1, <2>2
      <4>3. QED
        BY <4>1, <4>2, <1>5
    <3>2. IF MarkAt(doc, x) = "comma" THEN here = x + 1 ELSE here = at.end + 1
      BY <2>2 DEF IInv, WalkInv
    <3>3. \/ l + 1 \in 1..Len(M) /\ M[l + 1] = x + 1
          \/ MarkAt(doc, x) = CloserOf(MarkAt(doc, o))
      BY <1>3, <1>4, <3>1, MembersNext
    <3>4. MarkAt(doc, x) = "comma"
      BY <1>2, <1>7, <3>2
    <3>5. QED
      BY <3>2, <3>3, <3>4 DEF CloserOf
  <2>3. QED
    BY <2>1, <2>2
<1>8. ASSUME here <= at.end
      PROVE  /\ Child.fault = "none"
             /\ MarkAt(doc, at.start) = "lbrace" => MarkAt(doc, here) = "quote"
             /\ \/ Follows = "comma" /\ Child.next + 1 <= at.end /\ n < Len(M)
                \/ Follows = CloserOf(MarkAt(doc, at.start)) /\ n = Len(M)
  <2>1. n \in 1..Len(M) /\ here = M[n]
    BY <1>7, <1>8
  <2>2. Child = Span(doc, ValueOf(doc, o, M[n])) /\ Follows = MarkAt(doc, Child.next)
    BY <2>1 DEF Child, Value, Follows
  <2>3. LET x == Span(doc, ValueOf(doc, o, M[n])).next
        IN  /\ IsChild(doc, o, M[n]) /\ Span(doc, ValueOf(doc, o, M[n])).fault = "none" /\ x \in Nat
            /\ \/ /\ MarkAt(doc, x) = "comma" /\ x < CloserAt(doc, o)
                  /\ n + 1 \in 1..Len(M)
               \/ MarkAt(doc, x) = CloserOf(MarkAt(doc, o)) /\ n = Len(M)
    BY <1>3, <1>4, <2>1, MembersNext
  <2> HIDE DEF n, M
  <2>4. MarkAt(doc, at.start) = "lbrace" => MarkAt(doc, here) = "quote"
    BY <2>1, <2>3 DEF IsChild
  <2>5. n + 1 \in 1..Len(M) => n < Len(M)
    BY <1>5 DEF n, M
  <2>6. QED
    BY <1>2, <1>4, <2>2, <2>3, <2>4, <2>5
<1>9. QED
  BY <1>3, <1>4, <1>5, <1>7, <1>8


\* A path call that returns says where the path leads.
LEMMA OpenReturned ==
    ASSUME NEW code, NEW c, NEW n, Return(code, c, n), code # "running", req.op = "open",
           doc.json => [code |-> code, cursor |-> c] = FollowAll(doc, req.from, req.path)
    PROVE  CallInv'
<1>1. /\ answer' = [code |-> code, cursor |-> c, count |-> n] /\ UNCHANGED <<doc, req>> /\ ~Running'
      /\ ~Counting'
  BY ReturnStops DEF Return, Counting
<1>2. answer'.code = code /\ answer'.cursor = c
  BY <1>1
<1>3. PathInv' /\ CountInv'
  BY <1>1 DEF PathInv, CountInv
<1>4. PathsLeadToChildren'
  BY <1>1, <1>2 DEF PathsLeadToChildren
<1>5. CountsAreChildren'
  BY <1>1 DEF CountsAreChildren, Answered
<1>6. QED
  BY <1>3, <1>4, <1>5 DEF CallInv

\* The path misses where its next segment does.
LEMMA PathMisses ==
    ASSUME TextAssumption, IInv, CallInv, Following, NEW code, code \notin {"ok", "running"},
           Return(code, None, 0), doc.json => Follow(doc, at, Want) = NoChild(code)
    PROVE  CallInv'
<1>1. ASSUME doc.json
      PROVE  [code |-> code, cursor |-> None] = FollowAll(doc, req.from, req.path)
  <2>1. ComesTo(doc, req.from, req.path, rest, at)
    BY <1>1 DEF CallInv, PathInv, Following
  <2>2. rest \in Seq(Seg) /\ rest # <<>> /\ req.path \in Seq(Seg)
    BY <2>1 DEF IInv, CallType, Following, ComesTo
  <2>3. FollowAll(doc, req.from, req.path) = NoChild(code)
    BY <1>1, <2>1, <2>2, ComesToFacts DEF Want
  <2>4. QED
    BY <2>3 DEF NoChild
<1>2. QED
  BY <1>1, OpenReturned DEF Following

\* The path goes on from the child its next segment selects.
LEMMA PathDescends ==
    ASSUME TextAssumption, IInv, CallInv, Following, NEW c, Descend(c),
           doc.json => Follow(doc, at, Want) = Reached(c)
    PROVE  CallInv'
<1>1. /\ at' = c /\ rest' = Tail(rest) /\ UNCHANGED <<doc, req, answer>>
      /\ Running' /\ ~Counting'
  BY DEF Descend, Begin, Following, Running, Counting
<1>2. PathInv'
  <2>1. SUFFICES ASSUME doc.json PROVE ComesTo(doc, req.from, req.path, Tail(rest), c)
    BY <1>1 DEF PathInv
  <2>2. ComesTo(doc, req.from, req.path, rest, at)
    BY <2>1 DEF CallInv, PathInv, Following
  <2>3. rest \in Seq(Seg) /\ rest # <<>> /\ req.path \in Seq(Seg)
    BY <2>2 DEF IInv, CallType, Following, ComesTo
  <2>4. QED
    BY <2>1, <2>2, <2>3, ComesToFacts DEF Want
<1>3. CountInv' /\ PathsLeadToChildren' /\ CountsAreChildren'
  BY <1>1 DEF CountInv, PathsLeadToChildren, CountsAreChildren, Answered
<1>4. QED
  BY <1>2, <1>3 DEF CallInv

\* What the cache holds, and what a walk has seen when it is over, are the children.
LEMMA SeenMembers ==
    ASSUME TextAssumption, JsonAssumption, IInv, Steps, doc.json
    PROVE  /\ Container(at.start)
           /\ Cached => /\ Slot.starts \in Seq(Nat) /\ Slot.starts = Members(doc, at.start)
                        /\ IsWalk(doc, at.start, Slot.starts, Slot.ends)
           /\ Empty(doc, at) \/ Walked =>
                 /\ starts \in Seq(Nat) /\ starts = Members(doc, at.start)
                 /\ IsWalk(doc, at.start, starts, ends)
<1> DEFINE o == at.start
<1>1. MarkAt(doc, o) \in Opener /\ doc \in Texts /\ CursorOK(at) /\ starts \in Seq(Nat)
  BY StepsInto DEF IInv, CallType, CursorsOK
<1>2. o \in Nat /\ at = Cursor(o, Limit(doc, o))
  BY <1>1, CursorFacts
<1>3. Container(o)
  BY <1>1, <1>2 DEF Container, MarkAt, Opener
<1>4. ASSUME Cached
      PROVE  /\ Slot.starts \in Seq(Nat) /\ Slot.starts = Members(doc, o)
             /\ IsWalk(doc, o, Slot.starts, Slot.ends)
  <2>1. Slot.starts \in Seq(Nat)
    BY <1>4 DEF IInv, SlotType, Cached, Slot
  <2>2. /\ IsWalk(doc, o, Slot.starts, Slot.ends)
        /\ IF Empty(doc, Cursor(o, Limit(doc, o))) THEN Slot.starts = <<>>
           ELSE Slot.starts # <<>> /\ IsWhole(doc, o, Slot.starts)
    BY <1>4 DEF IInv, CacheHoldsWalks, Cached, Slot
  <2>3. QED
    BY <1>3, <2>1, <2>2, WholeWalk
<1>5. IsWalk(doc, o, starts, ends)
  BY DEF IInv, WalkInv
<1>6. ASSUME Empty(doc, at) PROVE starts = Members(doc, o)
  <2>1. starts = <<>>
    BY <1>6 DEF IInv, WalkInv
  <2>2. QED
    BY <1>1, <1>2, <1>3, <1>5, <1>6, <2>1, WholeWalk
<1>7. ASSUME Walked PROVE starts = Members(doc, o)
  <2>1. starts # <<>> /\ IsWhole(doc, o, starts) /\ ~Empty(doc, at)
    BY <1>7, WalkedWhole DEF Walked
  <2>2. QED
    BY <1>1, <1>2, <1>3, <1>5, <2>1, WholeWalk
<1>8. QED
  BY <1>1, <1>3, <1>4, <1>5, <1>6, <1>7


LEMMA ResolvedKeeps ==
    ASSUME TextAssumption, IInv, CallInv, Resolved
    PROVE  CallInv'
<1>1. ASSUME doc.json
      PROVE  [code |-> "ok", cursor |-> at] = FollowAll(doc, req.from, req.path)
  <2>1. ComesTo(doc, req.from, req.path, <<>>, at)
    BY <1>1 DEF CallInv, PathInv, Resolved
  <2>2. req.path \in Seq(Seg) /\ <<>> \in Seq(Seg)
    BY <2>1 DEF ComesTo
  <2>3. FollowAll(doc, req.from, req.path) = Reached(at)
    BY <2>1, <2>2, ComesToFacts
  <2>4. QED
    BY <2>3 DEF Reached
<1>2. QED
  BY <1>1, OpenReturned DEF Resolved

LEMMA StepRefusedKeeps ==
    ASSUME TextAssumption, IInv, CallInv, StepRefused
    PROVE  CallInv'
<1> DEFINE code == IF Want = BadSeg THEN "invalid_path" ELSE "type_mismatch"
<1>1. Following /\ MarkAt(doc, at.start) # Want.kind /\ Return(code, None, 0)
  BY DEF StepRefused, Refuse
<1>2. Follow(doc, at, Want) = NoChild(code)
  BY <1>1 DEF Follow
<1>3. code \notin {"ok", "running"}
  OBVIOUS
<1>4. QED
  BY <1>1, <1>2, <1>3, PathMisses

\* The answer from the cache is the one the walk would give.
LEMMA HitKeeps ==
    ASSUME TextAssumption, JsonAssumption, IInv, CallInv, HitFound \/ HitMissing
    PROVE  CallInv'
<1>1. Following /\ Steps /\ Cached /\ MarkAt(doc, at.start) = Want.kind
  BY DEF HitFound, HitMissing, Steps
<1>2. ASSUME doc.json
      PROVE  /\ Container(at.start) /\ Slot.starts \in Seq(Nat) /\ Slot.starts = Members(doc, at.start)
             /\ IsWalk(doc, at.start, Slot.starts, Slot.ends)
  BY <1>1, <1>2, SeenMembers
<1>3. CASE HitFound
  <2>1. PICK k \in DOMAIN Slot.starts :
           /\ FirstMatch(doc, Want, Slot.starts, k)
           /\ Descend(Cursor(ValueOf(doc, at.start, Slot.starts[k]), Slot.ends[k]))
    BY <1>3 DEF HitFound
  <2> DEFINE c == Cursor(ValueOf(doc, at.start, Slot.starts[k]), Slot.ends[k])
  <2>2. doc.json => Follow(doc, at, Want) = Reached(c)
    BY <1>1, <1>2, <2>1, FollowFacts
  <2>3. Descend(c)
    BY <2>1
  <2> HIDE DEF c
  <2>4. QED
    BY <1>1, <2>2, <2>3, PathDescends
<1>4. CASE HitMissing
  <2>1. Return("not_found", None, 0) /\ \A k \in DOMAIN Slot.starts : ~Matches(doc, Want, Slot.starts, k)
    BY <1>4 DEF HitMissing, Refuse
  <2>2. doc.json => Follow(doc, at, Want) = NoChild("not_found")
    BY <1>1, <1>2, <2>1, FollowFacts
  <2>3. QED
    BY <1>1, <2>1, <2>2, PathMisses
<1>5. QED
  BY <1>3, <1>4

\* A walk that is over answers for all the children.
LEMMA WalkKeeps ==
    ASSUME TextAssumption, JsonAssumption, IInv, CallInv, WalkEmpty \/ WalkFound \/ WalkMissing
    PROVE  CallInv'
<1>1. /\ Following /\ Steps /\ MarkAt(doc, at.start) = Want.kind
      /\ Empty(doc, at) \/ Walked
  BY DEF WalkEmpty, WalkFound, WalkMissing, Walked, Steps
<1>2. ASSUME doc.json
      PROVE  /\ Container(at.start) /\ starts \in Seq(Nat) /\ starts = Members(doc, at.start)
             /\ IsWalk(doc, at.start, starts, ends)
  BY <1>1, <1>2, SeenMembers
<1>3. CASE WalkFound
  <2>1. found # None /\ Descend(found)
    BY <1>3 DEF WalkFound
  <2>2. PICK k \in DOMAIN starts :
           /\ FirstMatch(doc, Want, starts, k)
           /\ found = Cursor(ValueOf(doc, at.start, starts[k]), ends[k])
    BY <2>1 DEF IInv, FoundInv
  <2>3. doc.json => Follow(doc, at, Want) = Reached(found)
    BY <1>1, <1>2, <2>2, FollowFacts
  <2>4. QED
    BY <1>1, <2>1, <2>3, PathDescends
<1>4. CASE WalkEmpty \/ WalkMissing
  <2>1. Return("not_found", None, 0)
    BY <1>4 DEF WalkEmpty, WalkMissing
  <2>2. \A k \in DOMAIN starts : ~Matches(doc, Want, starts, k)
    <3>1. CASE WalkMissing
      BY <1>1, <3>1 DEF IInv, FoundInv, WalkMissing
    <3>2. CASE WalkEmpty
      <4>1. Empty(doc, at)
        BY <3>2 DEF WalkEmpty
      <4>2. starts = <<>>
        BY <4>1 DEF IInv, WalkInv
      <4>3. QED
        BY <4>2
    <3>3. QED
      BY <1>4, <3>1, <3>2
  <2>3. doc.json => Follow(doc, at, Want) = NoChild("not_found")
    BY <1>1, <1>2, <2>2, FollowFacts
  <2>4. QED
    BY <1>1, <2>1, <2>3, PathMisses
<1>5. QED
  BY <1>3, <1>4

\* On JSON no walk fails.
LEMMA WalkFailsKeeps ==
    ASSUME TextAssumption, JsonAssumption, IInv, CallInv, WalkFails
    PROVE  CallInv'
<1>1. /\ Following /\ Steps /\ MarkAt(doc, at.start) = Want.kind /\ ~Empty(doc, at) /\ here <= at.end
      /\ req.op = "open"
  BY DEF WalkFails, Walking, Steps, InLoop, Following
<1>2. ~doc.json
  <2>1. SUFFICES ASSUME doc.json PROVE FALSE
    OBVIOUS
  <2>2. MarkAt(doc, at.start) \in Opener
    BY <1>1, StepsInto
  <2>3. /\ Child.fault = "none"
        /\ MarkAt(doc, at.start) = "lbrace" => MarkAt(doc, here) = "quote"
        /\ Follows = "comma" \/ Follows = CloserOf(MarkAt(doc, at.start))
    BY <1>1, <2>1, <2>2, JsonChild
  <2>4. ~BadKey /\ Follows \in {"comma", "rbrace", "rbracket"}
    BY <1>1, <2>3 DEF BadKey, CloserOf
  <2>5. QED
    BY <2>3, <2>4 DEF WalkFails, Opener
<1>3. PICK code : Return(code, None, 0) /\ code # "running"
  <2>1. Child.fault \in {"none", "parse_error", "oom"}
    BY FaultFacts DEF Child
  <2>2. \E code \in {"parse_error", "oom"} : Refuse(code)
    BY <2>1 DEF WalkFails
  <2>3. QED
    BY <2>2 DEF Refuse
<1>4. QED
  BY <1>1, <1>2, <1>3, OpenReturned

LEMMA WalkChildKeeps ==
    ASSUME CallInv, WalkChild
    PROVE  CallInv'
<1>1. UNCHANGED <<doc, req, at, rest, answer>> /\ req.op = "open"
  BY DEF WalkChild, Walking, Steps, Following
<1>2. CountInv'
  BY <1>1 DEF CountInv, Counting
<1>3. QED
  BY <1>1, <1>2, CallKept


\* What a counting call answers on JSON.
Counted(t, r, a) ==
    LET o == r.from.start
        M == Members(t, o)
    IN  /\ r.op = "len" =>
              IF MarkAt(t, o) \notin Opener THEN a.code = "type_mismatch"
              ELSE a.code = "ok" /\ a.count = Len(M)
        /\ r.op = "entry" =>
              CASE MarkAt(t, o) # "lbrace" -> a.code = "type_mismatch"
                [] MarkAt(t, o) = "lbrace" /\ r.n >= Len(M) -> a.code = "not_found"
                [] OTHER -> a.code = "ok" /\ a.count = M[r.n + 1] /\ a.cursor = Valued(t, o, M[r.n + 1])

LEMMA CountReturned ==
    ASSUME NEW code, NEW c, NEW n, Return(code, c, n), code # "running", Counting,
           doc.json => Counted(doc, req, [code |-> code, cursor |-> c, count |-> n])
    PROVE  CallInv'
<1>1. /\ answer' = [code |-> code, cursor |-> c, count |-> n] /\ UNCHANGED <<doc, req>> /\ ~Running'
      /\ req.op # "open"
  BY ReturnStops DEF Return, Counting
<1>2. PathInv' /\ CountInv'
  BY <1>1 DEF PathInv, CountInv, Counting
<1>3. PathsLeadToChildren'
  BY <1>1 DEF PathsLeadToChildren, Answered
<1>4. doc'.json => Counted(doc', req', answer')
  BY <1>1
<1>5. CountsAreChildren'
  BY <1>4 DEF CountsAreChildren, Answered, Counted
<1>6. QED
  BY <1>2, <1>3, <1>5 DEF CallInv

\* What a count finds at the cursor it was called with.
LEMMA CountFacts ==
    ASSUME TextAssumption, JsonAssumption, IInv, CallInv, doc.json, Counting,
           MarkAt(doc, at.start) \in Countable
    PROVE  /\ at = req.from /\ MarkAt(doc, at.start) \in Opener
           /\ req.op = "entry" => /\ MarkAt(doc, at.start) = "lbrace"
                                  /\ req.n \in Nat /\ Len(starts) <= req.n
           /\ Empty(doc, at) => Members(doc, at.start) = <<>>
           /\ ~Empty(doc, at) => here <= at.end
<1>1. CursorOK(at) /\ doc \in Texts /\ starts \in Seq(Nat)
  BY DEF IInv, CallType, CursorsOK
<1>2. /\ MarkAt(doc, at.start) \in Opener
      /\ at = req.from /\ req.op = "entry" => /\ MarkAt(doc, at.start) = "lbrace"
                                              /\ req.n \in Nat /\ Len(starts) <= req.n
  BY DEF Countable, Opener, CallInv, CountInv
<1>3. at = req.from
  BY DEF CallInv, CountInv
<1>4. /\ at.start \in Nat /\ at.end \in Nat /\ at.end > at.start /\ at = Cursor(at.start, Limit(doc, at.start))
  BY <1>1, <1>2, CursorFacts
<1>5. Container(at.start)
  BY <1>1, <1>2, <1>4 DEF Container, MarkAt, Opener
<1>6. Empty(doc, at) => Members(doc, at.start) = <<>>
  BY <1>4, <1>5, MembersFacts
<1>7. ~Empty(doc, at) => here <= at.end
  <2>1. CASE starts = <<>>
    BY <1>4, <2>1 DEF IInv, WalkInv
  <2>2. CASE starts # <<>>
    BY <2>2 DEF IInv, WalkInv
  <2>3. QED
    BY <2>1, <2>2
<1>8. QED
  BY <1>2, <1>3, <1>6, <1>7

LEMMA CountRefusedKeeps ==
    ASSUME TextAssumption, IInv, CallInv, CountRefused
    PROVE  CallInv'
<1> DEFINE m == MarkAt(doc, at.start)
           code == IF m = "end" /\ N(doc) > 0 THEN "parse_error" ELSE "type_mismatch"
<1>1. Counting /\ m \notin Countable /\ Return(code, None, 0) /\ at = req.from
  BY DEF CountRefused, Refuse, CallInv, CountInv
<1>2. ~(m = "end" /\ N(doc) > 0)
  <2>1. CursorOK(at) /\ doc \in Texts
    BY DEF IInv, CallType, CursorsOK
  <2>2. CASE at = Root(doc)
    <3>1. at.start = 1 /\ N(doc) \in Nat /\ doc.mark \in Seq(Mark)
      BY <2>1, <2>2, TextFacts DEF TextAssumption
    <3>2. N(doc) > 0 => m \in Mark
      BY <3>1 DEF MarkAt, N
    <3>3. QED
      BY <3>2 DEF Mark, Opener, Closer
  <2>3. CASE at # Root(doc)
    <3>1. Span(doc, at.start).fault = "none"
      BY <2>1, <2>3 DEF CursorOK
    <3>2. m = "end" => Span(doc, at.start) = Fault("parse_error")
      BY DEF Span, Opener
    <3>3. Fault("parse_error").fault # "none"
      BY DEF Fault
    <3>4. QED
      BY <3>1, <3>2, <3>3
  <2>4. QED
    BY <2>2, <2>3
<1>3. code = "type_mismatch"
  BY <1>2
<1>4. Counted(doc, req, [code |-> code, cursor |-> None, count |-> 0])
  <2>1. req.op = "len" => m \notin Opener
    BY <1>1 DEF Countable
  <2>2. req.op = "entry" => m # "lbrace"
    BY <1>1 DEF Countable
  <2>3. QED
    BY <1>1, <1>3, <2>1, <2>2 DEF Counted
<1>5. QED
  BY <1>1, <1>3, <1>4, CountReturned

LEMMA CountEmptyKeeps ==
    ASSUME TextAssumption, JsonAssumption, IInv, CallInv, CountEmpty
    PROVE  CallInv'
<1> DEFINE code == IF req.op = "len" THEN "ok" ELSE "not_found"
<1>1. /\ Counting /\ MarkAt(doc, at.start) \in Countable /\ Empty(doc, at) /\ Return(code, None, 0)
      /\ req.op \in {"entry", "len"}
  BY DEF CountEmpty, Refuse, Counting
<1>2. ASSUME doc.json PROVE Counted(doc, req, [code |-> code, cursor |-> None, count |-> 0])
  <2>1. /\ at = req.from /\ MarkAt(doc, at.start) \in Opener
        /\ req.op = "entry" => MarkAt(doc, at.start) = "lbrace" /\ req.n \in Nat
        /\ Members(doc, at.start) = <<>>
    BY <1>1, <1>2, CountFacts
  <2>2. Len(Members(doc, at.start)) = 0
    BY <2>1
  <2>3. req.op = "entry" => req.n >= Len(Members(doc, at.start))
    BY <2>1, <2>2
  <2>4. QED
    BY <1>1, <2>1, <2>2, <2>3 DEF Counted
<1>3. QED
  BY <1>1, <1>2, CountReturned

\* The child a count has come to.
LEMMA CountedChild ==
    ASSUME TextAssumption, JsonAssumption, IInv, CallInv, doc.json, Visiting
    PROVE  LET M == Members(doc, req.from.start)
               n == Len(starts) + 1
           IN  /\ at = req.from /\ MarkAt(doc, at.start) \in Opener /\ req.op \in {"entry", "len"}
               /\ req.op = "entry" => MarkAt(doc, at.start) = "lbrace" /\ req.n \in Nat /\ Len(starts) <= req.n
               /\ n \in Nat /\ Len(M) \in Nat /\ n <= Len(M) /\ here = M[n] /\ Child.fault = "none"
               /\ \/ Follows = "comma" /\ Child.next + 1 <= at.end /\ n < Len(M)
                  \/ Follows = CloserOf(MarkAt(doc, at.start)) /\ n = Len(M)
<1>1. Counting /\ MarkAt(doc, at.start) \in Countable /\ ~Empty(doc, at) /\ req.op \in {"entry", "len"}
  BY DEF Visiting, Counting
<1>2. /\ at = req.from /\ MarkAt(doc, at.start) \in Opener /\ here <= at.end
      /\ req.op = "entry" => MarkAt(doc, at.start) = "lbrace" /\ req.n \in Nat /\ Len(starts) <= req.n
  BY <1>1, CountFacts
<1>3. LET M == Members(doc, at.start)
          n == Len(starts) + 1
      IN  /\ n \in Nat /\ Len(M) \in Nat /\ n \in 1..Len(M) /\ here = M[n] /\ Child.fault = "none"
          /\ \/ Follows = "comma" /\ Child.next + 1 <= at.end /\ n < Len(M)
             \/ Follows = CloserOf(MarkAt(doc, at.start)) /\ n = Len(M)
  BY <1>1, <1>2, JsonChild
<1>4. QED
  BY <1>1, <1>2, <1>3


LEMMA EntryFoundKeeps ==
    ASSUME TextAssumption, JsonAssumption, IInv, CallInv, EntryFound
    PROVE  CallInv'
<1> DEFINE c == Cursor(Value, Child.end)
<1>1. Visiting /\ Counting /\ req.op = "entry" /\ Len(starts) = req.n /\ Return("ok", c, here)
  BY DEF EntryFound, Visiting, IsNth
<1>2. ASSUME doc.json PROVE Counted(doc, req, [code |-> "ok", cursor |-> c, count |-> here])
  <2> DEFINE o == req.from.start
             M == Members(doc, o)
  <2>1. /\ at = req.from /\ MarkAt(doc, o) = "lbrace" /\ req.n \in Nat /\ Len(M) \in Nat
        /\ req.n + 1 <= Len(M) /\ here = M[req.n + 1] /\ Child.fault = "none"
    BY <1>1, <1>2, CountedChild
  <2>2. c = Valued(doc, o, here)
    <3>1. Value = ValueOf(doc, o, here) /\ Child = Span(doc, ValueOf(doc, o, here))
      BY <2>1 DEF Value, Child
    <3>2. doc \in Texts /\ here \in Nat
      BY DEF IInv, CallType
    <3>3. QED
      BY <1>2, <2>1, <3>1, <3>2, ValuedIs
  <2> HIDE DEF c
  <2>3. ~(req.n >= Len(M))
    BY <2>1
  <2>4. QED
    BY <1>1, <2>1, <2>2, <2>3 DEF Counted
<1>3. QED
  BY <1>1, <1>2, CountReturned

\* The last child is the one before the closer.
LEMMA CountEndsKeeps ==
    ASSUME TextAssumption, JsonAssumption, IInv, CallInv, CountEnds
    PROVE  CallInv'
<1> DEFINE n == Len(starts) + 1
<1>1. Visiting /\ Counting /\ req.op = "len" /\ Follows \in Closer /\ Return("ok", None, n)
  BY DEF CountEnds, Visiting
<1>2. ASSUME doc.json PROVE Counted(doc, req, [code |-> "ok", cursor |-> None, count |-> n])
  <2>1. /\ at = req.from /\ MarkAt(doc, at.start) \in Opener
        /\ Follows = "comma" \/ n = Len(Members(doc, req.from.start))
    BY <1>1, <1>2, CountedChild
  <2>2. Follows # "comma"
    BY <1>1 DEF Closer
  <2> HIDE DEF n
  <2>3. QED
    BY <1>1, <2>1, <2>2 DEF Counted
<1>3. QED
  BY <1>1, <1>2, CountReturned

\* On JSON a count only fails when it has run out of entries.
LEMMA CountFailsKeeps ==
    ASSUME TextAssumption, JsonAssumption, IInv, CallInv, CountFails
    PROVE  CallInv'
<1>1. Visiting /\ Counting
  BY DEF CountFails, Visiting
<1>2. PICK code : Refuse(code) /\ code # "running" /\ (doc.json => req.op = "entry" /\ ~IsNth
                                                        /\ Follows \in Closer /\ code = "not_found")
  <2>1. Child.fault \in {"none", "parse_error", "oom"}
    BY FaultFacts DEF Child
  <2>2. CASE doc.json
    <3>1. /\ Child.fault = "none" /\ MarkAt(doc, at.start) \in Opener
          /\ req.op = "entry" => MarkAt(doc, at.start) = "lbrace"
          /\ \/ Follows = "comma" /\ Child.next + 1 <= at.end
             \/ Follows = CloserOf(MarkAt(doc, at.start))
      BY <1>1, <2>2, CountedChild
    <3>2. Child.next \in Nat /\ at.end \in Nat
      BY <3>1, ChildFacts
    <3>3. /\ Follows \in Closer \cup {"comma"}
          /\ Follows = "comma" => ~(Child.next + 1 > at.end)
          /\ req.op = "entry" /\ Follows # "comma" => Follows = "rbrace"
      BY <3>1, <3>2 DEF CloserOf, Closer
    <3>4. /\ ~IsNth /\ req.op = "entry" /\ Follows \in Closer
          /\ Refuse(IF Follows = "rbrace" THEN "not_found" ELSE "parse_error")
      BY <3>1, <3>3 DEF CountFails, Closer, Opener
    <3>5. Refuse("not_found")
      BY <3>3, <3>4 DEF Closer
    <3>6. QED
      BY <2>2, <3>4, <3>5
  <2>3. CASE ~doc.json
    <3>1. \E code \in {"parse_error", "oom", "not_found"} : Refuse(code)
      BY <2>1 DEF CountFails
    <3>2. QED
      BY <2>3, <3>1
  <2>4. QED
    BY <2>2, <2>3
<1>3. ASSUME doc.json PROVE Counted(doc, req, [code |-> code, cursor |-> None, count |-> 0])
  <2> DEFINE M == Members(doc, req.from.start)
  <2>1. /\ at = req.from /\ MarkAt(doc, at.start) = "lbrace" /\ req.n \in Nat /\ Len(starts) <= req.n
        /\ Len(starts) + 1 \in Nat /\ (Follows = "comma" \/ Len(starts) + 1 = Len(M))
    BY <1>1, <1>2, <1>3, CountedChild
  <2>2. Len(starts) # req.n /\ Follows # "comma" /\ req.op = "entry" /\ code = "not_found"
    BY <1>2, <1>3 DEF IsNth, Closer
  <2>3. Len(starts) \in Nat
    BY DEF IInv, CallType
  <2>4. req.n >= Len(M)
    BY <2>1, <2>2, <2>3
  <2>5. QED
    BY <2>1, <2>2, <2>4 DEF Counted
<1>4. QED
  BY <1>1, <1>2, <1>3, CountReturned DEF Refuse

LEMMA CountChildKeeps ==
    ASSUME IInv, CallInv, CountChild
    PROVE  CallInv'
<1>1. /\ UNCHANGED <<doc, req, at, rest, answer>> /\ ~IsNth /\ Counting /\ Advance(Resume)
  BY DEF CountChild, Visiting
<1>2. starts \in Seq(Nat) /\ Len(starts) \in Nat /\ Len(starts') = Len(starts) + 1
  BY <1>1 DEF Advance, IInv, CallType
<1>3. CountInv'
  <2>1. at = req.from /\ (req.op = "entry" => req.n \in Nat /\ Len(starts) <= req.n)
    BY <1>1 DEF CallInv, CountInv
  <2>2. req.op = "entry" => Len(starts) # req.n
    BY <1>1 DEF IsNth
  <2>3. req.op = "entry" => Len(starts') <= req.n
    BY <1>2, <2>1, <2>2
  <2>4. QED
    BY <1>1, <2>1, <2>3 DEF CountInv
<1>4. QED
  BY <1>1, <1>3, CallKept

\* A call begins at the start of its path.
LEMMA CallKeeps ==
    ASSUME NEW r, r.path \in Seq(Seg), r.op = "entry" => r.n \in Nat, Call(r)
    PROVE  CallInv'
<1>1. /\ req' = r /\ rest' = r.path /\ at' = r.from /\ starts' = <<>> /\ doc' = doc
      /\ Running'
  BY DEF Call, Begin, Running
<1>2. PathInv'
  <2>1. ComesTo(doc, r.from, r.path, r.path, r.from)
    BY ComesToFacts
  <2>2. QED
    BY <1>1, <2>1 DEF PathInv
<1>3. CountInv'
  BY <1>1 DEF CountInv
<1>4. PathsLeadToChildren' /\ CountsAreChildren'
  BY <1>1 DEF PathsLeadToChildren, CountsAreChildren, Answered
<1>5. QED
  BY <1>2, <1>3, <1>4 DEF CallInv


LEMMA StillKeeps ==
    ASSUME CallInv, UNCHANGED <<doc, req, at, rest, walk, answer>>
    PROVE  CallInv'
<1>1. UNCHANGED <<doc, req, at, rest, starts, answer>>
  BY DEF walk
<1>2. CountInv'
  BY <1>1 DEF CallInv, CountInv, Counting, Running
<1>3. QED
  BY <1>1, <1>2, CallKept

\* The iterator begins at the first member, or at the end of an empty object.
LEMMA IterInitKeeps ==
    ASSUME TextAssumption, JsonAssumption, IInv, NEW c \in cursors, IterInit(c)
    PROVE  IterInv' /\ IteratorInOrder'
<1> DEFINE o == c.start
           M == Members(doc, o)
           n == IF Empty(doc, c) THEN c.end ELSE o + 1
<1>1. MarkAt(doc, o) = "lbrace" /\ iter' = [of |-> c, current |-> n, seen |-> 0] /\ doc' = doc
  BY DEF IterInit
<1>2. iter'.of = c /\ iter'.current = n /\ iter'.seen = 0
  BY <1>1
<1>3. CASE ~doc.json
  BY <1>1, <1>3 DEF IterInv, IteratorInOrder
<1>4. CASE doc.json
  <2>1. CursorOK(c) /\ doc \in Texts
    BY DEF IInv, CursorsOK, CallType
  <2>2. o \in Nat /\ c = Cursor(o, Limit(doc, o))
    BY <1>1, <2>1, CursorFacts DEF Opener
  <2>3. Container(o)
    BY <1>1, <1>4, <2>1, <2>2 DEF Container, MarkAt, Opener
  <2>4. Empty(doc, c) <=> Blanked(doc, o)
    BY <2>2, <2>3, MembersFacts
  <2>5. IF Empty(doc, c) THEN M = <<>> ELSE M \in Seq(Nat) /\ Len(M) >= 1 /\ M[1] = o + 1
    BY <2>3, <2>4, MembersFacts, MembersNext
  <2> HIDE DEF M
  <2>6. 0 \in 0..Len(M) /\ n = IF 0 = Len(M) THEN c.end ELSE M[0 + 1]
    BY <2>5
  <2> HIDE DEF n
  <2>7. QED
    BY <1>1, <1>2, <2>6 DEF IterInv, IteratorInOrder, M
<1>5. QED
  BY <1>3, <1>4

\* The iterator moves from a member to the next, and from the last to the end.
LEMMA IterNextKeeps ==
    ASSUME TextAssumption, JsonAssumption, IInv, IterInv, IteratorInOrder, IterNext
    PROVE  IterInv' /\ IteratorInOrder'
<1> DEFINE c == iter.of
           o == c.start
           M == Members(doc, o)
           n == iter.seen + 1
           x == Span(doc, iter.current + 3).next
           y == IF MarkAt(doc, x) = "comma" THEN x + 1 ELSE c.end
<1>1. /\ iter # None /\ iter.current < c.end /\ doc' = doc
      /\ iter' = [iter EXCEPT !.current = y, !.seen = @ + 1]
  BY DEF IterNext, IterPast
<1>2. /\ CursorOK(c) /\ iter.current \in Nat /\ doc \in Texts
      /\ iter = [of |-> c, current |-> iter.current, seen |-> iter.seen]
  BY <1>1 DEF IInv, CursorsOK, CallType
<1>3. iter'.of = c /\ iter'.current = y /\ iter'.seen = n
  BY <1>1, <1>2
<1>4. CASE ~doc.json
  BY <1>1, <1>4 DEF IterInv, IteratorInOrder
<1>5. CASE doc.json
  <2>1. /\ MarkAt(doc, o) = "lbrace" /\ iter.seen \in 0..Len(M)
        /\ iter.current = IF iter.seen = Len(M) THEN c.end ELSE M[n]
    BY <1>1, <1>5 DEF IterInv, IteratorInOrder
  <2>2. o \in Nat /\ c.end \in Nat
    BY <1>2, CursorFacts
  <2>3. Container(o)
    BY <1>2, <1>5, <2>1, <2>2 DEF Container, MarkAt, Opener
  <2>4. iter.seen # Len(M) /\ iter.current = M[n]
    BY <1>1, <1>2, <2>1, <2>2
  <2>5. ~Blanked(doc, o)
    <3>1. Blanked(doc, o) => M = <<>>
      BY <2>3, MembersFacts
    <3>2. M = <<>> => iter.seen = Len(M)
      BY <2>1
    <3>3. QED
      BY <2>4, <3>1, <3>2
  <2>6. Len(M) \in Nat
    BY <2>3, <2>5, MembersNext
  <2>7. n \in 1..Len(M)
    BY <2>1, <2>4, <2>6
  <2>8. x = Span(doc, ValueOf(doc, o, M[n])).next
    BY <2>1, <2>4 DEF ValueOf
  <2>9. \/ MarkAt(doc, x) = "comma" /\ n + 1 \in 1..Len(M) /\ M[n + 1] = x + 1
        \/ MarkAt(doc, x) = CloserOf(MarkAt(doc, o)) /\ n = Len(M)
    <3> HIDE DEF n, x
    <3> QED
      BY <2>3, <2>5, <2>7, <2>8, MembersNext
  <2>10. n \in 0..Len(M) /\ y = IF n = Len(M) THEN c.end ELSE M[n + 1]
    <3>1. CASE MarkAt(doc, x) = "comma"
      <4>1. n + 1 \in 1..Len(M) /\ M[n + 1] = x + 1
        BY <2>9, <3>1 DEF CloserOf
      <4>2. n # Len(M) /\ n \in 0..Len(M)
        BY <2>6, <2>7, <4>1
      <4>3. QED
        BY <3>1, <4>1, <4>2
    <3>2. CASE MarkAt(doc, x) # "comma"
      BY <2>6, <2>7, <2>9, <3>2
    <3>3. QED
      BY <3>1, <3>2
  <2> HIDE DEF y, n, M
  <2>11. QED
    BY <1>1, <1>3, <2>1, <2>10 DEF IterInv, IteratorInOrder, M
<1>6. QED
  BY <1>4, <1>5

LEMMA TreeInit == TextAssumption /\ Init => TreeInv
<1> SUFFICES ASSUME TextAssumption, Init PROVE TreeInv
  OBVIOUS
<1>1. req = None /\ iter = None /\ ~Running
  BY DEF Init, Running
<1>2. CallInv
  BY <1>1 DEF CallInv, PathInv, CountInv, Counting, PathsLeadToChildren, CountsAreChildren, Answered
<1>3. IterInv /\ IteratorInOrder
  BY <1>1 DEF IterInv, IteratorInOrder
<1>4. QED
  BY <1>2, <1>3, InitInv DEF TreeInv

\* A call, from the first step to the last, leaves the iterator alone.
LEMMA WorkKeeps ==
    ASSUME TextAssumption, JsonAssumption, IInv, CallInv, Work
    PROVE  CallInv' /\ UNCHANGED <<doc, iter>>
<1>1. CASE Resolved \/ StepRefused
  BY <1>1, ResolvedKeeps, StepRefusedKeeps DEF Resolved, StepRefused, Refuse, Return
<1>2. CASE HitFound \/ HitMissing
  BY <1>2, HitKeeps DEF HitFound, HitMissing, Descend, Refuse, Return
<1>3. CASE WalkEmpty \/ WalkFound \/ WalkMissing
  BY <1>3, WalkKeeps DEF WalkEmpty, WalkFound, WalkMissing, Descend, Return
<1>4. CASE WalkFails
  <2>1. UNCHANGED <<doc, iter>>
    BY <1>4 DEF WalkFails, Refuse, Return
  <2>2. QED
    BY <1>4, <2>1, WalkFailsKeeps
<1>5. CASE WalkChild
  BY <1>5, WalkChildKeeps DEF WalkChild
<1>6. CASE CountRefused \/ CountEmpty
  BY <1>6, CountRefusedKeeps, CountEmptyKeeps DEF CountRefused, CountEmpty, Refuse, Return
<1>7. CASE EntryFound \/ CountEnds
  BY <1>7, EntryFoundKeeps, CountEndsKeeps DEF EntryFound, CountEnds, Return
<1>8. CASE CountFails
  <2>1. UNCHANGED <<doc, iter>>
    BY <1>8 DEF CountFails, Refuse, Return
  <2>2. QED
    BY <1>8, <2>1, CountFailsKeeps
<1>9. CASE CountChild
  BY <1>9, CountChildKeeps DEF CountChild
<1>10. QED
  BY <1>1, <1>2, <1>3, <1>4, <1>5, <1>6, <1>7, <1>8, <1>9 DEF Work

LEMMA TreeNext == TextAssumption /\ JsonAssumption /\ CallAssumption /\ TreeInv /\ [Next]_vars => TreeInv'
<1> SUFFICES ASSUME TextAssumption, JsonAssumption, CallAssumption, TreeInv, [Next]_vars PROVE TreeInv'
  OBVIOUS
<1>1. IInv /\ CallInv /\ IterInv /\ IteratorInOrder /\ IInv'
  BY NextInv DEF TreeInv
<1>2. CASE UNCHANGED vars
  <2>1. UNCHANGED <<doc, req, at, rest, walk, answer>> /\ UNCHANGED <<doc, iter>>
    BY <1>2 DEF vars
  <2>2. QED
    BY <1>1, <2>1, StillKeeps, IterKept DEF TreeInv
<1>3. ASSUME NEW r, r.path \in Seq(Seg), r.op = "entry" => r.n \in Nat, Call(r) PROVE TreeInv'
  <2>1. UNCHANGED <<doc, iter>>
    BY <1>3 DEF Call
  <2>2. CallInv'
    BY <1>3, CallKeeps
  <2>3. QED
    BY <1>1, <2>1, <2>2, IterKept DEF TreeInv
<1>4. ASSUME NEW c \in cursors, NEW p \in Paths, Call(Open(c, p)) PROVE TreeInv'
  <2>1. Open(c, p).path \in Seq(Seg) /\ Open(c, p).op # "entry"
    BY <1>4, CallFacts DEF Open
  <2>2. QED
    BY <1>3, <1>4, <2>1
<1>5. ASSUME NEW c \in cursors, NEW n \in Indices, Call(Entry(c, n)) PROVE TreeInv'
  <2>1. Entry(c, n).path \in Seq(Seg) /\ Entry(c, n).n = n
    BY DEF Entry
  <2>2. n \in Nat
    BY DEF CallAssumption
  <2>3. QED
    BY <1>3, <1>5, <2>1, <2>2
<1>6. ASSUME NEW c \in cursors, Call(Length(c)) PROVE TreeInv'
  <2>1. Length(c).path \in Seq(Seg) /\ Length(c).op # "entry"
    BY CallFacts DEF Length
  <2>2. QED
    BY <1>3, <1>6, <2>1
<1>7. ASSUME NEW c \in cursors, IterInit(c) PROVE TreeInv'
  <2>1. UNCHANGED <<doc, req, at, rest, walk, answer>>
    BY <1>7 DEF IterInit
  <2>2. QED
    BY <1>1, <1>7, <2>1, StillKeeps, IterInitKeeps DEF TreeInv
<1>8. CASE IterNext
  <2>1. UNCHANGED <<doc, req, at, rest, walk, answer>>
    BY <1>8 DEF IterNext
  <2>2. QED
    BY <1>1, <1>8, <2>1, StillKeeps, IterNextKeeps DEF TreeInv
<1>9. CASE Work
  <2>1. CallInv' /\ UNCHANGED <<doc, iter>>
    BY <1>1, <1>9, WorkKeeps
  <2>2. QED
    BY <1>1, <2>1, IterKept DEF TreeInv
<1>10. QED
  BY <1>2, <1>4, <1>5, <1>6, <1>7, <1>8, <1>9 DEF Next

\* On JSON every path leads to the child it names, the first of a repeated key,
\* whatever was looked up before: the walk sees the children of a container one
\* after the other, and the skip cache gives back the same ones (step,
\* walk_children and resolve_in_known_children, cursor.rs).
THEOREM PathsTheorem ==
    ASSUME TextAssumption, JsonAssumption, CallAssumption
    PROVE  Spec => []PathsLeadToChildren
<1>1. Init => TreeInv
  BY TreeInit
<1>2. TreeInv /\ [Next]_vars => TreeInv'
  BY TreeNext
<1>3. TreeInv => PathsLeadToChildren
  BY DEF TreeInv, CallInv
<1>4. QED
  BY <1>1, <1>2, <1>3, PTL DEF Spec

\* On JSON the entry and length walks, which have loops of their own, see the
\* children the lookups see (nth_object_entry and cursor_len, doc.rs).
THEOREM CountsTheorem ==
    ASSUME TextAssumption, JsonAssumption, CallAssumption
    PROVE  Spec => []CountsAreChildren
<1>1. Init => TreeInv
  BY TreeInit
<1>2. TreeInv /\ [Next]_vars => TreeInv'
  BY TreeNext
<1>3. TreeInv => CountsAreChildren
  BY DEF TreeInv, CallInv
<1>4. QED
  BY <1>1, <1>2, <1>3, PTL DEF Spec

\* On JSON the iterator hands out the members in order, each of them once,
\* through the lookups made in between (qjson_iter_init and qjson_iter_next,
\* ffi.rs).
THEOREM IteratorTheorem ==
    ASSUME TextAssumption, JsonAssumption, CallAssumption
    PROVE  Spec => []IteratorInOrder
<1>1. Init => TreeInv
  BY TreeInit
<1>2. TreeInv /\ [Next]_vars => TreeInv'
  BY TreeNext
<1>3. TreeInv => IteratorInOrder
  BY DEF TreeInv
<1>4. QED
  BY <1>1, <1>2, <1>3, PTL DEF Spec

=============================================================================
