------------------------------ MODULE EagerWalk ------------------------------
(***************************************************************************)
(* Eager parsing (src/doc.rs parse_with_options_detailed, src/validate):   *)
(* the scanner pairs brackets and quotes, validate_trailing looks past the *)
(* root value, and validate_eager_values walks the structural offsets with *)
(* a stack of contexts.                                                    *)
(*                                                                         *)
(* A text is a sequence of lexemes: a structural character, a string, or a *)
(* scalar token in the gap before the next structural.  A badstring fails  *)
(* validate_string_span, a badscalar validate_scalar.                      *)
(***************************************************************************)
EXTENDS SpillStack

CONSTANTS
    MaxDepth,   \* effective_max_depth
    MaxText     \* longest text (bound)

Structural == {"lbrace", "rbrace", "lbracket", "rbracket", "comma", "colon", "string", "badstring"}
GapToken == {"scalar", "badscalar"}
Lexeme == Structural \cup GapToken

ObjCtx == {"ObjAfterOpen", "ObjAfterKey", "ObjAfterColon", "ObjAfterValue", "ObjAfterComma"}
ArrCtx == {"ArrAfterOpen", "ArrAfterValue", "ArrAfterComma"}
TopCtx == {"Top", "TopDone"}
Result == {"none", "ok", "parse_error", "too_deep", "trailing", "bad_scalar", "bad_string"}

ASSUME WalkAssumption ==
    /\ Ctx = ObjCtx \cup ArrCtx \cup TopCtx
    /\ MaxDepth \in Nat \ {0}
    /\ MaxText \in Nat

VARIABLES
    text,       \* the lexemes of the document
    open,       \* the scanner's bracket stack after them
    phase,      \* "scan", "walk" or "done"
    pos,        \* the next lexeme of the walk
    result      \* what the parse returns

vars == <<stack_buf, sp, fallback, text, open, phase, pos, result>>

-----------------------------------------------------------------------------
(* The scanner.                                                             *)

Opener == {"lbrace", "lbracket"}
OpenerOf(l) == IF l = "rbrace" THEN "lbrace" ELSE "lbracket"

\* Two scalar tokens need a structural between them (else they are one gap); a
\* closer that does not match ends the scan, and the parse, with an error.
Scan(l) ==
    /\ phase = "scan" /\ Len(text) < MaxText
    /\ l \in GapToken /\ text # <<>> => text[Len(text)] \notin GapToken
    /\ l \in {"rbrace", "rbracket"} => open # <<>> /\ open[Len(open)] = OpenerOf(l)
    /\ text' = Append(text, l)
    /\ open' = CASE l \in Opener -> Append(open, l)
                 [] l \in {"rbrace", "rbracket"} -> Front(open)
                 [] OTHER -> open
    /\ UNCHANGED <<stack_buf, sp, fallback, phase, pos, result>>

\* Containers open after the first n lexemes, and the deepest they get.
Count(S, n) == Cardinality({i \in 1..n : text[i] \in S})
OpenAfter(n) == Count(Opener, n) - Count({"rbrace", "rbracket"}, n)

-----------------------------------------------------------------------------
(* Before the walk.                                                         *)

\* validate_depth_with_offset, the whole validation of lazy mode.
DepthExceeded == \E n \in 0..Len(text) : OpenAfter(n) > MaxDepth
LazyResult ==
    IF DepthExceeded THEN "too_deep" ELSE IF open # <<>> THEN "parse_error" ELSE "ok"

\* validate_trailing_with_offset: something other than whitespace after the
\* root, which it takes to end where nesting first returns to zero, at the
\* closing quote, or at the last structural.
StructuralAt == {i \in DOMAIN text : text[i] \in Structural}
RootEnd ==
    LET first == Min(StructuralAt)
    IN  CASE text[first] \in Opener -> Min({i \in first..Len(text) : i > first /\ OpenAfter(i) = 0})
          [] text[first] \in {"string", "badstring"} -> first
          [] OTHER -> Max(StructuralAt)
Trailing == StructuralAt # {} /\ RootEnd < Len(text)

\* An invalid token that is the whole text may hold whitespace, and is then
\* reported as trailing content.
MayTrail == Trailing \/ text = <<"badscalar">>

Begin ==
    /\ phase = "scan" /\ text # <<>>
    /\ open = <<>> => ~Trailing
    /\ phase' = "walk"
    /\ UNCHANGED <<stack_buf, sp, fallback, text, open, pos, result>>

RejectTrailing ==
    /\ phase = "scan" /\ text # <<>> /\ open = <<>> /\ MayTrail
    /\ phase' = "done" /\ result' = "trailing"
    /\ UNCHANGED <<stack_buf, sp, fallback, text, open, pos>>

-----------------------------------------------------------------------------
(* The walk.                                                                *)

ValueExpected == {"Top", "ArrAfterOpen", "ArrAfterComma", "ObjAfterColon"}
KeyExpected == {"ObjAfterOpen", "ObjAfterComma"}

ParentAfterValue(c) ==
    CASE c = "Top" -> "TopDone"
      [] c \in {"ArrAfterOpen", "ArrAfterComma"} -> "ArrAfterValue"
      [] c = "ObjAfterColon" -> "ObjAfterValue"
      [] OTHER -> c

At(l) == phase = "walk" /\ pos <= Len(text) /\ text[pos] = l
Advance == pos' = pos + 1 /\ UNCHANGED <<text, open, phase, result>>
Fail(code) ==
    /\ phase' = "done" /\ result' = code
    /\ UNCHANGED <<stack_buf, sp, fallback, text, open, pos>>

\* consume_scalar_gap
WalkScalar ==
    /\ At("scalar") /\ StackLast \in ValueExpected
    /\ SetLast(ParentAfterValue(StackLast))
    /\ Advance

\* A slip the runs rule out: nesting one deeper than max_depth passes.
DepthAllowsMore == StackLen <= MaxDepth + 1
DepthAllows == StackLen <= MaxDepth

WalkOpen(l, inner) ==
    /\ At(l) /\ StackLast \in ValueExpected /\ DepthAllows
    /\ SetAndPush(ParentAfterValue(StackLast), inner)
    /\ Advance

\* A slip the runs rule out: a comma may come last in a container.
ClosableLoose(l) ==
    IF l = "rbrace" THEN {"ObjAfterOpen", "ObjAfterValue", "ObjAfterComma"}
    ELSE {"ArrAfterOpen", "ArrAfterValue", "ArrAfterComma"}
Closable(l) ==
    IF l = "rbrace" THEN {"ObjAfterOpen", "ObjAfterValue"} ELSE {"ArrAfterOpen", "ArrAfterValue"}

WalkClose(l) ==
    /\ At(l) /\ StackLast \in Closable(l) /\ ~EmptyAfterPop
    /\ Pop
    /\ Advance

AfterComma(c) == IF c = "ArrAfterValue" THEN "ArrAfterComma" ELSE "ObjAfterComma"

WalkComma ==
    /\ At("comma") /\ StackLast \in {"ArrAfterValue", "ObjAfterValue"}
    /\ SetLast(AfterComma(StackLast))
    /\ Advance

WalkColon ==
    /\ At("colon") /\ StackLast = "ObjAfterKey"
    /\ SetLast("ObjAfterColon")
    /\ Advance

WalkString ==
    /\ At("string")
    /\ \/ StackLast \in KeyExpected /\ SetLast("ObjAfterKey")
       \/ StackLast \in ValueExpected /\ SetLast(ParentAfterValue(StackLast))
    /\ Advance

\* The early returns.  A string is validated before its place is; a scalar's
\* place before the scalar.
Failure ==
    CASE text[pos] = "badstring" -> "bad_string"
      [] text[pos] = "string" /\ StackLast \notin KeyExpected \cup ValueExpected -> "parse_error"
      [] text[pos] = "badscalar" /\ StackLast \in ValueExpected -> "bad_scalar"
      [] text[pos] \in GapToken /\ StackLast \notin ValueExpected -> "parse_error"
      [] text[pos] \in Opener /\ StackLast \notin ValueExpected -> "parse_error"
      [] text[pos] \in Opener /\ ~DepthAllows -> "too_deep"
      [] text[pos] \in {"rbrace", "rbracket"}
            /\ (StackLast \notin Closable(text[pos]) \/ EmptyAfterPop) -> "parse_error"
      [] text[pos] = "comma" /\ StackLast \notin {"ArrAfterValue", "ObjAfterValue"} -> "parse_error"
      [] text[pos] = "colon" /\ StackLast # "ObjAfterKey" -> "parse_error"
      [] OTHER -> "none"

WalkFails ==
    /\ phase = "walk" /\ pos <= Len(text) /\ Failure # "none"
    /\ Fail(Failure)

\* The check after the walk reads the array's bottom frame, spilled or not.  A
\* text whose containers are not all closed is an error whatever the walk said.
Finish ==
    /\ phase = "walk" /\ pos > Len(text)
    /\ Fail(IF StackLen = 1 /\ stack_buf[1] = "TopDone" /\ open = <<>> THEN "ok" ELSE "parse_error")

\* The parse has returned.
Returned == phase = "done" /\ UNCHANGED vars

Init ==
    /\ StackInit("Top")
    /\ text = <<>> /\ open = <<>> /\ phase = "scan" /\ pos = 1 /\ result = "none"

Next ==
    \/ \E l \in Lexeme : Scan(l)
    \/ Begin \/ RejectTrailing
    \/ WalkScalar \/ WalkString \/ WalkComma \/ WalkColon
    \/ WalkOpen("lbrace", "ObjAfterOpen") \/ WalkOpen("lbracket", "ArrAfterOpen")
    \/ WalkClose("rbrace") \/ WalkClose("rbracket")
    \/ WalkFails \/ Finish \/ Returned

Spec == Init /\ [][Next]_vars

-----------------------------------------------------------------------------
(* Properties.                                                              *)

\* The stack is in the array or in a vector that holds at least the document's
\* frame, and the walk is at a lexeme of the text or past the last one.
TypeOK ==
    /\ stack_buf \in [1..Cap -> Ctx]
    /\ sp \in Nat /\ sp >= 1
    /\ InArray => fallback = None
    /\ ~InArray => fallback \in Seq(Ctx) /\ Len(fallback) >= 1
    /\ text \in Seq(Lexeme) /\ open \in Seq(Opener)
    /\ phase \in {"scan", "walk", "done"} /\ pos \in 1..Len(text) + 1 /\ result \in Result

\* The frame the final check reads is the document's frame, also when the
\* frames have been copied to the vector.
BottomInStep == stack_buf[1] = Frames[1]

\* The walk's stack holds a frame of the right kind for each container that is
\* open where it stands: no pop meets the wrong frame, the document's frame is
\* never popped, and the walk never falls back to frames the array once held.
MirrorsScanner ==
    phase = "walk" =>
        /\ StackLen = OpenAfter(pos - 1) + 1
        /\ \A i \in 2..StackLen :
              LET opened == Max({n \in 1..pos - 1 : OpenAfter(n) = i - 1 /\ OpenAfter(n - 1) = i - 2})
              IN  Frames[i] \in IF text[opened] = "lbrace" THEN ObjCtx ELSE ArrCtx

\* The two validators agree on depth: what eager mode calls too deep lazy mode
\* does too, and lazy mode accepts whatever eager mode accepts.
EagerWithinLazy ==
    /\ result = "ok" => LazyResult = "ok"
    /\ result = "too_deep" => LazyResult = "too_deep"

\* The spilling array behaves as a stack of any depth.
Stack == INSTANCE CtxStack WITH First <- "Top", frames <- Frames
StackSpec == Stack!Spec

=============================================================================
