-------------------------- MODULE EagerGrammarProofs --------------------------
(***************************************************************************)
(* The eager walk, for every text length, depth and stack capacity.  First  *)
(* its stack: it is a stack, spilled or not, and the final check reads its  *)
(* bottom frame.  Then its grammar: it accepts exactly JSON, because at     *)
(* every step the text is JSON just when the rest of it completes the       *)
(* contexts on the stack.                                                   *)
(***************************************************************************)
EXTENDS EagerGrammar, NumberSets, FiniteSetTheorems

\* The bottom frame is the document's, in the array and, once the frames have
\* spilled, in the vector; by then the root value has begun.
StackInv ==
    /\ stack_buf \in [1..Cap -> Ctx]
    /\ sp \in Nat /\ sp >= 1
    /\ InArray => fallback = None
    /\ ~InArray => /\ fallback \in Seq(Ctx) /\ Len(fallback) >= 1
                   /\ fallback[1] = "TopDone" /\ stack_buf[1] = "TopDone"
    /\ stack_buf[1] \in TopCtx
    /\ sp > 1 => stack_buf[1] = "TopDone"

-----------------------------------------------------------------------------
(* The frames.                                                              *)

\* Frames is a sequence whose last element is what last_mut! points at.
LEMMA FramesFacts ==
    ASSUME StackAssumption, WalkAssumption, StackInv
    PROVE  /\ Frames \in Seq(Ctx)
           /\ Len(Frames) = StackLen
           /\ StackLen \in Nat /\ StackLen >= 1
           /\ Frames[StackLen] = StackLast
           /\ Frames[1] = stack_buf[1]
           /\ StackLast \in Ctx
           /\ StackLen = 1 => StackLast = stack_buf[1]
<1>1. CASE InArray
  <2>1. sp \in 1..Cap
    BY <1>1 DEF InArray, StackInv, StackAssumption
  <2>2. Frames = [i \in 1..sp |-> stack_buf[i]]
    BY <1>1 DEF Frames
  <2>3. \A i \in 1..sp : stack_buf[i] \in Ctx
    BY <2>1 DEF StackInv, StackAssumption
  <2>4. Frames \in Seq(Ctx) /\ Len(Frames) = sp
    BY <2>1, <2>2, <2>3
  <2>5. QED
    BY <1>1, <2>1, <2>2, <2>3, <2>4 DEF StackLen, StackLast
<1>2. CASE ~InArray
  BY <1>2 DEF Frames, StackLen, StackLast, StackInv
<1>3. QED
  BY <1>1, <1>2

\* *last_mut!() = k replaces the last frame and no other.
LEMMA SetLastFrames ==
    ASSUME StackAssumption, WalkAssumption, StackInv, NEW k \in Ctx, SetLast(k),
           StackLen = 1 => k = "TopDone" /\ StackLast = "Top"
    PROVE  StackInv' /\ Frames' = [Frames EXCEPT ![Len(Frames)] = k]
<1>0. /\ Frames \in Seq(Ctx) /\ Len(Frames) = StackLen
      /\ StackLen \in Nat /\ StackLen >= 1
      /\ StackLen = 1 => StackLast = stack_buf[1]
  BY FramesFacts
<1>1. CASE InArray
  <2>1. sp \in 1..Cap /\ StackLen = sp
    BY <1>1 DEF InArray, StackInv, StackAssumption, StackLen
  <2>2. /\ stack_buf' = [stack_buf EXCEPT ![sp] = k]
        /\ sp' = sp /\ fallback' = fallback
    BY <1>1 DEF SetLast
  <2>3. StackInv'
    BY <1>1, <2>1, <2>2 DEF StackInv, InArray, TopCtx, StackAssumption
  <2>4. Frames' = [i \in 1..sp |-> stack_buf'[i]] /\ Frames = [i \in 1..sp |-> stack_buf[i]]
    BY <1>1, <2>2 DEF Frames, InArray
  <2>5. \A i \in 1..sp : stack_buf'[i] = IF i = sp THEN k ELSE stack_buf[i]
    BY <2>1, <2>2 DEF StackInv
  <2>6. Frames' = [Frames EXCEPT ![sp] = k]
    BY <2>1, <2>4, <2>5
  <2>7. QED
    BY <1>0, <2>1, <2>3, <2>6
<1>2. CASE ~InArray
  <2>1. /\ fallback' = [fallback EXCEPT ![Len(fallback)] = k]
        /\ sp' = sp /\ stack_buf' = stack_buf
    BY <1>2 DEF SetLast
  <2>2. Frames = fallback /\ Frames' = fallback'
    BY <1>2, <2>1 DEF Frames, InArray
  <2>3. Len(fallback) > 1
    BY <1>2, <1>0 DEF StackInv, StackLen, StackLast
  <2>4. StackInv'
    BY <1>2, <2>1, <2>3 DEF StackInv, InArray
  <2>5. QED
    BY <2>1, <2>2, <2>4
<1>3. QED
  BY <1>1, <1>2

\* A push puts a frame on top of the frames there are, also when it is the one
\* that spills them.
LEMMA PushFrames ==
    ASSUME StackAssumption, WalkAssumption, StackInv, NEW j \in Ctx, NEW k \in Ctx,
           SetAndPush(j, k), StackLen = 1 => j = "TopDone"
    PROVE  StackInv' /\ Frames' = Append([Frames EXCEPT ![Len(Frames)] = j], k)
<1>0. /\ Frames \in Seq(Ctx) /\ Len(Frames) = StackLen
      /\ StackLen \in Nat /\ StackLen >= 1
      /\ Frames[1] = stack_buf[1]
  BY FramesFacts
<1>1. CASE sp < Cap
  <2>1. sp \in 1..Cap /\ sp + 1 \in 1..Cap /\ InArray /\ StackLen = sp
    BY <1>1 DEF InArray, StackInv, StackAssumption, StackLen
  <2>2. /\ stack_buf' = [stack_buf EXCEPT ![sp] = j, ![sp + 1] = k]
        /\ sp' = sp + 1 /\ fallback' = fallback
    BY <1>1, <2>1 DEF SetAndPush
  <2>3. \A i \in 1..sp + 1 :
            stack_buf'[i] = IF i = sp + 1 THEN k ELSE IF i = sp THEN j ELSE stack_buf[i]
    BY <2>1, <2>2 DEF StackInv
  <2>4. InArray'
    BY <2>1, <2>2 DEF InArray
  <2>5. StackInv'
    <3>1. stack_buf' \in [1..Cap -> Ctx]
      BY <2>1, <2>2 DEF StackInv
    <3>2. stack_buf'[1] = "TopDone"
      BY <2>1, <2>3 DEF StackInv
    <3>3. QED
      BY <2>1, <2>2, <2>4, <3>1, <3>2 DEF StackInv, TopCtx
  <2>6. Frames' = [i \in 1..sp + 1 |-> stack_buf'[i]] /\ Frames = [i \in 1..sp |-> stack_buf[i]]
    BY <2>1, <2>2, <2>4 DEF Frames
  <2>7. Frames' = [i \in 1..sp + 1 |->
                      IF i = sp + 1 THEN k ELSE [Frames EXCEPT ![sp] = j][i]]
    BY <2>1, <2>3, <2>6
  <2>8. QED
    BY <1>0, <2>1, <2>5, <2>7
<1>2. CASE sp = Cap
  <2>1. sp \in 1..Cap /\ InArray /\ StackLen = Cap /\ fallback = None
    BY <1>2 DEF InArray, StackInv, StackAssumption, StackLen
  <2> DEFINE buf == [stack_buf EXCEPT ![sp] = j]
  <2>2. /\ stack_buf' = buf
        /\ fallback' = Append(buf, k)
        /\ sp' = Cap + Len(fallback')
    BY <1>2, <2>1 DEF SetAndPush, Spilled, StackAssumption
  <2>3. /\ buf \in [1..Cap -> Ctx]
        /\ buf \in Seq(Ctx) /\ Len(buf) = Cap
        /\ buf[1] = "TopDone"
    <3>1. buf \in [1..Cap -> Ctx]
      BY <2>1 DEF StackInv
    <3>2. buf \in Seq(Ctx) /\ Len(buf) = Cap
      <4> DEFINE items == [i \in 1..Cap |-> buf[i]]
      <4>1. buf = items /\ \A i \in 1..Cap : buf[i] \in Ctx
        BY <3>1
      <4> HIDE DEF buf
      <4>2. items \in Seq(Ctx) /\ Len(items) = Cap
        BY <4>1 DEF StackAssumption
      <4>3. QED
        BY <4>1, <4>2
    <3>3. buf[1] = IF sp = 1 THEN j ELSE stack_buf[1]
      BY <2>1 DEF StackInv
    <3>4. buf[1] = "TopDone"
      BY <1>2, <2>1, <3>3 DEF StackInv
    <3>5. QED
      BY <3>1, <3>2, <3>4
  <2>4. fallback' \in Seq(Ctx) /\ Len(fallback') = Cap + 1 /\ fallback'[1] = "TopDone"
    BY <2>1, <2>2, <2>3
  <2>5. ~InArray' /\ sp' \in Nat /\ sp' > Cap
    BY <2>1, <2>2, <2>4 DEF InArray
  <2>6. StackInv'
    BY <2>2, <2>3, <2>4, <2>5 DEF StackInv, TopCtx
  <2>7. Frames = [i \in 1..Cap |-> stack_buf[i]]
    BY <1>2, <2>1 DEF Frames
  <2>8. Frames = stack_buf
    BY <2>7 DEF StackInv
  <2>9. QED
    BY <1>0, <1>2, <2>1, <2>2, <2>5, <2>6, <2>8 DEF Frames
<1>3. CASE sp > Cap
  <2>1. ~InArray /\ StackLen = Len(fallback) /\ Frames = fallback
    BY <1>3 DEF InArray, StackInv, StackAssumption, StackLen, Frames
  <2>2. /\ stack_buf' = stack_buf
        /\ fallback' = Append([fallback EXCEPT ![Len(fallback)] = j], k)
        /\ sp' = Cap + Len(fallback')
    BY <1>3 DEF SetAndPush, StackInv, StackAssumption
  <2>3. fallback' \in Seq(Ctx) /\ Len(fallback') = Len(fallback) + 1 /\ fallback'[1] = "TopDone"
    BY <2>1, <2>2 DEF StackInv
  <2>4. ~InArray' /\ sp' \in Nat /\ sp' > Cap
    BY <2>1, <2>2, <2>3, <1>0 DEF InArray, StackAssumption
  <2>5. StackInv'
    BY <2>1, <2>2, <2>3, <2>4 DEF StackInv
  <2>6. QED
    BY <2>1, <2>2, <2>4, <2>5 DEF Frames
<1>4. QED
  BY <1>1, <1>2, <1>3 DEF StackInv, StackAssumption

\* A pop above the document's frame drops the last frame and no other.
LEMMA PopFrames ==
    ASSUME StackAssumption, WalkAssumption, StackInv, Pop, StackLen > 1
    PROVE  StackInv' /\ Frames' = SubSeq(Frames, 1, Len(Frames) - 1)
<1>0. /\ Frames \in Seq(Ctx) /\ Len(Frames) = StackLen
      /\ StackLen \in Nat
  BY FramesFacts
<1>1. CASE InArray
  <2>1. sp \in 2..Cap /\ StackLen = sp
    BY <1>1 DEF InArray, StackInv, StackAssumption, StackLen
  <2>2. stack_buf' = stack_buf /\ sp' = sp - 1 /\ fallback' = fallback
    BY <1>1 DEF Pop
  <2>3. InArray'
    BY <2>1, <2>2 DEF InArray, StackAssumption
  <2>4. StackInv'
    BY <1>1, <2>1, <2>2, <2>3 DEF StackInv
  <2>5. Frames' = [i \in 1..sp - 1 |-> stack_buf[i]] /\ Frames = [i \in 1..sp |-> stack_buf[i]]
    BY <1>1, <2>2, <2>3 DEF Frames
  <2>6. Frames' = [i \in 1..sp - 1 |-> Frames[i]]
    BY <2>1, <2>5
  <2>7. QED
    BY <1>0, <2>1, <2>4, <2>6
<1>2. CASE ~InArray
  <2>1. StackLen = Len(fallback) /\ Frames = fallback
    BY <1>2 DEF StackLen, Frames
  <2>2. /\ fallback' = SubSeq(fallback, 1, Len(fallback) - 1)
        /\ sp' = sp /\ stack_buf' = stack_buf
    BY <1>2, <2>1, <1>0 DEF Pop, Front
  <2>3. fallback' \in Seq(Ctx) /\ Len(fallback') >= 1 /\ fallback'[1] = "TopDone"
    BY <1>0, <1>2, <2>1, <2>2 DEF StackInv
  <2>4. ~InArray'
    BY <1>2, <2>2 DEF InArray
  <2>5. StackInv'
    BY <1>2, <2>2, <2>3, <2>4 DEF StackInv
  <2>6. QED
    BY <2>1, <2>2, <2>4, <2>5 DEF Frames
<1>3. QED
  BY <1>1, <1>2

-----------------------------------------------------------------------------
(* The steps.                                                               *)

\* The text is a sequence of lexemes and the walk stands in it.
TextInv ==
    /\ text \in Seq(Lexeme) /\ open \in Seq(Opener)
    /\ phase \in {"scan", "walk", "done"} /\ pos \in 1..Len(text) + 1 /\ result \in Result

\* A step that leaves the stack alone.
LEMMA StackKept ==
    ASSUME StackInv, UNCHANGED stack
    PROVE  StackInv' /\ Frames' = Frames
BY DEF stack, StackInv, Frames, InArray

\* A step that moves the top frame on: in the document's frame only from Top
\* to TopDone, so that no step takes it back.
LEMMA MoveOn ==
    ASSUME StackAssumption, WalkAssumption, StackInv, NEW k \in Ctx, SetLast(k),
           StackLast \in TopCtx => StackLast = "Top" /\ k = "TopDone"
    PROVE  StackInv' /\ Stack!Replace(k)
<1>1. StackLen = 1 => StackLast \in TopCtx
  BY FramesFacts DEF StackInv
<1>2. StackInv' /\ Frames' = [Frames EXCEPT ![Len(Frames)] = k]
  BY <1>1, SetLastFrames
<1>3. QED
  BY <1>2 DEF Stack!Replace

\* Where a value is expected, the frame below it can move on.
LEMMA AfterValueInCtx ==
    ASSUME WalkAssumption, StackLast \in ValueExpected
    PROVE  /\ ParentAfterValue(StackLast) \in Ctx
           /\ StackLast \in TopCtx => StackLast = "Top" /\ ParentAfterValue(StackLast) = "TopDone"
BY DEF WalkAssumption, ValueExpected, ParentAfterValue, ObjCtx, ArrCtx, TopCtx

\* Every step keeps the stack's invariant and is a step of the abstract stack
\* or leaves its frames as they are.
LEMMA StackStep ==
    ASSUME StackAssumption, WalkAssumption, StackInv, [Next]_vars
    PROVE  StackInv' /\ [Stack!Next]_Frames
<1> USE StackAssumption, WalkAssumption
<1>1. ASSUME UNCHANGED stack PROVE StackInv' /\ [Stack!Next]_Frames
  BY <1>1, StackKept
<1>2. ASSUME NEW k \in Ctx, SetLast(k),
             StackLast \in TopCtx => StackLast = "Top" /\ k = "TopDone"
      PROVE  StackInv' /\ [Stack!Next]_Frames
  BY <1>2, MoveOn DEF Stack!Next
<1>3. ASSUME NEW l \in Lexeme, Scan(l) PROVE StackInv' /\ [Stack!Next]_Frames
  BY <1>3, <1>1 DEF Scan, stack
<1>4. CASE Begin \/ RejectTrailing \/ WalkFails \/ Finish \/ Returned \/ UNCHANGED vars
  BY <1>4, <1>1 DEF Begin, RejectTrailing, WalkFails, Finish, Fail, Returned, vars, stack
<1>5. CASE WalkScalar
  BY <1>5, <1>2, AfterValueInCtx DEF WalkScalar
<1>6. CASE WalkString
  <2>1. CASE StackLast \in KeyExpected /\ SetLast("ObjAfterKey")
    <3>1. "ObjAfterKey" \in Ctx /\ StackLast \notin TopCtx
      BY <2>1 DEF WalkAssumption, ObjCtx, KeyExpected, TopCtx
    <3>2. QED
      BY <2>1, <3>1, <1>2
  <2>2. CASE StackLast \in ValueExpected /\ SetLast(ParentAfterValue(StackLast))
    BY <2>2, <1>2, AfterValueInCtx
  <2>3. QED
    BY <1>6, <2>1, <2>2 DEF WalkString
<1>7. CASE WalkComma
  <2>1. AfterComma(StackLast) \in Ctx /\ StackLast \notin TopCtx
    BY <1>7 DEF WalkComma, AfterComma, WalkAssumption, ObjCtx, ArrCtx, TopCtx
  <2>2. QED
    BY <1>7, <2>1, <1>2 DEF WalkComma
<1>8. CASE WalkColon
  <2>1. "ObjAfterColon" \in Ctx /\ StackLast \notin TopCtx
    BY <1>8 DEF WalkColon, WalkAssumption, ObjCtx, TopCtx
  <2>2. QED
    BY <1>8, <2>1, <1>2 DEF WalkColon
<1>9. ASSUME NEW l \in Opener, NEW inner \in {"ObjAfterOpen", "ArrAfterOpen"}, WalkOpen(l, inner)
      PROVE  StackInv' /\ [Stack!Next]_Frames
  <2> DEFINE j == ParentAfterValue(StackLast)
  <2>1. StackLast \in ValueExpected /\ SetAndPush(j, inner)
    BY <1>9 DEF WalkOpen
  <2>2. inner \in Ctx
    BY DEF WalkAssumption, ObjCtx, ArrCtx
  <2>3. StackLen = 1 => StackLast \in TopCtx
    BY FramesFacts DEF StackInv
  <2>4. j \in Ctx /\ (StackLen = 1 => j = "TopDone")
    BY <2>1, <2>3, AfterValueInCtx
  <2> HIDE DEF j
  <2>5. StackInv' /\ Frames' = Append([Frames EXCEPT ![Len(Frames)] = j], inner)
    BY <2>1, <2>2, <2>4, PushFrames
  <2>6. QED
    BY <2>2, <2>4, <2>5 DEF Stack!Next, Stack!Descend
<1>10. ASSUME NEW l \in {"rbrace", "rbracket"}, WalkClose(l)
       PROVE  StackInv' /\ [Stack!Next]_Frames
  <2>1. Pop /\ StackLast \notin TopCtx
    BY <1>10 DEF WalkClose, Closable, TopCtx
  <2>2. Len(Frames) = StackLen /\ StackLen > 1
    BY <2>1, FramesFacts DEF StackInv
  <2>3. StackInv' /\ Frames' = SubSeq(Frames, 1, Len(Frames) - 1)
    BY <2>1, <2>2, PopFrames
  <2>4. QED
    BY <2>2, <2>3 DEF Stack!Next, Stack!Ascend
<1>11. QED
  BY <1>3, <1>4, <1>5, <1>6, <1>7, <1>8, <1>9, <1>10 DEF Next, Opener

\* Every step leaves the text a text and the walk in it.
LEMMA TextStep ==
    ASSUME WalkAssumption, TextInv, [Next]_vars
    PROVE  TextInv'
<1>1. ASSUME NEW l \in Lexeme, Scan(l) PROVE TextInv'
  <2>1. /\ text' = Append(text, l)
        /\ phase' = phase /\ pos' = pos /\ result' = result
    BY <1>1 DEF Scan
  <2>2. open' \in Seq(Opener)
    <3>1. CASE l \in Opener
      BY <1>1, <3>1 DEF Scan, TextInv, Opener
    <3>2. CASE l \in {"rbrace", "rbracket"}
      <4>1. open # <<>> /\ open' = SubSeq(open, 1, Len(open) - 1)
        BY <1>1, <3>2 DEF Scan, Opener, Front
      <4>2. QED
        BY <4>1 DEF TextInv
    <3>3. CASE l \notin Opener /\ l \notin {"rbrace", "rbracket"}
      BY <1>1, <3>3 DEF Scan, TextInv
    <3>4. QED
      BY <3>1, <3>2, <3>3
  <2>3. text' \in Seq(Lexeme) /\ Len(text') = Len(text) + 1
    BY <2>1 DEF TextInv
  <2>4. QED
    BY <2>1, <2>2, <2>3 DEF TextInv
<1>2. CASE Begin \/ RejectTrailing \/ Finish \/ Returned \/ UNCHANGED vars
  BY <1>2 DEF Begin, RejectTrailing, Finish, Fail, Returned, vars, TextInv, Result
<1>3. CASE WalkFails
  <2>1. Failure \in Result
    BY DEF Failure, Result
  <2>2. QED
    BY <1>3, <2>1 DEF WalkFails, Fail, TextInv
<1>4. ASSUME pos <= Len(text), Advance PROVE TextInv'
  BY <1>4 DEF Advance, TextInv
<1>5. CASE WalkScalar \/ WalkString \/ WalkComma \/ WalkColon
  BY <1>5, <1>4 DEF WalkScalar, WalkString, WalkComma, WalkColon, At
<1>6. ASSUME NEW l, NEW inner, WalkOpen(l, inner) PROVE TextInv'
  BY <1>6, <1>4 DEF WalkOpen, At
<1>7. ASSUME NEW l, WalkClose(l) PROVE TextInv'
  BY <1>7, <1>4 DEF WalkClose, At
<1>8. QED
  BY <1>1, <1>2, <1>3, <1>5, <1>6, <1>7 DEF Next

-----------------------------------------------------------------------------
(* The walk and the scanner.                                                *)

\* One more lexeme opens one more container, closes one, or neither.
LEMMA CountStep ==
    ASSUME NEW S, NEW n \in Nat
    PROVE  /\ Count(S, 0) = 0
           /\ Count(S, n) \in Nat
           /\ Count(S, n + 1) = IF text[n + 1] \in S THEN Count(S, n) + 1 ELSE Count(S, n)
<1> DEFINE C(m) == {i \in 1..m : text[i] \in S}
<1>1. C(0) = {}
  OBVIOUS
<1>2. IsFiniteSet(1..n)
  BY FS_Interval
<1>3. IsFiniteSet(C(n)) /\ Cardinality(C(n)) \in Nat
  BY <1>2, FS_Subset, FS_CardinalityType
<1>4. C(n + 1) = IF text[n + 1] \in S THEN C(n) \cup {n + 1} ELSE C(n)
  OBVIOUS
<1>5. n + 1 \notin C(n)
  OBVIOUS
<1>6. Cardinality(C(n) \cup {n + 1}) = Cardinality(C(n)) + 1
  BY <1>3, <1>5, FS_AddElement
<1> HIDE DEF C
<1>7. QED
  <2>1. Cardinality(C(0)) = 0
    BY <1>1, FS_EmptySet
  <2>2. \A m : Count(S, m) = Cardinality(C(m))
    BY DEF Count, C
  <2>3. QED
    BY <2>1, <2>2, <1>3, <1>4, <1>6

\* How many containers are open, lexeme by lexeme.
LEMMA OpenStep ==
    ASSUME NEW n \in Nat
    PROVE  /\ OpenAfter(0) = 0
           /\ OpenAfter(n) \in Int
           /\ text[n + 1] \in Opener => OpenAfter(n + 1) = OpenAfter(n) + 1
           /\ text[n + 1] \in {"rbrace", "rbracket"} => OpenAfter(n + 1) = OpenAfter(n) - 1
           /\ text[n + 1] \notin Opener \cup {"rbrace", "rbracket"} => OpenAfter(n + 1) = OpenAfter(n)
<1>1. \A S : /\ Count(S, 0) = 0 /\ Count(S, n) \in Nat
             /\ Count(S, n + 1) = IF text[n + 1] \in S THEN Count(S, n) + 1 ELSE Count(S, n)
  BY CountStep
<1>2. Opener \cap {"rbrace", "rbracket"} = {}
  BY DEF Opener
<1>3. QED
  BY <1>1, <1>2 DEF OpenAfter

\* Where the container of frame i was opened, among the lexemes before p, and
\* the contexts that fit it.
OpenedBy(i, p) == {n \in 1..p - 1 : OpenAfter(n) = i - 1 /\ OpenAfter(n - 1) = i - 2}
Fitting(i, p) == IF text[Max(OpenedBy(i, p))] = "lbrace" THEN ObjCtx ELSE ArrCtx

\* A lexeme changes where the container of a frame was opened only by opening it.
LEMMA OpenedStep ==
    ASSUME NEW i \in Nat, NEW p \in Nat, p >= 1
    PROVE  /\ ~(OpenAfter(p) = i - 1 /\ OpenAfter(p - 1) = i - 2) => OpenedBy(i, p + 1) = OpenedBy(i, p)
           /\ OpenAfter(p) = i - 1 /\ OpenAfter(p - 1) = i - 2 => Max(OpenedBy(i, p + 1)) = p
<1>1. \A n : n \in OpenedBy(i, p + 1) <=>
              \/ n \in OpenedBy(i, p)
              \/ n = p /\ OpenAfter(p) = i - 1 /\ OpenAfter(p - 1) = i - 2
  BY DEF OpenedBy
<1>2. ASSUME OpenAfter(p) = i - 1 /\ OpenAfter(p - 1) = i - 2
      PROVE  Max(OpenedBy(i, p + 1)) = p
  <2> DEFINE S == OpenedBy(i, p + 1)
  <2>1. p \in S /\ \A n \in S : n \in Int /\ p >= n
    BY <1>1, <1>2 DEF OpenedBy
  <2> HIDE DEF S
  <2> DEFINE m == Max(S)
  <2>2. m \in S /\ \A n \in S : m >= n
    BY <2>1 DEF Max
  <2> HIDE DEF m
  <2>3. m \in Int /\ p \in Int /\ m >= p /\ p >= m
    BY <2>1, <2>2
  <2>4. m = p
    BY <2>3
  <2>5. QED
    BY <2>4 DEF S, m
<1>3. QED
  BY <1>1, <1>2

\* Before the walk begins only the document's frame is there; the containers the
\* walk has entered are within the limit; an answer is given once.
DepthInv ==
    /\ phase = "scan" => pos = 1 /\ StackLen = 1
    /\ phase # "done" => result = "none"
    /\ phase = "walk" =>
        /\ Len(Frames) = OpenAfter(pos - 1) + 1
        /\ \A i \in 2..Len(Frames) : Frames[i] \in Fitting(i, pos)
        /\ \A n \in 0..pos - 1 : OpenAfter(n) <= MaxDepth
    /\ EagerWithinLazy

WalkInv == StackInv /\ TextInv /\ DepthInv

LEMMA FramesLen ==
    ASSUME StackAssumption, StackInv
    PROVE  Len(Frames) = StackLen
<1>1. CASE InArray
  <2>1. Frames = [i \in 1..sp |-> stack_buf[i]] /\ StackLen = sp /\ sp \in Nat
    BY <1>1 DEF Frames, StackLen, StackInv
  <2>2. QED
    BY <2>1
<1>2. CASE ~InArray
  BY <1>2 DEF Frames, StackLen
<1>3. QED
  BY <1>1, <1>2

\* The lexeme the walk has taken, its frames before and after: what is common to
\* every arm of the walk.
Took(l) ==
    /\ phase = "walk" /\ pos \in 1..Len(text) /\ text[pos] = l
    /\ pos' = pos + 1 /\ UNCHANGED <<text, open, phase, result>>

LEMMA TakeStep ==
    ASSUME TextInv, DepthInv, NEW l, Took(l),
           Len(Frames') = OpenAfter(pos) + 1,
           OpenAfter(pos) <= MaxDepth,
           \A i \in 2..Len(Frames') : Frames'[i] \in Fitting(i, pos + 1)
    PROVE  DepthInv'
<1>0. text' = text /\ pos' = pos + 1 /\ pos \in Nat /\ phase' = "walk" /\ result' = result /\ open' = open
  BY DEF Took, TextInv
<1>1. ASSUME NEW n PROVE OpenAfter(n)' = OpenAfter(n)
  BY <1>0 DEF OpenAfter, Count
<1>2. ASSUME NEW i PROVE Fitting(i, pos)' = Fitting(i, pos + 1)
  <2>1. OpenedBy(i, pos)' = OpenedBy(i, pos + 1)
    BY <1>0, <1>1 DEF OpenedBy, OpenAfter, Count
  <2>2. QED
    BY <1>0, <2>1 DEF Fitting
<1>3. \A n \in 0..pos : OpenAfter(n) <= MaxDepth
  BY DEF DepthInv, Took
<1>4. QED
  BY <1>0, <1>1, <1>2, <1>3 DEF DepthInv, EagerWithinLazy, Took

\* After a value the frame is still one of its container's.
LEMMA AfterValueKind ==
    ASSUME StackLast \in ValueExpected
    PROVE  /\ StackLast \in ObjCtx => ParentAfterValue(StackLast) \in ObjCtx
           /\ StackLast \in ArrCtx => ParentAfterValue(StackLast) \in ArrCtx
BY DEF ValueExpected, ParentAfterValue, ObjCtx, ArrCtx

\* An arm that moves the top frame on within its container.
LEMMA ReplaceStep ==
    ASSUME StackAssumption, WalkAssumption, WalkInv, NEW l, Took(l), NEW k \in Ctx, SetLast(k),
           l \notin Opener \cup {"rbrace", "rbracket"},
           StackLast \in TopCtx => StackLast = "Top" /\ k = "TopDone",
           StackLast \in ObjCtx => k \in ObjCtx,
           StackLast \in ArrCtx => k \in ArrCtx
    PROVE  DepthInv'
<1>1. Frames' = [Frames EXCEPT ![Len(Frames)] = k]
  BY MoveOn DEF WalkInv, Stack!Replace
<1>2. /\ Frames \in Seq(Ctx) /\ Len(Frames) \in Nat /\ Len(Frames) >= 1
      /\ Frames[Len(Frames)] = StackLast
  BY FramesFacts DEF WalkInv
<1>3. /\ pos \in Nat /\ pos >= 1 /\ text[pos] = l
      /\ Len(Frames) = OpenAfter(pos - 1) + 1
      /\ \A i \in 2..Len(Frames) : Frames[i] \in Fitting(i, pos)
      /\ OpenAfter(pos - 1) <= MaxDepth
  BY DEF WalkInv, TextInv, DepthInv, Took
<1>4. OpenAfter(pos) = OpenAfter(pos - 1) /\ OpenAfter(pos) \in Int
  <2>1. pos - 1 \in Nat /\ (pos - 1) + 1 = pos
    BY <1>3
  <2>2. QED
    BY <2>1, <1>3, OpenStep
<1>5. Len(Frames') = Len(Frames)
  BY <1>1, <1>2
<1>6. ASSUME NEW i \in 2..Len(Frames') PROVE Frames'[i] \in Fitting(i, pos + 1)
  <2>1. i \in Nat /\ i \in 2..Len(Frames)
    BY <1>2, <1>5
  <2>2. OpenedBy(i, pos + 1) = OpenedBy(i, pos)
    BY <2>1, <1>3, <1>4, OpenedStep
  <2>3. Fitting(i, pos + 1) = Fitting(i, pos) /\ Fitting(i, pos) \in {ObjCtx, ArrCtx}
    BY <2>2 DEF Fitting
  <2>4. Frames'[i] = IF i = Len(Frames) THEN k ELSE Frames[i]
    BY <1>1, <1>2, <2>1
  <2>5. ObjCtx \cap ArrCtx = {}
    BY DEF ObjCtx, ArrCtx
  <2>6. QED
    BY <2>1, <2>3, <2>4, <2>5, <1>2, <1>3
<1>7. QED
  BY <1>3, <1>4, <1>5, <1>6, TakeStep DEF WalkInv

\* A container opens: the frame below moves on, one of its kind is pushed.
LEMMA DescendStep ==
    ASSUME StackAssumption, WalkAssumption, WalkInv,
           NEW l \in Opener, Took(l), DepthAllows,
           NEW j \in Ctx, NEW k \in IF l = "lbrace" THEN ObjCtx ELSE ArrCtx, SetAndPush(j, k),
           StackLen = 1 => j = "TopDone",
           StackLast \in ObjCtx => j \in ObjCtx,
           StackLast \in ArrCtx => j \in ArrCtx
    PROVE  DepthInv'
<1>1. Frames' = Append([Frames EXCEPT ![Len(Frames)] = j], k) /\ k \in Ctx
  <2>1. k \in Ctx
    BY DEF WalkAssumption
  <2>2. QED
    BY <2>1, PushFrames DEF WalkInv
<1>2. /\ Frames \in Seq(Ctx) /\ Len(Frames) \in Nat /\ Len(Frames) >= 1
      /\ Frames[Len(Frames)] = StackLast /\ Len(Frames) = StackLen
  BY FramesFacts DEF WalkInv
<1>3. /\ pos \in Nat /\ pos >= 1 /\ text[pos] = l
      /\ Len(Frames) = OpenAfter(pos - 1) + 1
      /\ \A i \in 2..Len(Frames) : Frames[i] \in Fitting(i, pos)
  BY DEF WalkInv, TextInv, DepthInv, Took
<1>4. OpenAfter(pos) = OpenAfter(pos - 1) + 1 /\ OpenAfter(pos - 1) \in Int /\ OpenAfter(pos) \in Int
  <2>1. pos - 1 \in Nat /\ (pos - 1) + 1 = pos
    BY <1>3
  <2>2. QED
    BY <2>1, <1>3, OpenStep
<1>5. Len(Frames') = Len(Frames) + 1
  BY <1>1, <1>2
<1>6. ASSUME NEW i \in 2..Len(Frames') PROVE Frames'[i] \in Fitting(i, pos + 1)
  <2>1. i \in Nat
    BY <1>2, <1>5
  <2>2. CASE i = Len(Frames) + 1
    <3>1. Max(OpenedBy(i, pos + 1)) = pos
      BY <2>1, <2>2, <1>3, <1>4, OpenedStep
    <3>2. Frames'[i] = k
      BY <1>1, <1>2, <2>2
    <3>3. QED
      BY <3>1, <3>2, <1>3 DEF Fitting
  <2>3. CASE i # Len(Frames) + 1
    <3>1. i \in 2..Len(Frames)
      BY <2>3, <1>2, <1>5
    <3>2. OpenedBy(i, pos + 1) = OpenedBy(i, pos)
      BY <2>1, <2>3, <1>3, <1>4, OpenedStep
    <3>3. Fitting(i, pos + 1) = Fitting(i, pos) /\ Fitting(i, pos) \in {ObjCtx, ArrCtx}
      BY <3>2 DEF Fitting
    <3>4. Frames'[i] = IF i = Len(Frames) THEN j ELSE Frames[i]
      BY <1>1, <1>2, <3>1
    <3>5. ObjCtx \cap ArrCtx = {}
      BY DEF ObjCtx, ArrCtx
    <3>6. QED
      BY <3>1, <3>3, <3>4, <3>5, <1>2, <1>3
  <2>4. QED
    BY <2>2, <2>3
<1>7. OpenAfter(pos) <= MaxDepth
  BY <1>2, <1>3, <1>4 DEF DepthAllows
<1>8. QED
  BY <1>3, <1>4, <1>5, <1>6, <1>7, TakeStep DEF WalkInv

\* A container closes: the frame below is on top again.
LEMMA AscendStep ==
    ASSUME StackAssumption, WalkAssumption, WalkInv,
           NEW l \in {"rbrace", "rbracket"}, Took(l), Pop, StackLast \notin TopCtx
    PROVE  DepthInv'
<1>1. /\ Frames \in Seq(Ctx) /\ Len(Frames) \in Nat
      /\ Len(Frames) = StackLen /\ StackLen > 1
  BY FramesFacts DEF WalkInv, StackInv
<1>2. Frames' = SubSeq(Frames, 1, Len(Frames) - 1)
  BY <1>1, PopFrames DEF WalkInv
<1>3. /\ pos \in Nat /\ pos >= 1 /\ text[pos] = l
      /\ Len(Frames) = OpenAfter(pos - 1) + 1
      /\ \A i \in 2..Len(Frames) : Frames[i] \in Fitting(i, pos)
      /\ OpenAfter(pos - 1) <= MaxDepth
  BY DEF WalkInv, TextInv, DepthInv, Took
<1>4. OpenAfter(pos) = OpenAfter(pos - 1) - 1 /\ OpenAfter(pos - 1) \in Int /\ OpenAfter(pos) \in Int
  <2>1. pos - 1 \in Nat /\ (pos - 1) + 1 = pos
    BY <1>3
  <2>2. QED
    BY <2>1, <1>3, OpenStep
<1>5. Len(Frames') = Len(Frames) - 1 /\ \A i \in 1..Len(Frames) - 1 : Frames'[i] = Frames[i]
  BY <1>1, <1>2
<1>6. ASSUME NEW i \in 2..Len(Frames') PROVE Frames'[i] \in Fitting(i, pos + 1)
  <2>1. i \in Nat /\ i \in 2..Len(Frames) /\ i \in 1..Len(Frames) - 1
    BY <1>1, <1>5
  <2>2. OpenedBy(i, pos + 1) = OpenedBy(i, pos)
    BY <2>1, <1>3, <1>4, OpenedStep
  <2>3. QED
    BY <2>1, <2>2, <1>3, <1>5 DEF Fitting
<1>7. OpenAfter(pos) <= MaxDepth
  BY <1>3, <1>4 DEF WalkAssumption
<1>8. QED
  BY <1>1, <1>3, <1>4, <1>5, <1>6, <1>7, TakeStep DEF WalkInv

\* Every step keeps the walk abreast of the scanner: one case per action.
LEMMA DepthStep ==
    ASSUME StackAssumption, WalkAssumption, WalkInv, [Next]_vars
    PROVE  DepthInv'
<1> USE StackAssumption, WalkAssumption
<1>0. ASSUME pos <= Len(text), phase = "walk", Advance PROVE Took(text[pos])
  BY <1>0 DEF Advance, Took, WalkInv, TextInv
<1>1. ASSUME NEW l \in Lexeme, Scan(l) PROVE DepthInv'
  <2>1. phase = "scan" /\ phase' = "scan" /\ pos' = pos /\ result' = result /\ UNCHANGED stack
    BY <1>1 DEF Scan, stack
  <2>2. result = "none" /\ StackLen' = StackLen
    BY <2>1 DEF WalkInv, DepthInv, stack, StackLen, InArray
  <2>3. QED
    BY <2>1, <2>2 DEF WalkInv, DepthInv, EagerWithinLazy
<1>2. CASE Begin
  <2>1. phase = "scan" /\ phase' = "walk" /\ UNCHANGED <<pos, result, text, open, stack>>
    BY <1>2 DEF Begin, stack
  <2>2. pos = 1 /\ StackLen = 1 /\ result = "none"
    BY <2>1 DEF WalkInv, DepthInv
  <2>3. Len(Frames') = 1
    BY <2>1, <2>2, FramesLen, StackKept DEF WalkInv
  <2>4. OpenAfter(0)' = 0
    <3>1. Count(Opener, 0)' = Count(Opener, 0)
          /\ Count({"rbrace", "rbracket"}, 0)' = Count({"rbrace", "rbracket"}, 0)
      BY <2>1 DEF Count
    <3>2. OpenAfter(0)' = OpenAfter(0)
      BY <3>1 DEF OpenAfter
    <3>3. QED
      BY <3>2, OpenStep
  <2>5. QED
    BY <2>1, <2>2, <2>3, <2>4 DEF DepthInv, EagerWithinLazy, WalkAssumption
<1>3. CASE RejectTrailing
  BY <1>3 DEF RejectTrailing, DepthInv, EagerWithinLazy
<1>4. CASE WalkFails
  <2>1. /\ phase = "walk" /\ phase' = "done" /\ result' = Failure /\ text' = text /\ open' = open
        /\ pos \in 1..Len(text)
    BY <1>4 DEF WalkFails, Fail, WalkInv, TextInv
  <2>2. Failure # "ok" /\ (Failure = "too_deep" => text[pos] \in Opener /\ ~DepthAllows)
    BY DEF Failure
  <2>3. ASSUME text[pos] \in Opener, ~DepthAllows PROVE DepthExceeded
    <3>1. pos - 1 \in Nat /\ (pos - 1) + 1 = pos
      BY <2>1 DEF WalkInv, TextInv
    <3>2. OpenAfter(pos) = OpenAfter(pos - 1) + 1 /\ OpenAfter(pos - 1) \in Int
      BY <2>3, <3>1, OpenStep
    <3>3. StackLen = OpenAfter(pos - 1) + 1
      BY <2>1, FramesLen DEF WalkInv, DepthInv
    <3>4. StackLen \in Nat /\ StackLen > MaxDepth
      BY <2>3, FramesFacts DEF DepthAllows, WalkInv, WalkAssumption
    <3>5. QED
      BY <2>1, <3>2, <3>3, <3>4 DEF DepthExceeded, WalkInv, TextInv
  <2>4. Failure = "too_deep" => LazyResult = "too_deep"
    BY <2>2, <2>3 DEF LazyResult
  <2>5. LazyResult' = LazyResult
    BY <2>1 DEF LazyResult, DepthExceeded, OpenAfter, Count
  <2>6. QED
    BY <2>1, <2>2, <2>4, <2>5 DEF DepthInv, EagerWithinLazy
<1>5. CASE Finish
  <2>1. /\ phase = "walk" /\ phase' = "done" /\ text' = text /\ open' = open
        /\ pos = Len(text) + 1
        /\ result' \in {"ok", "parse_error"} /\ (result' = "ok" => open = <<>>)
    BY <1>5 DEF Finish, Fail, WalkInv, TextInv
  <2>2. ~DepthExceeded
    <3>1. \A n \in 0..pos - 1 : OpenAfter(n) <= MaxDepth /\ OpenAfter(n) \in Int
      BY <2>1, OpenStep DEF WalkInv, DepthInv
    <3>2. pos - 1 = Len(text)
      BY <2>1 DEF WalkInv, TextInv
    <3>3. QED
      BY <3>1, <3>2 DEF DepthExceeded, WalkAssumption
  <2>3. LazyResult' = LazyResult
    BY <2>1 DEF LazyResult, DepthExceeded, OpenAfter, Count
  <2>4. QED
    BY <2>1, <2>2, <2>3 DEF DepthInv, EagerWithinLazy, LazyResult
<1>6. CASE Returned \/ UNCHANGED vars
  <2>1. UNCHANGED <<stack, text, open, phase, pos, result>>
    BY <1>6 DEF Returned, vars, stack
  <2>2. StackLen' = StackLen /\ Frames' = Frames
    BY <2>1, StackKept DEF WalkInv, stack, StackLen, InArray
  <2>3. ASSUME NEW i PROVE Fitting(i, pos)' = Fitting(i, pos)
    <3>1. OpenedBy(i, pos)' = OpenedBy(i, pos)
      BY <2>1 DEF OpenedBy, OpenAfter, Count
    <3>2. QED
      BY <2>1, <3>1 DEF Fitting
  <2>4. ASSUME NEW n PROVE OpenAfter(n)' = OpenAfter(n)
    BY <2>1 DEF OpenAfter, Count
  <2>5. EagerWithinLazy'
    BY <2>1 DEF EagerWithinLazy, WalkInv, DepthInv, LazyResult, DepthExceeded, OpenAfter, Count
  <2>6. QED
    BY <2>1, <2>2, <2>3, <2>4, <2>5 DEF WalkInv, DepthInv
<1>7. CASE WalkScalar
  <2>1. Took("scalar") /\ StackLast \in ValueExpected /\ SetLast(ParentAfterValue(StackLast))
    BY <1>7, <1>0 DEF WalkScalar, At
  <2>2. QED
    BY <2>1, AfterValueInCtx, AfterValueKind, ReplaceStep DEF Opener
<1>8. CASE WalkString
  <2>1. Took("string")
    BY <1>8, <1>0 DEF WalkString, At
  <2>2. CASE StackLast \in KeyExpected /\ SetLast("ObjAfterKey")
    <3>1. "ObjAfterKey" \in Ctx /\ StackLast \notin TopCtx \cup ArrCtx /\ "ObjAfterKey" \in ObjCtx
      BY <2>2 DEF WalkAssumption, ObjCtx, ArrCtx, KeyExpected, TopCtx
    <3>2. QED
      BY <2>1, <2>2, <3>1, ReplaceStep DEF Opener
  <2>3. CASE StackLast \in ValueExpected /\ SetLast(ParentAfterValue(StackLast))
    BY <2>1, <2>3, AfterValueInCtx, AfterValueKind, ReplaceStep DEF Opener
  <2>4. QED
    BY <1>8, <2>2, <2>3 DEF WalkString
<1>9. CASE WalkComma
  <2>1. Took("comma") /\ StackLast \in {"ArrAfterValue", "ObjAfterValue"} /\ SetLast(AfterComma(StackLast))
    BY <1>9, <1>0 DEF WalkComma, At
  <2>2. /\ AfterComma(StackLast) \in Ctx /\ StackLast \notin TopCtx
        /\ StackLast \in ObjCtx => AfterComma(StackLast) \in ObjCtx
        /\ StackLast \in ArrCtx => AfterComma(StackLast) \in ArrCtx
    BY <2>1 DEF AfterComma, WalkAssumption, ObjCtx, ArrCtx, TopCtx
  <2>3. QED
    BY <2>1, <2>2, ReplaceStep DEF Opener
<1>10. CASE WalkColon
  <2>1. Took("colon") /\ StackLast = "ObjAfterKey" /\ SetLast("ObjAfterColon")
    BY <1>10, <1>0 DEF WalkColon, At
  <2>2. "ObjAfterColon" \in Ctx /\ StackLast \notin TopCtx \cup ArrCtx /\ "ObjAfterColon" \in ObjCtx
    BY <2>1 DEF WalkAssumption, ObjCtx, ArrCtx, TopCtx
  <2>3. QED
    BY <2>1, <2>2, ReplaceStep DEF Opener
<1>11. ASSUME NEW l \in Opener, NEW k \in IF l = "lbrace" THEN ObjCtx ELSE ArrCtx, WalkOpen(l, k)
       PROVE  DepthInv'
  <2> DEFINE j == ParentAfterValue(StackLast)
  <2>1. Took(l) /\ StackLast \in ValueExpected /\ DepthAllows /\ SetAndPush(j, k)
    BY <1>11, <1>0 DEF WalkOpen, At
  <2>2. StackLen = 1 => StackLast \in TopCtx
    BY FramesFacts DEF WalkInv, StackInv
  <2>3. /\ j \in Ctx /\ (StackLen = 1 => j = "TopDone")
        /\ StackLast \in ObjCtx => j \in ObjCtx
        /\ StackLast \in ArrCtx => j \in ArrCtx
    BY <2>1, <2>2, AfterValueInCtx, AfterValueKind
  <2> HIDE DEF j
  <2>4. QED
    BY <2>1, <2>3, DescendStep
<1>12. ASSUME NEW l \in {"rbrace", "rbracket"}, WalkClose(l)
       PROVE  DepthInv'
  <2>1. Took(l) /\ Pop /\ StackLast \notin TopCtx
    BY <1>12, <1>0 DEF WalkClose, At, Closable, TopCtx
  <2>2. QED
    BY <2>1, AscendStep
<1>13. "ObjAfterOpen" \in ObjCtx /\ "ArrAfterOpen" \in ArrCtx
  BY DEF ObjCtx, ArrCtx
<1>14. WalkOpen("lbrace", "ObjAfterOpen") \/ WalkOpen("lbracket", "ArrAfterOpen") => DepthInv'
  BY <1>11, <1>13 DEF Opener
<1>15. QED
  BY <1>1, <1>2, <1>3, <1>4, <1>5, <1>6, <1>7, <1>8, <1>9, <1>10, <1>12, <1>14 DEF Next

-----------------------------------------------------------------------------
(* The theorems.                                                            *)

LEMMA StackInitHolds ==
    ASSUME StackAssumption, WalkAssumption, Init
    PROVE  StackInv /\ Frames = <<"Top">>
<1>1. /\ stack_buf = [i \in 1..Cap |-> "Top"] /\ sp = 1 /\ fallback = None
      /\ 1 \in 1..Cap
  BY DEF Init, StackInit, StackAssumption
<1>2. InArray /\ stack_buf[1] = "Top"
  BY <1>1 DEF InArray, StackAssumption
<1>3. StackInv
  BY <1>1, <1>2 DEF StackInv, WalkAssumption, TopCtx
<1>4. Frames = [i \in 1..1 |-> stack_buf[i]]
  BY <1>1, <1>2 DEF Frames
<1>5. QED
  BY <1>2, <1>3, <1>4

\* The invariant of the stack, for every STACK_CAP: before the first spill the
\* vector does not exist, and from then on it holds at least the document's
\* frame, which has seen its value begin.
THEOREM StackHolds == Spec => []StackInv
<1>1. Init => StackInv
  BY StackAssumption, WalkAssumption, StackInitHolds
<1>2. StackInv /\ [Next]_vars => StackInv'
  BY StackAssumption, WalkAssumption, StackStep
<1>3. QED
  BY <1>1, <1>2, PTL DEF Spec

\* Types, for every text length: the frames are contexts and the walk never
\* leaves the text.
THEOREM TypesHold == Spec => []TypeOK
<1>1. Init => TextInv
  BY DEF Init, TextInv, Result
<1>2. TextInv /\ [Next]_vars => TextInv'
  BY WalkAssumption, TextStep
<1>3. StackInv /\ TextInv => TypeOK
  BY DEF StackInv, TextInv, TypeOK
<1>4. QED
  BY <1>1, <1>2, <1>3, StackHolds, PTL DEF Spec

\* The final check of the walk reads stack_buf[0]: that is the document's frame
\* at every moment, although the frames above it may be in the vector.
THEOREM FinalCheckReadsBottom == Spec => []BottomInStep
<1>1. StackInv => BottomInStep
  BY StackAssumption, WalkAssumption, FramesFacts DEF BottomInStep
<1>2. QED
  BY <1>1, StackHolds, PTL

\* The array that spills, however small, implements the stack of any depth.
THEOREM SpillImplementsStack == Spec => StackSpec
<1>1. Init => Stack!Init
  BY StackAssumption, WalkAssumption, StackInitHolds DEF Stack!Init
<1>2. StackInv /\ [Next]_vars => [Stack!Next]_Frames
  BY StackAssumption, WalkAssumption, StackStep
<1>3. QED
  BY <1>1, <1>2, StackHolds, PTL DEF Spec, StackSpec, Stack!Spec


\* The invariant of the walk.
LEMMA WalkHolds == Spec => []WalkInv
<1>1. Init => TextInv /\ DepthInv
  <2> SUFFICES ASSUME Init PROVE TextInv /\ DepthInv
    OBVIOUS
  <2>1. StackLen = 1
    BY StackAssumption DEF Init, StackInit, StackLen, InArray
  <2>2. QED
    BY <2>1 DEF Init, TextInv, DepthInv, EagerWithinLazy, Result
<1>2. Init => WalkInv
  BY <1>1, StackAssumption, WalkAssumption, StackInitHolds DEF WalkInv
<1>3. WalkInv /\ [Next]_vars => WalkInv'
  BY StackAssumption, WalkAssumption, StackStep, TextStep, DepthStep DEF WalkInv
<1>4. QED
  BY <1>2, <1>3, PTL DEF Spec

\* Wherever the walk stands, its stack has one frame for the document and one
\* for each open container, of that container's kind, for every limit, capacity
\* and text.
THEOREM StackMirrorsScanner == Spec => []MirrorsScanner
<1>1. WalkInv => MirrorsScanner
  BY StackAssumption, FramesLen DEF WalkInv, DepthInv, MirrorsScanner, Fitting, OpenedBy
<1>2. QED
  BY <1>1, WalkHolds, PTL

\* validate_eager_values and validate_depth agree: too deep in eager mode is too
\* deep in lazy mode, and what eager mode accepts lazy mode accepts.
THEOREM EagerImpliesLazy == Spec => []EagerWithinLazy
<1>1. WalkInv => EagerWithinLazy
  BY DEF WalkInv, DepthInv
<1>2. QED
  BY <1>1, WalkHolds, PTL

-----------------------------------------------------------------------------
(* The grammar as a definition: D has the values its equations say.         *)

Level(t, D, n) ==
    [elements |-> {i \in 1..Len(t) + 1 - n : AreElements(t, D, i, n)},
     members |-> {i \in 1..Len(t) + 1 - n : AreMembers(t, D, i, n)}]

\* What n lexemes are depends on what fewer are.
LEMMA LevelLooksDown ==
    ASSUME NEW t, NEW n \in Nat, NEW f, NEW g, \A m \in 0..n - 1 : f[m] = g[m]
    PROVE  Level(t, f, n) = Level(t, g, n)
<1>1. ASSUME NEW i, NEW k \in Nat, k <= n PROVE IsValue(t, f, i, k) <=> IsValue(t, g, i, k)
  <2>1. k >= 2 => k - 2 \in 0..n - 1
    BY <1>1
  <2>2. k >= 2 => f[k - 2] = g[k - 2]
    BY <2>1
  <2>3. QED
    BY <2>2 DEF IsValue, Enclosed
<1>2. ASSUME NEW i PROVE AreElements(t, f, i, n) <=> AreElements(t, g, i, n)
  <2>1. IsValue(t, f, i, n) <=> IsValue(t, g, i, n)
    BY <1>1
  <2>2. \A k \in 1..n - 2 : k \in Nat /\ k <= n /\ f[n - k - 1] = g[n - k - 1]
    OBVIOUS
  <2>3. QED
    BY <2>1, <2>2, <1>1 DEF AreElements
<1>3. ASSUME NEW i PROVE AreMembers(t, f, i, n) <=> AreMembers(t, g, i, n)
  <2>1. n >= 3 => (IsValue(t, f, i + 2, n - 2) <=> IsValue(t, g, i + 2, n - 2))
    BY <1>1
  <2>2. \A k \in 1..n - 4 : k \in Nat /\ k <= n /\ f[n - k - 3] = g[n - k - 3]
    OBVIOUS
  <2>3. QED
    BY <2>1, <2>2, <1>1 DEF AreMembers
<1>4. QED
  BY <1>2, <1>3 DEF Level

LEMMA GrammarExists ==
    ASSUME NEW t, NEW N \in Nat
    PROVE  \E g : g = [n \in 0..N |-> Level(t, g, n)]
<1> DEFINE S == {m \in 0..N : \E g : g = [n \in 0..m |-> Level(t, g, n)]}
<1>1. 0 \in S
  <2> DEFINE h == [n \in 0..0 |-> Level(t, <<>>, 0)]
  <2>1. Level(t, h, 0) = Level(t, <<>>, 0)
    <3> HIDE DEF h
    <3> QED
      BY LevelLooksDown
  <2>2. h = [n \in 0..0 |-> Level(t, h, n)]
    <3>1. \A n \in 0..0 : h[n] = Level(t, h, n)
      <4>1. \A n \in 0..0 : h[n] = Level(t, <<>>, 0) /\ n = 0
        OBVIOUS
      <4> HIDE DEF h
      <4>2. QED
        BY <4>1, <2>1
    <3>2. h = [n \in 0..0 |-> h[n]]
      OBVIOUS
    <3> HIDE DEF h
    <3>3. QED
      BY <3>1, <3>2
  <2>3. QED
    <3> HIDE DEF h
    <3> QED
      BY <2>2
<1>2. ASSUME NEW m \in S, m < N
      PROVE  m + 1 \in S
  <2>1. PICK g : g = [n \in 0..m |-> Level(t, g, n)]
    BY <1>2
  <2>0. m \in Nat
    BY <1>2
  <2> DEFINE h == [n \in 0..m + 1 |-> IF n <= m THEN g[n] ELSE Level(t, g, n)]
  <2>2. \A n \in 0..m : g[n] = Level(t, g, n)
    BY <2>1
  <2>3. \A n \in 0..m + 1 : h[n] = Level(t, g, n)
    BY <2>0, <2>2
  <2>4. \A n \in 0..m : h[n] = g[n]
    BY <2>0, <2>2
  <2>5. h = [n \in 0..m + 1 |-> h[n]]
    OBVIOUS
  <2> HIDE DEF h
  <2>6. \A n \in 0..m + 1 : h[n] = Level(t, h, n)
    <3> SUFFICES ASSUME NEW n \in 0..m + 1 PROVE h[n] = Level(t, h, n)
      OBVIOUS
    <3>1. n \in Nat /\ \A k \in 0..n - 1 : k \in 0..m
      BY <2>0
    <3>2. \A k \in 0..n - 1 : h[k] = g[k]
      BY <3>1, <2>4
    <3>3. Level(t, h, n) = Level(t, g, n)
      BY <3>1, <3>2, LevelLooksDown
    <3>4. QED
      BY <3>3, <2>3
  <2>7. h = [n \in 0..m + 1 |-> Level(t, h, n)]
    BY <2>5, <2>6
  <2>8. m + 1 \in 0..N
    BY <1>2, <2>0
  <2>9. QED
    BY <2>7, <2>8
<1>3. S = 0..N
  <2>1. S \subseteq 0..N
    OBVIOUS
  <2> HIDE DEF S
  <2>2. QED
    BY <2>1, <1>1, <1>2, Climb
<1>4. N \in S
  BY <1>3
<1>5. QED
  BY <1>4

LEMMA DerivedLevels ==
    ASSUME NEW t, Len(t) \in Nat
    PROVE  \A n \in 0..Len(t) : Derived(t)[n] = Level(t, Derived(t), n)
<1>1. \E g : g = [n \in 0..Len(t) |-> Level(t, g, n)]
  BY GrammarExists
<1>2. Derived(t) = [n \in 0..Len(t) |-> Level(t, Derived(t), n)]
  BY <1>1 DEF Derived, Level
<1>3. QED
  BY <1>2

-----------------------------------------------------------------------------
(* The grammar of the text, from lexeme i up to but not including lexeme j.  *)

Value(i, j) == IsValue(text, Derived(text), i, j - i)
Elements(i, j) == i < j /\ i \in Derived(text)[j - i].elements
Members(i, j) == i < j /\ i \in Derived(text)[j - i].members

\* A place in the text, or the end of it.
Place == 1..Len(text) + 1

LEMMA ValueRule ==
    ASSUME text \in Seq(Lexeme), NEW i \in Place, NEW j \in Place
    PROVE  Value(i, j) <=>
              \/ j = i + 1 /\ text[i] \in {"string", "scalar"}
              \/ /\ i + 1 < j /\ text[i] = "lbracket" /\ text[j - 1] = "rbracket"
                 /\ j = i + 2 \/ Elements(i + 1, j - 1)
              \/ /\ i + 1 < j /\ text[i] = "lbrace" /\ text[j - 1] = "rbrace"
                 /\ j = i + 2 \/ Members(i + 1, j - 1)
<1> DEFINE D == Derived(text)
<1>1. i \in Nat /\ j \in Nat
  BY DEF Place
<1>2. Value(i, j) <=> IsValue(text, D, i, j - i)
  BY DEF Value
<1>3. /\ j - i = 1 <=> j = i + 1
      /\ j - i >= 2 <=> i + 1 < j
      /\ j - i = 2 <=> j = i + 2
      /\ i + (j - i) - 1 = j - 1
      /\ j - i - 2 = (j - 1) - (i + 1)
      /\ i + 1 < j /\ j # i + 2 => i + 1 < j - 1
  BY <1>1
<1>4. /\ Elements(i + 1, j - 1) <=> i + 1 < j - 1 /\ i + 1 \in D[(j - 1) - (i + 1)].elements
      /\ Members(i + 1, j - 1) <=> i + 1 < j - 1 /\ i + 1 \in D[(j - 1) - (i + 1)].members
  BY DEF Elements, Members
<1> HIDE DEF D
<1>5. QED
  BY <1>2, <1>3, <1>4 DEF IsValue, Enclosed

LEMMA SpanLevel ==
    ASSUME text \in Seq(Lexeme), NEW i \in Place, NEW j \in Place, i < j
    PROVE  /\ Elements(i, j) <=> AreElements(text, Derived(text), i, j - i)
           /\ Members(i, j) <=> AreMembers(text, Derived(text), i, j - i)
<1>1. j - i \in 0..Len(text) /\ i \in 1..Len(text) + 1 - (j - i)
  BY DEF Place
<1>2. Derived(text)[j - i] = Level(text, Derived(text), j - i)
  BY <1>1, DerivedLevels
<1>3. QED
  BY <1>1, <1>2 DEF Level, Elements, Members

LEMMA ElementsRule ==
    ASSUME text \in Seq(Lexeme), NEW i \in Place, NEW j \in Place, i < j
    PROVE  Elements(i, j) <=>
              \/ Value(i, j)
              \/ \E m \in i + 1..j - 2 : Value(i, m) /\ text[m] = "comma" /\ Elements(m + 1, j)
<1> DEFINE D == Derived(text)
<1>0. i \in Nat /\ j \in Nat
  BY DEF Place
<1>1. Elements(i, j) <=>
          \/ Value(i, j)
          \/ \E k \in 1..(j - i) - 2 :
                IsValue(text, D, i, k) /\ text[i + k] = "comma" /\ i + k + 1 \in D[(j - i) - k - 1].elements
  BY SpanLevel DEF AreElements, Value
<1>2. ASSUME NEW k \in 1..(j - i) - 2
      PROVE  /\ i + k \in i + 1..j - 2
             /\ IsValue(text, D, i, k) <=> Value(i, i + k)
             /\ i + k + 1 \in D[(j - i) - k - 1].elements <=> Elements(i + k + 1, j)
  <2>1. i + k \in i + 1..j - 2 /\ (i + k) - i = k /\ j - (i + k + 1) = (j - i) - k - 1 /\ i + k + 1 < j
    BY <1>0
  <2>2. QED
    BY <2>1 DEF Value, Elements
<1>3. ASSUME NEW m \in i + 1..j - 2 PROVE m - i \in 1..(j - i) - 2 /\ i + (m - i) = m
  BY <1>0
<1> HIDE DEF D
<1>4. QED
  BY <1>1, <1>2, <1>3

LEMMA MembersRule ==
    ASSUME text \in Seq(Lexeme), NEW i \in Place, NEW j \in Place, i < j
    PROVE  Members(i, j) <=>
              /\ i + 2 < j /\ text[i] = "string" /\ text[i + 1] = "colon"
              /\ \/ Value(i + 2, j)
                 \/ \E m \in i + 3..j - 2 : Value(i + 2, m) /\ text[m] = "comma" /\ Members(m + 1, j)
<1> DEFINE D == Derived(text)
<1>0. i \in Nat /\ j \in Nat /\ (j - i >= 3 <=> i + 2 < j) /\ j - (i + 2) = (j - i) - 2
  BY DEF Place
<1>1. Members(i, j) <=>
          /\ i + 2 < j /\ text[i] = "string" /\ text[i + 1] = "colon"
          /\ \/ Value(i + 2, j)
             \/ \E k \in 1..(j - i) - 4 :
                   IsValue(text, D, i + 2, k) /\ text[i + k + 2] = "comma" /\ i + k + 3 \in D[(j - i) - k - 3].members
  <2>1. Value(i + 2, j) <=> IsValue(text, D, i + 2, (j - i) - 2)
    BY <1>0 DEF Value
  <2>2. Members(i, j) <=> AreMembers(text, D, i, j - i)
    BY SpanLevel
  <2> HIDE DEF D
  <2>3. QED
    BY <1>0, <2>1, <2>2 DEF AreMembers
<1>2. ASSUME NEW k \in 1..(j - i) - 4
      PROVE  /\ i + k + 2 \in i + 3..j - 2
             /\ IsValue(text, D, i + 2, k) <=> Value(i + 2, i + k + 2)
             /\ i + k + 3 \in D[(j - i) - k - 3].members <=> Members(i + k + 3, j)
  <2>1. /\ i + k + 2 \in i + 3..j - 2 /\ (i + k + 2) - (i + 2) = k
        /\ j - (i + k + 3) = (j - i) - k - 3 /\ i + k + 3 < j
    BY <1>0
  <2>2. QED
    BY <2>1 DEF Value, Members
<1>3. ASSUME NEW m \in i + 3..j - 2
      PROVE  m - i - 2 \in 1..(j - i) - 4 /\ i + (m - i - 2) + 2 = m /\ i + (m - i - 2) + 3 = m + 1
  BY <1>0
<1>4. \A k \in 1..(j - i) - 4 : i + k + 3 = (i + k + 2) + 1
  BY <1>0
<1> HIDE DEF D
<1>5. QED
  <2>1. ASSUME NEW k \in 1..(j - i) - 4, IsValue(text, D, i + 2, k), text[i + k + 2] = "comma",
               i + k + 3 \in D[(j - i) - k - 3].members
        PROVE  \E m \in i + 3..j - 2 : Value(i + 2, m) /\ text[m] = "comma" /\ Members(m + 1, j)
    <3>1. Members((i + k + 2) + 1, j)
      BY <2>1, <1>2, <1>4
    <3>2. QED
      BY <2>1, <3>1, <1>2
  <2>2. ASSUME NEW m \in i + 3..j - 2, Value(i + 2, m), text[m] = "comma", Members(m + 1, j)
        PROVE  \E k \in 1..(j - i) - 4 :
                  IsValue(text, D, i + 2, k) /\ text[i + k + 2] = "comma" /\ i + k + 3 \in D[(j - i) - k - 3].members
    <3> DEFINE k == m - i - 2
    <3>1. k \in 1..(j - i) - 4 /\ i + k + 2 = m /\ i + k + 3 = m + 1
      BY <1>3
    <3> HIDE DEF k
    <3>2. QED
      BY <3>1, <2>2, <1>2
  <2>3. QED
    BY <1>1, <2>1, <2>2

-----------------------------------------------------------------------------
(* What completes a context.                                                *)

ClosedBy(i, j, l) == i < j /\ text[j - 1] = l

\* The value of a member, what members follow, and the closing brace.
MemberRest(i, j) ==
    /\ ClosedBy(i, j, "rbrace")
    /\ \/ Value(i, j - 1)
       \/ \E m \in i + 1..j - 3 : Value(i, m) /\ text[m] = "comma" /\ Members(m + 1, j - 1)

\* In context c at lexeme i, the container (or the document) is complete before j.
Completes(c, i, j) ==
    CASE c = "Top" -> j = Len(text) + 1 /\ Value(i, j)
      [] c = "TopDone" -> j = Len(text) + 1 /\ i = j
      [] c = "ArrAfterOpen" -> ClosedBy(i, j, "rbracket") /\ (j = i + 1 \/ Elements(i, j - 1))
      [] c = "ArrAfterComma" -> ClosedBy(i, j, "rbracket") /\ Elements(i, j - 1)
      [] c = "ArrAfterValue" ->
            ClosedBy(i, j, "rbracket") /\ (j = i + 1 \/ (text[i] = "comma" /\ Elements(i + 1, j - 1)))
      [] c = "ObjAfterOpen" -> ClosedBy(i, j, "rbrace") /\ (j = i + 1 \/ Members(i, j - 1))
      [] c = "ObjAfterComma" -> ClosedBy(i, j, "rbrace") /\ Members(i, j - 1)
      [] c = "ObjAfterKey" -> text[i] = "colon" /\ MemberRest(i + 1, j)
      [] c = "ObjAfterColon" -> MemberRest(i, j)
      [] c = "ObjAfterValue" ->
            ClosedBy(i, j, "rbrace") /\ (j = i + 1 \/ (text[i] = "comma" /\ Members(i + 1, j - 1)))

LEMMA CompletesCases ==
    ASSUME NEW i, NEW j
    PROVE  /\ Completes("Top", i, j) <=> j = Len(text) + 1 /\ Value(i, j)
           /\ Completes("TopDone", i, j) <=> j = Len(text) + 1 /\ i = j
           /\ Completes("ArrAfterOpen", i, j) <=>
                  ClosedBy(i, j, "rbracket") /\ (j = i + 1 \/ Elements(i, j - 1))
           /\ Completes("ArrAfterComma", i, j) <=> ClosedBy(i, j, "rbracket") /\ Elements(i, j - 1)
           /\ Completes("ArrAfterValue", i, j) <=>
                  ClosedBy(i, j, "rbracket") /\ (j = i + 1 \/ (text[i] = "comma" /\ Elements(i + 1, j - 1)))
           /\ Completes("ObjAfterOpen", i, j) <=>
                  ClosedBy(i, j, "rbrace") /\ (j = i + 1 \/ Members(i, j - 1))
           /\ Completes("ObjAfterComma", i, j) <=> ClosedBy(i, j, "rbrace") /\ Members(i, j - 1)
           /\ Completes("ObjAfterKey", i, j) <=> text[i] = "colon" /\ MemberRest(i + 1, j)
           /\ Completes("ObjAfterColon", i, j) <=> MemberRest(i, j)
           /\ Completes("ObjAfterValue", i, j) <=>
                  ClosedBy(i, j, "rbrace") /\ (j = i + 1 \/ (text[i] = "comma" /\ Members(i + 1, j - 1)))
BY Zenon DEF Completes

\* By what it begins with, a value is one lexeme or what completes a container.
LEMMA ValueBegins ==
    ASSUME text \in Seq(Lexeme), NEW i \in Place, NEW j \in Place
    PROVE  /\ Value(i, j) => i < j /\ text[i] \in {"string", "scalar", "lbracket", "lbrace"}
           /\ text[i] \in {"string", "scalar"} => (Value(i, j) <=> j = i + 1)
           /\ text[i] = "lbracket" => (Value(i, j) <=> Completes("ArrAfterOpen", i + 1, j))
           /\ text[i] = "lbrace" => (Value(i, j) <=> Completes("ObjAfterOpen", i + 1, j))
<1>1. i \in Nat /\ j \in Nat
  BY DEF Place
<1>2. /\ Completes("ArrAfterOpen", i + 1, j) <=>
            ClosedBy(i + 1, j, "rbracket") /\ (j = i + 2 \/ Elements(i + 1, j - 1))
      /\ Completes("ObjAfterOpen", i + 1, j) <=>
            ClosedBy(i + 1, j, "rbrace") /\ (j = i + 2 \/ Members(i + 1, j - 1))
  BY <1>1 DEF Completes
<1>3. QED
  BY <1>1, <1>2, ValueRule DEF ClosedBy

\* Elements begin with a value and members with a key.
LEMMA SpanBegins ==
    ASSUME text \in Seq(Lexeme), NEW i \in Place, NEW j \in Place
    PROVE  /\ Elements(i, j) => i < j /\ text[i] \in {"string", "scalar", "lbracket", "lbrace"}
           /\ Members(i, j) => i < j /\ text[i] = "string"
<1>1. i \in Nat /\ j \in Nat
  BY DEF Place
<1>2. ASSUME Elements(i, j) PROVE i < j /\ text[i] \in {"string", "scalar", "lbracket", "lbrace"}
  <2>1. i < j
    BY <1>2 DEF Elements
  <2>2. PICK m \in Place : Value(i, m)
    <3>1. \A m \in i + 1..j - 2 : m \in Place
      BY <1>1 DEF Place
    <3>2. QED
      BY <1>2, <2>1, <3>1, ElementsRule
  <2>3. QED
    BY <2>1, <2>2, ValueBegins
<1>3. ASSUME Members(i, j) PROVE i < j /\ text[i] = "string"
  <2>1. i < j
    BY <1>3 DEF Members
  <2>2. QED
    BY <1>3, <2>1, MembersRule
<1>4. QED
  BY <1>2, <1>3

\* A container is not complete before it goes on.
LEMMA CompletesForward ==
    ASSUME text \in Seq(Lexeme), NEW c \in ObjCtx \cup ArrCtx \cup TopCtx, NEW i \in Place, NEW j \in Place,
           Completes(c, i, j)
    PROVE  /\ i <= j
           /\ c # "TopDone" => i < j
<1>1. i \in Nat /\ j \in Nat
  BY DEF Place
<1>2. CASE c = "Top"
  BY <1>1, <1>2, CompletesCases, ValueBegins
<1>3. CASE c = "TopDone"
  <2>1. i = j
    BY <1>3, CompletesCases
  <2>2. QED
    BY <1>1, <1>3, <2>1
<1>4. ASSUME NEW l, ClosedBy(i, j, l) PROVE i < j
  BY <1>4 DEF ClosedBy
<1>5. ASSUME MemberRest(i, j) PROVE i < j
  BY <1>5 DEF MemberRest, ClosedBy
<1>6. ASSUME MemberRest(i + 1, j) PROVE i < j
  BY <1>1, <1>6 DEF MemberRest, ClosedBy
<1>7. CASE c \in ArrCtx \cup ObjCtx
  <2>1. i < j
    BY <1>7, <1>4, <1>5, <1>6, CompletesCases DEF ArrCtx, ObjCtx
  <2>2. QED
    BY <1>1, <2>1
<1>8. QED
  BY <1>2, <1>3, <1>7 DEF TopCtx

\* Where a value is expected and no bracket closes, there is a value and the
\* context after it.
LEMMA TakesValue ==
    ASSUME text \in Seq(Lexeme), NEW c \in ValueExpected, NEW i \in Place, NEW j \in Place,
           c = "ArrAfterOpen" => text[i] # "rbracket"
    PROVE  Completes(c, i, j) <=>
              \E m \in Place : Value(i, m) /\ Completes(ParentAfterValue(c), m, j)
<1>0. i \in Nat /\ j \in Nat /\ Place \subseteq Nat
  BY DEF Place
<1>1. CASE c = "Top"
  <2>1. \A m \in Place : Completes(ParentAfterValue(c), m, j) <=> j = Len(text) + 1 /\ m = j
    BY <1>1 DEF Completes, ParentAfterValue
  <2>2. QED
    BY <1>1, <2>1 DEF Completes
<1>2. CASE c \in {"ArrAfterOpen", "ArrAfterComma"}
  <2>1. ASSUME NEW m \in Place
        PROVE  Completes(ParentAfterValue(c), m, j) <=>
                  ClosedBy(m, j, "rbracket") /\ (j = m + 1 \/ (text[m] = "comma" /\ Elements(m + 1, j - 1)))
    BY <1>2 DEF Completes, ParentAfterValue
  <2>2. Completes(c, i, j) <=> ClosedBy(i, j, "rbracket") /\ Elements(i, j - 1)
    <3>1. j = i + 1 => ~ClosedBy(i, j, "rbracket") \/ c = "ArrAfterComma"
      BY <1>0, <1>2 DEF ClosedBy
    <3>2. QED
      BY <1>2, <3>1 DEF Completes
  <2>3. ASSUME ClosedBy(i, j, "rbracket"), Elements(i, j - 1)
        PROVE  \E m \in Place : Value(i, m) /\ Completes(ParentAfterValue(c), m, j)
    <3>1. j - 1 \in Place /\ i < j - 1
      BY <1>0, <2>3 DEF ClosedBy, Elements, Place
    <3>2. CASE Value(i, j - 1)
      <4> DEFINE e == j - 1
      <4>1. e \in Place /\ Value(i, e) /\ ClosedBy(e, j, "rbracket") /\ j = e + 1
        BY <1>0, <2>3, <3>1, <3>2 DEF ClosedBy
      <4> HIDE DEF e
      <4>2. Completes(ParentAfterValue(c), e, j)
        BY <4>1, <2>1
      <4>3. QED
        BY <4>1, <4>2
    <3>3. ASSUME NEW m \in i + 1..(j - 1) - 2, Value(i, m), text[m] = "comma", Elements(m + 1, j - 1)
          PROVE  \E n \in Place : Value(i, n) /\ Completes(ParentAfterValue(c), n, j)
      <4>1. m \in Place /\ ClosedBy(m, j, "rbracket")
        BY <1>0, <2>3 DEF ClosedBy, Place
      <4>2. QED
        BY <3>3, <4>1, <2>1
    <3>4. QED
      BY <2>3, <3>1, <3>2, <3>3, ElementsRule
  <2>4. ASSUME NEW m \in Place, Value(i, m), ClosedBy(m, j, "rbracket"),
               j = m + 1 \/ (text[m] = "comma" /\ Elements(m + 1, j - 1))
        PROVE  ClosedBy(i, j, "rbracket") /\ Elements(i, j - 1)
    <3>1. i < m /\ m < j /\ text[j - 1] = "rbracket"
      BY <2>4, ValueBegins DEF ClosedBy
    <3>2. j - 1 \in Place /\ i < j - 1 /\ i < j
      BY <1>0, <3>1 DEF Place
    <3>3. CASE j = m + 1
      <4>1. m = j - 1
        BY <1>0, <3>3
      <4>2. Value(i, j - 1)
        BY <2>4, <4>1
      <4>3. QED
        BY <3>1, <3>2, <4>2, ElementsRule DEF ClosedBy
    <3>4. CASE text[m] = "comma" /\ Elements(m + 1, j - 1)
      <4>1. m \in i + 1..(j - 1) - 2
        BY <1>0, <3>1, <3>4 DEF Elements
      <4>2. QED
        BY <2>4, <3>1, <3>2, <3>4, <4>1, ElementsRule DEF ClosedBy
    <3>5. QED
      BY <2>4, <3>3, <3>4
  <2>5. QED
    BY <2>1, <2>2, <2>3, <2>4
<1>3. CASE c = "ObjAfterColon"
  <2>1. ASSUME NEW m \in Place
        PROVE  Completes(ParentAfterValue(c), m, j) <=>
                  ClosedBy(m, j, "rbrace") /\ (j = m + 1 \/ (text[m] = "comma" /\ Members(m + 1, j - 1)))
    BY <1>3 DEF Completes, ParentAfterValue
  <2>2. Completes(c, i, j) <=> MemberRest(i, j)
    BY <1>3 DEF Completes
  <2>3. ASSUME MemberRest(i, j)
        PROVE  \E m \in Place : Value(i, m) /\ Completes(ParentAfterValue(c), m, j)
    <3>0. j - 1 \in Place /\ i < j /\ text[j - 1] = "rbrace"
      BY <1>0, <2>3 DEF MemberRest, ClosedBy, Place
    <3>1. CASE Value(i, j - 1)
      <4> DEFINE e == j - 1
      <4>1. e \in Place /\ Value(i, e) /\ ClosedBy(e, j, "rbrace") /\ j = e + 1
        BY <1>0, <3>0, <3>0, <3>1 DEF ClosedBy
      <4> HIDE DEF e
      <4>2. Completes(ParentAfterValue(c), e, j)
        BY <4>1, <2>1
      <4>3. QED
        BY <4>1, <4>2
    <3>2. ASSUME NEW m \in i + 1..j - 3, Value(i, m), text[m] = "comma", Members(m + 1, j - 1)
          PROVE  \E n \in Place : Value(i, n) /\ Completes(ParentAfterValue(c), n, j)
      <4>1. m \in Place /\ ClosedBy(m, j, "rbrace")
        BY <1>0, <3>0 DEF ClosedBy, Place
      <4>2. QED
        BY <3>2, <4>1, <2>1
    <3>3. QED
      BY <2>3, <3>1, <3>2 DEF MemberRest
  <2>4. ASSUME NEW m \in Place, Value(i, m), ClosedBy(m, j, "rbrace"),
               j = m + 1 \/ (text[m] = "comma" /\ Members(m + 1, j - 1))
        PROVE  MemberRest(i, j)
    <3>1. i < m /\ m < j /\ text[j - 1] = "rbrace"
      BY <2>4, ValueBegins DEF ClosedBy
    <3>2. ClosedBy(i, j, "rbrace")
      BY <1>0, <3>1 DEF ClosedBy
    <3>3. CASE j = m + 1
      <4>1. m = j - 1
        BY <1>0, <3>3
      <4>2. Value(i, j - 1)
        BY <2>4, <4>1
      <4>3. QED
        BY <3>2, <4>2 DEF MemberRest
    <3>4. CASE text[m] = "comma" /\ Members(m + 1, j - 1)
      <4>1. m \in i + 1..j - 3
        BY <1>0, <3>1, <3>4 DEF Members
      <4>2. QED
        BY <2>4, <3>2, <3>4, <4>1 DEF MemberRest
    <3>5. QED
      BY <2>4, <3>3, <3>4
  <2>5. QED
    BY <2>1, <2>2, <2>3, <2>4
<1>4. QED
  BY <1>1, <1>2, <1>3 DEF ValueExpected

-----------------------------------------------------------------------------
(* One lexeme.                                                              *)

\* The lexemes a context goes on with.
LEMMA FirstLexeme ==
    ASSUME text \in Seq(Lexeme), NEW c \in ObjCtx \cup ArrCtx \cup TopCtx,
           NEW i \in 1..Len(text), NEW j \in Place, Completes(c, i, j)
    PROVE  \/ c \in ValueExpected /\ text[i] \in {"string", "scalar", "lbracket", "lbrace"}
           \/ c \in KeyExpected /\ text[i] = "string"
           \/ c = "ArrAfterOpen" /\ text[i] = "rbracket" /\ j = i + 1
           \/ c = "ObjAfterOpen" /\ text[i] = "rbrace" /\ j = i + 1
           \/ c = "ObjAfterKey" /\ text[i] = "colon"
           \/ c = "ArrAfterValue" /\ (text[i] = "comma" \/ (text[i] = "rbracket" /\ j = i + 1))
           \/ c = "ObjAfterValue" /\ (text[i] = "comma" \/ (text[i] = "rbrace" /\ j = i + 1))
<1>1. i \in Place /\ i \in Nat /\ j \in Nat /\ Place \subseteq Nat
  BY DEF Place
<1>2. i < j
  <2>1. c # "TopDone"
    BY <1>1, CompletesCases
  <2>2. QED
    BY <1>1, <2>1, CompletesForward
<1>3. j - 1 \in Place /\ i + 1 \in Place /\ (j = i + 1 => j - 1 = i)
  BY <1>1, <1>2 DEF Place
<1>4. ASSUME NEW l, ClosedBy(i, j, l) PROVE j = i + 1 => text[i] = l
  BY <1>3, <1>4 DEF ClosedBy
<1>5. CASE c \in {"Top", "TopDone"}
  BY <1>1, <1>2, <1>5, CompletesCases, ValueBegins DEF ValueExpected
<1>6. CASE c \in {"ArrAfterOpen", "ArrAfterComma"}
  <2>1. ClosedBy(i, j, "rbracket") /\ ((c = "ArrAfterOpen" /\ j = i + 1) \/ Elements(i, j - 1))
    BY <1>6, CompletesCases
  <2>2. QED
    BY <1>1, <1>3, <1>4, <1>6, <2>1, SpanBegins DEF ValueExpected
<1>7. CASE c \in {"ObjAfterOpen", "ObjAfterComma"}
  <2>1. ClosedBy(i, j, "rbrace") /\ ((c = "ObjAfterOpen" /\ j = i + 1) \/ Members(i, j - 1))
    BY <1>7, CompletesCases
  <2>2. QED
    BY <1>1, <1>3, <1>4, <1>7, <2>1, SpanBegins DEF KeyExpected
<1>8. CASE c \in {"ArrAfterValue", "ObjAfterValue", "ObjAfterKey"}
  BY <1>4, <1>8, CompletesCases
<1>9. CASE c = "ObjAfterColon"
  <2>1. PICK m \in Place : Value(i, m)
    <3>1. MemberRest(i, j)
      BY <1>9, CompletesCases
    <3>2. \A m \in i + 1..j - 3 : m \in Place
      BY <1>1 DEF Place
    <3>3. QED
      BY <1>3, <3>1, <3>2 DEF MemberRest
  <2>2. QED
    BY <1>1, <1>9, <2>1, ValueBegins DEF ValueExpected
<1>10. QED
  BY <1>5, <1>6, <1>7, <1>8, <1>9 DEF ObjCtx, ArrCtx, TopCtx

\* A string or a scalar is the value that was expected.
LEMMA ScalarRule ==
    ASSUME text \in Seq(Lexeme), NEW c \in ValueExpected, NEW i \in 1..Len(text), NEW j \in Place,
           text[i] \in {"string", "scalar"}
    PROVE  Completes(c, i, j) <=> Completes(ParentAfterValue(c), i + 1, j)
<1>1. i \in Place /\ i + 1 \in Place
  BY DEF Place
<1>2. text[i] # "rbracket"
  OBVIOUS
<1>3. Completes(c, i, j) <=> \E m \in Place : Value(i, m) /\ Completes(ParentAfterValue(c), m, j)
  BY <1>1, <1>2, TakesValue
<1>4. \A m \in Place : Value(i, m) <=> m = i + 1
  BY <1>1, ValueBegins
<1>5. QED
  BY <1>1, <1>3, <1>4

\* A bracket opens the container that is the value.
LEMMA OpenRule ==
    ASSUME text \in Seq(Lexeme), NEW c \in ValueExpected, NEW i \in 1..Len(text), NEW j \in Place,
           text[i] \in Opener
    PROVE  Completes(c, i, j) <=>
              \E m \in Place : /\ Completes(IF text[i] = "lbrace" THEN "ObjAfterOpen" ELSE "ArrAfterOpen", i + 1, m)
                               /\ Completes(ParentAfterValue(c), m, j)
<1>1. i \in Place /\ text[i] # "rbracket"
  BY DEF Place, Opener
<1>2. Completes(c, i, j) <=> \E m \in Place : Value(i, m) /\ Completes(ParentAfterValue(c), m, j)
  BY <1>1, TakesValue
<1>3. ASSUME NEW m \in Place
      PROVE  Value(i, m) <=> Completes(IF text[i] = "lbrace" THEN "ObjAfterOpen" ELSE "ArrAfterOpen", i + 1, m)
  <2>1. CASE text[i] = "lbrace"
    BY <1>1, <2>1, ValueBegins
  <2>2. CASE text[i] = "lbracket"
    BY <1>1, <2>2, ValueBegins
  <2>3. QED
    BY <2>1, <2>2 DEF Opener
<1>4. QED
  BY <1>2, <1>3

\* A string is the key that was expected.
LEMMA KeyRule ==
    ASSUME text \in Seq(Lexeme), NEW c \in KeyExpected, NEW i \in 1..Len(text), NEW j \in Place,
           text[i] = "string"
    PROVE  Completes(c, i, j) <=> Completes("ObjAfterKey", i + 1, j)
<1>1. i \in Place /\ i \in Nat /\ j \in Nat
  BY DEF Place
<1>2. Completes(c, i, j) <=> ClosedBy(i, j, "rbrace") /\ Members(i, j - 1)
  <2>1. ClosedBy(i, j, "rbrace") => j # i + 1
    BY <1>1 DEF ClosedBy
  <2>2. c \in {"ObjAfterOpen", "ObjAfterComma"}
    BY DEF KeyExpected
  <2>3. QED
    BY <2>1, <2>2, CompletesCases
<1>3. Completes("ObjAfterKey", i + 1, j) <=> text[i + 1] = "colon" /\ MemberRest(i + 2, j)
  BY <1>1 DEF Completes
<1>4. ASSUME ClosedBy(i, j, "rbrace"), Members(i, j - 1)
      PROVE  text[i + 1] = "colon" /\ MemberRest(i + 2, j)
  <2>1. j - 1 \in Place /\ i < j - 1 /\ text[j - 1] = "rbrace"
    BY <1>1, <1>4 DEF ClosedBy, Members, Place
  <2>2. /\ i + 2 < j - 1 /\ text[i + 1] = "colon"
        /\ \/ Value(i + 2, j - 1)
           \/ \E m \in i + 3..(j - 1) - 2 : Value(i + 2, m) /\ text[m] = "comma" /\ Members(m + 1, j - 1)
    BY <1>1, <1>4, <2>1, MembersRule
  <2>3. (j - 1) - 2 = j - 3 /\ i + 3 = (i + 2) + 1 /\ i + 2 < j
    BY <1>1, <2>2
  <2>4. QED
    BY <2>1, <2>2, <2>3 DEF MemberRest, ClosedBy
<1>5. ASSUME text[i + 1] = "colon", MemberRest(i + 2, j)
      PROVE  ClosedBy(i, j, "rbrace") /\ Members(i, j - 1)
  <2>1. i + 2 < j /\ text[j - 1] = "rbrace"
    BY <1>5 DEF MemberRest, ClosedBy
  <2>2. i + 2 \in Place /\ j - 1 \in Place /\ i < j /\ i < j - 1
    BY <1>1, <2>1 DEF Place
  <2>3. (j - 1) - 2 = j - 3 /\ i + 3 = (i + 2) + 1
    BY <1>1
  <2>4. \/ Value(i + 2, j - 1)
        \/ \E m \in i + 3..(j - 1) - 2 : Value(i + 2, m) /\ text[m] = "comma" /\ Members(m + 1, j - 1)
    BY <1>5, <2>3 DEF MemberRest
  <2>5. i + 2 < j - 1
    BY <1>1, <2>2, <2>4, ValueBegins
  <2>6. Members(i, j - 1)
    BY <1>1, <1>5, <2>2, <2>4, <2>5, MembersRule
  <2>7. QED
    BY <2>1, <2>2, <2>6 DEF ClosedBy
<1>6. QED
  BY <1>2, <1>3, <1>4, <1>5

\* Another element or member follows.
LEMMA CommaRule ==
    ASSUME text \in Seq(Lexeme), NEW c \in {"ArrAfterValue", "ObjAfterValue"},
           NEW i \in 1..Len(text), NEW j \in Place, text[i] = "comma"
    PROVE  Completes(c, i, j) <=> Completes(AfterComma(c), i + 1, j)
<1>1. i \in Nat /\ j \in Nat
  BY DEF Place
<1>2. ASSUME NEW l \in {"rbrace", "rbracket"}, ClosedBy(i, j, l) PROVE j # i + 1 /\ ClosedBy(i + 1, j, l)
  BY <1>1, <1>2 DEF ClosedBy
<1>3. ASSUME NEW l, ClosedBy(i + 1, j, l) PROVE ClosedBy(i, j, l)
  BY <1>1, <1>3 DEF ClosedBy
<1>4. CASE c = "ArrAfterValue"
  BY <1>2, <1>3, <1>4, CompletesCases DEF AfterComma
<1>5. CASE c = "ObjAfterValue"
  BY <1>2, <1>3, <1>5, CompletesCases DEF AfterComma
<1>6. QED
  BY <1>4, <1>5

\* A closing bracket in its place completes the container.
LEMMA CloseRule ==
    ASSUME text \in Seq(Lexeme), NEW l \in {"rbrace", "rbracket"}, NEW c \in Closable(l),
           NEW i \in 1..Len(text), NEW j \in Place, text[i] = l
    PROVE  Completes(c, i, j) <=> j = i + 1
<1>1. i \in Nat /\ j \in Nat
  BY DEF Place
<1>2. c \in ObjCtx \cup ArrCtx \cup TopCtx /\ c \notin ObjCtx \ {"ObjAfterOpen", "ObjAfterValue"}
  BY DEF Closable, ObjCtx, ArrCtx
<1>3. ASSUME Completes(c, i, j) PROVE j = i + 1
  BY <1>2, <1>3, FirstLexeme DEF ObjCtx
<1>4. ASSUME j = i + 1 PROVE Completes(c, i, j)
  <2>1. ClosedBy(i, j, l)
    BY <1>1, <1>4 DEF ClosedBy
  <2>2. CASE l = "rbrace" /\ c \in {"ObjAfterOpen", "ObjAfterValue"}
    BY <1>4, <2>1, <2>2, CompletesCases
  <2>3. CASE l = "rbracket" /\ c \in {"ArrAfterOpen", "ArrAfterValue"}
    BY <1>4, <2>1, <2>3, CompletesCases
  <2>4. QED
    BY <2>2, <2>3 DEF Closable
<1>5. QED
  BY <1>3, <1>4

\* Where the walk fails, but for depth, the text cannot be completed.
LEMMA FailRule ==
    ASSUME text \in Seq(Lexeme), pos \in 1..Len(text), NEW c \in ObjCtx \cup ArrCtx \cup TopCtx,
           c = StackLast, Failure \notin {"none", "too_deep"}, ~EmptyAfterPop \/ c \in TopCtx,
           NEW j \in Place
    PROVE  ~Completes(c, pos, j)
<1> SUFFICES ASSUME Completes(c, pos, j) PROVE FALSE
  OBVIOUS
<1>1. \/ c \in ValueExpected /\ text[pos] \in {"string", "scalar", "lbracket", "lbrace"}
      \/ c \in KeyExpected /\ text[pos] = "string"
      \/ c \in Closable("rbracket") /\ text[pos] = "rbracket" /\ c \notin TopCtx
      \/ c \in Closable("rbrace") /\ text[pos] = "rbrace" /\ c \notin TopCtx
      \/ c = "ObjAfterKey" /\ text[pos] = "colon"
      \/ c \in {"ArrAfterValue", "ObjAfterValue"} /\ text[pos] = "comma"
  <2>1. /\ {"ArrAfterOpen", "ArrAfterValue"} = Closable("rbracket")
        /\ {"ObjAfterOpen", "ObjAfterValue"} = Closable("rbrace")
        /\ TopCtx = {"Top", "TopDone"}
    BY DEF Closable, TopCtx
  <2>2. QED
    BY <2>1, FirstLexeme
<1>2. Failure \in {"none", "too_deep"}
  BY <1>1 DEF Failure, GapToken, Opener
<1>3. QED
  BY <1>2

-----------------------------------------------------------------------------
(* A stack of contexts.  Its containers end one after the other, the inner  *)
(* before the outer: e[k] is where frame k is complete, and e[k + 1], where *)
(* the frame above it is, is where frame k goes on.                         *)

Splits(F, i, e) ==
    /\ e \in [1..Len(F) + 1 -> Place]
    /\ e[1] = Len(text) + 1 /\ e[Len(F) + 1] = i
    /\ \A k \in 1..Len(F) : Completes(F[k], e[k + 1], e[k])

\* The text from lexeme i on completes every frame of F.
Accepts(F, i) == \E e : Splits(F, i, e)

\* The top frame moves on.
LEMMA MoveAccepts ==
    ASSUME NEW F \in Seq(Ctx), NEW G \in Seq(Ctx), NEW n \in Nat \ {0}, Len(F) = n, Len(G) = n,
           \A k \in 1..n - 1 : G[k] = F[k],
           NEW i, NEW h \in Place,
           \A j \in Place : Completes(F[n], i, j) => Completes(G[n], h, j),
           Accepts(F, i)
    PROVE  Accepts(G, h)
<1>1. PICK e : Splits(F, i, e)
  BY DEF Accepts
<1> DEFINE d == [e EXCEPT ![n + 1] = h]
<1>2. /\ e \in [1..n + 1 -> Place] /\ e[1] = Len(text) + 1 /\ e[n + 1] = i
      /\ \A k \in 1..n : Completes(F[k], e[k + 1], e[k])
  BY <1>1 DEF Splits
<1>3. d \in [1..n + 1 -> Place] /\ d[n + 1] = h /\ \A k \in 1..n : d[k] = e[k]
  BY <1>2
<1> HIDE DEF d
<1>4. ASSUME NEW k \in 1..n PROVE Completes(G[k], d[k + 1], d[k])
  <2>1. CASE k = n
    <3>1. Completes(F[n], i, e[n]) /\ e[n] \in Place
      BY <1>2
    <3>2. Completes(G[n], h, e[n])
      BY <3>1
    <3>3. QED
      BY <2>1, <3>2, <1>3
  <2>2. CASE k # n
    <3>1. k \in 1..n - 1 /\ k + 1 \in 1..n
      BY <2>2
    <3>2. QED
      BY <3>1, <1>2, <1>3
  <2>3. QED
    BY <2>1, <2>2
<1>5. d[1] = Len(text) + 1
  BY <1>2, <1>3
<1>6. Splits(G, h, d)
  BY <1>3, <1>4, <1>5 DEF Splits
<1>7. QED
  BY <1>6 DEF Accepts

\* A frame is pushed: the container it stands for ends somewhere.
LEMMA PushAccepts ==
    ASSUME NEW F \in Seq(Ctx), NEW G \in Seq(Ctx), NEW n \in Nat \ {0}, Len(F) = n, Len(G) = n + 1,
           \A k \in 1..n - 1 : G[k] = F[k],
           NEW i \in Place, NEW h \in Place,
           \A j \in Place :
              Completes(F[n], i, j) <=> \E m \in Place : Completes(G[n + 1], h, m) /\ Completes(G[n], m, j)
    PROVE  Accepts(F, i) <=> Accepts(G, h)
<1>1. ASSUME NEW e, Splits(F, i, e) PROVE Accepts(G, h)
  <2>1. /\ e \in [1..n + 1 -> Place] /\ e[1] = Len(text) + 1 /\ e[n + 1] = i
        /\ \A k \in 1..n : Completes(F[k], e[k + 1], e[k])
    BY <1>1 DEF Splits
  <2>2. Completes(F[n], i, e[n]) /\ e[n] \in Place
    BY <2>1
  <2>3. PICK m \in Place : Completes(G[n + 1], h, m) /\ Completes(G[n], m, e[n])
    BY <2>2
  <2> DEFINE d == [k \in 1..n + 2 |-> IF k <= n THEN e[k] ELSE IF k = n + 1 THEN m ELSE h]
  <2>4. d \in [1..n + 2 -> Place] /\ d[n + 2] = h /\ d[n + 1] = m /\ \A k \in 1..n : d[k] = e[k]
    BY <2>1
  <2> HIDE DEF d
  <2>5. ASSUME NEW k \in 1..n + 1 PROVE Completes(G[k], d[k + 1], d[k])
    <3>1. CASE k = n + 1
      <4>1. k + 1 = n + 2
        BY <3>1
      <4>2. QED
        BY <3>1, <4>1, <2>3, <2>4
    <3>2. CASE k = n
      BY <3>2, <2>3, <2>4
    <3>3. CASE k \in 1..n - 1
      <4>1. k \in 1..n /\ k + 1 \in 1..n
        BY <3>3
      <4>2. QED
        BY <3>3, <4>1, <2>1, <2>4
    <3>4. QED
      BY <3>1, <3>2, <3>3
  <2>6. d[1] = Len(text) + 1 /\ Len(G) + 1 = n + 2
    BY <2>1, <2>4
  <2>7. Splits(G, h, d)
    BY <2>4, <2>5, <2>6 DEF Splits
  <2>8. QED
    BY <2>7 DEF Accepts
<1>2. ASSUME NEW d, Splits(G, h, d) PROVE Accepts(F, i)
  <2>1. /\ d \in [1..n + 2 -> Place] /\ d[1] = Len(text) + 1 /\ d[n + 2] = h
        /\ \A k \in 1..n + 1 : Completes(G[k], d[k + 1], d[k])
    <3>1. Len(G) + 1 = n + 2
      OBVIOUS
    <3>2. QED
      BY <1>2, <3>1 DEF Splits
  <2>2. Completes(G[n + 1], h, d[n + 1]) /\ Completes(G[n], d[n + 1], d[n]) /\ d[n + 1] \in Place /\ d[n] \in Place
    <3>1. n \in 1..n + 1 /\ n + 1 \in 1..n + 1 /\ (n + 1) + 1 = n + 2 /\ n \in 1..n + 2 /\ n + 1 \in 1..n + 2
      OBVIOUS
    <3>2. Completes(G[n + 1], d[(n + 1) + 1], d[n + 1]) /\ Completes(G[n], d[n + 1], d[n])
      BY <2>1, <3>1
    <3>3. QED
      BY <2>1, <3>1, <3>2
  <2>3. Completes(F[n], i, d[n])
    BY <2>2
  <2> DEFINE e == [k \in 1..n + 1 |-> IF k <= n THEN d[k] ELSE i]
  <2>4. e \in [1..n + 1 -> Place] /\ e[n + 1] = i /\ \A k \in 1..n : e[k] = d[k]
    BY <2>1
  <2> HIDE DEF e
  <2>5. ASSUME NEW k \in 1..n PROVE Completes(F[k], e[k + 1], e[k])
    <3>1. CASE k = n
      BY <3>1, <2>3, <2>4
    <3>2. CASE k # n
      <4>1. k \in 1..n - 1 /\ k + 1 \in 1..n /\ k \in 1..n + 1
        BY <3>2
      <4>2. QED
        BY <4>1, <2>1, <2>4
    <3>3. QED
      BY <3>1, <3>2
  <2>6. e[1] = Len(text) + 1
    BY <2>1, <2>4
  <2>7. Splits(F, i, e)
    BY <2>4, <2>5, <2>6 DEF Splits
  <2>8. QED
    BY <2>7 DEF Accepts
<1>3. QED
  BY <1>1, <1>2 DEF Accepts

\* The top frame is complete and popped.
LEMMA PopAccepts ==
    ASSUME NEW F \in Seq(Ctx), NEW G \in Seq(Ctx), NEW n \in Nat, n > 1, Len(F) = n, Len(G) = n - 1,
           \A k \in 1..n - 1 : G[k] = F[k],
           NEW i \in Place, NEW h \in Place,
           \A j \in Place : Completes(F[n], i, j) <=> j = h
    PROVE  Accepts(F, i) <=> Accepts(G, h)
<1>1. ASSUME NEW e, Splits(F, i, e) PROVE Accepts(G, h)
  <2>1. /\ e \in [1..n + 1 -> Place] /\ e[1] = Len(text) + 1 /\ e[n + 1] = i
        /\ \A k \in 1..n : Completes(F[k], e[k + 1], e[k])
    BY <1>1 DEF Splits
  <2>2. Completes(F[n], i, e[n]) /\ e[n] \in Place
    BY <2>1
  <2>3. e[n] = h
    BY <2>2
  <2> DEFINE d == [k \in 1..n |-> e[k]]
  <2>4. d \in [1..n -> Place] /\ \A k \in 1..n : d[k] = e[k]
    BY <2>1
  <2> HIDE DEF d
  <2>5. ASSUME NEW k \in 1..n - 1 PROVE Completes(G[k], d[k + 1], d[k])
    <3>1. k \in 1..n /\ k + 1 \in 1..n
      OBVIOUS
    <3>2. QED
      BY <3>1, <2>1, <2>4
  <2>6. Len(G) + 1 = n /\ d[1] = Len(text) + 1 /\ d[n] = h
    BY <2>1, <2>3, <2>4
  <2>7. Splits(G, h, d)
    BY <2>4, <2>5, <2>6 DEF Splits
  <2>8. QED
    BY <2>7 DEF Accepts
<1>2. ASSUME NEW d, Splits(G, h, d) PROVE Accepts(F, i)
  <2>1. /\ d \in [1..n -> Place] /\ d[1] = Len(text) + 1 /\ d[n] = h
        /\ \A k \in 1..n - 1 : Completes(G[k], d[k + 1], d[k])
    <3>1. Len(G) + 1 = n
      OBVIOUS
    <3>2. QED
      BY <1>2, <3>1 DEF Splits
  <2> DEFINE e == [k \in 1..n + 1 |-> IF k <= n THEN d[k] ELSE i]
  <2>4. e \in [1..n + 1 -> Place] /\ e[n + 1] = i /\ \A k \in 1..n : e[k] = d[k]
    BY <2>1
  <2> HIDE DEF e
  <2>5. ASSUME NEW k \in 1..n PROVE Completes(F[k], e[k + 1], e[k])
    <3>1. CASE k = n
      <4>1. Completes(F[n], i, h)
        OBVIOUS
      <4>2. QED
        BY <3>1, <4>1, <2>1, <2>4
    <3>2. CASE k # n
      <4>1. k \in 1..n - 1 /\ k + 1 \in 1..n
        BY <3>2
      <4>2. QED
        BY <4>1, <2>1, <2>4
    <3>3. QED
      BY <3>1, <3>2
  <2>6. e[1] = Len(text) + 1
    BY <2>1, <2>4
  <2>7. Splits(F, i, e)
    BY <2>4, <2>5, <2>6 DEF Splits
  <2>8. QED
    BY <2>7 DEF Accepts
<1>3. QED
  BY <1>1, <1>2 DEF Accepts

\* What the top frame cannot take the stack does not.
LEMMA FailAccepts ==
    ASSUME NEW F \in Seq(Ctx), NEW n \in Nat \ {0}, Len(F) = n, NEW i,
           \A j \in Place : ~Completes(F[n], i, j)
    PROVE  ~Accepts(F, i)
<1> SUFFICES ASSUME NEW e, Splits(F, i, e) PROVE FALSE
  BY DEF Accepts
<1>1. e[n] \in Place /\ Completes(F[n], i, e[n])
  BY DEF Splits
<1>2. QED
  BY <1>1

\* Before the first lexeme, and after the last one.
LEMMA EndsAccept ==
    ASSUME StackAssumption, WalkAssumption, text \in Seq(Lexeme)
    PROVE  /\ Accepts(<<"Top">>, 1) <=> Value(1, Len(text) + 1)
           /\ \A F \in Seq(Ctx) :
                 Len(F) >= 1 /\ (\A k \in 2..Len(F) : F[k] \notin TopCtx) =>
                    (Accepts(F, Len(text) + 1) <=> Len(F) = 1 /\ F[1] = "TopDone")
<1>1. 1 \in Place /\ Len(text) + 1 \in Place /\ Len(text) \in Nat
  BY DEF Place
<1>2. ASSUME NEW c, NEW i \in Place PROVE Accepts(<<c>>, i) <=> Completes(c, i, Len(text) + 1)
  <2>1. ASSUME NEW e, Splits(<<c>>, i, e) PROVE Completes(c, i, Len(text) + 1)
    BY <2>1 DEF Splits
  <2>2. ASSUME Completes(c, i, Len(text) + 1) PROVE Accepts(<<c>>, i)
    <3> DEFINE e == [k \in 1..2 |-> IF k = 1 THEN Len(text) + 1 ELSE i]
    <3>1. e \in [1..2 -> Place] /\ e[1] = Len(text) + 1 /\ e[2] = i
      BY <1>1
    <3> HIDE DEF e
    <3>2. Splits(<<c>>, i, e)
      BY <3>1, <2>2 DEF Splits
    <3>3. QED
      BY <3>2 DEF Accepts
  <2>3. QED
    BY <2>1, <2>2 DEF Accepts
<1>3. Accepts(<<"Top">>, 1) <=> Value(1, Len(text) + 1)
  BY <1>1, <1>2, CompletesCases
<1>4. ASSUME NEW F \in Seq(Ctx), Len(F) >= 1, \A k \in 2..Len(F) : F[k] \notin TopCtx
      PROVE  Accepts(F, Len(text) + 1) <=> Len(F) = 1 /\ F[1] = "TopDone"
  <2>1. ASSUME NEW e, Splits(F, Len(text) + 1, e) PROVE Len(F) = 1 /\ F[1] = "TopDone"
    <3> DEFINE n == Len(F)
    <3>1. n \in 1..Len(F) /\ F[n] \in Ctx
      BY <1>4
    <3>2. e[n] \in Place /\ Completes(F[n], Len(text) + 1, e[n])
      BY <2>1, <3>1 DEF Splits
    <3>3. F[n] = "TopDone"
      <4>1. ~(Len(text) + 1 < e[n])
        BY <1>1, <3>2 DEF Place
      <4>2. QED
        BY <1>1, <3>1, <3>2, <4>1, CompletesForward DEF WalkAssumption
    <3>4. n \notin 2..Len(F)
      BY <1>4, <3>3 DEF TopCtx
    <3>5. n = 1
      <4>1. n \in Nat /\ n >= 1 /\ ~(n >= 2 /\ n <= n)
        BY <1>4, <3>4
      <4> HIDE DEF n
      <4>2. QED
        BY <4>1
    <3>6. QED
      BY <3>3, <3>5
  <2>2. ASSUME Len(F) = 1, F[1] = "TopDone" PROVE Accepts(F, Len(text) + 1)
    <3>1. F = <<"TopDone">>
      BY <1>4, <2>2
    <3>2. Completes("TopDone", Len(text) + 1, Len(text) + 1)
      BY CompletesCases
    <3>3. QED
      BY <1>1, <1>2, <3>1, <3>2
  <2>3. QED
    BY <2>1, <2>2 DEF Accepts
<1>5. QED
  BY <1>3, <1>4

-----------------------------------------------------------------------------
(* The walk.                                                                *)

\* What Accepts says of the next state's frames, where the text stays.
LEMMA AcceptsThen ==
    ASSUME text' = text
    PROVE  /\ Accepts(Frames, pos)' <=> Accepts(Frames', pos')
           /\ IsJson(text)' <=> IsJson(text)
<1>1. IsJson(text)' <=> IsJson(text)
  BY DEF IsJson
<1>2. ASSUME NEW c, NEW i, NEW j PROVE Completes(c, i, j)' <=> Completes(c, i, j)
  BY DEF Completes, MemberRest, ClosedBy, Value, Elements, Members
<1>3. Place' = Place
  BY DEF Place
<1>4. ASSUME NEW e PROVE Splits(Frames, pos, e)' <=> Splits(Frames', pos', e)
  BY <1>2, <1>3 DEF Splits
<1>5. QED
  BY <1>1, <1>4 DEF Accepts

\* The scanner's stack is as deep as the text says; while the walk goes on, the text
\* is JSON just when its rest completes the frames.
GrammarInv ==
    /\ Len(open) = OpenAfter(Len(text))
    /\ phase = "scan" => Frames = <<"Top">>
    /\ phase = "walk" => (IsJson(text) <=> Accepts(Frames, pos))
    /\ AcceptsExactlyJson

\* What every arm of the walk comes down to.
LEMMA TakeAccepts ==
    ASSUME GrammarInv, NEW l, Took(l), Accepts(Frames, pos) <=> Accepts(Frames', pos')
    PROVE  GrammarInv'
<1>1. /\ text' = text /\ open' = open /\ phase = "walk" /\ phase' = "walk"
      /\ OpenAfter(Len(text))' = OpenAfter(Len(text))
  BY DEF Took, OpenAfter, Count
<1>2. (Accepts(Frames, pos)' <=> Accepts(Frames', pos')) /\ (IsJson(text)' <=> IsJson(text))
  BY <1>1, AcceptsThen
<1>3. QED
  BY <1>1, <1>2 DEF GrammarInv, AcceptsExactlyJson

\* An arm that moves the top frame on.
LEMMA ReplaceAccepts ==
    ASSUME StackAssumption, WalkAssumption, WalkInv, GrammarInv, NEW l, Took(l), NEW k \in Ctx, SetLast(k),
           StackLast \in TopCtx => StackLast = "Top" /\ k = "TopDone",
           \A j \in Place : Completes(StackLast, pos, j) <=> Completes(k, pos + 1, j)
    PROVE  GrammarInv'
<1> DEFINE n == Len(Frames)
<1>1. Frames' = [Frames EXCEPT ![n] = k]
  BY MoveOn DEF WalkInv, Stack!Replace
<1>2. Frames \in Seq(Ctx) /\ n \in Nat \ {0} /\ Frames[n] = StackLast
  BY FramesFacts DEF WalkInv
<1>3. /\ Frames' \in Seq(Ctx) /\ Len(Frames') = n /\ Frames'[n] = k
      /\ \A j \in 1..n - 1 : Frames'[j] = Frames[j]
  BY <1>1, <1>2
<1>4. pos \in Place /\ pos + 1 \in Place /\ pos' = pos + 1
  BY DEF Took, Place
<1> HIDE DEF n
<1>5. ASSUME Accepts(Frames, pos) PROVE Accepts(Frames', pos + 1)
  <2>1. \A j \in Place : Completes(Frames[n], pos, j) => Completes(Frames'[n], pos + 1, j)
    BY <1>2, <1>3
  <2> DEFINE G == Frames'
  <2>2. /\ G \in Seq(Ctx) /\ Len(G) = n /\ \A j \in 1..n - 1 : G[j] = Frames[j]
        /\ \A j \in Place : Completes(Frames[n], pos, j) => Completes(G[n], pos + 1, j)
    BY <1>3, <2>1
  <2> HIDE DEF G
  <2>3. Accepts(G, pos + 1)
    BY <1>2, <1>4, <1>5, <2>2, MoveAccepts DEF n
  <2>4. QED
    BY <2>3 DEF G
<1>6. ASSUME Accepts(Frames', pos + 1) PROVE Accepts(Frames, pos)
  <2>1. \A j \in Place : Completes(Frames'[n], pos + 1, j) => Completes(Frames[n], pos, j)
    BY <1>2, <1>3
  <2> DEFINE G == Frames'
  <2>2. /\ G \in Seq(Ctx) /\ Len(G) = n /\ (\A j \in 1..n - 1 : Frames[j] = G[j]) /\ Accepts(G, pos + 1)
        /\ \A j \in Place : Completes(G[n], pos + 1, j) => Completes(Frames[n], pos, j)
    BY <1>3, <1>6, <2>1
  <2> HIDE DEF G
  <2>3. QED
    BY <1>2, <1>4, <2>2, MoveAccepts DEF n
<1>7. QED
  BY <1>4, <1>5, <1>6, TakeAccepts

\* A container opens.
LEMMA DescendAccepts ==
    ASSUME StackAssumption, WalkAssumption, WalkInv, GrammarInv, NEW l \in Opener, Took(l),
           NEW j \in Ctx, NEW inner \in Ctx, SetAndPush(j, inner), StackLen = 1 => j = "TopDone",
           \A x \in Place : Completes(StackLast, pos, x) <=>
                               \E m \in Place : Completes(inner, pos + 1, m) /\ Completes(j, m, x)
    PROVE  GrammarInv'
<1> DEFINE n == Len(Frames)
           G == Frames'
<1>1. G = Append([Frames EXCEPT ![n] = j], inner)
  BY PushFrames DEF WalkInv
<1>2. Frames \in Seq(Ctx) /\ n \in Nat \ {0} /\ Frames[n] = StackLast
  BY FramesFacts DEF WalkInv
<1> HIDE DEF G
<1>3. /\ G \in Seq(Ctx) /\ Len(G) = n + 1 /\ G[n] = j /\ G[n + 1] = inner
      /\ \A k \in 1..n - 1 : G[k] = Frames[k]
  BY <1>1, <1>2
<1>4. pos \in Place /\ pos + 1 \in Place /\ pos' = pos + 1
  BY DEF Took, Place
<1> HIDE DEF n
<1>5. \A x \in Place : Completes(Frames[n], pos, x) <=>
                          \E m \in Place : Completes(G[n + 1], pos + 1, m) /\ Completes(G[n], m, x)
  BY <1>2, <1>3
<1>6. Accepts(Frames, pos) <=> Accepts(G, pos + 1)
  BY <1>2, <1>3, <1>4, <1>5, PushAccepts DEF n
<1>7. QED
  BY <1>4, <1>6, TakeAccepts DEF G

\* A container closes.
LEMMA AscendAccepts ==
    ASSUME StackAssumption, WalkAssumption, WalkInv, GrammarInv,
           NEW l \in {"rbrace", "rbracket"}, Took(l), Pop, StackLast \notin TopCtx,
           \A x \in Place : Completes(StackLast, pos, x) <=> x = pos + 1
    PROVE  GrammarInv'
<1> DEFINE n == Len(Frames)
           G == Frames'
<1>1. /\ Frames \in Seq(Ctx) /\ n \in Nat /\ n > 1
      /\ n = StackLen /\ Frames[n] = StackLast
  BY FramesFacts DEF WalkInv, StackInv
<1>2. G = SubSeq(Frames, 1, n - 1)
  BY <1>1, PopFrames DEF WalkInv
<1> HIDE DEF G
<1>3. /\ G \in Seq(Ctx) /\ Len(G) = n - 1
      /\ \A k \in 1..n - 1 : G[k] = Frames[k]
  BY <1>1, <1>2
<1>4. pos \in Place /\ pos + 1 \in Place /\ pos' = pos + 1
  BY DEF Took, Place
<1> HIDE DEF n
<1>5. \A x \in Place : Completes(Frames[n], pos, x) <=> x = pos + 1
  BY <1>1
<1>6. Accepts(Frames, pos) <=> Accepts(G, pos + 1)
  BY <1>1, <1>3, <1>4, <1>5, PopAccepts DEF n
<1>7. QED
  BY <1>4, <1>6, TakeAccepts DEF G

-----------------------------------------------------------------------------
(* Nesting.  In what the grammar derives every bracket is closed, so that    *)
(* nothing trails a value.                                                   *)

\* As many containers are open after lexemes i..j - 1 as before them, and no fewer
\* in between.
Balanced(i, j) ==
    /\ OpenAfter(j - 1) = OpenAfter(i - 1)
    /\ \A k \in i - 1..j - 1 : OpenAfter(k) >= OpenAfter(i - 1)

LEMMA BalancedOne ==
    ASSUME NEW i \in Nat \ {0}, text[i] \notin Opener \cup {"rbrace", "rbracket"}
    PROVE  Balanced(i, i + 1)
<1>1. i - 1 \in Nat /\ (i - 1) + 1 = i
  OBVIOUS
<1>2. OpenAfter(i) = OpenAfter(i - 1) /\ OpenAfter(i - 1) \in Int
  BY <1>1, OpenStep
<1>3. \A k \in i - 1..(i + 1) - 1 : k = i - 1 \/ k = i
  OBVIOUS
<1>4. (i + 1) - 1 = i
  OBVIOUS
<1>5. QED
  BY <1>2, <1>3, <1>4 DEF Balanced

LEMMA BalancedJoin ==
    ASSUME NEW i \in Nat \ {0}, NEW m \in Nat, NEW j \in Nat, i < m, m < j,
           Balanced(i, m), text[m] \notin Opener \cup {"rbrace", "rbracket"}, Balanced(m + 1, j)
    PROVE  Balanced(i, j)
<1>1. m - 1 \in Nat /\ (m - 1) + 1 = m /\ (m + 1) - 1 = m
  OBVIOUS
<1>2. OpenAfter(m) = OpenAfter(m - 1)
  BY <1>1, OpenStep
<1>3. OpenAfter(m) = OpenAfter(i - 1) /\ OpenAfter(j - 1) = OpenAfter(m)
  BY <1>1, <1>2 DEF Balanced
<1>4. ASSUME NEW k \in i - 1..j - 1 PROVE OpenAfter(k) >= OpenAfter(i - 1)
  <2>1. k \in i - 1..m - 1 \/ k \in m..j - 1
    OBVIOUS
  <2>2. QED
    BY <1>1, <1>3, <2>1 DEF Balanced
<1>5. QED
  BY <1>3, <1>4 DEF Balanced

\* Brackets around it: inside them one more is open.
LEMMA BalancedWrap ==
    ASSUME NEW i \in Nat \ {0}, NEW j \in Nat, i + 1 < j,
           text[i] \in Opener, text[j - 1] \in {"rbrace", "rbracket"},
           j = i + 2 \/ Balanced(i + 1, j - 1)
    PROVE  /\ Balanced(i, j)
           /\ \A k \in i..j - 2 : OpenAfter(k) >= OpenAfter(i - 1) + 1
<1>1. /\ i - 1 \in Nat /\ (i - 1) + 1 = i /\ (i + 1) - 1 = i
      /\ j - 2 \in Nat /\ (j - 2) + 1 = j - 1 /\ (j - 1) - 1 = j - 2
  OBVIOUS
<1>2. OpenAfter(i) = OpenAfter(i - 1) + 1 /\ OpenAfter(i - 1) \in Int
  BY <1>1, OpenStep
<1>3. OpenAfter(j - 1) = OpenAfter(j - 2) - 1 /\ OpenAfter(j - 2) \in Int
  BY <1>1, OpenStep
<1>4. OpenAfter(j - 2) = OpenAfter(i) /\ \A k \in i..j - 2 : OpenAfter(k) >= OpenAfter(i)
  <2>1. CASE j = i + 2
    <3>1. j - 2 = i /\ \A k \in i..j - 2 : k = i
      BY <2>1
    <3>2. QED
      BY <3>1, <1>2
  <2>2. CASE Balanced(i + 1, j - 1)
    BY <2>2, <1>1 DEF Balanced
  <2>3. QED
    BY <2>1, <2>2
<1>5. ASSUME NEW k \in i - 1..j - 1 PROVE OpenAfter(k) >= OpenAfter(i - 1)
  <2>1. k = i - 1 \/ k = j - 1 \/ k \in i..j - 2
    OBVIOUS
  <2>2. ASSUME k \in i..j - 2 PROVE OpenAfter(k) >= OpenAfter(i - 1)
    <3>1. k \in Nat /\ OpenAfter(k) \in Int /\ OpenAfter(k) >= OpenAfter(i)
      BY <2>2, <1>4, OpenStep
    <3>2. QED
      BY <3>1, <1>2
  <2>3. QED
    BY <2>1, <2>2, <1>2, <1>3, <1>4
<1>6. QED
  <2>1. \A k \in i..j - 2 : OpenAfter(k) >= OpenAfter(i - 1) + 1
    BY <1>2, <1>4
  <2>2. OpenAfter(j - 1) = OpenAfter(i - 1)
    BY <1>2, <1>3, <1>4
  <2>3. QED
    BY <2>1, <2>2, <1>5 DEF Balanced

\* Spans of up to m lexemes are balanced.
BalancedTo(m) ==
    \A i \in Place, j \in Place :
        j - i <= m /\ (Value(i, j) \/ Elements(i, j) \/ Members(i, j)) => Balanced(i, j)

LEMMA BalancedAbove ==
    ASSUME text \in Seq(Lexeme), NEW m \in Nat, BalancedTo(m)
    PROVE  BalancedTo(m + 1)
<1>0. Place \subseteq Nat \ {0} /\ \A i \in Place : i \in Nat /\ i >= 1
  BY DEF Place
<1>a. {"string", "scalar", "comma", "colon"} \cap (Opener \cup {"rbrace", "rbracket"}) = {}
  BY DEF Opener
<1>1. ASSUME NEW i \in Place, NEW j \in Place, j - i <= m + 1, Value(i, j)
      PROVE  Balanced(i, j)
  <2>1. CASE j = i + 1 /\ text[i] \in {"string", "scalar"}
    BY <2>1, <1>0, <1>a, BalancedOne
  <2>2. ASSUME i + 1 < j, text[i] \in Opener, text[j - 1] \in {"rbrace", "rbracket"},
               j = i + 2 \/ Elements(i + 1, j - 1) \/ Members(i + 1, j - 1)
        PROVE  Balanced(i, j)
    <3>1. i + 1 \in Place /\ j - 1 \in Place /\ (j - 1) - (i + 1) <= m
      BY <1>1, <2>2, <1>0 DEF Place
    <3>2. j = i + 2 \/ Balanced(i + 1, j - 1)
      BY <2>2, <3>1 DEF BalancedTo
    <3>3. QED
      BY <2>2, <3>2, <1>0, BalancedWrap
  <2>3. QED
    BY <1>1, <2>1, <2>2, ValueRule DEF Opener
<1>2. ASSUME NEW i \in Place, NEW j \in Place, j - i <= m + 1, Elements(i, j)
      PROVE  Balanced(i, j)
  <2>1. i < j
    BY <1>2 DEF Elements
  <2>2. CASE Value(i, j)
    BY <2>2, <1>1, <1>2
  <2>3. ASSUME NEW k \in i + 1..j - 2, Value(i, k), text[k] = "comma", Elements(k + 1, j)
        PROVE  Balanced(i, j)
    <3>1. k \in Place /\ k + 1 \in Place /\ k - i <= m + 1 /\ j - (k + 1) <= m /\ i < k /\ k < j
      BY <1>2, <1>0 DEF Place
    <3>2. Balanced(i, k) /\ Balanced(k + 1, j)
      BY <2>3, <3>1, <1>1 DEF BalancedTo
    <3>3. QED
      BY <2>3, <3>1, <3>2, <1>0, <1>a, BalancedJoin
  <2>4. QED
    BY <1>2, <2>1, <2>2, <2>3, ElementsRule
<1>3. ASSUME NEW i \in Place, NEW j \in Place, j - i <= m + 1, Members(i, j)
      PROVE  Balanced(i, j)
  <2>1. i < j
    BY <1>3 DEF Members
  <2>2. /\ i + 2 < j /\ text[i] = "string" /\ text[i + 1] = "colon"
        /\ \/ Value(i + 2, j)
           \/ \E k \in i + 3..j - 2 : Value(i + 2, k) /\ text[k] = "comma" /\ Members(k + 1, j)
    BY <1>3, <2>1, MembersRule
  <2>3. i + 2 \in Place /\ j - (i + 2) <= m + 1 /\ i + 1 \in Nat /\ (i + 1) + 1 = i + 2
    BY <2>2, <1>0, <1>3 DEF Place
  <2>4. Balanced(i + 2, j)
    <3>1. CASE Value(i + 2, j)
      BY <3>1, <2>3, <1>1
    <3>2. ASSUME NEW k \in i + 3..j - 2, Value(i + 2, k), text[k] = "comma", Members(k + 1, j)
          PROVE  Balanced(i + 2, j)
      <4>1. k \in Place /\ k + 1 \in Place /\ k - (i + 2) <= m + 1 /\ j - (k + 1) <= m /\ i + 2 < k /\ k < j
        BY <1>3, <1>0 DEF Place
      <4>2. Balanced(i + 2, k) /\ Balanced(k + 1, j)
        BY <3>2, <2>3, <4>1, <1>1 DEF BalancedTo
      <4>3. QED
        BY <3>2, <2>3, <4>1, <4>2, <1>0, <1>a, BalancedJoin
    <3>3. QED
      BY <2>2, <3>1, <3>2
  <2>5. Balanced(i, i + 1)
    BY <2>2, <1>0, <1>a, BalancedOne
  <2>6. i < i + 1 /\ i + 1 < j /\ text[i + 1] \notin Opener \cup {"rbrace", "rbracket"}
    BY <2>2, <1>0, <1>a
  <2>7. Balanced((i + 1) + 1, j)
    BY <2>3, <2>4
  <2>8. QED
    BY <2>3, <2>5, <2>6, <2>7, <1>0, BalancedJoin
<1>4. QED
  BY <1>1, <1>2, <1>3 DEF BalancedTo

LEMMA BalancedEverywhere ==
    ASSUME text \in Seq(Lexeme)
    PROVE  BalancedTo(Len(text))
<1> DEFINE S == {m \in 0..Len(text) : BalancedTo(m)}
<1>0. Len(text) \in Nat
  OBVIOUS
<1>1. BalancedTo(0)
  <2>1. \A i \in Place, j \in Place : Value(i, j) \/ Elements(i, j) \/ Members(i, j) => i < j
    BY ValueBegins, SpanBegins
  <2>2. \A i \in Place, j \in Place : i < j => ~(j - i <= 0)
    BY DEF Place
  <2>3. QED
    BY <2>1, <2>2 DEF BalancedTo
<1>2. \A m \in S : m < Len(text) => m + 1 \in S
  BY <1>0, BalancedAbove
<1>3. 0 \in S /\ S \subseteq 0..Len(text)
  BY <1>0, <1>1
<1> HIDE DEF S
<1>4. S = 0..Len(text)
  BY <1>0, <1>2, <1>3, Climb
<1>5. QED
  BY <1>0, <1>4 DEF S

\* After a JSON value there is nothing that validate_trailing would report.
LEMMA JsonEnds ==
    ASSUME WalkAssumption, text \in Seq(Lexeme), IsJson(text)
    PROVE  ~MayTrail
<1> DEFINE N == Len(text)
<1>1. N \in Nat /\ N >= 1 /\ 1 \in Place /\ N + 1 \in Place
  <2>1. Len(text) # 0
    BY DEF IsJson
  <2>2. QED
    BY <2>1 DEF Place
<1>2. Value(1, N + 1)
  BY <1>1 DEF IsJson, Value
<1>3. (N + 1) - 1 = N /\ (N + 1) - 2 = N - 1 /\ 1 - 1 = 0 /\ 1 + 1 = 2
  BY <1>1
<1>4. CASE N = 1 /\ text[1] \in {"string", "scalar"}
  <2>1. text # <<"badscalar">> /\ DOMAIN text = {1}
    BY <1>4
  <2>2. CASE text[1] = "scalar"
    <3>1. StructuralAt = {}
      BY <2>1, <2>2 DEF StructuralAt, Structural
    <3>2. QED
      BY <2>1, <3>1 DEF MayTrail, Trailing
  <2>3. CASE text[1] = "string"
    <3>1. StructuralAt = {1}
      BY <2>1, <2>3 DEF StructuralAt, Structural
    <3>2. Min(StructuralAt) = 1
      BY <3>1 DEF Min
    <3>3. RootEnd = 1
      BY <2>3, <3>2 DEF RootEnd, Opener
    <3>4. QED
      BY <1>4, <2>1, <3>3 DEF MayTrail, Trailing
  <2>4. QED
    BY <1>4, <2>2, <2>3
<1>5. CASE ~(N = 1 /\ text[1] \in {"string", "scalar"})
  <2>1. /\ 1 < N /\ text[1] \in Opener /\ text[N] \in {"rbrace", "rbracket"}
        /\ N = 2 \/ Elements(2, N) \/ Members(2, N)
    <3> HIDE DEF N
    <3> QED
      BY <1>1, <1>2, <1>3, <1>5, ValueRule DEF Opener
  <2>2. N = 2 \/ Balanced(2, N)
    <3>1. 2 \in Place /\ N \in Place /\ N - 2 <= Len(text)
      BY <1>1, <2>1 DEF Place
    <3>2. QED
      BY <2>1, <3>1, BalancedEverywhere DEF BalancedTo
  <2>3. Balanced(1, N + 1) /\ \A k \in 1..N - 1 : OpenAfter(k) >= OpenAfter(0) + 1
    <3> HIDE DEF N
    <3>1. 1 \in Nat \ {0} /\ N + 1 \in Nat /\ 2 < N + 1 /\ (N + 1 = 1 + 2 <=> N = 2)
      BY <1>1, <2>1
    <3>2. QED
      BY <1>3, <2>1, <2>2, <3>1, BalancedWrap
  <2>4. OpenAfter(N) = 0 /\ OpenAfter(0) = 0
    <3>1. OpenAfter(0) = 0
      BY OpenStep
    <3>2. QED
      BY <2>3, <3>1, <1>3 DEF Balanced
  <2>5. {i \in 1..N : i > 1 /\ OpenAfter(i) = 0} = {N}
    <3>1. ASSUME NEW i \in 1..N, OpenAfter(i) = 0 PROVE i = N
      <4>1. i \notin 1..N - 1
        BY <2>3, <2>4, <3>1
      <4>2. QED
        BY <1>1, <4>1
    <3>2. QED
      BY <1>1, <2>1, <2>4, <3>1
  <2>6. Min(StructuralAt) = 1
    <3>1. 1 \in StructuralAt /\ \A i \in StructuralAt : i \in Nat /\ i >= 1
      BY <1>1, <2>1 DEF StructuralAt, Structural, Opener
    <3> DEFINE f == Min(StructuralAt)
    <3>2. f \in StructuralAt /\ \A i \in StructuralAt : f <= i
      BY <3>1 DEF Min
    <3> HIDE DEF f
    <3>3. QED
      BY <3>1, <3>2 DEF f
  <2>7. RootEnd = Min({i \in 1..N : i > 1 /\ OpenAfter(i) = 0})
    <3> DEFINE S == {i \in 1..N : i > 1 /\ OpenAfter(i) = 0}
               first == Min(StructuralAt)
               R == {i \in first..Len(text) : i > first /\ OpenAfter(i) = 0}
               greatest == Max(StructuralAt)
    <3>1. R = S
      BY <2>6
    <3>2. RootEnd = CASE text[first] \in Opener -> Min(R)
                      [] text[first] \in {"string", "badstring"} -> first
                      [] OTHER -> greatest
      BY DEF RootEnd
    <3> HIDE DEF S, R, N, first, greatest
    <3>3. text[first] \in Opener => RootEnd = Min(R)
      BY <3>2 DEF Opener
    <3>4. text[first] \in Opener
      BY <2>1, <2>6 DEF first
    <3>5. QED
      BY <3>1, <3>3, <3>4 DEF S
  <2>8. RootEnd = N
    BY <1>1, <2>5, <2>7 DEF Min
  <2>9. text # <<"badscalar">>
    BY <2>1
  <2>10. QED
    BY <1>1, <2>8, <2>9 DEF MayTrail, Trailing
<1>6. QED
  BY <1>4, <1>5


-----------------------------------------------------------------------------
(* The steps.                                                               *)

\* One more lexeme of the scanner.
LEMMA OpenAppend ==
    ASSUME text \in Seq(Lexeme), NEW l, text' = Append(text, l)
    PROVE  /\ l \in Opener => OpenAfter(Len(text))' = OpenAfter(Len(text)) + 1
           /\ l \in {"rbrace", "rbracket"} => OpenAfter(Len(text))' = OpenAfter(Len(text)) - 1
           /\ l \notin Opener \cup {"rbrace", "rbracket"} => OpenAfter(Len(text))' = OpenAfter(Len(text))
<1> DEFINE n == Len(text)
<1>1. ASSUME NEW S
      PROVE  /\ Count(S, n) \in Nat
             /\ Count(S, Len(text))' = IF l \in S THEN Count(S, n) + 1 ELSE Count(S, n)
  <2> DEFINE C == {i \in 1..n : text[i] \in S}
             D == {i \in 1..Len(text') : text'[i] \in S}
  <2>1. /\ n \in Nat /\ Len(text') = n + 1 /\ text'[n + 1] = l
        /\ \A i \in 1..n : text'[i] = text[i]
    OBVIOUS
  <2>2. D = (IF l \in S THEN C \cup {n + 1} ELSE C) /\ n + 1 \notin C
    <3> HIDE DEF n
    <3>1. QED
      BY <2>1
  <2>3. IsFiniteSet(C) /\ Cardinality(C) \in Nat
    <3>1. IsFiniteSet(1..n) /\ C \subseteq 1..n
      BY <2>1, FS_Interval
    <3>2. QED
      BY <3>1, FS_Subset, FS_CardinalityType
  <2>4. Count(S, n) = Cardinality(C) /\ Count(S, Len(text))' = Cardinality(D)
    BY DEF Count
  <2> HIDE DEF C, D, n
  <2>5. Cardinality(C \cup {n + 1}) = Cardinality(C) + 1
    BY <2>2, <2>3, FS_AddElement
  <2>6. QED
    BY <2>2, <2>3, <2>4, <2>5
<1>2. Opener \cap {"rbrace", "rbracket"} = {}
  BY DEF Opener
<1>3. OpenAfter(Len(text))' = Count(Opener, Len(text))' - Count({"rbrace", "rbracket"}, Len(text))'
  BY DEF OpenAfter
<1>4. OpenAfter(n) = Count(Opener, n) - Count({"rbrace", "rbracket"}, n)
  BY DEF OpenAfter
<1>5. QED
  <2>1. /\ Count(Opener, n) \in Nat
        /\ Count(Opener, Len(text))' = IF l \in Opener THEN Count(Opener, n) + 1 ELSE Count(Opener, n)
    BY <1>1
  <2>2. /\ Count({"rbrace", "rbracket"}, n) \in Nat
        /\ Count({"rbrace", "rbracket"}, Len(text))' =
              IF l \in {"rbrace", "rbracket"} THEN Count({"rbrace", "rbracket"}, n) + 1
              ELSE Count({"rbrace", "rbracket"}, n)
    BY <1>1
  <2>3. QED
    BY <1>2, <1>3, <1>4, <2>1, <2>2

\* The scanner's stack follows what is open.
LEMMA ScanAccepts ==
    ASSUME StackAssumption, WalkAssumption, WalkInv, GrammarInv, NEW l \in Lexeme, Scan(l)
    PROVE  GrammarInv'
<1>1. /\ phase = "scan" /\ phase' = "scan" /\ UNCHANGED stack
      /\ text' = Append(text, l) /\ text \in Seq(Lexeme) /\ open \in Seq(Opener)
  BY DEF Scan, stack, WalkInv, TextInv
<1>2. Frames' = <<"Top">>
  BY <1>1, StackKept DEF WalkInv, GrammarInv
<1>3. /\ l \in Opener => Len(open') = Len(open) + 1
      /\ l \in {"rbrace", "rbracket"} => Len(open') = Len(open) - 1
      /\ l \notin Opener \cup {"rbrace", "rbracket"} => Len(open') = Len(open)
  <2>1. CASE l \in Opener
    BY <1>1, <2>1 DEF Scan, Opener
  <2>2. CASE l \in {"rbrace", "rbracket"}
    <3>1. open # <<>> /\ open' = SubSeq(open, 1, Len(open) - 1)
      BY <2>2 DEF Scan, Opener, Front
    <3>2. Len(open') = Len(open) - 1
      <4>1. Len(open) \in Nat /\ Len(open) >= 1
        BY <1>1, <3>1
      <4>2. Len(SubSeq(open, 1, Len(open) - 1)) = Len(open) - 1
        <5>1. open \in Seq(Opener)
          BY <1>1
        <5> DEFINE m == Len(open) - 1
        <5>2. m \in Nat /\ m <= Len(open)
          BY <4>1
        <5> HIDE DEF m
        <5>3. Len(SubSeq(open, 1, m)) = m
          BY <5>1, <5>2
        <5>4. QED
          BY <5>3 DEF m
      <4>3. QED
        BY <3>1, <4>2
    <3>3. QED
      BY <2>2, <3>2 DEF Opener
  <2>3. CASE l \notin Opener \cup {"rbrace", "rbracket"}
    BY <1>1, <2>3 DEF Scan
  <2>4. QED
    BY <2>1, <2>2, <2>3
<1>4. Len(open') = OpenAfter(Len(text))'
  BY <1>1, <1>3, OpenAppend DEF GrammarInv
<1>5. QED
  BY <1>1, <1>2, <1>4 DEF GrammarInv, AcceptsExactlyJson

\* What a step that leaves the text alone leaves alone with it.
LEMMA TextKept ==
    ASSUME GrammarInv, text' = text, open' = open
    PROVE  /\ Len(open)' = OpenAfter(Len(text))'
           /\ DepthExceeded' <=> DepthExceeded
           /\ IsJson(text)' <=> IsJson(text)
BY AcceptsThen DEF GrammarInv, DepthExceeded, OpenAfter, Count

\* The walk begins with the document before it.
LEMMA BeginAccepts ==
    ASSUME StackAssumption, WalkAssumption, WalkInv, GrammarInv, Begin
    PROVE  GrammarInv'
<1>1. /\ phase = "scan" /\ phase' = "walk" /\ UNCHANGED stack
      /\ text' = text /\ open' = open /\ pos' = pos /\ text # <<>> /\ text \in Seq(Lexeme)
  BY DEF Begin, stack, WalkInv, TextInv
<1>2. Frames' = <<"Top">> /\ pos' = 1
  BY <1>1, StackKept DEF WalkInv, GrammarInv, DepthInv
<1>3. Accepts(<<"Top">>, 1) <=> Value(1, Len(text) + 1)
  BY <1>1, EndsAccept
<1>4. Value(1, Len(text) + 1) <=> IsJson(text)
  <2>1. (Len(text) + 1) - 1 = Len(text)
    BY <1>1
  <2>2. QED
    BY <1>1, <2>1 DEF Value, IsJson
<1>5. IsJson(text)' <=> Accepts(Frames, pos)'
  BY <1>1, <1>2, <1>3, <1>4, AcceptsThen
<1>6. QED
  BY <1>1, <1>5, TextKept DEF GrammarInv, AcceptsExactlyJson

\* The walk's early returns, but for depth, are for texts that are not JSON.
LEMMA FailsAccepts ==
    ASSUME StackAssumption, WalkAssumption, WalkInv, WalkInv', GrammarInv, WalkFails
    PROVE  GrammarInv'
<1>1. /\ phase = "walk" /\ phase' = "done" /\ result' = Failure /\ Failure # "none"
      /\ text' = text /\ open' = open /\ text \in Seq(Lexeme) /\ pos \in 1..Len(text)
  BY DEF WalkFails, Fail, WalkInv, TextInv
<1>2. Failure # "ok"
  BY DEF Failure
<1>3. CASE Failure = "too_deep"
  <2>1. LazyResult' = "too_deep"
    BY <1>1, <1>3 DEF WalkInv, DepthInv, EagerWithinLazy
  <2>2. DepthExceeded'
    BY <2>1 DEF LazyResult
  <2>3. QED
    BY <1>1, <1>2, <2>2, TextKept DEF GrammarInv, AcceptsExactlyJson
<1>4. CASE Failure # "too_deep"
  <2>1. /\ Frames \in Seq(Ctx) /\ Len(Frames) \in Nat \ {0} /\ Frames[Len(Frames)] = StackLast
        /\ StackLast \in ObjCtx \cup ArrCtx \cup TopCtx
        /\ StackLen = 1 => StackLast = stack_buf[1]
    BY FramesFacts DEF WalkInv, WalkAssumption
  <2>2. ~EmptyAfterPop \/ StackLast \in TopCtx
    BY <2>1 DEF EmptyAfterPop, StackLen, StackAssumption, WalkInv, StackInv
  <2>3. \A j \in Place : ~Completes(StackLast, pos, j)
    BY <1>1, <1>4, <2>1, <2>2, FailRule
  <2>4. ~Accepts(Frames, pos)
    BY <2>1, <2>3, FailAccepts
  <2>5. QED
    BY <1>1, <1>2, <2>4, TextKept DEF GrammarInv, AcceptsExactlyJson
<1>5. QED
  BY <1>3, <1>4

\* The final check: only the document's frame is left, and it has its value.
LEMMA FinishAccepts ==
    ASSUME StackAssumption, WalkAssumption, WalkInv, GrammarInv, Finish
    PROVE  GrammarInv'
<1>1. /\ phase = "walk" /\ phase' = "done" /\ text' = text /\ open' = open
      /\ text \in Seq(Lexeme) /\ open \in Seq(Opener) /\ pos = Len(text) + 1
      /\ result' = IF StackLen = 1 /\ stack_buf[1] = "TopDone" /\ open = <<>> THEN "ok" ELSE "parse_error"
  BY DEF Finish, Fail, WalkInv, TextInv
<1>2. /\ Frames \in Seq(Ctx) /\ Len(Frames) = StackLen /\ StackLen >= 1 /\ Frames[1] = stack_buf[1]
  BY FramesFacts DEF WalkInv
<1>3. \A k \in 2..Len(Frames) : Frames[k] \notin TopCtx
  <2>1. \A k : Fitting(k, pos) \cap TopCtx = {}
    BY DEF Fitting, ObjCtx, ArrCtx, TopCtx
  <2>2. QED
    BY <1>1, <2>1 DEF WalkInv, DepthInv
<1>4. pos - 1 = Len(text)
  BY <1>1
<1>5. StackLen = 1 <=> open = <<>>
  <2>1. StackLen = Len(open) + 1
    BY <1>1, <1>2, <1>4 DEF WalkInv, DepthInv, GrammarInv
  <2>2. QED
    BY <1>1, <2>1
<1>6. ~DepthExceeded
  <2>1. \A n \in 0..Len(text) : OpenAfter(n) <= MaxDepth /\ OpenAfter(n) \in Int
    BY <1>1, <1>4, OpenStep DEF WalkInv, DepthInv
  <2>2. QED
    BY <2>1 DEF DepthExceeded, WalkAssumption
<1>7. Accepts(Frames, pos) <=> Len(Frames) = 1 /\ Frames[1] = "TopDone"
  BY <1>1, <1>2, <1>3, EndsAccept
<1>8. result' = "ok" <=> IsJson(text)
  BY <1>1, <1>2, <1>5, <1>7 DEF GrammarInv
<1>9. QED
  BY <1>1, <1>6, <1>8, TextKept DEF GrammarInv, AcceptsExactlyJson


\* Every step keeps the text and the walk's frames in agreement: one case per
\* action, each by the grammar rule of its lexeme.
LEMMA GrammarStep ==
    ASSUME StackAssumption, WalkAssumption, WalkInv, WalkInv', GrammarInv, [Next]_vars
    PROVE  GrammarInv'
<1> USE StackAssumption, WalkAssumption
<1>0. ASSUME pos <= Len(text), phase = "walk", Advance
      PROVE  Took(text[pos]) /\ text \in Seq(Lexeme) /\ pos \in 1..Len(text)
  BY <1>0 DEF Advance, Took, WalkInv, TextInv
<1>1. ASSUME NEW l \in Lexeme, Scan(l) PROVE GrammarInv'
  BY <1>1, ScanAccepts
<1>2. CASE Begin
  BY <1>2, BeginAccepts
<1>3. CASE RejectTrailing
  <2>1. /\ phase' = "done" /\ result' = "trailing" /\ text' = text /\ open' = open
        /\ text \in Seq(Lexeme) /\ MayTrail
    BY <1>3 DEF RejectTrailing, WalkInv, TextInv
  <2>2. ~IsJson(text)
    BY <2>1, JsonEnds
  <2>3. QED
    BY <2>1, <2>2, TextKept DEF GrammarInv, AcceptsExactlyJson
<1>4. CASE WalkFails
  BY <1>4, FailsAccepts
<1>5. CASE Finish
  BY <1>5, FinishAccepts
<1>6. CASE Returned \/ UNCHANGED vars
  <2>1. UNCHANGED <<stack, text, open, phase, pos, result>>
    BY <1>6 DEF Returned, vars, stack
  <2>2. Frames' = Frames
    BY <2>1, StackKept DEF WalkInv
  <2>3. Accepts(Frames, pos)' <=> Accepts(Frames, pos)
    BY <2>1, <2>2, AcceptsThen
  <2>4. QED
    BY <2>1, <2>2, <2>3, TextKept DEF GrammarInv, AcceptsExactlyJson
<1>7. CASE WalkScalar
  <2>1. /\ Took("scalar") /\ StackLast \in ValueExpected /\ SetLast(ParentAfterValue(StackLast))
        /\ text \in Seq(Lexeme) /\ pos \in 1..Len(text) /\ text[pos] = "scalar"
    BY <1>7, <1>0 DEF WalkScalar, At
  <2>2. \A j \in Place : Completes(StackLast, pos, j) <=> Completes(ParentAfterValue(StackLast), pos + 1, j)
    BY <2>1, ScalarRule
  <2>3. QED
    BY <2>1, <2>2, AfterValueInCtx, ReplaceAccepts
<1>8. CASE WalkString
  <2>1. Took("string") /\ text \in Seq(Lexeme) /\ pos \in 1..Len(text) /\ text[pos] = "string"
    BY <1>8, <1>0 DEF WalkString, At
  <2>2. CASE StackLast \in KeyExpected /\ SetLast("ObjAfterKey")
    <3>1. "ObjAfterKey" \in Ctx /\ StackLast \notin TopCtx
      BY <2>2 DEF WalkAssumption, ObjCtx, KeyExpected, TopCtx
    <3>2. \A j \in Place : Completes(StackLast, pos, j) <=> Completes("ObjAfterKey", pos + 1, j)
      BY <2>1, <2>2, KeyRule
    <3>3. QED
      BY <2>1, <2>2, <3>1, <3>2, ReplaceAccepts
  <2>3. CASE StackLast \in ValueExpected /\ SetLast(ParentAfterValue(StackLast))
    <3>1. \A j \in Place :
             Completes(StackLast, pos, j) <=> Completes(ParentAfterValue(StackLast), pos + 1, j)
      BY <2>1, <2>3, ScalarRule
    <3>2. QED
      BY <2>1, <2>3, <3>1, AfterValueInCtx, ReplaceAccepts
  <2>4. QED
    BY <1>8, <2>2, <2>3 DEF WalkString
<1>9. CASE WalkComma
  <2>1. /\ Took("comma") /\ StackLast \in {"ArrAfterValue", "ObjAfterValue"} /\ SetLast(AfterComma(StackLast))
        /\ text \in Seq(Lexeme) /\ pos \in 1..Len(text) /\ text[pos] = "comma"
    BY <1>9, <1>0 DEF WalkComma, At
  <2>2. AfterComma(StackLast) \in Ctx /\ StackLast \notin TopCtx
    BY <2>1 DEF AfterComma, WalkAssumption, ObjCtx, ArrCtx, TopCtx
  <2>3. \A j \in Place : Completes(StackLast, pos, j) <=> Completes(AfterComma(StackLast), pos + 1, j)
    BY <2>1, CommaRule
  <2>4. QED
    BY <2>1, <2>2, <2>3, ReplaceAccepts
<1>10. CASE WalkColon
  <2>1. /\ Took("colon") /\ StackLast = "ObjAfterKey" /\ SetLast("ObjAfterColon")
        /\ text[pos] = "colon"
    BY <1>10, <1>0 DEF WalkColon, At
  <2>2. "ObjAfterColon" \in Ctx /\ StackLast \notin TopCtx
    BY <2>1 DEF WalkAssumption, ObjCtx, TopCtx
  <2>3. \A j \in Place : Completes(StackLast, pos, j) <=> Completes("ObjAfterColon", pos + 1, j)
    BY <2>1, CompletesCases
  <2>4. QED
    BY <2>1, <2>2, <2>3, ReplaceAccepts
<1>11. ASSUME NEW l \in Opener, NEW inner, WalkOpen(l, inner),
              inner = IF l = "lbrace" THEN "ObjAfterOpen" ELSE "ArrAfterOpen"
       PROVE  GrammarInv'
  <2> DEFINE j == ParentAfterValue(StackLast)
  <2>1. /\ Took(l) /\ StackLast \in ValueExpected /\ SetAndPush(j, inner)
        /\ text \in Seq(Lexeme) /\ pos \in 1..Len(text) /\ text[pos] = l
    BY <1>11, <1>0 DEF WalkOpen, At
  <2>2. StackLen = 1 => StackLast \in TopCtx
    BY FramesFacts DEF WalkInv, StackInv
  <2>3. j \in Ctx /\ (StackLen = 1 => j = "TopDone") /\ inner \in Ctx
    BY <2>1, <2>2, <1>11, AfterValueInCtx DEF WalkAssumption, ObjCtx, ArrCtx
  <2>4. \A x \in Place : Completes(StackLast, pos, x) <=>
                            \E m \in Place : Completes(inner, pos + 1, m) /\ Completes(j, m, x)
    BY <2>1, <1>11, OpenRule
  <2> HIDE DEF j
  <2>5. QED
    BY <2>1, <2>3, <2>4, DescendAccepts
<1>12. ASSUME NEW l \in {"rbrace", "rbracket"}, WalkClose(l)
       PROVE  GrammarInv'
  <2>1. /\ Took(l) /\ Pop /\ StackLast \in Closable(l) /\ StackLast \notin TopCtx
        /\ text \in Seq(Lexeme) /\ pos \in 1..Len(text) /\ text[pos] = l
    BY <1>12, <1>0 DEF WalkClose, At, Closable, TopCtx
  <2>2. \A x \in Place : Completes(StackLast, pos, x) <=> x = pos + 1
    BY <2>1, CloseRule
  <2>3. QED
    BY <2>1, <2>2, AscendAccepts
<1>13. WalkOpen("lbrace", "ObjAfterOpen") \/ WalkOpen("lbracket", "ArrAfterOpen") => GrammarInv'
  BY <1>11 DEF Opener
<1>14. QED
  BY <1>1, <1>2, <1>3, <1>4, <1>5, <1>6, <1>7, <1>8, <1>9, <1>10, <1>12, <1>13 DEF Next

-----------------------------------------------------------------------------
(* The theorem.                                                             *)

LEMMA GrammarInitHolds ==
    ASSUME StackAssumption, WalkAssumption, Init
    PROVE  GrammarInv
<1>1. text = <<>> /\ open = <<>> /\ phase = "scan"
  BY DEF Init
<1>2. OpenAfter(0) = 0
  BY OpenStep
<1>3. QED
  BY <1>1, <1>2, StackInitHolds DEF GrammarInv, AcceptsExactlyJson

\* A parse in eager mode (parse_with_options_detailed with validate_eager_values)
\* succeeds on the texts the JSON grammar derives and on no others, but for those
\* nested deeper than max_depth: for every text, limit and stack capacity.
THEOREM EagerAcceptsJson == Spec => []AcceptsExactlyJson
<1>1. Init => GrammarInv
  BY StackAssumption, WalkAssumption, GrammarInitHolds
<1>2. WalkInv /\ WalkInv' /\ GrammarInv /\ [Next]_vars => GrammarInv'
  BY StackAssumption, WalkAssumption, GrammarStep
<1>3. GrammarInv => AcceptsExactlyJson
  BY DEF GrammarInv
<1>4. QED
  BY <1>1, <1>2, <1>3, WalkHolds, PTL DEF Spec

=============================================================================
