----------------------------- MODULE SpillStack -----------------------------
(***************************************************************************)
(* The stack of validate_eager_values (src/validate/mod.rs): an array of   *)
(* STACK_CAP frames that spills into a heap vector.  The first push onto a *)
(* full array copies every frame to the vector; from then on sp is larger  *)
(* than STACK_CAP, only says "look in the vector", and no pop lowers it.   *)
(***************************************************************************)
EXTENDS Naturals, Sequences, SequencesExt

CONSTANTS
    Ctx,        \* enum CtxKind
    Cap,        \* STACK_CAP
    None        \* fallback before the first spill

ASSUME StackAssumption ==
    /\ Cap \in Nat \ {0}
    /\ None \notin Seq(Ctx)

VARIABLES
    stack_buf,  \* stack_buf[i]: frame i of the array
    sp,         \* frames in the array, or a number above Cap
    fallback    \* the vector, or None

stack == <<stack_buf, sp, fallback>>

InArray == sp <= Cap

\* The frames the walk sees.
Frames == IF InArray THEN [i \in 1..sp |-> stack_buf[i]] ELSE fallback

\* last_mut! and stack_len!
StackLast == IF InArray THEN stack_buf[sp] ELSE fallback[Len(fallback)]
StackLen == IF InArray THEN sp ELSE Len(fallback)

\* *last_mut!() = k
SetLast(k) ==
    IF InArray
    THEN stack_buf' = [stack_buf EXCEPT ![sp] = k] /\ UNCHANGED <<sp, fallback>>
    ELSE fallback' = [fallback EXCEPT ![Len(fallback)] = k] /\ UNCHANGED <<stack_buf, sp>>

\* A slip the runs rule out: the vector starts empty.
SpilledEmpty(buf) == IF fallback = None THEN <<>> ELSE fallback

\* What get_or_insert_with leaves in the vector on a push at a full array.
Spilled(buf) == IF fallback = None THEN buf ELSE fallback

\* *last_mut!() = j; push!(k)
SetAndPush(j, k) ==
    \/ /\ sp < Cap
       /\ stack_buf' = [stack_buf EXCEPT ![sp] = j, ![sp + 1] = k]
       /\ sp' = sp + 1
       /\ UNCHANGED fallback
    \/ /\ sp = Cap
       /\ stack_buf' = [stack_buf EXCEPT ![sp] = j]
       /\ fallback' = Append(Spilled([stack_buf EXCEPT ![sp] = j]), k)
       /\ sp' = Cap + Len(fallback')
    \/ /\ sp > Cap
       /\ fallback' = Append([fallback EXCEPT ![Len(fallback)] = j], k)
       /\ sp' = Cap + Len(fallback')
       /\ UNCHANGED stack_buf

\* stack_is_empty!() after a pop!(): a vector popped to nothing hands the walk
\* back to the array.
EmptyAfterPop == IF InArray THEN sp = 1 ELSE Len(fallback) = 1 /\ Cap = 0

\* A slip the runs rule out: any pop of the vector hands the walk back.
PopEarly ==
    IF InArray
    THEN sp' = sp - 1 /\ UNCHANGED <<stack_buf, fallback>>
    ELSE sp' = Cap /\ fallback' = Front(fallback) /\ UNCHANGED stack_buf

\* pop!()
Pop ==
    IF InArray
    THEN sp' = sp - 1 /\ UNCHANGED <<stack_buf, fallback>>
    ELSE /\ fallback' = Front(fallback)
         /\ sp' = IF Len(fallback) = 1 THEN Cap ELSE sp
         /\ UNCHANGED stack_buf

StackInit(first) ==
    /\ stack_buf = [i \in 1..Cap |-> first]
    /\ sp = 1
    /\ fallback = None

=============================================================================
