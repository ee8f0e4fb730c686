------------------------------ MODULE CtxStack ------------------------------
(***************************************************************************)
(* The stack of contexts the eager validator promises itself: one frame    *)
(* for the document and one for each container that is open, of any depth. *)
(***************************************************************************)
EXTENDS Naturals, Sequences

CONSTANTS
    Ctx,        \* the contexts (enum CtxKind)
    First       \* the context the walk begins in

VARIABLE frames

Init == frames = <<First>>

\* The top frame moves to another context.
Replace(k) == frames' = [frames EXCEPT ![Len(frames)] = k]

\* A container opens: the frame below it moves on, a frame is pushed.
Descend(j, k) == frames' = Append([frames EXCEPT ![Len(frames)] = j], k)

\* A container closes.  The document's own frame is never popped.
Ascend == Len(frames) > 1 /\ frames' = SubSeq(frames, 1, Len(frames) - 1)

Next ==
    \/ \E k \in Ctx : Replace(k)
    \/ \E j, k \in Ctx : Descend(j, k)
    \/ Ascend

Spec == Init /\ [][Next]_frames

=============================================================================
