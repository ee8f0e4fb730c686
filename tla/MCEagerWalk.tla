---------------------------- MODULE MCEagerWalk ----------------------------
(***************************************************************************)
(* EagerWalk with a two-frame array, so that the second container spills.  *)
(***************************************************************************)
EXTENDS EagerGrammar

AllCtx == ObjCtx \cup ArrCtx \cup TopCtx
=============================================================================
