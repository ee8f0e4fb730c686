---------------------------- MODULE MCLazyTable ----------------------------
(***************************************************************************)
(* Small documents for LazyTable.                                          *)
(***************************************************************************)
EXTENDS LazyTableJson

CONSTANTS a, b, s, v1, v2, v3, v4, v5, top, kid, dup, arr, elt

\* {"a": {"b": s}, "b": [{}, s], "a": {}}
DupKind == (top :> "object") @@ (kid :> "object") @@ (dup :> "object") @@ (arr :> "array") @@ (elt :> "object")
DupKeys == (top :> <<a, b, a>>) @@ (kid :> <<b>>) @@ (dup :> <<>>) @@ (arr :> <<>>) @@ (elt :> <<>>)
DupItem == (top :> <<kid, arr, dup>>) @@ (kid :> <<s>>) @@ (dup :> <<>>) @@ (arr :> <<elt, s>>) @@ (elt :> <<>>)

\* {"a": {"a": s}, "b": [{}, s]}
TreeKind == (top :> "object") @@ (kid :> "object") @@ (arr :> "array") @@ (elt :> "object")
TreeKeys == (top :> <<a, b>>) @@ (kid :> <<a>>) @@ (arr :> <<>>) @@ (elt :> <<>>)
TreeItem == (top :> <<kid, arr>>) @@ (kid :> <<s>>) @@ (arr :> <<elt, s>>) @@ (elt :> <<>>)
=============================================================================
