----------------------------- MODULE EagerGrammar -----------------------------
(***************************************************************************)
(* The JSON grammar (RFC 8259) over lexemes, as the reference for what the *)
(* eager walk accepts.  D[n] are the places of the text t from which n     *)
(* lexemes are the elements of an array, or the members of an object.      *)
(***************************************************************************)
EXTENDS EagerWalk

\* The n lexemes from i on are in these brackets.
Enclosed(t, i, n, opener, closer) == n >= 2 /\ t[i] = opener /\ t[i + n - 1] = closer

IsValue(t, D, i, n) ==
    \/ n = 1 /\ t[i] \in {"string", "scalar"}
    \/ Enclosed(t, i, n, "lbracket", "rbracket") /\ (n = 2 \/ i + 1 \in D[n - 2].elements)
    \/ Enclosed(t, i, n, "lbrace", "rbrace") /\ (n = 2 \/ i + 1 \in D[n - 2].members)

AreElements(t, D, i, n) ==
    \/ IsValue(t, D, i, n)
    \/ \E k \in 1..n - 2 :
          IsValue(t, D, i, k) /\ t[i + k] = "comma" /\ i + k + 1 \in D[n - k - 1].elements

AreMembers(t, D, i, n) ==
    /\ n >= 3 /\ t[i] = "string" /\ t[i + 1] = "colon"
    /\ \/ IsValue(t, D, i + 2, n - 2)
       \/ \E k \in 1..n - 4 :
             IsValue(t, D, i + 2, k) /\ t[i + k + 2] = "comma" /\ i + k + 3 \in D[n - k - 3].members

Derived(t) ==
    LET D[n \in 0..Len(t)] ==
            LET from == 1..Len(t) + 1 - n
            IN  [elements |-> {i \in from : AreElements(t, D, i, n)},
                 members |-> {i \in from : AreMembers(t, D, i, n)}]
    IN  D

IsJson(t) == t # <<>> /\ IsValue(t, Derived(t), 1, Len(t))

\* Eager mode accepts exactly the JSON texts nested no deeper than max_depth.
AcceptsExactlyJson ==
    phase = "done" => (result = "ok" <=> IsJson(text) /\ ~DepthExceeded)

=============================================================================
