---------------------------- MODULE OrderedTables ----------------------------
(***************************************************************************)
(* What lazy tables promise, in the words of the mutation tests an ordered *)
(* model: an object is a list of keys with their values, an array a list   *)
(* of values, and an assignment changes one entry of one table.  A value   *)
(* is a scalar, a table, or a container of the document that nobody has    *)
(* seen yet; it becomes a table of its own when somebody does.             *)
(*                                                                         *)
(* There is one action for each kind of call, with the call's arguments:   *)
(* SetField for t.k = x, SetIndex and Restore for t[i] = x, and Seen for   *)
(* every call that assigns nothing.  Which step of the code is which call  *)
(* is not for this module to say: TablesSpec of LazyTableJson does.        *)
(***************************************************************************)
EXTENDS Naturals, FiniteSets, SequencesExt

CONSTANTS
    Key, Scalar, Node, Root, View, RootView, Nil,
    MaxLen,     \* longest array
    Level       \* Level[n]: what is in container n of the document

\* table[v]: what is in v, as [kind, keys, items, from]; Nil: there is no such table.
\* An array has no keys; from is the container the table was read from.
VARIABLE table

Init == table = [v \in View |-> IF v = RootView THEN Level[Root] ELSE Nil]

\* An assignment to a key keeps its place; a new key is the last.
Put(c, k, x) ==
    LET at == {j \in DOMAIN c.keys : c.keys[j] = k}
        j == CHOOSE l \in at : TRUE
    IN  CASE at = {} -> IF x = Nil THEN c ELSE [c EXCEPT !.keys = Append(@, k), !.items = Append(@, x)]
          [] at # {} /\ x = Nil -> [c EXCEPT !.keys = RemoveAt(@, j), !.items = RemoveAt(@, j)]
          [] OTHER -> [c EXCEPT !.items[j] = x]

\* Element i, the one after the last, or, to remove it, the last.
PutAt(c, i, x) ==
    CASE x = Nil -> [c EXCEPT !.items = Front(@)]
      [] x # Nil /\ i > Len(c.items) -> [c EXCEPT !.items = Append(@, x)]
      [] OTHER -> [c EXCEPT !.items[i] = x]

\* From old to new tables have only come into being, each with what its container
\* says, some of them in the place of that container.
Seen(old, new) ==
    /\ \A v \in View : old[v] # Nil =>
        /\ new[v] # Nil /\ new[v] = [old[v] EXCEPT !.items = new[v].items]
        /\ Len(new[v].items) = Len(old[v].items)
        /\ \A j \in DOMAIN old[v].items :
              LET x == old[v].items[j]
                  y == new[v].items[j]
              IN  x # y => x \in Node /\ y \in View /\ old[y] = Nil /\ new[y] = Level[x]
    /\ \A v \in View : old[v] = Nil /\ new[v] # Nil =>
        /\ \E n \in Node : new[v] = Level[n]
        /\ \A u, w \in View : new[u] # Nil /\ new[w] # Nil =>
              \A j \in DOMAIN new[u].items, k \in DOMAIN new[w].items :
                 new[u].items[j] = v /\ new[w].items[k] = v => u = w /\ j = k

SetField(old, new, v, k, x) ==
    /\ old[v] # Nil /\ old[v].kind = "object"
    /\ Seen([old EXCEPT ![v] = Put(@, k, x)], new)

SetIndex(old, new, v, i, x) ==
    /\ old[v] # Nil /\ old[v].kind = "array"
    /\ i <= Len(old[v].items) + 1
    /\ x = Nil => i = Len(old[v].items)
    /\ Seen([old EXCEPT ![v] = PutAt(@, i, x)], new)

\* An element that has been read or overwritten, and is assigned nil while its array
\* is still lazy, is what the document has there.
Restore(old, new, v, i) ==
    /\ old[v] # Nil /\ old[v].kind = "array"
    /\ i \in DOMAIN old[v].items \cap DOMAIN Level[old[v].from].items
    /\ Seen([old EXCEPT ![v].items[i] = Level[old[v].from].items[i]], new)

=============================================================================
