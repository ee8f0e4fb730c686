SPECIFICATION Spec
CONSTANTS
    a = a
    b = b
    s = s
    v1 = v1
    v2 = v2
    v3 = v3
    v4 = v4
    v5 = v5
    top = top
    kid = kid
    dup = dup
    arr = arr
    elt = elt
    Nil = Nil
    Key = {a, b}
    Scalar = {s}
    Node = {top, kid, dup, arr, elt}
    Root = top
    Kind <- DupKind
    FieldKey <- DupKeys
    Item <- DupItem
    View = {v1, v2, v3, v4}
    RootView = v1
    MaxLen = 3
    MaxWrites = 2
    Depth = 4
INVARIANTS MaterializeLastWins
CHECK_DEADLOCK FALSE
