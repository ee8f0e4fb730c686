SPECIFICATION Spec
CONSTANTS
    Node <- SourceNode
    Kind <- SourceKind
    Children <- SourceChildren
    Keys <- SourceKeys
    Leaf <- SourceLeaf
    RawLen <- SourceLen
    Edited <- EditedKeys
    Given <- GivenLeaves
    Copies = 2
    MaxEdits = 2
    MaxDepth = 3
    None = None
INVARIANTS EncodeIsCurrent CopiedWhenUnchanged
CHECK_DEADLOCK FALSE
