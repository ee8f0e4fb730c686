SPECIFICATION Spec
CONSTANTS
    W = 4
    JumpMin = 8
    None = None
    IMax = 9
    Sentinel = 99
    Docs <- AllDocs
    Paths <- SmallPaths
    Spans <- AllSpans
    Tokens <- AllTokens
INVARIANTS BoundaryAgrees ScannersAgree StringsMeanThat NumbersAreExact GettersAnswer CursorAtPath ErrorOffsetNamesValue EagerReportsFirstFlaw HeldStringIntact ModesAgree
