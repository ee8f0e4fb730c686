SPECIFICATION Spec
CONSTANTS
    Ctx <- AllCtx
    Cap = 2
    None = None
    MaxDepth = 2
    MaxText = 6
INVARIANTS TypeOK BottomInStep MirrorsScanner EagerWithinLazy AcceptsExactlyJson
PROPERTIES StackSpec
