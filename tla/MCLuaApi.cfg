SPECIFICATION LuaSpec
CONSTANTS
    W = 4
    JumpMin = 8
    None = None
    IMax = 9
    Sentinel = 99
    Docs <- LuaDocs
    Paths <- LuaPaths
    Spans = {}
    Tokens = {}
INVARIANT CursorKeepsValue
