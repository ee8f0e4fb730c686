SPECIFICATION Spec
CONSTANTS
    k = "k"
    esc = "esc"
    num = "1"
    None = None
    Blank = ""
    Bytes <- AllBytes
    Decoded <- Unescaped
    Indices = {0, 1}
    MaxLoose = 5
    Texts <- EscapedTexts
    Paths <- SmallPaths
INVARIANTS IteratedKeysResolve
