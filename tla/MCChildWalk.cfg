SPECIFICATION LiveSpec
CONSTANTS
    k = "k"
    esc = "esc"
    num = "1"
    None = None
    Blank = ""
    Bytes <- AllBytes
    Decoded <- Unescaped
    Indices = {0, 1}
    MaxLoose = 5
    Texts <- AllTexts
    Paths <- SmallPaths
INVARIANTS PathsLeadToChildren CountsAreChildren IteratorInOrder CacheHoldsWalks
PROPERTIES LookupsTakeFirst WalksAdvance CallsReturn
