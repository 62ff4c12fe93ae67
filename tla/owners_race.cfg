\* Two processes at once, and a connection.
CONSTANTS
    Process = {p1, p2}
    Owner = {"o1", "o2"}
    Key = {"k1", "k2"}
    Mention = {"nothing", "word", "last"}
    Texts <- MCTexts

SPECIFICATION AccessSpec

INVARIANTS
    TypeOK
    KeyHasOneOwner
    OwnerIsOfLine
    

PROPERTIES
    HandwrittenKept
