SPECIFICATION Spec
CONSTANTS
    s1 = s1
    s2 = s2
    Sources = {s1, s2}
    NoSource = NoSource
    SeqSpace = 12
    reorderLimit = 3
    Firsts = {0, 9}
    Span = 3
    MaxSent = 5
    MaxLost = 1
INVARIANTS
    TypeOK
    BufferInWindow
    NothingHeldBack
PROPERTY InOrder
