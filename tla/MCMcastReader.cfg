SPECIFICATION FairSpec
CONSTANTS
    u1 = u1
    u2 = u2
    u3 = u3
    Users <- MCUsers
    Capacity = 2
    MaxPackets = 4
    NoEnd = NoEnd
INVARIANT TypeOK
PROPERTIES ImplementsFeed NobodyIsLeftBehind
CHECK_DEADLOCK FALSE
