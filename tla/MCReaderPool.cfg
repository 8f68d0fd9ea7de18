SPECIFICATION FairSpec
CONSTANTS
    c1 = c1
    c2 = c2
    c3 = c3
    a1 = a1
    a2 = a2
    e1 = e1
    e2 = e2
    e3 = e3
    Claims <- MCClaims
    Addrs <- MCAddrs
    Entries <- MCEntries
    Nobody = Nobody
    NoEntry = NoEntry
INVARIANTS
    TypeOK
    RefsExact
    OneSocketPerAddr
    HeldReaderIsLive
    NoLeakedSocket
PROPERTIES
    ImplementsShared
    Served
