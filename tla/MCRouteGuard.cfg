SPECIFICATION FairSpec
CONSTANTS
    p1 = p1
    p2 = p2
    i1 = i1
    i2 = i2
    Savers <- MCSavers
    Ticker = Ticker
    Ifaces <- MCIfaces
    Stored <- MCStored
    MaxUpdates = 2
    MaxFailures = 1
    MaxRestarts = 1
INVARIANT FewDuplicates
PROPERTY GuardConverges
