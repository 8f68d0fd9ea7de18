SPECIFICATION FairSpec
CONSTANTS
    c1 = c1
    c2 = c2
    c3 = c3
    Consumers <- MCConsumers
    Mixes <- MCPure
    MaxFirings = 2
INVARIANTS TypeOK LinkIsWatched
PROPERTY IdleLinkGoesDown
