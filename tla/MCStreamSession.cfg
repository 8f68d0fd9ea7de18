SPECIFICATION FairSpec
CONSTANTS
    s1 = s1
    s2 = s2
    a = a
    b = b
    r = r
    Streams = {s1}
    home = a
    RuleTargets = {b}
    PoolAddrs = {b, r}
    None = None
    maxConsecutiveBadPkts = 2
INVARIANTS
    TypeOK
    ClaimsMatchSources
    CandidateIsWatched
    OverridePlays
PROPERTY RuleTakesEffect
