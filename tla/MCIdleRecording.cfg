SPECIFICATION Spec
CONSTANTS
    c1 = c1
    c2 = c2
    c3 = c3
    Consumers <- MCConsumers
    Mixes <- MCMixed
    MaxFirings = 2
INVARIANT NoTimerUnderUse
