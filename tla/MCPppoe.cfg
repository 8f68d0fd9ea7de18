SPECIFICATION Spec
CONSTANTS
    t1 = t1
    t2 = t2
    Callers = {t1, t2}
    Calls = {"start", "retry", "shutdown"}
    Modes = {TRUE, FALSE}
    MaxGen = 2
SYMMETRY CallersSymmetry
INVARIANTS
    TypeOK
    StartIsExclusive
    NoStrayPppd
    StopVoidsReconnects
    ShutdownIsFinal
\* After Shutdown, or with no launch left, the manager really stops.
CHECK_DEADLOCK FALSE
