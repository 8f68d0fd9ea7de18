SPECIFICATION Spec
CONSTANTS
    t1 = t1
    t2 = t2
    Callers = {t1, t2}
    Calls = {"retry"}
    Modes = {FALSE}
    MaxGen = 2
INVARIANT OnePppd
CHECK_DEADLOCK FALSE
