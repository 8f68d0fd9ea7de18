SPECIFICATION Spec
CONSTANTS
    s1 = s1
    s2 = s2
    Streams <- MCStreams
    SecondTicks = 2
    MinuteTicks = 2
    DayTicks = 6
    FirstWeekday = 6
    DaySets <- MCDaySets
    Instants <- MCInstants
    MaxSessions = 3
    MaxEdits = 1
    Rule <- MCRule
    DailyMax = 1
    WeekdayMax <- MCWeekdayMax
    WeeklyMax = 3
    ContinuousMax = 2
    RestDuration = 1
SYMMETRY Symmetry
INVARIANTS VerdictIsRight ChainIsContinuous WindowIsRight
CHECK_DEADLOCK FALSE
