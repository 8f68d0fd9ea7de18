SPECIFICATION SwitcherSpec
CONSTANTS
    A = A
    B = B
    C = C
    None = None
    Sources = {A, B, C}
    Program <- MCProgram
    First = A
    Clock = 1048576
    CcSpace = 16
    FrameStep = 3600
    MaxPCRGap = 18000
    MaxStep = 90000
    DefaultStep = 3600
    spsWindowTicks = 180000
    MaxDatagram = 2
    MaxPos = 7
CHECK_DEADLOCK FALSE
INVARIANT SwitcherTypeOK
PROPERTIES
    BatchIsWhole
    SmoothSwitch
    CountersContinue
