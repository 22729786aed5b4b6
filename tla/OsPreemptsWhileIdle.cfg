SPECIFICATION Spec
CONSTANTS
    CpuCount = 2
    Program <- TwoProcesses
    FirstTime <- TwoTimes
    Modes = {"l"}
    Timeslice = 1
    CreatPeriod = 2
    Spurious <- Never
    Garbage <- Nulls
    NULL = NULL
    WILD = WILD
PROPERTIES
    NoPreemptionWhileIdle
