SPECIFICATION FairSpec
CONSTANTS
    CpuCount = 2
    Program <- ThreeProcesses
    FirstTime <- ThreeTimes
    Modes = {"f", "l", "r"}
    Timeslice = 1
    CreatPeriod = 1
    Spurious <- OnceUnderFifo
    Garbage <- AnyPointerUnderLrtf
    NULL = NULL
    WILD = WILD
INVARIANTS
    TypeOK
    ExactlyOnePlace
    NoProcessVanishes
    HandlersKnowTheProcess
    GanttIsTrue
    EndsAfterAll
    WorkConserving
    TailPointsToTheLast
    LongestFirst
PROPERTIES
    LifeCycle
    EventuallyDone
