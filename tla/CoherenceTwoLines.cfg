SPECIFICATION FairSpec
CONSTANTS
    N = 2
    Addr = {a1, a2}
    TraceLen = 3
    HitTime = 2
    Protocols <- AllProtocols
    Uninitialised <- BothFields
    NULL = NULL
    WILD = WILD
INVARIANTS
    TypeOK
    RequestTracked
    DoneIsQuiescent
    IInv
PROPERTIES
    EveryRequestAnswered
    FinishesIfCleared
