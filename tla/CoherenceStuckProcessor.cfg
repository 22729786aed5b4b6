SPECIFICATION FairSpec
CONSTANTS
    N = 2
    Addr = {a1}
    TraceLen = 1
    HitTime = 1
    Protocols <- AllProtocols
    Uninitialised <- OneField
    NULL = NULL
    WILD = WILD
PROPERTIES
    Finishes
