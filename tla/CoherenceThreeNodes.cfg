SPECIFICATION Spec
CONSTANTS
    N = 3
    Addr = {a1}
    TraceLen = 3
    HitTime = 2
    Protocols <- AllProtocols
    Uninitialised <- NoFields
    NULL = NULL
    WILD = WILD
INVARIANTS
    SingleWriter
    OneSupplier
    AbortsOnlyOnGarbage
PROPERTIES
    MemorySuppliesOnlyClean
    ImplementsSWMR
