SPECIFICATION Spec
CONSTANTS
    Traces <- AllPrograms
    fetch_count = 2
    K0 = 1
    K1 = 1
    K2 = 2
    R = 1
    ghr_length = 1
    Reg <- Reg1
    Sets = 2
    BlockSize = 2
    qsort <- GlibcSort
INVARIANTS
    TypeOK
    UnitsConserved
    StagesInOrder
    ExecutesWithValues
    AllRetire
    RetiresInTime
PROPERTIES
    ImplementsDataflow
    OldestFirst
