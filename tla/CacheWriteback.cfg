SPECIFICATION Spec
CONSTANTS
    ways_count = 2
    cache_count = 2
    Block <- Blocks
    TagRange = 4
    MaxAccesses = 5
INVARIANTS
    EveryWritebackCounted
