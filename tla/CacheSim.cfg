SPECIFICATION Spec
CONSTANTS
    ways_count = 3
    cache_count = 3
    Block <- Blocks
    TagRange = 4
    MaxAccesses = 7
INVARIANTS
    TypeOK
    StackIsPermutation
    EachLineOnce
    NoneTooMany
PROPERTIES
    ImplementsLru
