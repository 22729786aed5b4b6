SPECIFICATION FairSpec
CONSTANTS
    Searches <- AllSearches
    QueenCounts <- Boards
    Orders = {TRUE, FALSE}
INVARIANTS
    TypeOK
    PathIsConsistent
    NothingSkipped
    GivesUpRightly
PROPERTIES
    SearchEnds
