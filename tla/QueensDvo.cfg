SPECIFICATION Spec
CONSTANTS
    Searches = {"dvo"}
    QueenCounts <- Boards
    Orders = {TRUE}
INVARIANTS
    SolvesIfSolvable
