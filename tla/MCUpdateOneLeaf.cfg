SPECIFICATION FairSpec
CONSTANTS
    Data = {"a", "b", "c", "d"}
    MaxPos = 8
    NoPage = 99
    InitDisks <- MCOneLeaf
    Pages = {1, 3}
    NewHash <- MCNewHash
INVARIANTS SearchFindsPage
