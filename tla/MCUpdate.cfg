SPECIFICATION FairSpec
CONSTANTS
    Data = {"a", "b", "c", "d"}
    MaxPos = 8
    NoPage = 99
    InitDisks <- MCDisks
    Pages = {1, 3, 4, 5}
    NewHash <- MCNewHash
INVARIANTS MerkleUnlessTorn WalkEndsAtRoot DamageTraceable SearchFindsPage
PROPERTIES ShapeKept ChangeShows Returns
