SPECIFICATION AnySpec
CONSTANTS
    Data = {"a", "b", "d"}
    MaxPos = 15
    NoPage = 99
    InitLeaves <- MCLeaves
    ExLeaves <- MCExLeaves
    Pages = {1, 3, 5, 7, 9}
    NewHash <- MCNewHash
    Absent = Absent
    MaxCut = 2
    ExMaxCut = 1
    MaxHash = 15
INVARIANTS AckedFound OwnSameAsRebuilt HeaderInv StaleOnlyAboveGaps
PROPERTIES StoreSpec Returns
