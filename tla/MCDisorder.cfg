SPECIFICATION DisorderSpec
CONSTANTS
    Data = {"a", "b", "d"}
    MaxPos = 15
    NoPage = 99
    InitLeaves <- MCTwo
    Pages = {1, 3, 4, 5, 7}
    NewHash <- MCNewHash
    Absent = Absent
    MaxCut = 0
    MaxHash = 15
    MaxBroken = 1
    PagesAfter = {1, 4, 7}
INVARIANTS ShiftInv SortedAsRebuilt VerifyTells
PROPERTIES Returns
