SPECIFICATION FairSpec
CONSTANTS
    Data = {"a", "b", "c", "d"}
    MaxPos = 8
    NoPage = 99
    InitDisks <- MCDisks
    Pages = {1, 3}
    NewHash <- MCZeroHash
PROPERTIES ChangeShows
