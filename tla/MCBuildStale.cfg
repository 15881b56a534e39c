SPECIFICATION FairSpec
CONSTANTS
    Data = {"a", "b", "c", "d", "e", "f", "g", "i", "h"}
    MaxPos = 15
    NoPage = 99
    Inputs <- MCInputs
INVARIANTS FirstPadNamed
