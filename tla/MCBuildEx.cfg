SPECIFICATION FixedSpec
CONSTANTS
    Data = {"a", "b", "c", "d", "e", "f", "g", "i", "h", "n"}
    MaxPos = 15
    NoPage = 99
    Inputs <- MCInputs
    IndexHash <- MCIndexHash
    InitData <- MCInit
    LeafNums = {2, 3}
    PadHash <- MCPadHash
INVARIANTS BlocksJoinChildren QueueStaysShort PatchFindsOwn BuiltAsLaidOut
INVARIANTS PaddedOnce DirectoryComplete EveryPartBuilt
PROPERTIES FixedReturns
