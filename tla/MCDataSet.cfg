SPECIFICATION DataSetSpec
CONSTANTS
    Files = {"x", "y"}
    Rows <- MCRows
    MaxBlocks = 3
    WordMod = 256
    Version <- MCVersion
INVARIANTS FilesWhole BlocksKept SortOrders
CHECK_DEADLOCK FALSE
