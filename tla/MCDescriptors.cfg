SPECIFICATION DescriptorSpec
CONSTANTS
    MHTFile = {a, b}
    OwnFile = {x, y}
    TmpFile = tmp
    Closed = closed
    MaxFd = 6
INVARIANTS TableAccounted
