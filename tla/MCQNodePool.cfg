SPECIFICATION Spec
CONSTANTS
    Node = {n1, n2, n3}
    Thread = {t1, t2}
    Null = Null
    Prealloc = 2
INVARIANTS OneOwner FreeListEnds
PROPERTIES NodesHandedOutOnce
