SPECIFICATION Spec
CONSTANTS
    Node = {n1, n2, n3, n4}
    Null = Null
    Careful = TRUE
INVARIANTS LinksAgree NodesAccounted
PROPERTIES ImplementsSequence
