CONSTANTS
    NULL = NULL
    H = H
    T = T
    Node = {"n1", "n2", "n3"}
    Pri <- MCPri
SPECIFICATION Spec
INVARIANT ListWellFormed
PROPERTY ImplementsAbstractList
