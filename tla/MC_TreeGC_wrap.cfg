CONSTANTS
    Nodes <- MCNodes
    Kids <- MCKids
    TopLevel <- MCTopLevel
    GenBits = 2
    MaxGen = 7
    MaxDepth = 5

SPECIFICATION Spec

INVARIANT VisitEntersOnce
