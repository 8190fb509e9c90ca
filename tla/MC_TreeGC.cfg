CONSTANTS
    Nodes <- MCNodes
    Kids <- MCKids
    TopLevel <- MCTopLevel
    GenBits = 3
    MaxGen = 7
    MaxDepth = 5

SPECIFICATION Spec

INVARIANT VisitEntersOnce
INVARIANT ReadBackIsOriginal
PROPERTY ImplementsTreeStore
PROPERTY VisitTerminates
