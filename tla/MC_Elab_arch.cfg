CONSTANTS
    Designs <- ArchDesigns
    AssertsEnabled = TRUE
    NoSub = NoSub
    FuncReplaceMax = 3
    MaxFuncBodies = 4

SPECIFICATION Spec

INVARIANT PickArchNewest

CHECK_DEADLOCK FALSE
