CONSTANTS
    Designs <- PartialDesigns
    AssertsEnabled = TRUE
    NoSub = NoSub
    FuncReplaceMax = 3
    MaxFuncBodies = 4

SPECIFICATION Spec

INVARIANT NetsMatchWidth

CHECK_DEADLOCK FALSE
