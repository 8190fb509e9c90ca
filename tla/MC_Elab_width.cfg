CONSTANTS
    Designs <- MismatchDesigns
    AssertsEnabled = TRUE
    NoSub = NoSub
    FuncReplaceMax = 3
    MaxFuncBodies = 4

SPECIFICATION Spec

INVARIANT WidthMismatchReported

CHECK_DEADLOCK FALSE
