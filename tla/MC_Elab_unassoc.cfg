CONSTANTS
    Designs <- UnassocDesigns
    AssertsEnabled = TRUE
    NoSub = NoSub
    FuncReplaceMax = 3
    MaxFuncBodies = 4

SPECIFICATION Spec

INVARIANT LegalDesignNoAbort

CHECK_DEADLOCK FALSE
