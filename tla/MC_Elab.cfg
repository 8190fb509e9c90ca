CONSTANTS
    Designs <- PassDesigns
    AssertsEnabled = TRUE
    NoSub = NoSub
    FuncReplaceMax = 3
    MaxFuncBodies = 4

SPECIFICATION Spec

INVARIANT TypeOK
INVARIANT NetsMatchWidth
INVARIANT FreshNetsPartition
INVARIANT PortNetsAreActualNets
INVARIANT ElabFuncsBindsEveryCall
PROPERTY ElabTerminates

\* elaboration returns: the process then exits
CHECK_DEADLOCK FALSE
