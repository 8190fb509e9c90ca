CONSTANTS
    Names <- MCNames
    Kinds <- MCKinds
    Second = 2
    MaxTime = 2
    MaxVer = 3
    MaxLines = 2
    Top = "E"
    TopElab = "E.elab"
    AnalyseOpts <- MCAnalyseOpts
    ElaborateOpts <- MCElaborateOpts
    RunOpts <- MCRunOpts

SPECIFICATION Spec

INVARIANT TypeOK
INVARIANT IndexedUnitsOnDisk
INVARIANT SavedIsLatest
INVARIANT OptionsReadAsGiven
INVARIANT SlaveToldToQuit
PROPERTY ImplementsOptionTable
