CONSTANTS
    LibNames <- MCLibNames
    Existing <- MCExisting
    MaxHandles = 3
    Work = "WORK"

SPECIFICATION Spec

INVARIANT WorkLibReopens
