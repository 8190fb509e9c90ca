CONSTANTS
    Names <- MCNames
    Kinds <- MCKinds
    Second = 2
    MaxTime = 2
    MaxVer = 3

SPECIFICATION Spec

PROPERTY GetReturnsLatest
