\* A user who types a drop of 0 percent.
SPECIFICATION Spec
CONSTANTS
    Null = Null
    Params <- MCParams
    FallsShort <- MCFallsShort
    Typed <- MCTypedZero
    BadNumber = BadNumber
    OtherBodies <- MCOtherBodies
    MaxSaves = 1
INVARIANTS
    StoredInBounds
