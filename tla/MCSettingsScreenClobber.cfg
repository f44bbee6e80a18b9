\* A row that changes under the form while the user is typing.
SPECIFICATION Spec
CONSTANTS
    Null = Null
    Params <- MCParams
    FallsShort <- MCFallsShort
    Typed <- MCTypedCooldown
    BadNumber = BadNumber
    OtherBodies <- MCOtherBodies
    MaxSaves = 1
INVARIANTS
    UntouchedKeysUnsent
