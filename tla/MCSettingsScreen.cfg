\* One device with one save and one fetch in flight, others that save too.
SPECIFICATION Spec
CONSTANTS
    Null = Null
    Params <- MCParams
    FallsShort <- MCFallsShort
    Typed <- MCTyped
    BadNumber = BadNumber
    OtherBodies <- MCOtherBodies
    MaxSaves = 1
INVARIANTS
    TypeOK
    SavedShowsAsTyped
    SentWasTypedOrSeen
PROPERTIES
    EditsKept
