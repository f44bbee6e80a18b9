\* Two users, two requests in flight, two ids, two days.
SPECIFICATION Spec
CONSTANTS
    Null = Null
    Strings <- MCStrings
    RawCodes <- MCRawCodes
    Upper <- MCUpper
    RawLists <- MCRawLists
    RawWords <- MCRawWords
    Trim <- MCTrim
    Airports = {"BEG", "BCN"}
    Carriers = {"JU"}
    MaxOriginAlternatives = 5
    MaxDestinations = 10
    MaxAirlineFilters = 20
    Users = {ann, bob}
    Ids = {i1, i2}
    MalformedId = MalformedId
    Requests = {r1, r2}
    CreateBodies <- MCCreateBodies
    PatchBodies <- MCPatchBodies
    BadJSON = BadJSON
    MaxDay = 2
SYMMETRY Symmetry
INVARIANTS
    TypeOK
    StoredRowsValid
    ForeignLooksMissing
    GoneIsFinal
PROPERTIES
    LifecyclePatchNeverInvalid
    OnlyOwnerWrites
    NamedKeysLand
    ImplementsStore
CHECK_DEADLOCK FALSE
