\* One user pauses and mutes one watch from two requests in flight.
SPECIFICATION Spec
CONSTANTS
    Null = Null
    Strings <- MCStrings
    RawCodes <- MCRawCodes
    Upper <- MCUpper
    RawLists <- MCRawLists
    RawWords <- MCRawWords
    Trim <- MCTrim
    Airports = {"BEG", "BCN"}
    Carriers = {"JU"}
    MaxOriginAlternatives = 5
    MaxDestinations = 10
    MaxAirlineFilters = 20
    Users = {ann}
    Ids = {i1}
    MalformedId = MalformedId
    Requests = {r1, r2}
    CreateBodies <- MCCreateBodies
    PatchBodies <- MCPauseAndMute
    BadJSON = BadJSON
    MaxDay = 2
PROPERTIES
    AbsentKeysUntouched
CHECK_DEADLOCK FALSE
