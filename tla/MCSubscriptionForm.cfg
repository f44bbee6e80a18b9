\* Two watches, two visits, three airports, a device one day ahead or behind.
SPECIFICATION Spec
CONSTANTS
    Null = Null
    Strings <- MCStrings
    RawCodes <- MCRawCodes
    Upper <- MCUpper
    RawLists <- MCRawLists
    RawWords <- MCRawWords
    Trim <- MCTrim
    Airports = {"BEG", "BCN", "MAD"}
    Carriers = {"JU"}
    MaxOriginAlternatives = 2
    MaxDestinations = 2
    MaxAirlineFilters = 2
    Rows <- MCRows
    Elsewhere <- MCElsewhere
    Errands <- MCErrands
    Today = 10
    DaySkew = 1
    MaxVisits = 2
    PickerAlternatives = 2
    PickerExtras = 1
INVARIANTS
    TypeOK
    RefusalsMapped
    NothingInvalidGetsThrough
    ComplaintsAreServerRules
    EditsRoundTrip
    FiledOnce
PROPERTIES
    RefusalIsShown
    ClosesForAReason
CHECK_DEADLOCK FALSE
