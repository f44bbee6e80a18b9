\* Lists of up to three codes under caps of two and three; PATCH bodies of four keys;
\* datasets of up to four airports out of five, queries of up to three letters.
SPECIFICATION RulesSpec
CONSTANTS
    Null = Null
    Strings <- MCStrings
    RawCodes <- MCRawCodes
    Upper <- MCUpper
    RawLists <- MCRawLists
    RawWords <- MCRawWords
    Trim <- MCTrim
    Airports = {"BEG", "BCN"}
    Carriers = {"BEG", "BCN"}
    MaxOriginAlternatives = 2
    MaxDestinations = 3
    MaxAirlineFilters = 2
    Samples <- MCSamples
    Defaults <- MCDefaults
    Chars <- MCChars
    Space = 32
    Hyphen = 45
    Slash = 47
    Capitals <- MCCapitals
    SearchLimit = 3
    BrowseLimit = 1
    FoldChar <- MCFold
    UpperChar <- MCUpperChar
    Datasets <- MCDatasets
    Queries <- MCQueries
INVARIANTS
    ListRulesMatchLoops
    PatchesCompose
    PostDecodesAsPatch
    OverrideTakesEffect
    ExactCodeFirst
    LongerQueryNarrows
    PopularIsDetermined
