\* Three airports, five texts, two blur timers at once.
SPECIFICATION Spec
CONSTANTS
    Chars <- MCChars
    Space = 32
    Hyphen = 45
    Slash = 47
    Capitals <- MCCapitals
    SearchLimit = 2
    BrowseLimit = 2
    FoldChar <- MCFold
    UpperChar <- MCUpperChar
    all <- MCAll
    popular <- MCPopular
    Texts <- MCTexts
    exclude <- MCExclude
    max = 2
    MaxBlurs = 2
INVARIANTS
    TypeOK
    FocusShowsList
    NoMatchesIsTrue
PROPERTIES
    CatchesUp
