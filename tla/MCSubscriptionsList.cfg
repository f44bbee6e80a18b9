\* Two watches, two changes in flight.
SPECIFICATION Spec
CONSTANTS
    a = a
    b = b
    Ids <- MCIds
    Null = Null
    Changes <- MCChanges
    Elsewhere <- MCElsewhere
    MaxTaps = 2
INVARIANTS
    TypeOK
    QuietListIsCurrent
PROPERTIES
    SettlesDown
