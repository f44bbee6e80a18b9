\* Two deletes that fail one after the other.
SPECIFICATION Spec
CONSTANTS
    a = a
    b = b
    Ids <- MCIds
    Null = Null
    Changes <- MCDeletes
    Elsewhere <- MCElsewhere
    MaxTaps = 2
PROPERTIES
    VanishesForAReason
