\* The cached parser keeps the registry it was built with when a schema is saved.
SPECIFICATION Spec
CONSTANTS
    s1 = s1
    s2 = s2
    short = short
    long = long
    Codes <- MCOneCode
    Texts <- MCTexts
    Size <- MCSize
    Empty = Empty
    Garbled = Garbled
    Absent = Absent
    Unset = Unset
    Nobody = Nobody
    Inodes = {1, 2}
    Sessions <- MCOne
    MaxCrashes = 0
    MayEdit <- MCAnyCode
INVARIANT
    ParserFresh
