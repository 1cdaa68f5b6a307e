\* Two sessions edit the same code: what they save may be lost, every script ends.
SPECIFICATION FairSpec
CONSTANTS
    s1 = s1
    s2 = s2
    short = short
    long = long
    Codes <- MCOneCode
    Texts <- MCTexts
    Size <- MCSize
    Empty = Empty
    Garbled = Garbled
    Absent = Absent
    Unset = Unset
    Nobody = Nobody
    Inodes = {1, 2, 3}
    Sessions <- MCTwo
    MaxCrashes = 0
    MayEdit <- MCAnyCode
INVARIANT
    TypeOK
PROPERTY
    PagesEnd
